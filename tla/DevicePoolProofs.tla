-------------------------- MODULE DevicePoolProofs --------------------------
(***************************************************************************)
(* What the operators on one device record return, for every record, every *)
(* tick and every period: the lemmas the proofs about the hub rest on.     *)
(***************************************************************************)
EXTENDS DevicePool, TLAPS

(* The fields of a record, one by one. *)
LEMMA Fields ==
  ASSUME NEW d \in DeviceInfo
  PROVE  /\ d.type \in DeviceTypes
         /\ d.status \in Statuses
         /\ d.telemetry \in Telemetry
         /\ d.supportedCommands \in SUBSET Commands
         /\ d.settings \in Settings
         /\ d.lastCommand \in Commands \cup {NoCommand}
BY DEF DeviceInfo

(* The record that make... builds is a device, has no command pending and  *)
(* its telemetry agrees with its status and settings.                      *)
LEMMA MadeDevice ==
  ASSUME NEW t \in DeviceTypes
  PROVE  /\ MakeDevice(t) \in DeviceInfo
         /\ MakeDevice(t).lastCommand = NoCommand
         /\ Consistent(MakeDevice(t))
<1>1. InitialStatus(t) \in Statuses
  BY DEF InitialStatus, Statuses
<1>2. InitialTelemetry(t) \in Telemetry
  BY DEF InitialTelemetry, Telemetry, DeviceTypes, Statuses, MeterEnergy, PlugEnergy,
         EcoTemperature, ComfortTemperature
<1>3. SupportedCommands[t] \in SUBSET Commands
  BY DEF SupportedCommands, Commands, DeviceTypes
<1>4. DefaultSettings \in Settings
  BY DEF DefaultSettings, Settings, EcoTemperature, ComfortTemperature
<1>5. MakeDevice(t) \in DeviceInfo
  BY <1>1, <1>2, <1>3, <1>4 DEF MakeDevice, DeviceInfo
<1>6. Consistent(MakeDevice(t))
  BY DEF Consistent, MakeDevice, InitialStatus, InitialTelemetry, DefaultSettings,
         DeviceTypes, MeterEnergy, PlugEnergy, EcoTemperature, ComfortTemperature
<1> QED BY <1>5, <1>6 DEF MakeDevice

(* A command changes the status, the settings and the pending command, and *)
(* a supported one is no longer pending afterwards.                        *)
LEMMA AppliedCommand ==
  ASSUME NEW d \in DeviceInfo
  PROVE  /\ ApplyCommand(d) \in DeviceInfo
         /\ ApplyCommand(d).type = d.type
         /\ ApplyCommand(d).supportedCommands = d.supportedCommands
         /\ d.lastCommand \in d.supportedCommands \cup {NoCommand}
              => ApplyCommand(d).lastCommand = NoCommand
<1>1. CommandedStatus(d) \in Statuses
  BY Fields DEF CommandedStatus, Statuses
<1>2. CommandedSettings(d) \in Settings
  <2>1. d.settings \in Settings
    BY Fields
  <2>2. /\ [d.settings EXCEPT !.targetTemperature = EcoTemperature] \in Settings
        /\ [d.settings EXCEPT !.targetTemperature = ComfortTemperature] \in Settings
    BY <2>1 DEF Settings
  <2>3. /\ [d.settings EXCEPT !.energyReset = TRUE] \in Settings
        /\ [d.settings EXCEPT !.calibrated = TRUE] \in Settings
    BY <2>1 DEF Settings
  <2> QED BY <2>1, <2>2, <2>3 DEF CommandedSettings
<1>3. ApplyCommand(d) \in DeviceInfo
  BY <1>1, <1>2 DEF ApplyCommand, DeviceInfo
<1> QED BY <1>3 DEF ApplyCommand, Supports, DeviceInfo, NoCommand

(* A tick changes the status and the telemetry, and makes them agree with  *)
(* each other and with the settings.                                       *)
LEMMA SampledDevice ==
  ASSUME NEW d \in DeviceInfo, NEW tick \in Nat
  PROVE  /\ Sample(d, tick) \in DeviceInfo
         /\ Sample(d, tick).type = d.type
         /\ Sample(d, tick).supportedCommands = d.supportedCommands
         /\ Sample(d, tick).lastCommand = d.lastCommand
         /\ Consistent(Sample(d, tick))
<1>1. SampledStatus(d, tick) \in Statuses
  BY Fields DEF SampledStatus, Statuses
<1>2. SampledTelemetry(d, tick) \in Telemetry
  <2>1. d.settings.targetTemperature \in {EcoTemperature, ComfortTemperature}
    BY Fields DEF Settings
  <2>2. d.status \in Statuses /\ d.type \in DeviceTypes
    BY Fields
  <2>3. \A x, y \in Int : (x < y) \in BOOLEAN
    OBVIOUS
  <2> QED BY <2>1, <2>2 DEF SampledTelemetry, Telemetry, DeviceTypes, MeterEnergy, PlugEnergy, WaterDetected
<1>3. Sample(d, tick) \in DeviceInfo
  BY <1>1, <1>2 DEF Sample, DeviceInfo
<1>4. Consistent(Sample(d, tick))
  <2> DEFINE s == Sample(d, tick)
  <2> SUFFICES Consistent(s)
    OBVIOUS
  <2>1. /\ s.type = d.type
        /\ s.status = SampledStatus(d, tick)
        /\ s.telemetry = SampledTelemetry(d, tick)
        /\ s.settings = d.settings
    BY DEF Sample, DeviceInfo
  <2>2. d.settings.energyReset \in BOOLEAN
    BY Fields DEF Settings
  <2> HIDE DEF s
  <2>3. CASE d.type = "leak_sensor"
    <3>1. s.telemetry.waterDetected = WaterDetected(tick)
      BY <2>1, <2>3 DEF SampledTelemetry
    <3>2. WaterDetected(tick) <=> s.status = "warning"
      BY <2>1, <2>3 DEF SampledStatus
    <3> QED BY <2>1, <2>3, <3>1, <3>2 DEF Consistent
  <2>4. CASE d.type = "power_meter"
    BY <2>1, <2>2, <2>4 DEF Consistent, SampledTelemetry, MeterEnergy
  <2>5. CASE d.type = "smart_plug"
    <3>1. s.status = d.status
      BY <2>1, <2>5 DEF SampledStatus
    <3>2. /\ s.telemetry.powered = (d.status # "off")
          /\ s.telemetry.state = IF d.status # "off" THEN "on" ELSE "off"
          /\ s.telemetry.energyBase = IF d.settings.energyReset THEN 0 ELSE PlugEnergy
      BY <2>1, <2>5 DEF SampledTelemetry
    <3>3. s.telemetry.powered <=> s.status # "off"
      BY <3>1, <3>2
    <3>4. s.telemetry.powered <=> s.telemetry.state = "on"
      BY <3>2
    <3>5. s.settings.energyReset <=> s.telemetry.energyBase = 0
      BY <2>1, <2>2, <3>2 DEF PlugEnergy
    <3> QED BY <2>1, <2>5, <3>3, <3>4, <3>5 DEF Consistent
  <2>6. CASE d.type \notin {"leak_sensor", "power_meter", "smart_plug"}
    BY <2>1, <2>6 DEF Consistent, SampledTelemetry, SampledStatus
  <2> QED BY <2>3, <2>4, <2>5, <2>6
<1> QED BY <1>3, <1>4 DEF Sample, DeviceInfo

(* One turn of execute's loop keeps the kind of the device, leaves no      *)
(* supported command pending and makes the record consistent.              *)
LEMMA ExecutedDevice ==
  ASSUME NEW d \in DeviceInfo, NEW tick \in Nat
  PROVE  /\ ExecuteOn(d, tick) \in DeviceInfo
         /\ ExecuteOn(d, tick).type = d.type
         /\ ExecuteOn(d, tick).supportedCommands = d.supportedCommands
         /\ d.lastCommand \in d.supportedCommands \cup {NoCommand}
              => ExecuteOn(d, tick).lastCommand = NoCommand
         /\ Consistent(ExecuteOn(d, tick))
<1>1. ApplyCommand(d) \in DeviceInfo
  BY AppliedCommand
<1> QED BY <1>1, AppliedCommand, SampledDevice DEF ExecuteOn
=============================================================================
