----------------------------- MODULE DevicePool -----------------------------
(***************************************************************************)
(* The simulated devices of DevicePoolModule.cpp as pure operators: the    *)
(* record each make... function builds, what a command does to a record    *)
(* and what one tick of execute makes of it.                               *)
(*                                                                         *)
(* Each device of the pool has a type of its own, so the type stands for   *)
(* the id.  Of a record only the fields that something depends on are kept *)
(* (name, location and lastSeen are not); of the telemetry, what follows   *)
(* from the status, the settings or a threshold on the tick, and not the   *)
(* readings that merely vary with it (voltage, battery, co2, ...).         *)
(* Temperatures are in tenths of a degree: every double the code compares  *)
(* is a multiple of 0.1, and its comparisons agree with the exact ones.    *)
(***************************************************************************)
EXTENDS Integers

CONSTANT WaterPeriod   \* ticks between two simulated leaks: 24 in the code

ASSUME WaterPeriodAssumption == WaterPeriod \in Nat \ {0}

-----------------------------------------------------------------------------

NoCommand == ""   \* lastCommand.empty()

SupportedCommands ==
  [ thermostat     |-> {"restart", "eco_mode", "comfort_mode"},
    relay          |-> {"turn_on", "turn_off", "restart"},
    power_meter    |-> {"restart", "reset_energy"},
    contact_sensor |-> {"restart", "calibrate"},
    leak_sensor    |-> {"restart", "silence_alarm"},
    air_quality    |-> {"restart", "calibrate"},
    smart_plug     |-> {"turn_on", "turn_off", "restart", "reset_energy"} ]

DeviceTypes == {"thermostat", "relay", "power_meter", "contact_sensor",
                "leak_sensor", "air_quality", "smart_plug"}

Commands == {"turn_on", "turn_off", "restart", "eco_mode", "comfort_mode",
             "silence_alarm", "reset_energy", "calibrate"}

Statuses == {"online", "on", "off", "warning"}

EcoTemperature     == 190   \* the thermostat's ecoTemperature
ComfortTemperature == 220   \* its comfortTemperature, and the default target
MeterEnergy        == 124   \* tenths of a kWh on the meter at the start
PlugEnergy         == 21    \* the same for the plug

(* A missing key of the JSON object settings reads as the default that the *)
(* code passes to value(): 22.0 for the target, false for the two flags.   *)
DefaultSettings == [targetTemperature |-> ComfortTemperature,
                    energyReset       |-> FALSE,
                    calibrated        |-> FALSE]

Settings == [targetTemperature : {EcoTemperature, ComfortTemperature},
             energyReset       : BOOLEAN,
             calibrated        : BOOLEAN]

Telemetry == [targetTemperature : {EcoTemperature, ComfortTemperature},
              heating           : BOOLEAN]
        \cup [state : Statuses]
        \cup [energyBase : {0, MeterEnergy}]
        \cup [open : BOOLEAN]
        \cup [waterDetected : BOOLEAN]
        \cup [state : {"on", "off"}, powered : BOOLEAN, energyBase : {0, PlugEnergy}]
        \cup {[readings |-> "sampled"]}

DeviceInfo == [type              : DeviceTypes,
               status            : Statuses,
               telemetry         : Telemetry,
               supportedCommands : SUBSET Commands,
               settings          : Settings,
               lastCommand       : Commands \cup {NoCommand}]

-----------------------------------------------------------------------------

InitialStatus(t) ==
  CASE t = "relay"      -> "off"
    [] t = "smart_plug" -> "on"
    [] OTHER            -> "online"

InitialTelemetry(t) ==
  CASE t = "thermostat"     -> [targetTemperature |-> ComfortTemperature, heating |-> FALSE]
    [] t = "relay"          -> [state |-> "off"]
    [] t = "power_meter"    -> [energyBase |-> MeterEnergy]
    [] t = "contact_sensor" -> [open |-> FALSE]
    [] t = "leak_sensor"    -> [waterDetected |-> FALSE]
    [] t = "air_quality"    -> [readings |-> "sampled"]
    [] t = "smart_plug"     -> [state |-> "on", powered |-> TRUE, energyBase |-> PlugEnergy]

(* makeThermostat, makeRelay, ..., makeSmartPlug. *)
MakeDevice(t) ==
  [ type              |-> t,
    status            |-> InitialStatus(t),
    telemetry         |-> InitialTelemetry(t),
    supportedCommands |-> SupportedCommands[t],
    settings          |-> DefaultSettings,
    lastCommand       |-> NoCommand ]

Supports(device, command) == command \in device.supportedCommands

(* What the if-chain of applyCommand makes of the status and the settings. *)
CommandedStatus(device) ==
  CASE device.lastCommand = "turn_on"                       -> "on"
    [] device.lastCommand = "turn_off"                      -> "off"
    [] device.lastCommand \in {"restart", "silence_alarm"}  -> "online"
    [] OTHER                                                -> device.status

CommandedSettings(device) ==
  CASE device.lastCommand = "eco_mode" ->
         [device.settings EXCEPT !.targetTemperature = EcoTemperature]
    [] device.lastCommand = "comfort_mode" ->
         [device.settings EXCEPT !.targetTemperature = ComfortTemperature]
    [] device.lastCommand = "reset_energy" ->
         [device.settings EXCEPT !.energyReset = TRUE]
    [] device.lastCommand = "calibrate" ->
         [device.settings EXCEPT !.calibrated = TRUE]
    [] OTHER -> device.settings

(* A mistaken applyCommand, without the final clear(). *)
ApplyCommandKeepingIt(device) ==
  IF Supports(device, device.lastCommand)
  THEN [device EXCEPT !.status   = CommandedStatus(device),
                      !.settings = CommandedSettings(device)]
  ELSE device

(* applyCommand: an empty or an unsupported command returns before the     *)
(* final clear(), so an unsupported one would stay in the record.          *)
ApplyCommand(device) ==
  IF Supports(device, device.lastCommand)
  THEN [device EXCEPT !.status      = CommandedStatus(device),
                      !.settings    = CommandedSettings(device),
                      !.lastCommand = NoCommand]
  ELSE device

-----------------------------------------------------------------------------

WaterDetected(tick) == tick % WaterPeriod = 0

(* Only the leak sensor's branch of execute writes the status. *)
SampledStatus(device, tick) ==
  CASE device.type = "leak_sensor" /\ WaterDetected(tick) -> "warning"
    [] device.type = "leak_sensor" /\ ~WaterDetected(tick) /\ device.status = "warning"
                                                          -> "online"
    [] OTHER                                              -> device.status

SampledTelemetry(device, tick) ==
  LET temperature == 210 + 2 * (tick % 10)
      target      == device.settings.targetTemperature
      active      == device.status # "off"
      reset       == device.settings.energyReset
  IN CASE device.type = "thermostat" ->
            [targetTemperature |-> target, heating |-> temperature < target - 2]
       [] device.type = "relay"          -> [state |-> device.status]
       [] device.type = "power_meter"    -> [energyBase |-> IF reset THEN 0 ELSE MeterEnergy]
       [] device.type = "contact_sensor" -> [open |-> (tick \div 8) % 2 = 1]
       [] device.type = "leak_sensor"    -> [waterDetected |-> WaterDetected(tick)]
       [] device.type = "air_quality"    -> [readings |-> "sampled"]
       [] device.type = "smart_plug"     ->
            [state      |-> IF active THEN "on" ELSE "off",
             powered    |-> active,
             energyBase |-> IF reset THEN 0 ELSE PlugEnergy]

Sample(device, tick) ==
  [device EXCEPT !.status    = SampledStatus(device, tick),
                 !.telemetry = SampledTelemetry(device, tick)]

(* A mistaken loop body, with the two halves in the other order. *)
SampleThenApply(device, tick) == ApplyCommand(Sample(device, tick))

(* The body of execute's loop for one device of the list: the command      *)
(* first, so that the telemetry of this tick already shows its effect.     *)
ExecuteOn(device, tick) == Sample(ApplyCommand(device), tick)

-----------------------------------------------------------------------------

(* What a client reads in the telemetry of a device agrees with its status *)
(* and its settings.                                                       *)
Consistent(device) ==
  CASE device.type = "thermostat" ->
         device.telemetry.targetTemperature = device.settings.targetTemperature
    [] device.type = "relay" ->
         device.telemetry.state = device.status
    [] device.type = "power_meter" ->
         device.settings.energyReset <=> device.telemetry.energyBase = 0
    [] device.type = "leak_sensor" ->
         device.telemetry.waterDetected <=> device.status = "warning"
    [] device.type = "smart_plug" ->
         /\ device.telemetry.powered <=> device.status # "off"
         /\ device.telemetry.powered <=> device.telemetry.state = "on"
         /\ device.settings.energyReset <=> device.telemetry.energyBase = 0
    [] OTHER -> TRUE
=============================================================================
