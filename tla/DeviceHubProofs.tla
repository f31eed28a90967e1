-------------------------- MODULE DeviceHubProofs ---------------------------
(***************************************************************************)
(* Proofs of the properties of DeviceHub, for every set of devices, every  *)
(* set of requests, every leak period and every width of the tick: safety, *)
(* the refinement of HubService, what may become of the command in a       *)
(* record, the only time of a wrong status, and that commands and requests *)
(* come to their end.                                                      *)
(***************************************************************************)
EXTENDS DeviceHub, DevicePoolProofs, FiniteSetTheorems

(* How far the start has come is known from either thread: clients are     *)
(* served only once every device is in the registry.                       *)
Phases == /\ (poolPc = "start") <=> (ioPc = "down")
          /\ poolPc # "start" => DOMAIN devices = Device

(* Between its check and its store a send-command is still the request.    *)
StoresCommand == ioPc = "store" => request.type = "send-command"

Served == ioPc \in {"handle", "store", "reply"} => request \in Requests

(* Each safety property needs the others: a write-back keeps the registry  *)
(* consistent because it re-samples, keeps PendingIsSupported because the  *)
(* copy differs from the record in nothing but the pending command, and    *)
(* keeps ValidatedStaysValid because it keeps what the device supports.    *)
IInv == /\ TypeOK
        /\ Phases
        /\ Served
        /\ StoresCommand
        /\ PendingIsSupported
        /\ SnapshotCurrent
        /\ ShownDevicesConsistent
        /\ ValidatedStaysValid

-----------------------------------------------------------------------------
(* What the operations of the registry leave behind.                       *)

LEMMA UpdatedRegistry ==
  ASSUME NEW id \in Device, NEW device \in DeviceInfo,
         IsRegistry(devices), UpdateOrInsert(id, device)
  PROVE  /\ IsRegistry(devices')
         /\ DOMAIN devices' = DOMAIN devices \cup {id}
         /\ devices'[id] = device
         /\ \A i \in DOMAIN devices \ {id} : devices'[i] = devices[i]
BY DEF UpdateOrInsert, IsRegistry

LEMMA CommandedRegistry ==
  ASSUME NEW id \in DOMAIN devices, NEW command \in Commands,
         IsRegistry(devices), SendCommand(id, command)
  PROVE  /\ IsRegistry(devices')
         /\ DOMAIN devices' = DOMAIN devices
         /\ devices'[id] = [devices[id] EXCEPT !.lastCommand = command]
         /\ devices'[id] \in DeviceInfo
         /\ \A i \in DOMAIN devices \ {id} : devices'[i] = devices[i]
<1>1. devices[id] \in DeviceInfo
  BY DEF IsRegistry
<1>2. [devices[id] EXCEPT !.lastCommand = command] \in DeviceInfo
  BY <1>1 DEF DeviceInfo
<1> QED BY <1>1, <1>2 DEF SendCommand, IsRegistry

(* The pending command is the only field of the record that sendCommand    *)
(* writes, and nothing that makes a record consistent depends on it.       *)
LEMMA CommandedDevice ==
  ASSUME NEW d \in DeviceInfo, NEW command \in Commands \cup {NoCommand}
  PROVE  LET e == [d EXCEPT !.lastCommand = command]
         IN  /\ e.lastCommand = command
             /\ e.supportedCommands = d.supportedCommands
             /\ Consistent(d) => Consistent(e)
<1> DEFINE e == [d EXCEPT !.lastCommand = command]
<1>1. /\ e.type = d.type
      /\ e.status = d.status
      /\ e.telemetry = d.telemetry
      /\ e.supportedCommands = d.supportedCommands
      /\ e.settings = d.settings
      /\ e.lastCommand = command
  BY DEF DeviceInfo
<1> HIDE DEF e
<1>2. Consistent(d) => Consistent(e)
  BY <1>1 DEF Consistent
<1> QED BY <1>1, <1>2 DEF e

-----------------------------------------------------------------------------

LEMMA InitIInv == Init => IInv
<1> SUFFICES ASSUME Init PROVE IInv
  OBVIOUS
<1>1. DOMAIN devices = {} /\ DOMAIN snapshot = {}
  BY DEF Init
<1>2. IsRegistry(devices) /\ IsRegistry(snapshot)
  BY <1>1 DEF Init, IsRegistry
<1>3. TypeOK
  <2>1. tick \in 0 .. TickModulus - 1
    BY TickAssumption DEF Init
  <2>2. response \in Responses
    BY DEF Init, Responses
  <2> QED BY <1>2, <2>1, <2>2 DEF Init, TypeOK
<1>4. Phases /\ Served /\ StoresCommand /\ ValidatedStaysValid
  BY DEF Init, Phases, Served, StoresCommand, ValidatedStaysValid
<1>5. PendingIsSupported /\ SnapshotCurrent /\ ShownDevicesConsistent
  BY <1>1 DEF Init, PendingIsSupported, SnapshotCurrent, ShownDevicesConsistent
<1> QED BY <1>3, <1>4, <1>5 DEF IInv

-----------------------------------------------------------------------------
(* The steps of the main thread.                                           *)

LEMMA EnsureDeviceIInv ==
  ASSUME IInv, NEW d \in Device, EnsureDevice(d)
  PROVE  IInv'
<1>1. MakeDevice(d) \in DeviceInfo /\ MakeDevice(d).lastCommand = NoCommand
                                   /\ Consistent(MakeDevice(d))
  BY MadeDevice, DeviceAssumption
<1>2. /\ IsRegistry(devices')
      /\ DOMAIN devices' = DOMAIN devices \cup {d}
      /\ devices'[d] = MakeDevice(d)
      /\ \A i \in DOMAIN devices : devices'[i] = devices[i]
  BY <1>1, UpdatedRegistry DEF EnsureDevice, IInv, TypeOK, Known
<1>3. ioPc = "down"
  BY DEF EnsureDevice, IInv, Phases
<1> USE DEF EnsureDevice, mainVars, ioVars
<1>4. TypeOK' /\ Phases' /\ Served' /\ StoresCommand' /\ ValidatedStaysValid'
  BY <1>2, <1>3 DEF IInv, TypeOK, Phases, Served, StoresCommand, ValidatedStaysValid
<1>5. PendingIsSupported'
  BY <1>1, <1>2 DEF IInv, PendingIsSupported
<1>6. SnapshotCurrent'
  BY <1>2 DEF IInv, SnapshotCurrent, Known
<1>7. ShownDevicesConsistent'
  BY <1>1, <1>2, <1>3 DEF IInv, ShownDevicesConsistent
<1> QED BY <1>4, <1>5, <1>6, <1>7 DEF IInv

(* Neither the start of the server nor the end of execute touches a record.*)
LEMMA PhaseStepIInv ==
  ASSUME IInv, StartIpcServer \/ SetIpcRunning \/ FinishExecute
  PROVE  IInv'
<1> USE DEF StartIpcServer, SetIpcRunning, FinishExecute, ioVars
<1>1. UNCHANGED <<devices, tick, snapshot, request, response>>
  OBVIOUS
<1>2. TypeOK'
  BY <1>1 DEF IInv, TypeOK, IsRegistry
<1>3. Phases'
  BY DEF IInv, Phases
<1>4. (ioPc' = ioPc) \/ (ioPc' = "idle")
  OBVIOUS
<1>5. Served' /\ StoresCommand' /\ ValidatedStaysValid'
  BY <1>1, <1>4 DEF IInv, Served, StoresCommand, ValidatedStaysValid, Known
<1>6. PendingIsSupported' /\ SnapshotCurrent'
  BY <1>1 DEF IInv, PendingIsSupported, SnapshotCurrent, Known
<1>7. ShownDevicesConsistent'
  BY <1>1, <1>4 DEF IInv, ShownDevicesConsistent
<1> QED BY <1>2, <1>3, <1>5, <1>6, <1>7 DEF IInv

LEMMA ListDevicesIInv ==
  ASSUME IInv, ListDevices
  PROVE  IInv'
<1> USE DEF ListDevices, ioVars
<1>1. tick' \in 0 .. TickModulus - 1
  BY TickAssumption DEF IInv, TypeOK
<1>2. TypeOK'
  BY <1>1 DEF IInv, TypeOK, IsRegistry
<1>3. Phases' /\ Served' /\ StoresCommand' /\ ValidatedStaysValid'
  BY DEF IInv, Phases, Served, StoresCommand, ValidatedStaysValid, Known
<1>4. PendingIsSupported'
  BY DEF IInv, PendingIsSupported
<1>5. SnapshotCurrent'
  <2> SUFFICES ASSUME NEW d \in DOMAIN devices
               PROVE  [devices[d] EXCEPT !.lastCommand = devices[d].lastCommand] = devices[d]
    BY DEF SnapshotCurrent, Known
  <2>1. devices[d] \in DeviceInfo
    BY DEF IInv, TypeOK, IsRegistry
  <2> QED BY <2>1 DEF DeviceInfo
<1>6. ShownDevicesConsistent'
  BY DEF IInv, ShownDevicesConsistent
<1> QED BY <1>2, <1>3, <1>4, <1>5, <1>6 DEF IInv

(* What SnapshotCurrent is for: a copy has the kind of the record it is    *)
(* about to replace.                                                       *)
LEMMA SnapshotKind ==
  ASSUME TypeOK, SnapshotCurrent, NEW d \in DOMAIN snapshot
  PROVE  /\ d \in DOMAIN devices
         /\ snapshot[d].type = devices[d].type
         /\ snapshot[d].supportedCommands = devices[d].supportedCommands
<1>1. d \in DOMAIN devices
  BY DEF SnapshotCurrent, Known
<1>2. [snapshot[d] EXCEPT !.lastCommand = devices[d].lastCommand] = devices[d]
  BY DEF SnapshotCurrent
<1>3. snapshot[d] \in DeviceInfo
  BY DEF TypeOK, IsRegistry
<1> QED BY <1>1, <1>2, <1>3 DEF DeviceInfo

(* What one turn of execute's loop does to the registry. *)
LEMMA WrittenBack ==
  ASSUME IInv, NEW d \in Device, WriteBack(d)
  PROVE  /\ IsRegistry(devices')
         /\ d \in DOMAIN devices
         /\ DOMAIN devices' = DOMAIN devices
         /\ devices'[d].type = devices[d].type
         /\ devices'[d].supportedCommands = devices[d].supportedCommands
         /\ devices'[d].lastCommand = NoCommand
         /\ Consistent(devices'[d])
         /\ \A i \in DOMAIN devices \ {d} : devices'[i] = devices[i]
         /\ DOMAIN snapshot' = DOMAIN snapshot \ {d}
         /\ \A i \in DOMAIN snapshot' : snapshot'[i] = snapshot[i]
         /\ IsRegistry(snapshot')
<1>1. d \in DOMAIN snapshot /\ snapshot[d] \in DeviceInfo /\ tick \in Nat
  BY TickAssumption DEF WriteBack, IInv, TypeOK, IsRegistry
<1>2. /\ d \in DOMAIN devices
      /\ snapshot[d].type = devices[d].type
      /\ snapshot[d].supportedCommands = devices[d].supportedCommands
  BY <1>1, SnapshotKind DEF IInv
<1>3. snapshot[d].lastCommand \in snapshot[d].supportedCommands \cup {NoCommand}
  BY <1>1 DEF IInv, PendingIsSupported
<1> DEFINE written == ExecuteOn(snapshot[d], tick)
<1>4. /\ written \in DeviceInfo
      /\ written.type = snapshot[d].type
      /\ written.supportedCommands = snapshot[d].supportedCommands
      /\ written.lastCommand = NoCommand
      /\ Consistent(written)
  BY <1>1, <1>3, ExecutedDevice
<1>5. UpdateOrInsert(d, written)
  BY DEF WriteBack
<1> HIDE DEF written
<1>6. /\ IsRegistry(devices')
      /\ DOMAIN devices' = DOMAIN devices \cup {d}
      /\ devices'[d] = written
      /\ \A i \in DOMAIN devices \ {d} : devices'[i] = devices[i]
  BY <1>4, <1>5, UpdatedRegistry DEF IInv, TypeOK
<1>7. /\ DOMAIN snapshot' = DOMAIN snapshot \ {d}
      /\ \A i \in DOMAIN snapshot' : snapshot'[i] = snapshot[i]
      /\ IsRegistry(snapshot')
  BY DEF WriteBack, IInv, TypeOK, IsRegistry
<1> QED BY <1>2, <1>4, <1>6, <1>7

LEMMA WriteBackIInv ==
  ASSUME IInv, NEW d \in Device, WriteBack(d)
  PROVE  IInv'
<1>1. /\ IsRegistry(devices')
      /\ DOMAIN devices' = DOMAIN devices
      /\ devices'[d].supportedCommands = devices[d].supportedCommands
      /\ devices'[d].lastCommand = NoCommand
      /\ Consistent(devices'[d])
      /\ \A i \in DOMAIN devices \ {d} : devices'[i] = devices[i]
      /\ DOMAIN snapshot' = DOMAIN snapshot \ {d}
      /\ \A i \in DOMAIN snapshot' : snapshot'[i] = snapshot[i]
      /\ IsRegistry(snapshot')
  BY WrittenBack
<1>2. UNCHANGED <<poolPc, tick, ipcRunning, ioPc, request, response>>
  BY DEF WriteBack, ioVars
<1>3. TypeOK'
  BY <1>1, <1>2 DEF IInv, TypeOK
<1>4. Phases' /\ Served' /\ StoresCommand'
  BY <1>1, <1>2 DEF IInv, Phases, Served, StoresCommand
<1>5. ValidatedStaysValid'
  BY <1>1, <1>2 DEF IInv, ValidatedStaysValid, Known, Supports
<1>6. PendingIsSupported'
  <2>1. PendingIsSupported
    BY DEF IInv
  <2> QED
    BY <1>1, <2>1 DEF PendingIsSupported
<1>7. SnapshotCurrent'
  <2>1. SnapshotCurrent
    BY DEF IInv
  <2> QED
    BY <1>1, <2>1 DEF SnapshotCurrent, Known
<1>8. ShownDevicesConsistent'
  BY <1>1, <1>2 DEF IInv, ShownDevicesConsistent
<1> QED BY <1>3, <1>4, <1>5, <1>6, <1>7, <1>8 DEF IInv

-----------------------------------------------------------------------------
(* The steps of the I/O thread.                                            *)

(* What is said of the devices survives a step that leaves them and the    *)
(* copies of execute alone. *)
LEMMA HandlerFrame ==
  ASSUME IInv, UNCHANGED <<devices, mainVars>>
  PROVE  /\ IsRegistry(devices') /\ IsRegistry(snapshot')
         /\ (poolPc \in {"start", "listen", "idle", "execute"})'
         /\ (tick \in 0 .. TickModulus - 1)'
         /\ (ipcRunning \in BOOLEAN)'
         /\ PendingIsSupported'
         /\ SnapshotCurrent'
         /\ (\A d \in DOMAIN devices : Consistent(devices[d]))'
<1> USE DEF mainVars
<1>1. PendingIsSupported'
  BY DEF IInv, PendingIsSupported
<1>2. SnapshotCurrent'
  BY DEF IInv, SnapshotCurrent, Known
<1> QED BY <1>1, <1>2 DEF IInv, TypeOK, IsRegistry, ShownDevicesConsistent

LEMMA ReceiveIInv ==
  ASSUME IInv, NEW req \in Requests, Receive(req)
  PROVE  IInv'
<1> USE DEF Receive, mainVars
<1>1. TypeOK'
  BY HandlerFrame DEF IInv, TypeOK
<1>2. Phases' /\ Served' /\ StoresCommand' /\ ValidatedStaysValid'
  BY DEF IInv, Phases, Served, StoresCommand, ValidatedStaysValid
<1>3. ShownDevicesConsistent'
  BY HandlerFrame DEF ShownDevicesConsistent
<1> QED BY <1>1, <1>2, <1>3, HandlerFrame DEF IInv

LEMMA ReplyIInv ==
  ASSUME IInv, Reply
  PROVE  IInv'
<1> USE DEF Reply, mainVars
<1>1. TypeOK'
  BY HandlerFrame DEF IInv, TypeOK, Responses
<1>2. Phases' /\ Served' /\ StoresCommand' /\ ValidatedStaysValid'
  BY DEF IInv, Phases, Served, StoresCommand, ValidatedStaysValid
<1>3. ShownDevicesConsistent'
  BY HandlerFrame DEF ShownDevicesConsistent
<1> QED BY <1>1, <1>2, <1>3, HandlerFrame DEF IInv

(* The invariant after a request is answered, from what the answer is. *)
LEMMA RespondIInv ==
  ASSUME IInv, ioPc \in {"handle", "store"}, UNCHANGED devices,
         NEW answer \in Responses, Respond(answer),
         answer.ok =>
           \/ /\ request.type = "list-devices"
              /\ DOMAIN answer.payload.devices = Device
              /\ \A d \in Device : Consistent(answer.payload.devices[d])
           \/ request.type = "get-device" /\ Consistent(answer.payload.device)
           \/ request.type \in {"send-command", "service-status"}
  PROVE  IInv'
<1> USE DEF Respond, mainVars
<1>1. TypeOK'
  BY HandlerFrame DEF IInv, TypeOK
<1>2. Phases' /\ Served' /\ StoresCommand' /\ ValidatedStaysValid'
  BY DEF IInv, Phases, Served, StoresCommand, ValidatedStaysValid
<1>3. ShownDevicesConsistent'
  BY HandlerFrame DEF ShownDevicesConsistent
<1> QED BY <1>1, <1>2, <1>3, HandlerFrame DEF IInv

LEMMA ErrorResponse ==
  ASSUME NEW m \in ErrorMessages
  PROVE  Error(m) \in Responses /\ ~Error(m).ok
BY DEF Responses, Error

(* An answer that reports an error needs nothing of the request. *)
LEMMA RespondErrorIInv ==
  ASSUME IInv, ioPc \in {"handle", "store"}, UNCHANGED devices,
         NEW m \in ErrorMessages, Respond(Error(m))
  PROVE  IInv'
BY ErrorResponse, RespondIInv

(* Once clients are served, the registry holds the whole pool. *)
LEMMA ServedFromWholePool ==
  ASSUME IInv, ioPc # "down"
  PROVE  DOMAIN devices = Device /\ devices \in [Device -> DeviceInfo]
BY DEF IInv, Phases, TypeOK, IsRegistry

LEMMA HandleListDevicesIInv ==
  ASSUME IInv, HandleListDevices
  PROVE  IInv'
<1> DEFINE answer == Success([devices |-> devices])
<1> USE DEF HandleListDevices, Handling
<1>1. DOMAIN devices = Device /\ devices \in [Device -> DeviceInfo]
  BY ServedFromWholePool
<1>2. answer \in Responses
  BY <1>1 DEF Success, Responses, Payloads
<1>3. answer.ok /\ answer.payload.devices = devices
  BY DEF Success
<1>4. \A d \in Device : Consistent(devices[d])
  BY <1>1 DEF IInv, ShownDevicesConsistent
<1>5. Respond(answer) /\ request.type = "list-devices" /\ ioPc = "handle" /\ UNCHANGED devices
  OBVIOUS
<1> HIDE DEF answer
<1> QED BY <1>1, <1>2, <1>3, <1>4, <1>5, RespondIInv

LEMMA HandleGetDeviceIInv ==
  ASSUME IInv, HandleGetDevice
  PROVE  IInv'
<1>1. ioPc = "handle" /\ request.type = "get-device" /\ UNCHANGED devices
  BY DEF HandleGetDevice, Handling
<1>2. CASE Respond(Error("deviceId is required"))
  BY <1>1, <1>2, RespondErrorIInv DEF ErrorMessages
<1>3. CASE Respond(Error("Device not found"))
  BY <1>1, <1>3, RespondErrorIInv DEF ErrorMessages
<1>4. CASE Known(request.deviceId) /\ Respond(Success([device |-> devices[request.deviceId]]))
  <2> DEFINE d == devices[request.deviceId]
             answer == Success([device |-> d])
  <2>1. d \in DeviceInfo /\ Consistent(d)
    BY <1>4 DEF Known, IInv, TypeOK, IsRegistry, ShownDevicesConsistent
  <2>2. answer \in Responses
    BY <2>1 DEF Success, Responses, Payloads
  <2>3. answer.payload.device = d
    BY DEF Success
  <2>4. Respond(answer)
    BY <1>4
  <2> HIDE DEF d, answer
  <2> QED BY <1>1, <2>1, <2>2, <2>3, <2>4, RespondIInv
<1> QED BY <1>2, <1>3, <1>4 DEF HandleGetDevice

LEMMA CheckCommandIInv ==
  ASSUME IInv, CheckCommand
  PROVE  IInv'
<1>1. ioPc = "handle" /\ request.type = "send-command" /\ UNCHANGED devices
  BY DEF CheckCommand, Handling
<1>2. CASE \E m \in ErrorMessages : Respond(Error(m))
  BY <1>1, <1>2, RespondErrorIInv
<1>3. CASE /\ Known(request.deviceId)
           /\ Supports(devices[request.deviceId], request.command)
           /\ ioPc' = "store"
           /\ UNCHANGED <<mainVars, request, response>>
  <2> USE <1>1, <1>3 DEF mainVars
  <2>1. TypeOK'
    BY HandlerFrame DEF IInv, TypeOK
  <2>2. Phases' /\ Served' /\ StoresCommand' /\ ValidatedStaysValid'
    BY DEF IInv, Phases, Served, StoresCommand, ValidatedStaysValid, Known, Supports
  <2>3. ShownDevicesConsistent'
    BY HandlerFrame DEF ShownDevicesConsistent
  <2> QED BY <2>1, <2>2, <2>3, HandlerFrame DEF IInv
<1> QED BY <1>2, <1>3 DEF CheckCommand, ErrorMessages

LEMMA HandleServiceStatusIInv ==
  ASSUME IInv, HandleServiceStatus
  PROVE  IInv'
<1> DEFINE answer == Success([running |-> ipcRunning, deviceIds |-> DOMAIN devices])
<1>1. /\ ioPc = "handle" /\ request.type = "service-status"
      /\ UNCHANGED devices /\ Respond(answer)
  BY DEF HandleServiceStatus, Handling
<1>2. DOMAIN devices = Device
  BY <1>1, ServedFromWholePool
<1>3. answer \in Responses
  BY <1>2 DEF Success, Responses, Payloads, IInv, TypeOK
<1> HIDE DEF answer
<1> QED BY <1>1, <1>3, RespondIInv

LEMMA HandleOtherTypeIInv ==
  ASSUME IInv, HandleOtherType
  PROVE  IInv'
BY RespondErrorIInv DEF HandleOtherType, ErrorMessages

(* What sendCommand does, on the strength of the check made earlier. *)
LEMMA CommandStored ==
  ASSUME IInv, StoreCommand
  PROVE  /\ request.deviceId \in Device
         /\ request.deviceId \in DOMAIN devices
         /\ request.command \in devices[request.deviceId].supportedCommands
         /\ request.command \in Commands
         /\ request.type = "send-command"
         /\ SendCommand(request.deviceId, request.command)
         /\ Respond(Success([deviceId |-> request.deviceId, command |-> request.command]))
<1>1. /\ Known(request.deviceId)
      /\ Supports(devices[request.deviceId], request.command)
      /\ request.type = "send-command"
  BY DEF StoreCommand, IInv, ValidatedStaysValid, StoresCommand
<1>2. request.deviceId \in Device /\ devices[request.deviceId] \in DeviceInfo
  BY <1>1 DEF Known, IInv, TypeOK, IsRegistry
<1>3. request.command \in Commands
  BY <1>1, <1>2 DEF Supports, DeviceInfo
<1> QED BY <1>1, <1>2, <1>3 DEF StoreCommand, Known, Supports

(* A command never equals the empty string, which stands for none. *)
LEMMA CommandsAreNamed == NoCommand \notin Commands
BY DEF NoCommand, Commands

LEMMA StoreCommandIInv ==
  ASSUME IInv, StoreCommand
  PROVE  IInv'
<1> DEFINE id == request.deviceId
           command == request.command
           answer == Success([deviceId |-> id, command |-> command])
<1>1. /\ id \in Device /\ id \in DOMAIN devices
      /\ command \in devices[id].supportedCommands
      /\ command \in Commands
      /\ request.type = "send-command"
      /\ SendCommand(id, command)
      /\ Respond(answer)
  BY CommandStored
<1>2. answer \in Responses
  BY <1>1 DEF Success, Responses, Payloads
<1> HIDE DEF id, command, answer
<1>3. devices[id] \in DeviceInfo
  BY <1>1 DEF IInv, TypeOK, IsRegistry
<1>4. /\ IsRegistry(devices')
      /\ DOMAIN devices' = DOMAIN devices
      /\ devices'[id] = [devices[id] EXCEPT !.lastCommand = command]
      /\ devices'[id] \in DeviceInfo
      /\ \A i \in DOMAIN devices \ {id} : devices'[i] = devices[i]
  BY <1>1, CommandedRegistry DEF IInv, TypeOK
<1>5. /\ devices'[id].lastCommand = command
      /\ devices'[id].supportedCommands = devices[id].supportedCommands
      /\ Consistent(devices[id]) => Consistent(devices'[id])
  BY <1>1, <1>3, <1>4, CommandedDevice
<1>6. /\ UNCHANGED <<poolPc, tick, snapshot, ipcRunning, request>>
      /\ ioPc' = "reply" /\ response' = answer
  BY <1>1 DEF Respond, mainVars
<1>7. TypeOK'
  BY <1>2, <1>4, <1>6 DEF IInv, TypeOK, IsRegistry
<1>8. Phases' /\ Served' /\ StoresCommand' /\ ValidatedStaysValid'
  BY <1>4, <1>6 DEF IInv, Phases, Served, StoresCommand, ValidatedStaysValid, StoreCommand
<1>9. PendingIsSupported'
  <2>1. PendingIsSupported /\ command \in devices'[id].supportedCommands
    BY <1>1, <1>5 DEF IInv
  <2> QED
    BY <1>4, <1>5, <1>6, <2>1 DEF PendingIsSupported
<1>10. SnapshotCurrent'
  <2> SUFFICES ASSUME NEW d \in DOMAIN snapshot
               PROVE  /\ d \in DOMAIN devices'
                      /\ [snapshot[d] EXCEPT !.lastCommand = devices'[d].lastCommand] = devices'[d]
                      /\ snapshot[d].lastCommand # NoCommand => devices'[d].lastCommand # NoCommand
    BY <1>6 DEF SnapshotCurrent, Known
  <2>1. /\ d \in DOMAIN devices
        /\ [snapshot[d] EXCEPT !.lastCommand = devices[d].lastCommand] = devices[d]
        /\ snapshot[d].lastCommand # NoCommand => devices[d].lastCommand # NoCommand
    BY DEF IInv, SnapshotCurrent, Known
  <2>2. CASE d # id
    BY <1>4, <2>1, <2>2
  <2>3. CASE d = id
    <3>1. snapshot[d] \in DeviceInfo
      BY DEF IInv, TypeOK, IsRegistry
    <3>2. [snapshot[d] EXCEPT !.lastCommand = command]
            = [[snapshot[d] EXCEPT !.lastCommand = devices[d].lastCommand]
                 EXCEPT !.lastCommand = command]
      BY <3>1 DEF DeviceInfo
    <3>3. devices'[d].lastCommand # NoCommand
      BY <1>1, <1>5, <2>3, CommandsAreNamed
    <3> QED BY <1>4, <1>5, <2>1, <2>3, <3>2, <3>3
  <2> QED BY <2>2, <2>3
<1>11. ShownDevicesConsistent'
  <2>1. \A d \in DOMAIN devices' : Consistent(devices'[d])
    BY <1>1, <1>4, <1>5 DEF IInv, ShownDevicesConsistent
  <2> QED BY <1>1, <1>6, <2>1 DEF ShownDevicesConsistent
<1> QED BY <1>7, <1>8, <1>9, <1>10, <1>11 DEF IInv

-----------------------------------------------------------------------------

LEMMA StutterIInv ==
  ASSUME IInv, UNCHANGED vars
  PROVE  IInv'
<1> USE DEF vars, ioVars
<1>1. TypeOK'
  BY HandlerFrame DEF IInv, TypeOK
<1>2. Phases' /\ Served' /\ StoresCommand' /\ ValidatedStaysValid'
  BY DEF IInv, Phases, Served, StoresCommand, ValidatedStaysValid, Known, mainVars
<1>3. ShownDevicesConsistent'
  BY DEF IInv, ShownDevicesConsistent
<1> QED BY <1>1, <1>2, <1>3, HandlerFrame DEF IInv

LEMMA NextIInv ==
  ASSUME IInv, [Next]_vars
  PROVE  IInv'
<1>1. ASSUME NEW d \in Device, EnsureDevice(d) PROVE IInv'
  BY <1>1, EnsureDeviceIInv
<1>2. ASSUME NEW d \in Device, WriteBack(d) PROVE IInv'
  BY <1>2, WriteBackIInv
<1>3. CASE StartIpcServer \/ SetIpcRunning \/ FinishExecute
  BY <1>3, PhaseStepIInv
<1>4. CASE ListDevices
  BY <1>4, ListDevicesIInv
<1>5. ASSUME NEW req \in Requests, Receive(req) PROVE IInv'
  BY <1>5, ReceiveIInv
<1>6. CASE HandleListDevices
  BY <1>6, HandleListDevicesIInv
<1>7. CASE HandleGetDevice
  BY <1>7, HandleGetDeviceIInv
<1>8. CASE CheckCommand
  BY <1>8, CheckCommandIInv
<1>9. CASE StoreCommand
  BY <1>9, StoreCommandIInv
<1>10. CASE HandleServiceStatus
  BY <1>10, HandleServiceStatusIInv
<1>11. CASE HandleOtherType
  BY <1>11, HandleOtherTypeIInv
<1>12. CASE Reply
  BY <1>12, ReplyIInv
<1>13. CASE UNCHANGED vars
  BY <1>13, StutterIInv
<1> QED BY <1>1, <1>2, <1>3, <1>4, <1>5, <1>6, <1>7, <1>8, <1>9, <1>10, <1>11, <1>12, <1>13
        DEF Next, MainStep, HandlerStep

(* The invariant holds in every state of the service. *)
THEOREM Invariance == Spec => []IInv
<1>1. Init => IInv
  BY InitIInv
<1>2. IInv /\ [Next]_vars => IInv'
  BY NextIInv
<1> QED BY <1>1, <1>2, PTL DEF Spec

(* The state always has its type, for every pool, request set and period.  *)
THEOREM TypeCorrect == Spec => []TypeOK
BY Invariance, PTL DEF IInv

(* No unsupported command ever gets into a record, so none is stranded.    *)
THEOREM PendingSupported == Spec => []PendingIsSupported
BY Invariance, PTL DEF IInv

(* The copies of execute never roll a record back and repeat no command.   *)
THEOREM SnapshotsCurrent == Spec => []SnapshotCurrent
BY Invariance, PTL DEF IInv

(* Clients are shown whole pools of consistent records.                    *)
THEOREM ShownConsistent == Spec => []ShownDevicesConsistent
BY Invariance, PTL DEF IInv

(* The check of send-command still holds when its command is stored.       *)
THEOREM ChecksStayValid == Spec => []ValidatedStaysValid
BY Invariance, PTL DEF IInv

-----------------------------------------------------------------------------
(* The hub implements HubService.                                          *)

(* The operators that both specifications take from DevicePool.            *)
LEMMA SamePool ==
  /\ Hub!NoCommand = NoCommand
  /\ Hub!NoRequest = NoRequest /\ Hub!NoResponse = NoResponse
  /\ \A m : Hub!Error(m) = Error(m)
  /\ \A p : Hub!Success(p) = Success(p)
<1> USE DEF Hub!NoCommand, NoCommand, Hub!NoRequest, NoRequest, Request,
            Hub!NoResponse, NoResponse, Hub!Error, Error, Hub!Success, Success
<1> QED OBVIOUS

LEMMA SameDeviceInfo == Hub!DeviceInfo = DeviceInfo
BY DEF Hub!DeviceInfo, DeviceInfo, Hub!DeviceTypes, DeviceTypes, Hub!Statuses, Statuses,
       Hub!Telemetry, Telemetry, Hub!Commands, Commands, Hub!Settings, Settings,
       Hub!NoCommand, NoCommand, Hub!EcoTemperature, EcoTemperature,
       Hub!ComfortTemperature, ComfortTemperature, Hub!MeterEnergy, MeterEnergy,
       Hub!PlugEnergy, PlugEnergy

LEMMA SameMakeDevice == \A t : Hub!MakeDevice(t) = MakeDevice(t)
BY DEF Hub!MakeDevice, MakeDevice, Hub!InitialStatus, InitialStatus, Hub!InitialTelemetry,
       InitialTelemetry, Hub!SupportedCommands, SupportedCommands, Hub!DefaultSettings,
       DefaultSettings, Hub!NoCommand, NoCommand, Hub!ComfortTemperature, ComfortTemperature,
       Hub!MeterEnergy, MeterEnergy, Hub!PlugEnergy, PlugEnergy

LEMMA SameConsistent == \A d : Hub!Consistent(d) <=> Consistent(d)
BY DEF Hub!Consistent, Consistent

LEMMA InitRefines == Init => Hub!Init
BY SamePool DEF Init, Hub!Init

(* The steps of the main thread that the clients can see ...               *)
LEMMA EnsureDeviceRefines ==
  ASSUME IInv, NEW d \in Device, EnsureDevice(d)
  PROVE  Hub!Add(d)
<1>1. ioPc = "down"
  BY DEF EnsureDevice, IInv, Phases
<1> QED BY <1>1, SameMakeDevice DEF EnsureDevice, UpdateOrInsert, Known, Hub!Add, mainVars, ioVars

LEMMA StartIpcServerRefines ==
  ASSUME IInv, StartIpcServer
  PROVE  Hub!Open
<1>1. ioPc = "down"
  BY DEF StartIpcServer, IInv, Phases
<1> QED BY <1>1 DEF StartIpcServer, Hub!Open

LEMMA SetIpcRunningRefines ==
  ASSUME IInv, SetIpcRunning
  PROVE  Hub!Up
<1>1. ioPc \in {"idle", "handle", "store", "reply"}
  BY DEF SetIpcRunning, IInv, Phases, TypeOK
<1> QED BY <1>1 DEF SetIpcRunning, Hub!Up, ioVars

(* ... of which one turn of execute's loop is a tick of one device.        *)
LEMMA WriteBackRefines ==
  ASSUME IInv, NEW d \in Device, WriteBack(d)
  PROVE  Hub!Tick(d)
<1>1. /\ IsRegistry(devices')
      /\ d \in DOMAIN devices
      /\ DOMAIN devices' = DOMAIN devices
      /\ devices'[d].type = devices[d].type
      /\ devices'[d].supportedCommands = devices[d].supportedCommands
      /\ devices'[d].lastCommand = NoCommand
      /\ Consistent(devices'[d])
      /\ \A i \in DOMAIN devices \ {d} : devices'[i] = devices[i]
  BY WrittenBack
<1>2. ioPc \in {"idle", "handle", "store", "reply"}
  BY DEF WriteBack, IInv, Phases, TypeOK
<1>3. DOMAIN devices = Device
  BY <1>2, ServedFromWholePool
<1>4. devices' \in [Device -> DeviceInfo]
  BY <1>1, <1>3 DEF IsRegistry
<1>5. Hub!Ticked(devices[d], devices'[d])
  BY <1>1, SamePool, SameConsistent DEF Hub!Ticked
<1>6. UNCHANGED <<ipcRunning, ioPc, request, response>>
  BY DEF WriteBack, ioVars
<1> QED BY <1>1, <1>2, <1>3, <1>4, <1>5, <1>6, SameDeviceInfo DEF Hub!Tick

LEMMA ReceiveRefines ==
  ASSUME NEW req \in Requests, Receive(req)
  PROVE  Hub!Receive(req)
BY DEF Receive, Hub!Receive, mainVars

LEMMA ReplyRefines ==
  ASSUME Reply
  PROVE  Hub!Reply
BY SamePool DEF Reply, Hub!Reply, mainVars

(* A branch that answers without storing is the whole request, handled at  *)
(* the moment at which it looked at the devices.                           *)
LEMMA AnswerRefines ==
  ASSUME ioPc = "handle", UNCHANGED devices, NEW answer, Respond(answer),
         answer = Hub!Answer(devices, ipcRunning, request),
         ~Hub!Accepts(devices, request)
  PROVE  Hub!Handle
BY DEF Respond, mainVars, Hub!Handle, Hub!Effect

LEMMA HandleListDevicesRefines ==
  ASSUME HandleListDevices
  PROVE  Hub!Handle
<1> USE DEF HandleListDevices, Handling
<1>1. Success([devices |-> devices]) = Hub!Answer(devices, ipcRunning, request)
  BY SamePool DEF Hub!Answer
<1> QED BY <1>1, AnswerRefines DEF Hub!Accepts

LEMMA HandleGetDeviceRefines ==
  ASSUME HandleGetDevice
  PROVE  Hub!Handle
<1>1. ioPc = "handle" /\ request.type = "get-device" /\ UNCHANGED devices
  BY DEF HandleGetDevice, Handling
<1>2. ~Hub!Accepts(devices, request)
  BY <1>1 DEF Hub!Accepts
<1>3. CASE request.deviceId = "" /\ Respond(Error("deviceId is required"))
  <2>1. Error("deviceId is required") = Hub!Answer(devices, ipcRunning, request)
    BY <1>1, <1>3, SamePool DEF Hub!Answer
  <2> QED BY <1>1, <1>2, <1>3, <2>1, AnswerRefines
<1>4. CASE request.deviceId # "" /\ ~Known(request.deviceId) /\ Respond(Error("Device not found"))
  <2>1. Error("Device not found") = Hub!Answer(devices, ipcRunning, request)
    BY <1>1, <1>4, SamePool DEF Hub!Answer, Known
  <2> QED BY <1>1, <1>2, <1>4, <2>1, AnswerRefines
<1>5. CASE /\ request.deviceId # "" /\ Known(request.deviceId)
           /\ Respond(Success([device |-> devices[request.deviceId]]))
  <2>1. Success([device |-> devices[request.deviceId]]) = Hub!Answer(devices, ipcRunning, request)
    BY <1>1, <1>5, SamePool DEF Hub!Answer, Known
  <2> QED BY <1>1, <1>2, <1>5, <2>1, AnswerRefines
<1> QED BY <1>3, <1>4, <1>5 DEF HandleGetDevice

(* The checks of send-command are the whole request when one of them       *)
(* fails, and nothing yet when all succeed.                                *)
LEMMA CheckCommandRefines ==
  ASSUME IInv, CheckCommand
  PROVE  Hub!Handle \/ UNCHANGED Hub!vars
<1> DEFINE id == request.deviceId
           command == request.command
<1>1. ioPc = "handle" /\ request.type = "send-command" /\ UNCHANGED devices
  BY DEF CheckCommand, Handling
<1>2. CASE id = "" /\ Respond(Error("deviceId is required"))
  <2>1. Error("deviceId is required") = Hub!Answer(devices, ipcRunning, request)
    BY <1>1, <1>2, SamePool DEF Hub!Answer
  <2>2. ~Hub!Accepts(devices, request)
    BY <1>2, DeviceAssumption DEF Hub!Accepts, IInv, TypeOK, IsRegistry, DeviceTypes
  <2> QED BY <1>1, <1>2, <2>1, <2>2, AnswerRefines
<1>3. CASE id # "" /\ command = "" /\ Respond(Error("command is required"))
  <2>1. Error("command is required") = Hub!Answer(devices, ipcRunning, request)
    BY <1>1, <1>3, SamePool DEF Hub!Answer
  <2>2. \A d \in DOMAIN devices : "" \notin devices[d].supportedCommands
    BY CommandsAreNamed DEF NoCommand, IInv, TypeOK, IsRegistry, DeviceInfo
  <2>3. ~Hub!Accepts(devices, request)
    BY <1>3, <2>2 DEF Hub!Accepts
  <2> QED BY <1>1, <1>3, <2>1, <2>3, AnswerRefines
<1>4. CASE id # "" /\ command # "" /\ ~Known(id) /\ Respond(Error("Device not found"))
  <2>1. Error("Device not found") = Hub!Answer(devices, ipcRunning, request)
    BY <1>1, <1>4, SamePool DEF Hub!Answer, Known
  <2>2. ~Hub!Accepts(devices, request)
    BY <1>4 DEF Hub!Accepts, Known
  <2> QED BY <1>1, <1>4, <2>1, <2>2, AnswerRefines
<1>5. CASE /\ id # "" /\ command # "" /\ Known(id)
           /\ ~Supports(devices[id], command)
           /\ Respond(Error("Unsupported command"))
  <2>1. ~Hub!Accepts(devices, request)
    BY <1>5 DEF Hub!Accepts, Supports
  <2>2. Error("Unsupported command") = Hub!Answer(devices, ipcRunning, request)
    BY <1>1, <1>5, <2>1, SamePool DEF Hub!Answer, Known
  <2> QED BY <1>1, <1>5, <2>1, <2>2, AnswerRefines
<1>6. CASE ioPc' = "store" /\ UNCHANGED <<mainVars, request, response>>
  BY <1>1, <1>6 DEF Hub!vars, mainVars
<1> QED BY <1>2, <1>3, <1>4, <1>5, <1>6 DEF CheckCommand

(* The store is where an accepted send-command happens.                    *)
LEMMA StoreCommandRefines ==
  ASSUME IInv, StoreCommand
  PROVE  Hub!Handle
<1> DEFINE id == request.deviceId
           command == request.command
<1>1. /\ id \in Device /\ id \in DOMAIN devices
      /\ command \in devices[id].supportedCommands
      /\ command \in Commands
      /\ request.type = "send-command"
      /\ SendCommand(id, command)
      /\ Respond(Success([deviceId |-> id, command |-> command]))
  BY CommandStored
<1>2. id # "" /\ command # ""
  BY <1>1, DeviceAssumption, CommandsAreNamed DEF DeviceTypes, NoCommand
<1>3. Hub!Accepts(devices, request)
  BY <1>1 DEF Hub!Accepts
<1>4. Hub!Answer(devices, ipcRunning, request)
        = Success([deviceId |-> id, command |-> command])
  BY <1>1, <1>2, <1>3, SamePool DEF Hub!Answer
<1>5. devices' = Hub!Effect(devices, request)
  BY <1>1, <1>3 DEF Hub!Effect, SendCommand
<1> QED BY <1>1, <1>4, <1>5 DEF Hub!Handle, Respond, mainVars, StoreCommand

LEMMA HandleServiceStatusRefines ==
  ASSUME HandleServiceStatus
  PROVE  Hub!Handle
<1> USE DEF HandleServiceStatus, Handling
<1>1. Success([running |-> ipcRunning, deviceIds |-> DOMAIN devices])
        = Hub!Answer(devices, ipcRunning, request)
  BY SamePool DEF Hub!Answer
<1> QED BY <1>1, AnswerRefines DEF Hub!Accepts

LEMMA HandleOtherTypeRefines ==
  ASSUME HandleOtherType
  PROVE  Hub!Handle
<1> USE DEF HandleOtherType
<1>1. Error("Unsupported IPC request type") = Hub!Answer(devices, ipcRunning, request)
  BY SamePool DEF Hub!Answer
<1> QED BY <1>1, AnswerRefines DEF Hub!Accepts

(* The rest is internal: list(), the end of execute, and stuttering.       *)
LEMMA InternalStepRefines ==
  ASSUME ListDevices \/ FinishExecute \/ UNCHANGED vars
  PROVE  UNCHANGED Hub!vars
BY DEF ListDevices, FinishExecute, vars, ioVars, mainVars, Hub!vars

LEMMA NextRefines ==
  ASSUME IInv, [Next]_vars
  PROVE  [Hub!Next]_(Hub!vars)
<1>1. ASSUME NEW d \in Device, EnsureDevice(d) PROVE Hub!Next
  BY <1>1, EnsureDeviceRefines DEF Hub!Next
<1>2. ASSUME NEW d \in Device, WriteBack(d) PROVE Hub!Next
  BY <1>2, WriteBackRefines DEF Hub!Next
<1>3. CASE StartIpcServer
  BY <1>3, StartIpcServerRefines DEF Hub!Next
<1>4. CASE SetIpcRunning
  BY <1>4, SetIpcRunningRefines DEF Hub!Next
<1>5. ASSUME NEW req \in Requests, Receive(req) PROVE Hub!Next
  BY <1>5, ReceiveRefines DEF Hub!Next
<1>6. CASE HandleListDevices \/ HandleGetDevice \/ StoreCommand
             \/ HandleServiceStatus \/ HandleOtherType
  <2>1. Hub!Handle
    BY <1>6, HandleListDevicesRefines, HandleGetDeviceRefines, StoreCommandRefines,
       HandleServiceStatusRefines, HandleOtherTypeRefines
  <2> QED BY <2>1 DEF Hub!Next
<1>7. CASE CheckCommand
  BY <1>7, CheckCommandRefines DEF Hub!Next
<1>8. CASE Reply
  BY <1>8, ReplyRefines DEF Hub!Next
<1>9. CASE ListDevices \/ FinishExecute \/ UNCHANGED vars
  BY <1>9, InternalStepRefines
<1> QED BY <1>1, <1>2, <1>3, <1>4, <1>5, <1>6, <1>7, <1>8, <1>9
        DEF Next, MainStep, HandlerStep

(* Every behaviour of the two threads is one of the atomic service.        *)
THEOREM RequestsAreAtomic == Spec => RequestsAtomic
<1>1. Init => Hub!Init
  BY InitRefines
<1>2. IInv /\ [Next]_vars => [Hub!Next]_(Hub!vars)
  BY NextRefines
<1> QED BY <1>1, <1>2, Invariance, PTL DEF Spec, RequestsAtomic, Hub!Spec

-----------------------------------------------------------------------------
(* What becomes of an accepted command.                                    *)

(* request puts command into the record of d, and the client is told so.   *)
Accepts(d, command) == /\ ioPc = "store" /\ response'.ok
                       /\ request.deviceId = d /\ request.command = command

(* Everything but a write-back leaves the command of a record as it is or  *)
(* puts the one of an accepted request in its place.                       *)
LEMMA OthersKeepCommand ==
  ASSUME IInv, NEW d \in DOMAIN devices,
         \/ \E e \in Device : EnsureDevice(e)
         \/ StartIpcServer \/ SetIpcRunning \/ ListDevices \/ FinishExecute
         \/ \E req \in Requests : Receive(req)
         \/ HandlerStep
         \/ UNCHANGED vars
  PROVE  \/ devices'[d].lastCommand = devices[d].lastCommand
         \/ devices'[d].lastCommand # NoCommand /\ Accepts(d, devices'[d].lastCommand)
<1>1. ASSUME NEW e \in Device, EnsureDevice(e)
      PROVE  devices'[d] = devices[d]
  BY <1>1 DEF EnsureDevice, Known, UpdateOrInsert
<1>2. CASE StoreCommand
  <2> DEFINE id == request.deviceId
  <2>1. /\ id \in DOMAIN devices /\ request.command \in Commands
        /\ SendCommand(id, request.command)
        /\ Respond(Success([deviceId |-> id, command |-> request.command]))
    BY <1>2, CommandStored
  <2>2. /\ DOMAIN devices' = DOMAIN devices
        /\ devices'[id] = [devices[id] EXCEPT !.lastCommand = request.command]
        /\ \A i \in DOMAIN devices \ {id} : devices'[i] = devices[i]
    BY <2>1, CommandedRegistry DEF IInv, TypeOK
  <2>3. devices[id] \in DeviceInfo
    BY <2>1 DEF IInv, TypeOK, IsRegistry
  <2>4. devices'[id].lastCommand = request.command
    BY <2>2, <2>3 DEF DeviceInfo
  <2>5. ioPc = "store" /\ response'.ok
    BY <1>2, <2>1 DEF StoreCommand, Respond, Success
  <2> QED BY <2>1, <2>2, <2>4, <2>5, CommandsAreNamed DEF Accepts
<1>3. CASE \/ StartIpcServer \/ SetIpcRunning \/ ListDevices \/ FinishExecute
           \/ \E req \in Requests : Receive(req)
           \/ HandleListDevices \/ HandleGetDevice \/ CheckCommand
           \/ HandleServiceStatus \/ HandleOtherType \/ Reply
           \/ UNCHANGED vars
  <2>1. UNCHANGED devices
    BY <1>3 DEF StartIpcServer, SetIpcRunning, ListDevices, FinishExecute, Receive, HandleListDevices,
                HandleGetDevice, CheckCommand, HandleServiceStatus, HandleOtherType, Reply, vars
  <2> QED BY <2>1
<1> QED BY <1>1, <1>2, <1>3 DEF HandlerStep

(* A write-back carries out the command in its copy, which is the record   *)
(* itself unless another command was stored in between.                    *)
LEMMA WriteBackCarriesOut ==
  ASSUME IInv, NEW e \in Device, WriteBack(e), NEW d \in DOMAIN devices
  PROVE  \/ devices'[d] = devices[d]
         \/ /\ devices'[d].lastCommand = NoCommand
            /\ \/ devices'[d] = ExecuteOn(devices[d], tick)
               \/ d \in DOMAIN snapshot /\ snapshot[d].lastCommand # devices[d].lastCommand
<1>1. d = e => devices'[d].lastCommand = NoCommand
  BY WrittenBack
<1>2. CASE d # e
  BY <1>2, WrittenBack
<1>3. CASE d = e /\ snapshot[d].lastCommand = devices[d].lastCommand
  <2>1. d \in DOMAIN snapshot /\ devices'[d] = ExecuteOn(snapshot[d], tick)
    BY <1>3 DEF WriteBack, UpdateOrInsert
  <2>2. [snapshot[d] EXCEPT !.lastCommand = snapshot[d].lastCommand] = devices[d]
    BY <1>3, <2>1 DEF IInv, SnapshotCurrent
  <2>3. snapshot[d] \in DeviceInfo
    BY <2>1 DEF IInv, TypeOK, IsRegistry
  <2>4. snapshot[d] = devices[d]
    BY <2>2, <2>3 DEF DeviceInfo
  <2> QED BY <1>1, <1>3, <2>1, <2>4
<1>4. CASE d = e /\ snapshot[d].lastCommand # devices[d].lastCommand
  BY <1>1, <1>4 DEF WriteBack
<1> QED BY <1>2, <1>3, <1>4

(* A command leaves its record only by being carried out, for a command of *)
(* an accepted request that takes its place, or under a copy that had not  *)
(* the same; and no write-back puts a command into a record.               *)
THEOREM CommandsFate == Spec => CommandFate
<1> DEFINE Old(d) == devices[d].lastCommand
           New(d) == devices'[d].lastCommand
           Excused(d) == \/ devices'[d] = ExecuteOn(devices[d], tick)
                         \/ d \in DOMAIN snapshot /\ snapshot[d].lastCommand # Old(d)
           Allowed(d) == /\ New(d) \notin {Old(d), NoCommand} => Accepts(d, New(d))
                         /\ Old(d) # NoCommand /\ New(d) = NoCommand => Excused(d)
<1>1. IInv /\ [Next]_vars => [\A d \in DOMAIN devices : Allowed(d)]_vars
  <2> SUFFICES ASSUME IInv, Next, NEW d \in DOMAIN devices
               PROVE  Allowed(d)
    OBVIOUS
  <2>1. CASE \E e \in Device : WriteBack(e)
    <3>1. New(d) = Old(d) \/ (New(d) = NoCommand /\ Excused(d))
      BY <2>1, WriteBackCarriesOut
    <3> QED BY <3>1
  <2>2. CASE ~ \E e \in Device : WriteBack(e)
    <3>1. New(d) = Old(d) \/ (New(d) # NoCommand /\ Accepts(d, New(d)))
      BY <2>2, OthersKeepCommand DEF Next, MainStep
    <3> QED BY <3>1
  <2> QED BY <2>1, <2>2
<1> QED BY <1>1, Invariance, PTL DEF Spec, CommandFate, Accepts

(* The flag is set by the first step after the server has started. *)
FlagFollows == ipcRunning <=> poolPc \in {"idle", "execute"}

(* service-status is answered wrongly only in the gap between the start of *)
(* the server and the assignment of its result to running.                 *)
THEOREM StatusWrongOnlyInTheGap ==
  Spec => [][HandleServiceStatus /\ ~response'.payload.running => poolPc = "listen"]_vars
<1>1. Init => FlagFollows
  BY DEF Init, FlagFollows
<1>2. FlagFollows /\ [Next]_vars => FlagFollows'
  <2> SUFFICES ASSUME FlagFollows, [Next]_vars PROVE FlagFollows'
    OBVIOUS
  <2>1. CASE MainStep
    <3>1. \/ UNCHANGED <<poolPc, ipcRunning>>
          \/ poolPc = "start" /\ poolPc' = "listen" /\ UNCHANGED ipcRunning
          \/ poolPc = "listen" /\ poolPc' = "idle" /\ ipcRunning' = TRUE
          \/ poolPc \in {"idle", "execute"} /\ poolPc' \in {"idle", "execute"}
             /\ UNCHANGED ipcRunning
      BY <2>1 DEF MainStep, EnsureDevice, StartIpcServer, SetIpcRunning, ListDevices,
                  WriteBack, FinishExecute, mainVars
    <3> QED BY <3>1 DEF FlagFollows
  <2>2. CASE (\E req \in Requests : Receive(req)) \/ HandlerStep \/ UNCHANGED vars
    <3>1. UNCHANGED mainVars
      BY <2>2 DEF Receive, HandlerStep, HandleListDevices, HandleGetDevice, CheckCommand,
                  StoreCommand, HandleServiceStatus, HandleOtherType, Reply, Respond, vars
    <3> QED BY <3>1 DEF FlagFollows, mainVars
  <2> QED BY <2>1, <2>2 DEF Next
<1>3. IInv /\ FlagFollows /\ HandleServiceStatus /\ ~response'.payload.running => poolPc = "listen"
  <2> SUFFICES ASSUME IInv, FlagFollows, HandleServiceStatus, ~response'.payload.running
               PROVE  poolPc = "listen"
    OBVIOUS
  <2>1. response'.payload.running = ipcRunning
    BY DEF HandleServiceStatus, Respond, Success
  <2>2. poolPc # "start"
    BY DEF IInv, Phases, HandleServiceStatus, Handling
  <2> QED BY <2>1, <2>2 DEF FlagFollows, IInv, TypeOK
<1> QED BY <1>1, <1>2, <1>3, Invariance, PTL DEF Spec

-----------------------------------------------------------------------------
(* Liveness.  What ENABLED means is out of the prover's reach, so that an   *)
(* action is enabled in every state in which its guard holds is a          *)
(* hypothesis, GuardsEnable.  It says nothing of which states are reached; *)
(* that a guard holds whenever a thread has its turn is proved.            *)

(* The guards of the actions of MainStep, and of those of HandlerStep: in  *)
(* each, what is not a guard assigns each variable once.                   *)
MainGuard ==
  \/ poolPc = "start" /\ \E d \in Device : ~Known(d)
  \/ poolPc = "start" /\ DOMAIN devices = Device
  \/ poolPc \in {"listen", "idle"}
  \/ poolPc = "execute" /\ \E d \in Device : d \in DOMAIN snapshot
  \/ poolPc = "execute" /\ DOMAIN snapshot = {}

HandlerGuard ==
  \/ Handling("list-devices") \/ Handling("get-device") \/ Handling("send-command")
  \/ Handling("service-status")
  \/ /\ ioPc = "handle"
     /\ request.type \notin {"list-devices", "get-device", "send-command", "service-status"}
  \/ ioPc = "store"
  \/ ioPc = "reply"

GuardsEnable == /\ MainGuard => ENABLED <<MainStep>>_vars
                /\ HandlerGuard => ENABLED <<HandlerStep>>_vars

(* A thread whose turn it is can take a step.                              *)
TurnsTaken == /\ ENABLED <<MainStep>>_vars
              /\ ioPc \in {"handle", "store", "reply"} => ENABLED <<HandlerStep>>_vars

(* Whatever the registry holds and whatever is asked, one of the guards of *)
(* a thread is true whenever it is its turn.                               *)
LEMMA GuardsCoverTurns == Spec /\ []GuardsEnable => []TurnsTaken
<1>1. IInv => MainGuard
  BY DEF IInv, TypeOK, IsRegistry, MainGuard, Known
<1>2. ioPc \in {"handle", "store", "reply"} => HandlerGuard
  BY DEF HandlerGuard, Handling
<1>3. IInv /\ GuardsEnable => TurnsTaken
  BY <1>1, <1>2 DEF GuardsEnable, TurnsTaken
<1> QED BY <1>3, Invariance, PTL

(* The main thread has nothing to do with the request.                     *)
LEMMA MainKeepsRequest ==
  ASSUME ioPc # "down", MainStep \/ UNCHANGED vars
  PROVE  ioPc' = ioPc \/ (ioPc' = "idle" /\ poolPc = "start")
BY DEF MainStep, EnsureDevice, WriteBack, StartIpcServer, SetIpcRunning, ListDevices,
       FinishExecute, vars, ioVars

(* A request goes from its branch to the reply, perhaps through the store. *)
LEMMA HandlerMovesOn ==
  ASSUME HandlerStep
  PROVE  \/ ioPc = "handle" /\ ioPc' \in {"store", "reply"}
         \/ ioPc = "store" /\ ioPc' = "reply"
         \/ ioPc = "reply" /\ ioPc' = "idle"
BY DEF HandlerStep, HandleListDevices, HandleGetDevice, CheckCommand, StoreCommand,
       HandleServiceStatus, HandleOtherType, Reply, Respond, Handling

LEMMA AnsweredInTurn == Spec /\ []TurnsTaken => RequestAnswered
<1> DEFINE Turn     == ioPc \in {"handle", "store", "reply"}
           Runs     == Turn => ENABLED <<HandlerStep>>_vars
           AtStore  == ioPc \in {"store", "reply", "idle"}
           AtReply  == ioPc \in {"reply", "idle"}
           AtIdle   == ioPc = "idle"
<1>1. TurnsTaken => Runs
  BY DEF TurnsTaken
<1>2. Turn /\ IInv /\ [Next]_vars => UNCHANGED ioPc \/ HandlerStep
  BY MainKeepsRequest DEF Next, Receive, IInv, Phases
<1>3. IInv /\ ioPc = "handle" /\ [Next]_vars => (ioPc = "handle" \/ AtStore)'
  BY <1>2, HandlerMovesOn
<1>4. IInv /\ ioPc = "handle" /\ <<HandlerStep>>_vars => AtStore'
  BY HandlerMovesOn
<1>5. IInv /\ ioPc = "store" /\ [Next]_vars => (ioPc = "store" \/ AtReply)'
  BY <1>2, HandlerMovesOn
<1>6. IInv /\ ioPc = "store" /\ <<HandlerStep>>_vars => AtReply'
  BY HandlerMovesOn
<1>7. IInv /\ ioPc = "reply" /\ [Next]_vars => (ioPc = "reply" \/ AtIdle)'
  BY <1>2, HandlerMovesOn
<1>8. IInv /\ ioPc = "reply" /\ <<HandlerStep>>_vars => AtIdle'
  BY HandlerMovesOn
<1>9. /\ ioPc \in {"handle", "store", "reply"} <=> ioPc = "handle" \/ ioPc = "store" \/ ioPc = "reply"
      /\ AtStore <=> ioPc = "store" \/ AtReply
      /\ AtReply <=> ioPc = "reply" \/ AtIdle
  OBVIOUS
<1> QED BY <1>1, <1>3, <1>4, <1>5, <1>6, <1>7, <1>8, <1>9, Invariance, PTL
        DEF Spec, Fairness, RequestAnswered, Turn, Runs, AtIdle

(* Every request that reaches handleRequest is answered, whatever it asks. *)
THEOREM RequestsAnswered == Spec /\ []GuardsEnable => RequestAnswered
BY GuardsCoverTurns, AnsweredInTurn, PTL

(* Before clients are served nobody has sent a command.                    *)
FreshPool == poolPc = "start" => \A d \in DOMAIN devices : devices[d].lastCommand = NoCommand

LEMMA PoolStartsFresh == Spec => []FreshPool
<1>1. Init => FreshPool
  BY DEF Init, FreshPool
<1>2. IInv /\ FreshPool /\ [Next]_vars => FreshPool'
  <2> SUFFICES ASSUME IInv, FreshPool, [Next]_vars, poolPc' = "start"
               PROVE  FreshPool'
    BY DEF FreshPool
  <2>1. CASE \E e \in Device : EnsureDevice(e)
    <3> PICK e \in Device : EnsureDevice(e)
      BY <2>1
    <3>1. MakeDevice(e).lastCommand = NoCommand
      BY MadeDevice, DeviceAssumption
    <3> QED BY <3>1 DEF EnsureDevice, UpdateOrInsert, FreshPool
  <2>2. CASE \/ StartIpcServer \/ SetIpcRunning \/ ListDevices \/ FinishExecute
             \/ \E e \in Device : WriteBack(e)
    BY <2>2 DEF StartIpcServer, SetIpcRunning, ListDevices, FinishExecute, WriteBack
  <2>3. CASE (\E req \in Requests : Receive(req)) \/ HandlerStep
    BY <2>3 DEF Receive, HandlerStep, HandleListDevices, HandleGetDevice, CheckCommand, StoreCommand,
                HandleServiceStatus, HandleOtherType, Reply, Respond, Handling, mainVars, IInv, Phases
  <2>4. CASE UNCHANGED vars
    BY <2>4 DEF vars, mainVars, FreshPool
  <2> QED BY <2>1, <2>2, <2>3, <2>4 DEF Next, MainStep
<1> QED BY <1>1, <1>2, Invariance, PTL DEF Spec

(* The pool has seven types, hence at most seven devices.                  *)
LEMMA PoolIsSmall ==
  ASSUME NEW S \in SUBSET Device
  PROVE  IsFiniteSet(S) /\ Cardinality(S) \in 0 .. 7
<1> DEFINE P1 == {"thermostat"}          P2 == P1 \cup {"relay"}
           P3 == P2 \cup {"power_meter"} P4 == P3 \cup {"contact_sensor"}
           P5 == P4 \cup {"leak_sensor"} P6 == P5 \cup {"air_quality"}
           P7 == P6 \cup {"smart_plug"}
<1>1. IsFiniteSet(P1) /\ Cardinality(P1) = 1
  BY FS_Singleton
<1>2. IsFiniteSet(P2) /\ Cardinality(P2) = 2
  BY <1>1, FS_AddElement
<1>3. IsFiniteSet(P3) /\ Cardinality(P3) = 3
  BY <1>2, FS_AddElement
<1>4. IsFiniteSet(P4) /\ Cardinality(P4) = 4
  BY <1>3, FS_AddElement
<1>5. IsFiniteSet(P5) /\ Cardinality(P5) = 5
  BY <1>4, FS_AddElement
<1>6. IsFiniteSet(P6) /\ Cardinality(P6) = 6
  BY <1>5, FS_AddElement
<1>7. IsFiniteSet(P7) /\ Cardinality(P7) = 7
  BY <1>6, FS_AddElement
<1>8. S \in SUBSET P7
  BY DeviceAssumption DEF DeviceTypes
<1> HIDE DEF P7
<1> QED BY <1>7, <1>8, FS_Subset, FS_CardinalityType

(* How many steps of the main thread a command may have to wait: those to  *)
(* the end of the execute whose list() it has missed, the next list(), and *)
(* the turns up to its own.                                                *)
TurnsLeft(d) ==
  CASE poolPc = "execute" /\ d \in DOMAIN snapshot -> Cardinality(DOMAIN snapshot)
    [] poolPc = "idle"                             -> 8
    [] poolPc = "execute" /\ d \notin DOMAIN snapshot -> 9 + Cardinality(DOMAIN snapshot)
    [] OTHER                                       -> 9

(* d waits for no command, or for at most n more turns.                    *)
Drains(d, n) == ~Pending(d) \/ (poolPc # "start" /\ TurnsLeft(d) <= n)

LEMMA TurnsLeftType ==
  ASSUME IInv, NEW d \in Device
  PROVE  /\ TurnsLeft(d) \in 1 .. 16
         /\ IsFiniteSet(DOMAIN snapshot) /\ Cardinality(DOMAIN snapshot) \in 0 .. 7
         /\ d \in DOMAIN snapshot => Cardinality(DOMAIN snapshot) \in 1 .. 7
<1>1. DOMAIN snapshot \in SUBSET Device
  BY DEF IInv, TypeOK, IsRegistry
<1>2. IsFiniteSet(DOMAIN snapshot) /\ Cardinality(DOMAIN snapshot) \in 0 .. 7
  BY <1>1, PoolIsSmall
<1>3. Cardinality(DOMAIN snapshot) = 0 => DOMAIN snapshot = {}
  BY <1>2, FS_EmptySet
<1>4. poolPc = "execute" /\ d \in DOMAIN snapshot => Cardinality(DOMAIN snapshot) \in 1 .. 7
  BY <1>2, <1>3
<1> QED BY <1>2, <1>3, <1>4 DEF TurnsLeft

(* Each step of the main thread brings the turn of a command nearer.       *)
LEMMA MainBringsTurn ==
  ASSUME IInv, NEW d \in Device, Pending(d), poolPc # "start", MainStep
  PROVE  ~Pending(d)' \/ ((poolPc # "start")' /\ TurnsLeft(d)' <= TurnsLeft(d) - 1)
<1>1. d \in DOMAIN devices
  BY DEF Pending, Known
<1>2. CASE SetIpcRunning
  BY <1>2 DEF SetIpcRunning, TurnsLeft
<1>3. CASE ListDevices
  <2>1. /\ poolPc = "idle" /\ poolPc' = "execute"
        /\ DOMAIN snapshot' = DOMAIN devices /\ DOMAIN devices \in SUBSET Device
    BY <1>3 DEF ListDevices, IInv, TypeOK, IsRegistry
  <2>2. Cardinality(DOMAIN snapshot') \in 0 .. 7
    BY <2>1, PoolIsSmall
  <2>3. TurnsLeft(d) = 8 /\ TurnsLeft(d)' = Cardinality(DOMAIN snapshot')
    BY <1>1, <2>1 DEF TurnsLeft
  <2> QED BY <2>1, <2>2, <2>3
<1>4. CASE FinishExecute
  <2>1. DOMAIN snapshot = {} /\ poolPc = "execute" /\ poolPc' = "idle"
    BY <1>4 DEF FinishExecute
  <2>2. TurnsLeft(d) = 9 + Cardinality(DOMAIN snapshot) /\ TurnsLeft(d)' = 8
    BY <2>1 DEF TurnsLeft
  <2>3. Cardinality(DOMAIN snapshot) = 0
    BY <2>1, FS_EmptySet
  <2> QED BY <2>1, <2>2, <2>3
<1>5. ASSUME NEW e \in Device, WriteBack(e)
      PROVE  ~Pending(d)' \/ ((poolPc # "start")' /\ TurnsLeft(d)' <= TurnsLeft(d) - 1)
  <2>1. /\ e \in DOMAIN snapshot /\ DOMAIN snapshot' = DOMAIN snapshot \ {e}
        /\ poolPc = "execute" /\ poolPc' = "execute"
    BY <1>5, WrittenBack DEF WriteBack
  <2>2. CASE e = d
    BY <1>5, <2>2, WrittenBack DEF Pending
  <2>3. CASE e # d
    <3>1. Cardinality(DOMAIN snapshot') = Cardinality(DOMAIN snapshot) - 1
      BY <2>1, TurnsLeftType, FS_RemoveElement
    <3>2. Cardinality(DOMAIN snapshot) \in 0 .. 7
      BY TurnsLeftType
    <3>3. d \in DOMAIN snapshot' <=> d \in DOMAIN snapshot
      BY <2>1, <2>3
    <3>4. /\ d \in DOMAIN snapshot => /\ TurnsLeft(d) = Cardinality(DOMAIN snapshot)
                                      /\ TurnsLeft(d)' = Cardinality(DOMAIN snapshot')
          /\ d \notin DOMAIN snapshot => /\ TurnsLeft(d) = 9 + Cardinality(DOMAIN snapshot)
                                         /\ TurnsLeft(d)' = 9 + Cardinality(DOMAIN snapshot')
      BY <2>1, <3>3 DEF TurnsLeft
    <3> QED BY <2>1, <3>1, <3>2, <3>4
  <2> QED BY <2>2, <2>3
<1>6. ~StartIpcServer /\ \A e \in Device : ~EnsureDevice(e)
  BY DEF StartIpcServer, EnsureDevice
<1> QED BY <1>2, <1>3, <1>4, <1>5, <1>6 DEF MainStep

(* No step of the I/O thread puts it off.                                  *)
LEMMA HandlerKeepsTurn ==
  ASSUME NEW d \in Device,
         (\E req \in Requests : Receive(req)) \/ HandlerStep \/ UNCHANGED vars
  PROVE  poolPc' = poolPc /\ TurnsLeft(d)' = TurnsLeft(d)
<1>1. UNCHANGED <<poolPc, snapshot>>
  BY DEF Receive, HandlerStep, HandleListDevices, HandleGetDevice, CheckCommand, StoreCommand,
         HandleServiceStatus, HandleOtherType, Reply, Respond, mainVars, vars
<1> QED BY <1>1 DEF TurnsLeft

DrainsTo(d, n, m) == Spec /\ []TurnsTaken => (Drains(d, n) ~> Drains(d, m))

LEMMA TurnComes ==
  ASSUME NEW d \in Device, NEW n \in 1 .. 16, NEW m \in 0 .. 15, n = m + 1
  PROVE  DrainsTo(d, n, m)
<1> DEFINE Runs == ENABLED <<MainStep>>_vars
<1>1. TurnsTaken => Runs
  BY DEF TurnsTaken
<1>2. IInv /\ Drains(d, n) /\ ~Drains(d, m)
        => Pending(d) /\ poolPc # "start" /\ TurnsLeft(d) = n
  BY TurnsLeftType DEF Drains
<1>3. IInv /\ Drains(d, n) /\ ~Drains(d, m) /\ MainStep => Drains(d, m)'
  BY <1>2, MainBringsTurn DEF Drains
<1>4. IInv /\ Drains(d, n) /\ ~Drains(d, m) /\ [Next]_vars => (Drains(d, n) \/ Drains(d, m))'
  <2> SUFFICES ASSUME IInv, Drains(d, n), ~Drains(d, m), ~MainStep, [Next]_vars
               PROVE  Drains(d, n)'
    BY <1>3
  <2>1. poolPc' = poolPc /\ TurnsLeft(d)' = TurnsLeft(d)
    BY HandlerKeepsTurn DEF Next
  <2> QED BY <1>2, <2>1 DEF Drains
<1>5. IInv /\ Drains(d, n) /\ ~Drains(d, m) /\ <<MainStep>>_vars => Drains(d, m)'
  BY <1>3
<1> QED BY <1>1, <1>4, <1>5, Invariance, PTL DEF Spec, Fairness, Runs, DrainsTo

LEMMA DrainedInTurn == Spec /\ []TurnsTaken => CommandDrained
<1> SUFFICES ASSUME NEW d \in Device
             PROVE  Spec /\ []TurnsTaken => (Pending(d) ~> ~Pending(d))
  BY DEF CommandDrained
<1>1. IInv /\ FreshPool /\ Pending(d) => Drains(d, 16)
  BY TurnsLeftType DEF FreshPool, Pending, Known, Drains
<1>2. IInv /\ Drains(d, 0) => ~Pending(d)
  BY TurnsLeftType DEF Drains
<1>3. /\ DrainsTo(d, 16, 15) /\ DrainsTo(d, 15, 14) /\ DrainsTo(d, 14, 13) /\ DrainsTo(d, 13, 12)
      /\ DrainsTo(d, 12, 11) /\ DrainsTo(d, 11, 10) /\ DrainsTo(d, 10, 9) /\ DrainsTo(d, 9, 8)
      /\ DrainsTo(d, 8, 7) /\ DrainsTo(d, 7, 6) /\ DrainsTo(d, 6, 5) /\ DrainsTo(d, 5, 4)
      /\ DrainsTo(d, 4, 3) /\ DrainsTo(d, 3, 2) /\ DrainsTo(d, 2, 1) /\ DrainsTo(d, 1, 0)
  BY TurnComes
<1> QED BY <1>1, <1>2, <1>3, PoolStartsFresh, Invariance, PTL DEF DrainsTo

(* Every accepted command leaves its record, for any pool: after at most   *)
(* sixteen steps of the main thread.                                       *)
THEOREM CommandsDrained == Spec /\ []GuardsEnable => CommandDrained
BY GuardsCoverTurns, DrainedInTurn, PTL
=============================================================================
