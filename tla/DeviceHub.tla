------------------------------ MODULE DeviceHub -----------------------------
(***************************************************************************)
(* The two threads that share the device registry.                         *)
(*                                                                         *)
(*  - The main thread starts the modules (the device pool inserts its      *)
(*    devices, then the IPC module opens its server) and after that runs   *)
(*    DevicePoolModule::execute once per loop: it copies the registry with *)
(*    list(), works on its copies and writes each of them back.            *)
(*  - The I/O thread of the IPC server runs handleRequest, one request at  *)
(*    a time; send-command checks the device under one lock of the         *)
(*    registry and sets its command under another.                         *)
(*                                                                         *)
(* Start-up failures and shutdown are in ServiceLifecycle.                 *)
(***************************************************************************)
EXTENDS DeviceRegistry

CONSTANTS Device,        \* the devices of the pool, each named by its type
          SentIds,       \* the device ids clients put in a request
          SentCommands,  \* the commands clients put in a request
          TickModulus    \* tick is a uint64_t: 2^64 in the code

ASSUME DeviceAssumption == Device \subseteq DeviceTypes
ASSUME TickAssumption   == TickModulus \in Nat \ {0}

VARIABLES
  poolPc,      \* main thread: "start", "listen", "idle" or "execute"
  tick,        \* DevicePoolModule::tick
  snapshot,    \* the copies from list() that execute has not written back
  ipcRunning,  \* IpcServiceModule::running
  ioPc,        \* I/O thread: "down", "idle", "handle", "store" or "reply"
  request,     \* the request being handled
  response     \* what handleRequest returned for it

mainVars == <<poolPc, tick, snapshot, ipcRunning>>
ioVars   == <<ioPc, request, response>>
vars     == <<devices, mainVars, ioVars>>

Request(type, id, command) == [type |-> type, deviceId |-> id, command |-> command]

(* A field that the client leaves out is the empty string. *)
Requests ==
       {Request("list-devices", "", ""), Request("service-status", "", ""),
        Request("restart-service", "", "")}
  \cup {Request("get-device", id, "") : id \in SentIds}
  \cup {Request("send-command", id, command) : id \in SentIds, command \in SentCommands}

NoRequest  == Request("none", "", "")
NoResponse == [none |-> TRUE]

Success(payload) == [ok |-> TRUE, payload |-> payload]
Error(message)   == [ok |-> FALSE, message |-> message]

Init == /\ devices = << >>
        /\ poolPc = "start"
        /\ tick = 0
        /\ snapshot = << >>
        /\ ipcRunning = FALSE
        /\ ioPc = "down"
        /\ request = NoRequest
        /\ response = NoResponse

-----------------------------------------------------------------------------
(* The main thread.                                                        *)

(* One ensureDevice of DevicePoolModule::start.  A device that the         *)
(* registry already knows would only get a new lastSeen.                   *)
EnsureDevice(d) ==
  /\ poolPc = "start"
  /\ ~Known(d)
  /\ UpdateOrInsert(d, MakeDevice(d))
  /\ UNCHANGED <<mainVars, ioVars>>

(* A mistaken order of the modules: the server opens before the pool fills.*)
StartIpcServerFirst ==
  /\ poolPc = "start"
  /\ ioPc' = "idle"
  /\ poolPc' = "listen"
  /\ UNCHANGED <<devices, tick, snapshot, ipcRunning, request, response>>

(* IpcServiceModule::start, after the pool's start: ipcServer->start()     *)
(* spawns the I/O thread ...                                               *)
StartIpcServer ==
  /\ poolPc = "start"
  /\ DOMAIN devices = Device
  /\ ioPc' = "idle"
  /\ poolPc' = "listen"
  /\ UNCHANGED <<devices, tick, snapshot, ipcRunning, request, response>>

(* ... and only when it has returned is running set. *)
SetIpcRunning ==
  /\ poolPc = "listen"
  /\ ipcRunning' = TRUE
  /\ poolPc' = "idle"
  /\ UNCHANGED <<devices, tick, snapshot, ioVars>>

(* A mistaken list(), which moves the records out instead of copying them. *)
ListDevicesByMove ==
  /\ poolPc = "idle"
  /\ tick' = (tick + 1) % TickModulus
  /\ snapshot' = devices
  /\ devices' = << >>
  /\ poolPc' = "execute"
  /\ UNCHANGED <<ipcRunning, ioVars>>

(* The head of execute: ++tick and list(). *)
ListDevices ==
  /\ poolPc = "idle"
  /\ tick' = (tick + 1) % TickModulus
  /\ snapshot' = devices
  /\ poolPc' = "execute"
  /\ UNCHANGED <<devices, ipcRunning, ioVars>>

(* A mistaken turn, which forgets the command before it is carried out. *)
WriteBackUnapplied(d) ==
  /\ poolPc = "execute"
  /\ d \in DOMAIN snapshot
  /\ UpdateOrInsert(d, Sample([snapshot[d] EXCEPT !.lastCommand = NoCommand], tick))
  /\ snapshot' = [i \in DOMAIN snapshot \ {d} |-> snapshot[i]]
  /\ UNCHANGED <<poolPc, tick, ipcRunning, ioVars>>

(* One turn of execute's loop.  The map is unordered: any copy may be next.*)
WriteBack(d) ==
  /\ poolPc = "execute"
  /\ d \in DOMAIN snapshot
  /\ UpdateOrInsert(d, ExecuteOn(snapshot[d], tick))
  /\ snapshot' = [i \in DOMAIN snapshot \ {d} |-> snapshot[i]]
  /\ UNCHANGED <<poolPc, tick, ipcRunning, ioVars>>

(* execute returns; the other module's execute does nothing and the loop   *)
(* sleeps for the idle timeout.                                            *)
FinishExecute ==
  /\ poolPc = "execute"
  /\ DOMAIN snapshot = {}
  /\ poolPc' = "idle"
  /\ UNCHANGED <<devices, tick, snapshot, ipcRunning, ioVars>>

MainStep == \/ \E d \in Device : EnsureDevice(d) \/ WriteBack(d)
            \/ StartIpcServer \/ SetIpcRunning
            \/ ListDevices \/ FinishExecute

-----------------------------------------------------------------------------
(* The I/O thread: one branch of handleRequest per action.                 *)

Receive(req) ==
  /\ ioPc = "idle"
  /\ request' = req
  /\ ioPc' = "handle"
  /\ UNCHANGED <<devices, mainVars, response>>

Respond(answer) == /\ response' = answer
                   /\ ioPc' = "reply"
                   /\ UNCHANGED <<mainVars, request>>

Handling(type) == ioPc = "handle" /\ request.type = type

HandleListDevices ==
  /\ Handling("list-devices")
  /\ Respond(Success([devices |-> devices]))
  /\ UNCHANGED devices

HandleGetDevice ==
  /\ Handling("get-device")
  /\ \/ request.deviceId = "" /\ Respond(Error("deviceId is required"))
     \/ /\ request.deviceId # ""
        /\ ~Known(request.deviceId)
        /\ Respond(Error("Device not found"))
     \/ /\ request.deviceId # ""
        /\ Known(request.deviceId)
        /\ Respond(Success([device |-> devices[request.deviceId]]))
  /\ UNCHANGED devices

(* Mistaken checks: the first forget whether the device supports it, the   *)
(* second answer before the command is stored.                             *)
CheckCommandUnsupported ==
  /\ Handling("send-command")
  /\ IF request.command # "" /\ Known(request.deviceId)
     THEN ioPc' = "store" /\ UNCHANGED <<mainVars, request, response>>
     ELSE Respond(Error("Device not found"))
  /\ UNCHANGED devices

CheckCommandOnly ==
  /\ Handling("send-command")
  /\ IF Known(request.deviceId) /\ Supports(devices[request.deviceId], request.command)
     THEN Respond(Success([deviceId |-> request.deviceId, command |-> request.command]))
     ELSE Respond(Error("Device not found"))
  /\ UNCHANGED devices

(* The checks of send-command, up to and with find().  A request that      *)
(* passes them goes on to sendCommand() with the lock released between.    *)
CheckCommand ==
  /\ Handling("send-command")
  /\ \/ request.deviceId = "" /\ Respond(Error("deviceId is required"))
     \/ /\ request.deviceId # "" /\ request.command = ""
        /\ Respond(Error("command is required"))
     \/ /\ request.deviceId # "" /\ request.command # ""
        /\ ~Known(request.deviceId)
        /\ Respond(Error("Device not found"))
     \/ /\ request.deviceId # "" /\ request.command # ""
        /\ Known(request.deviceId)
        /\ \/ /\ ~Supports(devices[request.deviceId], request.command)
              /\ Respond(Error("Unsupported command"))
           \/ /\ Supports(devices[request.deviceId], request.command)
              /\ ioPc' = "store"
              /\ UNCHANGED <<mainVars, request, response>>
  /\ UNCHANGED devices

(* sendCommand(), which looks the device up again. *)
StoreCommand ==
  /\ ioPc = "store"
  /\ IF Known(request.deviceId)
     THEN /\ SendCommand(request.deviceId, request.command)
          /\ Respond(Success([deviceId |-> request.deviceId, command |-> request.command]))
     ELSE /\ Respond(Error("Device not found"))
          /\ UNCHANGED devices

(* The flag is read before the registry, whose set of ids (deviceCount is  *)
(* its size) no longer changes.                                            *)
HandleServiceStatus ==
  /\ Handling("service-status")
  /\ Respond(Success([running |-> ipcRunning, deviceIds |-> DOMAIN devices]))
  /\ UNCHANGED devices

(* A mistaken last branch, which leaves a request of another type alone. *)
IgnoreOtherType == ioPc = "handle" /\ request.type = "ignored" /\ UNCHANGED vars

HandleOtherType ==
  /\ ioPc = "handle"
  /\ request.type \notin {"list-devices", "get-device", "send-command", "service-status"}
  /\ Respond(Error("Unsupported IPC request type"))
  /\ UNCHANGED devices

(* The response is handed to the session and the thread is free again. *)
Reply ==
  /\ ioPc = "reply"
  /\ ioPc' = "idle"
  /\ request' = NoRequest
  /\ response' = NoResponse
  /\ UNCHANGED <<devices, mainVars>>

HandlerStep == \/ HandleListDevices \/ HandleGetDevice
               \/ CheckCommand \/ StoreCommand
               \/ HandleServiceStatus \/ HandleOtherType
               \/ Reply

-----------------------------------------------------------------------------

Next == \/ MainStep
        \/ \E req \in Requests : Receive(req)
        \/ HandlerStep

(* Both threads are scheduled again and again, and a handler blocks on     *)
(* nothing but the two short critical sections; clients owe nothing.       *)
Fairness == WF_vars(MainStep) /\ WF_vars(HandlerStep)

Spec == Init /\ [][Next]_vars /\ Fairness

-----------------------------------------------------------------------------
(* Properties.                                                             *)

ErrorMessages == {"deviceId is required", "command is required", "Device not found",
                  "Unsupported command", "Unsupported IPC request type"}

IsRegistry(r) == DOMAIN r \subseteq Device /\ r \in [DOMAIN r -> DeviceInfo]

Payloads ==       [devices : [Device -> DeviceInfo]]
             \cup [device : DeviceInfo]
             \cup [deviceId : Device, command : Commands]
             \cup [running : BOOLEAN, deviceIds : {Device}]

Responses == {NoResponse} \cup {Error(m) : m \in ErrorMessages}
                          \cup [ok : {TRUE}, payload : Payloads]

(* The state has its type.  The copies of execute are records of the pool, *)
(* and whatever a client is sent has one of the shapes it parses.          *)
TypeOK ==
  /\ IsRegistry(devices)
  /\ poolPc \in {"start", "listen", "idle", "execute"}
  /\ tick \in 0 .. TickModulus - 1
  /\ IsRegistry(snapshot)
  /\ ipcRunning \in BOOLEAN
  /\ ioPc \in {"down", "idle", "handle", "store", "reply"}
  /\ request \in Requests \cup {NoRequest}
  /\ response \in Responses

(* applyCommand returns before its final clear() on a command the device   *)
(* does not support, so such a command would stay in the record and be     *)
(* reported as pending for ever.  None gets there: neither through the     *)
(* check and the store of send-command, which are two critical sections,   *)
(* nor through the records that execute writes back from its copies.       *)
PendingIsSupported ==
  \A r \in {devices, snapshot} : \A d \in DOMAIN r :
    r[d].lastCommand \in r[d].supportedCommands \cup {NoCommand}

(* execute works on copies taken before other requests were served and     *)
(* writes back whole records.  A copy is stale in nothing but the pending  *)
(* command: no setting, status or reading is ever rolled back.  A command  *)
(* in the copy is still pending in the registry (or replaced by a later    *)
(* one), so no command is applied twice.                                   *)
SnapshotCurrent ==
  \A d \in DOMAIN snapshot :
    /\ Known(d)
    /\ [snapshot[d] EXCEPT !.lastCommand = devices[d].lastCommand] = devices[d]
    /\ snapshot[d].lastCommand # NoCommand => devices[d].lastCommand # NoCommand

(* A client is never shown a half-updated device or part of the pool: the  *)
(* telemetry in every record it is sent agrees with the status and the     *)
(* settings in it, whatever restart, silence_alarm or the leak period did, *)
(* and a list holds every device even while execute is rewriting them.     *)
ShownDevicesConsistent ==
  /\ \A d \in DOMAIN devices : Consistent(devices[d])
  /\ ioPc = "reply" /\ response.ok =>
       \/ request.type = "list-devices" /\ DOMAIN response.payload.devices = Device
                                        /\ \A d \in Device : Consistent(response.payload.devices[d])
       \/ request.type = "get-device"   /\ Consistent(response.payload.device)
       \/ request.type \in {"send-command", "service-status"}

(* A command that handleRequest has checked under one lock may still be    *)
(* stored under the next: meanwhile execute has neither removed the device *)
(* nor changed what it supports.                                           *)
ValidatedStaysValid ==
  ioPc = "store" => /\ Known(request.deviceId)
                    /\ Supports(devices[request.deviceId], request.command)

Hub == INSTANCE HubService
         WITH store   <- devices,
              running <- ipcRunning,
              phase   <- CASE ioPc = "down"                -> "closed"
                           [] ioPc = "idle"                -> "open"
                           [] ioPc \in {"handle", "store"} -> "pending"
                           [] ioPc = "reply"               -> "answered"

(* Requests look atomic: to the clients the hub is HubService, in which    *)
(* each request is checked, carried out and answered in a single step.     *)
RequestsAtomic == Hub!Spec

Pending(d) == Known(d) /\ devices[d].lastCommand # NoCommand

(* The record has one place for a command, and this is all that may happen *)
(* to the command in it.  Another one takes the place of a pending command *)
(* only if a send-command for this device is being accepted with it: never *)
(* does a write-back of execute put an earlier command, that its copy had, *)
(* back into the record.  And one that leaves the record without being     *)
(* carried out had not been in it, or not the same, when execute took its  *)
(* copy.  (A second command equal to the pending one is not seen to come.) *)
CommandFate ==
  [][\A d \in DOMAIN devices :
       LET old == devices[d].lastCommand
           new == devices'[d].lastCommand
       IN  /\ new \notin {old, NoCommand} =>
                /\ ioPc = "store" /\ response'.ok
                /\ request.deviceId = d /\ request.command = new
           /\ old # NoCommand /\ new = NoCommand =>
                \/ devices'[d] = ExecuteOn(devices[d], tick)
                \/ d \in DOMAIN snapshot /\ snapshot[d].lastCommand # old]_vars

(* Every command that a client got accepted leaves the record again, even  *)
(* if it arrives while execute is between list() and updateOrInsert().     *)
CommandDrained == \A d \in Device : Pending(d) ~> ~Pending(d)

(* Every request that reaches handleRequest is answered.                   *)
RequestAnswered == (ioPc = "handle") ~> (ioPc = "idle")

(* What "Command accepted" tells the user (and the mutex of the registry   *)
(* is to protect): a command leaves a record empty only by being carried   *)
(* out.  (That a second accepted one may take its place is no part of it.) *)
(* Expected to fail: execute overwrites a command that is stored between   *)
(* its list() and its updateOrInsert() with the copy that lacks it.        *)
NoLostCommand ==
  [][\A d \in DOMAIN devices :
       devices[d].lastCommand # NoCommand /\ devices'[d].lastCommand = NoCommand
         => devices'[d] = ExecuteOn(devices[d], tick)]_vars

(* A service that answers service-status says that it is running.          *)
(* Expected to fail: the I/O thread may answer before start() has returned *)
(* and the module has set its flag; the CLI then prints "stopped".         *)
StatusReportsRunning ==
  ioPc = "reply" /\ request.type = "service-status" => response.payload.running
=============================================================================
