----------------------------- MODULE HubService -----------------------------
(***************************************************************************)
(* What the hub promises a client: a request is answered as if the whole   *)
(* of handleRequest ran in one atomic step on the devices, and a device    *)
(* changes otherwise only by being added before the hub answers anyone, or *)
(* by a tick, which leaves it of the same kind with no command pending.    *)
(* A tick may drop a command that a client was told is accepted: the       *)
(* promise is this weak because the code keeps no stronger one (the        *)
(* property NoLostCommand of DeviceHub).                                   *)
(***************************************************************************)
EXTENDS DevicePool

CONSTANTS Device,     \* the devices of the pool
          Requests    \* the requests clients may send

VARIABLES store,      \* the devices
          running,    \* what service-status reports
          phase,      \* of the request being served
          request,
          response

vars == <<store, running, phase, request, response>>

NoRequest  == [type |-> "none", deviceId |-> "", command |-> ""]
NoResponse == [none |-> TRUE]

Success(payload) == [ok |-> TRUE, payload |-> payload]
Error(message)   == [ok |-> FALSE, message |-> message]

Accepts(s, req) == /\ req.type = "send-command"
                   /\ req.deviceId \in DOMAIN s
                   /\ req.command \in s[req.deviceId].supportedCommands

(* The answer to a request, from the devices alone. *)
Answer(s, up, req) ==
  CASE req.type = "list-devices"   -> Success([devices |-> s])
    [] req.type = "service-status" ->
         Success([running |-> up, deviceIds |-> DOMAIN s])
    [] req.type = "get-device" ->
         IF req.deviceId = ""               THEN Error("deviceId is required")
         ELSE IF req.deviceId \in DOMAIN s  THEN Success([device |-> s[req.deviceId]])
         ELSE Error("Device not found")
    [] req.type = "send-command" ->
         IF req.deviceId = ""                   THEN Error("deviceId is required")
         ELSE IF req.command = ""               THEN Error("command is required")
         ELSE IF req.deviceId \notin DOMAIN s   THEN Error("Device not found")
         ELSE IF Accepts(s, req)
              THEN Success([deviceId |-> req.deviceId, command |-> req.command])
         ELSE Error("Unsupported command")
    [] OTHER -> Error("Unsupported IPC request type")

Effect(s, req) ==
  IF Accepts(s, req) THEN [s EXCEPT ![req.deviceId] = [@ EXCEPT !.lastCommand = req.command]]
                     ELSE s

-----------------------------------------------------------------------------

Init == /\ store = << >>
        /\ running = FALSE
        /\ phase = "closed"
        /\ request = NoRequest
        /\ response = NoResponse

Add(d) == /\ phase = "closed"
          /\ d \notin DOMAIN store
          /\ store' = [i \in DOMAIN store \cup {d} |->
                         IF i = d THEN MakeDevice(d) ELSE store[i]]
          /\ UNCHANGED <<running, phase, request, response>>

Open == /\ phase = "closed"
        /\ DOMAIN store = Device
        /\ phase' = "open"
        /\ UNCHANGED <<store, running, request, response>>

Up == /\ phase # "closed"
      /\ running' = TRUE
      /\ UNCHANGED <<store, phase, request, response>>

Receive(req) == /\ phase = "open"
                /\ phase' = "pending"
                /\ request' = req
                /\ UNCHANGED <<store, running, response>>

Handle == /\ phase = "pending"
          /\ response' = Answer(store, running, request)
          /\ store' = Effect(store, request)
          /\ phase' = "answered"
          /\ UNCHANGED <<running, request>>

Reply == /\ phase = "answered"
         /\ phase' = "open"
         /\ request' = NoRequest
         /\ response' = NoResponse
         /\ UNCHANGED <<store, running>>

Ticked(old, new) == /\ new.type = old.type
                    /\ new.supportedCommands = old.supportedCommands
                    /\ new.lastCommand = NoCommand
                    /\ Consistent(new)

Tick(d) == /\ phase # "closed"
           /\ store' \in [Device -> DeviceInfo]
           /\ Ticked(store[d], store'[d])
           /\ \A e \in Device \ {d} : store'[e] = store[e]
           /\ UNCHANGED <<running, phase, request, response>>

Next == \/ \E d \in Device : Add(d) \/ Tick(d)
        \/ Open \/ Up
        \/ \E req \in Requests : Receive(req)
        \/ Handle \/ Reply

Spec == Init /\ [][Next]_vars
=============================================================================
