----------------------------- MODULE SocketPath ------------------------------
(***************************************************************************)
(* The socket paths on which service processes listen and clients connect: *)
(* which path each takes from its configuration or its defaults, and what  *)
(* the services that share a path do to each other's socket file.          *)
(*                                                                         *)
(* IpcServer::start removes whatever socket is at its path and stop does   *)
(* the same, each in two system calls, without asking whose it is.         *)
(* ServiceLifecycle has one process in full; of each process here only the *)
(* steps that touch the path are kept, and any of them may fail.  No other *)
(* program is assumed to touch the paths.                                  *)
(***************************************************************************)
CONSTANTS Service,   \* the service processes
          Path,      \* the socket paths
          Missing,   \* a configuration that does not name one
          Configs    \* what the configurations of services may say

VARIABLES config,    \* what the configuration of each service says
          pc,        \* where it is, see TypeOK
          file,      \* what is at each path: whose socket, or see Init
          rivals     \* another was at work on its path since it started

vars == <<config, pc, file, rivals>>

(* loadServiceSettings, and its counterpart in the clients: loadWebSettings *)
(* and the option --socket.                                                *)
ServiceDefault == "/tmp/wiregate_service.sock"
ClientDefault  == "/tmp/wiregate-service.sock"

ServicePath(c) == IF c = Missing THEN ServiceDefault ELSE c
ClientPath(c)  == IF c = Missing THEN ClientDefault ELSE c

ASSUME PathAssumption == /\ {ServiceDefault, ClientDefault} \subseteq Path
                         /\ Configs \subseteq Path \cup {Missing}
ASSUME NameAssumption == Service \cap {"nothing", "stale", "other"} = {}

At(s)     == ServicePath(config[s])
IsSocket(f) == f \notin {"nothing", "other"}

(* A "deaf" service has failed to start its server and never touches the   *)
(* path again.                                                             *)
AtWork(s)     == pc[s] \notin {"down", "deaf"}
Rivals(s, c)  == {t \in Service \ {s} : AtWork(t) /\ At(t) = ServicePath(c)}

(* A "stale" socket is one on which nobody listens. *)
Init == /\ config = [s \in Service |-> Missing]
        /\ pc = [s \in Service |-> "down"]
        /\ file \in [Path -> {"nothing", "stale", "other"}]
        /\ rivals = [s \in Service |-> FALSE]

Goto(s, to)   == pc' = [pc EXCEPT ![s] = to]
Leave(s, f)   == file' = [file EXCEPT ![At(s)] = f]
CloseSocket(s) == IF file[At(s)] = s THEN Leave(s, "stale") ELSE UNCHANGED file

-----------------------------------------------------------------------------

Start(s, c) ==
  /\ pc[s] = "down"
  /\ config' = [config EXCEPT ![s] = c]
  /\ rivals' = [t \in Service |-> IF t = s THEN Rivals(s, c) # {}
                                           ELSE rivals[t] \/ t \in Rivals(s, c)]
  /\ Goto(s, "check")
  /\ UNCHANGED file

(* removeSocketFile up to its checks: nothing there, a file that is no     *)
(* socket, or one to remove.  Nobody looks at its result in stop.  A look  *)
(* that fails counts as nothing there: start goes on, "blind".             *)
CheckPath(s) ==
  /\ LET found == file[At(s)]
     IN  \/ /\ pc[s] = "check"
           /\ \/ Goto(s, IF found = "nothing" THEN "bind"
                         ELSE IF found = "other" THEN "deaf" ELSE "remove")
              \/ Goto(s, "blind")
        \/ /\ pc[s] = "stopCheck"
           /\ \/ Goto(s, IF IsSocket(found) THEN "stopRemove" ELSE "down")
              \/ Goto(s, "down")
  /\ UNCHANGED <<config, file, rivals>>

(* remove() takes what is there by now. *)
RemovePath(s) ==
  /\ pc[s] \in {"remove", "stopRemove"}
  /\ Leave(s, "nothing")
  /\ Goto(s, IF pc[s] = "remove" THEN "bind" ELSE "down")
  /\ UNCHANGED <<config, rivals>>

(* bind() makes the file, unless there is one. *)
Bind(s) ==
  /\ pc[s] \in {"bind", "blind"}
  /\ IF file[At(s)] = "nothing" THEN Leave(s, s) /\ Goto(s, "listen")
                                ELSE UNCHANGED file /\ Goto(s, "deaf")
  /\ UNCHANGED <<config, rivals>>

Listen(s) ==
  /\ pc[s] = "listen"
  /\ Goto(s, "serving")
  /\ UNCHANGED <<config, file, rivals>>

(* A mistaken failure, which leaves the acceptor open. *)
FailStartOpen(s) ==
  /\ pc[s] \in {"check", "remove", "bind", "blind", "listen"}
  /\ Goto(s, "deaf")
  /\ UNCHANGED <<config, file, rivals>>

(* A step of start fails, and what is open is closed. *)
FailStart(s) ==
  /\ pc[s] \in {"check", "remove", "bind", "blind", "listen"}
  /\ CloseSocket(s)
  /\ Goto(s, "deaf")
  /\ UNCHANGED <<config, rivals>>

(* A mistaken stop, which does not ask whether the server was started. *)
StopAnyway(s) ==
  /\ pc[s] \in {"serving", "deaf"}
  /\ CloseSocket(s)
  /\ Goto(s, "stopCheck")
  /\ UNCHANGED <<config, rivals>>

(* IpcServer::stop up to removeSocketFile; it returns at once if the       *)
(* server has not started.                                                 *)
Stop(s) ==
  /\ pc[s] \in {"serving", "deaf"}
  /\ CloseSocket(s)
  /\ Goto(s, IF pc[s] = "serving" THEN "stopCheck" ELSE "down")
  /\ UNCHANGED <<config, rivals>>

(* The process dies: its sockets are closed, its file stays. *)
Crash(s) ==
  /\ pc[s] # "down"
  /\ CloseSocket(s)
  /\ Goto(s, "down")
  /\ UNCHANGED <<config, rivals>>

Next == \E s \in Service :
          \/ \E c \in Configs : Start(s, c)
          \/ CheckPath(s) \/ RemovePath(s) \/ Bind(s) \/ Listen(s) \/ FailStart(s)
          \/ Stop(s) \/ Crash(s)

Spec == Init /\ [][Next]_vars

-----------------------------------------------------------------------------
(* Properties.                                                             *)

(* The state has its type, and the socket at a path is of a service there. *)
TypeOK ==
  /\ config \in [Service -> Path \cup {Missing}]
  /\ pc \in [Service -> {"down", "check", "remove", "bind", "blind", "listen",
                         "serving", "deaf", "stopCheck", "stopRemove"}]
  /\ file \in [Path -> {"nothing", "stale", "other"} \cup Service]
  /\ rivals \in [Service -> BOOLEAN]
  /\ \A p \in Path : file[p] \in Service =>
       pc[file[p]] \in {"listen", "serving"} /\ At(file[p]) = p

(* Who connects to p reaches s. *)
Reaches(p, s) == file[p] = s /\ pc[s] = "serving"

(* A service that has had its path to itself since it started can be       *)
(* reached by the clients of that path, whatever it found there, and       *)
(* whatever those that failed to start do when they stop.  Nor does what   *)
(* was left there keep it from binding, unless its look at the path fails. *)
LoneServiceReachable ==
  \A s \in Service : ~rivals[s] => /\ pc[s] = "serving" => Reaches(At(s), s)
                                   /\ pc[s] = "bind" => file[At(s)] = "nothing"

(* "Use --socket <path> when the service uses a non-default IPC socket":   *)
(* without the option, a client finds a service that uses the default.     *)
(* Expected to fail: the two defaults differ.                              *)
DefaultClientFindsService ==
  \A s \in Service : pc[s] = "serving" /\ config[s] = Missing /\ ~rivals[s]
                       => Reaches(ClientPath(Missing), s)
=============================================================================
