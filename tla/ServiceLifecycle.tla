-------------------------- MODULE ServiceLifecycle --------------------------
(***************************************************************************)
(* The life of the service process: main.cpp, WireGateService,             *)
(* IpcServiceModule and IpcServer, from the first line of main to its      *)
(* return, with the stop signals that may come at any moment, the failures *)
(* of the start, crashes, and the restarts that find what a crash left.    *)
(*                                                                         *)
(* Three actors touch the state: the main thread, the I/O thread that      *)
(* IpcServer::start spawns, and the signal handler.  What a request does   *)
(* to the devices is in DeviceHub.                                         *)
(***************************************************************************)
EXTENDS Naturals

CONSTANT MaxSessions   \* bound on the sessions that are open at once

ASSUME MaxSessionsAssumption == MaxSessions \in Nat \ {0}

VARIABLES
  mainPc,         \* the next thing the main thread does
  service,        \* the global pointer in main.cpp is set
  running,        \* WireGateService::running
  devicesReady,   \* the device pool has filled the registry
  managerCached,  \* IpcServiceModule::deviceManager is set
  moduleRunning,  \* IpcServiceModule::running
  serverRunning,  \* IpcServer::running_
  acceptor,       \* "closed", "open", "bound" or "listening"
  accepting,      \* an async_accept is outstanding: "no", "waiting", "ready" or "failed"
  ioStopped,      \* io_.stop() has been called
  ioPc,           \* I/O thread: "none", "run", "accept", "rearm", "handle" or "ended"
  sessions,       \* open sessions that have not answered
  path,           \* what is at the socket path: "nothing", "socket" or "other"
  signalled       \* handleSignal has run in this process

processVars == <<service, running, signalled>>
moduleVars  == <<devicesReady, managerCached, moduleRunning>>
ioVars      == <<ioStopped, ioPc, sessions>>
serverVars  == <<serverRunning, acceptor, accepting, ioVars, path>>
vars        == <<mainPc, processVars, moduleVars, serverVars>>

Gone == {"exited", "aborted", "killed"}   \* the process is no more

Init == /\ mainPc = "boot"
        /\ service = FALSE /\ running = FALSE /\ signalled = FALSE
        /\ devicesReady = FALSE /\ managerCached = FALSE /\ moduleRunning = FALSE
        /\ serverRunning = FALSE /\ acceptor = "closed" /\ accepting = "no"
        /\ ioStopped = FALSE /\ ioPc = "none" /\ sessions = 0
        /\ path \in {"nothing", "socket", "other"}

Goto(from, to) == mainPc = from /\ mainPc' = to

-----------------------------------------------------------------------------
(* main() up to the main loop.                                             *)

InstallHandlers ==
  /\ Goto("boot", "load")
  /\ UNCHANGED <<processVars, moduleVars, serverVars>>

(* loadServiceSettings throws on a file it cannot open or parse, and       *)
(* nothing catches it.                                                     *)
LoadSettings ==
  /\ Goto("load", "create") \/ Goto("load", "aborted")
  /\ UNCHANGED <<processVars, moduleVars, serverVars>>

(* The service and its two modules; installModule refuses a running one.   *)
CreateService ==
  /\ Goto("create", "startLoop")
  /\ service' = TRUE
  /\ running' = FALSE
  /\ UNCHANGED <<signalled, moduleVars, serverVars>>

StartMainLoop ==
  /\ mainPc = "startLoop"
  /\ IF running
     THEN mainPc' = "exited" /\ UNCHANGED running
     ELSE mainPc' = "startPool" /\ running' = TRUE
  /\ UNCHANGED <<service, signalled, moduleVars, serverVars>>

(* initializeModules makes the server object and sets its handler; then    *)
(* startModules starts the modules in the order of their installation.     *)
StartPool ==
  /\ Goto("startPool", "startIpc")
  /\ devicesReady' = TRUE
  /\ UNCHANGED <<processVars, managerCached, moduleRunning, serverVars>>

(* A mistaken start of the IPC module, which forgets to cache the manager. *)
CacheNoManager ==
  /\ Goto("startIpc", "prepare")
  /\ UNCHANGED <<processVars, moduleVars, serverVars>>

CacheManager ==
  /\ Goto("startIpc", "prepare")
  /\ managerCached' = TRUE
  /\ UNCHANGED <<processVars, devicesReady, moduleRunning, serverVars>>

-----------------------------------------------------------------------------
(* IpcServer::start.  A failure goes to "started" with serverRunning false.*)

(* create_directories, which may fail, and the look of removeSocketFile.   *)
(* A look that fails counts as nothing there, and start() goes on with     *)
(* whatever is at the path; a file that is no socket ends it.              *)
CheckPath ==
  /\ \/ Goto("prepare", "open")
     \/ path = "socket" /\ Goto("prepare", "remove")
     \/ Goto("prepare", "started")
  /\ UNCHANGED <<processVars, moduleVars, serverVars>>

(* The remove() of removeSocketFile, which may fail. *)
RemoveFile ==
  /\ \/ Goto("remove", "open") /\ path' = "nothing"
     \/ Goto("remove", "started") /\ UNCHANGED path
  /\ UNCHANGED <<processVars, moduleVars,
                 serverRunning, acceptor, accepting, ioVars>>

Acceptor(from, to, state) ==
  /\ Goto(from, to)
  /\ acceptor' = state
  /\ UNCHANGED <<processVars, moduleVars,
                 serverRunning, accepting, ioVars>>

(* The constructor of endpoint throws on a path that is too long, which    *)
(* nothing catches; open() may fail.                                       *)
OpenAcceptor ==
  /\ \/ Acceptor("open", "bind", "open") \/ Acceptor("open", "started", "closed")
     \/ Acceptor("open", "aborted", "closed")
  /\ UNCHANGED path

(* bind() creates the file, unless something is there already. *)
Bind ==
  \/ /\ path = "nothing"
     /\ Acceptor("bind", "listen", "bound")
     /\ path' = "socket"
  \/ /\ Acceptor("bind", "started", "closed")
     /\ UNCHANGED path

(* A failed listen() leaves the file of the bind behind. *)
Listen ==
  /\ Acceptor("listen", "spawn", "listening") \/ Acceptor("listen", "started", "closed")
  /\ UNCHANGED path

(* running_ = true, the first asyncAccept(), then the thread. *)
SpawnIoThread ==
  /\ Goto("spawn", "started")
  /\ serverRunning' = TRUE
  /\ accepting' = "waiting"
  /\ ioPc' = "run"
  /\ UNCHANGED <<processVars, moduleVars, acceptor, ioStopped, sessions, path>>

SetModuleRunning ==
  /\ Goto("started", "loop")
  /\ moduleRunning' = serverRunning
  /\ UNCHANGED <<processVars, devicesReady, managerCached, serverVars>>

-----------------------------------------------------------------------------
(* The main loop and the shutdown.                                         *)

(* One test of the loop and, if it holds, one turn: execute and sleep.     *)
LoopTest ==
  /\ mainPc = "loop"
  /\ mainPc' = IF running THEN "execute" ELSE "shutdown"
  /\ UNCHANGED <<processVars, moduleVars, serverVars>>

ExecuteAndSleep ==
  /\ Goto("execute", "loop")
  /\ UNCHANGED <<processVars, moduleVars, serverVars>>

(* A mistaken stop(), which does not ask whether the server has started. *)
StopUnasked ==
  /\ Goto("shutdown", "close")
  /\ serverRunning' = FALSE
  /\ UNCHANGED <<processVars, moduleVars,
                 acceptor, accepting, ioVars, path>>

(* IpcServer::stop returns at once if the server never started. *)
ClearServerRunning ==
  /\ mainPc = "shutdown"
  /\ mainPc' = IF serverRunning THEN "close" ELSE "stopped"
  /\ serverRunning' = FALSE
  /\ UNCHANGED <<processVars, moduleVars,
                 acceptor, accepting, ioVars, path>>

(* close() completes an outstanding accept with operation_aborted. *)
CloseAcceptor ==
  /\ Goto("close", "stopIo")
  /\ acceptor' = "closed"
  /\ accepting' = IF accepting = "waiting" THEN "failed" ELSE accepting
  /\ UNCHANGED <<processVars, moduleVars,
                 serverRunning, ioVars, path>>

(* A mistaken stop(), which relies on the acceptor to end io_.run(). *)
StopIoForgotten ==
  /\ Goto("stopIo", "join")
  /\ UNCHANGED <<processVars, moduleVars, serverVars>>

StopIo ==
  /\ Goto("stopIo", "join")
  /\ ioStopped' = TRUE
  /\ UNCHANGED <<processVars, moduleVars,
                 serverRunning, acceptor, accepting, ioPc, sessions, path>>

(* A mistaken stop(), which detaches the thread instead of joining it. *)
DetachIoThread ==
  /\ Goto("join", "unlink")
  /\ UNCHANGED <<processVars, moduleVars, serverVars>>

JoinIoThread ==
  /\ Goto("join", "unlink")
  /\ ioPc = "ended"
  /\ UNCHANGED <<processVars, moduleVars, serverVars>>

(* removeSocketFile, whose failure stop() ignores. *)
Unlink ==
  /\ Goto("unlink", "stopped")
  /\ \/ path' = IF path = "socket" THEN "nothing" ELSE path
     \/ UNCHANGED path
  /\ UNCHANGED <<processVars, moduleVars,
                 serverRunning, acceptor, accepting, ioVars>>

(* The module clears its flag and main returns.  The sessions that never   *)
(* answered go down with the io_context.                                   *)
Return ==
  /\ Goto("stopped", "exited")
  /\ moduleRunning' = FALSE
  /\ sessions' = 0
  /\ UNCHANGED <<processVars, devicesReady, managerCached,
                 serverRunning, acceptor, accepting, ioStopped, ioPc, path>>

MainStep == \/ InstallHandlers \/ LoadSettings \/ CreateService \/ StartMainLoop
            \/ StartPool \/ CacheManager
            \/ CheckPath \/ RemoveFile \/ OpenAcceptor \/ Bind \/ Listen \/ SpawnIoThread
            \/ SetModuleRunning
            \/ LoopTest \/ ExecuteAndSleep
            \/ ClearServerRunning \/ CloseAcceptor \/ StopIo \/ JoinIoThread \/ Unlink
            \/ Return

-----------------------------------------------------------------------------
(* The I/O thread: io_.run() and the handlers it calls.                    *)

Running == ioPc = "run" /\ ~ioStopped

(* run() returns when io_ is stopped, or when no operation is outstanding. *)
EndRun ==
  /\ ioPc = "run"
  /\ ioStopped \/ (accepting = "no" /\ sessions = 0)
  /\ ioPc' = "ended"
  /\ UNCHANGED <<mainPc, processVars, moduleVars,
                 serverRunning, acceptor, accepting, ioStopped, sessions, path>>

(* A mistaken accept handler, which gives up after a failed accept. *)
AcceptHandlerGivesUp ==
  /\ Running
  /\ accepting \in {"ready", "failed"}
  /\ accepting' = "no"
  /\ ioPc' = IF serverRunning /\ accepting = "ready" THEN "accept" ELSE "run"
  /\ UNCHANGED <<mainPc, processVars, moduleVars,
                 serverRunning, acceptor, ioStopped, sessions, path>>

(* The handler of async_accept: its test of running_ ...                   *)
AcceptHandler ==
  /\ Running
  /\ accepting \in {"ready", "failed"}
  /\ accepting' = "no"
  /\ ioPc' = CASE ~serverRunning                       -> "run"
               [] serverRunning /\ accepting = "ready" -> "accept"
               [] OTHER                                -> "rearm"
  /\ UNCHANGED <<mainPc, processVars, moduleVars,
                 serverRunning, acceptor, ioStopped, sessions, path>>

(* ... the session, whatever stop() has done since that test ...           *)
StartSession ==
  /\ ioPc = "accept"
  /\ sessions' = sessions + 1
  /\ ioPc' = "rearm"
  /\ UNCHANGED <<mainPc, processVars, moduleVars,
                 serverRunning, acceptor, accepting, ioStopped, path>>

(* ... and the next asyncAccept(), which fails on a closed acceptor.  But  *)
(* nothing orders it and the close() of stop(): what it does to a socket   *)
(* that is closed meanwhile is undefined, and the accept may be left       *)
(* outstanding where no close() aborts it (or the process end, see Crash). *)
Rearm ==
  /\ ioPc = "rearm"
  /\ \/ accepting' = "waiting"
     \/ acceptor # "listening" /\ accepting' = "failed"
  /\ ioPc' = "run"
  /\ UNCHANGED <<mainPc, processVars, moduleVars,
                 serverRunning, acceptor, ioStopped, sessions, path>>

(* A session has read its request and calls handleRequest. *)
Handle ==
  /\ Running
  /\ sessions > 0
  /\ ioPc' = "handle"
  /\ UNCHANGED <<mainPc, processVars, moduleVars,
                 serverRunning, acceptor, accepting, ioStopped, sessions, path>>

SessionOver(pc) ==
  /\ ioPc = pc
  /\ sessions' = sessions - 1
  /\ ioPc' = "run"
  /\ UNCHANGED <<mainPc, processVars, moduleVars,
                 serverRunning, acceptor, accepting, ioStopped, path>>

(* handleRequest returns, and the session closes with its response. *)
EndHandle == SessionOver("handle")

(* A mistaken session, which is closed by its destructor once more. *)
EndSessionAgain == ~ioStopped /\ SessionOver("run")

(* The client closes its end first and a read of the session fails. *)
EndSession == ~ioStopped /\ sessions > 0 /\ SessionOver("run")

IoStep == EndRun \/ AcceptHandler \/ StartSession \/ Rearm \/ EndHandle

-----------------------------------------------------------------------------
(* The surroundings: clients, signals, crashes and whoever restarts it.    *)

Complete(outcome) ==
  /\ accepting = "waiting"
  /\ accepting' = outcome
  /\ UNCHANGED <<mainPc, processVars, moduleVars, serverRunning, acceptor, ioVars, path>>

ClientConnects == sessions < MaxSessions /\ Complete("ready")

AcceptFails == Complete("failed")   \* no descriptor left, say

(* SIGINT or SIGTERM: handleSignal calls shutdown() on a service that      *)
(* exists; before std::signal the default action ends the process.         *)
Signal ==
  /\ mainPc \notin Gone
  /\ IF mainPc = "boot"
     THEN mainPc' = "killed" /\ UNCHANGED <<running, signalled>>
     ELSE /\ signalled' = TRUE
          /\ running' = (running /\ ~service)
          /\ UNCHANGED mainPc
  /\ UNCHANGED <<service, moduleVars, serverVars>>

(* The kernel closes what the process had open; the file stays. *)
Crash ==
  /\ mainPc \notin Gone
  /\ mainPc' = "killed"
  /\ acceptor' = "closed" /\ accepting' = "no"
  /\ ioPc' = "none" /\ sessions' = 0
  /\ UNCHANGED <<processVars, moduleVars, serverRunning, ioStopped, path>>

(* Only the file system outlives the process. *)
Restart ==
  /\ mainPc \in Gone
  /\ mainPc' = "boot"
  /\ service' = FALSE /\ running' = FALSE /\ signalled' = FALSE
  /\ devicesReady' = FALSE /\ managerCached' = FALSE /\ moduleRunning' = FALSE
  /\ serverRunning' = FALSE /\ acceptor' = "closed" /\ accepting' = "no"
  /\ ioStopped' = FALSE /\ ioPc' = "none" /\ sessions' = 0
  /\ UNCHANGED path

Next == \/ MainStep \/ IoStep
        \/ Handle \/ EndSession \/ ClientConnects \/ AcceptFails
        \/ Signal \/ Crash \/ Restart

(* Both threads are scheduled; nobody has to connect, to signal or to      *)
(* restart.  The sleep of the idle handler ends.                           *)
Fairness == WF_vars(MainStep) /\ WF_vars(IoStep)

Spec == Init /\ [][Next]_vars /\ Fairness

-----------------------------------------------------------------------------
(* Properties.                                                             *)

MainPcs == {"boot", "load", "create", "startLoop", "startPool", "startIpc", "prepare", "remove",
            "open", "bind", "listen", "spawn", "started", "loop", "execute", "shutdown",
            "close", "stopIo", "join", "unlink", "stopped"} \cup Gone

Flags == /\ service \in BOOLEAN /\ running \in BOOLEAN /\ signalled \in BOOLEAN
         /\ devicesReady \in BOOLEAN /\ managerCached \in BOOLEAN
         /\ moduleRunning \in BOOLEAN /\ serverRunning \in BOOLEAN /\ ioStopped \in BOOLEAN

(* The state has its type. *)
TypeOK == /\ mainPc \in MainPcs
          /\ Flags
          /\ acceptor \in {"closed", "open", "bound", "listening"}
          /\ accepting \in {"no", "waiting", "ready", "failed"}
          /\ ioPc \in {"none", "run", "accept", "rearm", "handle", "ended"}
          /\ sessions \in 0 .. MaxSessions
          /\ path \in {"nothing", "socket", "other"}

(* No request meets a module that is not ready for it: by the time a       *)
(* handler can run, the pool is in the registry and the module has cached  *)
(* the registry ("Device manager is not available" is never sent).         *)
HandlersFindDevices == ioPc \in {"accept", "rearm", "handle"} => devicesReady /\ managerCached

(* While the module reports that it is running, the server hears clients:  *)
(* an accept is outstanding, or the handler that arms the next one is on   *)
(* its way, through every failed accept and every session.                 *)
NeverDeaf ==
  mainPc \in {"loop", "execute"} /\ moduleRunning =>
    /\ serverRunning /\ acceptor = "listening" /\ ~ioStopped
    /\ \/ accepting # "no"   /\ ioPc \in {"run", "handle"}
       \/ accepting = "no"   /\ ioPc \in {"accept", "rearm"}

(* When main returns, the I/O thread has ended and no handler is under way *)
(* in the objects that go away, nothing listens, and no flag still says    *)
(* otherwise, wherever in its start or its loop the signal came.           *)
CleanExit ==
  mainPc = "exited" =>
    /\ ioPc \in {"none", "ended"}
    /\ acceptor = "closed" /\ ~serverRunning /\ ~moduleRunning

(* Once the main loop has been entered, a signal ends the process, even    *)
(* one that comes while the modules start or a session is being served.    *)
ShutdownCompletes ==
  (mainPc \in {"startPool", "startIpc", "prepare", "remove", "open", "bind", "listen",
               "spawn", "started", "loop", "execute"} /\ ~running)
    ~> mainPc \in Gone

Stage ==
  CASE mainPc \in {"boot", "load", "create", "startLoop", "startPool", "startIpc",
                   "stopped"} \cup Gone -> "down"
    [] mainPc = "prepare"          -> "check"
    [] mainPc = "remove"           -> "remove"
    [] mainPc \in {"open", "bind"} -> IF path = "nothing" THEN "bind" ELSE "blind"
    [] mainPc = "listen"           -> "listen"
    [] mainPc \in {"spawn", "close"} -> "serving"
    [] mainPc \in {"started", "loop", "execute", "shutdown"} ->
         IF serverRunning THEN "serving" ELSE "deaf"
    [] mainPc \in {"stopIo", "join"} -> "stopCheck"
    [] mainPc = "unlink"           -> IF path = "socket" THEN "stopRemove" ELSE "down"

FileFound == IF path # "socket" THEN path
             ELSE IF acceptor \in {"bound", "listening"} THEN "service" ELSE "stale"

(* This process as one of the services of SocketPath, with a configuration *)
(* that names no path.  A socket file is its own while its acceptor is     *)
(* bound to it, and stale before and after.                                *)
Paths == INSTANCE SocketPath
           WITH Service <- {"service"},
                Path    <- {"/tmp/wiregate_service.sock", "/tmp/wiregate-service.sock"},
                Missing <- "missing",
                Configs <- {"missing"},
                config  <- [s \in {"service"} |-> "missing"],
                rivals  <- [s \in {"service"} |-> FALSE],
                pc      <- [s \in {"service"} |-> Stage],
                file    <- [p \in {"/tmp/wiregate_service.sock", "/tmp/wiregate-service.sock"} |->
                              IF p = "/tmp/wiregate_service.sock" THEN FileFound ELSE "nothing"]

(* The process touches its path as SocketPath says, whose services can     *)
(* therefore be combined: it removes a file and binds in that order, takes *)
(* away at the end only what it has bound, and whatever step of the start  *)
(* fails (if its first look at the path does, it binds with what is there  *)
(* in place), whatever crash or signal comes, does to it nothing else.     *)
FollowsSocketPath == Paths!Spec

(* What registering handleSignal for SIGINT and SIGTERM at the head of     *)
(* main is for: a signal that it handles ends the service.                 *)
(* Expected to fail: one that comes before startMainLoop sets running is   *)
(* swallowed, either as service is still null or as running is set again.  *)
SignalStops == signalled ~> mainPc \in Gone
=============================================================================
