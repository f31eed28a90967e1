----------------------- MODULE ServiceLifecycleProofs -----------------------
(***************************************************************************)
(* Proofs of the properties of ServiceLifecycle, for every bound on the    *)
(* sessions, every order of the three actors and every number of crashes   *)
(* and restarts: safety, the refinement of SocketPath, and the end of      *)
(* every shutdown.                                                         *)
(***************************************************************************)
EXTENDS ServiceLifecycle, TLAPS

Preparing == {"boot", "load", "create", "startLoop", "startPool", "startIpc", "prepare",
              "remove", "open", "bind", "listen", "spawn"}
Serving   == {"started", "loop", "execute", "shutdown"}

(* Before IpcServer::start has spawned its thread nothing is under way.    *)
NothingUnderWay ==
  mainPc \in Preparing \cup {"aborted"} =>
    /\ ioPc = "none" /\ accepting = "no" /\ sessions = 0
    /\ ~serverRunning /\ ~moduleRunning /\ ~ioStopped

(* The acceptor is where the main thread has brought it.                   *)
AcceptorFollows ==
  /\ mainPc \in (Preparing \ {"bind", "listen", "spawn"})
                  \cup {"stopIo", "join", "unlink", "stopped"} \cup Gone => acceptor = "closed"
  /\ mainPc = "bind" => acceptor = "open"
  /\ mainPc = "listen" => acceptor = "bound"
  /\ mainPc \in {"spawn", "close"} => acceptor = "listening"
  /\ mainPc \in Serving => acceptor = IF serverRunning THEN "listening" ELSE "closed"

(* A server that runs has an accept outstanding or is about to arm one; one*)
(* that failed to start has no thread.                                     *)
ServerListens ==
  mainPc \in Serving =>
    /\ ~ioStopped
    /\ ~serverRunning => ioPc = "none"
    /\ serverRunning => \/ accepting # "no" /\ ioPc \in {"run", "handle"}
                        \/ accepting = "no" /\ ioPc \in {"accept", "rearm"}

ModuleFollowsServer ==
  mainPc \in {"loop", "execute", "shutdown"} => moduleRunning = serverRunning

(* What stop() has undone stays undone.                                    *)
Stopped ==
  /\ mainPc \in {"close", "stopIo", "join", "unlink", "stopped", "exited", "aborted"}
       => ~serverRunning
  /\ mainPc \in {"close", "stopIo", "join"} => ioPc # "none"
  /\ mainPc = "join" => ioStopped
  /\ mainPc = "unlink" => ioPc = "ended"
  /\ mainPc \in {"stopped"} \cup Gone => ioPc \in {"none", "ended"}
  /\ mainPc = "exited" => ~moduleRunning

(* The I/O thread exists only after the pool and the manager are in place. *)
StartedInOrder ==
  /\ mainPc \in {"startIpc", "prepare", "remove", "open", "bind", "listen", "spawn"} => devicesReady
  /\ mainPc \in {"prepare", "remove", "open", "bind", "listen", "spawn"} => managerCached
  /\ ioPc # "none" => devicesReady /\ managerCached

(* Sessions are counted from the accept that finds room for one.           *)
SessionsCounted ==
  /\ ioPc = "accept" => accepting = "no"
  /\ ioPc = "accept" \/ accepting = "ready" => sessions < MaxSessions
  /\ ioPc = "handle" => sessions > 0

IInv == /\ TypeOK
        /\ NothingUnderWay
        /\ AcceptorFollows
        /\ ServerListens
        /\ ModuleFollowsServer
        /\ Stopped
        /\ StartedInOrder
        /\ SessionsCounted

-----------------------------------------------------------------------------

LEMMA InitIInv == ASSUME Init PROVE IInv
<1>1. TypeOK
  <2>1. Flags
    BY DEF Init, Flags
  <2> QED BY MaxSessionsAssumption, <2>1 DEF Init, TypeOK, MainPcs
<1>2. NothingUnderWay /\ AcceptorFollows /\ ServerListens /\ ModuleFollowsServer
  BY DEF Init, NothingUnderWay, AcceptorFollows, ServerListens, ModuleFollowsServer, Serving
<1>3. Stopped /\ StartedInOrder /\ SessionsCounted
  BY DEF Init, Stopped, StartedInOrder, SessionsCounted, Gone
<1> QED BY <1>1, <1>2, <1>3 DEF IInv

-----------------------------------------------------------------------------
(* The main thread.                                                        *)

LEMMA StartIInv ==
  ASSUME IInv,
         InstallHandlers \/ LoadSettings \/ CreateService \/ StartMainLoop \/ StartPool \/ CacheManager
  PROVE  IInv'
<1> USE DEF InstallHandlers, LoadSettings, CreateService, StartMainLoop, StartPool, CacheManager,
            Goto, processVars, moduleVars, serverVars, ioVars, Preparing, Serving, Gone
<1>1. TypeOK'
  <2>1. Flags'
    BY Zenon DEF IInv, TypeOK, Flags
  <2> QED BY <2>1 DEF IInv, TypeOK, MainPcs
<1>2. NothingUnderWay' /\ AcceptorFollows'
  BY DEF IInv, NothingUnderWay, AcceptorFollows
<1>3. ServerListens' /\ ModuleFollowsServer' /\ Stopped'
  BY DEF IInv, NothingUnderWay, ServerListens, ModuleFollowsServer, Stopped
<1>4. StartedInOrder' /\ SessionsCounted'
  BY DEF IInv, NothingUnderWay, StartedInOrder, SessionsCounted
<1> QED BY <1>1, <1>2, <1>3, <1>4 DEF IInv

LEMMA ServerStartIInv ==
  ASSUME IInv, CheckPath \/ RemoveFile \/ OpenAcceptor \/ Bind \/ Listen
  PROVE  IInv'
<1> USE DEF CheckPath, RemoveFile, OpenAcceptor, Bind, Listen, Acceptor,
            Goto, processVars, moduleVars, serverVars, ioVars, Preparing, Serving, Gone
<1>1. TypeOK'
  <2>1. Flags'
    BY Zenon DEF IInv, TypeOK, Flags
  <2> QED BY <2>1 DEF IInv, TypeOK, MainPcs
<1>2. NothingUnderWay' /\ AcceptorFollows'
  BY DEF IInv, NothingUnderWay, AcceptorFollows
<1>3. ServerListens' /\ ModuleFollowsServer' /\ Stopped'
  BY DEF IInv, NothingUnderWay, ServerListens, ModuleFollowsServer, Stopped
<1>4. StartedInOrder' /\ SessionsCounted'
  BY DEF IInv, NothingUnderWay, StartedInOrder, SessionsCounted
<1> QED BY <1>1, <1>2, <1>3, <1>4 DEF IInv

LEMMA ServeIInv ==
  ASSUME IInv, SpawnIoThread \/ SetModuleRunning \/ LoopTest \/ ExecuteAndSleep
  PROVE  IInv'
<1> USE DEF SpawnIoThread, SetModuleRunning, LoopTest, ExecuteAndSleep,
            Goto, processVars, moduleVars, serverVars, ioVars, Preparing, Serving, Gone
<1>1. TypeOK'
  <2>1. Flags'
    BY Zenon DEF IInv, TypeOK, Flags
  <2> QED BY <2>1 DEF IInv, TypeOK, MainPcs
<1>2. NothingUnderWay' /\ AcceptorFollows'
  BY DEF IInv, NothingUnderWay, AcceptorFollows
<1>3. ServerListens' /\ ModuleFollowsServer' /\ Stopped'
  BY DEF IInv, NothingUnderWay, ServerListens, ModuleFollowsServer, Stopped
<1>4. StartedInOrder' /\ SessionsCounted'
  BY MaxSessionsAssumption DEF IInv, NothingUnderWay, StartedInOrder, SessionsCounted
<1> QED BY <1>1, <1>2, <1>3, <1>4 DEF IInv

LEMMA StopIInv ==
  ASSUME IInv,
         ClearServerRunning \/ CloseAcceptor \/ StopIo \/ JoinIoThread \/ Unlink \/ Return
  PROVE  IInv'
<1> USE DEF ClearServerRunning, CloseAcceptor, StopIo, JoinIoThread, Unlink, Return,
            Goto, processVars, moduleVars, serverVars, ioVars, Preparing, Serving, Gone
<1>1. TypeOK'
  <2>1. Flags'
    BY Zenon DEF IInv, TypeOK, Flags
  <2> QED BY MaxSessionsAssumption, <2>1 DEF IInv, TypeOK, MainPcs
<1>2. NothingUnderWay' /\ AcceptorFollows'
  BY DEF IInv, NothingUnderWay, AcceptorFollows
<1>3. ServerListens' /\ ModuleFollowsServer'
  BY DEF IInv, ServerListens, ModuleFollowsServer
<1>5. Stopped'
  BY DEF IInv, ServerListens, Stopped
<1>4. StartedInOrder' /\ SessionsCounted'
  BY MaxSessionsAssumption DEF IInv, StartedInOrder, SessionsCounted, Stopped
<1> QED BY <1>1, <1>2, <1>3, <1>4, <1>5 DEF IInv

LEMMA MainStepIInv == ASSUME IInv, MainStep PROVE IInv'
BY StartIInv, ServerStartIInv, ServeIInv, StopIInv DEF MainStep

-----------------------------------------------------------------------------
(* The I/O thread, whose steps leave everything alone but its own state,   *)
(* the outstanding accept and the sessions.                                *)

IoFrame == UNCHANGED <<mainPc, processVars, moduleVars, serverRunning, acceptor, ioStopped, path>>

LEMMA IoStepIInv ==
  ASSUME IInv,
         EndRun \/ AcceptHandler \/ StartSession \/ Rearm \/ EndHandle \/ Handle \/ EndSession
  PROVE  IInv'
<1> USE DEF EndRun, AcceptHandler, StartSession, Rearm, EndHandle, Handle, EndSession,
            Running, SessionOver
<1>1. IoFrame
  BY DEF IoFrame, processVars, moduleVars
<1>2. sessions \in Nat /\ sessions <= MaxSessions /\ MaxSessions \in Nat
  BY MaxSessionsAssumption DEF IInv, TypeOK
<1>3. TypeOK'
  <2>1. ioPc' \in {"none", "run", "accept", "rearm", "handle", "ended"}
    OBVIOUS
  <2>2. accepting' \in {"no", "waiting", "ready", "failed"}
    BY DEF IInv, TypeOK
  <2>3. sessions' \in 0 .. MaxSessions
    BY <1>2 DEF IInv, SessionsCounted
  <2> QED BY <1>1, <2>1, <2>2, <2>3 DEF IInv, TypeOK, Flags, IoFrame, processVars, moduleVars
<1>4. mainPc \notin Preparing \cup {"unlink", "stopped"} \cup Gone
  BY DEF IInv, NothingUnderWay, Stopped, Preparing, Gone
<1>5. NothingUnderWay' /\ AcceptorFollows' /\ ModuleFollowsServer'
  BY <1>1, <1>4 DEF IInv, NothingUnderWay, AcceptorFollows, ModuleFollowsServer,
                    IoFrame, processVars, moduleVars, Preparing, Gone
<1>6. ServerListens'
  BY <1>1 DEF IInv, AcceptorFollows, ServerListens, IoFrame, Serving
<1>7. Stopped'
  BY <1>1, <1>4 DEF IInv, Stopped, IoFrame, Gone
<1>8. StartedInOrder'
  BY <1>1 DEF IInv, StartedInOrder, IoFrame, moduleVars
<1>9. SessionsCounted'
  BY <1>2 DEF IInv, SessionsCounted
<1> QED BY <1>3, <1>5, <1>6, <1>7, <1>8, <1>9 DEF IInv

-----------------------------------------------------------------------------
(* The surroundings.                                                       *)

LEMMA AcceptCompletesIInv ==
  ASSUME IInv, ClientConnects \/ AcceptFails
  PROVE  IInv'
<1> USE DEF ClientConnects, AcceptFails, Complete, processVars, moduleVars, ioVars
<1>1. TypeOK'
  BY DEF IInv, TypeOK, Flags
<1>2. NothingUnderWay' /\ AcceptorFollows' /\ ServerListens'
  BY DEF IInv, NothingUnderWay, AcceptorFollows, ServerListens
<1>3. ModuleFollowsServer' /\ Stopped' /\ StartedInOrder' /\ SessionsCounted'
  BY DEF IInv, ModuleFollowsServer, Stopped, StartedInOrder, SessionsCounted
<1> QED BY <1>1, <1>2, <1>3 DEF IInv

LEMMA SignalIInv ==
  ASSUME IInv, Signal
  PROVE  IInv'
<1> USE DEF Signal, processVars, moduleVars, serverVars, ioVars, Gone, Preparing
<1>1. TypeOK'
  <2>1. Flags'
    BY Zenon DEF IInv, TypeOK, Flags
  <2> QED BY <2>1 DEF IInv, TypeOK, MainPcs
<1>2. NothingUnderWay' /\ AcceptorFollows'
  BY DEF IInv, NothingUnderWay, AcceptorFollows, Serving
<1>3. ServerListens' /\ ModuleFollowsServer' /\ Stopped'
  BY DEF IInv, NothingUnderWay, ServerListens, ModuleFollowsServer, Stopped, Serving
<1>4. StartedInOrder' /\ SessionsCounted'
  BY DEF IInv, StartedInOrder, SessionsCounted
<1> QED BY <1>1, <1>2, <1>3, <1>4 DEF IInv

LEMMA CrashRestartIInv ==
  ASSUME IInv, Crash \/ Restart
  PROVE  IInv'
<1> USE DEF Crash, Restart, processVars, moduleVars, Gone, Preparing, Serving
<1>1. TypeOK'
  <2>1. Flags'
    BY Zenon DEF IInv, TypeOK, Flags
  <2> QED BY MaxSessionsAssumption, <2>1 DEF IInv, TypeOK, MainPcs
<1>2. NothingUnderWay' /\ AcceptorFollows'
  BY DEF NothingUnderWay, AcceptorFollows
<1>3. ServerListens' /\ ModuleFollowsServer' /\ Stopped'
  BY DEF ServerListens, ModuleFollowsServer, Stopped
<1>4. StartedInOrder' /\ SessionsCounted'
  BY MaxSessionsAssumption DEF StartedInOrder, SessionsCounted
<1> QED BY <1>1, <1>2, <1>3, <1>4 DEF IInv

LEMMA StutterIInv == ASSUME IInv, UNCHANGED vars PROVE IInv'
BY DEF IInv, TypeOK, Flags, NothingUnderWay, AcceptorFollows, ServerListens, ModuleFollowsServer,
       Stopped, StartedInOrder, SessionsCounted,
       vars, processVars, moduleVars, serverVars, ioVars

-----------------------------------------------------------------------------

(* The invariant holds in every state of the process and its restarts.     *)
THEOREM Invariance == Spec => []IInv
<1>1. Init => IInv
  BY InitIInv
<1>2. IInv /\ [Next]_vars => IInv'
  BY MainStepIInv, IoStepIInv, AcceptCompletesIInv, SignalIInv, CrashRestartIInv, StutterIInv
     DEF Next, IoStep
<1> QED BY <1>1, <1>2, PTL DEF Spec

(* The state of the process always has its type.                           *)
THEOREM TypeCorrect == Spec => []TypeOK
BY Invariance, PTL DEF IInv

(* No handler ever runs before the registry is filled and cached.          *)
THEOREM HandlersStartLate == Spec => []HandlersFindDevices
<1>1. IInv => HandlersFindDevices
  BY DEF IInv, StartedInOrder, HandlersFindDevices
<1> QED BY <1>1, Invariance, PTL

(* A service that reports it is running always hears its clients.          *)
THEOREM AlwaysListening == Spec => []NeverDeaf
<1>1. IInv => NeverDeaf
  BY DEF IInv, AcceptorFollows, ServerListens, ModuleFollowsServer, Serving, NeverDeaf
<1> QED BY <1>1, Invariance, PTL

(* Whenever main returns, no thread, acceptor or flag of it is left.       *)
THEOREM ExitsClean == Spec => []CleanExit
<1>1. IInv => CleanExit
  BY DEF IInv, AcceptorFollows, Stopped, Gone, CleanExit
<1> QED BY <1>1, Invariance, PTL

-----------------------------------------------------------------------------
(* What the process does to its socket path is what SocketPath says: first *)
(* each action of SocketPath on this one service, as a change of its stage *)
(* and its file; then, step by step, which of them the process takes.      *)

Unmoved == Stage' = Stage /\ FileFound' = FileFound

LEMMA AsStart ==
  ASSUME Stage = "down", Stage' = "check", FileFound' = FileFound
  PROVE  Paths!Start("service", "missing")
BY DEF Paths!Start, Paths!Rivals, Paths!Goto

LEMMA AsCheckPath ==
  ASSUME \/ Stage = "check" /\ FileFound = "nothing" /\ Stage' = "bind"
         \/ Stage = "check" /\ FileFound = "other"   /\ Stage' = "deaf"
         \/ Stage = "check" /\ FileFound = "stale"   /\ Stage' = "remove"
         \/ Stage = "check" /\ Stage' = "blind"
         \/ Stage = "stopCheck" /\ FileFound = "stale"   /\ Stage' = "stopRemove"
         \/ Stage = "stopCheck" /\ FileFound # "stale" /\ FileFound # "service" /\ Stage' = "down",
         FileFound \in {"nothing", "stale", "other", "service"},
         FileFound' = FileFound
  PROVE  Paths!CheckPath("service")
BY DEF Paths!CheckPath, Paths!Goto, Paths!At, Paths!ServicePath, Paths!ServiceDefault, Paths!IsSocket

LEMMA AsRemovePath ==
  ASSUME \/ Stage = "remove"     /\ Stage' = "bind"
         \/ Stage = "stopRemove" /\ Stage' = "down",
         FileFound' = "nothing"
  PROVE  Paths!RemovePath("service")
BY DEF Paths!RemovePath, Paths!Goto, Paths!Leave, Paths!At, Paths!ServicePath, Paths!ServiceDefault

LEMMA AsBind ==
  ASSUME Stage = "bind", Stage' = "listen", FileFound = "nothing", FileFound' = "service"
  PROVE  Paths!Bind("service")
BY DEF Paths!Bind, Paths!Goto, Paths!Leave, Paths!At, Paths!ServicePath, Paths!ServiceDefault

LEMMA AsListen ==
  ASSUME Stage = "listen", Stage' = "serving", FileFound' = FileFound
  PROVE  Paths!Listen("service")
BY DEF Paths!Listen, Paths!Goto

Closes == FileFound' = IF FileFound = "service" THEN "stale" ELSE FileFound

LEMMA AsCloseSocket == ASSUME Closes PROVE Paths!CloseSocket("service")
BY DEF Closes, Paths!CloseSocket, Paths!Leave, Paths!At, Paths!ServicePath, Paths!ServiceDefault

LEMMA AsFailStart ==
  ASSUME Stage \in {"check", "remove", "bind", "blind", "listen"}, Stage' = "deaf", Closes
  PROVE  Paths!FailStart("service")
BY AsCloseSocket DEF Paths!FailStart, Paths!Goto

LEMMA AsStop ==
  ASSUME \/ Stage = "serving" /\ Stage' = "stopCheck"
         \/ Stage = "deaf"    /\ Stage' = "down",
         Closes
  PROVE  Paths!Stop("service")
BY AsCloseSocket DEF Paths!Stop, Paths!Goto

LEMMA AsCrash ==
  ASSUME Stage # "down", Stage' = "down", Closes
  PROVE  Paths!Crash("service")
BY AsCloseSocket DEF Paths!Crash, Paths!Goto

LEMMA AsUnmoved == ASSUME Unmoved PROVE UNCHANGED Paths!vars
BY DEF Unmoved, Paths!vars

PathsStep == \/ Paths!Start("service", "missing")
             \/ Paths!CheckPath("service") \/ Paths!RemovePath("service")
             \/ Paths!Bind("service") \/ Paths!Listen("service") \/ Paths!FailStart("service")
             \/ Paths!Stop("service") \/ Paths!Crash("service")
             \/ UNCHANGED Paths!vars

LEMMA PathsStepIsNext == ASSUME PathsStep PROVE [Paths!Next]_(Paths!vars)
BY DEF PathsStep, Paths!Next

LEMMA StartFollows ==
  ASSUME IInv,
         InstallHandlers \/ LoadSettings \/ CreateService \/ StartMainLoop \/ StartPool \/ CacheManager
  PROVE  PathsStep
<1> USE DEF Goto, serverVars, ioVars, Gone
<1>1. CASE InstallHandlers \/ LoadSettings \/ CreateService \/ StartMainLoop \/ StartPool
  <2>1. Unmoved
    BY <1>1 DEF InstallHandlers, LoadSettings, CreateService, StartMainLoop, StartPool,
                Unmoved, Stage, FileFound
  <2> QED BY <2>1, AsUnmoved DEF PathsStep
<1>2. CASE CacheManager
  <2>1. Stage = "down" /\ Stage' = "check" /\ FileFound' = FileFound
    BY <1>2 DEF CacheManager, Stage, FileFound
  <2> QED BY <2>1, AsStart DEF PathsStep
<1> QED BY <1>1, <1>2

LEMMA ServerStartFollows ==
  ASSUME IInv, CheckPath \/ RemoveFile \/ OpenAcceptor \/ Bind \/ Listen
  PROVE  PathsStep
<1> USE DEF Goto, Gone
<1>1. CASE CheckPath
  <2> USE <1>1 DEF CheckPath
  <2>1. /\ acceptor = "closed" /\ acceptor' = "closed" /\ path' = path
        /\ path \in {"nothing", "socket", "other"} /\ ~serverRunning'
    BY DEF IInv, TypeOK, NothingUnderWay, AcceptorFollows, Preparing, serverVars
  <2>2. Stage = "check"
    BY DEF Stage
  <2>3. FileFound = (IF path = "socket" THEN "stale" ELSE path) /\ FileFound' = FileFound
    BY <2>1 DEF FileFound
  <2>4. \/ Stage' = IF path = "nothing" THEN "bind" ELSE "blind"
        \/ path = "socket" /\ Stage' = "remove"
        \/ Stage' = "deaf"
    BY <2>1 DEF Stage
  <2> QED BY <2>1, <2>2, <2>3, <2>4, AsCheckPath, AsFailStart DEF PathsStep, Closes
<1>2. CASE RemoveFile
  <2> USE <1>2 DEF RemoveFile
  <2>1. /\ acceptor = "closed" /\ acceptor' = "closed" /\ path # "service"
        /\ ~serverRunning /\ serverRunning' = serverRunning
    BY DEF IInv, TypeOK, NothingUnderWay, AcceptorFollows, Preparing
  <2>2. Stage = "remove"
    BY DEF Stage
  <2>3. \/ Stage' = "bind" /\ FileFound' = "nothing"
        \/ Stage' = "deaf" /\ FileFound' = FileFound /\ FileFound # "service"
    BY <2>1 DEF Stage, FileFound
  <2> QED BY <2>2, <2>3, AsRemovePath, AsFailStart DEF PathsStep, Closes
<1>3. CASE OpenAcceptor \/ Bind \/ Listen
  <2>1. /\ ~serverRunning /\ serverRunning' = serverRunning
        /\ mainPc = "open" => acceptor = "closed"
        /\ mainPc = "bind" => acceptor = "open"
        /\ mainPc = "listen" => acceptor = "bound"
        /\ path \in {"nothing", "socket", "other"}
    BY <1>3 DEF OpenAcceptor, Bind, Listen, Acceptor, IInv, TypeOK, NothingUnderWay, AcceptorFollows,
                Preparing
  <2>2. CASE OpenAcceptor
    <3> USE <2>2 DEF OpenAcceptor, Acceptor
    <3>1. Stage \in {"bind", "blind"} /\ FileFound' = FileFound /\ FileFound # "service"
      BY <2>1 DEF Stage, FileFound
    <3>2. Stage' \in {Stage, "deaf", "down"}
      BY <2>1 DEF Stage
    <3> QED BY <3>1, <3>2, AsUnmoved, AsFailStart, AsCrash DEF PathsStep, Unmoved, Closes
  <2>3. CASE Bind
    <3> USE <2>3 DEF Bind, Acceptor
    <3>1. /\ Stage \in {"bind", "blind"} /\ FileFound # "service"
          /\ path = "nothing" => Stage = "bind" /\ FileFound = "nothing"
      BY <2>1 DEF Stage, FileFound
    <3>2. \/ path = "nothing" /\ Stage' = "listen" /\ FileFound' = "service"
          \/ Stage' = "deaf" /\ FileFound' = FileFound
      BY <2>1 DEF Stage, FileFound
    <3> QED BY <3>1, <3>2, AsBind, AsFailStart DEF PathsStep, Closes
  <2>4. CASE Listen
    <3> USE <2>4 DEF Listen, Acceptor
    <3>1. Stage = "listen" /\ FileFound = (IF path = "socket" THEN "service" ELSE path)
      BY <2>1 DEF Stage, FileFound
    <3>2. \/ Stage' = "serving" /\ FileFound' = FileFound
          \/ Stage' = "deaf" /\ FileFound' = IF path = "socket" THEN "stale" ELSE path
      BY <2>1 DEF Stage, FileFound
    <3>3. path # "service"
      BY DEF IInv, TypeOK
    <3> QED BY <3>1, <3>2, <3>3, AsListen, AsFailStart DEF PathsStep, Closes
  <2> QED BY <1>3, <2>2, <2>3, <2>4
<1> QED BY <1>1, <1>2, <1>3

LEMMA ServeFollows ==
  ASSUME IInv, SpawnIoThread \/ SetModuleRunning \/ LoopTest \/ ExecuteAndSleep
  PROVE  PathsStep
<1>1. Unmoved
  BY DEF SpawnIoThread, SetModuleRunning, LoopTest, ExecuteAndSleep, Goto, serverVars, ioVars,
         Unmoved, Stage, FileFound, Gone
<1> QED BY <1>1, AsUnmoved DEF PathsStep

LEMMA StopFollows ==
  ASSUME IInv,
         ClearServerRunning \/ CloseAcceptor \/ StopIo \/ JoinIoThread \/ Unlink \/ Return
  PROVE  PathsStep
<1> USE DEF Goto, Gone, serverVars, ioVars
<1>1. path \in {"nothing", "socket", "other"}
  BY DEF IInv, TypeOK
<1>2. CASE ClearServerRunning
  <2> USE <1>2 DEF ClearServerRunning
  <2>1. FileFound' = FileFound /\ (~serverRunning => FileFound # "service")
    BY <1>1 DEF FileFound, IInv, AcceptorFollows, Serving
  <2>2. /\ serverRunning  => Stage = "serving" /\ Stage' = "serving"
        /\ ~serverRunning => Stage = "deaf" /\ Stage' = "down"
    BY DEF Stage
  <2> QED BY <2>1, <2>2, AsUnmoved, AsStop DEF PathsStep, Unmoved, Closes
<1>3. CASE CloseAcceptor
  <2> USE <1>3 DEF CloseAcceptor
  <2>1. Closes
    BY <1>1 DEF Closes, FileFound, IInv, AcceptorFollows
  <2>2. Stage = "serving" /\ Stage' = "stopCheck"
    BY DEF Stage
  <2> QED BY <2>1, <2>2, AsStop DEF PathsStep
<1>4. CASE StopIo
  <2>1. Unmoved
    BY <1>4 DEF StopIo, Unmoved, Stage, FileFound
  <2> QED BY <2>1, AsUnmoved DEF PathsStep
<1>5. CASE JoinIoThread
  <2> USE <1>5 DEF JoinIoThread
  <2>1. FileFound = (IF path = "socket" THEN "stale" ELSE path) /\ FileFound' = FileFound
    BY DEF FileFound, IInv, AcceptorFollows
  <2>2. Stage = "stopCheck" /\ Stage' = IF path = "socket" THEN "stopRemove" ELSE "down"
    BY DEF Stage
  <2> QED BY <1>1, <2>1, <2>2, AsCheckPath DEF PathsStep
<1>6. CASE Unlink
  <2> USE <1>6 DEF Unlink
  <2>1. acceptor = "closed" /\ acceptor' = "closed"
    BY DEF IInv, AcceptorFollows
  <2>2. FileFound # "service" /\ FileFound' = IF path' = "socket" THEN "stale" ELSE path'
    BY <1>1, <2>1 DEF FileFound
  <2>3. FileFound = IF path = "socket" THEN "stale" ELSE path
    BY <2>1 DEF FileFound
  <2>4. Stage = (IF path = "socket" THEN "stopRemove" ELSE "down") /\ Stage' = "down"
    BY DEF Stage
  <2> QED BY <2>2, <2>3, <2>4, AsRemovePath, AsUnmoved, AsCrash DEF PathsStep, Unmoved, Closes
<1>7. CASE Return
  <2>1. Unmoved
    BY <1>7 DEF Return, Unmoved, Stage, FileFound
  <2> QED BY <2>1, AsUnmoved DEF PathsStep
<1> QED BY <1>2, <1>3, <1>4, <1>5, <1>6, <1>7

(* Neither the I/O thread nor a client nor a signal has a hand in it.      *)
LEMMA OthersFollow ==
  ASSUME IInv, IoStep \/ Handle \/ EndSession \/ ClientConnects \/ AcceptFails \/ Signal
  PROVE  PathsStep
<1>1. /\ UNCHANGED <<serverRunning, acceptor, path>>
      /\ UNCHANGED mainPc \/ (mainPc = "boot" /\ mainPc' = "killed")
  <2>1. CASE IoStep \/ Handle \/ EndSession
    BY <2>1 DEF IoStep, EndRun, AcceptHandler, StartSession, Rearm, EndHandle, Handle, EndSession,
                SessionOver
  <2>2. CASE ClientConnects \/ AcceptFails \/ Signal
    BY <2>2 DEF ClientConnects, AcceptFails, Complete, Signal, serverVars
  <2> QED BY <2>1, <2>2
<1>2. Unmoved
  BY <1>1 DEF Unmoved, Stage, FileFound, Gone
<1> QED BY <1>2, AsUnmoved DEF PathsStep

LEMMA CrashRestartFollow ==
  ASSUME IInv, Crash \/ Restart
  PROVE  PathsStep
<1> USE DEF Gone
<1>1. CASE Crash
  <2>1. Stage' = "down" /\ Closes
    BY <1>1 DEF Crash, Stage, FileFound, Closes, IInv, TypeOK
  <2>2. Stage = "down" => FileFound # "service"
    BY <1>1 DEF Crash, Stage, FileFound, IInv, TypeOK, AcceptorFollows, Preparing, MainPcs, Serving
  <2> QED BY <2>1, <2>2, AsUnmoved, AsCrash DEF PathsStep, Unmoved, Closes
<1>2. CASE Restart
  <2>1. Unmoved
    BY <1>2 DEF Restart, Unmoved, Stage, FileFound, IInv, AcceptorFollows
  <2> QED BY <2>1, AsUnmoved DEF PathsStep
<1> QED BY <1>1, <1>2

(* The process is one of the services of SocketPath: each of its steps     *)
(* either is that service's next step at the path or leaves the path alone.*)
THEOREM ProcessFollowsSocketPath == Spec => FollowsSocketPath
<1>1. Init => Paths!Init
  BY DEF Init, Paths!Init, Stage, FileFound
<1>2. IInv /\ [Next]_vars => [Paths!Next]_(Paths!vars)
  <2> SUFFICES ASSUME IInv, [Next]_vars PROVE PathsStep
    BY PathsStepIsNext
  <2>1. CASE Next
    BY <2>1, StartFollows, ServerStartFollows, ServeFollows, StopFollows, OthersFollow,
       CrashRestartFollow DEF Next, MainStep
  <2>2. CASE UNCHANGED vars
    <3>1. Unmoved
      BY <2>2 DEF vars, serverVars, Unmoved, Stage, FileFound
    <3> QED BY <3>1, AsUnmoved DEF PathsStep
  <2> QED BY <2>1, <2>2
<1> QED BY <1>1, <1>2, Invariance, PTL DEF Spec, FollowsSocketPath, Paths!Spec

-----------------------------------------------------------------------------
(* Shutdown.  What ENABLED means is out of the prover's reach, so that an   *)
(* action is enabled in every state in which its guard holds is a          *)
(* hypothesis, GuardsEnable.  It says nothing of which states are reached; *)
(* that a guard holds whenever a thread has its turn is proved.            *)

(* The guards of the actions of MainStep, most of which are the place of   *)
(* the thread alone, and of those of IoStep.                               *)
MainGuard ==
  \/ mainPc \in {"boot", "load", "create", "startLoop", "startPool", "startIpc", "prepare",
                 "remove", "open", "bind", "listen", "spawn", "started", "loop", "execute", "shutdown",
                 "close", "stopIo", "unlink", "stopped"}
  \/ mainPc = "join" /\ ioPc = "ended"

IoGuard ==
  \/ ioPc = "run" /\ (ioStopped \/ (accepting = "no" /\ sessions = 0))
  \/ Running /\ accepting \in {"ready", "failed"}
  \/ ioPc \in {"accept", "rearm", "handle"}

GuardsEnable == /\ MainGuard => ENABLED <<MainStep>>_vars
                /\ IoGuard   => ENABLED <<IoStep>>_vars

MainTurn == mainPc \notin Gone /\ (mainPc = "join" => ioPc = "ended")
IoTurn   == ioPc \in {"accept", "rearm", "handle"} \/ (ioPc = "run" /\ ioStopped)

(* A thread whose turn it is can take a step.                              *)
TurnsTaken == /\ MainTurn => ENABLED <<MainStep>>_vars
              /\ IoTurn   => ENABLED <<IoStep>>_vars

LEMMA GuardsCoverTurns == Spec /\ []GuardsEnable => []TurnsTaken
<1>1. TypeOK /\ MainTurn => MainGuard
  BY DEF TypeOK, MainPcs, MainTurn, MainGuard
<1>2. IoTurn => IoGuard
  BY DEF IoTurn, IoGuard
<1>3. TypeOK /\ GuardsEnable => TurnsTaken
  BY <1>1, <1>2 DEF GuardsEnable, TurnsTaken
<1> QED BY <1>3, TypeCorrect, PTL

(* Each place of the main thread after the signal has a number of steps    *)
(* that are left at most, which each of its steps lowers and no other step *)
(* raises; so has the I/O thread, for which join() waits.                  *)

StepsLeft ==
  [pc \in MainPcs |->
     CASE pc = "startPool" -> 16 [] pc = "startIpc" -> 15 [] pc = "prepare" -> 14
       [] pc = "remove"    -> 13
       [] pc = "open"      -> 12 [] pc = "bind"     -> 11 [] pc = "listen"  -> 10
       [] pc = "spawn"     -> 9  [] pc \in {"started", "execute"} -> 8
       [] pc = "loop"      -> 7  [] pc = "shutdown" -> 6  [] pc = "close"   -> 5
       [] pc = "stopIo"    -> 4  [] pc = "join"     -> 3  [] pc = "unlink"  -> 2
       [] pc = "stopped"   -> 1  [] pc \in Gone     -> 0  [] OTHER          -> 17]

IoStepsLeft ==
  CASE ioPc = "accept" -> 3 [] ioPc \in {"rearm", "handle"} -> 2
    [] ioPc = "run"    -> 1 [] OTHER                        -> 0

(* The process is gone, or it is to stop and has at most n steps to go.    *)
Ending(n) == \/ mainPc \in Gone
             \/ ~running /\ StepsLeft[mainPc] <= n

(* At the join, the I/O thread has at most n steps to go.                  *)
Joining(n) == \/ Ending(2)
              \/ ~running /\ mainPc = "join" /\ ioStopped /\ IoStepsLeft <= n

LEMMA StepsLeftType == \A pc \in MainPcs : StepsLeft[pc] \in 0 .. 17
BY DEF StepsLeft

LEMMA OthersKeepMain ==
  ASSUME mainPc \notin Gone, Next \/ UNCHANGED vars
  PROVE  \/ MainStep
         \/ (mainPc \in Gone)'
         \/ UNCHANGED mainPc /\ (~running => ~running')
<1>1. CASE MainStep
  BY <1>1
<1>2. CASE IoStep \/ Handle \/ EndSession
  BY <1>2 DEF IoStep, EndRun, AcceptHandler, StartSession, Rearm, EndHandle, Handle, EndSession,
              SessionOver, processVars
<1>3. CASE ClientConnects \/ AcceptFails \/ Signal
  BY <1>3 DEF ClientConnects, AcceptFails, Complete, Signal, processVars, Gone
<1>4. CASE Crash \/ Restart
  BY <1>4 DEF Crash, Restart, Gone
<1>5. CASE UNCHANGED vars
  BY <1>5 DEF vars, processVars
<1> QED BY <1>1, <1>2, <1>3, <1>4, <1>5 DEF Next

(* A step of the main thread that has been told to stop leaves one fewer.  *)
LEMMA MainStepMoves ==
  ASSUME IInv, ~running, StepsLeft[mainPc] <= 16, mainPc \notin Gone, MainStep
  PROVE  /\ ~running'
         /\ mainPc' \in Gone \/ StepsLeft[mainPc'] <= StepsLeft[mainPc] - 1
<1>1. mainPc \in MainPcs
  BY DEF IInv, TypeOK
<1>2. mainPc \notin {"boot", "load", "create", "startLoop"}
  BY <1>1 DEF StepsLeft, MainPcs, Gone
<1> USE DEF Goto, StepsLeft, MainPcs, Gone
<1>3. CASE StartPool \/ CacheManager \/ CheckPath \/ RemoveFile \/ OpenAcceptor \/ Bind \/ Listen
  BY <1>3 DEF StartPool, CacheManager, CheckPath, RemoveFile, OpenAcceptor, Bind, Listen, Acceptor,
              processVars
<1>4. CASE SpawnIoThread \/ SetModuleRunning \/ LoopTest \/ ExecuteAndSleep
  BY <1>4 DEF SpawnIoThread, SetModuleRunning, LoopTest, ExecuteAndSleep, processVars
<1>5. CASE ClearServerRunning \/ CloseAcceptor \/ StopIo \/ JoinIoThread \/ Unlink \/ Return
  BY <1>5 DEF ClearServerRunning, CloseAcceptor, StopIo, JoinIoThread, Unlink, Return, processVars
<1> QED BY <1>2, <1>3, <1>4, <1>5 DEF MainStep, InstallHandlers, LoadSettings, CreateService, StartMainLoop

(* Weak fairness of the main thread takes it through every place but join. *)
Ends(n, m) == Spec /\ []TurnsTaken => (Ending(n) ~> Ending(m))

LEMMA MainMovesOn ==
  ASSUME NEW n \in (1 .. 16) \ {3}, NEW m \in 0 .. 15, n = m + 1
  PROVE  Ends(n, m)
<1> DEFINE MainRuns == MainTurn => ENABLED <<MainStep>>_vars
<1>1. TurnsTaken => MainRuns
  BY DEF TurnsTaken
<1>2. IInv /\ Ending(n) /\ ~Ending(m)
        => /\ mainPc \in MainPcs /\ mainPc \notin Gone
           /\ ~running /\ StepsLeft[mainPc] = n /\ n <= 16
  BY StepsLeftType DEF IInv, TypeOK, Ending
<1>3. IInv /\ Ending(n) /\ ~Ending(m) => MainTurn
  BY <1>2 DEF MainTurn, StepsLeft
<1>4. IInv /\ Ending(n) /\ ~Ending(m) /\ (Next \/ UNCHANGED vars)
        => \/ MainStep
           \/ (mainPc \in Gone)'
           \/ UNCHANGED mainPc /\ (~running => ~running')
  BY <1>2, OthersKeepMain
<1>5. IInv /\ Ending(n) /\ ~Ending(m) /\ MainStep
        => \/ (mainPc \in Gone)'
           \/ ~running' /\ StepsLeft[mainPc'] <= m
  <2> SUFFICES ASSUME IInv, Ending(n), ~Ending(m), MainStep, mainPc' \notin Gone
               PROVE  ~running' /\ StepsLeft[mainPc'] <= m
    OBVIOUS
  <2>1. ~running' /\ StepsLeft[mainPc'] <= n - 1
    BY <1>2, MainStepMoves
  <2> QED BY <2>1
<1>6. IInv /\ Ending(n) /\ ~Ending(m) /\ [Next]_vars => (Ending(n) \/ Ending(m))'
  BY <1>2, <1>4, <1>5 DEF Ending
<1>7. IInv /\ Ending(n) /\ ~Ending(m) /\ <<MainStep>>_vars => Ending(m)'
  BY <1>5 DEF Ending
<1> QED BY <1>1, <1>3, <1>6, <1>7, Invariance, PTL DEF Spec, Fairness, MainRuns, Ends

(* Once the context is stopped, every step of the I/O thread leaves one    *)
(* fewer, and no handler is begun.                                         *)
LEMMA IoStepMoves ==
  ASSUME ioStopped, IoStep \/ Handle \/ EndSession
  PROVE  UNCHANGED <<mainPc, running, ioStopped>> /\ IoStepsLeft' <= IoStepsLeft - 1
<1> USE DEF IoStep, EndRun, AcceptHandler, StartSession, Rearm, EndHandle, Handle, EndSession,
            SessionOver, Running
<1>1. UNCHANGED <<mainPc, running, ioStopped>>
  BY DEF processVars
<1>2. \/ ioPc = "accept" /\ ioPc' = "rearm"
      \/ ioPc \in {"rearm", "handle"} /\ ioPc' = "run"
      \/ ioPc = "run" /\ ioPc' = "ended"
  BY Zenon
<1> QED BY <1>1, <1>2 DEF IoStepsLeft

(* At the join with the context stopped, no step takes the I/O thread back.*)
LEMMA OthersKeepJoin ==
  ASSUME IInv, NEW n \in 0 .. 3, Joining(n), ~Ending(2), Next \/ UNCHANGED vars
  PROVE  Joining(n)'
<1>1. mainPc = "join" /\ ~running /\ ioStopped /\ IoStepsLeft <= n /\ mainPc \notin Gone
  BY DEF Joining, Ending, Gone
<1>2. IoStepsLeft \in 0 .. 3 /\ IoStepsLeft' \in 0 .. 3
  BY DEF IoStepsLeft
<1>3. CASE MainStep
  <2>1. StepsLeft[mainPc] = 3
    BY <1>1 DEF StepsLeft, MainPcs
  <2>2. ~running' /\ (mainPc' \in Gone \/ StepsLeft[mainPc'] <= 2)
    BY <1>1, <1>3, <2>1, MainStepMoves
  <2> QED BY <2>2 DEF Joining, Ending, Gone
<1>4. CASE IoStep \/ Handle \/ EndSession
  <2>1. UNCHANGED <<mainPc, running, ioStopped>> /\ IoStepsLeft' <= IoStepsLeft - 1
    BY <1>1, <1>4, IoStepMoves
  <2>2. IoStepsLeft' <= n
    BY <1>1, <1>2, <2>1
  <2> QED BY <1>1, <2>1, <2>2 DEF Joining
<1>5. CASE ClientConnects \/ AcceptFails \/ UNCHANGED vars
  <2>1. UNCHANGED <<mainPc, ioStopped, ioPc, running>>
    BY <1>5 DEF ClientConnects, AcceptFails, Complete, processVars, serverVars, ioVars, vars
  <2> QED BY <1>1, <2>1 DEF Joining, IoStepsLeft
<1>6. CASE Signal
  <2>1. UNCHANGED <<mainPc, ioStopped, ioPc>> /\ ~running'
    BY <1>1, <1>6 DEF Signal, serverVars, ioVars
  <2> QED BY <1>1, <2>1 DEF Joining, IoStepsLeft
<1>7. CASE Crash \/ Restart
  BY <1>1, <1>7 DEF Crash, Restart, Joining, Ending, Gone
<1> QED BY <1>3, <1>4, <1>5, <1>6, <1>7 DEF Next

Joins(n, m) == Spec /\ []TurnsTaken => (Joining(n) ~> Joining(m))

LEMMA IoMovesOn ==
  ASSUME NEW n \in 1 .. 3, NEW m \in 0 .. 2, n = m + 1
  PROVE  Joins(n, m)
<1> DEFINE IoRuns == IoTurn => ENABLED <<IoStep>>_vars
<1>1. TurnsTaken => IoRuns
  BY DEF TurnsTaken
<1>2. IInv /\ Joining(n) /\ ~Joining(m) => IoTurn
  BY DEF IInv, TypeOK, IoTurn, Joining, IoStepsLeft
<1>3. IInv /\ Joining(n) /\ ~Joining(m) /\ [Next]_vars => (Joining(n) \/ Joining(m))'
  BY OthersKeepJoin DEF Joining
<1>4. IInv /\ Joining(n) /\ ~Joining(m) /\ <<IoStep>>_vars => Joining(m)'
  <2>1. IoStepsLeft \in 0 .. 3 /\ IoStepsLeft' \in 0 .. 3
    BY DEF IoStepsLeft
  <2> QED BY <2>1, IoStepMoves DEF Joining
<1> QED BY <1>1, <1>2, <1>3, <1>4, Invariance, PTL DEF Spec, Fairness, IoRuns, Joins

LEMMA JoinReturns == Spec /\ []TurnsTaken => (Joining(0) ~> Ending(2))
<1> DEFINE MainRuns == MainTurn => ENABLED <<MainStep>>_vars
<1>1. TurnsTaken => MainRuns
  BY DEF TurnsTaken
<1>2. IInv /\ Joining(0) /\ ~Ending(2) => MainTurn
  BY DEF IInv, TypeOK, Stopped, MainTurn, Joining, IoStepsLeft, Gone
<1>3. IInv /\ Joining(0) /\ ~Ending(2) /\ [Next]_vars => (Joining(0) \/ Ending(2))'
  BY OthersKeepJoin
<1>4. IInv /\ Joining(0) /\ ~Ending(2) /\ <<MainStep>>_vars => Ending(2)'
  <2>1. Joining(0) /\ ~Ending(2) => mainPc = "join" /\ ~running
    BY DEF Joining
  <2>2. mainPc = "join" => StepsLeft[mainPc] = 3 /\ mainPc \notin Gone
    BY DEF StepsLeft, MainPcs, Gone
  <2>3. IInv /\ Joining(0) /\ ~Ending(2) /\ MainStep
          => (mainPc \in Gone)' \/ (~running' /\ StepsLeft[mainPc'] <= 2)
    BY <2>1, <2>2, MainStepMoves
  <2> QED BY <2>3 DEF Ending
<1> QED BY <1>1, <1>2, <1>3, <1>4, Invariance, PTL DEF Spec, Fairness, MainRuns

LEMMA CompletesInTurn == Spec /\ []TurnsTaken => ShutdownCompletes
<1>1. (mainPc \in {"startPool", "startIpc", "prepare", "remove", "open", "bind", "listen",
                   "spawn", "started", "loop", "execute"} /\ ~running) => Ending(16)
  BY DEF Ending, StepsLeft, MainPcs
<1>2. IInv /\ Ending(3) => Ending(2) \/ Joining(3)
  BY DEF IInv, TypeOK, Stopped, Ending, Joining, IoStepsLeft, StepsLeft, MainPcs
<1>3. IInv /\ Ending(0) => mainPc \in Gone
  BY DEF IInv, TypeOK, Ending, StepsLeft, MainPcs
<1>16. Ends(16, 15) BY MainMovesOn
<1>15. Ends(15, 14) BY MainMovesOn
<1>14. Ends(14, 13) BY MainMovesOn
<1>13. Ends(13, 12) BY MainMovesOn
<1>12. Ends(12, 11) BY MainMovesOn
<1>11. Ends(11, 10) BY MainMovesOn
<1>10. Ends(10, 9) BY MainMovesOn
<1>9. Ends(9, 8) BY MainMovesOn
<1>8. Ends(8, 7) BY MainMovesOn
<1>7. Ends(7, 6) BY MainMovesOn
<1>6. Ends(6, 5) BY MainMovesOn
<1>5. Ends(5, 4) BY MainMovesOn
<1>4. Ends(4, 3) BY MainMovesOn
<1>20. Joins(3, 2) BY IoMovesOn
<1>21. Joins(2, 1) BY IoMovesOn
<1>22. Joins(1, 0) BY IoMovesOn
<1>23. Ends(2, 1) BY MainMovesOn
<1>24. Ends(1, 0) BY MainMovesOn
<1> QED BY <1>1, <1>2, <1>3, <1>4, <1>5, <1>6, <1>7, <1>8, <1>9, <1>10, <1>11, <1>12, <1>13,
           <1>14, <1>15, <1>16, <1>20, <1>21, <1>22, <1>23, <1>24, JoinReturns, Invariance, PTL
        DEF ShutdownCompletes, Ends, Joins

(* Every signal that comes once the loop has been entered ends the process,*)
(* whatever the modules, the clients and the file system do meanwhile.     *)
THEOREM ShutdownsComplete == Spec /\ []GuardsEnable => ShutdownCompletes
BY GuardsCoverTurns, CompletesInTurn, PTL
=============================================================================
