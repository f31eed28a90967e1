--------------------------- MODULE SocketPathProofs --------------------------
(***************************************************************************)
(* A service that has its path to itself can be reached there, for any     *)
(* number of services, paths and configurations, by the clients that are   *)
(* configured as it is.                                                    *)
(***************************************************************************)
EXTENDS SocketPath, TLAPS

USE PathAssumption, NameAssumption

(* What a lone service finds at its path is its own, or what no service    *)
(* that is at work there has left.                                         *)
Alone ==
  \A s \in Service : AtWork(s) /\ ~rivals[s] =>
    /\ \A t \in Service \ {s} : AtWork(t) => At(t) # At(s)
    /\ pc[s] = "bind" => file[At(s)] = "nothing"
    /\ pc[s] \in {"listen", "serving"} => file[At(s)] = s

IInv == TypeOK /\ Alone

LEMMA PathType ==
  ASSUME NEW c \in Path \cup {Missing}
  PROVE  ServicePath(c) \in Path
BY DEF ServicePath

LEMMA InitHolds == Init => IInv
BY DEF Init, IInv, TypeOK, Alone, AtWork

(* Closing its socket changes the path of a service only if the file there *)
(* is its own, which is then stale.                                        *)
LEMMA Closed ==
  ASSUME TypeOK, NEW s \in Service, CloseSocket(s)
  PROVE  /\ file' \in [Path -> {"nothing", "stale", "other"} \cup Service]
         /\ \A p \in Path : /\ file'[p] # s
                            /\ file'[p] # file[p] => p = At(s) /\ file[p] = s
<1>1. At(s) \in Path
  BY PathType DEF TypeOK, At
<1>2. \A p \in Path : file[p] = s => p = At(s)
  BY DEF TypeOK
<1> QED
  BY <1>1, <1>2 DEF CloseSocket, Leave, TypeOK

(* The steps of a service that only moves on. *)
LEMMA StepKeeps ==
  ASSUME IInv, [Next]_vars
  PROVE  IInv'
<1> USE DEF IInv
<1>0. \A s \in Service : At(s) \in Path
  BY PathType DEF TypeOK, At
<1>1. CASE UNCHANGED vars
  BY <1>1 DEF vars, TypeOK, Alone, AtWork, At, ServicePath
<1>2. ASSUME NEW s \in Service, NEW c \in Configs, Start(s, c)
      PROVE  IInv'
  <2> USE <1>2 DEF Start, Goto
  <2>1. ServicePath(c) \in Path
    BY PathType
  <2>2. At(s)' = ServicePath(c) /\ \A t \in Service \ {s} : At(t)' = At(t)
    BY DEF At, TypeOK
  <2>3. AtWork(s)' /\ \A t \in Service \ {s} : AtWork(t)' <=> AtWork(t)
    BY DEF AtWork, TypeOK
  <2>4. TypeOK'
    <3>1. \A p \in Path : file[p] \in Service => file[p] # s
      BY DEF TypeOK
    <3> QED
      BY <2>2, <3>1 DEF TypeOK
  <2>5. ASSUME NEW t \in Service, AtWork(t)', ~rivals'[t]
        PROVE  /\ \A u \in Service \ {t} : AtWork(u)' => At(u)' # At(t)'
               /\ pc'[t] = "bind" => file'[At(t)'] = "nothing"
               /\ pc'[t] \in {"listen", "serving"} => file'[At(t)'] = t
    <3>1. CASE t = s
      BY <2>2, <2>3, <2>5, <3>1 DEF TypeOK, Rivals, At
    <3>2. CASE t # s
      <4>1. AtWork(t) /\ ~rivals[t] /\ t \notin Rivals(s, c)
        BY <2>3, <2>5, <3>2 DEF TypeOK
      <4>2. At(t) # ServicePath(c)
        BY <4>1, <3>2 DEF Rivals
      <4> QED
        BY <2>2, <2>3, <3>2, <4>1, <4>2 DEF TypeOK, Alone
    <3> QED
      BY <3>1, <3>2
  <2> QED
    BY <2>4, <2>5 DEF Alone
<1>3. ASSUME NEW s \in Service, CheckPath(s)
      PROVE  IInv'
  <2> USE <1>3 DEF CheckPath, Goto
  <2>1. \A t \in Service : At(t)' = At(t)
    BY DEF At
  <2>2. TypeOK'
    BY <1>0, <2>1 DEF TypeOK
  <2>3. \A t \in Service : AtWork(t)' => AtWork(t)
    BY DEF AtWork, TypeOK
  <2>4. \A t \in Service \ {s} : pc'[t] = pc[t]
    BY DEF TypeOK
  <2>5. pc'[s] = "bind" => file[At(s)] = "nothing"
    BY DEF TypeOK
  <2>6. pc'[s] \notin {"listen", "serving"}
    BY DEF TypeOK
  <2> QED
    BY <2>1, <2>2, <2>3, <2>4, <2>5, <2>6 DEF Alone
<1>4. ASSUME NEW s \in Service, RemovePath(s)
      PROVE  IInv'
  <2> USE <1>4 DEF RemovePath, Goto, Leave
  <2>1. \A t \in Service : At(t)' = At(t)
    BY DEF At
  <2>2. TypeOK'
    <3>1. \A p \in Path : file[p] \in Service => file[p] # s
      BY DEF TypeOK
    <3> QED
      BY <1>0, <2>1, <3>1 DEF TypeOK
  <2>3. \A t \in Service : AtWork(t)' => AtWork(t)
    BY DEF AtWork, TypeOK
  <2>4. \A t \in Service \ {s} : pc'[t] = pc[t]
    BY DEF TypeOK
  <2>5. file'[At(s)] = "nothing" /\ \A p \in Path \ {At(s)} : file'[p] = file[p]
    BY <1>0 DEF TypeOK
  <2>6. AtWork(s) /\ pc'[s] \notin {"listen", "serving"}
    BY DEF TypeOK, AtWork
  <2> QED
    BY <1>0, <2>1, <2>2, <2>3, <2>4, <2>5, <2>6 DEF Alone
<1>5. ASSUME NEW s \in Service, Bind(s)
      PROVE  IInv'
  <2> USE <1>5 DEF Bind, Goto
  <2>1. \A t \in Service : At(t)' = At(t)
    BY DEF At
  <2>2. \A t \in Service \ {s} : pc'[t] = pc[t]
    BY DEF TypeOK
  <2>3. \A t \in Service : AtWork(t)' => AtWork(t)
    BY DEF AtWork, TypeOK
  <2>4. CASE file[At(s)] = "nothing"
    <3>1. file'[At(s)] = s /\ pc'[s] = "listen"
      BY <1>0, <2>4 DEF Leave, TypeOK
    <3>2. \A p \in Path \ {At(s)} : file'[p] = file[p]
      BY <1>0, <2>4 DEF Leave, TypeOK
    <3>3. file' \in [Path -> {"nothing", "stale", "other"} \cup Service]
      BY <1>0, <2>4 DEF Leave, TypeOK
    <3>4. TypeOK'
      BY <1>0, <2>1, <2>2, <2>4, <3>1, <3>2, <3>3 DEF TypeOK
    <3>5. AtWork(s)
      BY DEF AtWork
    <3> QED
      BY <1>0, <2>1, <2>2, <2>3, <3>1, <3>2, <3>4, <3>5 DEF Alone
  <2>5. CASE file[At(s)] # "nothing"
    <3>1. file' = file /\ pc'[s] = "deaf"
      BY <2>5 DEF TypeOK
    <3>2. TypeOK'
      BY <2>1, <2>2, <2>5, <3>1 DEF TypeOK
    <3> QED
      BY <2>1, <2>2, <2>3, <3>1, <3>2 DEF Alone
  <2> QED
    BY <2>4, <2>5
<1>6. ASSUME NEW s \in Service, Listen(s)
      PROVE  IInv'
  <2> USE <1>6 DEF Listen, Goto
  <2>1. \A t \in Service : At(t)' = At(t)
    BY DEF At
  <2>2. TypeOK'
    BY <2>1 DEF TypeOK
  <2>3. \A t \in Service : AtWork(t)' => AtWork(t)
    BY DEF AtWork, TypeOK
  <2>4. /\ pc[s] = "listen" /\ pc'[s] = "serving"
        /\ \A t \in Service \ {s} : pc'[t] = pc[t]
    BY DEF TypeOK
  <2> QED
    BY <2>1, <2>2, <2>3, <2>4 DEF Alone
<1>7. ASSUME NEW s \in Service, CloseSocket(s), UNCHANGED <<config, rivals>>,
             \E to \in {"deaf", "down", "stopCheck"} :
               Goto(s, to) /\ (to = "stopCheck" => AtWork(s))
      PROVE  IInv'
  <2> PICK to \in {"deaf", "down", "stopCheck"} :
             Goto(s, to) /\ (to = "stopCheck" => AtWork(s))
    BY <1>7
  <2>1. \A t \in Service : At(t)' = At(t)
    BY <1>7 DEF At
  <2>2. pc'[s] = to /\ \A t \in Service \ {s} : pc'[t] = pc[t]
    BY DEF Goto, TypeOK
  <2>3. \A t \in Service : AtWork(t)' => AtWork(t)
    BY <2>2 DEF AtWork
  <2>4. /\ file' \in [Path -> {"nothing", "stale", "other"} \cup Service]
        /\ \A p \in Path : /\ file'[p] # s
                           /\ file'[p] # file[p] => p = At(s) /\ file[p] = s
    BY <1>7, Closed
  <2>5. TypeOK'
    <3>1. \A p \in Path : file'[p] \in Service => file'[p] = file[p] \/ file'[p] = "stale"
      BY <1>7, <2>4 DEF CloseSocket, Leave, TypeOK
    <3> QED
      BY <1>7, <2>1, <2>2, <2>4, <3>1 DEF TypeOK, Goto
  <2> QED
    BY <1>0, <1>7, <2>1, <2>2, <2>3, <2>4, <2>5 DEF Alone, TypeOK
<1>8. ASSUME NEW s \in Service, FailStart(s) \/ Stop(s) \/ Crash(s)
      PROVE  IInv'
  <2>1. /\ CloseSocket(s) /\ UNCHANGED <<config, rivals>>
        /\ \E to \in {"deaf", "down", "stopCheck"} :
             Goto(s, to) /\ (to = "stopCheck" => AtWork(s))
    BY <1>8 DEF FailStart, Stop, Crash, AtWork
  <2> QED
    BY <1>7, <2>1
<1> QED
  BY <1>1, <1>2, <1>3, <1>4, <1>5, <1>6, <1>8 DEF Next

-----------------------------------------------------------------------------

(* The strengthening holds in every state. *)
THEOREM Invariance == Spec => []IInv
<1>1. Init => IInv
  BY InitHolds
<1>2. IInv /\ [Next]_vars => IInv'
  BY StepKeeps
<1> QED
  BY <1>1, <1>2, PTL DEF Spec

(* The state keeps its type, and no socket file names a service that does  *)
(* not listen there.                                                       *)
THEOREM TypeCorrect == Spec => []TypeOK
BY Invariance, PTL DEF IInv

(* IpcServer::start and stop leave a service reachable for as long as no   *)
(* other is at work on its path.                                           *)
THEOREM LoneServicesReachable == Spec => []LoneServiceReachable
<1>1. IInv => LoneServiceReachable
  BY DEF IInv, Alone, LoneServiceReachable, Reaches, AtWork
<1> QED
  BY <1>1, Invariance, PTL

(* The defaults are all that differs between a service and its clients: a  *)
(* client whose configuration names the path that the service's names      *)
(* reaches a service that has the path to itself.                          *)
THEOREM NamedPathFindsService ==
  Spec => [](\A s \in Service : pc[s] = "serving" /\ config[s] # Missing /\ ~rivals[s]
                                 => Reaches(ClientPath(config[s]), s))
<1>1. LoneServiceReachable =>
        \A s \in Service : pc[s] = "serving" /\ config[s] # Missing /\ ~rivals[s]
                           => Reaches(ClientPath(config[s]), s)
  BY DEF LoneServiceReachable, ClientPath, At, ServicePath
<1> QED BY <1>1, LoneServicesReachable, PTL
=============================================================================
