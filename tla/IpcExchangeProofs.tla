--------------------------- MODULE IpcExchangeProofs --------------------------
(***************************************************************************)
(* What a call of IpcClient::request returns, for any calls and messages,  *)
(* that it does so, that its session ends, and that nobody is blocked.     *)
(***************************************************************************)
EXTENDS IpcExchange, IpcProtocolProofs

(* The life of a call: an operation and the timer until there is a result. *)
Lives(c) ==
  LET a == call[c]
  IN  /\ ~Issued(c) => /\ session[c] = "none" /\ outcome[c] = "none"
      /\ Issued(c) /\ ~a.completed => a.op # "none" /\ a.timer \in {"armed", "fired"}
      /\ a.done # "no" => a.op # "none"
      /\ a.op = "connect" /\ a.done = "no" => session[c] = "none"
      /\ a.completed <=> a.result # "none"
      /\ Returned(c) => a.completed /\ outcome[c] = a.result
      /\ Issued(c) => \A b \in Calls : <<c, b>> \in After => Returned(b)

(* The bytes under way, and what they say of the session. *)
Travels(c) ==
  /\ toServer[c] <= call[c].sent
  /\ answer[c] = "none" => toClient[c] = 0
  /\ session[c] = "write" => toClient[c] = 0
  /\ session[c] = "finish" => toClient[c] <= 1

(* What the session has done. *)
Serves(c) ==
  /\ session[c] = "body" => IsValidMessageSize(Declared(frame[c].request))
  /\ session[c] \in {"none", "backlog", "header", "body"} => answer[c] = "none"
  /\ session[c] \in {"write", "finish"} => answer[c] # "none"
  /\ answer[c] # "none" => /\ IsValidMessageSize(Declared(frame[c].request))
                           /\ Readable(frame[c].request) => c \in Exchange!Handled
  /\ c \in Exchange!Handled => answer[c] # "none"

(* What the call knows from the operations that it has done. *)
Knows(c) ==
  LET a        == call[c]
      answered == a.op = "body" \/ a.result = "response"
  IN  /\ a.op \in {"header", "body"} \/ (a.op = "write" /\ a.done = "ok") \/ answered
           => frame[c].request.size <= Declared(frame[c].request)
      /\ (a.op = "header" /\ a.done = "ok") \/ answered => answer[c] # "none"
      /\ answered => ~InvalidSize(c)
      /\ a.result = "response" => Result(c) = "response"

IInv == /\ TypeOK
        /\ \A c \in Calls : Lives(c) /\ Travels(c) /\ Serves(c) /\ Knows(c)
        /\ ProgramOrder

-----------------------------------------------------------------------------
(* Records of calls.                                                       *)

LEMMA CompleteIs ==
  ASSUME NEW a \in CallState, NEW result \in {"response", "error"}
  PROVE  /\ Complete(a, result) \in CallState
         /\ Complete(a, result).completed
         /\ Complete(a, result).op = a.op /\ Complete(a, result).sent = a.sent
         /\ a.completed => Complete(a, result) = a
         /\ ~a.completed => Complete(a, result).result = result
         /\ \/ Complete(a, result).done = a.done
            \/ a.op # "none" /\ Complete(a, result).done = "failed"
         /\ a.timer # "armed" => Complete(a, result).timer = a.timer
<1>1. CASE a.completed
  BY <1>1 DEF Complete
<1>2. CASE ~a.completed
  <2> DEFINE done  == IF a.op # "none" /\ a.done = "no" THEN "failed" ELSE a.done
             timer == IF a.timer = "armed" THEN "cancelled" ELSE a.timer
  <2>1. /\ done \in {"no", "ok", "failed"} /\ timer \in {"off", "armed", "fired", "cancelled"}
        /\ done = a.done \/ (a.op # "none" /\ done = "failed")
        /\ a.timer # "armed" => timer = a.timer
    BY DEF CallState
  <2>2. Complete(a, result) = [a EXCEPT !.completed = TRUE, !.result = result,
                                        !.done = done, !.timer = timer]
    BY <1>2 DEF Complete
  <2> HIDE DEF done, timer
  <2>3. Complete(a, result) = [op |-> a.op, done |-> done, timer |-> timer, sent |-> a.sent,
                               completed |-> TRUE, result |-> result]
    BY <2>2 DEF CallState
  <2> QED
    BY <1>2, <2>1, <2>3 DEF CallState
<1> QED
  BY <1>1, <1>2

LEMMA NewCallIs == NewCall \in CallState /\ ~NewCall.completed /\ NewCall.op = "none"
BY DEF NewCall, CallState

(* What a handler leaves of the call whose operation has come to its end.  *)
LEMMA HandledCases ==
  ASSUME TypeOK, NEW c \in Calls, Lives(c), call[c].done \in {"ok", "failed"}
  PROVE  LET k == call[c]
             h == Handled(c)
         IN  /\ h \in CallState /\ h.done = "no" /\ h.sent = k.sent
             /\ k.timer # "armed" => h.timer = k.timer
             /\ \/ /\ k.completed /\ h.completed
                   /\ h.op = "none" /\ h.result = k.result
                \/ /\ ~k.completed /\ h.completed
                   /\ h.op = "none" /\ h.result = "error"
                \/ /\ ~k.completed /\ h.completed
                   /\ k.op = "body" /\ h.op = "none" /\ h.result = Result(c)
                \/ /\ ~k.completed /\ ~h.completed /\ k.done = "ok"
                   /\ k.op \in {"connect", "write", "header"} /\ h.op = NextOp[k.op]
                   /\ k.op = "header" => ~InvalidSize(c)
                   /\ h.timer = k.timer /\ h.result = k.result
<1> DEFINE k == call[c]
           a == [k EXCEPT !.op = "none", !.done = "no"]
<1>1. k \in CallState /\ k.op # "none"
  BY DEF TypeOK, Lives
<1>2. /\ a \in CallState /\ a.op = "none" /\ a.done = "no" /\ a.sent = k.sent
      /\ a.completed = k.completed /\ a.result = k.result /\ a.timer = k.timer
  BY <1>1 DEF CallState
<1>3. Result(c) \in {"response", "error"}
  BY DEF Result
<1>4. CASE a.completed
  <2>1. Handled(c) = a
    BY <1>4 DEF Handled
  <2> QED
    BY <1>2, <1>4, <2>1
<1>5. CASE ~a.completed /\ (k.done = "failed" \/ (k.op = "header" /\ InvalidSize(c)))
  <2>1. Handled(c) = Complete(a, "error")
    BY <1>1, <1>5 DEF Handled
  <2> HIDE DEF a
  <2> QED
    BY <1>2, <1>5, <2>1, CompleteIs
<1>6. CASE ~a.completed /\ k.done = "ok" /\ k.op = "body"
  <2>1. Handled(c) = Complete(a, Result(c))
    BY <1>1, <1>6 DEF Handled
  <2> HIDE DEF a
  <2> QED
    BY <1>2, <1>3, <1>6, <2>1, CompleteIs
<1>7. CASE ~a.completed /\ k.done = "ok" /\ k.op # "body" /\ ~(k.op = "header" /\ InvalidSize(c))
  <2>1. Handled(c) = [a EXCEPT !.op = NextOp[k.op]]
    BY <1>1, <1>7 DEF Handled
  <2>2. k.op \in {"connect", "write", "header"}
    BY <1>1, <1>7 DEF CallState
  <2>3. NextOp[k.op] \in {"write", "header", "body"}
    BY <2>2 DEF NextOp
  <2>4. Handled(c) = [op |-> NextOp[k.op], done |-> "no", timer |-> k.timer, sent |-> k.sent,
                      completed |-> k.completed, result |-> k.result]
    BY <1>1, <2>1 DEF CallState
  <2>5. /\ Handled(c) \in CallState /\ Handled(c).op = NextOp[k.op]
        /\ Handled(c).done = "no" /\ Handled(c).sent = k.sent
        /\ Handled(c).completed = k.completed /\ Handled(c).result = k.result
        /\ Handled(c).timer = k.timer
    BY <1>1, <2>3, <2>4 DEF CallState
  <2> QED
    BY <1>2, <1>7, <2>2, <2>5
<1> QED
  BY <1>4, <1>5, <1>6, <1>7

-----------------------------------------------------------------------------
(* A step of one call or its session.                                      *)

Moves(c) ==
  /\ frame' = frame
  /\ \A d \in Calls \ {c} :
       /\ call'[d] = call[d] /\ outcome'[d] = outcome[d]
       /\ toServer'[d] = toServer[d] /\ toClient'[d] = toClient[d]
       /\ answer'[d] = answer[d] /\ session'[d] = session[d]
       /\ d \in Exchange!Handled' <=> d \in Exchange!Handled
  /\ Returned(c) => Returned(c)'

LEMMA MovesKeep ==
  ASSUME IInv, NEW c \in Calls, Moves(c), TypeOK', ProgramOrder',
         Lives(c)', Travels(c)', Serves(c)', Knows(c)'
  PROVE  IInv'
<1>1. ASSUME NEW d \in Calls, d # c
      PROVE  Lives(d)' /\ Travels(d)' /\ Serves(d)' /\ Knows(d)'
  <2>1. \A b \in Calls : Returned(b) => Returned(b)'
    BY DEF Moves, Returned
  <2>2. Lives(d)'
    BY <1>1, <2>1 DEF IInv, Moves, Lives, Issued, Returned
  <2>3. Travels(d)'
    BY <1>1 DEF IInv, Moves, Travels
  <2>4. Serves(d)'
    BY <1>1 DEF IInv, Moves, Serves
  <2>5. Knows(d)'
    BY <1>1 DEF IInv, Moves, Knows, InvalidSize, Result
  <2> QED
    BY <2>2, <2>3, <2>4, <2>5
<1> QED
  BY <1>1 DEF IInv

(* Most steps leave the log and what is returned as they are. *)
LEMMA QuietKeep ==
  ASSUME IInv, NEW c \in Calls, TypeOK',
         UNCHANGED <<frame, outcome, log>>,
         \A d \in Calls \ {c} :
           /\ call'[d] = call[d] /\ session'[d] = session[d]
           /\ toServer'[d] = toServer[d] /\ toClient'[d] = toClient[d]
           /\ answer'[d] = answer[d],
         Lives(c)', Travels(c)', Serves(c)', Knows(c)'
  PROVE  IInv'
<1>1. Moves(c)
  BY DEF Moves, Returned, Exchange!Handled
<1>2. ProgramOrder'
  BY DEF IInv, ProgramOrder
<1> QED
  BY <1>1, <1>2, MovesKeep

LEMMA IssueKeeps ==
  ASSUME IInv, NEW c \in Calls, Issue(c)
  PROVE  IInv'
<1> USE DEF IInv
<1>1. /\ call[c] = NewCall /\ session[c] = "none" /\ outcome[c] = "none"
      /\ \A b \in Calls : <<c, b>> \in After => Returned(b)
      /\ UNCHANGED <<outcome, toServer, toClient, frame, answer, session, server, log>>
  BY DEF Issue, Issued, Lives
<1>2. answer[c] = "none" /\ c \notin Exchange!Handled
  BY <1>1 DEF Serves
<1>3. PICK k \in CallState :
        /\ call' = [call EXCEPT ![c] = k]
        /\ k.sent = NewCall.sent /\ k.done = "no"
        /\ \/ k.completed /\ k.op = "none" /\ k.result = "error"
           \/ ~k.completed /\ k.op = "connect" /\ k.timer = "armed" /\ k.result = "none"
  <2>1. CASE Refused(frame[c].request)
    <3> DEFINE k == Complete(NewCall, "error")
    <3>1. call' = [call EXCEPT ![c] = k]
      BY <1>1, <2>1 DEF Issue, TypeOK
    <3>2. /\ k \in CallState /\ k.completed
          /\ k.op = NewCall.op /\ k.sent = NewCall.sent /\ k.result = "error"
          /\ k.done = NewCall.done \/ (NewCall.op # "none" /\ k.done = "failed")
      BY CompleteIs, NewCallIs
    <3>3. NewCall.done = "no" /\ NewCall.op = "none"
      BY DEF NewCall
    <3> HIDE DEF k
    <3> QED
      BY <3>1, <3>2, <3>3
  <2>2. CASE ~Refused(frame[c].request)
    <3> DEFINE k == [NewCall EXCEPT !.op = "connect", !.timer = "armed"]
    <3>1. call' = [call EXCEPT ![c] = k]
      BY <1>1, <2>2 DEF Issue, TypeOK
    <3>2. /\ k.done = "no" /\ k.completed = FALSE /\ k.result = "none"
          /\ k.op = "connect" /\ k.timer = "armed" /\ k.sent = NewCall.sent
      BY DEF NewCall
    <3>3. k \in CallState
      BY NewCallIs DEF CallState
    <3> HIDE DEF k
    <3> QED
      BY <3>1, <3>2, <3>3
  <2> QED
    BY <2>1, <2>2
<1>4. call'[c] = k /\ k # NewCall
  BY <1>3, NewCallIs DEF TypeOK
<1>5. TypeOK'
  <2>1. clientOpen' \in [Calls -> BOOLEAN]
    BY DEF Issue, TypeOK
  <2> QED
    BY <1>1, <1>3, <2>1 DEF TypeOK
<1>6. Lives(c)'
  BY <1>1, <1>3, <1>4 DEF Lives, Issued, Returned
<1>7. Travels(c)'
  BY <1>1, <1>3, <1>4 DEF Travels
<1>8. Serves(c)'
  BY <1>1 DEF Serves, Exchange!Handled
<1>9. Knows(c)'
  BY <1>1, <1>3, <1>4 DEF Knows, InvalidSize, Result
<1> QED
  BY <1>1, <1>3, <1>5, <1>6, <1>7, <1>8, <1>9, QuietKeep DEF TypeOK

(* A step of the client in which only the state of the call changes. *)
LEMMA ClientKeeps ==
  ASSUME IInv, NEW c \in Calls, Issued(c), NEW k \in CallState,
         call' = [call EXCEPT ![c] = k],
         UNCHANGED <<outcome, toServer, toClient, frame, answer, session, server, log>>,
         clientOpen' \in [Calls -> BOOLEAN],
         k.sent = call[c].sent,
         k.completed \/ (k.op # "none" /\ k.timer \in {"armed", "fired"}),
         k.done # "no" => k.op # "none",
         k.op = "connect" /\ k.done = "no" => call[c].op = "connect" /\ call[c].done = "no",
         k.completed <=> k.result # "none",
         call[c].completed => k.completed /\ k.result = call[c].result,
         Knows(c)'
  PROVE  IInv'
<1> USE DEF IInv
<1>1. call'[c] = k
  BY DEF TypeOK
<1>2. TypeOK'
  BY DEF TypeOK
<1>3. Lives(c)'
  BY <1>1, NewCallIs DEF Lives, Issued, Returned
<1>4. Travels(c)'
  BY <1>1 DEF Travels
<1>5. Serves(c)'
  BY DEF Serves, Exchange!Handled
<1> QED
  BY <1>2, <1>3, <1>4, <1>5, QuietKeep DEF TypeOK

LEMMA TimerHandlerKeeps ==
  ASSUME IInv, NEW c \in Calls, TimerHandler(c)
  PROVE  IInv'
<1> USE DEF IInv
<1> DEFINE a == [call[c] EXCEPT !.timer = "off"]
           k == IF call[c].timer = "fired" THEN Complete(a, "error") ELSE a
<1>1. /\ call' = [call EXCEPT ![c] = k] /\ call[c].timer \in {"fired", "cancelled"}
      /\ UNCHANGED <<outcome, toServer, toClient, frame, answer, session, server, log>>
  BY DEF TimerHandler
<1>2. /\ a \in CallState /\ a.timer = "off"
      /\ a.op = call[c].op /\ a.done = call[c].done /\ a.sent = call[c].sent
      /\ a.completed = call[c].completed /\ a.result = call[c].result
  <2>1. call[c] \in CallState
    BY DEF TypeOK
  <2> QED
    BY <2>1 DEF CallState
<1>3. Issued(c) /\ (call[c].timer = "cancelled" => call[c].completed)
  <2>1. NewCall.timer = "off"
    BY DEF NewCall
  <2> QED
    BY <1>1, <2>1 DEF Lives, Issued
<1>4. /\ k \in CallState /\ k.sent = call[c].sent /\ k.op = call[c].op
      /\ k.completed /\ k.result # "none"
      /\ call[c].completed => k.result = call[c].result
      /\ ~call[c].completed => k.result = "error"
      /\ k.done = call[c].done \/ (k.op # "none" /\ k.done = "failed")
  <2>1. CASE call[c].timer = "fired"
    <3>1. k = Complete(a, "error")
      BY <2>1
    <3> HIDE DEF a, k
    <3> QED
      BY <1>2, <3>1, CompleteIs DEF Lives
  <2>2. CASE call[c].timer = "cancelled"
    <3>1. k = a
      BY <2>2
    <3> HIDE DEF a, k
    <3> QED
      BY <1>2, <1>3, <2>2, <3>1 DEF Lives
  <2> QED
    BY <1>1, <2>1, <2>2
<1> HIDE DEF a, k
<1>5. Knows(c)'
  <2>1. call'[c] = k
    BY <1>1 DEF TypeOK
  <2> QED
    BY <1>1, <1>4, <2>1 DEF Knows, InvalidSize, Result
<1>6. clientOpen' \in [Calls -> BOOLEAN]
  BY DEF TimerHandler, TypeOK
<1>7. /\ k.done # "no" => k.op # "none"
      /\ k.op = "connect" /\ k.done = "no" => call[c].op = "connect" /\ call[c].done = "no"
  BY <1>4 DEF Lives
<1> QED
  BY <1>1, <1>3, <1>4, <1>5, <1>6, <1>7, ClientKeeps DEF Lives

LEMMA OpHandlerKeeps ==
  ASSUME IInv, NEW c \in Calls, OpHandler(c)
  PROVE  IInv'
<1> USE DEF IInv
<1> DEFINE k == call[c]
           h == Handled(c)
<1>1. /\ call' = [call EXCEPT ![c] = h] /\ k.done \in {"ok", "failed"}
      /\ UNCHANGED <<outcome, toServer, toClient, frame, answer, session, server, log>>
  BY DEF OpHandler
<1>2. /\ h \in CallState /\ h.done = "no" /\ h.sent = k.sent
      /\ \/ /\ k.completed /\ h.completed
            /\ h.op = "none" /\ h.result = k.result
         \/ /\ ~k.completed /\ h.completed
            /\ h.op = "none" /\ h.result = "error"
         \/ /\ ~k.completed /\ h.completed
            /\ k.op = "body" /\ h.op = "none" /\ h.result = Result(c)
         \/ /\ ~k.completed /\ ~h.completed /\ k.done = "ok"
            /\ k.op \in {"connect", "write", "header"} /\ h.op = NextOp[k.op]
            /\ k.op = "header" => ~InvalidSize(c)
            /\ h.timer = k.timer /\ h.result = k.result
  BY <1>1, HandledCases
<1>3. Issued(c)
  BY <1>1 DEF Issued, NewCall
<1>4. Result(c) \in {"response", "error"} /\ (k.completed <=> k.result # "none")
  BY DEF Result, Lives
<1>5. ~k.completed => k.timer \in {"armed", "fired"}
  BY <1>3 DEF Lives
<1>6. NextOp.connect = "write" /\ NextOp.write = "header" /\ NextOp.header = "body"
  BY DEF NextOp
<1>7. NextOp["connect"] = "write" /\ NextOp["write"] = "header" /\ NextOp["header"] = "body"
  BY DEF NextOp
<1>8. clientOpen' \in [Calls -> BOOLEAN]
  BY DEF OpHandler, TypeOK
<1>9. call'[c] = h
  BY <1>1 DEF TypeOK
<1> HIDE DEF h
<1>10. Knows(c)'
  BY <1>1, <1>2, <1>4, <1>7, <1>9 DEF Knows, InvalidSize, Result
<1>11. h.completed <=> h.result # "none"
  BY <1>2, <1>4
<1>12. h.completed \/ (h.op # "none" /\ h.timer \in {"armed", "fired"})
  BY <1>2, <1>5, <1>7
<1>13. k.completed => h.completed /\ h.result = k.result
  BY <1>2
<1>14. h.op # "connect"
  BY <1>2, <1>7
<1> QED
  BY <1>1, <1>2, <1>3, <1>8, <1>10, <1>11, <1>12, <1>13, <1>14, ClientKeeps

LEMMA ReturnKeeps ==
  ASSUME IInv, NEW c \in Calls, Return(c)
  PROVE  /\ IInv' /\ call[c].completed /\ ~Returned(c)
         /\ outcome' = [outcome EXCEPT ![c] = call[c].result]
<1> USE DEF IInv
<1>1. /\ Issued(c) /\ ~Returned(c) /\ call[c].op = "none" /\ call[c].timer = "off"
      /\ UNCHANGED <<call, wireVars, session, server, log>>
  BY DEF Return
<1>2. call[c].completed /\ call[c].result # "none"
  BY <1>1 DEF Lives
<1>3. call[c].result \in {"response", "error"}
  BY <1>2 DEF TypeOK, CallState
<1>4. outcome' = [outcome EXCEPT ![c] = call[c].result]
  BY <1>2 DEF Return
<1>5. outcome'[c] = call[c].result /\ outcome' \in [Calls -> {"none", "response", "error", "incomplete"}]
  BY <1>3, <1>4 DEF TypeOK
<1>6. UNCHANGED <<toServer, toClient, frame, clientOpen, answer>>
  BY <1>1 DEF wireVars
<1>7. TypeOK'
  BY <1>1, <1>5, <1>6 DEF TypeOK
<1>8. \A d \in Calls \ {c} : outcome'[d] = outcome[d]
  BY <1>4 DEF TypeOK
<1>9. Moves(c)
  BY <1>1, <1>6, <1>8 DEF Moves, Returned, Exchange!Handled
<1>10. Lives(c)'
  <2>1. \A b \in Calls : Returned(b) => Returned(b)'
    BY <1>1, <1>8 DEF Returned
  <2> QED
    BY <1>1, <1>2, <1>5, <2>1 DEF Lives, Issued, Returned
<1>11. Travels(c)' /\ Serves(c)' /\ Knows(c)'
  BY <1>1, <1>6 DEF Travels, Serves, Knows, InvalidSize, Result, Exchange!Handled
<1>12. ProgramOrder'
  <2> SUFFICES ASSUME NEW i \in DOMAIN log, NEW j \in DOMAIN log,
                      <<log[j], log[i]>> \in After, outcome'[log[i]] = "response"
               PROVE  i < j
    BY <1>1 DEF ProgramOrder
  <2>1. log[i] \in Calls /\ log[j] \in Calls
    BY DEF TypeOK
  <2>2. CASE log[i] = c
    <3>1. Issued(log[j])
      BY <2>1 DEF Serves, Lives, Exchange!Handled
    <3> QED
      BY <1>1, <2>1, <2>2, <3>1 DEF Lives
  <2>3. CASE log[i] # c
    BY <1>8, <2>1, <2>3 DEF ProgramOrder
  <2> QED
    BY <2>2, <2>3
<1> QED
  BY <1>1, <1>2, <1>4, <1>7, <1>9, <1>10, <1>11, <1>12, MovesKeep

-----------------------------------------------------------------------------
(* The kernel.                                                             *)

LEMMA ExpireKeeps ==
  ASSUME IInv, NEW c \in Calls, Expire(c)
  PROVE  IInv'
<1> USE DEF IInv
<1> DEFINE k == [call[c] EXCEPT !.timer = "fired"]
<1>1. /\ call' = [call EXCEPT ![c] = k] /\ call[c].timer = "armed"
      /\ UNCHANGED <<outcome, toServer, toClient, frame, clientOpen, answer, session, server, log>>
  BY DEF Expire, wireVars, TypeOK
<1>2. /\ k \in CallState /\ k.timer = "fired" /\ k.op = call[c].op /\ k.done = call[c].done
      /\ k.sent = call[c].sent /\ k.completed = call[c].completed /\ k.result = call[c].result
  <2>1. call[c] \in CallState
    BY DEF TypeOK
  <2> QED
    BY <2>1 DEF CallState
<1>3. Issued(c)
  BY <1>1 DEF Issued, NewCall
<1> HIDE DEF k
<1>4. Knows(c)'
  <2>1. call'[c] = k
    BY <1>1 DEF TypeOK
  <2> QED
    BY <1>1, <1>2, <2>1 DEF Knows, InvalidSize, Result
<1>5. clientOpen' \in [Calls -> BOOLEAN]
  BY <1>1 DEF TypeOK
<1>6. /\ k.completed \/ (k.op # "none" /\ k.timer \in {"armed", "fired"})
      /\ k.done # "no" => k.op # "none"
      /\ k.op = "connect" /\ k.done = "no" => call[c].op = "connect" /\ call[c].done = "no"
      /\ k.completed <=> k.result # "none"
  BY <1>2, <1>3 DEF Lives
<1> QED
  BY <1>1, <1>2, <1>3, <1>4, <1>5, <1>6, ClientKeeps

LEMMA ConnectKeeps ==
  ASSUME IInv, NEW c \in Calls, Connect(c)
  PROVE  IInv'
<1> USE DEF IInv
<1>1. PICK done \in {"ok", "failed"} :
        /\ call' = [call EXCEPT ![c].done = done]
        /\ session' = [session EXCEPT ![c] = IF done = "ok" THEN "backlog" ELSE @]
  BY DEF Connect
<1> DEFINE k == [call[c] EXCEPT !.done = done]
<1>2. /\ call' = [call EXCEPT ![c] = k] /\ call[c].op = "connect"
      /\ UNCHANGED <<outcome, toServer, toClient, frame, clientOpen, answer, server, log>>
  BY <1>1 DEF Connect, Outstanding, wireVars, TypeOK
<1> session[c] = "none" /\ answer[c] = "none"
  BY DEF Connect, Outstanding, Lives, Serves
<1>3. /\ k \in CallState /\ k.done = done /\ k.op = call[c].op /\ k.timer = call[c].timer
      /\ k.sent = call[c].sent /\ k.completed = call[c].completed /\ k.result = call[c].result
  <2>1. call[c] \in CallState
    BY DEF TypeOK
  <2> QED
    BY <2>1 DEF CallState
<1>4. Issued(c)
  BY <1>2 DEF Issued, NewCall
<1> HIDE DEF k
<1>5. call'[c] = k /\ (session'[c] = "backlog" \/ session' = session)
  BY <1>1, <1>2 DEF TypeOK
<1>6. TypeOK'
  <2>1. session' \in [Calls -> {"none", "backlog", "header", "body", "write", "finish", "closed"}]
    BY <1>1 DEF TypeOK
  <2> QED
    BY <1>2, <1>3, <2>1 DEF TypeOK
<1>7. Lives(c)'
  <2>1. k # NewCall
    BY <1>2, <1>3, NewCallIs
  <2> QED
    BY <1>2, <1>3, <1>4, <1>5, <2>1 DEF Lives, Issued, Returned
<1>8. Travels(c)'
  BY <1>2, <1>3, <1>5 DEF Travels
<1>9. Serves(c)'
  BY <1>2, <1>5 DEF Serves, Exchange!Handled
<1>10. Knows(c)'
  BY <1>2, <1>3, <1>5 DEF Knows, InvalidSize, Result
<1> QED
  BY <1>1, <1>2, <1>6, <1>7, <1>8, <1>9, <1>10, QuietKeep DEF TypeOK

LEMMA WriteKeeps ==
  ASSUME IInv, NEW c \in Calls, Write(c)
  PROVE  IInv'
<1> USE DEF IInv
<1>1. call[c] \in CallState /\ call[c].sent \in 0 .. 2 /\ toServer[c] \in 0 .. 2
  BY DEF TypeOK, CallState
<1>2. /\ call[c].op = "write"
      /\ UNCHANGED <<outcome, toClient, frame, clientOpen, answer, session, server, log>>
  BY DEF Write, Outstanding
<1>3. PICK k \in CallState, more \in {0, 1} :
        /\ call' = [call EXCEPT ![c] = k]
        /\ toServer' = [toServer EXCEPT ![c] = @ + more]
        /\ call[c].sent + more <= 2 /\ k.sent = call[c].sent + more
        /\ k.op = call[c].op /\ k.timer = call[c].timer
        /\ k.completed = call[c].completed /\ k.result = call[c].result
        /\ k.done = "ok" => frame[c].request.size <= Declared(frame[c].request)
  <2>1. CASE session[c] = "closed"
    <3> DEFINE k == [call[c] EXCEPT !.done = "failed"]
    <3>1. call' = [call EXCEPT ![c] = k] /\ toServer' = toServer
      BY <2>1 DEF Write
    <3>2. toServer' = [toServer EXCEPT ![c] = @ + 0]
      BY <1>1, <3>1 DEF TypeOK
    <3>3. /\ k \in CallState /\ k.sent = call[c].sent + 0 /\ call[c].sent + 0 <= 2
          /\ k.op = call[c].op /\ k.timer = call[c].timer /\ k.done = "failed"
          /\ k.completed = call[c].completed /\ k.result = call[c].result
      BY <1>1 DEF CallState
    <3> HIDE DEF k
    <3> QED
      BY <3>1, <3>2, <3>3
  <2>2. CASE session[c] # "closed"
    <3> DEFINE whole == call[c].sent = 1 /\ frame[c].request.size <= Declared(frame[c].request)
               done  == IF whole THEN "ok" ELSE "no"
               k     == [call[c] EXCEPT !.sent = @ + 1, !.done = done]
    <3>1. call' = [call EXCEPT ![c] = k] /\ toServer' = [toServer EXCEPT ![c] = @ + 1]
      BY <2>2 DEF Write
    <3>2. done \in {"no", "ok"} /\ (done = "ok" => whole)
      OBVIOUS
    <3>3. call[c].sent + 1 <= 2 /\ call[c].sent + 1 \in 0 .. 2
      BY <1>1, <2>2 DEF Write
    <3> HIDE DEF done
    <3>4. /\ k \in CallState /\ k.sent = call[c].sent + 1 /\ k.done = done
          /\ k.op = call[c].op /\ k.timer = call[c].timer
          /\ k.completed = call[c].completed /\ k.result = call[c].result
      BY <1>1, <3>2, <3>3 DEF CallState
    <3> HIDE DEF k
    <3> QED
      BY <3>1, <3>2, <3>3, <3>4
  <2> QED
    BY <2>1, <2>2
<1>4. Issued(c) /\ k # NewCall
  BY <1>2, <1>3, NewCallIs DEF Issued
<1>5. call'[c] = k
  BY <1>3 DEF TypeOK
<1>6. toServer[c] \in Nat /\ call[c].sent \in Nat /\ toServer'[c] = toServer[c] + more
      /\ toServer[c] <= call[c].sent
  BY <1>1, <1>3 DEF TypeOK, Travels
<1>7. TypeOK'
  <2>1. toServer' \in [Calls -> 0 .. 2]
    <3>1. toServer[c] + more \in 0 .. 2
      <4>1. call[c].sent + more <= 2
        BY <1>3
      <4> QED
        BY <1>6, <4>1
    <3> QED
      BY <1>3, <3>1 DEF TypeOK
  <2> QED
    BY <1>2, <1>3, <2>1 DEF TypeOK
<1>8. Lives(c)'
  BY <1>2, <1>3, <1>4, <1>5 DEF Lives, Issued, Returned
<1>9. Travels(c)'
  BY <1>2, <1>3, <1>5, <1>6 DEF Travels
<1>10. Serves(c)'
  BY <1>2 DEF Serves, Exchange!Handled
<1>11. Knows(c)'
  BY <1>2, <1>3, <1>5 DEF Knows, InvalidSize, Result
<1> QED
  BY <1>2, <1>3, <1>7, <1>8, <1>9, <1>10, <1>11, QuietKeep DEF TypeOK

LEMMA ReadKeeps ==
  ASSUME IInv, NEW c \in Calls, Read(c)
  PROVE  IInv'
<1> USE DEF IInv
<1>1. PICK done \in {"ok", "failed"}, less \in {0, 1} :
        /\ call' = [call EXCEPT ![c] = [@ EXCEPT !.done = done]]
        /\ toClient' = [toClient EXCEPT ![c] = @ - less]
        /\ less <= toClient[c]
        /\ done = "ok" => toClient[c] > 0
  <2>1. toClient[c] \in 0 .. 2
    BY DEF TypeOK
  <2>2. CASE toClient[c] > 0
    <3>1. call' = [call EXCEPT ![c] = [@ EXCEPT !.done = "ok"]]
      BY <2>1, <2>2 DEF Read
    <3>2. toClient' = [toClient EXCEPT ![c] = @ - 1] /\ 1 <= toClient[c]
      BY <2>1, <2>2 DEF Read
    <3> QED
      BY <2>2, <3>1, <3>2
  <2>3. CASE toClient[c] = 0
    <3>1. call' = [call EXCEPT ![c] = [@ EXCEPT !.done = "failed"]] /\ toClient' = toClient
      BY <2>1, <2>3 DEF Read
    <3>2. toClient' = [toClient EXCEPT ![c] = @ - 0] /\ 0 <= toClient[c]
      BY <2>1, <3>1 DEF TypeOK
    <3> QED
      BY <3>1, <3>2
  <2> QED
    BY <2>1, <2>2, <2>3
<1> DEFINE k == [call[c] EXCEPT !.done = done]
<1>2. /\ call' = [call EXCEPT ![c] = k] /\ call[c].op \in {"header", "body"}
      /\ UNCHANGED <<outcome, toServer, frame, clientOpen, answer, session, server, log>>
  BY <1>1 DEF Read, Outstanding
<1>3. /\ k \in CallState /\ k.done = done /\ k.op = call[c].op /\ k.timer = call[c].timer
      /\ k.sent = call[c].sent /\ k.completed = call[c].completed /\ k.result = call[c].result
  <2>1. call[c] \in CallState
    BY DEF TypeOK
  <2> QED
    BY <2>1 DEF CallState
<1>4. Issued(c) /\ k # NewCall
  BY <1>2, <1>3, NewCallIs DEF Issued
<1> HIDE DEF k
<1>5. call'[c] = k
  BY <1>2 DEF TypeOK
<1>6. toClient[c] \in 0 .. 2 /\ toClient'[c] = toClient[c] - less
  BY <1>1 DEF TypeOK
<1>7. TypeOK'
  <2>1. toClient' \in [Calls -> 0 .. 2]
    <3>1. toClient[c] - less \in 0 .. 2
      BY <1>1, <1>6
    <3> QED
      BY <1>1, <3>1 DEF TypeOK
  <2> QED
    BY <1>2, <1>3, <2>1 DEF TypeOK
<1>8. Lives(c)'
  BY <1>2, <1>3, <1>4, <1>5 DEF Lives, Issued, Returned
<1>9. Travels(c)'
  BY <1>1, <1>2, <1>3, <1>5, <1>6 DEF Travels
<1>10. Serves(c)'
  BY <1>2 DEF Serves, Exchange!Handled
<1>11. Knows(c)'
  BY <1>1, <1>2, <1>3, <1>5 DEF Knows, Travels, InvalidSize, Result
<1> QED
  BY <1>1, <1>2, <1>7, <1>8, <1>9, <1>10, <1>11, QuietKeep DEF TypeOK

-----------------------------------------------------------------------------
(* The server.                                                             *)

(* A handler of a session that has not got to its body, or has answered.   *)
LEMMA SessionKeeps ==
  ASSUME IInv, NEW c \in Calls, session[c] # "none",
         NEW s \in {"header", "body", "finish", "closed"},
         session' = [session EXCEPT ![c] = s],
         UNCHANGED <<call, outcome, frame, clientOpen, answer, server, log>>,
         NEW m \in 0 .. 2, toServer' = [toServer EXCEPT ![c] = m], m <= toServer[c],
         NEW n \in 0 .. 2, toClient' = [toClient EXCEPT ![c] = n],
         answer[c] = "none" => n = 0,
         s = "finish" => n <= 1,
         s \in {"header", "body"} => session[c] \in {"backlog", "header"},
         s = "body" => IsValidMessageSize(Declared(frame[c].request)),
         s = "finish" => answer[c] # "none"
  PROVE  IInv'
<1> USE DEF IInv
<1>1. session'[c] = s /\ toServer'[c] = m /\ toClient'[c] = n
  BY DEF TypeOK
<1>2. TypeOK'
  BY DEF TypeOK
<1>3. Lives(c)'
  BY <1>1 DEF Lives, Issued, Returned
<1>4. Travels(c)'
  <2>1. toServer[c] \in Nat /\ call[c].sent \in Nat /\ toServer[c] <= call[c].sent
    BY DEF TypeOK, CallState, Travels
  <2> QED
    BY <1>1, <2>1 DEF Travels
<1>5. Serves(c)'
  BY <1>1 DEF Serves, Exchange!Handled
<1>6. Knows(c)'
  BY DEF Knows, InvalidSize, Result
<1> QED
  BY <1>2, <1>3, <1>4, <1>5, <1>6, QuietKeep DEF TypeOK

LEMMA AcceptKeeps ==
  ASSUME IInv, NEW c \in Calls, Accept(c)
  PROVE  IInv'
<1> USE DEF IInv
<1>1. /\ session[c] = "backlog" /\ session' = [session EXCEPT ![c] = "header"]
      /\ UNCHANGED <<call, outcome, toServer, toClient, frame, clientOpen, answer, server, log>>
  BY DEF Accept, SessionIn, wireVars
<1>2. /\ toServer[c] \in 0 .. 2 /\ toServer[c] <= toServer[c]
      /\ toServer' = [toServer EXCEPT ![c] = toServer[c]]
      /\ toClient[c] \in 0 .. 2 /\ toClient' = [toClient EXCEPT ![c] = toClient[c]]
  BY <1>1 DEF TypeOK
<1> QED
  BY <1>1, <1>2, SessionKeeps DEF Travels

LEMMA ReadHeaderKeeps ==
  ASSUME IInv, NEW c \in Calls, ReadHeader(c)
  PROVE  IInv'
<1> USE DEF IInv
<1>1. PICK s \in {"body", "closed"} :
        /\ session' = [session EXCEPT ![c] = s]
        /\ s = "body" => IsValidMessageSize(Declared(frame[c].request))
  BY DEF ReadHeader
<1>2. /\ session[c] = "header"
      /\ UNCHANGED <<call, outcome, toClient, frame, clientOpen, answer, server, log>>
  BY DEF ReadHeader, SessionIn
<1>3. /\ toServer[c] - 1 \in 0 .. 2 /\ toServer[c] - 1 <= toServer[c]
      /\ toServer' = [toServer EXCEPT ![c] = toServer[c] - 1]
      /\ toClient[c] \in 0 .. 2 /\ toClient' = [toClient EXCEPT ![c] = toClient[c]]
  BY <1>2 DEF ReadHeader, TypeOK
<1> QED
  BY <1>1, <1>2, <1>3, SessionKeeps DEF Travels

LEMMA EndOfStreamKeeps ==
  ASSUME IInv, NEW c \in Calls, EndOfStream(c)
  PROVE  IInv'
<1> USE DEF IInv
<1>1. /\ session[c] # "none" /\ session' = [session EXCEPT ![c] = "closed"]
      /\ UNCHANGED <<call, outcome, toServer, toClient, frame, clientOpen, answer, server, log>>
  BY DEF EndOfStream, SessionIn, wireVars
<1>2. /\ toServer[c] \in 0 .. 2 /\ toServer[c] <= toServer[c]
      /\ toServer' = [toServer EXCEPT ![c] = toServer[c]]
      /\ toClient[c] \in 0 .. 2 /\ toClient' = [toClient EXCEPT ![c] = toClient[c]]
  BY <1>1 DEF TypeOK
<1> QED
  BY <1>1, <1>2, SessionKeeps DEF Travels

LEMMA WriteResponseKeeps ==
  ASSUME IInv, NEW c \in Calls, WriteResponse(c)
  PROVE  IInv'
<1> USE DEF IInv
<1>1. PICK s \in {"finish", "closed"} :
        /\ session' = [session EXCEPT ![c] = s]
        /\ s = "finish" => session[c] = "write"
  BY DEF WriteResponse, TypeOK
<1>2. /\ session[c] \in {"write", "finish"} /\ answer[c] # "none"
      /\ UNCHANGED <<call, outcome, toServer, frame, clientOpen, answer, server, log>>
  BY DEF WriteResponse, SessionIn, Serves
<1>3. PICK n \in 0 .. 2 : /\ toClient' = [toClient EXCEPT ![c] = n]
                          /\ session[c] = "write" => n <= 1
  <2>1. toClient[c] \in 0 .. 1 /\ (session[c] = "write" => toClient[c] = 0)
    BY <1>2 DEF Travels, TypeOK
  <2>2. CASE clientOpen[c]
    <3>1. toClient' = [toClient EXCEPT ![c] = toClient[c] + 1]
      BY <2>2 DEF WriteResponse
    <3>2. toClient[c] + 1 \in 0 .. 2 /\ (session[c] = "write" => toClient[c] + 1 <= 1)
      BY <2>1
    <3> QED
      BY <3>1, <3>2
  <2>3. CASE ~clientOpen[c]
    <3>1. toClient' = [toClient EXCEPT ![c] = toClient[c]]
      BY <2>3 DEF WriteResponse
    <3>2. toClient[c] \in 0 .. 2 /\ (session[c] = "write" => toClient[c] <= 1)
      BY <2>1
    <3> QED
      BY <3>1, <3>2
  <2> QED
    BY <2>2, <2>3
<1>4. /\ toServer[c] \in 0 .. 2 /\ toServer[c] <= toServer[c]
      /\ toServer' = [toServer EXCEPT ![c] = toServer[c]]
  BY <1>2 DEF TypeOK
<1> QED
  BY <1>1, <1>2, <1>3, <1>4, SessionKeeps

LEMMA ReadBodyKeeps ==
  ASSUME IInv, NEW c \in Calls, ReadBody(c)
  PROVE  IInv'
<1> USE DEF IInv
<1>1. /\ session[c] = "body" /\ answer[c] = "none" /\ toClient[c] = 0 /\ toServer[c] > 0
      /\ UNCHANGED <<call, outcome, toClient, frame, clientOpen, server>>
      /\ session' = [session EXCEPT ![c] = "write"]
      /\ toServer' = [toServer EXCEPT ![c] = @ - 1]
      /\ log' = IF Readable(frame[c].request) THEN Append(log, c) ELSE log
  BY DEF ReadBody, SessionIn, Serves, Travels
<1>2. PICK a \in {"payload", "error"} : answer' = [answer EXCEPT ![c] = a]
  BY DEF ReadBody
<1>3. /\ session'[c] = "write" /\ answer'[c] # "none" /\ toServer'[c] = toServer[c] - 1
  BY <1>1, <1>2 DEF TypeOK
<1>4. TypeOK'
  <2>1. toServer' \in [Calls -> 0 .. 2]
    <3>1. toServer[c] - 1 \in 0 .. 2
      BY <1>1 DEF TypeOK
    <3> QED
      BY <1>1, <3>1 DEF TypeOK
  <2>2. log' \in Seq(Calls)
    BY <1>1 DEF TypeOK
  <2> QED
    BY <1>1, <1>2, <2>1, <2>2 DEF TypeOK
<1>5. /\ \A d \in Calls \ {c} : d \in Exchange!Handled' <=> d \in Exchange!Handled
      /\ Readable(frame[c].request) => c \in Exchange!Handled'
  <2>1. CASE Readable(frame[c].request)
    <3>1. /\ log' = Append(log, c) /\ DOMAIN log' = DOMAIN log \cup {Len(log) + 1}
          /\ log'[Len(log) + 1] = c /\ \A i \in DOMAIN log : log'[i] = log[i]
      BY <1>1, <2>1 DEF TypeOK
    <3> QED
      BY <3>1 DEF Exchange!Handled
  <2>2. CASE ~Readable(frame[c].request)
    BY <1>1, <2>2 DEF Exchange!Handled
  <2> QED
    BY <2>1, <2>2
<1>6. Moves(c)
  BY <1>1, <1>2, <1>5 DEF Moves, Returned, TypeOK
<1>7. Lives(c)'
  BY <1>1, <1>3 DEF Lives, Issued, Returned
<1>8. Travels(c)'
  <2>1. toServer[c] \in Nat /\ call[c].sent \in Nat
    BY DEF TypeOK, CallState
  <2> QED
    BY <1>1, <1>3, <2>1 DEF Travels
<1>9. Serves(c)'
  BY <1>1, <1>3, <1>5 DEF Serves
<1>10. Knows(c)'
  BY <1>1, <1>3 DEF Knows
<1>11. ProgramOrder'
  <2> SUFFICES ASSUME NEW i \in DOMAIN log', NEW j \in DOMAIN log',
                      <<log'[j], log'[i]>> \in After, outcome[log'[i]] = "response"
               PROVE  i < j
    BY <1>1 DEF ProgramOrder
  <2>1. CASE Readable(frame[c].request)
    <3>1. /\ log' = Append(log, c) /\ DOMAIN log' = 1 .. Len(log) + 1
          /\ Len(log) \in Nat /\ DOMAIN log = 1 .. Len(log)
          /\ log'[Len(log) + 1] = c /\ \A k \in DOMAIN log : log'[k] = log[k]
      BY <1>1, <2>1 DEF TypeOK
    <3>2. outcome[c] # "response"
      BY <1>1 DEF Lives, Knows, Returned
    <3>3. i \in DOMAIN log
      BY <3>1, <3>2
    <3>4. CASE j \in DOMAIN log
      BY <3>1, <3>3, <3>4 DEF ProgramOrder
    <3>5. CASE j = Len(log) + 1
      BY <3>1, <3>3, <3>5
    <3> QED
      BY <3>1, <3>4, <3>5
  <2>2. CASE ~Readable(frame[c].request)
    BY <1>1, <2>2 DEF ProgramOrder
  <2> QED
    BY <2>1, <2>2
<1> QED
  BY <1>4, <1>6, <1>7, <1>8, <1>9, <1>10, <1>11, MovesKeep

LEMMA ServerKeeps ==
  ASSUME IInv, StartServer \/ StopServer \/ DropSessions
  PROVE  IInv'
<1> USE DEF IInv
<1>1. /\ UNCHANGED <<call, outcome, toServer, toClient, frame, clientOpen, answer, log>>
      /\ server' \in {"down", "up", "stopping"}
  <2>1. UNCHANGED <<call, outcome, wireVars, log>>
    BY DEF StartServer, StopServer, DropSessions
  <2>2. server' \in {"down", "up", "stopping"}
    BY DEF StartServer, StopServer, DropSessions
  <2> QED
    BY <2>1, <2>2 DEF wireVars
<1>2. /\ session' \in [Calls -> {"none", "backlog", "header", "body", "write", "finish", "closed"}]
      /\ \A c \in Calls : \/ session'[c] = session[c]
                          \/ session[c] # "none" /\ session'[c] = "closed"
  <2>1. CASE session' = session
    BY <2>1 DEF TypeOK
  <2>2. CASE session' = [c \in Calls |-> IF session[c] = "none" THEN "none" ELSE "closed"]
    BY <2>2 DEF TypeOK
  <2> QED
    BY <2>1, <2>2 DEF StartServer, StopServer, DropSessions
<1>3. TypeOK'
  BY <1>1, <1>2 DEF TypeOK
<1>4. ASSUME NEW c \in Calls PROVE Lives(c)' /\ Travels(c)' /\ Serves(c)' /\ Knows(c)'
  <2>1. Lives(c)'
    BY <1>1, <1>2 DEF Lives, Issued, Returned
  <2>2. Travels(c)'
    BY <1>1, <1>2 DEF Travels
  <2>3. Serves(c)'
    BY <1>1, <1>2 DEF Serves, Exchange!Handled
  <2>4. Knows(c)'
    BY <1>1 DEF Knows, InvalidSize, Result
  <2> QED
    BY <2>1, <2>2, <2>3, <2>4
<1>5. ProgramOrder'
  BY <1>1 DEF ProgramOrder
<1> QED
  BY <1>3, <1>4, <1>5

-----------------------------------------------------------------------------
(* The invariant, and what follows from it.                                *)

LEMMA InitHolds == Init => IInv
<1> SUFFICES ASSUME Init PROVE IInv
  OBVIOUS
<1>1. TypeOK
  BY NewCallIs DEF Init, TypeOK
<1>2. ProgramOrder
  BY DEF Init, ProgramOrder
<1>3. ASSUME NEW c \in Calls PROVE Lives(c) /\ Travels(c) /\ Serves(c) /\ Knows(c)
  <2>1. call[c] = NewCall /\ outcome[c] = "none" /\ session[c] = "none" /\ answer[c] = "none"
    BY DEF Init
  <2>2. toServer[c] = 0 /\ toClient[c] = 0 /\ Exchange!Handled = {}
    BY DEF Init, Exchange!Handled
  <2>3. NewCall.op = "none" /\ NewCall.done = "no" /\ NewCall.sent = 0 /\ NewCall.result = "none"
    BY DEF NewCall
  <2>4. Lives(c)
    BY <2>1, <2>3, NewCallIs DEF Lives, Issued, Returned
  <2>5. Travels(c)
    BY <2>1, <2>2, <2>3 DEF Travels
  <2>6. Serves(c) /\ Knows(c)
    BY <2>1, <2>2, <2>3 DEF Serves, Knows
  <2> QED
    BY <2>4, <2>5, <2>6
<1> QED
  BY <1>1, <1>2, <1>3 DEF IInv

LEMMA NextKeeps == IInv /\ [Next]_vars => IInv'
<1> SUFFICES ASSUME IInv, [Next]_vars PROVE IInv'
  OBVIOUS
<1>1. ASSUME NEW c \in Calls, Issue(c) \/ ClientStep(c) PROVE IInv'
  BY <1>1, IssueKeeps, TimerHandlerKeeps, OpHandlerKeeps, ReturnKeeps DEF ClientStep
<1>2. ASSUME NEW c \in Calls, Kernel(c) PROVE IInv'
  BY <1>2, ExpireKeeps, ConnectKeeps, WriteKeeps, ReadKeeps DEF Kernel
<1>3. ASSUME NEW c \in Calls, SessionStep(c) PROVE IInv'
  BY <1>3, AcceptKeeps, ReadHeaderKeeps, ReadBodyKeeps, EndOfStreamKeeps, WriteResponseKeeps
     DEF SessionStep
<1>4. CASE UNCHANGED vars
  <2> USE DEF IInv
  <2>1. /\ UNCHANGED <<call, outcome, toServer, toClient, frame, clientOpen, answer>>
        /\ UNCHANGED <<session, server, log>>
    BY <1>4 DEF vars, wireVars
  <2>2. TypeOK' /\ ProgramOrder'
    BY <2>1 DEF TypeOK, ProgramOrder
  <2>3. \A c \in Calls : Lives(c)' /\ Travels(c)'
    BY <2>1 DEF Lives, Travels, Issued, Returned
  <2>4. \A c \in Calls : Serves(c)' /\ Knows(c)'
    BY <2>1 DEF Serves, Knows, InvalidSize, Result, Exchange!Handled
  <2> QED
    BY <2>2, <2>3, <2>4
<1> QED
  BY <1>1, <1>2, <1>3, <1>4, ServerKeeps DEF Next

(* The invariant holds in every state of the exchange. *)
THEOREM Invariance == Spec => []IInv
BY InitHolds, NextKeeps, PTL DEF Spec

(* The state always has its type. *)
THEOREM TypeCorrect == Spec => []TypeOK
BY Invariance, PTL DEF IInv

(* No call runs out of work without a result, whatever the order of its    *)
(* timer and its operations.                                               *)
THEOREM CallsComplete == Spec => []AlwaysCompletes
<1>1. IInv => AlwaysCompletes
  BY DEF IInv, AlwaysCompletes, Lives, Returned, TypeOK, CallState
<1> QED
  BY <1>1, Invariance, PTL

(* What returned before a call was made was handled before it. *)
THEOREM OrderKept == Spec => []ProgramOrder
BY Invariance, PTL DEF IInv

(* What the kernel does not touch. *)
LEMMA KernelIs ==
  ASSUME TypeOK, NEW c \in Calls, Kernel(c)
  PROVE  /\ call'[c].op = call[c].op /\ call'[c].result = call[c].result
         /\ call'[c].completed = call[c].completed
         /\ Expire(c) \/ call'[c].timer = call[c].timer
         /\ \A d \in Calls \ {c} : call'[d] = call[d]
<1>1. call[c] \in CallState
  BY DEF TypeOK
<1>2. ASSUME NEW k, call' = [call EXCEPT ![c] = k],
             k.op = call[c].op, k.result = call[c].result, k.completed = call[c].completed,
             Expire(c) \/ k.timer = call[c].timer
      PROVE  /\ call'[c].op = call[c].op /\ call'[c].result = call[c].result
             /\ call'[c].completed = call[c].completed
             /\ Expire(c) \/ call'[c].timer = call[c].timer
             /\ \A d \in Calls \ {c} : call'[d] = call[d]
  BY <1>2 DEF TypeOK
<1>3. CASE Expire(c)
  <2> DEFINE k == [call[c] EXCEPT !.timer = "fired"]
  <2>1. call' = [call EXCEPT ![c] = k]
    BY <1>3 DEF Expire
  <2>2. k.op = call[c].op /\ k.result = call[c].result /\ k.completed = call[c].completed
    BY <1>1 DEF CallState
  <2> HIDE DEF k
  <2> QED
    BY <1>2, <1>3, <2>1, <2>2
<1>4. CASE Connect(c) \/ Read(c)
  <2>1. PICK done \in {"ok", "failed"} : call' = [call EXCEPT ![c].done = done]
    BY <1>4 DEF Connect, Read
  <2> DEFINE k == [call[c] EXCEPT !.done = done]
  <2>2. call' = [call EXCEPT ![c] = k]
    BY <2>1
  <2>3. /\ k.op = call[c].op /\ k.result = call[c].result
       /\ k.completed = call[c].completed /\ k.timer = call[c].timer
    BY <1>1 DEF CallState
  <2> HIDE DEF k
  <2> QED
    BY <1>2, <2>2, <2>3
<1>5. CASE Write(c)
  <2>1. PICK done \in {"no", "ok", "failed"} :
          \/ call' = [call EXCEPT ![c] = [call[c] EXCEPT !.done = done]]
          \/ call' = [call EXCEPT ![c] = [call[c] EXCEPT !.sent = @ + 1, !.done = done]]
    BY <1>5 DEF Write
  <2>2. CASE call' = [call EXCEPT ![c] = [call[c] EXCEPT !.done = done]]
    <3> DEFINE k == [call[c] EXCEPT !.done = done]
    <3>1. call' = [call EXCEPT ![c] = k]
      BY <2>2
    <3>2. /\ k.op = call[c].op /\ k.result = call[c].result
         /\ k.completed = call[c].completed /\ k.timer = call[c].timer
      BY <1>1 DEF CallState
    <3> HIDE DEF k
    <3> QED
      BY <1>2, <3>1, <3>2
  <2>3. CASE call' = [call EXCEPT ![c] = [call[c] EXCEPT !.sent = @ + 1, !.done = done]]
    <3> DEFINE k == [call[c] EXCEPT !.sent = @ + 1, !.done = done]
    <3>1. call' = [call EXCEPT ![c] = k]
      BY <2>3
    <3>2. /\ k.op = call[c].op /\ k.result = call[c].result
         /\ k.completed = call[c].completed /\ k.timer = call[c].timer
      BY <1>1 DEF CallState
    <3> HIDE DEF k
    <3> QED
      BY <1>2, <3>1, <3>2
  <2> QED
    BY <2>1, <2>2, <2>3
<1> QED
  BY <1>3, <1>4, <1>5 DEF Kernel

(* The result of a completed call survives every handler that still runs.  *)
LEMMA ResultKept ==
  ASSUME IInv, [Next]_vars, NEW c \in Calls, call[c].completed
  PROVE  call'[c].completed /\ call'[c].result = call[c].result
<1> USE DEF IInv
<1>1. call[c] \in CallState
  BY DEF TypeOK
<1>2. ASSUME NEW d \in Calls, Issue(d)
      PROVE  call'[c] = call[c]
  <2>1. d # c
    BY <1>2, NewCallIs DEF Issue, Issued
  <2> QED
    BY <1>2, <2>1 DEF Issue, TypeOK
<1>3. ASSUME NEW d \in Calls, TimerHandler(d)
      PROVE  call'[c].completed /\ call'[c].result = call[c].result
  <2>1. CASE d # c
    BY <1>3, <2>1 DEF TimerHandler, TypeOK
  <2>2. CASE d = c
    <3> DEFINE a == [call[c] EXCEPT !.timer = "off"]
    <3>1. a \in CallState /\ a.completed /\ a.result = call[c].result
      BY <1>1 DEF CallState
    <3>2. call' = [call EXCEPT ![c] = a] \/ call' = [call EXCEPT ![c] = Complete(a, "error")]
      BY <1>3, <2>2 DEF TimerHandler
    <3> HIDE DEF a
    <3>3. Complete(a, "error") = a
      BY <3>1 DEF Complete
    <3>4. call'[c] = a
      BY <3>2, <3>3 DEF TypeOK
    <3> QED
      BY <3>1, <3>4
  <2> QED
    BY <2>1, <2>2
<1>4. ASSUME NEW d \in Calls, OpHandler(d)
      PROVE  call'[c].completed /\ call'[c].result = call[c].result
  <2>1. CASE d # c
    BY <1>4, <2>1 DEF OpHandler, TypeOK
  <2>2. CASE d = c
    <3>1. call'[c] = Handled(c) /\ call[c].done \in {"ok", "failed"}
      BY <1>4, <2>2 DEF OpHandler, TypeOK
    <3> QED
      BY <3>1, HandledCases
  <2> QED
    BY <2>1, <2>2
<1>5. ASSUME NEW d \in Calls, Kernel(d)
      PROVE  call'[c].completed /\ call'[c].result = call[c].result
  <2>1. CASE d = c
    BY <1>5, <2>1, KernelIs
  <2>2. CASE d # c
    BY <1>5, <2>2, KernelIs
  <2> QED
    BY <2>1, <2>2
<1>6. ASSUME NEW d \in Calls, Return(d) \/ SessionStep(d)
      PROVE  call' = call
  BY <1>6 DEF Return, SessionStep, Accept, ReadHeader, ReadBody, EndOfStream, WriteResponse
<1>7. CASE StartServer \/ StopServer \/ DropSessions \/ UNCHANGED vars
  BY <1>7 DEF StartServer, StopServer, DropSessions, vars
<1> QED
  BY <1>2, <1>3, <1>4, <1>5, <1>6, <1>7 DEF Next, ClientStep

(* Neither a timeout nor a late answer replaces the first result. *)
THEOREM ResultsStay == Spec => FirstResultWins
<1>1. IInv /\ [Next]_vars =>
        [\A c \in Calls : call[c].completed => /\ call'[c].completed
                                               /\ call'[c].result = call[c].result]_vars
  BY ResultKept
<1> QED
  BY <1>1, Invariance, PTL DEF Spec, FirstResultWins

-----------------------------------------------------------------------------
(* Messages are sent whole or not answered.                                *)

(* A request whose declared part was read, and that was written to its end. *)
LEMMA RequestIntact ==
  ASSUME NEW f \in Frames, IsValidMessageSize(Declared(f.request)),
         f.request.size <= Declared(f.request)
  PROVE  Readable(f.request) /\ IsValidMessageSize(f.request.size)
<1> DEFINE size == f.request.size
<1>1. f.request.parses /\ Framed(f.request) /\ size \in Nat
  BY FramesAssumption DEF Message
<1>2. Word \in Nat /\ Word > 0
  BY WordType, MaxSizeAssumption DEF Word
<1>3. Cast(size) \in 0 .. Word - 1
  BY <1>1, <1>2 DEF Cast
<1>4. Declared(f.request) = DecodeLength(FrameHeader(size))
  BY <1>1 DEF Declared, Framed
<1>5. Declared(f.request) = Cast(size)
  BY <1>3, <1>4, DecodeEncode DEF FrameHeader
<1>6. ~MakeFrameThrows(size) /\ size < Word
  BY <1>1, <1>2, <1>3, <1>5 DEF MakeFrameThrows
<1>7. Declared(f.request) = size
  BY <1>1, <1>4, <1>6, FrameTellsSize
<1> QED
  BY <1>1, <1>7 DEF Readable, Whole

LEMMA AnswerIntact ==
  ASSUME IInv, NEW c \in Calls, outcome[c] = "response"
  PROVE  /\ Readable(frame[c].request) /\ IsValidMessageSize(frame[c].request.size)
         /\ answer[c] = "payload" => /\ Readable(frame[c].response)
                                     /\ IsValidMessageSize(frame[c].response.size)
         /\ c \in Exchange!Handled
<1> USE DEF IInv
<1>1. call[c].result = "response" /\ frame[c] \in Frames
  BY DEF Lives, Returned, TypeOK
<1>2. /\ frame[c].request.size <= Declared(frame[c].request)
      /\ answer[c] # "none" /\ ~InvalidSize(c) /\ Result(c) = "response"
  BY <1>1 DEF Knows
<1>3. Readable(frame[c].request) /\ IsValidMessageSize(frame[c].request.size)
  BY <1>1, <1>2, RequestIntact DEF Serves
<1>4. answer[c] = "payload" => /\ Readable(frame[c].response)
                              /\ IsValidMessageSize(frame[c].response.size)
  BY <1>2 DEF InvalidSize, Result, Readable, Whole
<1> QED
  BY <1>2, <1>3, <1>4 DEF Serves

(* Nobody takes a part of a message for a message, for any sizes.          *)
THEOREM AnswersWhole == Spec => []AnswersIntact
<1>1. IInv => AnswersIntact
  BY AnswerIntact DEF AnswersIntact
<1> QED
  BY <1>1, Invariance, PTL

-----------------------------------------------------------------------------
(* The exchange implements RequestReply.                                   *)

LEMMA InitRefines == Init => Exchange!Init
BY DEF Init, Exchange!Init, Issued

(* A step of a call that has been issued leaves it so. *)
LEMMA StaysIssued ==
  ASSUME IInv, NEW c \in Calls, Issued(c), TimerHandler(c) \/ OpHandler(c) \/ Kernel(c)
  PROVE  Issued(c)'
<1> USE DEF IInv
<1>1. CASE call[c].completed
  <2>1. [Next]_vars
    BY DEF Next, ClientStep
  <2>2. call'[c].completed
    BY <1>1, <2>1, ResultKept
  <2> QED
    BY <2>2, NewCallIs DEF Issued
<1>2. CASE ~call[c].completed
  <2>1. call[c].op # "none" /\ call[c].timer \in {"armed", "fired"} /\ call[c] \in CallState
    BY <1>2 DEF Lives, TypeOK
  <2>2. CASE TimerHandler(c)
    <3> DEFINE a == [call[c] EXCEPT !.timer = "off"]
    <3>1. call' = [call EXCEPT ![c] = Complete(a, "error")]
      BY <2>1, <2>2 DEF TimerHandler
    <3>2. a \in CallState
      BY <2>1 DEF CallState
    <3> HIDE DEF a
    <3>3. call'[c].completed
      BY <3>1, <3>2, CompleteIs DEF TypeOK
    <3> QED
      BY <3>3, NewCallIs DEF Issued
  <2>3. CASE OpHandler(c)
    <3>1. call'[c] = Handled(c) /\ call[c].done \in {"ok", "failed"}
      BY <2>3 DEF OpHandler, TypeOK
    <3>2. NextOp["connect"] = "write" /\ NextOp["write"] = "header" /\ NextOp["header"] = "body"
      BY DEF NextOp
    <3>3. Handled(c).completed \/ Handled(c).op # "none"
      BY <3>1, <3>2, HandledCases
    <3> QED
      BY <3>1, <3>3, NewCallIs DEF Issued
  <2>4. CASE Kernel(c)
    <3>1. call'[c].op = call[c].op
      BY <2>4, KernelIs
    <3> QED
      BY <2>1, <3>1, NewCallIs DEF Issued
  <2> QED
    BY <2>2, <2>3, <2>4
<1> QED
  BY <1>1, <1>2

LEMMA NextRefines == IInv /\ [Next]_vars => [Exchange!Next]_(Exchange!vars)
<1> SUFFICES ASSUME IInv, [Next]_vars PROVE [Exchange!Next]_(Exchange!vars)
  OBVIOUS
<1> USE DEF IInv
<1>1. IInv'
  BY NextKeeps
<1>2. ASSUME NEW c \in Calls, Issue(c)
      PROVE  Exchange!Next
  <2>1. /\ ~Issued(c) /\ UNCHANGED <<log, outcome>>
        /\ \A b \in Calls : <<c, b>> \in After => outcome[b] # "none"
    BY <1>2 DEF Issue, Returned
  <2>2. Issued(c)'
    <3>1. CASE Refused(frame[c].request)
      <4>1. call'[c] = Complete(NewCall, "error")
        BY <1>2, <2>1, <3>1 DEF Issue, Issued, TypeOK
      <4> QED
        BY <4>1, NewCallIs, CompleteIs DEF Issued
    <3>2. CASE ~Refused(frame[c].request)
      <4>1. call'[c].op = "connect"
        BY <1>2, <3>2 DEF Issue, TypeOK, CallState
      <4> QED
        BY <4>1, NewCallIs DEF Issued
    <3> QED
      BY <3>1, <3>2
  <2>3. \A d \in Calls \ {c} : Issued(d)' <=> Issued(d)
    BY <1>2 DEF Issue, Issued, TypeOK
  <2>4. {d \in Calls : Issued(d)'} = {d \in Calls : Issued(d)} \cup {c}
    BY <2>2, <2>3
  <2>5. Exchange!Issue(c)
    BY <2>1, <2>4 DEF Exchange!Issue, Issued
  <2> QED
    BY <2>5 DEF Exchange!Next
<1>3. ASSUME NEW c \in Calls, TimerHandler(c) \/ OpHandler(c) \/ Kernel(c)
      PROVE  UNCHANGED Exchange!vars
  <2>1. UNCHANGED <<log, outcome>>
    BY <1>3 DEF TimerHandler, OpHandler, Kernel, Expire, Connect, Write, Read
  <2>2. Issued(c)
    BY <1>3 DEF TimerHandler, OpHandler, Kernel, Expire, Connect, Write, Read, Outstanding,
                Issued, NewCall
  <2>3. Issued(c)'
    BY <1>3, <2>2, StaysIssued
  <2>4. \A d \in Calls \ {c} : call'[d] = call[d]
    BY <1>3 DEF TimerHandler, OpHandler, Kernel, Expire, Connect, Write, Read, TypeOK
  <2>5. {d \in Calls : Issued(d)'} = {d \in Calls : Issued(d)}
    BY <2>2, <2>3, <2>4 DEF Issued
  <2> QED
    BY <2>1, <2>5 DEF Exchange!vars, Issued
<1>4. ASSUME NEW c \in Calls, Return(c)
      PROVE  Exchange!Next
  <2>1. /\ call[c].completed /\ ~Returned(c) /\ Issued(c)
        /\ outcome' = [outcome EXCEPT ![c] = call[c].result]
    BY <1>4, ReturnKeeps DEF Return
  <2>2. call[c].result \in {"response", "error"}
    BY <2>1 DEF Lives, TypeOK, CallState
  <2>3. UNCHANGED <<call, log>>
    BY <1>4 DEF Return
  <2>4. call[c].result = "response" => c \in Exchange!Handled
    <3> SUFFICES ASSUME call[c].result = "response" PROVE c \in Exchange!Handled
      OBVIOUS
    <3>1. outcome'[c] = "response"
      BY <2>1 DEF TypeOK
    <3>2. frame[c] \in Frames /\ frame[c].request.size <= Declared(frame[c].request) /\ answer[c] # "none"
      BY DEF Knows, TypeOK
    <3> QED
      BY <3>2, RequestIntact DEF Serves
  <2>5. Exchange!Return(c)
    BY <2>1, <2>2, <2>3, <2>4 DEF Exchange!Return, Returned, Issued
  <2> QED
    BY <2>5 DEF Exchange!Next
<1>5. ASSUME NEW c \in Calls, ReadBody(c)
      PROVE  Exchange!Next \/ UNCHANGED Exchange!vars
  <2>1. UNCHANGED <<call, outcome>> /\ Issued(c) /\ c \notin Exchange!Handled
    BY <1>5 DEF ReadBody, SessionIn, Lives, Serves
  <2>2. CASE Readable(frame[c].request)
    <3>1. Exchange!Handle(c)
      BY <1>5, <2>1, <2>2 DEF ReadBody, Exchange!Handle, Issued
    <3> QED
      BY <3>1 DEF Exchange!Next
  <2>3. CASE ~Readable(frame[c].request)
    BY <1>5, <2>1, <2>3 DEF ReadBody, Exchange!vars, Issued
  <2> QED
    BY <2>2, <2>3
<1>6. ASSUME NEW c \in Calls, Accept(c) \/ ReadHeader(c) \/ EndOfStream(c) \/ WriteResponse(c)
      PROVE  UNCHANGED Exchange!vars
  BY <1>6 DEF Accept, ReadHeader, EndOfStream, WriteResponse, Exchange!vars, Issued
<1>7. CASE StartServer \/ StopServer \/ DropSessions \/ UNCHANGED vars
  BY <1>7 DEF StartServer, StopServer, DropSessions, vars, Exchange!vars, Issued
<1> QED
  BY <1>2, <1>3, <1>4, <1>5, <1>6, <1>7 DEF Next, ClientStep, SessionStep

(* The calls are at-most-once, with a response only for what was handled.  *)
THEOREM CallsAtMostOnce == Spec => AtMostOnce
BY InitRefines, NextRefines, Invariance, PTL DEF Spec, AtMostOnce, Exchange!Spec

(* So no request stands in the log twice, whatever its call returned, and  *)
(* one that stands there not at all was not answered.                      *)
THEOREM HandledOnce ==
  Spec => []( /\ \A i, j \in DOMAIN log : log[i] = log[j] => i = j
              /\ \A c \in Calls : outcome[c] = "response" => \E i \in DOMAIN log : log[i] = c)
<1> DEFINE Once == \A i, j \in DOMAIN log : log[i] = log[j] => i = j
<1>1. Init => Once
  BY DEF Init
<1>2. IInv /\ Once /\ [Next]_vars => Once'
  <2> SUFFICES ASSUME IInv, Once, [Next]_vars PROVE Once'
    OBVIOUS
  <2>1. log \in Seq(Calls)
    BY DEF IInv, TypeOK
  <2>2. CASE log' = log
    BY <2>2
  <2>3. ASSUME NEW c \in Calls, Exchange!Handle(c) PROVE Once'
    BY <2>1, <2>3 DEF Exchange!Handle, Exchange!Handled
  <2>4. [Exchange!Next]_(Exchange!vars)
    BY NextRefines
  <2> QED BY <2>2, <2>3, <2>4 DEF Exchange!Next, Exchange!Issue, Exchange!Return, Exchange!vars
<1>3. IInv => \A c \in Calls : outcome[c] = "response" => \E i \in DOMAIN log : log[i] = c
  BY AnswerIntact DEF Exchange!Handled
<1> QED BY <1>1, <1>2, <1>3, Invariance, PTL DEF Spec

-----------------------------------------------------------------------------
(* No call and no session waits for what never comes.  What ENABLED means  *)
(* is out of the prover's reach, so that an action is enabled in every     *)
(* state in which its guard holds is a hypothesis, GuardsEnable.  It says  *)
(* nothing of which states are reached; that a guard holds when a call or  *)
(* a session has to go on is proved.                                       *)

(* The guards of the actions of ClientStep, and of those of SessionStep.   *)
ClientGuard(c) ==
  \/ call[c].timer \in {"fired", "cancelled"}
  \/ call[c].done \in {"ok", "failed"}
  \/ Issued(c) /\ ~Returned(c) /\ call[c].op = "none" /\ call[c].timer = "off"

SessionGuard(c) ==
  \/ SessionIn(c, "backlog")
  \/ (SessionIn(c, "header") \/ SessionIn(c, "body")) /\ toServer[c] > 0
  \/ (SessionIn(c, "header") \/ SessionIn(c, "body")) /\ toServer[c] = 0 /\ ~clientOpen[c]
  \/ SessionIn(c, "write") \/ SessionIn(c, "finish")

GuardsEnable ==
  /\ \A c \in Calls : /\ call[c].timer = "armed" => ENABLED <<Expire(c)>>_vars
                      /\ ClientGuard(c)  => ENABLED <<ClientStep(c)>>_vars
                      /\ SessionGuard(c) => ENABLED <<SessionStep(c)>>_vars
  /\ server = "stopping" => ENABLED <<DropSessions>>_vars

(* Whoever has a result has closed the socket, and what was outstanding is *)
(* aborted.                                                                *)
Settled(c) == \/ Issued(c) /\ ~call[c].completed
              \/ ~clientOpen[c] /\ (call[c].op = "none" \/ call[c].done # "no")

LEMMA CompleteSettles ==
  ASSUME NEW a \in CallState, NEW result \in {"response", "error"}, ~a.completed
  PROVE  Complete(a, result).op = "none" \/ Complete(a, result).done # "no"
<1>1. CASE a.op = "none"
  BY <1>1, CompleteIs
<1>2. CASE a.op # "none"
  <2> DEFINE done  == IF a.op # "none" /\ a.done = "no" THEN "failed" ELSE a.done
             timer == IF a.timer = "armed" THEN "cancelled" ELSE a.timer
  <2>1. Complete(a, result) = [a EXCEPT !.completed = TRUE, !.result = result,
                                        !.done = done, !.timer = timer]
    BY DEF Complete
  <2>2. done # "no"
    BY <1>2
  <2> HIDE DEF done, timer
  <2>3. Complete(a, result).done = done
    BY <2>1 DEF CallState
  <2> QED BY <2>2, <2>3
<1> QED BY <1>1, <1>2

LEMMA SettledKept ==
  ASSUME IInv, NEW c \in Calls, Settled(c), Next \/ UNCHANGED vars
  PROVE  Settled(c)'
<1> USE DEF IInv
<1>1. call[c] \in CallState
  BY DEF TypeOK
<1>2. ASSUME call'[c] = call[c], clientOpen'[c] = clientOpen[c]
      PROVE  Settled(c)'
  BY <1>2 DEF Settled, Issued
<1>3. ASSUME NEW d \in Calls, d # c,
             Issue(d) \/ TimerHandler(d) \/ OpHandler(d) \/ Kernel(d)
      PROVE  Settled(c)'
  <2>1. clientOpen'[c] = clientOpen[c]
    BY <1>3 DEF Issue, TimerHandler, OpHandler, Kernel, Expire, Connect, Write, Read, wireVars, TypeOK
  <2>2. CASE Kernel(d)
    BY <1>2, <1>3, <2>1, <2>2, KernelIs
  <2>3. CASE Issue(d) \/ TimerHandler(d) \/ OpHandler(d)
    <3>1. call'[c] = call[c]
      BY <1>3, <2>3 DEF Issue, TimerHandler, OpHandler, TypeOK
    <3> QED BY <1>2, <2>1, <3>1
  <2> QED BY <1>3, <2>2, <2>3
<1>4. CASE Issue(c)
  <2>1. ~Issued(c) /\ call[c] = NewCall /\ ~clientOpen[c]
    BY <1>4 DEF Issue, Issued, Settled
  <2>2. CASE Refused(frame[c].request)
    <3>1. call'[c] = Complete(NewCall, "error") /\ clientOpen'[c] = clientOpen[c]
      BY <1>4, <2>1, <2>2 DEF Issue, TypeOK
    <3> QED BY <2>1, <3>1, NewCallIs, CompleteSettles DEF Settled
  <2>3. CASE ~Refused(frame[c].request)
    <3>1. call'[c].op = "connect" /\ ~call'[c].completed
      BY <1>4, <2>1, <2>3 DEF Issue, TypeOK, NewCall
    <3> QED BY <3>1, NewCallIs DEF Settled, Issued
  <2> QED BY <2>2, <2>3
<1>5. CASE TimerHandler(c)
  <2> DEFINE a == [call[c] EXCEPT !.timer = "off"]
             b == IF call[c].timer = "fired" THEN Complete(a, "error") ELSE a
  <2>1. call'[c] = b /\ clientOpen'[c] = (clientOpen[c] /\ ~b.completed)
    BY <1>5 DEF TimerHandler, TypeOK
  <2>2. Issued(c)
    BY <1>5 DEF TimerHandler, Issued, NewCall
  <2>3. /\ a \in CallState /\ a.completed = call[c].completed
        /\ a.op = call[c].op /\ a.done = call[c].done
    BY <1>1 DEF CallState
  <2>4. b = a \/ b = Complete(a, "error")
    OBVIOUS
  <2>5. b.completed \in BOOLEAN
    BY <2>3, <2>4, CompleteIs DEF CallState
  <2> HIDE DEF a, b
  <2>6. CASE ~b.completed
    BY <1>5, <2>1, <2>2, <2>6, StaysIssued DEF Settled
  <2>7. CASE b.completed /\ call[c].completed
    <3>1. b = a
      BY <2>3, <2>4, <2>7, CompleteIs
    <3> QED BY <2>1, <2>3, <2>7, <3>1 DEF Settled
  <2>8. CASE b.completed /\ ~call[c].completed
    <3>1. b.op = "none" \/ b.done # "no"
      BY <2>3, <2>4, <2>8, CompleteSettles
    <3> QED BY <2>1, <2>8, <3>1 DEF Settled
  <2> QED BY <2>5, <2>6, <2>7, <2>8
<1>6. CASE OpHandler(c)
  <2>1. /\ call[c].done \in {"ok", "failed"} /\ call'[c] = Handled(c)
        /\ clientOpen'[c] = (clientOpen[c] /\ ~Handled(c).completed)
    BY <1>6 DEF OpHandler, TypeOK
  <2>2. Issued(c)
    BY <2>1 DEF Issued, NewCall
  <2>3. Handled(c).completed => Handled(c).op = "none"
    BY <2>1, HandledCases
  <2> QED BY <1>6, <2>1, <2>2, <2>3, StaysIssued DEF Settled
<1>7. CASE Kernel(c)
  <2>1. clientOpen'[c] = clientOpen[c] /\ call'[c].op = call[c].op
    BY <1>7, KernelIs DEF Kernel, Expire, Connect, Write, Read, wireVars
  <2>2. CASE Issued(c) /\ ~call[c].completed
    BY <1>7, <2>2, KernelIs, StaysIssued DEF Settled
  <2>3. CASE ~(Issued(c) /\ ~call[c].completed)
    <3>1. Expire(c)
      BY <1>7, <2>3 DEF Settled, Kernel, Connect, Write, Read, Outstanding
    <3>2. call'[c].done = call[c].done
      BY <1>1, <3>1 DEF Expire, TypeOK, CallState
    <3> QED BY <2>1, <2>3, <3>2 DEF Settled
  <2> QED BY <2>2, <2>3
<1>8. CASE \/ \E d \in Calls : Return(d) \/ SessionStep(d)
           \/ StartServer \/ StopServer \/ DropSessions \/ UNCHANGED vars
  <2>1. UNCHANGED <<call, clientOpen>>
    BY <1>8 DEF Return, SessionStep, Accept, ReadHeader, ReadBody, EndOfStream, WriteResponse,
                StartServer, StopServer, DropSessions, wireVars, vars
  <2> QED BY <1>2, <2>1
<1> QED BY <1>3, <1>4, <1>5, <1>6, <1>7, <1>8 DEF Next, ClientStep

(* A call that has not returned has a handler to run or a timer to expire, *)
(* and a session whose call has returned has a handler to run: for any     *)
(* calls and messages, whatever the server does.                           *)
THEOREM NobodyBlocked == Spec /\ []GuardsEnable => []NeverBlocked
<1> DEFINE AllSettled == \A c \in Calls : Settled(c)
<1>1. Init => AllSettled
  BY DEF Init, Settled, NewCall
<1>2. IInv /\ AllSettled /\ [Next]_vars => AllSettled'
  BY SettledKept
<1>3. ASSUME IInv, NEW c \in Calls, Settled(c), Issued(c), ~Returned(c), call[c].timer # "armed"
      PROVE  ClientGuard(c)
  <2>1. call[c].timer = "off" => call[c].completed
    BY <1>3 DEF IInv, Lives
  <2> QED BY <1>3, <2>1 DEF ClientGuard, IInv, TypeOK, CallState, Settled
<1>4. ASSUME IInv, NEW c \in Calls, Settled(c), Returned(c), server = "up",
             session[c] \notin {"none", "closed"}
      PROVE  SessionGuard(c)
  <2>1. ~clientOpen[c]
    BY <1>4 DEF IInv, Lives, Settled
  <2> QED BY <1>4, <2>1 DEF SessionGuard, SessionIn, IInv, TypeOK
<1>5. IInv /\ AllSettled /\ GuardsEnable => NeverBlocked
  BY <1>3, <1>4 DEF GuardsEnable, NeverBlocked
<1> QED BY <1>1, <1>2, <1>5, Invariance, PTL DEF Spec

-----------------------------------------------------------------------------
(* Every call returns.  Its timer expires unless it is cancelled; from then *)
(* on the handlers that are left become fewer with every one that runs, and *)
(* no step of the kernel, of the server or of another call adds one.       *)

OpsLeft == [none |-> 0, body |-> 1, header |-> 2, write |-> 3, connect |-> 4]

HandlersLeft(a) == OpsLeft[a.op] + IF a.timer = "off" THEN 0 ELSE 1

(* The call has returned, or does so after at most n more handlers. *)
Ending(c, n) == \/ Returned(c)
                \/ Issued(c) /\ call[c].timer # "armed" /\ HandlersLeft(call[c]) <= n

LEMMA OpsLeftIs ==
  /\ OpsLeft["none"] = 0 /\ OpsLeft["body"] = 1 /\ OpsLeft["header"] = 2
  /\ OpsLeft["write"] = 3 /\ OpsLeft["connect"] = 4
BY DEF OpsLeft

LEMMA HandlersLeftType == \A a \in CallState : HandlersLeft(a) \in 0 .. 5
BY OpsLeftIs DEF HandlersLeft, CallState

(* What the others leave of a call. *)
LEMMA OthersKeepCall ==
  ASSUME IInv, NEW c \in Calls, Issued(c), Next \/ UNCHANGED vars
  PROVE  /\ Issued(c)' /\ (Returned(c) => Returned(c)')
         /\ \/ ClientStep(c)
            \/ Expire(c)
            \/ call'[c].op = call[c].op /\ call'[c].timer = call[c].timer
<1> USE DEF IInv
<1>1. CASE \E d \in Calls : Issue(d)
  BY <1>1 DEF Issue, Issued, Returned, TypeOK
<1>2. ASSUME NEW d \in Calls, ClientStep(d)
      PROVE  /\ Issued(c)' /\ (Returned(c) => Returned(c)')
             /\ ClientStep(c) \/ call'[c] = call[c]
  <2>1. CASE TimerHandler(d) \/ OpHandler(d)
    <3>1. d # c => call'[c] = call[c]
      BY <2>1 DEF TimerHandler, OpHandler, TypeOK
    <3>2. outcome' = outcome
      BY <2>1 DEF TimerHandler, OpHandler
    <3> QED BY <1>2, <2>1, <3>1, <3>2, StaysIssued DEF Issued, Returned
  <2>2. CASE Return(d)
    <3>1. call' = call
      BY <2>2 DEF Return
    <3>2. outcome' = [outcome EXCEPT ![d] = call[d].result] /\ call[d].completed
      BY <2>2, ReturnKeeps
    <3>3. call[d].result # "none"
      BY <3>2 DEF Lives
    <3>4. Returned(c) => Returned(c)'
      BY <3>2, <3>3 DEF Returned, TypeOK
    <3> QED BY <3>1, <3>4 DEF Issued
  <2> QED BY <1>2, <2>1, <2>2 DEF ClientStep
<1>3. ASSUME NEW d \in Calls, Kernel(d)
      PROVE  /\ Issued(c)' /\ (Returned(c) => Returned(c)')
             /\ Expire(c) \/ (call'[c].op = call[c].op /\ call'[c].timer = call[c].timer)
  <2>1. outcome' = outcome
    BY <1>3 DEF Kernel, Expire, Connect, Write, Read
  <2>2. d # c => call'[c] = call[c]
    BY <1>3, KernelIs
  <2>3. d = c => /\ Issued(c)' /\ call'[c].op = call[c].op
                 /\ Expire(c) \/ call'[c].timer = call[c].timer
    BY <1>3, KernelIs, StaysIssued
  <2>4. CASE d = c
    BY <2>1, <2>3, <2>4 DEF Returned
  <2>5. CASE d # c
    BY <2>1, <2>2, <2>5 DEF Issued, Returned
  <2> QED BY <2>4, <2>5
<1>4. CASE \E d \in Calls : SessionStep(d)
  BY <1>4 DEF SessionStep, Accept, ReadHeader, ReadBody, EndOfStream, WriteResponse, Issued, Returned
<1>5. CASE StartServer \/ StopServer \/ DropSessions \/ UNCHANGED vars
  BY <1>5 DEF StartServer, StopServer, DropSessions, vars, Issued, Returned
<1> QED BY <1>1, <1>2, <1>3, <1>4, <1>5 DEF Next

(* Each handler leaves one fewer, once the timer is out of the way. *)
LEMMA HandlerMoves ==
  ASSUME IInv, NEW c \in Calls, ClientStep(c), call[c].timer # "armed"
  PROVE  \/ Returned(c)'
         \/ call'[c].timer # "armed" /\ HandlersLeft(call'[c]) <= HandlersLeft(call[c]) - 1
<1> USE DEF IInv
<1>1. call[c] \in CallState /\ call[c].op \in {"none", "connect", "write", "header", "body"}
  BY DEF TypeOK, CallState
<1>2. CASE TimerHandler(c)
  <2> DEFINE a == [call[c] EXCEPT !.timer = "off"]
  <2>1. a \in CallState /\ a.timer = "off" /\ a.op = call[c].op
    BY <1>1 DEF CallState
  <2>2. call'[c] = a \/ call'[c] = Complete(a, "error")
    BY <1>2 DEF TimerHandler, TypeOK
  <2> HIDE DEF a
  <2>3. call'[c].timer = "off" /\ call'[c].op = call[c].op
    BY <2>1, <2>2, CompleteIs
  <2>4. call[c].timer # "off"
    BY <1>2 DEF TimerHandler
  <2> QED BY <1>1, <2>3, <2>4, OpsLeftIs DEF HandlersLeft
<1>3. CASE OpHandler(c)
  <2>1. call'[c] = Handled(c) /\ call[c].done \in {"ok", "failed"}
    BY <1>3 DEF OpHandler, TypeOK
  <2>2. call[c].op # "none"
    BY <2>1 DEF Lives
  <2>3. NextOp["connect"] = "write" /\ NextOp["write"] = "header" /\ NextOp["header"] = "body"
    BY DEF NextOp
  <2>4. /\ call'[c].timer = call[c].timer
        /\ OpsLeft[call'[c].op] <= OpsLeft[call[c].op] - 1
        /\ OpsLeft[call'[c].op] \in 0 .. 4
    BY <1>1, <2>1, <2>2, <2>3, HandledCases, OpsLeftIs
  <2> QED BY <1>1, <2>4, OpsLeftIs DEF HandlersLeft
<1>4. CASE Return(c)
  <2>1. outcome' = [outcome EXCEPT ![c] = call[c].result] /\ call[c].completed
    BY <1>4, ReturnKeeps
  <2>2. outcome'[c] # "none"
    BY <2>1 DEF Lives, TypeOK
  <2> QED BY <2>2 DEF Returned
<1> QED BY <1>2, <1>3, <1>4 DEF ClientStep

LEMMA TimerEnds ==
  ASSUME NEW c \in Calls
  PROVE  Spec /\ []NeverBlocked => (Issued(c) ~> Ending(c, 5))
<1> DEFINE Expires == Issued(c) /\ ~Returned(c) /\ call[c].timer = "armed"
                        => ENABLED <<Expire(c)>>_vars
<1>1. NeverBlocked => Expires
  BY DEF NeverBlocked
<1>2. IInv /\ Issued(c) /\ ~Ending(c, 5) => ~Returned(c) /\ call[c].timer = "armed"
  BY HandlersLeftType DEF IInv, TypeOK, Ending
<1>3. IInv /\ Issued(c) /\ [Next]_vars => Issued(c)'
  BY OthersKeepCall
<1>4. IInv /\ Issued(c) /\ <<Expire(c)>>_vars => Ending(c, 5)'
  <2> SUFFICES ASSUME IInv, Issued(c), Expire(c) PROVE Ending(c, 5)'
    OBVIOUS
  <2>1. Next
    BY DEF Next, Kernel
  <2>2. Issued(c)' /\ call'[c] \in CallState
    BY <2>1, NextKeeps, OthersKeepCall DEF IInv, TypeOK
  <2>3. call'[c].timer = "fired"
    BY DEF Expire, IInv, TypeOK, CallState
  <2>4. HandlersLeft(call'[c]) <= 5
    BY <2>2, HandlersLeftType
  <2> QED BY <2>2, <2>3, <2>4 DEF Ending
<1>5. Spec => Fair(c)
  BY DEF Spec
<1> QED BY <1>1, <1>2, <1>3, <1>4, <1>5, Invariance, PTL DEF Spec, Fair, Expires

Ends(c, n, m) == Spec /\ []NeverBlocked => (Ending(c, n) ~> Ending(c, m))

LEMMA HandlersMoveOn ==
  ASSUME NEW c \in Calls, NEW n \in 1 .. 5, NEW m \in 0 .. 4, n = m + 1
  PROVE  Ends(c, n, m)
<1> DEFINE Runs == Issued(c) /\ ~Returned(c) /\ call[c].timer # "armed"
                     => ENABLED <<ClientStep(c)>>_vars
<1>1. NeverBlocked => Runs
  BY DEF NeverBlocked
<1>2. IInv /\ Ending(c, n) /\ ~Ending(c, m)
        => /\ Issued(c) /\ ~Returned(c) /\ call[c].timer # "armed"
           /\ HandlersLeft(call[c]) = n
  BY HandlersLeftType DEF IInv, TypeOK, Ending
<1>3. IInv /\ Ending(c, n) /\ ~Ending(c, m) /\ ClientStep(c) => Ending(c, m)'
  <2> SUFFICES ASSUME IInv, Ending(c, n), ~Ending(c, m), ClientStep(c) PROVE Ending(c, m)'
    OBVIOUS
  <2>1. Next
    BY DEF Next
  <2>2. Issued(c)' /\ call'[c] \in CallState
    BY <1>2, <2>1, NextKeeps, OthersKeepCall DEF IInv, TypeOK
  <2>3. \/ Returned(c)'
        \/ call'[c].timer # "armed" /\ HandlersLeft(call'[c]) <= n - 1
    BY <1>2, HandlerMoves
  <2> QED BY <2>2, <2>3 DEF Ending
<1>4. IInv /\ Ending(c, n) /\ ~Ending(c, m) /\ [Next]_vars => (Ending(c, n) \/ Ending(c, m))'
  <2> SUFFICES ASSUME IInv, Ending(c, n), ~Ending(c, m), Next \/ UNCHANGED vars, ~ClientStep(c)
               PROVE  Ending(c, n)'
    BY <1>3
  <2>1. ~Expire(c)
    BY <1>2 DEF Expire
  <2>2. Issued(c)' /\ call'[c].op = call[c].op /\ call'[c].timer = call[c].timer
    BY <1>2, <2>1, OthersKeepCall
  <2> QED BY <1>2, <2>2 DEF Ending, HandlersLeft
<1>5. Spec => Fair(c)
  BY DEF Spec
<1> QED BY <1>1, <1>2, <1>3, <1>4, <1>5, Invariance, PTL DEF Spec, Fair, Runs, Ends

LEMMA LastStep ==
  ASSUME NEW c \in Calls
  PROVE  Spec /\ []NeverBlocked => (Ending(c, 0) ~> Returned(c))
<1> DEFINE Runs == Issued(c) /\ ~Returned(c) /\ call[c].timer # "armed"
                     => ENABLED <<ClientStep(c)>>_vars
<1>1. NeverBlocked => Runs
  BY DEF NeverBlocked
<1>2. IInv /\ Ending(c, 0) /\ ~Returned(c)
        => /\ Issued(c) /\ call[c].timer # "armed" /\ call[c] \in CallState
           /\ HandlersLeft(call[c]) = 0
  BY HandlersLeftType DEF IInv, TypeOK, Ending
<1>3. IInv /\ Ending(c, 0) /\ ~Returned(c) /\ ClientStep(c) => Returned(c)'
  <2> SUFFICES ASSUME IInv, Ending(c, 0), ~Returned(c), ClientStep(c), ~Returned(c)'
               PROVE  FALSE
    OBVIOUS
  <2>1. Next
    BY DEF Next
  <2>2. call'[c] \in CallState
    BY <2>1, NextKeeps DEF IInv, TypeOK
  <2>3. HandlersLeft(call'[c]) <= 0 - 1
    BY <1>2, HandlerMoves
  <2> QED BY <2>2, <2>3, HandlersLeftType
<1>4. IInv /\ Ending(c, 0) /\ ~Returned(c) /\ [Next]_vars => (Ending(c, 0) \/ Returned(c))'
  <2> SUFFICES ASSUME IInv, Ending(c, 0), ~Returned(c), Next \/ UNCHANGED vars, ~ClientStep(c)
               PROVE  Ending(c, 0)'
    BY <1>3
  <2>1. ~Expire(c)
    BY <1>2 DEF Expire
  <2>2. Issued(c)' /\ call'[c].op = call[c].op /\ call'[c].timer = call[c].timer
    BY <1>2, <2>1, OthersKeepCall
  <2> QED BY <1>2, <2>2 DEF Ending, HandlersLeft
<1>5. Spec => Fair(c)
  BY DEF Spec
<1> QED BY <1>1, <1>2, <1>3, <1>4, <1>5, Invariance, PTL DEF Spec, Fair, Runs

LEMMA ReturnsUnlessBlocked == Spec /\ []NeverBlocked => CallReturns
<1>1. ASSUME NEW c \in Calls
      PROVE  Spec /\ []NeverBlocked => (Issued(c) ~> Returned(c))
  <2>5. Ends(c, 5, 4) BY HandlersMoveOn
  <2>4. Ends(c, 4, 3) BY HandlersMoveOn
  <2>3. Ends(c, 3, 2) BY HandlersMoveOn
  <2>2. Ends(c, 2, 1) BY HandlersMoveOn
  <2>1. Ends(c, 1, 0) BY HandlersMoveOn
  <2> QED BY <2>1, <2>2, <2>3, <2>4, <2>5, TimerEnds, LastStep, PTL DEF Ends
<1> QED BY <1>1 DEF CallReturns

(* Every call returns, for any number of calls, whatever the messages and  *)
(* whatever the server does.                                               *)
THEOREM CallsReturn == Spec /\ []GuardsEnable => CallReturns
BY NobodyBlocked, ReturnsUnlessBlocked, PTL

-----------------------------------------------------------------------------
(* Every session ends.  Its client closes the socket when the call returns; *)
(* the handlers that are then left become fewer, unless the server stops   *)
(* first and its process closes the session.                               *)

StepsToClose == [none |-> 0, backlog |-> 5, header |-> 4, body |-> 3, write |-> 2,
                 finish |-> 1, closed |-> 0]

(* The session is closed, or will be after at most n more handlers, or by  *)
(* the process that is about to end.                                       *)
Closing(c, n) ==
  \/ session[c] = "closed"
  \/ /\ Returned(c) /\ session[c] # "none"
     /\ server = "stopping" \/ (server = "up" /\ StepsToClose[session[c]] <= n)

(* Without a server there is no session. *)
DownIsEmpty == server = "down" => \A c \in Calls : session[c] \in {"none", "closed"}

LEMMA StepsToCloseIs ==
  /\ StepsToClose["none"] = 0 /\ StepsToClose["backlog"] = 5 /\ StepsToClose["header"] = 4
  /\ StepsToClose["body"] = 3 /\ StepsToClose["write"] = 2 /\ StepsToClose["finish"] = 1
  /\ StepsToClose["closed"] = 0
BY DEF StepsToClose

(* A handler of the session leaves one fewer. *)
LEMMA SessionStepMoves ==
  ASSUME TypeOK, NEW c \in Calls, SessionStep(c)
  PROVE  /\ session'[c] # "none" /\ session[c] \notin {"none", "closed"}
         /\ server = "up" /\ UNCHANGED <<server, outcome>>
         /\ StepsToClose[session'[c]] <= StepsToClose[session[c]] - 1
         /\ \A d \in Calls \ {c} : session'[d] = session[d]
<1> USE StepsToCloseIs DEF TypeOK, SessionIn
<1>1. CASE Accept(c)
  BY <1>1 DEF Accept
<1>2. CASE ReadHeader(c)
  BY <1>2 DEF ReadHeader
<1>3. CASE ReadBody(c)
  BY <1>3 DEF ReadBody
<1>4. CASE EndOfStream(c)
  BY <1>4 DEF EndOfStream
<1>5. CASE WriteResponse(c)
  BY <1>5 DEF WriteResponse
<1> QED BY <1>1, <1>2, <1>3, <1>4, <1>5 DEF SessionStep

(* What a step may do to the session of a call, and to the server. *)
LEMMA OthersKeepSession ==
  ASSUME IInv, NEW c \in Calls, Next \/ UNCHANGED vars
  PROVE  \/ SessionStep(c)
         \/ /\ session[c] = "none" /\ server' = server
            /\ session'[c] \in {"none", IF server = "up" THEN "backlog" ELSE "none"}
         \/ /\ session'[c] = session[c]
            /\ \/ server' = server
               \/ server = "down" /\ server' = "up"
               \/ server = "up" /\ server' = "stopping"
         \/ DropSessions
<1> USE DEF IInv
<1>1. ASSUME NEW d \in Calls, Issue(d) \/ ClientStep(d)
      PROVE  UNCHANGED <<session, server>>
  BY <1>1 DEF Issue, ClientStep, TimerHandler, OpHandler, Return
<1>2. ASSUME NEW d \in Calls, Expire(d) \/ Write(d) \/ Read(d)
      PROVE  UNCHANGED <<session, server>>
  BY <1>2 DEF Expire, Write, Read
<1>3. ASSUME NEW d \in Calls, Connect(d)
      PROVE  /\ server' = server
             /\ d = c => /\ session[c] = "none"
                         /\ session'[c] \in {"none", IF server = "up" THEN "backlog" ELSE "none"}
             /\ d # c => session'[c] = session[c]
  BY <1>3 DEF Connect, Outstanding, Lives, TypeOK
<1>4. ASSUME NEW d \in Calls, d # c, SessionStep(d)
      PROVE  session'[c] = session[c] /\ server' = server
  BY <1>4, SessionStepMoves
<1>5. CASE StartServer \/ StopServer \/ UNCHANGED vars
  BY <1>5 DEF StartServer, StopServer, vars
<1> QED BY <1>1, <1>2, <1>3, <1>4, <1>5 DEF Next, Kernel

LEMMA DownStaysEmpty == Spec => []DownIsEmpty
<1>1. Init => DownIsEmpty
  BY DEF Init, DownIsEmpty
<1>2. IInv /\ DownIsEmpty /\ [Next]_vars => DownIsEmpty'
  <2> SUFFICES ASSUME IInv, DownIsEmpty, [Next]_vars, server' = "down", NEW c \in Calls
               PROVE  session'[c] \in {"none", "closed"}
    BY DEF DownIsEmpty
  <2>1. CASE SessionStep(c)
    BY <2>1, SessionStepMoves DEF IInv
  <2>2. CASE DropSessions
    BY <2>2 DEF DropSessions
  <2> QED BY <2>1, <2>2, OthersKeepSession DEF DownIsEmpty
<1> QED BY <1>1, <1>2, Invariance, PTL DEF Spec

(* Nothing takes a session back, or reopens it. *)
LEMMA ClosingKept ==
  ASSUME IInv, NEW c \in Calls, NEW n \in 0 .. 5, Closing(c, n), Next \/ UNCHANGED vars
  PROVE  /\ Closing(c, n)'
         /\ session[c] = "closed" => session'[c] = "closed"
         /\ SessionStep(c) /\ n > 0 => Closing(c, n - 1)'
         /\ DropSessions => session'[c] = "closed"
<1> USE DEF IInv
<1>1. session[c] # "none" /\ Issued(c)
  BY DEF Closing, Lives
<1>2. Returned(c) => Returned(c)'
  BY <1>1, OthersKeepCall
<1>3. session[c] \in {"none", "backlog", "header", "body", "write", "finish", "closed"}
  BY DEF TypeOK
<1>4. CASE DropSessions
  BY <1>1, <1>4 DEF DropSessions, Closing
<1>5. CASE SessionStep(c)
  <2>1. /\ session'[c] # "none" /\ session[c] \notin {"none", "closed"}
        /\ server = "up" /\ UNCHANGED <<server, outcome>>
        /\ StepsToClose[session'[c]] <= StepsToClose[session[c]] - 1
    BY <1>5, SessionStepMoves
  <2>2. Returned(c)' /\ StepsToClose[session[c]] <= n /\ server' = "up"
    BY <1>2, <2>1 DEF Closing
  <2>3. session'[c] \in {"backlog", "header", "body", "write", "finish", "closed"}
    BY <2>1, NextKeeps DEF TypeOK
  <2>4. StepsToClose[session'[c]] \in 0 .. 5 /\ StepsToClose[session[c]] \in 0 .. 5
    BY <1>3, <2>3, StepsToCloseIs
  <2>5. StepsToClose[session'[c]] <= n - 1 /\ ~DropSessions
    BY <2>1, <2>2, <2>4 DEF DropSessions
  <2> QED BY <2>1, <2>2, <2>4, <2>5 DEF Closing
<1>6. CASE ~DropSessions /\ ~SessionStep(c)
  <2>1. /\ session'[c] = session[c]
        /\ \/ server' = server
           \/ server = "down" /\ server' = "up"
           \/ server = "up" /\ server' = "stopping"
    BY <1>1, <1>6, OthersKeepSession
  <2> QED BY <1>2, <1>6, <2>1 DEF Closing
<1> QED BY <1>4, <1>5, <1>6

(* When its call has returned, a session is closed or about to be. *)
LEMMA ClosingBegins ==
  ASSUME IInv, DownIsEmpty, NEW c \in Calls, Returned(c), session[c] # "none"
  PROVE  Closing(c, 5)
<1>1. session[c] \in {"backlog", "header", "body", "write", "finish", "closed"}
  BY DEF IInv, TypeOK
<1>2. server \in {"down", "up", "stopping"}
  BY DEF IInv, TypeOK
<1> QED BY <1>1, <1>2, StepsToCloseIs DEF Closing, DownIsEmpty

(* A session that waits for its call: it is there until that returns. *)
LEMMA ReturnFirst ==
  ASSUME NEW c \in Calls
  PROVE  Spec /\ []NeverBlocked => (session[c] # "none" ~> Closing(c, 5))
<1> DEFINE There == session[c] # "none"
<1>1. IInv /\ There => Issued(c)
  BY DEF IInv, Lives
<1>2. IInv /\ There /\ [Next]_vars => There'
  BY OthersKeepSession, SessionStepMoves DEF IInv, DropSessions, TypeOK
<1>3. IInv /\ DownIsEmpty /\ There /\ Returned(c) => Closing(c, 5)
  BY ClosingBegins
<1>4. Spec /\ []NeverBlocked => (Issued(c) ~> Returned(c))
  BY ReturnsUnlessBlocked DEF CallReturns
<1> QED BY <1>1, <1>2, <1>3, <1>4, Invariance, DownStaysEmpty, PTL DEF Spec

Closes(c, n, m) == Spec /\ []NeverBlocked /\ SessionFair(c) => (Closing(c, n) ~> Closing(c, m))

LEMMA SessionMovesOn ==
  ASSUME NEW c \in Calls, NEW n \in 1 .. 5, NEW m \in 0 .. 4, n = m + 1
  PROVE  Closes(c, n, m)
<1> DEFINE Runs == Returned(c) /\ server = "up" /\ session[c] \notin {"none", "closed"}
                     => ENABLED <<SessionStep(c)>>_vars
<1>1. NeverBlocked => Runs
  BY DEF NeverBlocked
<1>2. IInv /\ Closing(c, n) /\ ~Closing(c, m)
        => Returned(c) /\ server = "up" /\ session[c] \notin {"none", "closed"}
  BY DEF Closing
<1>3. IInv /\ Closing(c, n) /\ [Next]_vars => Closing(c, n)'
  BY ClosingKept
<1>4. IInv /\ Closing(c, n) /\ <<SessionStep(c)>>_vars => Closing(c, m)'
  BY ClosingKept DEF Next
<1> QED BY <1>1, <1>2, <1>3, <1>4, Invariance, PTL DEF Spec, SessionFair, Runs, Closes

LEMMA DropEnds ==
  ASSUME NEW c \in Calls
  PROVE  Spec /\ []NeverBlocked /\ SessionFair(c) => (Closing(c, 0) ~> session[c] = "closed")
<1> DEFINE Closed == session[c] = "closed"
           Runs   == server = "stopping" => ENABLED <<DropSessions>>_vars
<1>1. NeverBlocked => Runs
  BY DEF NeverBlocked
<1>2. IInv /\ Closing(c, 0) /\ ~Closed => server = "stopping"
  <2>1. session[c] \notin {"none", "closed"} /\ TypeOK => ~(StepsToClose[session[c]] <= 0)
    BY StepsToCloseIs DEF TypeOK
  <2> QED BY <2>1 DEF Closing, IInv
<1>3. IInv /\ Closing(c, 0) /\ [Next]_vars => Closing(c, 0)'
  BY ClosingKept
<1>4. IInv /\ Closing(c, 0) /\ <<DropSessions>>_vars => Closed'
  BY ClosingKept DEF Next
<1> QED BY <1>1, <1>2, <1>3, <1>4, Invariance, PTL DEF Spec, SessionFair, Runs

LEMMA SessionEndsUnlessBlocked == Spec /\ []NeverBlocked => SessionEnds
<1>1. ASSUME NEW c \in Calls
      PROVE  Spec /\ []NeverBlocked
               => (SessionFair(c) => (session[c] # "none" ~> session[c] = "closed"))
  <2>5. Closes(c, 5, 4) BY SessionMovesOn
  <2>4. Closes(c, 4, 3) BY SessionMovesOn
  <2>3. Closes(c, 3, 2) BY SessionMovesOn
  <2>2. Closes(c, 2, 1) BY SessionMovesOn
  <2>1. Closes(c, 1, 0) BY SessionMovesOn
  <2> QED BY <2>1, <2>2, <2>3, <2>4, <2>5, ReturnFirst, DropEnds, PTL DEF Closes
<1> QED BY <1>1 DEF SessionEnds

(* Every session is closed, for any number of calls that share the I/O     *)
(* thread, and however often the server stops and starts.                  *)
THEOREM SessionsEnd == Spec /\ []GuardsEnable => SessionEnds
BY NobodyBlocked, SessionEndsUnlessBlocked, PTL
===============================================================================
