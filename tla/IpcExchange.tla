---------------------------- MODULE IpcExchange -----------------------------
(***************************************************************************)
(* Calls of IpcClient::request and the sessions that serve them.           *)
(*                                                                         *)
(* Every call has an io_context, a socket and a timer of its own: one      *)
(* asynchronous operation and the timer are outstanding at a time, and the *)
(* completion of either may be queued while a handler of the other runs.   *)
(* The sessions of all calls run on the one I/O thread of the server, so   *)
(* each of their handlers is a step.                                       *)
(*                                                                         *)
(* A message travels in two parts, its header and its body; the bytes of   *)
(* a part are in the socket or not.  External to src: what the kernel's    *)
(* sockets and asio do (the operations complete, are aborted by close()    *)
(* and see the end of the stream once the peer has closed).                *)
(***************************************************************************)
EXTENDS IpcProtocol, Sequences

CONSTANTS Calls,       \* the calls of request(), by every client
          After,       \* pairs <<d, c>>: d is made only after c has returned
          Frames       \* what a call may send, and what may be answered to it

Message == [size : Nat, header : Header, parses : BOOLEAN]

(* Both ends send what makeFrame makes of a body; another program on the   *)
(* socket may send other headers, and a body that does not parse.          *)
Declared(m)   == DecodeLength(m.header)
Framed(m)     == m.header = FrameHeader(m.size)
Refused(m)    == Framed(m) /\ MakeFrameThrows(m.size)
Whole(m)      == Declared(m) = m.size
Readable(m)   == Whole(m) /\ m.parses   \* no part of a JSON object is one

(* The client is this one, or a program that declares an invalid size.     *)
ASSUME FramesAssumption ==
  /\ Frames \subseteq [request : Message, response : Message]
  /\ \A f \in Frames : /\ f.request.parses
                       /\ Framed(f.request) \/ ~IsValidMessageSize(Declared(f.request))

VARIABLES
  call,        \* the local state of each call, see NewCall
  outcome,     \* what it returned: "none", "response", "error" or "incomplete"
  toServer,    \* parts of the request in the socket, not yet read
  toClient,    \* parts of the response in the socket, not yet read
  frame,       \* the request and the response of each call, see Init
  clientOpen,  \* the client has not closed its socket
  answer,      \* the response of each session: "none", "payload" or "error"
  session,     \* the server's end: "none", "backlog", "header", "body", "write", "finish" or "closed"
  server,      \* "down", "up", or "stopping" after io_.stop()
  log          \* the calls whose request handleRequest has handled, in order

wireVars == <<toServer, toClient, frame, clientOpen, answer>>
vars     == <<call, outcome, wireVars, session, server, log>>

(* op is the operation that is outstanding and done is how it stands;      *)
(* timer is that of the timer: "armed", "fired" or "cancelled" (its        *)
(* handler is queued with or without an error) or "off".                   *)
NewCall == [op |-> "none", done |-> "no", timer |-> "off", sent |-> 0,
            completed |-> FALSE, result |-> "none"]

Init == /\ call = [c \in Calls |-> NewCall]
        /\ outcome = [c \in Calls |-> "none"]
        /\ toServer = [c \in Calls |-> 0]
        /\ toClient = [c \in Calls |-> 0]
        /\ frame \in [Calls -> Frames]
        /\ answer = [c \in Calls |-> "none"]
        /\ clientOpen = [c \in Calls |-> FALSE]
        /\ session = [c \in Calls |-> "none"]
        /\ server = "down"
        /\ log = << >>

Issued(c)   == call[c] # NewCall
Returned(c) == outcome[c] # "none"

-----------------------------------------------------------------------------
(* The client: one action for each handler that io.run() calls.            *)

(* A mistaken completion, which does not ask whether there is one already. *)
CompleteAgain(a, result) ==
  [a EXCEPT !.completed = TRUE,
            !.result    = result,
            !.done      = IF a.op # "none" /\ a.done = "no" THEN "failed" ELSE @,
            !.timer     = IF @ = "armed" THEN "cancelled" ELSE @]

(* A mistaken completion, which does not close the socket. *)
CompleteUnclosed(a, result) ==
  IF a.completed THEN a
  ELSE [a EXCEPT !.completed = TRUE,
                 !.result    = result,
                 !.timer     = IF @ = "armed" THEN "cancelled" ELSE @]

(* completeWithError and completeWithResponse on the state a of a call:    *)
(* close() aborts an outstanding operation, and cancel() a timer whose     *)
(* handler is not queued yet.                                              *)
Complete(a, result) ==
  IF a.completed THEN a
  ELSE [a EXCEPT !.completed = TRUE,
                 !.result    = result,
                 !.done      = IF a.op # "none" /\ a.done = "no" THEN "failed" ELSE @,
                 !.timer     = IF @ = "armed" THEN "cancelled" ELSE @]

(* A mistaken start, without the timer. *)
IssueWithoutTimer(c) ==
  /\ ~Issued(c)
  /\ \A b \in Calls : <<c, b>> \in After => Returned(b)
  /\ call' = [call EXCEPT ![c].op = "connect"]
  /\ clientOpen' = [clientOpen EXCEPT ![c] = TRUE]
  /\ UNCHANGED <<outcome, toServer, toClient, frame, answer, session, server, log>>

(* makeFrame throws or not; then the timer is set and the connect started, *)
(* before io.run().                                                        *)
Issue(c) ==
  /\ ~Issued(c)
  /\ \A b \in Calls : <<c, b>> \in After => Returned(b)
  /\ \/ /\ Refused(frame[c].request)
        /\ call' = [call EXCEPT ![c] = Complete(@, "error")]
        /\ UNCHANGED clientOpen
     \/ /\ ~Refused(frame[c].request)
        /\ call' = [call EXCEPT ![c].op = "connect", ![c].timer = "armed"]
        /\ clientOpen' = [clientOpen EXCEPT ![c] = TRUE]
  /\ UNCHANGED <<outcome, toServer, toClient, frame, answer, session, server, log>>

(* The handler of the timer. *)
TimerHandler(c) ==
  /\ call[c].timer \in {"fired", "cancelled"}
  /\ LET a == [call[c] EXCEPT !.timer = "off"]
         b == IF call[c].timer = "fired" THEN Complete(a, "error") ELSE a
     IN  /\ call' = [call EXCEPT ![c] = b]
         /\ clientOpen' = [clientOpen EXCEPT ![c] = @ /\ ~b.completed]
  /\ UNCHANGED <<outcome, toServer, toClient, frame, answer, session, server, log>>

(* What the two read handlers make of the response; an error in place of   *)
(* the handler's answer is short and parses.                               *)
InvalidSize(c) == answer[c] = "payload" /\ ~IsValidMessageSize(Declared(frame[c].response))

(* A mistaken end of the exchange, which does not parse the body. *)
ResultUnparsed(c) == "response"

Result(c) == IF answer[c] = "payload" /\ ~Readable(frame[c].response)
             THEN "error" ELSE "response"

NextOp == [connect |-> "write", write |-> "header", header |-> "body"]

(* Mistaken handlers: the first only cancels the timer on an error, the    *)
(* second takes the written request for answered.                          *)
HandledSilently(c) ==
  LET a == [call[c] EXCEPT !.op = "none", !.done = "no"]
  IN  CASE a.completed               -> a
        [] call[c].done = "failed"   -> [a EXCEPT !.timer = IF @ = "armed" THEN "cancelled" ELSE @]
        [] call[c].done = "ok" /\ call[c].op = "body" -> Complete(a, Result(c))
        [] OTHER                     -> [a EXCEPT !.op = NextOp[call[c].op]]

HandledOnWrite(c) ==
  LET a == [call[c] EXCEPT !.op = "none", !.done = "no"]
  IN  CASE a.completed                                -> a
        [] ~a.completed /\ call[c].done = "failed"    -> Complete(a, "error")
        [] ~a.completed /\ call[c].op = "write"       -> Complete(a, "response")
        [] OTHER                                      -> [a EXCEPT !.op = NextOp[call[c].op]]

(* The state of call c after the handler of its operation. *)
Handled(c) ==
  LET a == [call[c] EXCEPT !.op = "none", !.done = "no"]
  IN  CASE a.completed                                  -> a
        [] ~a.completed /\ call[c].done = "failed"      -> Complete(a, "error")
        [] ~a.completed /\ call[c].done = "ok" /\ call[c].op = "header"
             /\ InvalidSize(c)                           -> Complete(a, "error")
        [] ~a.completed /\ call[c].done = "ok" /\ call[c].op = "body"
                                                        -> Complete(a, Result(c))
        [] OTHER                                        -> [a EXCEPT !.op = NextOp[call[c].op]]

(* The handler of the connect, the write or one of the two reads. *)
OpHandler(c) ==
  /\ call[c].done \in {"ok", "failed"}
  /\ call' = [call EXCEPT ![c] = Handled(c)]
  /\ clientOpen' = [clientOpen EXCEPT ![c] = @ /\ ~Handled(c).completed]
  /\ UNCHANGED <<outcome, toServer, toClient, frame, answer, session, server, log>>

(* io.run() returns when neither operation nor timer is left. *)
Return(c) ==
  /\ Issued(c) /\ ~Returned(c)
  /\ call[c].op = "none" /\ call[c].timer = "off"
  /\ outcome' = [outcome EXCEPT ![c] = IF call[c].result = "none" THEN "incomplete"
                                       ELSE call[c].result]
  /\ UNCHANGED <<call, wireVars, session, server, log>>

ClientStep(c) == TimerHandler(c) \/ OpHandler(c) \/ Return(c)

-----------------------------------------------------------------------------
(* The kernel, on behalf of the client (external).                         *)

Expire(c) ==
  /\ call[c].timer = "armed"
  /\ call' = [call EXCEPT ![c].timer = "fired"]
  /\ UNCHANGED <<outcome, wireVars, session, server, log>>

Outstanding(c, op) == call[c].op = op /\ call[c].done = "no"

Connect(c) ==
  /\ Outstanding(c, "connect")
  /\ call' = [call EXCEPT ![c].done = IF server = "up" THEN "ok" ELSE "failed"]
  /\ session' = [session EXCEPT ![c] = IF server = "up" THEN "backlog" ELSE @]
  /\ UNCHANGED <<outcome, wireVars, server, log>>

(* A write may stop after the header and go on later.  What exceeds the    *)
(* declared size stays unread, and does not fit into the socket's buffer.  *)
Write(c) ==
  /\ Outstanding(c, "write")
  /\ \/ /\ session[c] = "closed"
        /\ call' = [call EXCEPT ![c].done = "failed"]
        /\ UNCHANGED toServer
     \/ /\ session[c] # "closed" /\ call[c].sent < 2
        /\ LET whole == call[c].sent = 1 /\ frame[c].request.size <= Declared(frame[c].request)
           IN  call' = [call EXCEPT ![c] = [call[c] EXCEPT !.sent = @ + 1,
                                                           !.done = IF whole THEN "ok" ELSE "no"]]
        /\ toServer' = [toServer EXCEPT ![c] = @ + 1]
  /\ UNCHANGED <<outcome, toClient, frame, clientOpen, answer, session, server, log>>

(* A response that was written can be read after the server has closed. *)
Read(c) ==
  /\ Outstanding(c, "header") \/ Outstanding(c, "body")
  /\ \/ /\ toClient[c] > 0
        /\ call' = [call EXCEPT ![c].done = "ok"]
        /\ toClient' = [toClient EXCEPT ![c] = @ - 1]
     \/ /\ toClient[c] = 0 /\ session[c] = "closed"
        /\ call' = [call EXCEPT ![c].done = "failed"]
        /\ UNCHANGED toClient
  /\ UNCHANGED <<outcome, toServer, frame, clientOpen, answer, session, server, log>>

Kernel(c) == Expire(c) \/ Connect(c) \/ Write(c) \/ Read(c)

-----------------------------------------------------------------------------
(* The server: the handlers of a session, on the I/O thread.               *)

SessionIn(c, state) == server = "up" /\ session[c] = state

Accept(c) ==
  /\ SessionIn(c, "backlog")
  /\ session' = [session EXCEPT ![c] = "header"]
  /\ UNCHANGED <<call, outcome, wireVars, server, log>>

(* readHeader: a body of an invalid size ends the session unanswered. *)
ReadHeader(c) ==
  /\ SessionIn(c, "header")
  /\ toServer[c] > 0
  /\ toServer' = [toServer EXCEPT ![c] = @ - 1]
  /\ session' = [session EXCEPT ![c] = IF IsValidMessageSize(Declared(frame[c].request))
                                      THEN "body" ELSE "closed"]
  /\ UNCHANGED <<call, outcome, toClient, frame, clientOpen, answer, server, log>>

(* A mistaken body handler, which calls the request handler once more.     *)
ReadBodyTwice(c) ==
  /\ SessionIn(c, "body")
  /\ toServer[c] > 0
  /\ toServer' = [toServer EXCEPT ![c] = @ - 1]
  /\ log' = log \o <<c, c>>
  /\ answer' = [answer EXCEPT ![c] = "payload"]
  /\ session' = [session EXCEPT ![c] = "write"]
  /\ UNCHANGED <<call, outcome, toClient, frame, clientOpen, server>>

(* readBody: the handler runs whether or not the client still listens.     *)
(* What is thrown by it, by a body that does not parse, or by makeFrame    *)
(* for an answer that is too large, is caught and answered as an error.    *)
ReadBody(c) ==
  /\ SessionIn(c, "body")
  /\ toServer[c] > 0
  /\ toServer' = [toServer EXCEPT ![c] = @ - 1]
  /\ log' = IF Readable(frame[c].request) THEN Append(log, c) ELSE log
  /\ answer' = [answer EXCEPT ![c] =
                  IF Readable(frame[c].request) /\ ~Refused(frame[c].response)
                  THEN "payload" ELSE "error"]
  /\ session' = [session EXCEPT ![c] = "write"]
  /\ UNCHANGED <<call, outcome, toClient, frame, clientOpen, server>>

(* A mistaken read handler, which overlooks the end of the stream.         *)
EndOfStreamOverlooked(c) ==
  /\ SessionIn(c, "header") \/ SessionIn(c, "body")
  /\ toServer[c] = 0 /\ ~clientOpen[c]
  /\ UNCHANGED vars

(* A read of a session whose client has closed without sending the rest. *)
EndOfStream(c) ==
  /\ SessionIn(c, "header") \/ SessionIn(c, "body")
  /\ toServer[c] = 0 /\ ~clientOpen[c]
  /\ session' = [session EXCEPT ![c] = "closed"]
  /\ UNCHANGED <<call, outcome, wireVars, server, log>>

(* A mistaken completion of the write, which writes again.                 *)
WriteResponseAgain(c) ==
  /\ SessionIn(c, "write") \/ SessionIn(c, "finish")
  /\ toClient' = [toClient EXCEPT ![c] = IF clientOpen[c] THEN @ + 1 ELSE @]
  /\ session' = [session EXCEPT ![c] = IF clientOpen[c] THEN "finish" ELSE "closed"]
  /\ UNCHANGED <<call, outcome, toServer, frame, clientOpen, answer, server, log>>

(* writeResponse: both parts, then shutdown and close; a failed write      *)
(* closes as well.                                                         *)
WriteResponse(c) ==
  /\ SessionIn(c, "write") \/ SessionIn(c, "finish")
  /\ toClient' = [toClient EXCEPT ![c] = IF clientOpen[c] THEN @ + 1 ELSE @]
  /\ session' = [session EXCEPT ![c] = IF @ = "write" /\ clientOpen[c] THEN "finish" ELSE "closed"]
  /\ UNCHANGED <<call, outcome, toServer, frame, clientOpen, answer, server, log>>

SessionStep(c) == Accept(c) \/ ReadHeader(c) \/ ReadBody(c) \/ EndOfStream(c) \/ WriteResponse(c)

StartServer ==
  /\ server = "down"
  /\ server' = "up"
  /\ UNCHANGED <<call, outcome, wireVars, session, log>>

(* IpcServer::stop: no handler runs any more ... *)
StopServer ==
  /\ server = "up"
  /\ server' = "stopping"
  /\ UNCHANGED <<call, outcome, wireVars, session, log>>

(* ... and the sockets are closed with the process. *)
DropSessions ==
  /\ server = "stopping"
  /\ server' = "down"
  /\ session' = [c \in Calls |-> IF session[c] = "none" THEN "none" ELSE "closed"]
  /\ UNCHANGED <<call, outcome, wireVars, log>>

-----------------------------------------------------------------------------

Next == \/ \E c \in Calls : Issue(c) \/ ClientStep(c) \/ Kernel(c) \/ SessionStep(c)
        \/ StartServer \/ StopServer \/ DropSessions

(* A client runs its io_context and time passes.  Nothing is assumed of    *)
(* the server, of the other clients, or of the kernel's other operations.  *)
Fair(c) == WF_vars(ClientStep(c)) /\ WF_vars(Expire(c))

Spec == Init /\ [][Next]_vars /\ \A c \in Calls : Fair(c)

-----------------------------------------------------------------------------
(* Properties.                                                             *)

CallState == [op        : {"none", "connect", "write", "header", "body"},
              done      : {"no", "ok", "failed"},
              timer     : {"off", "armed", "fired", "cancelled"},
              sent      : 0 .. 2,
              completed : BOOLEAN,
              result    : {"none", "response", "error"}]

(* The state has its type. *)
TypeOK ==
  /\ call \in [Calls -> CallState]
  /\ outcome \in [Calls -> {"none", "response", "error", "incomplete"}]
  /\ toServer \in [Calls -> 0 .. 2]
  /\ toClient \in [Calls -> 0 .. 2]
  /\ frame \in [Calls -> Frames]
  /\ answer \in [Calls -> {"none", "payload", "error"}]
  /\ clientOpen \in [Calls -> BOOLEAN]
  /\ session \in [Calls -> {"none", "backlog", "header", "body", "write", "finish", "closed"}]
  /\ server \in {"down", "up", "stopping"}
  /\ log \in Seq(Calls)

(* io.run() runs out of work only with a result: whatever the order of the *)
(* timer and the operations, the last resort of request(), "IPC request    *)
(* did not complete", is never thrown.                                     *)
AlwaysCompletes == \A c \in Calls : outcome[c] # "incomplete"

(* Once a result is stored it stays: a timeout whose handler was queued    *)
(* before the response cannot replace it, nor a late response a timeout.   *)
FirstResultWins ==
  [][\A c \in Calls : call[c].completed => /\ call'[c].completed
                                           /\ call'[c].result = call[c].result]_vars

(* Calls are at-most-once, with a response only for what was handled.      *)
Exchange == INSTANCE RequestReply WITH issued <- {c \in Calls : Issued(c)}

AtMostOnce == Exchange!Spec

(* A call returns an answer only if the request and the answer were sent   *)
(* whole: one that is too large by a multiple of 2^32 passes makeFrame     *)
(* with a header that declares a part of it, and nobody takes that part    *)
(* for a message.                                                          *)
AnswersIntact ==
  \A c \in Calls : outcome[c] = "response" =>
    \A m \in {frame[c].request} \cup IF answer[c] = "payload" THEN {frame[c].response} ELSE {} :
      Readable(m) /\ IsValidMessageSize(m.size)

(* A call that returned a response was handled before any call that its    *)
(* client made afterwards (of one that returned an error this is not so:   *)
(* its session may be read after the retry).                               *)
ProgramOrder ==
  \A i, j \in DOMAIN log :
    <<log[j], log[i]>> \in After /\ outcome[log[i]] = "response" => i < j

(* A call that has not returned never waits for the server alone: as long  *)
(* as its timer is armed it can expire, and afterwards there is a handler  *)
(* for io.run() to call, or nothing that keeps it from returning.  Nor     *)
(* does the session of a call that has returned wait for the client, or    *)
(* the end of the process for a session.                                   *)
NeverBlocked ==
  /\ \A c \in Calls : Issued(c) /\ ~Returned(c) =>
       IF call[c].timer = "armed" THEN ENABLED <<Expire(c)>>_vars
                                  ELSE ENABLED <<ClientStep(c)>>_vars
  /\ \A c \in Calls : Returned(c) /\ server = "up" /\ session[c] \notin {"none", "closed"} =>
       ENABLED <<SessionStep(c)>>_vars
  /\ server = "stopping" => ENABLED <<DropSessions>>_vars

(* Every call returns, whatever the server does or does not do.            *)
CallReturns == \A c \in Calls : Issued(c) ~> Returned(c)

SessionFair(c) == WF_vars(SessionStep(c)) /\ WF_vars(DropSessions)

(* No session outlives its client for long, as long as the server runs:    *)
(* sessions have no timer of their own and rely on that of the client.     *)
SessionEnds ==
  \A c \in Calls : SessionFair(c) => (session[c] # "none" ~> session[c] = "closed")
=============================================================================
