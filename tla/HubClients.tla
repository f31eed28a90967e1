----------------------------- MODULE HubClients ------------------------------
(***************************************************************************)
(* The programs that use the hub: runs of the command line client (cli     *)
(* main.cpp) and requests to the web gateway (gui main.cpp).  Each makes   *)
(* one or two calls of IpcClient::request in turn, gives up at the first   *)
(* that is not answered, and ends with a code that tells its user what     *)
(* became of the request; watch goes on making calls until one fails.      *)
(*                                                                         *)
(* The calls are those of RequestReply, which IpcExchange implements.  The *)
(* hub behind them is external here: it handles one request at a time, and *)
(* the place of a call in its log stands for the state it was answered     *)
(* from, which is what the program then prints.                            *)
(***************************************************************************)
EXTENDS Integers, Sequences

CONSTANTS Program,    \* the programs
          Job,        \* what they may be asked to do, see JobAssumption
          Device,     \* the devices of the hub
          Supported,  \* the commands that each supports
          MaxCalls    \* bound on the calls of a program, for watch

(* by is "cli" or "web".  For a watch, action is the view.  A job is valid *)
(* unless the arguments are not those of a subcommand, or the body of the  *)
(* HTTP request has no command.                                            *)
ASSUME JobAssumption ==
  \A j \in Job : /\ j.by \in {"cli", "web"}
                 /\ j.action \in {"status", "list", "health", "get", "telemetry",
                                  "commands", "command"}
                 /\ j.watch \in BOOLEAN /\ j.valid \in BOOLEAN
                 /\ j.watch => j.by = "cli" /\ j.action \in {"status", "list", "health"}

ASSUME MaxCallsAssumption == MaxCalls \in Nat \ {0, 1}

VARIABLES
  job,      \* what each program is to do
  phase,    \* "idle", "running", "calling" the hub, "sleeping" or "ended"
  step,     \* the place in its plan of the call it is at
  made,     \* the number of calls it has made
  code,     \* its exit code, or the status of the HTTP response
  before,   \* the programs that had ended when it began
  log,      \* the calls the hub has handled, in order
  outcome   \* what each call returned: "none", "response" or "error"

programVars == <<job, phase, step, made, code, before>>
vars        == <<programVars, log, outcome>>

Calls   == Program \X (1 .. MaxCalls)
InTurn  == {b \in Calls \X Calls : b[1][1] = b[2][1] /\ b[1][2] > b[2][2]}
Channel == INSTANCE RequestReply
             WITH After <- InTurn, issued <- {c \in Calls : c[2] <= made[c[1]]}

Handled == Channel!Handled

Current(p) == <<p, made[p]>>

(* run... of the CLI, the routes of the gateway. *)
Plan(j) ==
  LET requestStatus  == "service-status"
      requestDevices == "list-devices"
      requestDevice  == "get-device"
  IN  IF j.action = "command"     THEN <<"send-command">>
      ELSE IF j.action = "health" THEN <<requestStatus, requestDevices>>
      ELSE IF j.action = "status" THEN <<requestStatus>>
      ELSE IF j.action = "list" \/ (j.action = "commands" /\ j.device = "")
      THEN <<requestDevices>>
      ELSE <<requestDevice>>   \* get, telemetry, and commands of one device

(* handleRequest of the hub: whether it answers with ok. *)
Accepts(type, j) ==
  CASE type = "get-device"   -> j.device \in Device
    [] type = "send-command" -> j.device \in Device /\ j.command \in Supported[j.device]
    [] OTHER                 -> TRUE

(* What it may answer.  Whatever is thrown while a read is served, or its  *)
(* answer framed, is answered as an error.                                 *)
Answers(type, j) == {Accepts(type, j)} \cup IF type = "send-command" THEN {} ELSE {FALSE}

(* Mistaken codes, of a main that does not catch what its calls throw.     *)
CodeUncaught(j, result) ==
  [cli |-> [done |-> 0,   refused |-> 2,   failed |-> 134, usage |-> 106, interrupted |-> 130],
   web |-> [done |-> 200, refused |-> 400, failed |-> 502, usage |-> 400]][j.by][result]

(* 130 is the code of a program that was interrupted, and the usage code   *)
(* that of CLI11_PARSE.                                                    *)
Code(j, result) ==
  [cli |-> [done |-> 0,   refused |-> 2,   failed |-> 1,   usage |-> 106, interrupted |-> 130],
   web |-> [done |-> 200, refused |-> 400, failed |-> 502, usage |-> 400]][j.by][result]

NoCode == -1
NoJob  == [by |-> "none", action |-> "none", watch |-> FALSE, valid |-> FALSE,
           device |-> "", command |-> ""]

Init == /\ job = [p \in Program |-> NoJob]
        /\ phase = [p \in Program |-> "idle"]
        /\ step = [p \in Program |-> 1]
        /\ made = [p \in Program |-> 0]
        /\ code = [p \in Program |-> NoCode]
        /\ before = [p \in Program |-> {}]
        /\ Channel!Init

-----------------------------------------------------------------------------
(* The hub (external).                                                     *)

Handle(c) == /\ UNCHANGED programVars
             /\ Channel!Handle(c)

-----------------------------------------------------------------------------
(* The programs.                                                           *)

End(p, result) == /\ phase' = [phase EXCEPT ![p] = "ended"]
                  /\ code' = [code EXCEPT ![p] = Code(job[p], result)]

(* The switch of main and the routes up to their first call: a job that is *)
(* not valid ends without one.                                             *)
Begin(p, j) ==
  /\ phase[p] = "idle"
  /\ job' = [job EXCEPT ![p] = j]
  /\ before' = [before EXCEPT ![p] = {q \in Program : phase[q] = "ended"}]
  /\ phase' = [phase EXCEPT ![p] = IF j.valid THEN "running" ELSE "ended"]
  /\ code' = [code EXCEPT ![p] = IF j.valid THEN NoCode ELSE Code(j, "usage")]
  /\ UNCHANGED <<step, made, log, outcome>>

(* Mistaken calls: the first does not wait for the answer to a command, the *)
(* second makes the next call before it.                                   *)
AskAndForget(p) ==
  /\ phase[p] = "running"
  /\ IF job[p].action = "command" THEN End(p, "done")
                                  ELSE phase' = [phase EXCEPT ![p] = "calling"] /\ UNCHANGED code
  /\ made' = [made EXCEPT ![p] = @ + 1]
  /\ UNCHANGED <<job, step, before, log, outcome>>

AskAtOnce(p) ==
  /\ phase[p] \in {"running", "calling"} /\ made[p] < 2
  /\ phase' = [phase EXCEPT ![p] = "calling"]
  /\ made' = [made EXCEPT ![p] = @ + 1]
  /\ UNCHANGED <<job, step, code, before, log, outcome>>

(* client.request is called ... *)
Ask(p) ==
  /\ phase[p] = "running"
  /\ phase' = [phase EXCEPT ![p] = "calling"]
  /\ made' = [made EXCEPT ![p] = @ + 1]
  /\ UNCHANGED <<job, step, code, before, log, outcome>>

(* ... and returns a response, with ok or without.                         *)
Respond(p, ok) ==
  /\ phase[p] = "calling"
  /\ ok \in Answers(Plan(job[p])[step[p]], job[p])
  /\ UNCHANGED <<job, made, before>>
  /\ Channel!Return(Current(p))
  /\ outcome'[Current(p)] = "response"

(* A mistaken end, which goes on waiting after a response without ok.      *)
EndPlanUnanswered(p, result) ==
  IF job[p].watch THEN phase' = [phase EXCEPT ![p] = "sleeping"] /\ UNCHANGED code
  ELSE IF result = "refused" THEN UNCHANGED <<phase, code>> ELSE End(p, result)

(* What follows the last response of a plan, or one without ok: watch goes *)
(* on to its next frame either way.                                        *)
EndPlan(p, result) ==
  IF job[p].watch THEN phase' = [phase EXCEPT ![p] = "sleeping"] /\ UNCHANGED code
                  ELSE End(p, result)

(* The first response of health is followed by its second call. *)
NextCall(p) ==
  /\ Respond(p, TRUE)
  /\ step[p] < Len(Plan(job[p]))
  /\ step' = [step EXCEPT ![p] = @ + 1]
  /\ phase' = [phase EXCEPT ![p] = "running"]
  /\ UNCHANGED code

Done(p) ==
  /\ Respond(p, TRUE)
  /\ step[p] = Len(Plan(job[p]))
  /\ EndPlan(p, "done")
  /\ UNCHANGED step

(* handleIpcError and ipcResponseToHttp. *)
Refused(p) ==
  /\ Respond(p, FALSE)
  /\ EndPlan(p, "refused")
  /\ UNCHANGED step

(* Mistaken ends of a call that failed: the first reports it like a        *)
(* response without ok, the second tries again after a pause.              *)
ThrowAsRefused(p) ==
  /\ phase[p] = "calling"
  /\ UNCHANGED <<job, step, made, before>>
  /\ Channel!Return(Current(p))
  /\ outcome'[Current(p)] = "error"
  /\ End(p, "refused")

ThrowRetried(p) ==
  /\ phase[p] = "calling"
  /\ UNCHANGED <<job, step, made, code, before>>
  /\ Channel!Return(Current(p))
  /\ outcome'[Current(p)] = "error"
  /\ phase' = [phase EXCEPT ![p] = "sleeping"]

(* client.request throws: a watch ends as well. *)
Throw(p) ==
  /\ phase[p] = "calling"
  /\ UNCHANGED <<job, step, made, before>>
  /\ Channel!Return(Current(p))
  /\ outcome'[Current(p)] = "error"
  /\ End(p, "failed")

(* The next round of runWatch, after its sleep. *)
Wake(p) ==
  /\ phase[p] = "sleeping"
  /\ made[p] + Len(Plan(job[p])) <= MaxCalls
  /\ phase' = [phase EXCEPT ![p] = "running"]
  /\ step' = [step EXCEPT ![p] = 1]
  /\ UNCHANGED <<job, made, code, before, log, outcome>>

(* The user interrupts a CLI.  What it has sent is handled all the same; a *)
(* request of the gateway runs to its end whether or not its browser waits. *)
Interrupt(p) ==
  /\ phase[p] \in {"running", "calling", "sleeping"}
  /\ job[p].by = "cli"
  /\ End(p, "interrupted")
  /\ UNCHANGED <<job, step, made, before, log, outcome>>

Run(p) == Ask(p) \/ NextCall(p) \/ Done(p) \/ Refused(p) \/ Throw(p) \/ Wake(p)

Next == \/ \E p \in Program : Run(p) \/ Interrupt(p) \/ (\E j \in Job : Begin(p, j))
        \/ \E c \in Calls : Handle(c)

(* A program is scheduled, and each of its calls returns, if only with an  *)
(* error (CallReturns of IpcExchange).  The hub may handle nothing.        *)
Fair(p) == WF_vars(Run(p))

Spec == Init /\ [][Next]_vars /\ \A p \in Program : Fair(p)

-----------------------------------------------------------------------------
(* Properties.                                                             *)

Ended(p) == phase[p] = "ended"

(* The program has told its user that the hub answered it. *)
Answered(p) == Ended(p) /\ code[p] \in {0, 2, 200, 400}

Stored(p) == /\ job[p].action = "command"
             /\ Accepts("send-command", job[p])
             /\ <<p, 1>> \in Handled

(* The state has its type. *)
TypeOK ==
  /\ job \in [Program -> Job \cup {NoJob}]
  /\ phase \in [Program -> {"idle", "running", "calling", "sleeping", "ended"}]
  /\ step \in [Program -> {1, 2}]
  /\ made \in [Program -> 0 .. MaxCalls]
  /\ code \in [Program -> {NoCode, 0, 1, 2, 106, 130, 200, 400, 502}]
  /\ before \in [Program -> SUBSET Program]
  /\ log \in Seq(Calls)
  /\ outcome \in [Calls -> {"none", "response", "error"}]

(* The code tells the truth, and goes on doing so: 0 and 200 say that the  *)
(* hub has handled every call of the job and accepted it, 2 and 400 that   *)
(* no command of it is or will be stored.  1, 502 and 130 say nothing.     *)
CodeTellsTruth ==
  \A p \in Program : Ended(p) =>
    /\ code[p] \in {0, 200} => \A n \in DOMAIN Plan(job[p]) : /\ <<p, n>> \in Handled
                                                              /\ Accepts(Plan(job[p])[n], job[p])
    /\ code[p] \in {2, 400} => ~Stored(p)

(* What a program asks comes after everything that was answered to those   *)
(* that had ended before it began, whichever client they used: the state   *)
(* shown to it has their commands in it.                                   *)
RealTimeOrder ==
  \A p, q \in Program : p \in before[q] /\ Answered(p) =>
    \A j \in DOMAIN log : log[j][1] = q =>
      \A n \in 1 .. made[p] : \E i \in 1 .. j - 1 : log[i] = <<p, n>>

(* The calls of a program are handled in the order it made them, with none *)
(* left out: what watch shows never goes back, and the devices of a health *)
(* report are no older than its status.  It holds since a program makes no *)
(* call after one that failed, whose request may still be on its way.      *)
HandledInOrder ==
  \A j \in DOMAIN log : log[j][2] > 1 =>
    \E i \in 1 .. j - 1 : log[i] = <<log[j][1], log[j][2] - 1>>

(* The programs use their calls as RequestReply demands, one at a time.    *)
OneCallAtATime == Channel!Spec

(* Whatever the hub does, every program but a watch comes to its end. *)
ProgramsEnd == \A p \in Program : phase[p] = "running" /\ ~job[p].watch ~> Ended(p)
=============================================================================
