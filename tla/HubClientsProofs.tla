--------------------------- MODULE HubClientsProofs --------------------------
(***************************************************************************)
(* What the code of a client tells, for any programs, jobs and devices,    *)
(* and that each program but a watch ends.                                 *)
(***************************************************************************)
EXTENDS HubClients, TLAPS

USE JobAssumption, MaxCallsAssumption

(* The calls of p before the current one have returned a response, and     *)
(* there is none after it.                                                 *)
Turn(p) ==
  \A n \in 1 .. MaxCalls :
    /\ n < made[p] => outcome[<<p, n>>] = "response"
    /\ n > made[p] => outcome[<<p, n>>] = "none"
    /\ n = made[p] =>
         /\ phase[p] = "calling" => outcome[<<p, n>>] = "none"
         /\ phase[p] \in {"running", "sleeping"} \/ Answered(p)
              => outcome[<<p, n>>] = "response"

(* Where p is in its plan, and what it knows of it. *)
Place(p) ==
  /\ phase[p] = "idle" => made[p] = 0 /\ step[p] = 1 /\ before[p] = {}
  /\ phase[p] = "sleeping" => job[p].watch
  /\ phase[p] # "idle" => job[p] \in Job
  /\ phase[p] \in {"running", "calling", "sleeping"} =>
       /\ step[p] <= Len(Plan(job[p]))
       /\ code[p] = NoCode
       /\ \A n \in 1 .. step[p] - 1 : Accepts(Plan(job[p])[n], job[p])
  /\ phase[p] = "running" => /\ ~job[p].watch => made[p] = step[p] - 1
                             /\ made[p] + Len(Plan(job[p])) - step[p] < MaxCalls
  /\ phase[p] = "calling" => /\ ~job[p].watch => made[p] = step[p]
                             /\ made[p] + Len(Plan(job[p])) - step[p] <= MaxCalls
                             /\ made[p] > 0
  /\ \A q \in before[p] : Ended(q)

(* What the code of p says. *)
Tells(p) ==
  Ended(p) =>
    /\ code[p] \in {0, 200} => /\ made[p] = Len(Plan(job[p]))
                               /\ \A n \in DOMAIN Plan(job[p]) : Accepts(Plan(job[p])[n], job[p])
    /\ code[p] \in {2, 400} => \/ made[p] = 0
                               \/ job[p].action = "command" => ~Accepts("send-command", job[p])

(* The hub handles what has been called, and only that is answered. *)
HandledAreCalls ==
  /\ \A i \in DOMAIN log : log[i][2] <= made[log[i][1]]
  /\ \A c \in Calls : outcome[c] = "response" => c \in Handled

IInv == /\ TypeOK
        /\ \A p \in Program : Turn(p) /\ Place(p) /\ Tells(p)
        /\ HandledAreCalls /\ HandledInOrder /\ RealTimeOrder

-----------------------------------------------------------------------------
(* Plans and codes.                                                        *)

LEMMA PlanType ==
  ASSUME NEW j \in Job
  PROVE  /\ Len(Plan(j)) \in {1, 2}
         /\ DOMAIN Plan(j) = 1 .. Len(Plan(j))
         /\ j.action = "command" => Plan(j) = <<"send-command">>
         /\ j.action # "command" => \A n \in DOMAIN Plan(j) : Plan(j)[n] # "send-command"
<1>1. CASE j.action = "command"
  BY <1>1 DEF Plan
<1>2. CASE j.action = "health"
  BY <1>2 DEF Plan
<1>3. CASE j.action \notin {"command", "health"}
  <2>1. PICK type \in {"service-status", "list-devices", "get-device"} : Plan(j) = <<type>>
    BY <1>3 DEF Plan
  <2> QED
    BY <1>3, <2>1
<1> QED
  BY <1>1, <1>2, <1>3

LEMMA CodeType ==
  ASSUME NEW j \in Job
  PROVE  /\ Code(j, "done") \in {0, 200}
         /\ Code(j, "refused") \in {2, 400}
         /\ Code(j, "failed") \in {1, 502}
         /\ Code(j, "usage") \in {106, 400}
         /\ j.by = "cli" => Code(j, "interrupted") = 130
<1>1. j.by \in {"cli", "web"}
  OBVIOUS
<1> QED
  BY <1>1 DEF Code

(* The calls in the log. *)
LEMMA LogType ==
  ASSUME TypeOK, NEW i \in DOMAIN log
  PROVE  log[i] \in Calls /\ log[i] = <<log[i][1], log[i][2]>>
         /\ log[i][1] \in Program /\ log[i][2] \in 1 .. MaxCalls
BY DEF TypeOK, Calls

LEMMA HandledIs == Handled = {log[i] : i \in DOMAIN log}
BY DEF Handled, Channel!Handled

-----------------------------------------------------------------------------
(* Steps of one program.                                                   *)

Moves(p) ==
  /\ phase[p] \in {"running", "calling", "sleeping"}
  /\ UNCHANGED <<job, before, log>>
  /\ \A q \in Program \ {p} : /\ phase'[q] = phase[q] /\ step'[q] = step[q]
                              /\ made'[q] = made[q] /\ code'[q] = code[q]
  /\ \A c \in Calls : c[1] # p => outcome'[c] = outcome[c]
  /\ made'[p] >= made[p]

(* Such a step leaves to be shown what it does to the program itself.      *)
LEMMA MovesKeep ==
  ASSUME IInv, NEW p \in Program, Moves(p), TypeOK',
         Turn(p)', Place(p)', Tells(p)',
         \A c \in Calls : outcome'[c] = "response" => c \in Handled
  PROVE  IInv'
<1> USE DEF IInv
<1>1. \A q \in Program : Ended(q) => q # p /\ Ended(q)' /\ code'[q] = code[q] /\ made'[q] = made[q]
  BY DEF Moves, Ended
<1>2. ASSUME NEW q \in Program, q # p
      PROVE  Turn(q)' /\ Place(q)' /\ Tells(q)'
  <2>1. \A n \in 1 .. MaxCalls : outcome'[<<q, n>>] = outcome[<<q, n>>]
    BY <1>2 DEF Moves, Calls
  <2>2. Turn(q)'
    BY <1>2, <2>1 DEF Moves, Turn, Answered, Ended
  <2>3. Place(q)'
    <3>1. before[q] \subseteq Program
      BY DEF TypeOK
    <3> QED
      BY <1>1, <1>2, <3>1 DEF Moves, Place
  <2>4. Tells(q)'
    BY <1>2 DEF Moves, Tells, Ended
  <2> QED
    BY <2>2, <2>3, <2>4
<1>3. HandledAreCalls'
  <2>1. Handled' = Handled
    BY DEF Handled, Channel!Handled, Moves
  <2>2. \A q \in Program : made'[q] >= made[q]
    <3> SUFFICES ASSUME NEW q \in Program PROVE made'[q] >= made[q]
      OBVIOUS
    <3>1. made[q] \in Int
      BY DEF TypeOK
    <3> QED
      BY <3>1 DEF Moves
  <2>3. \A i \in DOMAIN log : log[i][2] <= made'[log[i][1]]
    BY <2>2, LogType DEF HandledAreCalls, TypeOK
  <2> QED
    BY <2>1, <2>3 DEF HandledAreCalls, Moves
<1>4. HandledInOrder'
  BY DEF HandledInOrder, Moves
<1>5. RealTimeOrder'
  <2>1. before' = before /\ log' = log
    BY DEF Moves
  <2>2. \A r, q \in Program : r \in before[q] /\ Answered(r)'
                               => Answered(r) /\ made'[r] = made[r]
    <3> SUFFICES ASSUME NEW r \in Program, NEW q \in Program, r \in before[q], Answered(r)'
                 PROVE  Answered(r) /\ made'[r] = made[r]
      OBVIOUS
    <3>1. Ended(r)
      BY DEF Place
    <3> QED
      BY <1>1, <3>1 DEF Answered
  <2>3. RealTimeOrder
    OBVIOUS
  <2> HIDE DEF IInv
  <2> QED
    BY <2>1, <2>2, <2>3 DEF RealTimeOrder
<1> QED
  BY <1>2, <1>3, <1>4, <1>5

LEMMA InitHolds == Init => IInv
BY DEF Init, Channel!Init, IInv, TypeOK, Turn, Place, Tells, Answered, Ended, Calls,
       HandledAreCalls, HandledInOrder, RealTimeOrder, NoCode

LEMMA AskKeeps ==
  ASSUME IInv, NEW p \in Program, Ask(p)
  PROVE  IInv'
<1> USE DEF IInv
<1>1. made[p] < MaxCalls /\ made[p] \in Nat /\ step[p] \in {1, 2}
  <2>1. job[p] \in Job
    BY DEF Ask, Place
  <2>2. Len(Plan(job[p])) \in {1, 2}
    BY <2>1, PlanType
  <2> QED
    BY <2>2 DEF Ask, Place, TypeOK
<1>2. phase'[p] = "calling" /\ made'[p] = made[p] + 1
  BY DEF Ask, TypeOK
<1>3. TypeOK'
  BY <1>1 DEF Ask, TypeOK
<1>4. Moves(p)
  BY <1>1, <1>2 DEF Ask, Moves, TypeOK
<1>5. Turn(p)'
  BY <1>1, <1>2 DEF Ask, Turn, Answered, Ended, TypeOK
<1>6. Place(p)'
  <2>1. job[p] \in Job
    BY DEF Ask, Place
  <2>2. Len(Plan(job[p])) \in {1, 2}
    BY <2>1, PlanType
  <2>3. before[p] \subseteq Program /\ \A q \in before[p] : Ended(q)'
    BY <1>2 DEF Ask, Place, Ended, TypeOK
  <2>4. /\ step[p] <= Len(Plan(job[p])) /\ code[p] = NoCode
        /\ \A n \in 1 .. step[p] - 1 : Accepts(Plan(job[p])[n], job[p])
        /\ ~job[p].watch => made'[p] = step[p]
        /\ made'[p] + Len(Plan(job[p])) - step[p] <= MaxCalls
        /\ made'[p] > 0
    BY <1>1, <1>2, <2>1, <2>2 DEF Ask, Place
  <2> HIDE DEF IInv
  <2> QED
    BY <1>2, <2>1, <2>3, <2>4 DEF Ask, Place
<1>7. Tells(p)'
  BY <1>2 DEF Tells, Ended
<1> QED
  BY <1>3, <1>4, <1>5, <1>6, <1>7, MovesKeep DEF Ask, HandledAreCalls

(* The call that returns a response was handled. *)
LEMMA Responded ==
  ASSUME TypeOK, NEW p \in Program, NEW ok, Respond(p, ok)
  PROVE  /\ Current(p) \in Calls /\ Current(p) \in Handled
         /\ outcome' = [outcome EXCEPT ![Current(p)] = "response"]
         /\ UNCHANGED <<job, made, before, log>>
<1>1. Current(p) \in Calls /\ UNCHANGED <<job, made, before, log>>
  BY DEF Respond, Channel!Return
<1>2. outcome'[Current(p)] = "response"
  BY DEF Respond
<1> QED
  BY <1>1, <1>2 DEF Respond, Channel!Return, Handled, TypeOK

(* What a response changes, whatever it says. *)
LEMMA RespondMoves ==
  ASSUME IInv, NEW p \in Program, NEW ok, Respond(p, ok), TypeOK',
         \A q \in Program \ {p} : /\ phase'[q] = phase[q]
                                  /\ step'[q] = step[q] /\ code'[q] = code[q],
         phase'[p] # "calling",
         Place(p)', Tells(p)'
  PROVE  IInv'
<1> USE DEF IInv
<1>1. /\ Current(p) \in Calls /\ Current(p) \in Handled
      /\ outcome' = [outcome EXCEPT ![Current(p)] = "response"]
      /\ UNCHANGED <<job, made, before, log>>
  BY Responded
<1>2. made[p] \in 1 .. MaxCalls /\ Current(p) = <<p, made[p]>>
  BY <1>1 DEF Current, Calls
<1>3. Moves(p)
  BY <1>1, <1>2 DEF Moves, Respond, TypeOK
<1>4. Turn(p)'
  <2>1. \A n \in 1 .. MaxCalls : /\ <<p, n>> \in Calls
                                 /\ n # made[p] => outcome'[<<p, n>>] = outcome[<<p, n>>]
                                 /\ n = made[p] => outcome'[<<p, n>>] = "response"
    BY <1>1, <1>2 DEF Calls, TypeOK
  <2> QED
    BY <1>1, <1>2, <2>1 DEF Turn, TypeOK
<1>5. \A c \in Calls : outcome'[c] = "response" => c \in Handled
  BY <1>1 DEF HandledAreCalls, TypeOK
<1> QED
  BY <1>3, <1>4, <1>5, MovesKeep

LEMMA NextCallKeeps ==
  ASSUME IInv, NEW p \in Program, NextCall(p)
  PROVE  IInv'
<1> USE DEF IInv
<1>1. job[p] \in Job /\ phase[p] = "calling" /\ job' = job /\ made' = made /\ before' = before
  BY DEF NextCall, Respond, Place
<1>2. Len(Plan(job[p])) \in {1, 2} /\ step[p] \in {1, 2} /\ made[p] \in Nat
  BY <1>1, PlanType DEF TypeOK
<1>3. step[p] = 1 /\ step'[p] = 2 /\ Len(Plan(job[p])) = 2 /\ phase'[p] = "running"
  <2>1. step[p] < Len(Plan(job[p]))
    BY DEF NextCall
  <2>2. step[p] = 1 /\ Len(Plan(job[p])) = 2
    <3> DEFINE m == step[p]
               k == Len(Plan(job[p]))
    <3>1. m \in {1, 2} /\ k \in {1, 2} /\ m < k
      BY <1>2, <2>1
    <3> HIDE DEF m, k
    <3>2. m = 1 /\ k = 2
      BY <3>1
    <3> QED
      BY <3>2 DEF m, k
  <2> QED
    BY <2>2 DEF NextCall, TypeOK
<1>4. Respond(p, TRUE)
  BY DEF NextCall
<1>5. TypeOK'
  <2>1. outcome' \in [Calls -> {"none", "response", "error"}] /\ log' = log
    <3>1. outcome' = [outcome EXCEPT ![Current(p)] = "response"] /\ log' = log
      BY <1>4, Responded
    <3> QED
      BY <3>1 DEF TypeOK
  <2>2. step' = [step EXCEPT ![p] = 2]
    BY <1>3 DEF NextCall, TypeOK
  <2> QED
    BY <1>1, <2>1, <2>2 DEF NextCall, TypeOK
<1>6. Accepts(Plan(job[p])[1], job[p])
  BY <1>3, <1>4 DEF Respond, Answers
<1>7. Place(p)'
  <2>1. before[p] \subseteq Program /\ \A q \in before[p] : Ended(q)'
    BY <1>1, <1>3 DEF NextCall, Place, Ended, TypeOK
  <2>2. code'[p] = NoCode /\ (job[p].watch \/ made[p] = 1) /\ made[p] + 2 - 1 <= MaxCalls
    BY <1>1, <1>3 DEF NextCall, Place
  <2>3. \A n \in 1 .. step'[p] - 1 : Accepts(Plan(job'[p])[n], job'[p])
    BY <1>1, <1>3, <1>6
  <2> QED
    BY <1>1, <1>2, <1>3, <2>1, <2>2, <2>3 DEF Place
<1>8. Tells(p)'
  BY <1>3 DEF Tells, Ended
<1> QED
  BY <1>3, <1>4, <1>5, <1>7, <1>8, RespondMoves DEF NextCall, TypeOK

LEMMA EndPlanKeeps ==
  ASSUME IInv, NEW p \in Program, Done(p) \/ Refused(p)
  PROVE  IInv'
<1> USE DEF IInv
<1>1. PICK ok \in BOOLEAN :
        /\ Respond(p, ok)
        /\ EndPlan(p, IF ok THEN "done" ELSE "refused")
        /\ ok => step[p] = Len(Plan(job[p]))
        /\ UNCHANGED step
  BY DEF Done, Refused
<1>2. /\ job[p] \in Job /\ phase[p] = "calling"
      /\ job' = job /\ made' = made /\ before' = before /\ step' = step
  BY <1>1 DEF Respond, Place
<1>3. Len(Plan(job[p])) \in {1, 2} /\ step[p] \in {1, 2} /\ made[p] \in Nat
  BY <1>2, PlanType DEF TypeOK
<1>4. \A q \in Program \ {p} : phase'[q] = phase[q] /\ code'[q] = code[q]
  BY <1>1 DEF EndPlan, End, TypeOK
<1>5. \A q \in before[p] : q \in Program /\ Ended(q)'
  BY <1>2, <1>4 DEF Place, Ended, TypeOK
<1>6. TypeOK'
  <2>1. outcome' \in [Calls -> {"none", "response", "error"}] /\ log' = log
    BY <1>1, Responded DEF TypeOK
  <2>2. phase' \in [Program -> {"idle", "running", "calling", "sleeping", "ended"}]
    BY <1>1 DEF EndPlan, End, TypeOK
  <2>3. code' \in [Program -> {NoCode, 0, 1, 2, 106, 130, 200, 400, 502}]
    <3>1. PICK value \in {0, 200, 2, 400} :
                 value = Code(job[p], IF ok THEN "done" ELSE "refused")
      BY <1>2, CodeType
    <3>2. code' = code \/ code' = [code EXCEPT ![p] = value]
      BY <1>1, <3>1 DEF EndPlan, End
    <3> DEFINE Codes == {NoCode, 0, 1, 2, 106, 130, 200, 400, 502}
    <3>3. code \in [Program -> Codes] /\ value \in Codes
      BY DEF TypeOK
    <3> HIDE DEF Codes
    <3>4. code' \in [Program -> Codes]
      BY <3>2, <3>3
    <3> QED
      BY <3>4 DEF Codes
  <2> QED
    BY <1>2, <2>1, <2>2, <2>3 DEF TypeOK
<1>7. CASE job[p].watch
  <2>1. phase'[p] = "sleeping" /\ code' = code
    BY <1>1, <1>7 DEF EndPlan, TypeOK
  <2>2. Place(p)'
    BY <1>2, <1>5, <1>7, <2>1 DEF Place
  <2>3. Tells(p)'
    BY <2>1 DEF Tells, Ended
  <2> QED
    BY <1>1, <1>2, <1>4, <1>6, <2>1, <2>2, <2>3, RespondMoves
<1>8. CASE ~job[p].watch
  <2>1. phase'[p] = "ended" /\ code'[p] = Code(job[p], IF ok THEN "done" ELSE "refused")
    BY <1>1, <1>8 DEF EndPlan, End, TypeOK
  <2>2. Place(p)'
    BY <1>2, <1>5, <2>1 DEF Place
  <2>3. made[p] = step[p]
    BY <1>2, <1>8 DEF Place
  <2>4. Tells(p)'
    <3>1. CASE ok
      <4>1. code'[p] \in {0, 200} /\ made[p] = Len(Plan(job[p]))
        BY <1>1, <1>2, <2>1, <2>3, <3>1, CodeType
      <4>2. Accepts(Plan(job[p])[step[p]], job[p])
        BY <1>1, <3>1 DEF Respond, Answers
      <4>3. \A n \in DOMAIN Plan(job[p]) : Accepts(Plan(job[p])[n], job[p])
        <5>1. \A n \in DOMAIN Plan(job[p]) : n = step[p] \/ n \in 1 .. step[p] - 1
          BY <1>2, <1>3, <2>3, <4>1, PlanType
        <5> QED
          BY <1>2, <4>2, <5>1 DEF Place
      <4> QED
        BY <1>2, <4>1, <4>3 DEF Tells
    <3>2. CASE ~ok
      <4>1. code'[p] \in {2, 400}
        BY <1>2, <2>1, <3>2, CodeType
      <4>2. ASSUME job[p].action = "command" PROVE ~Accepts("send-command", job[p])
        <5>1. Plan(job[p]) = <<"send-command">>
          BY <1>2, <4>2, PlanType
        <5>2. step[p] = 1
          <6>1. step[p] <= Len(Plan(job[p]))
            BY <1>2 DEF Place
          <6>2. Len(Plan(job[p])) = 1
            BY <5>1
          <6> QED
            BY <1>3, <6>1, <6>2
        <5> QED
          BY <1>1, <3>2, <5>1, <5>2 DEF Respond, Answers
      <4> QED
        BY <1>2, <4>1, <4>2 DEF Tells
    <3> QED
      BY <3>1, <3>2
  <2> QED
    BY <1>1, <1>2, <1>4, <1>6, <2>1, <2>2, <2>4, RespondMoves
<1> QED
  BY <1>2, <1>7, <1>8

LEMMA ThrowKeeps ==
  ASSUME IInv, NEW p \in Program, Throw(p)
  PROVE  IInv'
<1> USE DEF IInv
<1>1. /\ job[p] \in Job /\ phase[p] = "calling" /\ Current(p) \in Calls
      /\ UNCHANGED <<job, step, made, before, log>>
  BY DEF Throw, Place, Channel!Return
<1>2. made[p] \in 1 .. MaxCalls /\ Current(p) = <<p, made[p]>>
  BY <1>1 DEF Current, Calls
<1>3. outcome' = [outcome EXCEPT ![Current(p)] = "error"]
  <2>1. outcome'[Current(p)] = "error"
    BY DEF Throw
  <2> QED
    BY <1>1, <2>1 DEF Throw, Channel!Return, TypeOK
<1> DEFINE value == Code(job[p], "failed")
<1>4. value \in {1, 502} /\ code' = [code EXCEPT ![p] = value]
  <2>1. value \in {1, 502}
    BY <1>1, CodeType
  <2>2. code' = [code EXCEPT ![p] = value]
    BY DEF Throw, End
  <2> QED
    BY <2>1, <2>2
<1> HIDE DEF value
<1>5. phase' = [phase EXCEPT ![p] = "ended"]
  BY DEF Throw, End
<1>6. phase'[p] = "ended" /\ code'[p] \in {1, 502}
  BY <1>4, <1>5 DEF TypeOK
<1>7. TypeOK'
  <2>1. outcome' \in [Calls -> {"none", "response", "error"}]
    BY <1>3 DEF TypeOK
  <2>2. code' \in [Program -> {NoCode, 0, 1, 2, 106, 130, 200, 400, 502}]
    BY <1>4 DEF TypeOK
  <2>3. phase' \in [Program -> {"idle", "running", "calling", "sleeping", "ended"}]
    BY <1>5 DEF TypeOK
  <2> QED
    BY <1>1, <2>1, <2>2, <2>3 DEF TypeOK
<1>8. \A c \in Calls : c # Current(p) => outcome'[c] = outcome[c]
  BY <1>3 DEF TypeOK
<1>9. Moves(p)
  BY <1>1, <1>2, <1>4, <1>5, <1>8 DEF Moves, TypeOK
<1>10. Turn(p)'
  <2>1. \A n \in 1 .. MaxCalls : n # made[p] => outcome'[<<p, n>>] = outcome[<<p, n>>]
    BY <1>2, <1>8 DEF Calls
  <2>2. ~Answered(p)'
    BY <1>6 DEF Answered
  <2> QED
    BY <1>1, <1>2, <1>6, <2>1, <2>2 DEF Turn
<1>11. Place(p)'
  <2>1. \A q \in before[p] : Ended(q)'
    BY <1>5 DEF Place, Ended, TypeOK
  <2> QED
    BY <1>1, <1>6, <2>1 DEF Place
<1>12. Tells(p)'
  BY <1>6 DEF Tells
<1>13. \A c \in Calls : outcome'[c] = "response" => c \in Handled
  BY <1>3 DEF HandledAreCalls, TypeOK
<1> QED
  BY <1>7, <1>9, <1>10, <1>11, <1>12, <1>13, MovesKeep

LEMMA WakeKeeps ==
  ASSUME IInv, NEW p \in Program, Wake(p)
  PROVE  IInv'
<1> USE DEF IInv
<1>1. job[p] \in Job /\ job[p].watch /\ phase[p] = "sleeping"
  BY DEF Wake, Place
<1>2. Len(Plan(job[p])) \in {1, 2} /\ made[p] \in Nat
  BY <1>1, PlanType DEF TypeOK
<1>3. phase'[p] = "running" /\ step'[p] = 1
  BY DEF Wake, TypeOK
<1>4. TypeOK'
  BY DEF Wake, TypeOK
<1>5. Moves(p)
  BY <1>2 DEF Wake, Moves, TypeOK
<1>6. Turn(p)'
  BY <1>1, <1>3 DEF Wake, Turn, Answered, Ended
<1>7. Place(p)'
  <2>1. \A q \in before[p] : Ended(q)'
    BY <1>3 DEF Wake, Place, Ended, TypeOK
  <2>2. made[p] + Len(Plan(job[p])) <= MaxCalls
    BY DEF Wake
  <2>3. /\ job' = job /\ made' = made /\ before' = before
        /\ code'[p] = NoCode
    BY <1>1 DEF Wake, Place
  <2>4. step'[p] <= Len(Plan(job[p])) /\ made[p] + Len(Plan(job[p])) - step'[p] < MaxCalls
    <3> DEFINE k == Len(Plan(job[p]))
               m == made[p]
    <3>1. k \in {1, 2} /\ m \in Nat /\ m + k <= MaxCalls
      BY <1>2, <2>2
    <3> HIDE DEF k, m
    <3>2. 1 <= k /\ m + k - 1 < MaxCalls
      BY <3>1
    <3> QED
      BY <1>3, <3>2 DEF k, m
  <2>5. \A n \in 1 .. step'[p] - 1 : FALSE
    BY <1>3
  <2> QED
    BY <1>1, <1>3, <2>1, <2>3, <2>4, <2>5 DEF Place
<1>8. Tells(p)'
  BY <1>3 DEF Tells, Ended
<1> QED
  BY <1>4, <1>5, <1>6, <1>7, <1>8, MovesKeep DEF Wake, HandledAreCalls

LEMMA InterruptKeeps ==
  ASSUME IInv, NEW p \in Program, Interrupt(p)
  PROVE  IInv'
<1> USE DEF IInv
<1>1. job[p] \in Job /\ phase[p] \in {"running", "calling", "sleeping"}
  BY DEF Interrupt, Place
<1>2. code' = [code EXCEPT ![p] = 130]
  <2>1. Code(job[p], "interrupted") = 130
    BY <1>1, CodeType DEF Interrupt
  <2>2. code' = [code EXCEPT ![p] = Code(job[p], "interrupted")]
    BY DEF Interrupt, End
  <2> QED
    BY <2>1, <2>2
<1>3. phase'[p] = "ended" /\ code'[p] = 130
  BY <1>2 DEF Interrupt, End, TypeOK
<1>4. TypeOK'
  BY <1>2 DEF Interrupt, End, TypeOK
<1>5. Moves(p)
  BY <1>1, <1>2 DEF Interrupt, End, Moves, TypeOK
<1>6. Turn(p)'
  BY <1>1, <1>3 DEF Interrupt, Turn, Answered
<1>7. Place(p)'
  <2>1. \A q \in before[p] : Ended(q)'
    BY DEF Interrupt, End, Place, Ended, TypeOK
  <2> QED
    BY <1>1, <1>3, <2>1 DEF Interrupt, Place
<1>8. Tells(p)'
  BY <1>3 DEF Tells
<1> QED
  BY <1>4, <1>5, <1>6, <1>7, <1>8, MovesKeep DEF Interrupt, HandledAreCalls

-----------------------------------------------------------------------------
(* The beginning of a program, and the hub.                                *)

LEMMA BeginKeeps ==
  ASSUME IInv, NEW p \in Program, NEW j \in Job, Begin(p, j)
  PROVE  IInv'
<1> USE DEF IInv
<1>1. phase[p] = "idle" /\ made[p] = 0 /\ step[p] = 1
  BY DEF Begin, Place
<1>2. UNCHANGED <<step, made, log, outcome>>
  BY DEF Begin
<1>3. /\ job'[p] = j
      /\ before'[p] = {q \in Program : Ended(q)}
      /\ IF j.valid THEN phase'[p] = "running" /\ code'[p] = NoCode
                    ELSE phase'[p] = "ended" /\ code'[p] \in {106, 400}
  BY CodeType DEF Begin, Ended, TypeOK
<1>4. \A q \in Program \ {p} : /\ job'[q] = job[q] /\ before'[q] = before[q]
                               /\ phase'[q] = phase[q] /\ code'[q] = code[q]
  BY DEF Begin, TypeOK
<1>5. \A q \in Program : Ended(q) => q # p /\ Ended(q)'
  BY <1>1, <1>4 DEF Ended
<1>6. TypeOK'
  <2> DEFINE value == IF j.valid THEN NoCode ELSE Code(j, "usage")
  <2>1. value \in {NoCode, 106, 400} /\ code' = [code EXCEPT ![p] = value]
    <3>1. value \in {NoCode, 106, 400}
      BY CodeType
    <3> QED
      BY <3>1 DEF Begin
  <2> HIDE DEF value
  <2>2. code' \in [Program -> {NoCode, 0, 1, 2, 106, 130, 200, 400, 502}]
    BY <2>1 DEF TypeOK
  <2>3. job' \in [Program -> Job \cup {NoJob}] /\ before' \in [Program -> SUBSET Program]
    BY DEF Begin, TypeOK
  <2>4. phase' \in [Program -> {"idle", "running", "calling", "sleeping", "ended"}]
    BY DEF Begin, TypeOK
  <2> QED
    BY <1>2, <2>2, <2>3, <2>4 DEF TypeOK
<1>7. ASSUME NEW q \in Program, q # p
      PROVE  Turn(q)' /\ Place(q)' /\ Tells(q)'
  <2>1. Turn(q)'
    BY <1>2, <1>4, <1>7 DEF Turn, Answered, Ended
  <2>2. Tells(q)'
    <3>1. Tells(q)
      OBVIOUS
    <3>2. /\ job'[q] = job[q] /\ phase'[q] = phase[q] /\ code'[q] = code[q]
          /\ made'[q] = made[q]
      BY <1>2, <1>4, <1>7
    <3> HIDE DEF IInv
    <3> QED
      BY <3>1, <3>2 DEF Tells, Ended
  <2>3. \A r \in before[q] : Ended(r)'
    BY <1>5 DEF Place, TypeOK
  <2> QED
    BY <1>2, <1>4, <1>7, <2>1, <2>2, <2>3 DEF Place
<1>8. Turn(p)' /\ Tells(p)'
  BY <1>1, <1>2, <1>3 DEF Turn, Tells, Answered, Ended, NoCode
<1>9. Place(p)'
  <2>1. Len(Plan(j)) \in {1, 2}
    BY PlanType
  <2>2. \A n \in 1 .. step'[p] - 1 : FALSE
    BY <1>1, <1>2
  <2>3. step'[p] <= Len(Plan(j)) /\ made'[p] + Len(Plan(j)) - step'[p] < MaxCalls
    <3> DEFINE k == Len(Plan(j))
    <3>1. k \in {1, 2} /\ step'[p] = 1 /\ made'[p] = 0
      BY <1>1, <1>2, <2>1
    <3> HIDE DEF k
    <3>2. 1 <= k /\ 0 + k - 1 < MaxCalls
      BY <3>1
    <3> QED
      BY <3>1, <3>2 DEF k
  <2>4. \A q \in before'[p] : Ended(q)'
    BY <1>3, <1>5
  <2>5. phase'[p] \notin {"idle", "calling", "sleeping"}
    BY <1>3
  <2>6. phase'[p] = "running" => code'[p] = NoCode /\ made'[p] = step'[p] - 1
    BY <1>1, <1>2, <1>3
  <2> QED
    BY <1>3, <2>2, <2>3, <2>4, <2>5, <2>6 DEF Place
<1>10. HandledAreCalls'
  BY <1>2 DEF HandledAreCalls, Handled, Channel!Handled
<1>11. HandledInOrder'
  BY <1>2 DEF HandledInOrder
<1>12. RealTimeOrder'
  <2> SUFFICES ASSUME NEW r \in Program, NEW q \in Program, r \in before'[q], Answered(r)',
                      NEW i \in DOMAIN log, log[i][1] = q
               PROVE  \A n \in 1 .. made[r] : \E k \in 1 .. i - 1 : log[k] = <<r, n>>
    BY <1>2 DEF RealTimeOrder
  <2>1. q # p
    <3>1. log[i][2] <= made[q] /\ log[i][2] \in 1 .. MaxCalls
      BY LogType DEF HandledAreCalls
    <3> QED
      BY <1>1, <3>1
  <2>2. r \in before[q] /\ Ended(r)
    BY <1>4, <2>1 DEF Place
  <2>3. Answered(r)
    BY <1>4, <1>5, <2>2 DEF Answered
  <2> QED
    BY <2>2, <2>3 DEF RealTimeOrder
<1> QED
  BY <1>6, <1>7, <1>8, <1>9, <1>10, <1>11, <1>12

(* All the calls of a program that has told its user of an answer. *)
LEMMA AnsweredHandled ==
  ASSUME IInv, NEW p \in Program, Answered(p), NEW n \in 1 .. made[p]
  PROVE  <<p, n>> \in Handled
<1> USE DEF IInv
<1>1. made[p] \in 0 .. MaxCalls
  BY DEF TypeOK
<1>2. n \in 1 .. MaxCalls
  BY <1>1
<1>3. outcome[<<p, n>>] = "response"
  BY <1>1, <1>2 DEF Turn
<1> QED
  BY <1>2, <1>3 DEF HandledAreCalls, Calls

LEMMA HandleKeeps ==
  ASSUME IInv, NEW c \in Calls, Handle(c)
  PROVE  IInv'
<1> USE DEF IInv
<1>1. /\ UNCHANGED <<programVars, outcome>> /\ log' = Append(log, c)
      /\ c[2] <= made[c[1]]
  BY DEF Handle, Channel!Handle
<1>2. TypeOK'
  BY <1>1 DEF programVars, TypeOK
<1>3. \A p \in Program : Turn(p)' /\ Place(p)' /\ Tells(p)'
  BY <1>1 DEF programVars, Turn, Place, Tells, Answered, Ended
<1>4. /\ DOMAIN log' = 1 .. Len(log) + 1 /\ Len(log) \in Nat
      /\ DOMAIN log = 1 .. Len(log)
      /\ \A i \in DOMAIN log : log'[i] = log[i]
      /\ log'[Len(log) + 1] = c
  BY <1>1 DEF TypeOK
<1>5. Handled \subseteq Handled'
  BY <1>4 DEF Handled, Channel!Handled
<1>6. HandledAreCalls'
  <2>1. \A i \in DOMAIN log' : log'[i][2] <= made[log'[i][1]]
    BY <1>1, <1>4 DEF HandledAreCalls
  <2> QED
    BY <1>1, <1>5, <2>1 DEF HandledAreCalls, programVars
<1>7. HandledInOrder'
  <2> SUFFICES ASSUME NEW j \in DOMAIN log', log'[j][2] > 1
               PROVE  \E i \in 1 .. j - 1 : log'[i] = <<log'[j][1], log'[j][2] - 1>>
    BY DEF HandledInOrder
  <2>1. CASE j \in DOMAIN log
    <3>1. PICK i \in 1 .. j - 1 : log[i] = <<log[j][1], log[j][2] - 1>>
      BY <1>4, <2>1 DEF HandledInOrder
    <3> QED
      BY <1>4, <2>1, <3>1
  <2>2. CASE j = Len(log) + 1
    <3> DEFINE p == c[1]
               n == c[2] - 1
    <3>1. p \in Program /\ n \in 1 .. MaxCalls /\ n < made[p]
      <4>1. c[2] \in 1 .. MaxCalls /\ c[1] \in Program /\ c[2] > 1
        BY <1>4, <2>2 DEF Calls
      <4>2. made[p] \in Nat
        BY <4>1 DEF TypeOK
      <4> QED
        BY <1>1, <4>1, <4>2
    <3>2. <<p, n>> \in Handled
      <4>1. outcome[<<p, n>>] = "response"
        BY <3>1 DEF Turn
      <4> QED
        BY <3>1, <4>1 DEF HandledAreCalls, Calls
    <3>3. PICK i \in DOMAIN log : log[i] = <<p, n>>
      BY <3>2, HandledIs
    <3> QED
      BY <1>4, <2>2, <3>3
  <2> QED
    BY <1>4, <2>1, <2>2
<1>8. RealTimeOrder'
  <2> SUFFICES ASSUME NEW p \in Program, NEW q \in Program, p \in before[q], Answered(p),
                      NEW j \in DOMAIN log', log'[j][1] = q, NEW n \in 1 .. made[p]
               PROVE  \E i \in 1 .. j - 1 : log'[i] = <<p, n>>
    <3>1. before' = before /\ made' = made /\ \A p \in Program : Answered(p)' = Answered(p)
      BY <1>1 DEF programVars, Answered, Ended
    <3> QED
      BY <3>1 DEF RealTimeOrder
  <2>1. CASE j \in DOMAIN log
    <3>1. PICK i \in 1 .. j - 1 : log[i] = <<p, n>>
      BY <1>4, <2>1 DEF RealTimeOrder
    <3> QED
      BY <1>4, <2>1, <3>1
  <2>2. CASE j = Len(log) + 1
    <3>1. PICK i \in DOMAIN log : log[i] = <<p, n>>
      BY AnsweredHandled, HandledIs
    <3> QED
      BY <1>4, <2>2, <3>1
  <2> QED
    BY <1>4, <2>1, <2>2
<1> QED
  BY <1>2, <1>3, <1>6, <1>7, <1>8

-----------------------------------------------------------------------------
(* The invariant, and what follows from it.                                *)

LEMMA NextKeeps == IInv /\ [Next]_vars => IInv'
<1> SUFFICES ASSUME IInv, [Next]_vars PROVE IInv'
  OBVIOUS
<1>1. ASSUME NEW p \in Program, Run(p) PROVE IInv'
  BY <1>1, AskKeeps, NextCallKeeps, EndPlanKeeps, ThrowKeeps, WakeKeeps DEF Run
<1>2. ASSUME NEW p \in Program, Interrupt(p) PROVE IInv'
  BY <1>2, InterruptKeeps
<1>3. ASSUME NEW p \in Program, NEW j \in Job, Begin(p, j) PROVE IInv'
  BY <1>3, BeginKeeps
<1>4. ASSUME NEW c \in Calls, Handle(c) PROVE IInv'
  BY <1>4, HandleKeeps
<1>5. CASE UNCHANGED vars
  <2> USE DEF IInv
  <2>1. /\ job' = job /\ phase' = phase /\ step' = step /\ made' = made
        /\ code' = code /\ before' = before /\ log' = log /\ outcome' = outcome
    BY <1>5 DEF vars, programVars
  <2>2. TypeOK'
    BY <2>1 DEF TypeOK
  <2>3. HandledAreCalls'
    BY <2>1 DEF HandledAreCalls, Handled, Channel!Handled
  <2>4. ASSUME NEW p \in Program PROVE Turn(p)' /\ Place(p)' /\ Tells(p)'
    <3>1. Turn(p)'
      BY <2>1 DEF Turn, Answered, Ended
    <3>2. Place(p)'
      BY <2>1 DEF Place, Ended
    <3>3. Tells(p)'
      BY <2>1 DEF Tells, Ended
    <3> QED
      BY <3>1, <3>2, <3>3
  <2>5. HandledInOrder'
    BY <2>1 DEF HandledInOrder
  <2>6. \A p \in Program : Answered(p)' = Answered(p)
    BY <2>1 DEF Answered, Ended
  <2>7. RealTimeOrder'
    BY <2>1, <2>6 DEF RealTimeOrder
  <2> QED
    BY <2>2, <2>3, <2>4, <2>5, <2>7
<1> QED
  BY <1>1, <1>2, <1>3, <1>4, <1>5 DEF Next

LEMMA CodesFollow == IInv => CodeTellsTruth
<1> SUFFICES ASSUME IInv, NEW p \in Program, Ended(p)
             PROVE  /\ code[p] \in {0, 200} =>
                         \A n \in DOMAIN Plan(job[p]) : /\ <<p, n>> \in Handled
                                                       /\ Accepts(Plan(job[p])[n], job[p])
                    /\ code[p] \in {2, 400} => ~Stored(p)
  BY DEF CodeTellsTruth
<1>1. job[p] \in Job /\ Tells(p)
  BY DEF IInv, Place, Ended
<1>2. ASSUME code[p] \in {0, 200}, NEW n \in DOMAIN Plan(job[p])
      PROVE  <<p, n>> \in Handled /\ Accepts(Plan(job[p])[n], job[p])
  <2>1. Answered(p) /\ n \in 1 .. made[p]
    BY <1>1, <1>2, PlanType DEF Answered, Tells
  <2> QED
    BY <1>1, <1>2, <2>1, AnsweredHandled DEF Tells
<1>3. ASSUME code[p] \in {2, 400} PROVE ~Stored(p)
  <2>1. CASE made[p] = 0
    <3>1. ASSUME NEW i \in DOMAIN log, log[i] = <<p, 1>> PROVE FALSE
      BY <2>1, <3>1 DEF IInv, HandledAreCalls
    <3> QED
      BY <3>1, HandledIs DEF Stored
  <2>2. CASE job[p].action = "command" => ~Accepts("send-command", job[p])
    BY <2>2 DEF Stored
  <2> QED
    BY <1>1, <1>3, <2>1, <2>2 DEF Tells
<1> QED
  BY <1>2, <1>3

(* The invariant holds in every state of the clients. *)
THEOREM Invariance == Spec => []IInv
BY InitHolds, NextKeeps, PTL DEF Spec

(* The state always has its type. *)
THEOREM TypeCorrect == Spec => []TypeOK
BY Invariance, PTL DEF IInv

(* The codes tell the truth, for any jobs and devices. *)
THEOREM CodesTellTruth == Spec => []CodeTellsTruth
BY Invariance, CodesFollow, PTL

(* What has ended happened before what begins, across the clients. *)
THEOREM RealTime == Spec => []RealTimeOrder
BY Invariance, PTL DEF IInv

(* No call of a program overtakes another, or is skipped. *)
THEOREM CallsInOrder == Spec => []HandledInOrder
BY Invariance, PTL DEF IInv

-----------------------------------------------------------------------------
(* The programs keep to RequestReply.                                      *)

LEMMA AskIssues ==
  ASSUME IInv, NEW p \in Program, Ask(p)
  PROVE  \E c \in Calls : Channel!Issue(c)
<1> USE DEF IInv
<1>1. made[p] < MaxCalls /\ made[p] \in Nat
  <2>1. job[p] \in Job
    BY DEF Ask, Place
  <2>2. Len(Plan(job[p])) \in {1, 2} /\ step[p] \in {1, 2}
    BY <2>1, PlanType DEF TypeOK
  <2> QED
    BY <2>2 DEF Ask, Place, TypeOK
<1> DEFINE c == <<p, made[p] + 1>>
<1>2. c \in Calls
  BY <1>1 DEF Calls
<1>3. \A q \in Program : made'[q] = IF q = p THEN made[p] + 1 ELSE made[q]
  BY DEF Ask, TypeOK
<1>4. {b \in Calls : b[2] <= made'[b[1]]} = {b \in Calls : b[2] <= made[b[1]]} \cup {c}
  <2>1. ASSUME NEW b \in Calls
        PROVE  b[2] <= made'[b[1]] <=> b[2] <= made[b[1]] \/ b = c
    <3>1. b[1] \in Program /\ b[2] \in 1 .. MaxCalls /\ b = <<b[1], b[2]>>
      BY DEF Calls
    <3>2. CASE b[1] = p
      BY <1>1, <1>3, <3>1, <3>2
    <3>3. CASE b[1] # p
      BY <1>3, <3>1, <3>3
    <3> QED
      BY <3>2, <3>3
  <2> QED
    BY <1>2, <2>1
<1>5. c \notin {b \in Calls : b[2] <= made[b[1]]}
  BY <1>1
<1>6. ASSUME NEW b \in Calls, <<c, b>> \in InTurn PROVE outcome[b] # "none"
  <2>1. b[1] = p /\ b[2] \in 1 .. made[p] /\ b = <<p, b[2]>>
    <3>1. b[1] = p /\ b[2] < made[p] + 1 /\ b[2] \in 1 .. MaxCalls /\ b = <<b[1], b[2]>>
      BY <1>6 DEF InTurn, Calls
    <3> QED
      BY <1>1, <3>1
  <2>2. outcome[<<p, b[2]>>] = "response"
    <3>1. b[2] \in 1 .. MaxCalls /\ phase[p] = "running"
      BY <1>1, <2>1 DEF Ask
    <3>2. b[2] < made[p] \/ b[2] = made[p]
      BY <1>1, <2>1
    <3> QED
      BY <3>1, <3>2 DEF Turn
  <2> QED
    BY <2>1, <2>2
<1>7. UNCHANGED <<log, outcome>>
  BY DEF Ask
<1> QED
  BY <1>2, <1>4, <1>5, <1>6, <1>7 DEF Channel!Issue

LEMMA StepIsOne == IInv /\ [Next]_vars => [Channel!Next]_(Channel!vars)
<1> SUFFICES ASSUME IInv, [Next]_vars PROVE [Channel!Next]_(Channel!vars)
  OBVIOUS
<1>1. ASSUME NEW p \in Program, Ask(p) PROVE Channel!Next
  BY <1>1, AskIssues DEF Channel!Next
<1>2. ASSUME NEW p \in Program, NextCall(p) \/ Done(p) \/ Refused(p) \/ Throw(p)
      PROVE  Channel!Next
  <2>1. Channel!Return(Current(p))
    BY <1>2 DEF NextCall, Done, Refused, Throw, Respond
  <2>2. Current(p) \in Calls
    BY <2>1 DEF Channel!Return
  <2> QED
    BY <2>1, <2>2 DEF Channel!Next
<1>3. ASSUME NEW p \in Program, Wake(p) \/ Interrupt(p) \/ \E j \in Job : Begin(p, j)
      PROVE  UNCHANGED Channel!vars
  BY <1>3 DEF Wake, Interrupt, Begin, Channel!vars
<1>4. ASSUME NEW c \in Calls, Handle(c) PROVE Channel!Next
  BY <1>4 DEF Handle, Channel!Next
<1>5. CASE UNCHANGED vars
  BY <1>5 DEF vars, programVars, Channel!vars
<1> QED
  BY <1>1, <1>2, <1>3, <1>4, <1>5 DEF Next, Run

(* Whatever the programs are asked, their calls are used as RequestReply   *)
(* allows: none is made while another of the same program is under way.    *)
THEOREM CallsOneAtATime == Spec => OneCallAtATime
<1>1. Init => Channel!Init
  BY DEF Init
<1> QED
  BY <1>1, Invariance, StepIsOne, PTL DEF Spec, OneCallAtATime, Channel!Spec
-----------------------------------------------------------------------------
(* Every program ends.  What ENABLED means is out of the prover's reach, so *)
(* that Run is enabled in every state in which the guard of one of its     *)
(* actions holds is a hypothesis, GuardsEnable.  That such a guard holds   *)
(* until the program has ended is proved.                                  *)

(* The guards of the actions of Run, that of Throw for any answer. *)
RunGuard(p) ==
  \/ phase[p] = "running"
  \/ phase[p] = "calling" /\ Current(p) \in Calls /\ outcome[Current(p)] = "none"
  \/ phase[p] = "sleeping" /\ made[p] + Len(Plan(job[p])) <= MaxCalls

GuardsEnable == \A p \in Program : RunGuard(p) => ENABLED <<Run(p)>>_vars

(* To ask and to be answered are two steps for each call of the plan that  *)
(* is left.                                                                *)
StepsLeft(p) == 2 * (Len(Plan(job[p])) - step[p]) + IF phase[p] = "running" THEN 2 ELSE 1

(* The program has ended, or does so after at most n more steps. *)
Ending(p, n) == \/ Ended(p)
                \/ /\ phase[p] \in {"running", "calling"} /\ ~job[p].watch
                   /\ StepsLeft(p) <= n

LEMMA StepsLeftType ==
  ASSUME IInv, NEW p \in Program, phase[p] \in {"running", "calling"}
  PROVE  /\ StepsLeft(p) \in 1 .. 4 /\ RunGuard(p)
         /\ Len(Plan(job[p])) \in {1, 2} /\ step[p] \in 1 .. Len(Plan(job[p]))
<1>1. Len(Plan(job[p])) \in {1, 2} /\ step[p] \in 1 .. Len(Plan(job[p]))
  BY PlanType DEF IInv, TypeOK, Place
<1>2. StepsLeft(p) \in 1 .. 4
  <2>1. \E n \in {1, 2} : StepsLeft(p) = 2 * (Len(Plan(job[p])) - step[p]) + n
    BY DEF StepsLeft
  <2>2. Len(Plan(job[p])) - step[p] \in {0, 1}
    <3>1. \A l \in {1, 2} : \A k \in 1 .. l : l - k \in {0, 1}
      OBVIOUS
    <3> QED BY <1>1, <3>1
  <2> QED BY <2>1, <2>2
<1>3. CASE phase[p] = "running"
  BY <1>1, <1>2, <1>3 DEF RunGuard
<1>4. CASE phase[p] = "calling"
  <2>1. made[p] \in 1 .. MaxCalls
    BY <1>4 DEF IInv, TypeOK, Place
  <2>2. Current(p) \in Calls /\ outcome[Current(p)] = "none"
    BY <1>4, <2>1 DEF IInv, Turn, Current, Calls
  <2> QED BY <1>1, <1>2, <1>4, <2>2 DEF RunGuard
<1> QED BY <1>3, <1>4

(* A step of the program itself leaves one fewer. *)
LEMMA RunMoves ==
  ASSUME IInv, NEW p \in Program, Run(p), phase[p] \in {"running", "calling"}, ~job[p].watch
  PROVE  \/ Ended(p)'
         \/ /\ phase'[p] \in {"running", "calling"} /\ job'[p] = job[p]
            /\ StepsLeft(p)' <= StepsLeft(p) - 1
<1> USE DEF IInv, TypeOK
<1>1. Len(Plan(job[p])) \in {1, 2} /\ step[p] \in 1 .. Len(Plan(job[p]))
  BY StepsLeftType
<1>2. CASE Ask(p)
  BY <1>1, <1>2 DEF Ask, StepsLeft
<1>3. CASE NextCall(p)
  <2>1. /\ phase[p] = "calling" /\ phase'[p] = "running" /\ job' = job
        /\ step'[p] = step[p] + 1
    BY <1>3 DEF NextCall, Respond
  <2> QED BY <1>1, <2>1 DEF StepsLeft
<1>4. CASE Done(p) \/ Refused(p) \/ Throw(p)
  <2>1. phase' = [phase EXCEPT ![p] = "ended"]
    BY <1>4 DEF Done, Refused, Throw, EndPlan, End
  <2> QED BY <2>1 DEF Ended
<1>5. ~Wake(p)
  BY DEF Wake
<1> QED BY <1>2, <1>3, <1>4, <1>5 DEF Run

(* The hub and the other programs leave a program as it is. *)
LEMMA OthersKeepProgram ==
  ASSUME IInv, NEW p \in Program, phase[p] \in {"running", "calling"},
         Next \/ UNCHANGED vars
  PROVE  \/ Run(p)
         \/ Ended(p)'
         \/ phase'[p] = phase[p] /\ step'[p] = step[p] /\ job'[p] = job[p]
<1> DEFINE Kept == phase'[p] = phase[p] /\ step'[p] = step[p] /\ job'[p] = job[p]
<1>0. TypeOK
  BY DEF IInv
<1>1. ASSUME NEW q \in Program, q # p, Run(q) PROVE Kept
  <2>1. CASE Ask(q)
    BY <1>0, <1>1, <2>1 DEF Ask, TypeOK
  <2>2. CASE NextCall(q)
    <3>1. /\ job' = job /\ step' = [step EXCEPT ![q] = @ + 1]
          /\ phase' = [phase EXCEPT ![q] = "running"]
      BY <2>2 DEF NextCall, Respond
    <3> QED BY <1>0, <1>1, <3>1 DEF TypeOK
  <2>3. CASE Done(q) \/ Refused(q) \/ Throw(q)
    <3>1. job' = job /\ step' = step
      BY <2>3 DEF Done, Refused, Throw, Respond
    <3>2. \E s \in {"sleeping", "ended"} : phase' = [phase EXCEPT ![q] = s]
      BY <2>3 DEF Done, Refused, Throw, EndPlan, End
    <3> QED BY <1>0, <1>1, <3>1, <3>2 DEF TypeOK
  <2>4. CASE Wake(q)
    BY <1>0, <1>1, <2>4 DEF Wake, TypeOK
  <2> QED BY <1>1, <2>1, <2>2, <2>3, <2>4 DEF Run
<1>2. ASSUME NEW q \in Program, q # p, Interrupt(q) \/ \E j \in Job : Begin(q, j) PROVE Kept
  BY <1>0, <1>2 DEF Interrupt, Begin, End, TypeOK
<1>3. Interrupt(p) => Ended(p)'
  BY <1>0 DEF Interrupt, End, Ended, TypeOK
<1>4. ~ \E j \in Job : Begin(p, j)
  BY DEF Begin
<1>5. CASE (\E c \in Calls : Handle(c)) \/ UNCHANGED vars
  BY <1>5 DEF Handle, programVars, vars
<1>6. CASE \E q \in Program : Run(q) \/ Interrupt(q) \/ \E j \in Job : Begin(q, j)
  BY <1>1, <1>2, <1>3, <1>4, <1>6
<1> QED BY <1>5, <1>6 DEF Next

Ends(p, n, m) == Spec /\ []GuardsEnable => (Ending(p, n) ~> Ending(p, m))

LEMMA ProgramMovesOn ==
  ASSUME NEW p \in Program, NEW n \in 1 .. 4, NEW m \in 0 .. 3, n = m + 1
  PROVE  Ends(p, n, m)
<1> DEFINE Runs == RunGuard(p) => ENABLED <<Run(p)>>_vars
<1>1. GuardsEnable => Runs
  BY DEF GuardsEnable
<1>2. IInv /\ Ending(p, n) /\ ~Ending(p, m)
        => /\ phase[p] \in {"running", "calling"} /\ ~job[p].watch
           /\ StepsLeft(p) = n /\ RunGuard(p)
  BY StepsLeftType DEF Ending
<1>3. IInv /\ Ending(p, n) /\ ~Ending(p, m) /\ Run(p) => Ending(p, m)'
  <2> SUFFICES ASSUME IInv, Ending(p, n), ~Ending(p, m), Run(p), ~Ended(p)'
               PROVE  Ending(p, m)'
    BY DEF Ending
  <2>1. /\ phase'[p] \in {"running", "calling"} /\ job'[p] = job[p]
        /\ StepsLeft(p)' <= StepsLeft(p) - 1
    BY <1>2, RunMoves
  <2>2. StepsLeft(p)' <= m
    BY <1>2, <2>1
  <2> QED BY <1>2, <2>1, <2>2 DEF Ending
<1>4. IInv /\ Ending(p, n) /\ ~Ending(p, m) /\ [Next]_vars => (Ending(p, n) \/ Ending(p, m))'
  <2> SUFFICES ASSUME IInv, Ending(p, n), ~Ending(p, m), Next \/ UNCHANGED vars, ~Run(p), ~Ended(p)'
               PROVE  Ending(p, n)'
    BY <1>3 DEF Ending
  <2>1. phase'[p] = phase[p] /\ step'[p] = step[p] /\ job'[p] = job[p]
    BY <1>2, OthersKeepProgram
  <2> QED BY <1>2, <2>1 DEF Ending, StepsLeft
<1>5. Spec => Fair(p)
  BY DEF Spec
<1> QED BY <1>1, <1>2, <1>3, <1>4, <1>5, Invariance, PTL DEF Spec, Fair, Runs, Ends

(* Every program but a watch comes to its end, for any programs and jobs   *)
(* and even if the hub never handles a thing: after at most four steps.    *)
THEOREM AllProgramsEnd == Spec /\ []GuardsEnable => ProgramsEnd
<1>1. ASSUME NEW p \in Program
      PROVE  Spec /\ []GuardsEnable => (phase[p] = "running" /\ ~job[p].watch ~> Ended(p))
  <2>1. IInv /\ phase[p] = "running" /\ ~job[p].watch => Ending(p, 4)
    BY StepsLeftType DEF Ending
  <2>2. IInv /\ Ending(p, 0) => Ended(p)
    BY StepsLeftType DEF Ending
  <2>3. Ends(p, 4, 3) /\ Ends(p, 3, 2) /\ Ends(p, 2, 1) /\ Ends(p, 1, 0)
    BY ProgramMovesOn
  <2> QED BY <2>1, <2>2, <2>3, Invariance, PTL DEF Ends
<1> QED BY <1>1 DEF ProgramsEnd
=============================================================================
