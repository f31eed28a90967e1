---------------------------- MODULE RequestReply ----------------------------
(***************************************************************************)
(* What IpcClient::request promises its caller: a call is handled at most  *)
(* once and returns at most once, with a response only if it was handled.  *)
(* A call that returns an error may have been handled, and may even be     *)
(* handled later: the error tells the caller nothing about that.           *)
(***************************************************************************)
EXTENDS Sequences

CONSTANTS Calls,   \* the calls of request()
          After    \* pairs <<d, c>>: d is made only after c has returned

VARIABLES issued,    \* the calls that have been made
          log,       \* the calls the service has handled, in order
          outcome    \* what each call returned: "none", "response" or "error"

vars == <<issued, log, outcome>>

Handled == {log[i] : i \in DOMAIN log}

Init == /\ issued = {}
        /\ log = << >>
        /\ outcome = [c \in Calls |-> "none"]

Issue(c) == /\ c \notin issued
            /\ \A b \in Calls : <<c, b>> \in After => outcome[b] # "none"
            /\ issued' = issued \cup {c}
            /\ UNCHANGED <<log, outcome>>

Handle(c) == /\ c \in issued
             /\ c \notin Handled
             /\ log' = Append(log, c)
             /\ UNCHANGED <<issued, outcome>>

Return(c) == /\ c \in issued
             /\ outcome[c] = "none"
             /\ \/ outcome' = [outcome EXCEPT ![c] = "error"]
                \/ c \in Handled /\ outcome' = [outcome EXCEPT ![c] = "response"]
             /\ UNCHANGED <<issued, log>>

Next == \E c \in Calls : Issue(c) \/ Handle(c) \/ Return(c)

Spec == Init /\ [][Next]_vars
=============================================================================
