-------------------------------- MODULE WebUi --------------------------------
(***************************************************************************)
(* The web page (app.js) and the gateway that answers it (gui main.cpp).   *)
(*                                                                         *)
(* The page is one event loop: a handler, or the code between two awaits,  *)
(* is a step.  A refresh fetches the health and the devices; the gateway   *)
(* answers each of the two on a thread of its own with calls to the hub,   *)
(* so refreshes that overlap are applied in any order.                     *)
(*                                                                         *)
(* The hub is external here: the sequence of the states its devices have   *)
(* been in.  An answer is the number of the state it was made from, and    *)
(* what is on the page is compared by what it shows of that state.         *)
(*                                                                         *)
(* Left out: the toast, the connection pill and the filter by type, which  *)
(* is like the one by status except that no type ever vanishes.            *)
(***************************************************************************)
EXTENDS Naturals, Sequences

CONSTANTS Device,       \* the devices of the hub
          Status,       \* the statuses they may have
          Supported,    \* the commands that each supports
          InitialHubs,  \* the states the hub may be in when the page is opened
          Changing,     \* bound on the devices: those whose status changes later
          Slots,        \* bound on the refreshes that are in flight
          MaxVersions   \* bound on the states of the hub

ASSUME BoundAssumption == MaxVersions \in Nat \ {0}
ASSUME HubAssumption   == InitialHubs \subseteq [Device -> Status]

VARIABLES
  hub,        \* the states so far, each a function from Device to Status
  refreshes,  \* per slot: the refresh in flight in it, see NoRefresh
  shown,      \* the state that state.devices is a copy of, 0 before the first
  metrics,    \* the state that the attention count was made from
  selected,   \* state.selectedDeviceId, "" for null
  filter,     \* state.statusFilter, "" for all
  control,    \* the value of its select element
  table,      \* the rows of the table: what each device is shown with
  detail,     \* the device in the detail panel, or hidden
  post        \* the command in flight, see NoPost

pageVars == <<shown, metrics, selected, filter, control, table, detail>>
vars     == <<hub, refreshes, pageVars, post>>

(* health and devices are the states answered from, 0 while none is.       *)
NoRefresh       == [open |-> FALSE, health |-> 0, devices |-> 0, failed |-> FALSE, own |-> FALSE]
NewRefresh(own) == [open |-> TRUE,  health |-> 0, devices |-> 0, failed |-> FALSE, own |-> own]

(* phase is "none", "sent", "accepted" by the hub or "refreshing"; version *)
(* is the first state of the hub with the command in it.                   *)
NoPost == [phase |-> "none", device |-> "", command |-> "", version |-> 0]

Hidden == [id |-> "", status |-> ""]

(* renderDevices, with filteredDevices. *)
Rows(version, f, s) ==
  [d \in {e \in Device : version # 0 /\ f \in {"", hub[version][e]}} |->
     [status |-> hub[version][d], isSelected |-> d = s]]

(* renderDetail, which also makes the buttons of the device's commands. *)
Detail(version, s) ==
  IF version # 0 /\ s # "" THEN [id |-> s, status |-> hub[version][s]] ELSE Hidden

(* The options of updateFilters, besides the empty one of "All". *)
StatusOptions(version) == {hub[version][d] : d \in Device}

Init == /\ hub \in {<<h>> : h \in InitialHubs}
        /\ \E r \in Slots : refreshes = [s \in Slots |->
                                           IF s = r THEN NewRefresh(FALSE) ELSE NoRefresh]
        /\ shown = 0 /\ metrics = 0
        /\ selected = ""
        /\ filter = "" /\ control = ""
        /\ table = [d \in {} |-> Hidden]
        /\ detail = Hidden
        /\ post = NoPost

-----------------------------------------------------------------------------
(* The hub (external).                                                     *)

HubChanges(d, s) ==
  /\ d \in Changing
  /\ Len(hub) < MaxVersions
  /\ hub[Len(hub)][d] # s
  /\ hub' = Append(hub, [hub[Len(hub)] EXCEPT ![d] = s])
  /\ UNCHANGED <<refreshes, pageVars, post>>

-----------------------------------------------------------------------------
(* The gateway.                                                            *)

(* handleHealthRequest: service-status, then list-devices, whose answer is *)
(* the one that is counted.                                                *)
AnswerHealth(r) ==
  /\ refreshes[r].open /\ ~refreshes[r].failed /\ refreshes[r].health = 0
  /\ refreshes' = [refreshes EXCEPT ![r].health = Len(hub)]
  /\ UNCHANGED <<hub, pageVars, post>>

(* handleIpcRequest for list-devices. *)
AnswerDevices(r) ==
  /\ refreshes[r].open /\ ~refreshes[r].failed /\ refreshes[r].devices = 0
  /\ refreshes' = [refreshes EXCEPT ![r].devices = Len(hub)]
  /\ UNCHANGED <<hub, pageVars, post>>

(* A call of either route throws and is answered with 502, so the answer   *)
(* of the other no longer matters.                                         *)
AnswerFails(r) ==
  /\ refreshes[r].open /\ ~refreshes[r].failed
  /\ refreshes[r].health = 0 \/ refreshes[r].devices = 0
  /\ refreshes' = [refreshes EXCEPT ![r] = [refreshes[r] EXCEPT !.health = 0, !.devices = 0, !.failed = TRUE]]
  /\ UNCHANGED <<hub, pageVars, post>>

(* A mistaken route, which answers before the hub has the command. *)
AcceptCommandUnstored ==
  /\ post.phase = "sent"
  /\ Len(hub) < MaxVersions
  /\ post' = [post EXCEPT !.phase = "accepted", !.version = Len(hub) + 1]
  /\ UNCHANGED <<hub, refreshes, pageVars>>

(* The route of the commands: the hub stores the command, which is a new   *)
(* state of it ...                                                         *)
AcceptCommand ==
  /\ post.phase = "sent"
  /\ Len(hub) < MaxVersions
  /\ hub' = Append(hub, hub[Len(hub)])
  /\ post' = [post EXCEPT !.phase = "accepted", !.version = Len(hub) + 1]
  /\ UNCHANGED <<refreshes, pageVars>>

-----------------------------------------------------------------------------
(* The page.                                                               *)

(* A mistaken timer, which stops once the page has loaded. *)
StartRefreshOnce(r) ==
  /\ ~refreshes[r].open
  /\ shown = 0
  /\ refreshes' = [refreshes EXCEPT ![r] = NewRefresh(FALSE)]
  /\ UNCHANGED <<hub, pageVars, post>>

(* refreshData up to its await, called by the timer or the button. *)
StartRefresh(r) ==
  /\ ~refreshes[r].open
  /\ refreshes' = [refreshes EXCEPT ![r] = NewRefresh(FALSE)]
  /\ UNCHANGED <<hub, pageVars, post>>

EndRefresh(r) ==
  /\ refreshes' = [refreshes EXCEPT ![r] = NoRefresh]
  /\ post' = IF refreshes[r].own THEN NoPost ELSE post
  /\ UNCHANGED hub

(* refreshData after Promise.all has rejected, which it does at the first  *)
(* of the two that fails.                                                  *)
FailRefresh(r) ==
  /\ refreshes[r].open /\ refreshes[r].failed
  /\ EndRefresh(r)
  /\ UNCHANGED pageVars

(* A mistaken refresh, which renders before it updates the selection.      *)
ApplyRefreshUnrendered(r) ==
  /\ refreshes[r].open /\ ~refreshes[r].failed
  /\ refreshes[r].health # 0 /\ refreshes[r].devices # 0
  /\ EndRefresh(r)
  /\ shown' = refreshes[r].devices
  /\ metrics' = refreshes[r].health
  /\ selected' \in IF selected = "" THEN Device ELSE {selected}
  /\ control' = IF control \in StatusOptions(shown') THEN control ELSE ""
  /\ table' = Rows(shown', filter, selected)
  /\ detail' = Detail(shown', selected)
  /\ UNCHANGED filter

(* refreshData after Promise.all has both bodies: the devices, the first   *)
(* of them selected if none is, updateMetrics, updateFilters, which resets  *)
(* the element alone, renderDevices and renderDetail.                      *)
ApplyRefresh(r) ==
  /\ refreshes[r].open /\ ~refreshes[r].failed
  /\ refreshes[r].health # 0 /\ refreshes[r].devices # 0
  /\ EndRefresh(r)
  /\ shown' = refreshes[r].devices
  /\ metrics' = refreshes[r].health
  /\ selected' \in IF selected = "" THEN Device ELSE {selected}
  /\ control' = IF control \in StatusOptions(shown') THEN control ELSE ""
  /\ table' = Rows(shown', filter, selected')
  /\ detail' = Detail(shown', selected')
  /\ UNCHANGED filter

(* The change handler of the select element. *)
ChooseFilter(choice) ==
  /\ shown # 0
  /\ choice \in StatusOptions(shown) \cup {""}
  /\ choice # control
  /\ control' = choice
  /\ filter' = choice
  /\ table' = Rows(shown, choice, selected)
  /\ UNCHANGED <<hub, refreshes, shown, metrics, selected, detail, post>>

(* A mistaken click, which leaves the detail panel as it was. *)
SelectRowOnly(d) ==
  /\ d \in DOMAIN table
  /\ selected' = d
  /\ table' = Rows(shown, filter, d)
  /\ UNCHANGED <<hub, refreshes, shown, metrics, filter, control, detail, post>>

(* A click on a row of the table. *)
SelectRow(d) ==
  /\ d \in DOMAIN table
  /\ selected' = d
  /\ table' = Rows(shown, filter, d)
  /\ detail' = Detail(shown, d)
  /\ UNCHANGED <<hub, refreshes, shown, metrics, filter, control, post>>

(* A mistaken sendCommand, which does not wait for the answer. *)
SendCommandAtOnce(command) ==
  /\ post.phase = "none"
  /\ detail # Hidden /\ command \in Supported[detail.id]
  /\ post' = [NoPost EXCEPT !.phase = "sent", !.device = selected, !.command = command]
  /\ \E r \in Slots : /\ ~refreshes[r].open
                      /\ refreshes' = [refreshes EXCEPT ![r] = NewRefresh(TRUE)]
  /\ UNCHANGED <<hub, pageVars>>

(* A click on one of the buttons, up to the await of sendCommand: the      *)
(* device is the one selected by now, the command that of the button.      *)
(* One command at a time.                                                  *)
SendCommand(command) ==
  /\ post.phase = "none"
  /\ detail # Hidden /\ command \in Supported[detail.id]
  /\ post' = [NoPost EXCEPT !.phase = "sent", !.device = selected, !.command = command]
  /\ UNCHANGED <<hub, refreshes, pageVars>>

(* ... its answer reaches the page, which refreshes again ...              *)
CommandAccepted(r) ==
  /\ post.phase = "accepted"
  /\ ~refreshes[r].open
  /\ post' = [post EXCEPT !.phase = "refreshing"]
  /\ refreshes' = [refreshes EXCEPT ![r] = NewRefresh(TRUE)]
  /\ UNCHANGED <<hub, pageVars>>

(* ... or an error does, whether or not the hub has the command. *)
CommandFails ==
  /\ post.phase \in {"sent", "accepted"}
  /\ post' = NoPost
  /\ UNCHANGED <<hub, refreshes, pageVars>>

Commands == UNION {Supported[d] : d \in Device}

Next == \/ \E d \in Device, s \in Status : HubChanges(d, s)
        \/ \E r \in Slots : \/ AnswerHealth(r) \/ AnswerDevices(r) \/ AnswerFails(r)
                            \/ StartRefresh(r) \/ FailRefresh(r) \/ ApplyRefresh(r)
                            \/ CommandAccepted(r)
        \/ AcceptCommand
        \/ \E choice \in Status \cup {""} : ChooseFilter(choice)
        \/ \E d \in Device : SelectRow(d)
        \/ \E command \in Commands : SendCommand(command)
        \/ CommandFails

(* The timer fires, the browser runs what is ready, and every call of the  *)
(* gateway returns (CallReturns of IpcExchange), if only with an error.    *)
Fair(r) == /\ WF_vars(StartRefresh(r))
           /\ WF_vars(AnswerHealth(r)) /\ WF_vars(AnswerDevices(r))
           /\ WF_vars(FailRefresh(r) \/ ApplyRefresh(r))

Spec == Init /\ [][Next]_vars /\ \A r \in Slots : Fair(r)

-----------------------------------------------------------------------------
(* Properties.                                                             *)

Refresh(n) == [open : BOOLEAN, health : 0 .. n, devices : 0 .. n,
               failed : BOOLEAN, own : BOOLEAN]
Post(n)    == [phase : {"none", "sent", "accepted", "refreshing"}, device : Device \cup {""},
               command : Commands \cup {""}, version : 0 .. n]

(* The state has its type. *)
TypeOK ==
  /\ hub \in Seq([Device -> Status]) /\ Len(hub) \in 1 .. MaxVersions
  /\ refreshes \in [Slots -> Refresh(Len(hub))]
  /\ shown \in 0 .. Len(hub) /\ metrics \in 0 .. Len(hub)
  /\ selected \in Device \cup {""}
  /\ filter \in Status \cup {""} /\ control \in Status \cup {""}
  /\ DOMAIN table \subseteq Device
  /\ detail \in {Hidden} \cup [id : Device, status : Status]
  /\ post \in Post(Len(hub))

(* Every handler renders what it changes: table and detail panel always    *)
(* show the devices, the filter and the selection the page holds, in       *)
(* whatever order refreshes, clicks and choices come.                      *)
PageRendered == /\ table = Rows(shown, filter, selected)
                /\ detail = Detail(shown, selected)

(* A command goes to a device that supports it: the button was made for    *)
(* the device of the detail panel, and the command is sent to the one that *)
(* is selected at the click.                                               *)
CommandFitsDevice == post.phase # "none" => post.command \in Supported[post.device]

(* The refresh that follows an accepted command shows a state with it.     *)
ShowsOwnCommand ==
  [][\A r \in Slots : refreshes[r].own /\ ~refreshes[r].failed /\ ~refreshes'[r].open
       => shown' >= post.version /\ metrics' >= post.version]_vars

(* Overlapping refreshes may show an old state for a while, but if they do *)
(* not fail for ever, the page settles on the last state of the hub.       *)
PageCatchesUp ==
  <>[](\A r \in Slots : ~refreshes[r].failed)
    => (Len(hub) = MaxVersions ~> [](shown = MaxVersions /\ metrics = MaxVersions))

(* "Live state reported by the service device registry": what the page     *)
(* shows never goes back to an earlier state of the hub.                   *)
(* Expected to fail: the answers of an older refresh may arrive last.      *)
NeverGoesBack == [][shown' >= shown]_vars

(* What the select elements say is what the table is filtered by.          *)
(* Expected to fail: when the chosen status vanishes from the devices,     *)
(* updateFilters resets the element and leaves state.statusFilter alone.   *)
FilterShownApplies == control = filter
=============================================================================
