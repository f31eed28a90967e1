----------------------------- MODULE WebUiProofs ------------------------------
(***************************************************************************)
(* Proofs of the safety properties of WebUi, for every number of devices,  *)
(* of overlapping refreshes and of states of the hub, of what it takes to  *)
(* break the two that the page does not have, and, for up to four          *)
(* refreshes in flight, that the page settles.                             *)
(***************************************************************************)
EXTENDS WebUi, SequenceTheorems, TLAPS

(* The refresh that follows a command is the only one of its kind, as the  *)
(* next command waits for it, and is answered after the hub had it.        *)
OwnRefresh ==
  /\ \A r \in Slots : refreshes[r].own =>
       /\ refreshes[r].open /\ post.phase = "refreshing"
       /\ refreshes[r].health # 0 => refreshes[r].health >= post.version
       /\ refreshes[r].devices # 0 => refreshes[r].devices >= post.version
  /\ \A r, s \in Slots : refreshes[r].own /\ refreshes[s].own => r = s

IInv == /\ TypeOK
        /\ PageRendered
        /\ CommandFitsDevice
        /\ OwnRefresh

-----------------------------------------------------------------------------
(* What the steps leave alone keeps its type as the hub goes on.           *)

LEMMA RefreshTypes ==
  ASSUME NEW n \in Nat
  PROVE  /\ NoRefresh \in Refresh(n)
         /\ \A own \in BOOLEAN : NewRefresh(own) \in Refresh(n)
BY DEF NoRefresh, NewRefresh, Refresh

LEMMA Types ==
  ASSUME TypeOK
  PROVE  /\ Len(hub) \in Nat \ {0}
         /\ refreshes \in [Slots -> Refresh(Len(hub))]
         /\ \A r \in Slots : refreshes[r] \in Refresh(Len(hub))
         /\ shown \in 0 .. Len(hub)
         /\ post \in Post(Len(hub))
<1>1. Len(hub) \in 1 .. MaxVersions
  BY DEF TypeOK
<1>2. refreshes \in [Slots -> Refresh(Len(hub))]
  BY DEF TypeOK
<1>3. \A r \in Slots : refreshes[r] \in Refresh(Len(hub))
  BY <1>2
<1>4. shown \in 0 .. Len(hub)
  BY DEF TypeOK
<1>5. post \in Post(Len(hub))
  BY DEF TypeOK
<1>6. Len(hub) \in Nat \ {0}
  BY <1>1, BoundAssumption
<1> QED BY <1>2, <1>3, <1>4, <1>5, <1>6

LEMMA Appended ==
  ASSUME NEW S, NEW s \in Seq(S), NEW e \in S
  PROVE  /\ Append(s, e) \in Seq(S)
         /\ Len(Append(s, e)) = Len(s) + 1
         /\ \A n \in 1 .. Len(s) : Append(s, e)[n] = s[n]
OBVIOUS

(* The hub keeps its past states, so that what the page holds of them      *)
(* looks the same.                                                         *)
LEMMA Past ==
  ASSUME TypeOK, NEW h \in [Device -> Status], hub' = Append(hub, h), Len(hub) < MaxVersions
  PROVE  /\ hub' \in Seq([Device -> Status])
         /\ Len(hub') = Len(hub) + 1 /\ Len(hub') \in 1 .. MaxVersions
         /\ \A n \in 1 .. Len(hub) : hub'[n] = hub[n]
<1>1. hub \in Seq([Device -> Status]) /\ Len(hub) \in 1 .. MaxVersions
  BY DEF TypeOK
<1>2. /\ hub' \in Seq([Device -> Status])
      /\ Len(hub') = Len(hub) + 1
      /\ \A n \in 1 .. Len(hub) : hub'[n] = hub[n]
  <2> DEFINE S == [Device -> Status]
  <2>1. hub \in Seq(S) /\ h \in S
    BY <1>1
  <2> HIDE DEF S
  <2>2. hub' \in Seq(S) /\ Len(hub') = Len(hub) + 1 /\ \A n \in 1 .. Len(hub) : hub'[n] = hub[n]
    BY <2>1, Appended
  <2> QED BY <2>2 DEF S
<1> QED BY <1>1, <1>2, BoundAssumption

LEMMA RenderedOfPast ==
  ASSUME TypeOK, PageRendered, UNCHANGED pageVars,
         \A n \in 1 .. Len(hub) : hub'[n] = hub[n]
  PROVE  PageRendered'
<1>1. shown \in 0 .. Len(hub) /\ Len(hub) \in Nat
  BY Types
<1>2. CASE shown = 0
  BY <1>2 DEF PageRendered, Rows, Detail, pageVars
<1>3. CASE shown # 0
  <2>1. hub'[shown] = hub[shown]
    BY <1>1, <1>3
  <2> QED BY <2>1 DEF PageRendered, Rows, Detail, pageVars
<1> QED BY <1>2, <1>3

(* A step of the refreshes and the command alone. *)
LEMMA RenderedStill ==
  ASSUME PageRendered, UNCHANGED <<hub, pageVars>>
  PROVE  PageRendered'
BY DEF PageRendered, Rows, Detail, pageVars

LEMMA InitIInv == ASSUME Init PROVE IInv
<1>1. PICK h \in InitialHubs : hub = <<h>>
  BY DEF Init
<1>2. h \in [Device -> Status] /\ hub \in Seq([Device -> Status]) /\ Len(hub) = 1
  BY <1>1, HubAssumption
<1>3. PICK r0 \in Slots : refreshes = [s \in Slots |-> IF s = r0 THEN NewRefresh(FALSE)
                                                                 ELSE NoRefresh]
  BY DEF Init
<1>4. /\ refreshes \in [Slots -> Refresh(Len(hub))]
      /\ \A s \in Slots : ~refreshes[s].own
  <2>1. \A s \in Slots : refreshes[s] \in {NewRefresh(FALSE), NoRefresh}
    BY <1>3
  <2>2. ~NewRefresh(FALSE).own /\ ~NoRefresh.own
    BY DEF NoRefresh, NewRefresh
  <2>3. \A s \in Slots : refreshes[s] \in Refresh(Len(hub))
    BY <1>2, <2>1, RefreshTypes
  <2> QED BY <1>3, <2>1, <2>2, <2>3
<1>5. TypeOK
  <2>1. post \in Post(Len(hub))
    <3>1. 0 \in 0 .. Len(hub)
      BY <1>2
    <3> QED BY <3>1 DEF Init, NoPost, Post
  <2>2. DOMAIN table \subseteq Device
    BY DEF Init
  <2>3. Len(hub) \in 1 .. MaxVersions
    BY <1>2, BoundAssumption
  <2>4. shown \in 0 .. Len(hub) /\ metrics \in 0 .. Len(hub)
    <3>1. shown = 0 /\ metrics = 0
      BY DEF Init
    <3> QED BY <1>2, <3>1
  <2>5. /\ selected \in Device \cup {""}
        /\ filter \in Status \cup {""} /\ control \in Status \cup {""}
        /\ detail \in {Hidden} \cup [id : Device, status : Status]
    BY Zenon DEF Init
  <2> QED BY <1>2, <1>4, <2>1, <2>2, <2>3, <2>4, <2>5 DEF TypeOK
<1>6. PageRendered
  BY DEF Init, PageRendered, Detail, Rows
<1> QED BY <1>4, <1>5, <1>6 DEF IInv, CommandFitsDevice, OwnRefresh, Init, NoPost

-----------------------------------------------------------------------------
(* The hub goes on.                                                        *)

LEMMA GrowIInv ==
  ASSUME IInv, UNCHANGED <<refreshes, pageVars>>,
         NEW h \in [Device -> Status], hub' = Append(hub, h), Len(hub) < MaxVersions,
         post' \in Post(Len(hub) + 1),
         CommandFitsDevice', OwnRefresh'
  PROVE  IInv'
<1>1. TypeOK
  BY DEF IInv
<1>2. /\ hub' \in Seq([Device -> Status])
      /\ Len(hub') = Len(hub) + 1 /\ Len(hub') \in 1 .. MaxVersions
      /\ \A n \in 1 .. Len(hub) : hub'[n] = hub[n]
  BY <1>1, Past
<1>3. Len(hub) \in Nat /\ refreshes \in [Slots -> Refresh(Len(hub))]
  BY <1>1, Types
<1>4. refreshes' \in [Slots -> Refresh(Len(hub'))]
  <2>1. 0 .. Len(hub) \subseteq 0 .. Len(hub) + 1
    BY <1>3
  <2>2. Refresh(Len(hub)) \subseteq Refresh(Len(hub) + 1)
    BY <2>1 DEF Refresh
  <2> QED BY <1>2, <1>3, <2>2
<1>5. shown' \in 0 .. Len(hub') /\ metrics' \in 0 .. Len(hub')
  <2>1. shown \in 0 .. Len(hub) /\ metrics \in 0 .. Len(hub)
    BY <1>1 DEF TypeOK
  <2> QED BY <1>2, <1>3, <2>1 DEF pageVars
<1>6. /\ selected' \in Device \cup {""}
      /\ filter' \in Status \cup {""} /\ control' \in Status \cup {""}
      /\ DOMAIN table' \subseteq Device
      /\ detail' \in {Hidden} \cup [id : Device, status : Status]
  BY <1>1, Zenon DEF TypeOK, pageVars
<1>7. TypeOK'
  BY <1>2, <1>4, <1>5, <1>6 DEF TypeOK
<1>8. PageRendered'
  BY <1>1, <1>2, RenderedOfPast DEF IInv
<1> QED BY <1>7, <1>8 DEF IInv

LEMMA HubIInv ==
  ASSUME IInv, (\E d \in Device, s \in Status : HubChanges(d, s)) \/ AcceptCommand
  PROVE  IInv'
<1> USE DEF HubChanges, AcceptCommand
<1>1. TypeOK /\ Len(hub) \in Nat \ {0} /\ hub[Len(hub)] \in [Device -> Status]
  <2>1. TypeOK /\ Len(hub) \in Nat \ {0}
    BY Types DEF IInv
  <2>2. hub \in Seq([Device -> Status])
    BY <2>1 DEF TypeOK
  <2> QED BY <2>1, <2>2, ElementOfSeq
<1>2. post \in Post(Len(hub))
  BY <1>1, Types
<1>5. post \in Post(Len(hub) + 1)
  <2>1. 0 .. Len(hub) \subseteq 0 .. Len(hub) + 1
    BY <1>1
  <2> QED BY <1>2, <2>1 DEF Post
<1>3. CASE \E d \in Device, s \in Status : HubChanges(d, s)
  <2> PICK d \in Device, s \in Status : HubChanges(d, s)
    BY <1>3
  <2>1. CommandFitsDevice' /\ OwnRefresh'
    BY DEF IInv, CommandFitsDevice, OwnRefresh
  <2>2. [hub[Len(hub)] EXCEPT ![d] = s] \in [Device -> Status]
    BY <1>1
  <2>3. post' \in Post(Len(hub) + 1)
    BY <1>5
  <2> QED BY <2>1, <2>2, <2>3, GrowIInv
<1>4. CASE AcceptCommand
  <2>1. CommandFitsDevice' /\ OwnRefresh'
    BY <1>2, <1>4 DEF IInv, CommandFitsDevice, OwnRefresh, Post
  <2>2. post' \in Post(Len(hub) + 1)
    <3>1. post' = [post EXCEPT !.phase = "accepted", !.version = Len(hub) + 1]
      BY <1>4
    <3>2. Len(hub) + 1 \in 0 .. Len(hub) + 1
      BY <1>1
    <3> HIDE <1>4
    <3> QED BY <1>5, <3>1, <3>2 DEF Post
  <2> QED BY <1>1, <1>4, <2>1, <2>2, GrowIInv
<1> QED BY <1>3, <1>4

-----------------------------------------------------------------------------
(* The refreshes and the command.                                          *)

LEMMA AnswerIInv ==
  ASSUME IInv, UNCHANGED <<hub, pageVars>>,
         refreshes' \in [Slots -> Refresh(Len(hub))],
         post' \in Post(Len(hub)),
         CommandFitsDevice', OwnRefresh'
  PROVE  IInv'
<1>1. TypeOK'
  BY DEF IInv, TypeOK, pageVars
<1>2. PageRendered'
  BY RenderedStill DEF IInv
<1> QED BY <1>1, <1>2 DEF IInv

(* The refresh in slot r becomes v. *)
LEMMA SlotIInv ==
  ASSUME IInv, UNCHANGED <<hub, pageVars, post>>,
         NEW r \in Slots, NEW v \in Refresh(Len(hub)),
         refreshes' = [refreshes EXCEPT ![r] = v],
         v.own => /\ refreshes[r].own /\ v.open
                  /\ v.health # 0 => v.health >= post.version
                  /\ v.devices # 0 => v.devices >= post.version
  PROVE  IInv'
<1>1. /\ refreshes \in [Slots -> Refresh(Len(hub))]
      /\ post \in Post(Len(hub))
  BY Types DEF IInv
<1>2. refreshes' \in [Slots -> Refresh(Len(hub))]
  BY <1>1
<1>3. \A s \in Slots : refreshes'[s] = IF s = r THEN v ELSE refreshes[s]
  BY <1>1
<1>4. OwnRefresh'
  BY <1>3 DEF IInv, OwnRefresh
<1>5. CommandFitsDevice'
  BY DEF IInv, CommandFitsDevice
<1> QED BY <1>1, <1>2, <1>4, <1>5, AnswerIInv

LEMMA AnswersIInv ==
  ASSUME IInv, NEW r \in Slots,
         AnswerHealth(r) \/ AnswerDevices(r) \/ AnswerFails(r) \/ StartRefresh(r)
  PROVE  IInv'
<1>1. /\ Len(hub) \in Nat \ {0}
      /\ refreshes[r] \in Refresh(Len(hub))
      /\ post \in Post(Len(hub)) /\ post.version \in 0 .. Len(hub)
  BY Types DEF IInv, Post
<1>2. refreshes[r].own => /\ refreshes[r].open
                          /\ refreshes[r].health # 0 => refreshes[r].health >= post.version
                          /\ refreshes[r].devices # 0 => refreshes[r].devices >= post.version
  BY DEF IInv, OwnRefresh
<1>3. 0 \in 0 .. Len(hub) /\ Len(hub) \in 0 .. Len(hub) /\ Len(hub) >= post.version
  BY <1>1
<1>4. CASE AnswerHealth(r)
  <2> DEFINE v == [refreshes[r] EXCEPT !.health = Len(hub)]
  <2>1. v \in Refresh(Len(hub)) /\ v.own = refreshes[r].own /\ v.open = refreshes[r].open
        /\ v.devices = refreshes[r].devices /\ v.health = Len(hub)
    BY <1>1, <1>3 DEF Refresh
  <2>2. refreshes' = [refreshes EXCEPT ![r] = v] /\ UNCHANGED <<hub, pageVars, post>>
    BY <1>4 DEF AnswerHealth
  <2> HIDE DEF v
  <2> QED BY <1>2, <1>3, <2>1, <2>2, SlotIInv
<1>5. CASE AnswerDevices(r)
  <2> DEFINE v == [refreshes[r] EXCEPT !.devices = Len(hub)]
  <2>1. v \in Refresh(Len(hub)) /\ v.own = refreshes[r].own /\ v.open = refreshes[r].open
        /\ v.health = refreshes[r].health /\ v.devices = Len(hub)
    BY <1>1, <1>3 DEF Refresh
  <2>2. refreshes' = [refreshes EXCEPT ![r] = v] /\ UNCHANGED <<hub, pageVars, post>>
    BY <1>5 DEF AnswerDevices
  <2> HIDE DEF v
  <2> QED BY <1>2, <1>3, <2>1, <2>2, SlotIInv
<1>6. CASE AnswerFails(r)
  <2> DEFINE v == [refreshes[r] EXCEPT !.health = 0, !.devices = 0, !.failed = TRUE]
  <2>2. v \in Refresh(Len(hub)) /\ v.own = refreshes[r].own /\ v.open = refreshes[r].open
        /\ v.health = 0 /\ v.devices = 0
    BY <1>1, <1>3 DEF Refresh
  <2>3. refreshes' = [refreshes EXCEPT ![r] = v] /\ UNCHANGED <<hub, pageVars, post>>
    BY <1>6 DEF AnswerFails
  <2> HIDE DEF v
  <2> QED BY <1>2, <2>2, <2>3, SlotIInv
<1>7. CASE StartRefresh(r)
  <2>1. NewRefresh(FALSE) \in Refresh(Len(hub)) /\ ~NewRefresh(FALSE).own
    BY <1>1, RefreshTypes DEF NewRefresh
  <2>2. refreshes' = [refreshes EXCEPT ![r] = NewRefresh(FALSE)] /\ UNCHANGED <<hub, pageVars, post>>
    BY <1>7 DEF StartRefresh
  <2> QED BY <2>1, <2>2, SlotIInv
<1> QED BY <1>4, <1>5, <1>6, <1>7

LEMMA CommandAcceptedIInv ==
  ASSUME IInv, NEW r \in Slots, CommandAccepted(r)
  PROVE  IInv'
<1> USE DEF CommandAccepted
<1>1. /\ Len(hub) \in Nat \ {0}
      /\ refreshes \in [Slots -> Refresh(Len(hub))]
      /\ post \in Post(Len(hub))
  BY Types DEF IInv
<1>2. NewRefresh(TRUE) \in Refresh(Len(hub))
  BY <1>1, RefreshTypes
<1>3. refreshes' \in [Slots -> Refresh(Len(hub))]
  BY <1>1, <1>2
<1>4. post' \in Post(Len(hub)) /\ CommandFitsDevice'
  BY <1>1 DEF IInv, CommandFitsDevice, Post
<1>5. OwnRefresh'
  <2>1. \A s \in Slots : ~refreshes[s].own
    BY DEF IInv, OwnRefresh
  <2>2. \A s \in Slots : refreshes'[s] = IF s = r THEN NewRefresh(TRUE) ELSE refreshes[s]
    BY <1>1
  <2>3. post'.phase = "refreshing"
    BY <1>1 DEF Post
  <2> QED BY <2>1, <2>2, <2>3 DEF OwnRefresh, NewRefresh
<1> QED BY <1>3, <1>4, <1>5, AnswerIInv

(* The buttons are those of the device that is selected. *)
LEMMA CommandIInv ==
  ASSUME IInv, (\E command \in Commands : SendCommand(command)) \/ CommandFails
  PROVE  IInv'
<1>1. /\ Len(hub) \in Nat \ {0}
      /\ refreshes \in [Slots -> Refresh(Len(hub))]
  BY Types DEF IInv
<1>8. selected \in Device \cup {""}
  BY DEF IInv, TypeOK
<1>2. \A s \in Slots : ~refreshes[s].own
  BY DEF IInv, OwnRefresh, SendCommand, CommandFails
<1>3. UNCHANGED <<hub, refreshes, pageVars>>
  BY DEF SendCommand, CommandFails
<1>4. OwnRefresh'
  BY <1>2, <1>3 DEF OwnRefresh
<1>5. 0 \in 0 .. Len(hub)
  BY <1>1
<1>6. CASE \E command \in Commands : SendCommand(command)
  <2>1. PICK command \in Commands : SendCommand(command)
    BY <1>6
  <2>2. post' = [phase |-> "sent", device |-> selected, command |-> command, version |-> 0]
    BY <2>1 DEF SendCommand, NoPost
  <2>3. command \in Supported[selected]
    BY <2>1 DEF IInv, PageRendered, Detail, SendCommand
  <2>4. post' \in Post(Len(hub))
    BY <1>5, <1>8, <2>2 DEF Post
  <2>5. CommandFitsDevice'
    BY <2>2, <2>3 DEF CommandFitsDevice
  <2> QED BY <1>1, <1>3, <1>4, <2>4, <2>5, AnswerIInv
<1>7. CASE CommandFails
  <2>1. post' = [phase |-> "none", device |-> "", command |-> "", version |-> 0]
    BY <1>7 DEF CommandFails, NoPost
  <2>2. post' \in Post(Len(hub)) /\ CommandFitsDevice'
    BY <1>5, <2>1 DEF Post, CommandFitsDevice
  <2> QED BY <1>1, <1>3, <1>4, <2>2, AnswerIInv
<1> QED BY <1>6, <1>7

-----------------------------------------------------------------------------
(* The page.                                                               *)

LEMMA VersionTypes ==
  ASSUME TypeOK, NEW version \in 0 .. Len(hub), version # 0
  PROVE  hub[version] \in [Device -> Status]
<1>1. version \in 1 .. Len(hub)
  BY Types
<1>2. hub \in Seq([Device -> Status])
  BY DEF TypeOK
<1> QED BY <1>1, <1>2, ElementOfSeq

LEMMA RenderTypes ==
  ASSUME TypeOK, NEW version \in 0 .. Len(hub), NEW s \in Device \cup {""}, NEW f
  PROVE  /\ DOMAIN Rows(version, f, s) \subseteq Device
         /\ Detail(version, s) \in {Hidden} \cup [id : Device, status : Status]
<1>1. DOMAIN Rows(version, f, s) \subseteq Device
  BY DEF Rows
<1>2. CASE version # 0 /\ s # ""
  <2>4. hub[version] \in [Device -> Status]
    BY <1>2, VersionTypes
  <2>5. s \in Device
    BY <1>2
  <2>6. hub[version][s] \in Status
    BY <2>4, <2>5
  <2> QED BY <1>1, <1>2, <2>5, <2>6 DEF Detail
<1>3. CASE ~(version # 0 /\ s # "")
  BY <1>1, <1>3, Zenon DEF Detail
<1> QED BY <1>2, <1>3

(* A refresh ends: its slot is free, and its command, if any, is done.     *)
LEMMA EndRefreshIs ==
  ASSUME IInv, NEW r \in Slots, EndRefresh(r)
  PROVE  /\ refreshes' \in [Slots -> Refresh(Len(hub))]
         /\ \A s \in Slots : refreshes'[s] = IF s = r THEN NoRefresh ELSE refreshes[s]
         /\ post' \in Post(Len(hub))
         /\ CommandFitsDevice' /\ OwnRefresh'
<1>1. /\ Len(hub) \in Nat \ {0}
      /\ refreshes \in [Slots -> Refresh(Len(hub))]
      /\ post \in Post(Len(hub))
      /\ NoRefresh \in Refresh(Len(hub))
  BY Types, RefreshTypes DEF IInv
<1>2. /\ refreshes' \in [Slots -> Refresh(Len(hub))]
      /\ \A s \in Slots : refreshes'[s] = IF s = r THEN NoRefresh ELSE refreshes[s]
  BY <1>1 DEF EndRefresh
<1>3. post' = NoPost \/ post' = post
  BY DEF EndRefresh
<1>4. post' \in Post(Len(hub))
  <2>1. 0 \in 0 .. Len(hub)
    BY <1>1
  <2>2. NoPost \in Post(Len(hub))
    BY <2>1 DEF NoPost, Post
  <2> QED BY <1>1, <1>3, <2>2
<1>5. CommandFitsDevice'
  <2>1. CASE post' = NoPost
    BY <2>1 DEF CommandFitsDevice, NoPost
  <2>2. CASE post' = post
    BY <2>2 DEF IInv, CommandFitsDevice
  <2> QED BY <1>3, <2>1, <2>2
<1>6. ~NoRefresh.own
  BY DEF NoRefresh
<1>7. CASE refreshes[r].own
  <2>1. \A s \in Slots : ~refreshes'[s].own
    BY <1>2, <1>6, <1>7 DEF IInv, OwnRefresh
  <2> QED BY <1>2, <1>4, <1>5, <2>1 DEF OwnRefresh
<1>8. CASE ~refreshes[r].own
  <2>1. post' = post
    BY <1>8 DEF EndRefresh
  <2>2. OwnRefresh'
    BY <1>2, <1>6, <2>1 DEF IInv, OwnRefresh
  <2> QED BY <1>2, <1>4, <1>5, <2>2
<1> QED BY <1>7, <1>8

LEMMA FailRefreshIInv ==
  ASSUME IInv, NEW r \in Slots, FailRefresh(r)
  PROVE  IInv'
BY EndRefreshIs, AnswerIInv DEF FailRefresh, EndRefresh

(* A step that sets the page renders it.                                   *)
LEMMA PageIInv ==
  ASSUME IInv, UNCHANGED hub,
         refreshes' \in [Slots -> Refresh(Len(hub))],
         post' \in Post(Len(hub)),
         shown' \in 0 .. Len(hub), metrics' \in 0 .. Len(hub),
         selected' \in Device \cup {""},
         filter' \in Status \cup {""}, control' \in Status \cup {""},
         table' = Rows(shown', filter', selected'),
         detail' = Detail(shown', selected'),
         CommandFitsDevice', OwnRefresh'
  PROVE  IInv'
<1>1. /\ DOMAIN table' \subseteq Device
      /\ detail' \in {Hidden} \cup [id : Device, status : Status]
  BY RenderTypes DEF IInv
<1>2. hub' \in Seq([Device -> Status]) /\ Len(hub') \in 1 .. MaxVersions
  BY DEF IInv, TypeOK
<1>3. TypeOK'
  BY <1>1, <1>2, Zenon DEF TypeOK
<1>4. PageRendered'
  BY DEF PageRendered, Rows, Detail
<1> QED BY <1>3, <1>4 DEF IInv

LEMMA ApplyRefreshIInv ==
  ASSUME IInv, NEW r \in Slots, ApplyRefresh(r)
  PROVE  IInv'
<1>1. refreshes[r] \in Refresh(Len(hub)) /\ EndRefresh(r) /\ UNCHANGED <<hub, filter>>
  BY Types DEF IInv, ApplyRefresh, EndRefresh
<1>2. shown' \in 0 .. Len(hub) /\ metrics' \in 0 .. Len(hub)
  BY <1>1 DEF ApplyRefresh, Refresh
<1>3. /\ selected' \in Device \cup {""}
      /\ filter' \in Status \cup {""} /\ control' \in Status \cup {""}
  BY <1>1, Zenon DEF IInv, TypeOK, ApplyRefresh
<1>4. table' = Rows(shown', filter', selected') /\ detail' = Detail(shown', selected')
  BY <1>1 DEF ApplyRefresh
<1> QED BY <1>1, <1>2, <1>3, <1>4, EndRefreshIs, PageIInv

LEMMA ClickIInv ==
  ASSUME IInv,
         \/ \E choice \in Status \cup {""} : ChooseFilter(choice)
         \/ \E d \in Device : SelectRow(d)
  PROVE  IInv'
<1>1. /\ refreshes' \in [Slots -> Refresh(Len(hub))] /\ post' \in Post(Len(hub))
      /\ UNCHANGED <<hub, refreshes, shown, metrics, post>>
  BY Types DEF IInv, ChooseFilter, SelectRow
<1>2. shown' \in 0 .. Len(hub) /\ metrics' \in 0 .. Len(hub)
  BY <1>1, Zenon DEF IInv, TypeOK
<1>3. CommandFitsDevice' /\ OwnRefresh'
  BY <1>1 DEF IInv, CommandFitsDevice, OwnRefresh
<1>4. /\ selected' \in Device \cup {""}
      /\ filter' \in Status \cup {""} /\ control' \in Status \cup {""}
  BY Zenon DEF IInv, TypeOK, ChooseFilter, SelectRow
<1>5. table' = Rows(shown', filter', selected') /\ detail' = Detail(shown', selected')
  BY DEF IInv, PageRendered, ChooseFilter, SelectRow
<1> QED BY <1>1, <1>2, <1>3, <1>4, <1>5, PageIInv

LEMMA StutterIInv == ASSUME IInv, UNCHANGED vars PROVE IInv'
<1>1. UNCHANGED <<hub, refreshes, pageVars, post>>
  BY DEF vars
<1>2. refreshes' \in [Slots -> Refresh(Len(hub))] /\ post' \in Post(Len(hub))
  BY <1>1, Types DEF IInv
<1>3. CommandFitsDevice' /\ OwnRefresh'
  BY <1>1 DEF IInv, CommandFitsDevice, OwnRefresh
<1> QED BY <1>1, <1>2, <1>3, AnswerIInv

-----------------------------------------------------------------------------

(* The invariant holds in every state of the page, whatever the order of   *)
(* refreshes, clicks and commands.                                         *)
THEOREM Invariance == Spec => []IInv
<1>1. Init => IInv
  BY InitIInv
<1>2. IInv /\ [Next]_vars => IInv'
  BY HubIInv, AnswersIInv, CommandAcceptedIInv, CommandIInv, FailRefreshIInv, ApplyRefreshIInv,
     ClickIInv, StutterIInv DEF Next
<1> QED BY <1>1, <1>2, PTL DEF Spec

(* The state of the page always has its type.                              *)
THEOREM TypeCorrect == Spec => []TypeOK
BY Invariance, PTL DEF IInv

(* The page always shows what it holds.                                    *)
THEOREM AlwaysRendered == Spec => []PageRendered
BY Invariance, PTL DEF IInv

(* No command is ever sent to a device that does not support it.           *)
THEOREM CommandsFit == Spec => []CommandFitsDevice
BY Invariance, PTL DEF IInv

(* The refresh after an accepted command shows a state with it in it.      *)
THEOREM OwnCommandShown == Spec => ShowsOwnCommand
<1> DEFINE Shows ==
      \A r \in Slots : refreshes[r].own /\ ~refreshes[r].failed /\ ~refreshes'[r].open
        => shown' >= post.version /\ metrics' >= post.version
<1>1. ASSUME IInv, Next PROVE Shows
  <2>1. refreshes \in [Slots -> Refresh(Len(hub))]
    BY <1>1, Types DEF IInv
  <2>2. SUFFICES ASSUME NEW q \in Slots, refreshes[q].own, ~refreshes[q].failed, ~refreshes'[q].open
                 PROVE  shown' >= post.version /\ metrics' >= post.version
    OBVIOUS
  <2>3. /\ refreshes[q].open
        /\ refreshes[q].health # 0 => refreshes[q].health >= post.version
        /\ refreshes[q].devices # 0 => refreshes[q].devices >= post.version
    BY <1>1, <2>2 DEF IInv, OwnRefresh
  <2>4. ApplyRefresh(q)
    <3>1. ~UNCHANGED refreshes
      BY <2>2, <2>3
    <3>2. PICK r \in Slots : \/ AnswerHealth(r) \/ AnswerDevices(r) \/ AnswerFails(r)
                             \/ StartRefresh(r) \/ FailRefresh(r) \/ ApplyRefresh(r)
                             \/ CommandAccepted(r)
      BY <1>1, <3>1 DEF Next, HubChanges, AcceptCommand, ChooseFilter, SelectRow, SendCommand,
                        CommandFails
    <3>3. FailRefresh(r) \/ ApplyRefresh(r)
      BY <2>1, <2>2, <2>3, <3>2 DEF AnswerHealth, AnswerDevices, AnswerFails, StartRefresh,
                                    CommandAccepted, NewRefresh, Refresh
    <3>4. r = q
      BY <2>1, <2>2, <2>3, <3>3 DEF FailRefresh, ApplyRefresh, EndRefresh
    <3> QED BY <2>2, <3>3, <3>4 DEF FailRefresh
  <2> QED BY <2>3, <2>4 DEF ApplyRefresh
<1>2. ASSUME IInv, UNCHANGED vars PROVE Shows
  BY <1>2 DEF IInv, OwnRefresh, vars
<1>3. IInv /\ [Next]_vars => [Shows]_vars
  BY <1>1
<1> QED BY <1>3, Invariance, PTL DEF Spec, ShowsOwnCommand

-----------------------------------------------------------------------------
(* Where the page goes back, and where its filter shows what does not      *)
(* apply: two properties that the page does not have in general.           *)

(* With one refresh in flight at a time, its devices are no older than the *)
(* ones on the page.                                                       *)
NoneOlder == \A r \in Slots : refreshes[r].devices # 0 => refreshes[r].devices >= shown

LEMMA NoneOlderKept ==
  ASSUME IInv, NoneOlder, \A r, s \in Slots : r = s, Next \/ UNCHANGED vars
  PROVE  NoneOlder' /\ shown' >= shown
<1>1. /\ shown \in 0 .. Len(hub) /\ Len(hub) \in Nat
      /\ refreshes \in [Slots -> Refresh(Len(hub))]
      /\ \A r \in Slots : refreshes[r] \in Refresh(Len(hub))
  BY Types DEF IInv
<1>2. CASE UNCHANGED <<refreshes, shown>>
  BY <1>1, <1>2 DEF NoneOlder
<1>3. ASSUME NEW r \in Slots, AnswerHealth(r) \/ AnswerDevices(r) \/ AnswerFails(r)
      PROVE  NoneOlder' /\ shown' >= shown
  <2>1. shown' = shown /\ \A s \in Slots : s = r
    BY <1>3 DEF AnswerHealth, AnswerDevices, AnswerFails, pageVars
  <2>2. CASE AnswerHealth(r)
    <3>1. refreshes'[r].devices = refreshes[r].devices
      BY <1>1, <2>2 DEF AnswerHealth, Refresh
    <3> QED BY <1>1, <2>1, <3>1 DEF NoneOlder
  <2>3. CASE AnswerDevices(r)
    <3>1. refreshes'[r].devices = Len(hub)
      BY <1>1, <2>3 DEF AnswerDevices, Refresh
    <3> QED BY <1>1, <2>1, <3>1 DEF NoneOlder
  <2>4. CASE AnswerFails(r)
    <3>1. refreshes'[r].devices = 0
      BY <1>1, <2>4 DEF AnswerFails, Refresh
    <3> QED BY <1>1, <2>1, <3>1 DEF NoneOlder
  <2> QED BY <1>3, <2>2, <2>3, <2>4
<1>4. ASSUME NEW r \in Slots, StartRefresh(r) \/ FailRefresh(r) \/ CommandAccepted(r)
      PROVE  NoneOlder' /\ shown' >= shown
  <2>1. /\ shown' = shown /\ refreshes'[r].devices = 0
        /\ \A s \in Slots : s = r
    BY <1>1, <1>4 DEF StartRefresh, FailRefresh, EndRefresh, CommandAccepted, pageVars,
                      NewRefresh, NoRefresh
  <2> QED BY <1>1, <2>1 DEF NoneOlder
<1>5. ASSUME NEW r \in Slots, ApplyRefresh(r)
      PROVE  NoneOlder' /\ shown' >= shown
  <2>1. /\ shown' = refreshes[r].devices /\ refreshes[r].devices # 0
        /\ refreshes'[r].devices = 0
        /\ \A s \in Slots : s = r
    BY <1>1, <1>5 DEF ApplyRefresh, EndRefresh, NoRefresh
  <2> QED BY <1>1, <2>1 DEF NoneOlder
<1> QED BY <1>2, <1>3, <1>4, <1>5 DEF Next, HubChanges, AcceptCommand, ChooseFilter, SelectRow,
                                      SendCommand, CommandFails, pageVars, vars

(* It takes refreshes that overlap to show an older state after a newer.   *)
THEOREM GoesBackOnlyByOverlap ==
  (\A r, s \in Slots : r = s) => (Spec => NeverGoesBack)
<1> SUFFICES ASSUME \A r, s \in Slots : r = s PROVE Spec => NeverGoesBack
  OBVIOUS
<1>1. Init => NoneOlder
  <2> SUFFICES ASSUME Init, NEW r \in Slots PROVE refreshes[r].devices = 0
    BY DEF NoneOlder
  <2>1. PICK q \in Slots : refreshes = [s \in Slots |-> IF s = q THEN NewRefresh(FALSE)
                                                             ELSE NoRefresh]
    BY DEF Init
  <2>2. refreshes[r] = NewRefresh(FALSE) \/ refreshes[r] = NoRefresh
    BY <2>1
  <2> QED BY <2>2 DEF NewRefresh, NoRefresh
<1>2. IInv /\ NoneOlder /\ [Next]_vars => NoneOlder' /\ [shown' >= shown]_vars
  BY NoneOlderKept
<1> QED BY <1>1, <1>2, Invariance, PTL DEF Spec, NeverGoesBack

(* The statuses that are present never change. *)
SameStatuses == \A n, m \in 1 .. Len(hub) : StatusOptions(n) = StatusOptions(m)

(* Then what has been chosen is always one of the options. *)
ChoiceOffered ==
  /\ FilterShownApplies
  /\ control # "" => \A n \in 1 .. Len(hub) : control \in StatusOptions(n)

LEMMA Same ==
  ASSUME SameStatuses, NEW n \in 1 .. Len(hub), NEW m \in 1 .. Len(hub)
  PROVE  StatusOptions(n) = StatusOptions(m)
BY Zenon DEF SameStatuses

LEMMA ChoiceOfferedKept ==
  ASSUME IInv, IInv', SameStatuses, SameStatuses', ChoiceOffered, Next \/ UNCHANGED vars
  PROVE  ChoiceOffered'
<1>1. /\ shown \in 0 .. Len(hub) /\ Len(hub) \in Nat \ {0}
      /\ \A r \in Slots : refreshes[r] \in Refresh(Len(hub))
  BY Types DEF IInv
<1>2. shown # 0 => shown \in 1 .. Len(hub)
  BY <1>1
<1>3. CASE UNCHANGED <<hub, filter, control>>
  BY <1>3 DEF ChoiceOffered, FilterShownApplies, StatusOptions
<1>4. CASE AcceptCommand \/ \E d \in Device, s \in Status : HubChanges(d, s)
  <2>1. PICK h \in [Device -> Status] : hub' = Append(hub, h) /\ Len(hub) < MaxVersions
    <3>1. hub[Len(hub)] \in [Device -> Status]
      BY <1>1, VersionTypes DEF IInv
    <3> QED BY <1>4, <3>1 DEF AcceptCommand, HubChanges
  <2>2. Len(hub') = Len(hub) + 1 /\ \A n \in 1 .. Len(hub) : hub'[n] = hub[n]
    BY <2>1, Past DEF IInv
  <2>3. UNCHANGED <<filter, control>>
    BY <1>4 DEF AcceptCommand, HubChanges, pageVars
  <2>4. StatusOptions(1)' = StatusOptions(1) /\ 1 \in 1 .. Len(hub) /\ 1 \in 1 .. Len(hub')
    BY <1>1, <2>2 DEF StatusOptions
  <2>5. \A n \in 1 .. Len(hub') : StatusOptions(n)' = StatusOptions(1)'
    BY <2>4 DEF SameStatuses
  <2> QED BY <2>3, <2>4, <2>5 DEF ChoiceOffered, FilterShownApplies
<1>5. ASSUME NEW r \in Slots, ApplyRefresh(r)
      PROVE  ChoiceOffered'
  <2>1. shown' = refreshes[r].devices /\ shown' # 0 /\ hub' = hub /\ filter' = filter
    BY <1>5 DEF ApplyRefresh, EndRefresh
  <2>2. control' = IF control \in StatusOptions(shown') THEN control ELSE ""
    BY <1>5 DEF ApplyRefresh
  <2>3. shown' \in 1 .. Len(hub)
    <3>1. refreshes[r].devices \in 0 .. Len(hub)
      BY <1>1, <1>5 DEF Refresh
    <3>2. Len(hub) \in Nat
      BY <1>1
    <3> QED BY <2>1, <3>1, <3>2
  <2>4. control # "" => control \in StatusOptions(shown')
    BY <2>3 DEF ChoiceOffered
  <2>5. control' = control
    BY <2>4, <2>2
  <2> QED BY <1>3, <2>1, <2>5
<1>6. ASSUME NEW choice \in Status \cup {""}, ChooseFilter(choice)
      PROVE  ChoiceOffered'
  <2>1. control' = choice /\ filter' = choice /\ hub' = hub
    BY <1>6 DEF ChooseFilter
  <2>2. shown \in 1 .. Len(hub)
    BY <1>6, <1>2, Zenon DEF ChooseFilter
  <2>3. choice # "" => choice \in StatusOptions(shown)
    BY <1>6, Zenon DEF ChooseFilter
  <2>4. \A n \in 1 .. Len(hub) : StatusOptions(n) = StatusOptions(shown)
    BY <2>2, Same, Zenon
  <2>5. choice # "" => \A n \in 1 .. Len(hub) : choice \in StatusOptions(n)
    BY <2>3, <2>4, Zenon
  <2> QED BY <2>1, <2>5 DEF ChoiceOffered, FilterShownApplies, StatusOptions
<1>7. ASSUME NEW r \in Slots, AnswerHealth(r) \/ AnswerDevices(r) \/ AnswerFails(r)
                               \/ StartRefresh(r) \/ FailRefresh(r) \/ CommandAccepted(r)
      PROVE  ChoiceOffered'
  BY <1>3, <1>7 DEF AnswerHealth, AnswerDevices, AnswerFails, StartRefresh, FailRefresh,
                    EndRefresh, CommandAccepted, pageVars
<1>8. CASE \/ \E d \in Device : SelectRow(d)
           \/ \E command \in Commands : SendCommand(command)
           \/ CommandFails \/ UNCHANGED vars
  BY <1>3, <1>8 DEF SelectRow, SendCommand, CommandFails, pageVars, vars
<1> QED BY <1>4, <1>5, <1>6, <1>7, <1>8 DEF Next

(* It takes a status that comes or goes to show a filter that does not     *)
(* apply: updateFilters resets the element for no other reason.            *)
THEOREM FilterFailsOnlyByVanishing == Spec /\ []SameStatuses => []FilterShownApplies
<1>1. Init => ChoiceOffered
  BY DEF Init, ChoiceOffered, FilterShownApplies
<1>2. IInv /\ IInv' /\ SameStatuses /\ SameStatuses' /\ ChoiceOffered /\ [Next]_vars
        => ChoiceOffered'
  BY ChoiceOfferedKept
<1>3. ChoiceOffered => FilterShownApplies
  BY DEF ChoiceOffered
<1> QED BY <1>1, <1>2, <1>3, Invariance, PTL DEF Spec
-----------------------------------------------------------------------------
(* The page settles.  What ENABLED means is out of the prover's reach, so   *)
(* that an action is enabled in every state in which its guard holds is a  *)
(* hypothesis, GuardsEnable.                                               *)

(* The stages of a slot. *)
Free(r)  == ~refreshes[r].open
Asked(r) == refreshes[r].open /\ refreshes[r].health = 0
Half(r)  == refreshes[r].open /\ refreshes[r].health # 0 /\ refreshes[r].devices = 0
Ready(r) == refreshes[r].open /\ refreshes[r].health # 0 /\ refreshes[r].devices # 0

(* A page without devices could select none. *)
GuardsEnable ==
  \A r \in Slots :
    /\ Free(r) => ENABLED <<StartRefresh(r)>>_vars
    /\ ~refreshes[r].failed =>
         /\ Asked(r) => ENABLED <<AnswerHealth(r)>>_vars
         /\ Half(r)  => ENABLED <<AnswerDevices(r)>>_vars
         /\ Ready(r) /\ Device # {} => ENABLED <<FailRefresh(r) \/ ApplyRefresh(r)>>_vars

(* The hub is in its last state, and no refresh fails any more. *)
Calm == Len(hub) = MaxVersions /\ \A r \in Slots : ~refreshes[r].failed

(* No answer from an earlier state is in the slot. *)
UpToDate(r) == /\ refreshes[r].health \in {0, MaxVersions}
               /\ refreshes[r].devices \in {0, MaxVersions}

Settled == shown = MaxVersions /\ metrics = MaxVersions

(* What a step does to a slot in which nothing fails.                      *)
SlotKept(r)     == refreshes'[r] = refreshes[r]
SlotStarted(r)  == Free(r) /\ \E own \in BOOLEAN : refreshes'[r] = NewRefresh(own)
SlotHealth(r)   == Asked(r) /\ refreshes'[r] = [refreshes[r] EXCEPT !.health = Len(hub)]
SlotDevices(r)  == /\ refreshes[r].open /\ refreshes[r].devices = 0
                   /\ refreshes'[r] = [refreshes[r] EXCEPT !.devices = Len(hub)]
SlotApplied(r)  == Ready(r) /\ ApplyRefresh(r) /\ refreshes'[r] = NoRefresh
SlotFailed(r)   == refreshes[r].failed \/ refreshes'[r].failed

SlotMoves(r) == \/ SlotKept(r) \/ SlotStarted(r) \/ SlotHealth(r) \/ SlotDevices(r)
                \/ SlotApplied(r) \/ SlotFailed(r)

LEMMA EverySlotMoves ==
  ASSUME IInv, Next \/ UNCHANGED vars, NEW r \in Slots
  PROVE  SlotMoves(r)
<1>1. refreshes \in [Slots -> Refresh(Len(hub))]
  BY Types DEF IInv
<1>2. ASSUME NEW q \in Slots, q # r,
             \/ AnswerHealth(q) \/ AnswerDevices(q) \/ AnswerFails(q) \/ StartRefresh(q)
             \/ FailRefresh(q) \/ ApplyRefresh(q) \/ CommandAccepted(q)
      PROVE  SlotKept(r)
  <2>1. \E v : refreshes' = [refreshes EXCEPT ![q] = v]
    BY <1>2 DEF AnswerHealth, AnswerDevices, AnswerFails, StartRefresh, FailRefresh,
                ApplyRefresh, CommandAccepted, EndRefresh
  <2> QED BY <1>1, <1>2, <2>1 DEF SlotKept
<1>3. AnswerHealth(r) => SlotHealth(r)
  BY <1>1 DEF AnswerHealth, SlotHealth, Asked
<1>4. AnswerDevices(r) => SlotDevices(r)
  BY <1>1 DEF AnswerDevices, SlotDevices
<1>5. AnswerFails(r) => refreshes'[r].failed
  BY <1>1 DEF AnswerFails, Refresh
<1>6. StartRefresh(r) \/ CommandAccepted(r) => SlotStarted(r)
  BY <1>1 DEF StartRefresh, CommandAccepted, SlotStarted, Free
<1>7. FailRefresh(r) => refreshes[r].failed
  BY DEF FailRefresh
<1>8. ApplyRefresh(r) => SlotApplied(r)
  BY <1>1 DEF ApplyRefresh, EndRefresh, SlotApplied, Ready
<1>9. (\/ \E d \in Device, s \in Status : HubChanges(d, s)
       \/ AcceptCommand
       \/ \E choice \in Status \cup {""} : ChooseFilter(choice)
       \/ \E d \in Device : SelectRow(d)
       \/ \E command \in Commands : SendCommand(command)
       \/ CommandFails \/ UNCHANGED vars) => SlotKept(r)
  BY DEF HubChanges, AcceptCommand, ChooseFilter, SelectRow, SendCommand, CommandFails, vars,
         SlotKept
<1> QED BY <1>2, <1>3, <1>4, <1>5, <1>6, <1>7, <1>8, <1>9 DEF Next, SlotMoves, SlotFailed

(* A slot goes from stage to stage, and never again holds an answer from   *)
(* an earlier state once it holds none.                                    *)
LEMMA Stages ==
  ASSUME IInv, Calm, Calm', Next \/ UNCHANGED vars, NEW r \in Slots
  PROVE  /\ Free(r)  => Free(r)' \/ Asked(r)'
         /\ Asked(r) => Asked(r)' \/ Half(r)' \/ Ready(r)'
         /\ Half(r)  => Half(r)' \/ Ready(r)'
         /\ Ready(r) => Ready(r)' \/ <<ApplyRefresh(r)>>_vars
         /\ UpToDate(r) => UpToDate(r)'
<1> DEFINE old == refreshes[r]
           new == refreshes'[r]
<1>1. /\ old \in Refresh(Len(hub)) /\ Len(hub) = MaxVersions /\ MaxVersions \in Nat \ {0}
      /\ ~old.failed /\ ~new.failed
  BY Types, BoundAssumption DEF IInv, Calm
<1>2. SlotMoves(r)
  BY EverySlotMoves
<1>3. CASE SlotKept(r)
  BY <1>3 DEF SlotKept, Free, Asked, Half, Ready, UpToDate
<1>4. CASE SlotStarted(r)
  <2>1. new.open /\ new.health = 0 /\ new.devices = 0
    BY <1>4 DEF SlotStarted, NewRefresh
  <2> QED BY <1>4, <2>1 DEF SlotStarted, Free, Asked, Half, Ready, UpToDate
<1>5. CASE SlotHealth(r)
  <2>1. new.open = old.open /\ new.health = MaxVersions /\ new.devices = old.devices
    BY <1>1, <1>5 DEF SlotHealth, Refresh
  <2> QED BY <1>1, <1>5, <2>1 DEF SlotHealth, Free, Asked, Half, Ready, UpToDate
<1>6. CASE SlotDevices(r)
  <2>1. /\ new.open = old.open /\ new.health = old.health /\ new.devices = MaxVersions
        /\ old.open /\ old.devices = 0
    BY <1>1, <1>6 DEF SlotDevices, Refresh
  <2> QED BY <1>1, <2>1 DEF Free, Asked, Half, Ready, UpToDate
<1>7. CASE SlotApplied(r)
  <2>1. ~new.open /\ new.health = 0 /\ new.devices = 0
    BY <1>7 DEF SlotApplied, NoRefresh
  <2>2. old.open /\ vars' # vars
    BY <1>7, <2>1 DEF SlotApplied, Ready, vars
  <2> QED BY <1>7, <2>1, <2>2 DEF SlotApplied, Free, Asked, Half, Ready, UpToDate
<1> QED BY <1>1, <1>2, <1>3, <1>4, <1>5, <1>6, <1>7 DEF SlotMoves, SlotFailed

(* The steps that fairness is about bring it to the next. *)
LEMMA FairSteps ==
  ASSUME IInv, Calm, NEW r \in Slots
  PROVE  /\ StartRefresh(r) => Asked(r)'
         /\ AnswerHealth(r) => Half(r)' \/ Ready(r)'
         /\ Half(r) /\ AnswerDevices(r) => Ready(r)'
         /\ FailRefresh(r) \/ ApplyRefresh(r) => ApplyRefresh(r) /\ UpToDate(r)'
<1>1. /\ refreshes \in [Slots -> Refresh(Len(hub))] /\ refreshes[r] \in Refresh(Len(hub))
      /\ Len(hub) = MaxVersions /\ MaxVersions \in Nat \ {0} /\ ~refreshes[r].failed
  BY Types, BoundAssumption DEF IInv, Calm
<1>2. StartRefresh(r) => Asked(r)'
  BY <1>1 DEF StartRefresh, NewRefresh, Asked
<1>3. AnswerHealth(r) => Half(r)' \/ Ready(r)'
  <2> SUFFICES ASSUME AnswerHealth(r) PROVE Half(r)' \/ Ready(r)'
    OBVIOUS
  <2>1. refreshes'[r] = [refreshes[r] EXCEPT !.health = MaxVersions] /\ refreshes[r].open
    BY <1>1 DEF AnswerHealth
  <2>2. refreshes'[r].open /\ refreshes'[r].health = MaxVersions
    BY <1>1, <2>1 DEF Refresh
  <2> QED BY <1>1, <2>2 DEF Half, Ready
<1>4. Half(r) /\ AnswerDevices(r) => Ready(r)'
  <2> SUFFICES ASSUME Half(r), AnswerDevices(r) PROVE Ready(r)'
    OBVIOUS
  <2>1. refreshes'[r] = [refreshes[r] EXCEPT !.devices = MaxVersions]
    BY <1>1 DEF AnswerDevices
  <2>2. /\ refreshes'[r].open = refreshes[r].open /\ refreshes'[r].devices = MaxVersions
        /\ refreshes'[r].health = refreshes[r].health
    BY <1>1, <2>1 DEF Refresh
  <2> QED BY <1>1, <2>2 DEF Half, Ready
<1>5. FailRefresh(r) \/ ApplyRefresh(r) => ApplyRefresh(r) /\ UpToDate(r)'
  <2>1. ~FailRefresh(r)
    BY <1>1 DEF FailRefresh
  <2>2. ApplyRefresh(r) => refreshes'[r] = NoRefresh
    BY <1>1 DEF ApplyRefresh, EndRefresh
  <2>3. NoRefresh.health = 0 /\ NoRefresh.devices = 0
    BY DEF NoRefresh
  <2> QED BY <2>1, <2>2, <2>3 DEF UpToDate
<1> QED BY <1>2, <1>3, <1>4, <1>5

(* Where no slot holds an older answer, a refresh that is applied settles  *)
(* the page, and no step unsettles it.                                     *)
LEMMA Settles ==
  ASSUME IInv, Calm, \A r \in Slots : UpToDate(r), Next \/ UNCHANGED vars
  PROVE  /\ \A r \in Slots : ApplyRefresh(r) => Settled'
         /\ Settled => Settled'
<1>1. ASSUME NEW r \in Slots, ApplyRefresh(r) PROVE Settled'
  BY <1>1 DEF ApplyRefresh, UpToDate, Settled
<1>2. CASE \A r \in Slots : ~ApplyRefresh(r)
  BY <1>2 DEF Next, HubChanges, AcceptCommand, AnswerHealth, AnswerDevices, AnswerFails, StartRefresh,
              FailRefresh, CommandAccepted, ChooseFilter, SelectRow, SendCommand, CommandFails,
              pageVars, vars, Settled
<1> QED BY <1>1, <1>2

LEMMA LastStays ==
  ASSUME IInv, Len(hub) = MaxVersions, Next \/ UNCHANGED vars
  PROVE  Len(hub') = MaxVersions
<1>1. ~ Len(hub) < MaxVersions
  BY BoundAssumption
<1>2. ~AcceptCommand /\ ~ \E d \in Device, s \in Status : HubChanges(d, s)
  BY <1>1 DEF AcceptCommand, HubChanges
<1>3. hub' = hub
  BY <1>2 DEF Next, AnswerHealth, AnswerDevices, AnswerFails, StartRefresh, FailRefresh,
              ApplyRefresh, EndRefresh, CommandAccepted, ChooseFilter, SelectRow, SendCommand,
              CommandFails, vars
<1> QED BY <1>3

(* From a state on, the hub is in its last state and nothing fails. *)
Calmly == []Calm /\ []IInv /\ [][Next]_vars /\ []GuardsEnable

KeepsApplying(r) == Calmly /\ Fair(r) => /\ <>[]UpToDate(r)
                                        /\ []<><<ApplyRefresh(r)>>_vars

LEMMA SlotSettles == ASSUME NEW r \in Slots, Device # {} PROVE KeepsApplying(r)
<1> DEFINE MayStart == Free(r) => ENABLED <<StartRefresh(r)>>_vars
           MayHealth == ~refreshes[r].failed /\ Asked(r) => ENABLED <<AnswerHealth(r)>>_vars
           MayDevices == ~refreshes[r].failed /\ Half(r) => ENABLED <<AnswerDevices(r)>>_vars
           MayEnd == ~refreshes[r].failed /\ Ready(r)
                       => ENABLED <<FailRefresh(r) \/ ApplyRefresh(r)>>_vars
<1>1. GuardsEnable => MayStart /\ MayHealth /\ MayDevices /\ MayEnd
  BY DEF GuardsEnable
<1>2. Calm => ~refreshes[r].failed
  BY DEF Calm
<1>3. Free(r) \/ Asked(r) \/ Half(r) \/ Ready(r)
  BY DEF Free, Asked, Half, Ready
<1>4. IInv /\ Calm /\ Calm' /\ [Next]_vars =>
        /\ Free(r)  => Free(r)' \/ Asked(r)'
        /\ Asked(r) => Asked(r)' \/ Half(r)' \/ Ready(r)'
        /\ Half(r)  => Half(r)' \/ Ready(r)'
        /\ Ready(r) => Ready(r)' \/ <<ApplyRefresh(r)>>_vars
        /\ UpToDate(r) => UpToDate(r)'
  BY Stages
<1>5. IInv /\ Calm =>
        /\ StartRefresh(r) => Asked(r)'
        /\ AnswerHealth(r) => Half(r)' \/ Ready(r)'
        /\ Half(r) /\ AnswerDevices(r) => Ready(r)'
        /\ FailRefresh(r) \/ ApplyRefresh(r) => ApplyRefresh(r) /\ UpToDate(r)'
  BY FairSteps
<1>6. Calmly /\ WF_vars(StartRefresh(r)) => (Free(r) ~> Asked(r))
  BY <1>1, <1>4, <1>5, PTL DEF Calmly
<1>7. Calmly /\ WF_vars(AnswerHealth(r)) => (Asked(r) ~> Half(r) \/ Ready(r))
  BY <1>1, <1>2, <1>4, <1>5, PTL DEF Calmly
<1>8. Calmly /\ WF_vars(AnswerDevices(r)) => (Half(r) ~> Ready(r))
  BY <1>1, <1>2, <1>4, <1>5, PTL DEF Calmly
<1>9. Calmly /\ WF_vars(FailRefresh(r) \/ ApplyRefresh(r))
        => /\ Ready(r) ~> UpToDate(r)
           /\ [](Ready(r) => <><<ApplyRefresh(r)>>_vars)
  BY <1>1, <1>2, <1>4, <1>5, PTL DEF Calmly
<1>10. Calmly => [](UpToDate(r) => []UpToDate(r))
  BY <1>4, PTL DEF Calmly
<1> QED BY <1>3, <1>6, <1>7, <1>8, <1>9, <1>10, PTL DEF Fair, KeepsApplying

AllUpToDate == \A r \in Slots : UpToDate(r)

LEMMA PageSettles ==
  ASSUME NEW r \in Slots, Device # {}
  PROVE  Calmly /\ []AllUpToDate /\ Fair(r) => <>[]Settled
<1>1. IInv /\ Calm /\ AllUpToDate /\ [Next]_vars
        => /\ ApplyRefresh(r) => Settled'
           /\ Settled => Settled'
  BY Settles DEF AllUpToDate
<1>2. Calmly /\ Fair(r) => []<><<ApplyRefresh(r)>>_vars
  BY SlotSettles, PTL DEF KeepsApplying
<1> QED BY <1>1, <1>2, PTL DEF Calmly

(* However refreshes overlapped before, the page comes to show the last    *)
(* state of the hub and goes on showing it, for any devices and states and *)
(* for up to four refreshes in flight: one that was answered from an older *)
(* state is applied or fails at some time, and then none is left.          *)
THEOREM CatchesUp ==
  ASSUME NEW a, NEW b, NEW c, NEW d, Slots = {a, b, c, d}, Device # {}
  PROVE  Spec /\ []GuardsEnable => PageCatchesUp
<1> DEFINE Last   == Len(hub) = MaxVersions
           NoneFailed == \A r \in Slots : ~refreshes[r].failed
           Fairly == Fair(a) /\ Fair(b) /\ Fair(c) /\ Fair(d)
<1>1. Spec => Fairly
  BY DEF Spec
<1>2. Fairly => []Fairly
  <2>1. Fair(a) => []Fair(a)
    BY PTL DEF Fair
  <2>2. Fair(b) => []Fair(b)
    BY PTL DEF Fair
  <2>3. Fair(c) => []Fair(c)
    BY PTL DEF Fair
  <2>4. Fair(d) => []Fair(d)
    BY PTL DEF Fair
  <2> QED BY <2>1, <2>2, <2>3, <2>4, PTL
<1>3. Calmly /\ Fairly => <>[](UpToDate(a) /\ UpToDate(b) /\ UpToDate(c) /\ UpToDate(d))
  <2>1. KeepsApplying(a) /\ KeepsApplying(b) /\ KeepsApplying(c) /\ KeepsApplying(d)
    BY SlotSettles
  <2> QED BY <2>1, PTL DEF KeepsApplying
<1>4. UpToDate(a) /\ UpToDate(b) /\ UpToDate(c) /\ UpToDate(d) => AllUpToDate
  BY DEF AllUpToDate
<1>5. Calmly /\ []AllUpToDate /\ Fair(a) => <>[]Settled
  BY PageSettles
<1>6. Calmly => []Calmly
  BY PTL DEF Calmly
<1>7. Calmly /\ Fairly => <>[]Settled
  BY <1>2, <1>3, <1>4, <1>5, <1>6, PTL
<1>8. IInv /\ Last /\ [Next]_vars => Last'
  BY LastStays
<1>9. Last /\ NoneFailed => Calm
  BY DEF Calm
<1>10. [][Next]_vars /\ []IInv /\ []GuardsEnable /\ Fairly /\ <>[]NoneFailed
         => (Last ~> []Settled)
  BY <1>2, <1>7, <1>8, <1>9, PTL DEF Calmly
<1>11. Spec /\ []GuardsEnable => (<>[]NoneFailed => (Last ~> []Settled))
  BY <1>1, <1>10, Invariance, PTL DEF Spec
<1> QED BY <1>11 DEF PageCatchesUp, Settled

=============================================================================
