---------------------------- MODULE BotRightsProofs ----------------------------
(***************************************************************************)
(* The bot's list of chats, for any number of changes, protections, sweeps *)
(* and faults: types, that memory and Redis agree with Telegram once every *)
(* update is handled, that what shows as connecting is being asked, and    *)
(* that a share is followed by a message or has a reason not to be.        *)
(***************************************************************************)
EXTENDS BotRights, TLAPS

\* Updates are sent in order and handled in order.
InOrder ==
    /\ \A i \in Updates : update[i].at = "unsent" <=> i > changes
    /\ \A i, j \in Updates : i < j /\ update[j].at \in Handled \cup {"done"} => update[i].at = "done"

\* The latest update says what is true at Telegram.
LatestSays ==
    /\ changes \in 0..MaxChanges
    /\ standing \in Standing
    /\ Said(standing) = IF changes = 0 THEN "out" ELSE update[changes].says

Reached(i) == update[i].at \in Handled \cup {"done"}

Latest(i) == Reached(i) /\ \A j \in Updates : Reached(j) => j <= i

\* The handler of i writes to Redis no more.
Kept(i) == update[i].at = "done" \/ (update[i].at = "rights" /\ update[i].says # "out")

\* Memory says what the update handled latest says, and so does Redis once that
\* handler has written.
Follows ==
    ~missed =>
        /\ (\A i \in Updates : ~Reached(i)) => known = "out" /\ stored = "out"
        /\ \A i \in Updates : Latest(i) => known = update[i].says /\ (Kept(i) => stored = update[i].says)

\* A sweep applies no answer but one of Telegram's.
Answered == \A w \in Sweepers : sweeper[w].at = "apply" => sweeper[w].answer \in Status

IInv == TypeOK /\ Answered /\ InOrder /\ LatestSays /\ Follows

core == <<chat, update, list, missed>>

LEMMA InitIInv == Init => IInv
<1> SUFFICES ASSUME Init PROVE IInv
  OBVIOUS
<1> USE DEF Init, Standing, Status, Said, Handled
<1>1. TypeOK /\ Answered
  BY DEF TypeOK, Answered
<1>2. InOrder /\ LatestSays
  BY RightsAssumption DEF InOrder, LatestSays, Updates
<1>3. Follows
  BY DEF Follows, Reached, Latest
<1>4. QED
  BY <1>1, <1>2, <1>3 DEF IInv

LEMMA NextTypeOK == TypeOK /\ Answered /\ [Next]_vars => TypeOK' /\ Answered'
<1> SUFFICES ASSUME TypeOK, Answered, [Next]_vars PROVE TypeOK' /\ Answered'
  OBVIOUS
<1> USE DEF TypeOK, Answered, Standing, Status, Said, Access, chat, list, entry, telling, bounds
<1>1. ASSUME NEW s \in Standing, Change(s) PROVE TypeOK' /\ Answered'
  <2>1. update' \in [Updates -> [says : Status, at : Handled \cup {"unsent", "sent", "done"}]]
    BY <1>1 DEF Change
  <2>2. QED
    BY <1>1, <2>1 DEF Change
<1>2. ASSUME NEW i \in Updates, Handle(i) PROVE TypeOK' /\ Answered'
  <2>1. update[i].says \in Status
    OBVIOUS
  <2>2. CASE BotMembershipHandler(i)
    <3>1. PICK s \in {"rights", "store"} : GoTo(i, s)
      BY <2>2 DEF BotMembershipHandler
    <3>2. update' \in [Updates -> [says : Status, at : Handled \cup {"unsent", "sent", "done"}]]
      BY <3>1 DEF GoTo, Handled
    <3>3. missed' \in BOOLEAN
      BY <2>2 DEF BotMembershipHandler
    <3>4. QED
      BY <2>1, <2>2, <3>2, <3>3 DEF BotMembershipHandler
  <2>3. CASE Forbid(i)
    BY <2>3 DEF Forbid, GoTo, Handled
  <2>4. CASE Grant(i)
    BY <2>1, <2>4 DEF Grant, GoTo, Handled
  <2>5. CASE Store(i)
    BY <2>1, <2>5 DEF Store, Stored, GoTo, Handled
  <2>6. CASE StoreFails(i)
    BY <2>1, <2>6 DEF StoreFails, Stored, GoTo, Handled, Fault
  <2>7. QED
    BY <1>2, <2>2, <2>3, <2>4, <2>5, <2>6 DEF Handle
<1>3. CASE ConnectChat
  BY <1>3 DEF ConnectChat, Begins
<1>4. CASE Share
  BY <1>4 DEF Share, Begins
<1>5. CASE Protect
  BY <1>5 DEF Protect, Published
<1>6. CASE AddChannel
  BY <1>6 DEF AddChannel, Published
<1>7. CASE Remove
  <2>1. protected' \in BOOLEAN /\ (protected' => listed')
    BY <1>7 DEF Remove
  <2>2. QED
    BY <1>7, <2>1 DEF Remove
<1>8. CASE Connection
  <2>1. CASE RefreshConnectedChat
    <3>1. CASE connecting
      BY <2>1, <3>1 DEF RefreshConnectedChat
    <3>2. CASE ~connecting
      <4>1. listed' \in BOOLEAN /\ connecting' \in BOOLEAN /\ (protected' => listed')
        BY <2>1, <3>2 DEF RefreshConnectedChat
      <4>2. QED
        BY <2>1, <3>2, <4>1 DEF RefreshConnectedChat
    <3>3. QED
      BY <3>1, <3>2
  <2>2. CASE RefreshAsk
    BY <2>2 DEF RefreshAsk
  <2>3. CASE RefreshApply
    <3>1. rights' \in Status /\ connecting' \in BOOLEAN
      BY <2>3 DEF RefreshApply, Connected
    <3>2. QED
      BY <2>3, <3>1 DEF RefreshApply
  <2>4. CASE RefreshLeaves
    BY <2>4 DEF RefreshLeaves, Closed
  <2>5. CASE SendAddedChannelStatus
    BY <2>5 DEF SendAddedChannelStatus, Sent
  <2>6. QED
    BY <1>8, <2>1, <2>2, <2>3, <2>4, <2>5 DEF Connection
<1>9. ASSUME NEW w \in Sweepers, SweepStep(w) PROVE TypeOK' /\ Answered'
  <2>1. CASE SweepBegin(w)
    BY <2>1 DEF SweepBegin, Sweep
  <2>2. CASE SweepAsk(w)
    BY <2>2 DEF SweepAsk, Sweep
  <2>3. CASE SweepFails(w)
    BY <2>3 DEF SweepFails, Sweep
  <2>4. CASE SweepApply(w)
    BY <2>4, RightsAssumption DEF SweepApply, Sweep, Applied
  <2>5. \A answer : Trouble(answer) \in Kinds
    BY DEF Trouble, Kinds
  <2>6. CASE SweepNotice(w)
    BY <2>5, <2>6 DEF SweepNotice, Sweep
  <2>7. CASE SweepSend(w)
    BY <2>5, <2>7 DEF SweepSend, Sweep
  <2>8. CASE SweepSendFails(w)
    BY <2>8 DEF SweepSendFails, Sweep
  <2>9. QED
    BY <1>9, <2>1, <2>2, <2>3, <2>4, <2>6, <2>7, <2>8 DEF SweepStep
<1>10. ASSUME NEW first \in 0..MaxChanges, NEW loads \in BOOLEAN, Restart(first, loads)
       PROVE TypeOK' /\ Answered'
  <2>1. update' \in [Updates -> [says : Status, at : Handled \cup {"unsent", "sent", "done"}]]
    BY <1>10 DEF Restart
  <2>2. connecting' \in BOOLEAN /\ orphaned' \in BOOLEAN /\ missed' \in BOOLEAN
    BY <1>10 DEF Restart
  <2>3. protected' \in BOOLEAN /\ listed' \in BOOLEAN /\ (protected' => listed')
    BY <1>10 DEF Restart
  <2>4. faults' \in Nat
    BY <1>10 DEF Restart, Fault
  <2>5. QED
    BY <1>10, <2>1, <2>2, <2>3, <2>4 DEF Restart
<1>11. ASSUME NEW kind \in Kinds, IntervalEnds(kind) PROVE TypeOK' /\ Answered'
  BY <1>11 DEF IntervalEnds
<1>12. CASE UNCHANGED vars
  BY <1>12 DEF vars
<1>13. QED
  BY <1>1, <1>2, <1>3, <1>4, <1>5, <1>6, <1>7, <1>8, <1>9, <1>10, <1>11, <1>12 DEF Next

LEMMA CoreUnchanged ==
    InOrder /\ LatestSays /\ Follows /\ UNCHANGED core => InOrder' /\ LatestSays' /\ Follows'
BY DEF core, chat, list, InOrder, LatestSays, Follows, Reached, Latest, Kept

\* Only a change, a handler and a restart touch the chats or the updates.
LEMMA OthersKeepCore ==
    ASSUME \/ ConnectChat \/ Share \/ Protect \/ AddChannel \/ Remove \/ Connection
           \/ \E w \in Sweepers : SweepStep(w)
           \/ \E kind \in Kinds : IntervalEnds(kind)
           \/ UNCHANGED vars
    PROVE  UNCHANGED core
<1> USE DEF core
<1>1. ASSUME ConnectChat \/ Share \/ Protect \/ AddChannel \/ Remove PROVE UNCHANGED core
  BY <1>1 DEF ConnectChat, Share, Begins, Protect, AddChannel, Remove
<1>2. ASSUME Connection PROVE UNCHANGED core
  BY <1>2 DEF Connection, RefreshConnectedChat, RefreshAsk, RefreshApply, RefreshLeaves, SendAddedChannelStatus
<1>3. ASSUME NEW w \in Sweepers, SweepStep(w) PROVE UNCHANGED core
  BY <1>3 DEF SweepStep, SweepBegin, SweepAsk, SweepFails, SweepApply, SweepNotice, SweepSend,
              SweepSendFails
<1>4. ASSUME NEW kind \in Kinds, IntervalEnds(kind) PROVE UNCHANGED core
  BY <1>4 DEF IntervalEnds
<1>5. ASSUME UNCHANGED vars PROVE UNCHANGED core
  BY <1>5 DEF vars
<1>6. QED
  BY <1>1, <1>2, <1>3, <1>4, <1>5

LEMMA ChangeKeeps ==
    ASSUME IInv, NEW s \in Standing, Change(s)
    PROVE  InOrder' /\ LatestSays' /\ Follows'
<1> USE DEF IInv, Change, chat, list, Updates
<1>1. changes + 1 \in Updates /\ changes' = changes + 1
  BY RightsAssumption DEF LatestSays
<1>2. /\ \A i \in Updates : i # changes' => update'[i] = update[i]
      /\ update'[changes'] = [says |-> Said(s), at |-> "sent"]
      /\ update[changes'].at = "unsent"
  BY <1>1 DEF TypeOK, InOrder
<1>3. InOrder'
  BY <1>1, <1>2 DEF InOrder, Handled, LatestSays
<1>4. LatestSays'
  BY <1>1, <1>2 DEF LatestSays
<1>5. \A i \in Updates : Reached(i)' <=> Reached(i)
  BY <1>1, <1>2 DEF Reached, Handled
<1>6. \A i \in Updates : Reached(i) => update'[i] = update[i]
  BY <1>1, <1>2 DEF Reached, Handled
<1>7. Follows'
  BY <1>1, <1>5, <1>6 DEF Follows, Latest, Kept
<1>8. QED
  BY <1>3, <1>4, <1>7

\* An update in hand comes after all that are done.
LEMMA InHandIsLatest ==
    ASSUME TypeOK, InOrder, NEW i \in Updates, InHand(i)
    PROVE  Latest(i)
<1>1. Reached(i)
  BY DEF Reached, InHand
<1>2. ASSUME NEW j \in Updates, Reached(j) PROVE ~(i < j)
  BY <1>2 DEF Reached, InHand, InOrder, Handled
<1>3. QED
  BY <1>1, <1>2 DEF Latest, Updates

\* What a handler that goes on from i to s does to the order.
LEMMA StepInOrder ==
    ASSUME IInv, NEW i \in Updates, NEW s \in Handled \cup {"done"}, GoTo(i, s),
           InHand(i) \/ NextInTurn(i), UNCHANGED chat
    PROVE  InOrder' /\ LatestSays'
<1> USE DEF IInv
<1>1. /\ \A j \in Updates : j # i => update'[j] = update[j]
      /\ update'[i].at = s /\ update'[i].says = update[i].says
      /\ update[i].at # "unsent"
  BY DEF TypeOK, GoTo, InHand, NextInTurn, Handled
<1>2. \A j \in Updates : j < i => update[j].at = "done"
  BY DEF InHand, NextInTurn, InOrder, Handled
<1>3. \A j \in Updates : i < j => update[j].at \in {"unsent", "sent"}
  <2> SUFFICES ASSUME NEW j \in Updates, i < j, update[j].at \in Handled \cup {"done"} PROVE FALSE
    BY DEF TypeOK
  <2>1. update[i].at = "done"
    BY DEF InOrder
  <2>2. QED
    BY <2>1 DEF InHand, NextInTurn, Handled
<1>4. \A j \in Updates : update'[j].at = "unsent" <=> j > changes'
  BY <1>1 DEF InOrder, chat, Handled
<1>5. \A j, k \in Updates : j < k /\ update'[k].at \in Handled \cup {"done"} => update'[j].at = "done"
  BY <1>1, <1>2, <1>3 DEF InOrder, Handled, Updates
<1>6. LatestSays'
  BY <1>1 DEF LatestSays, chat, Updates
<1>7. QED
  BY <1>4, <1>5, <1>6 DEF InOrder

LEMMA HandleKeeps ==
    ASSUME IInv, NEW i \in Updates, Handle(i)
    PROVE  InOrder' /\ LatestSays' /\ Follows'
<1> USE DEF IInv
<1>1. PICK s \in Handled \cup {"done"} : GoTo(i, s)
  BY DEF Handle, BotMembershipHandler, Forbid, Grant, Store, StoreFails, Stored, Handled
<1>2. (InHand(i) \/ NextInTurn(i)) /\ UNCHANGED chat
  BY DEF Handle, BotMembershipHandler, Forbid, Grant, Store, StoreFails, InHand, Handled
<1>3. InOrder' /\ LatestSays'
  BY <1>1, <1>2, StepInOrder
<1>4. /\ \A j \in Updates : j # i => update'[j] = update[j]
      /\ update'[i].at = s /\ update'[i].says = update[i].says
  BY <1>1 DEF TypeOK, GoTo
<1>5. Reached(i)'
  BY <1>4 DEF Reached
<1>6. \A j \in Updates : Latest(j)' => j = i
  <2> SUFFICES ASSUME NEW j \in Updates, Latest(j)' PROVE j = i
    OBVIOUS
  <2>1. i <= j /\ Reached(j)'
    BY <1>5 DEF Latest
  <2>2. CASE i < j
    BY <1>2, <2>1, <2>2, <1>4 DEF Reached, InOrder, InHand, NextInTurn, Handled
  <2>3. QED
    BY <2>1, <2>2 DEF Updates
<1>7. InHand(i) /\ ~missed => known = update[i].says /\ (Kept(i) => stored = update[i].says)
  BY InHandIsLatest DEF Follows
<1>8. ASSUME ~missed' PROVE known' = update'[i].says /\ (Kept(i)' => stored' = update'[i].says)
  <2>1. CASE BotMembershipHandler(i)
    BY <2>1, <1>4 DEF BotMembershipHandler, GoTo, TypeOK, Kept
  <2>2. CASE Forbid(i)
    BY <2>2, <1>4, <1>7, <1>8 DEF Forbid, GoTo, TypeOK, Kept, InHand, Handled, list
  <2>3. CASE Grant(i)
    BY <2>3, <1>4, <1>7, <1>8 DEF Grant, TypeOK, Kept, InHand, Handled, list
  <2>4. CASE Store(i)
    BY <2>4, <1>4, <1>7, <1>8 DEF Store, InHand, Handled
  <2>5. CASE StoreFails(i)
    BY <2>5, <1>8 DEF StoreFails
  <2>6. QED
    BY <2>1, <2>2, <2>3, <2>4, <2>5 DEF Handle
<1>9. Follows'
  BY <1>5, <1>6, <1>8 DEF Follows
<1>10. QED
  BY <1>3, <1>9

\* A handler that dies with the process counts as done, and so do those before it.
LEMMA RestartKeeps ==
    ASSUME IInv, NEW first \in 0..MaxChanges, NEW loads \in BOOLEAN, Restart(first, loads)
    PROVE  InOrder' /\ LatestSays' /\ Follows'
<1> DEFINE lost(i) == InHand(i) \/ (update[i].at = "sent" /\ i <= first)
<1> USE DEF IInv
<1>1. \A i \in Updates : update'[i] = IF lost(i) THEN [update[i] EXCEPT !.at = "done"] ELSE update[i]
  BY DEF Restart
<1>2. missed' = (missed \/ ~loads \/ \E i \in Updates : lost(i))
  BY DEF Restart
<1>3. \A i \in Updates : /\ update'[i].says = update[i].says
                         /\ update'[i].at = IF lost(i) THEN "done" ELSE update[i].at
  BY <1>1 DEF TypeOK
<1> HIDE DEF lost
<1>4. \A i \in Updates : lost(i) => update[i].at \notin {"unsent", "done"}
  BY DEF lost, InHand, Handled
<1>5. UNCHANGED chat
  BY DEF Restart
<1>6. LatestSays'
  BY <1>3, <1>5 DEF LatestSays, chat, Updates
<1>7. \A i \in Updates : update'[i].at = "unsent" <=> i > changes'
  BY <1>3, <1>4, <1>5 DEF InOrder, chat
<1>8. ASSUME NEW i \in Updates, NEW j \in Updates, i < j, update'[j].at \in Handled \cup {"done"}
      PROVE  update'[i].at = "done"
  <2>1. CASE update[j].at \in Handled \cup {"done"}
    BY <2>1, <1>3, <1>4, <1>8 DEF InOrder
  <2>2. CASE update[j].at \notin Handled \cup {"done"}
    <3>1. update[j].at = "sent" /\ j <= first
      BY <2>2, <1>3, <1>8 DEF lost, InHand
    <3>2. update[i].at # "unsent" /\ i <= first
      BY <3>1, <1>8, RightsAssumption DEF InOrder, LatestSays, Updates
    <3>3. update[i].at = "done" \/ lost(i)
      BY <3>2 DEF lost, InHand, TypeOK
    <3>4. QED
      BY <3>3, <1>3
  <2>3. QED
    BY <2>1, <2>2
<1>9. ASSUME ~missed' PROVE update' = update /\ ~missed /\ known' = stored /\ stored' = stored
  <2>1. ~missed /\ loads /\ \A i \in Updates : ~lost(i)
    BY <1>2, <1>9
  <2>2. \A i \in Updates : update'[i] = update[i]
    BY <2>1, <1>1 DEF lost
  <2>3. update' = update
    BY <2>2 DEF Restart, TypeOK
  <2>4. QED
    BY <2>1, <2>3 DEF Restart
<1>10. ASSUME ~missed' PROVE \A i \in Updates : ~InHand(i)
  BY <1>2, <1>10 DEF lost
<1>11. ASSUME NEW i \in Updates, Latest(i), ~missed' PROVE Kept(i)
  BY <1>10, <1>11 DEF Latest, Reached, Kept, InHand
<1>12. Follows'
  BY <1>9, <1>11 DEF Follows, Latest, Reached, Kept
<1>13. QED
  BY <1>6, <1>7, <1>8, <1>12 DEF InOrder

LEMMA NextIInv == IInv /\ [Next]_vars => IInv'
<1> SUFFICES ASSUME IInv, [Next]_vars PROVE IInv'
  OBVIOUS
<1>1. TypeOK' /\ Answered'
  BY NextTypeOK DEF IInv
<1>2. InOrder' /\ LatestSays' /\ Follows'
  <2>1. ASSUME NEW s \in Standing, Change(s) PROVE InOrder' /\ LatestSays' /\ Follows'
    BY <2>1, ChangeKeeps
  <2>2. ASSUME NEW i \in Updates, Handle(i) PROVE InOrder' /\ LatestSays' /\ Follows'
    BY <2>2, HandleKeeps
  <2>3. ASSUME NEW first \in 0..MaxChanges, NEW loads \in BOOLEAN, Restart(first, loads)
        PROVE  InOrder' /\ LatestSays' /\ Follows'
    BY <2>3, RestartKeeps
  <2>4. CASE \/ ConnectChat \/ Share \/ Protect \/ AddChannel \/ Remove \/ Connection
             \/ \E w \in Sweepers : SweepStep(w)
             \/ \E kind \in Kinds : IntervalEnds(kind)
             \/ UNCHANGED vars
    BY <2>4, OthersKeepCore, CoreUnchanged DEF IInv
  <2>5. QED
    BY <2>1, <2>2, <2>3, <2>4 DEF Next
<1>3. QED
  BY <1>1, <1>2 DEF IInv

LEMMA IInvImpliesKnownMatches == IInv => KnownMatches
<1> SUFFICES ASSUME IInv, Quiet, ~missed PROVE known = Said(standing) /\ stored = Said(standing)
  BY DEF KnownMatches
<1> USE DEF IInv
<1>1. CASE changes = 0
  <2>1. \A i \in Updates : ~Reached(i)
    BY <1>1 DEF InOrder, Reached, Handled, Updates
  <2>2. QED
    BY <1>1, <2>1 DEF Follows, LatestSays
<1>2. CASE changes # 0
  <2>1. changes \in Updates
    BY <1>2, RightsAssumption DEF LatestSays, Updates
  <2>2. update[changes].at = "done"
    BY <2>1 DEF Quiet, InOrder, Updates
  <2>3. \A j \in Updates : Reached(j) => j <= changes
    BY DEF InOrder, Reached, Handled, Updates, LatestSays
  <2>4. Latest(changes) /\ Kept(changes)
    BY <2>2, <2>3 DEF Latest, Reached, Kept
  <2>5. QED
    BY <1>2, <2>1, <2>4 DEF Follows, LatestSays
<1>3. QED
  BY <1>1, <1>2

LEMMA Invariance == Spec => []IInv
BY InitIInv, NextIInv, PTL DEF Spec

\* Types, and that every protected chat has the entry the sweeps go through,
\* whatever updates, protections, refreshes, sweeps and restarts do.
THEOREM TypeCorrect == Spec => []TypeOK
<1>1. IInv => TypeOK
  BY DEF IInv
<1>2. QED
  BY <1>1, Invariance, PTL

\* The bot's list of chats is right in memory and in Redis once every update is
\* handled, for any number of changes and whatever is lost before the latest.
THEOREM ListFollowsTelegram == Spec => []KnownMatches
BY Invariance, IInvImpliesKnownMatches, PTL

\* A chat shows as connecting just while one goroutine asks for its rights, and the
\* channel that shares wait on is open just then; a chat that was removed meanwhile
\* goes on connecting and nobody asks for its rights again (connection.go:16).
ConnectingIsAsked ==
    /\ connecting <=> refresher.at # "idle" \/ orphaned
    /\ done = "open" <=> refresher.at # "idle"
    /\ ~(orphaned /\ refresher.at # "idle")

\* The steps of a connection and a restart are the only ones that touch its state.
LEMMA NextConnecting ==
    ASSUME TypeOK, ConnectingIsAsked, [Next]_vars
    PROVE  ConnectingIsAsked'
<1> USE DEF ConnectingIsAsked
<1>1. ASSUME UNCHANGED <<connecting, done, refresher, orphaned>> PROVE ConnectingIsAsked'
  BY <1>1
<1>2. CASE Connection
  <2>1. CASE RefreshConnectedChat
    BY <2>1 DEF RefreshConnectedChat, entry, TypeOK
  <2>2. CASE RefreshAsk
    BY <2>2 DEF RefreshAsk, entry
  <2>3. CASE RefreshApply
    BY <2>3 DEF RefreshApply, Connected
  <2>4. CASE RefreshLeaves
    BY <2>4 DEF RefreshLeaves, Closed
  <2>5. CASE SendAddedChannelStatus
    BY <1>1, <2>5 DEF SendAddedChannelStatus, entry
  <2>6. QED
    BY <1>2, <2>1, <2>2, <2>3, <2>4, <2>5 DEF Connection
<1>3. ASSUME NEW first \in 0..MaxChanges, NEW loads \in BOOLEAN, Restart(first, loads)
      PROVE  ConnectingIsAsked'
  BY <1>3 DEF Restart
<1>4. ASSUME NEW s \in Standing, Change(s) PROVE ConnectingIsAsked'
  BY <1>1, <1>4 DEF Change, entry
<1>5. ASSUME NEW i \in Updates, Handle(i) PROVE ConnectingIsAsked'
  BY <1>1, <1>5 DEF Handle, BotMembershipHandler, Forbid, Grant, Store, StoreFails, entry
<1>6. CASE ConnectChat \/ Share \/ Protect \/ AddChannel \/ Remove \/ UNCHANGED vars
  BY <1>1, <1>6 DEF ConnectChat, Share, Begins, Protect, AddChannel, Remove, vars, entry
<1>7. ASSUME NEW w \in Sweepers, SweepStep(w) PROVE ConnectingIsAsked'
  BY <1>1, <1>7 DEF SweepStep, SweepBegin, SweepAsk, SweepFails, SweepApply, SweepNotice,
                    SweepSend, SweepSendFails, entry
<1>8. ASSUME NEW kind \in Kinds, IntervalEnds(kind) PROVE ConnectingIsAsked'
  BY <1>1, <1>8 DEF IntervalEnds, entry
<1>9. QED
  BY <1>2, <1>3, <1>4, <1>5, <1>6, <1>7, <1>8 DEF Next

\* The safety half of ConnectingEnds and ShareIsAnswered: while a chat connects, or
\* somebody waits for it on an open channel, one goroutine is on its way to end that.
THEOREM ConnectingHasAGoroutine == Spec => []ConnectingIsAsked
<1>1. Init => ConnectingIsAsked
  BY DEF Init, ConnectingIsAsked
<1>2. IInv /\ ConnectingIsAsked /\ [Next]_vars => ConnectingIsAsked'
  BY NextConnecting DEF IInv
<1>3. QED
  BY <1>1, <1>2, Invariance, PTL DEF Spec

\* Silence about a chat that was shared has a reason: while its refresh or its message
\* is still to come it is protected, or the message was excused by a removal.
SilenceIsExcused == adder \in {"shareRefresh", "wait"} => protected \/ reply = "excused"

LEMMA NextExcused ==
    ASSUME TypeOK, SilenceIsExcused, [Next]_vars
    PROVE  SilenceIsExcused'
<1> USE DEF SilenceIsExcused
<1>1. ASSUME UNCHANGED <<adder, protected, reply>> PROVE SilenceIsExcused'
  BY <1>1
<1>2. CASE ConnectChat \/ Share
  BY <1>2 DEF ConnectChat, Share, Begins
<1>3. CASE Protect \/ AddChannel
  BY <1>3 DEF Protect, AddChannel, Published
<1>4. CASE Remove
  BY <1>4 DEF Remove
<1>5. CASE Connection
  <2>1. CASE RefreshConnectedChat
    BY <2>1 DEF RefreshConnectedChat
  <2>2. CASE RefreshAsk \/ RefreshApply \/ RefreshLeaves
    BY <1>1, <2>2 DEF RefreshAsk, RefreshApply, RefreshLeaves
  <2>3. CASE SendAddedChannelStatus
    BY <2>3 DEF SendAddedChannelStatus
  <2>4. QED
    BY <1>5, <2>1, <2>2, <2>3 DEF Connection
<1>6. ASSUME NEW first \in 0..MaxChanges, NEW loads \in BOOLEAN, Restart(first, loads)
      PROVE  SilenceIsExcused'
  BY <1>6 DEF Restart
<1>7. ASSUME NEW s \in Standing, Change(s) PROVE SilenceIsExcused'
  BY <1>1, <1>7 DEF Change
<1>8. ASSUME NEW i \in Updates, Handle(i) PROVE SilenceIsExcused'
  BY <1>1, <1>8 DEF Handle, BotMembershipHandler, Forbid, Grant, Store, StoreFails
<1>9. ASSUME NEW w \in Sweepers, SweepStep(w) PROVE SilenceIsExcused'
  BY <1>1, <1>9 DEF SweepStep, SweepBegin, SweepAsk, SweepFails, SweepApply, SweepNotice,
                    SweepSend, SweepSendFails
<1>10. CASE UNCHANGED vars \/ \E kind \in Kinds : IntervalEnds(kind)
  BY <1>1, <1>10 DEF vars, IntervalEnds
<1>11. QED
  BY <1>2, <1>3, <1>4, <1>5, <1>6, <1>7, <1>8, <1>9, <1>10 DEF Next

\* The safety half of ShareIsAnswered: the goroutine that waits to tell who shared a
\* chat finds it protected, and so sends a message, unless the chat was removed after
\* it was shared (handler_add_channel.go:160).
THEOREM SharesAreNotForgotten == Spec => []SilenceIsExcused
<1>1. Init => SilenceIsExcused
  BY DEF Init, SilenceIsExcused
<1>2. IInv /\ SilenceIsExcused /\ [Next]_vars => SilenceIsExcused'
  BY NextExcused DEF IInv
<1>3. QED
  BY <1>1, <1>2, Invariance, PTL DEF Spec
=============================================================================
