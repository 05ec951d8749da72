--------------------------- MODULE WhitelistProofs ---------------------------
(***************************************************************************)
(* The whitelist's copies in memory and in Redis, for any set of users,    *)
(* any number of concurrent managers and any clock: types and the          *)
(* write-through invariant, by one inductive invariant, and, by a second   *)
(* one on top of it, that approvals are the administrators'.               *)
(***************************************************************************)
EXTENDS Whitelist, TLAPS

\* Before the list is loaded nobody writes, and every load has read what Redis holds.
ColdStart ==
    memory = NotLoaded =>
        \A w \in Writers :
            /\ pending[w] = {} /\ current[w] = NoWrite
            /\ loading[w] \in {NotLoaded, store}

\* Of a user who is not torn one writer at most is between the two writes,
\* and Redis holds what that writer wrote.
OneInFlight ==
    \A u \in Users \ torn, w \in Writers :
        InFlight(w, u) =>
            /\ store[u] = current[w].entry
            /\ \A v \in Writers : InFlight(v, u) => v = w

IInv == TypeOK /\ ColdStart /\ OneInFlight /\ WriteThrough

LEMMA RoundWritesType ==
    ASSUME NEW u \in Users, NEW e \in Entry, NEW t \in Nat
    PROVE  RoundWrites(u, e, t) \subseteq Write
<1> USE DEF Entry, NoTime
<1>1. [user |-> u, entry |-> NoEntry] \in Write
  BY DEF Write
<1>2. ASSUME Ending(e, t)
      PROVE  [user |-> u, entry |-> [e EXCEPT !.remindedFor = e.deleteAt]] \in Write
  BY DEF Write
<1>3. [user |-> u, entry |-> [e EXCEPT !.expiredRemindedAt = t]] \in Write
  BY DEF Write
<1>4. [user |-> u, entry |-> [e EXCEPT !.remindedFor = e.expiresAt]] \in Write
  BY DEF Write
<1>5. QED
  BY <1>1, <1>2, <1>3, <1>4 DEF RoundWrites

LEMMA FreshEntryType ==
    ASSUME NEW ttl \in Terms, now \in Nat
    PROVE  FreshEntry(ttl) \in Entry
BY WhitelistAssumption DEF FreshEntry, DeleteAt, Entry, NoTime

LEMMA RenewedEntryType ==
    ASSUME NEW ttl \in Terms, NEW e \in Entry, now \in Nat
    PROVE  RenewedEntry(e, ttl) \in Entry
<1>1. now + ReviewTTL \in Nat /\ now + ttl \in Nat
  BY WhitelistAssumption
<1>2. QED
  BY <1>1 DEF RenewedEntry, Entry, NoTime

\* What a request may decide to write has its type.
LEMMA RequestType ==
    ASSUME TypeOK, NEW m \in Managers, ManagerRequest(m)
    PROVE  \E writes \in SUBSET Write : Decide(m, writes)
<1>1. ASSUME NEW batch \in SUBSET Users, NEW ttl \in Terms, AddToWhitelist(m, batch, ttl)
      PROVE  \E writes \in SUBSET Write : Decide(m, writes)
  <2>1. FreshEntry(ttl) \in Entry
    BY FreshEntryType DEF TypeOK
  <2>2. {[user |-> u, entry |-> FreshEntry(ttl)] : u \in batch} \in SUBSET Write
    BY <2>1 DEF Write
  <2>3. QED
    BY <1>1, <2>2 DEF AddToWhitelist
<1>2. ASSUME NEW u \in Users, NEW ttl \in Terms, RenewWhitelistEntry(m, u, ttl)
      PROVE  \E writes \in SUBSET Write : Decide(m, writes)
  <2>1. memory[u] \in Entry
    BY <1>2 DEF RenewWhitelistEntry, Covered, TypeOK, Table
  <2>2. RenewedEntry(memory[u], ttl) \in Entry
    BY <2>1, RenewedEntryType DEF TypeOK
  <2>3. {[user |-> u, entry |-> RenewedEntry(memory[u], ttl)]} \in SUBSET Write
    BY <2>2 DEF Write
  <2>4. QED
    BY <1>2, <2>3 DEF RenewWhitelistEntry
<1>3. ASSUME NEW u \in Users, RemoveWhitelistEntry(m, u)
      PROVE  \E writes \in SUBSET Write : Decide(m, writes)
  <2>1. {[user |-> u, entry |-> NoEntry]} \in SUBSET Write
    BY DEF Write
  <2>2. QED
    BY <1>3, <2>1 DEF RemoveWhitelistEntry
<1>4. QED
  BY <1>1, <1>2, <1>3 DEF ManagerRequest

LEMMA InitIInv == Init => IInv
BY SentinelAssumption DEF Init, IInv, TypeOK, Table, ColdStart, OneInFlight, WriteThrough,
   InFlight, NoTime

LEMMA NextTypeOK == TypeOK /\ ColdStart /\ [Next]_vars => TypeOK'
<1> SUFFICES ASSUME TypeOK, ColdStart, [Next]_vars PROVE TypeOK'
  OBVIOUS
<1> USE DEF TypeOK
<1>1. ASSUME NEW m \in Managers, ManagerRequest(m) PROVE TypeOK'
  <2>1. PICK writes \in SUBSET Write : Decide(m, writes)
    BY <1>1, RequestType
  <2>2. Overlap(m, writes) \subseteq Users
    BY <2>1 DEF Overlap, Write
  <2>3. QED
    BY <2>1, <2>2 DEF Decide, reminderVars, Writers
<1>2. ASSUME NEW w \in Writers, LoadRead(w) PROVE TypeOK'
  BY <1>2 DEF LoadRead, reminderVars
<1>3. ASSUME NEW w \in Writers, LoadInstall(w) PROVE TypeOK'
  BY <1>3 DEF LoadInstall, reminderVars
<1>4. ASSUME NEW w \in Writers, LoadFails(w) PROVE TypeOK'
  BY <1>4 DEF LoadFails, reminderVars
<1>5. ASSUME NEW w \in Writers, NEW x \in pending[w], StoreWrite(w, x) PROVE TypeOK'
  <2>1. x \in Write
    BY <1>5
  <2>2. x.user \in Users /\ x.entry \in Entry \cup {NoEntry}
    BY <2>1 DEF Write
  <2>3. store' \in Table
    BY <1>5, <2>2 DEF StoreWrite, Table
  <2>4. QED
    BY <1>5, <2>1, <2>2, <2>3 DEF StoreWrite, reminderVars
<1>6. ASSUME NEW w \in Writers, NEW x \in pending[w], NEW applied \in BOOLEAN,
             StoreFails(w, x, applied)
      PROVE TypeOK'
  <2>1. x \in Write
    BY <1>6
  <2>2. x.user \in Users /\ x.entry \in Entry \cup {NoEntry}
    BY <2>1 DEF Write
  <2>3. store' \in Table
    BY <1>6, <2>2 DEF StoreFails, Table
  <2>4. pending' \in [Writers -> SUBSET Write]
    BY <1>6 DEF StoreFails
  <2>5. torn' \in SUBSET Users /\ contended' \in SUBSET Users
    BY <1>6, <2>2 DEF StoreFails
  <2>6. QED
    BY <1>6, <2>3, <2>4, <2>5 DEF StoreFails, reminderVars
<1>7. ASSUME NEW w \in Writers, MemoryWrite(w) PROVE TypeOK'
  <2>1. current[w] \in Write /\ memory \in Table
    BY <1>7 DEF MemoryWrite, ColdStart
  <2>2. current[w].user \in Users /\ current[w].entry \in Entry \cup {NoEntry}
    BY <2>1 DEF Write
  <2>3. memory' \in Table
    BY <1>7, <2>1, <2>2 DEF MemoryWrite, Table
  <2>4. QED
    BY <1>7, <2>3 DEF MemoryWrite, reminderVars
<1>8. CASE RemindSelect
  <2> DEFINE writes == UNION {RoundWrites(u, memory[u], round) :
                                u \in {v \in Users : memory[v] # NoEntry}}
  <2>1. ASSUME NEW u \in Users, memory[u] # NoEntry
        PROVE  RoundWrites(u, memory[u], round) \subseteq Write
    <3>1. memory[u] \in Entry
      BY <1>8, <2>1 DEF RemindSelect, Table
    <3>2. QED
      BY <2>1, <3>1, RoundWritesType
  <2>3. writes \subseteq Write
    BY <2>1
  <2>4. Overlap(Reminder, writes) \subseteq Users
    BY <2>3 DEF Overlap, Write
  <2>5. QED
    BY <1>8, <2>3, <2>4 DEF RemindSelect, Writers
<1>9. CASE RemindStart
  BY <1>9 DEF RemindStart
<1>10. CASE RemindNotify
  BY <1>10 DEF RemindNotify
<1>11. CASE RemindEnd
  BY <1>11 DEF RemindEnd
<1>12. CASE RemindUnsent
  <2>1. pending' \in [Writers -> SUBSET Write]
    BY <1>12 DEF RemindUnsent
  <2>2. QED
    BY <1>12, <2>1 DEF RemindUnsent
<1>13. CASE Tick
  BY <1>13 DEF Tick, reminderVars
<1>14. CASE Restart
  BY <1>14 DEF Restart
<1>15. CASE UNCHANGED vars
  BY <1>15 DEF vars, reminderVars
<1>16. QED
  BY <1>1, <1>2, <1>3, <1>4, <1>5, <1>6, <1>7, <1>8, <1>9, <1>10, <1>11, <1>12, <1>13,
     <1>14, <1>15 DEF Next, WriterStep, WriterFailure, ReminderStep

\* Steps that touch neither copy, no load and no write in flight.
Quiet == UNCHANGED <<store, memory, loading, current, torn>>

LEMMA NextColdStart == TypeOK /\ ColdStart /\ [Next]_vars => ColdStart'
<1> SUFFICES ASSUME TypeOK, ColdStart, [Next]_vars, memory' = NotLoaded
             PROVE  \A w \in Writers : /\ pending'[w] = {} /\ current'[w] = NoWrite
                                       /\ loading'[w] \in {NotLoaded, store'}
  BY DEF ColdStart
<1> USE DEF TypeOK
<1>1. ASSUME NEW m \in Managers, ManagerRequest(m) PROVE FALSE
  <2>1. PICK writes \in SUBSET Write : Decide(m, writes)
    BY <1>1, RequestType
  <2>2. QED
    BY <2>1 DEF Decide
<1>2. ASSUME NEW w \in Writers, LoadRead(w) PROVE ColdStart'
  BY <1>2 DEF LoadRead, ColdStart
<1>3. ASSUME NEW w \in Writers, LoadInstall(w) PROVE FALSE
  BY <1>3, SentinelAssumption DEF LoadInstall
<1>4. ASSUME NEW w \in Writers, LoadFails(w) PROVE ColdStart'
  BY <1>4 DEF LoadFails, ColdStart
<1>5. ASSUME NEW w \in Writers, NEW x \in pending[w], StoreWrite(w, x) PROVE FALSE
  BY <1>5 DEF StoreWrite, ColdStart
<1>6. ASSUME NEW w \in Writers, NEW x \in pending[w], NEW applied \in BOOLEAN,
             StoreFails(w, x, applied)
      PROVE FALSE
  BY <1>6 DEF StoreFails, ColdStart
<1>7. ASSUME NEW w \in Writers, MemoryWrite(w) PROVE FALSE
  <2>1. memory \in Table
    BY <1>7 DEF MemoryWrite, ColdStart
  <2>2. current[w] \in Write
    BY <1>7 DEF MemoryWrite
  <2>3. memory' \in Table
    BY <1>7, <2>1, <2>2 DEF MemoryWrite, Table, Write
  <2>4. QED
    BY <2>3, SentinelAssumption
<1>8. CASE RemindSelect
  BY <1>8 DEF RemindSelect
<1>9. CASE RemindUnsent
  BY <1>9 DEF RemindUnsent, ColdStart, Writers
<1>10. CASE RemindStart \/ RemindNotify \/ RemindEnd \/ Tick \/ UNCHANGED vars
  BY <1>10 DEF RemindStart, RemindNotify, RemindEnd, Tick, vars, ColdStart
<1>11. CASE Restart
  BY <1>11 DEF Restart
<1>12. QED
  BY <1>1, <1>2, <1>3, <1>4, <1>5, <1>6, <1>7, <1>8, <1>9, <1>10, <1>11
     DEF Next, WriterStep, WriterFailure, ReminderStep, ColdStart

LEMMA NextAgreement == IInv /\ [Next]_vars => OneInFlight' /\ WriteThrough'
<1> SUFFICES ASSUME IInv, [Next]_vars PROVE OneInFlight' /\ WriteThrough'
  OBVIOUS
<1> USE DEF IInv, TypeOK
<1>1. ASSUME Quiet PROVE OneInFlight' /\ WriteThrough'
  BY <1>1 DEF Quiet, OneInFlight, WriteThrough, InFlight
<1>2. ASSUME NEW m \in Managers, ManagerRequest(m) PROVE Quiet
  <2>1. PICK writes \in SUBSET Write : Decide(m, writes)
    BY <1>2, RequestType
  <2>2. QED
    BY <2>1 DEF Decide, Quiet
<1>3. ASSUME NEW w \in Writers, LoadRead(w) PROVE OneInFlight' /\ WriteThrough'
  BY <1>3 DEF LoadRead, OneInFlight, WriteThrough, InFlight
<1>4. ASSUME NEW w \in Writers, LoadInstall(w) PROVE OneInFlight' /\ WriteThrough'
  BY <1>4 DEF LoadInstall, ColdStart, OneInFlight, WriteThrough, InFlight
<1>5. ASSUME NEW w \in Writers, LoadFails(w) PROVE OneInFlight' /\ WriteThrough'
  BY <1>5 DEF LoadFails, OneInFlight, WriteThrough, InFlight
<1>6. ASSUME NEW w \in Writers, NEW x \in pending[w], StoreWrite(w, x)
      PROVE OneInFlight' /\ WriteThrough'
  <2>1. x \in Write /\ x.user \in Users /\ x # NoWrite
    BY <1>6, SentinelAssumption DEF Write
  <2>2. /\ current' = [current EXCEPT ![w] = x] /\ store' = [store EXCEPT ![x.user] = x.entry]
        /\ memory' = memory /\ current[w] = NoWrite
    BY <1>6 DEF StoreWrite, MayWrite
  <2>3. ASSUME NEW u \in Users \ torn'
        PROVE  u \notin torn /\ (u = x.user => \A v \in Writers \ {w} : ~InFlight(v, u))
    BY <1>6, <2>3 DEF StoreWrite
  <2>4. ASSUME NEW u \in Users, NEW v \in Writers, v # w
        PROVE  InFlight(v, u)' <=> InFlight(v, u)
    BY <2>2, <2>4 DEF InFlight
  <2>5. ASSUME NEW u \in Users PROVE InFlight(w, u)' <=> u = x.user
    BY <2>1, <2>2 DEF InFlight
  <2>6. ASSUME NEW u \in Users, u # x.user PROVE store'[u] = store[u]
    BY <2>1, <2>2, <2>6 DEF Table
  <2>7. store'[x.user] = x.entry /\ current'[w] = x
    BY <2>1, <2>2 DEF Table
  <2>8. OneInFlight'
    <3> SUFFICES ASSUME NEW u \in Users \ torn', NEW v \in Writers, InFlight(v, u)'
                 PROVE  /\ store'[u] = current'[v].entry
                        /\ \A z \in Writers : InFlight(z, u)' => z = v
      BY DEF OneInFlight
    <3>1. CASE v = w
      BY <2>3, <2>4, <2>5, <2>7, <3>1
    <3>2. CASE v # w
      <4>1. InFlight(v, u) /\ u # x.user /\ u \notin torn
        BY <2>3, <2>4, <3>2
      <4>2. current'[v] = current[v]
        BY <2>2, <3>2
      <4>3. QED
        BY <2>4, <2>5, <2>6, <3>2, <4>1, <4>2 DEF OneInFlight
    <3>3. QED
      BY <3>1, <3>2
  <2>9. WriteThrough'
    BY <2>2, <2>3, <2>4, <2>5, <2>6 DEF WriteThrough, InFlight
  <2>10. QED
    BY <2>8, <2>9
<1>7. ASSUME NEW w \in Writers, NEW x \in pending[w], NEW applied \in BOOLEAN,
             StoreFails(w, x, applied)
      PROVE OneInFlight' /\ WriteThrough'
  <2>1. CASE applied
    <3>1. x.user \in Users
      BY <1>7 DEF Write
    <3>2. \A u \in Users \ torn' : u \notin torn /\ store'[u] = store[u]
      BY <1>7, <2>1, <3>1 DEF StoreFails, Table
    <3>3. QED
      BY <1>7, <3>2 DEF StoreFails, OneInFlight, WriteThrough, InFlight
  <2>2. CASE ~applied
    BY <1>7, <2>2, <1>1 DEF StoreFails, Quiet
  <2>3. QED
    BY <2>1, <2>2
<1>8. ASSUME NEW w \in Writers, MemoryWrite(w) PROVE OneInFlight' /\ WriteThrough'
  <2>1. current[w] \in Write /\ memory \in Table /\ current[w].user \in Users
    BY <1>8 DEF MemoryWrite, ColdStart, Write
  <2>2. /\ memory' = [memory EXCEPT ![current[w].user] = current[w].entry]
        /\ current' = [current EXCEPT ![w] = NoWrite]
        /\ store' = store /\ torn' = torn
    BY <1>8 DEF MemoryWrite
  <2>3. ASSUME NEW u \in Users, NEW v \in Writers
        PROVE  InFlight(v, u)' <=> v # w /\ InFlight(v, u)
    BY <2>2 DEF InFlight
  <2>4. OneInFlight'
    BY <2>2, <2>3 DEF OneInFlight
  <2>5. ASSUME NEW u \in Users \ torn, \A v \in Writers : ~InFlight(v, u)'
        PROVE  memory'[u] = store[u]
    <3>1. CASE u = current[w].user
      <4>1. InFlight(w, u)
        BY <1>8, <3>1 DEF MemoryWrite, InFlight
      <4>2. store[u] = current[w].entry
        BY <4>1 DEF OneInFlight
      <4>3. QED
        BY <2>1, <2>2, <3>1, <4>2 DEF Table
    <3>2. CASE u # current[w].user
      <4>1. \A v \in Writers : ~InFlight(v, u)
        BY <2>3, <2>5, <3>2 DEF InFlight
      <4>2. QED
        BY <1>8, <2>1, <2>2, <3>2, <4>1, SentinelAssumption DEF WriteThrough, Table
    <3>3. QED
      BY <3>1, <3>2
  <2>6. QED
    BY <2>2, <2>4, <2>5 DEF WriteThrough
<1>9. CASE ReminderStep \/ RemindUnsent \/ Tick \/ UNCHANGED vars
  BY <1>1, <1>9 DEF ReminderStep, RemindStart, RemindSelect, RemindNotify, RemindEnd,
     RemindUnsent, Tick, vars, Quiet
<1>10. CASE Restart
  BY <1>10 DEF Restart, OneInFlight, WriteThrough, InFlight
<1>11. QED
  BY <1>1, <1>2, <1>3, <1>4, <1>5, <1>6, <1>7, <1>8, <1>9, <1>10
     DEF Next, WriterStep, WriterFailure

\* The inductive invariant holds of every behaviour.
THEOREM WhitelistInvariant == Spec => []IInv
<1>1. IInv /\ [Next]_vars => IInv'
  BY NextTypeOK, NextColdStart, NextAgreement DEF IInv
<1>2. QED
  BY InitIInv, <1>1, PTL DEF Spec

\* Every variable of the whitelist keeps its type.
THEOREM WhitelistTypeCorrect == Spec => []TypeOK
BY WhitelistInvariant, PTL DEF IInv

\* The copy in memory and the hash in Redis agree on every user no writer is
\* working on, for any number of managers: the double check of the first load
\* and the order Redis-then-memory are enough, except for torn users.
THEOREM WhitelistWriteThrough == Spec => []WriteThrough
BY WhitelistInvariant, PTL DEF IInv

-----------------------------------------------------------------------------
(* Approvals *)

\* A writer between the two writes has not finished the write; before the notice
\* the reminder only drops.
CurrentIsPending ==
    /\ \A w \in Writers : current[w] # NoWrite => current[w] \in pending[w]
    /\ phase = "drop" /\ current[Reminder] # NoWrite => current[Reminder].entry = NoEntry

\* Two writers that target the same user are on record.
MeetingsAreKnown ==
    /\ torn \subseteq contended
    /\ \A v, w \in Writers : v # w => Targets(v) \cap Targets(w) \subseteq contended

\* A write of the round drops an entry past its end, or keeps its dates.
Foreseen(x) ==
    LET e == memory[x.user]
    IN  /\ e # NoEntry
        /\ x.entry = NoEntry => Deleted(e, now)
        /\ x.entry # NoEntry => x.entry.expiresAt = e.expiresAt /\ x.entry.deleteAt = e.deleteAt

\* What the round decided from its copy still fits the list in memory, for users
\* nobody else worked on meanwhile; it does not both drop and mark a user.
RoundForesees ==
    /\ round <= now
    /\ \A x \in pending[Reminder] : x.user \notin contended => Foreseen(x)
    /\ \A x, y \in pending[Reminder] : x.user = y.user /\ x.entry = NoEntry => y = x

ApprovalInv == CurrentIsPending /\ MeetingsAreKnown /\ RoundForesees

LEMMA InitApproval == Init => ApprovalInv
BY WhitelistAssumption
   DEF Init, ApprovalInv, CurrentIsPending, MeetingsAreKnown, RoundForesees, Targets, Writers

\* What a round decides for one user: one drop of an ended entry, or marks that keep
\* its dates.
LEMMA RoundWritesForesee ==
    ASSUME TypeOK, round <= now, NEW u \in Users, NEW e \in Entry,
           NEW x \in RoundWrites(u, e, round)
    PROVE  /\ x.user = u
           /\ x.entry = NoEntry =>
                /\ Deleted(e, now)
                /\ \A y \in RoundWrites(u, e, round) : y = x
           /\ x.entry # NoEntry => x.entry.expiresAt = e.expiresAt /\ x.entry.deleteAt = e.deleteAt
<1> USE SentinelAssumption DEF Entry, NoTime
<1>1. CASE Deleted(e, round)
  <2>1. RoundWrites(u, e, round) = {[user |-> u, entry |-> NoEntry]}
    BY <1>1 DEF RoundWrites, Ending, Overdue, Expiring
  <2>2. x = [user |-> u, entry |-> NoEntry]
    BY <2>1
  <2>3. Deleted(e, now)
    BY <1>1 DEF Deleted, TypeOK
  <2>4. QED
    BY <2>1, <2>2, <2>3
<1>2. CASE ~Deleted(e, round)
  <2>1. x \in {[user |-> u, entry |-> [e EXCEPT !.remindedFor = e.deleteAt]],
               [user |-> u, entry |-> [e EXCEPT !.expiredRemindedAt = round]],
               [user |-> u, entry |-> [e EXCEPT !.remindedFor = e.expiresAt]]}
    BY <1>2 DEF RoundWrites
  <2>2. x.user = u /\ x.entry.expiresAt = e.expiresAt /\ x.entry.deleteAt = e.deleteAt
    BY <2>1
  <2>3. x.entry # NoEntry
    <3>1. /\ [e EXCEPT !.remindedFor = e.deleteAt] \in Entry
          /\ [e EXCEPT !.expiredRemindedAt = round] \in Entry
          /\ [e EXCEPT !.remindedFor = e.expiresAt] \in Entry
      BY DEF TypeOK
    <3>2. x.entry \in Entry
      BY <2>1, <3>1
    <3>3. QED
      BY <3>2
  <2>4. QED
    BY <2>2, <2>3
<1>3. QED
  BY <1>1, <1>2

\* Steps that leave the memory copy, the writes and the history alone.
Still ==
    /\ UNCHANGED <<memory, pending, current, torn, contended>>
    /\ now <= now' /\ round' <= now' /\ (phase' = "drop" => phase = "drop")

LEMMA TargetsType ==
    ASSUME TypeOK, NEW w \in Writers
    PROVE  Targets(w) \subseteq Users
BY DEF TypeOK, Targets, Write

\* The users one writer decides to write and another writes already are on record.
LEMMA DecisionMeets ==
    ASSUME TypeOK, MeetingsAreKnown, NEW w \in Writers, NEW writes \in SUBSET Write,
           pending' = [pending EXCEPT ![w] = writes],
           contended' = contended \cup Overlap(w, writes), torn' = torn
    PROVE  MeetingsAreKnown'
<1>1. Targets(w)' = {x.user : x \in writes}
  BY DEF Targets, TypeOK
<1>2. ASSUME NEW v \in Writers, v # w PROVE Targets(v)' = Targets(v)
  BY <1>2 DEF Targets, TypeOK
<1>3. ASSUME NEW v \in Writers, v # w
      PROVE  Targets(w)' \cap Targets(v)' \subseteq contended'
  BY <1>1, <1>2, <1>3 DEF Overlap
<1>4. ASSUME NEW v \in Writers, NEW z \in Writers, v # z
      PROVE  Targets(v)' \cap Targets(z)' \subseteq contended'
  <2>1. CASE v = w \/ z = w
    BY <1>3, <1>4, <2>1
  <2>2. CASE v # w /\ z # w
    BY <1>2, <1>4, <2>2 DEF MeetingsAreKnown
  <2>3. QED
    BY <2>1, <2>2
<1>5. QED
  BY <1>4 DEF MeetingsAreKnown

\* Writers that finish or give up some of their writes.
LEMMA FewerWrites ==
    ASSUME TypeOK, MeetingsAreKnown, contended \subseteq contended', torn' \subseteq contended',
           \A w \in Writers : pending'[w] \subseteq pending[w]
    PROVE  MeetingsAreKnown'
<1>1. \A w \in Writers : Targets(w)' \subseteq Targets(w)
  BY DEF Targets
<1>2. QED
  BY <1>1 DEF MeetingsAreKnown

LEMMA NextApproval ==
    ASSUME IInv, ApprovalInv, [Next]_vars, TypeOK'
    PROVE  ApprovalInv'
<1> USE DEF IInv, ApprovalInv
<1>0. Reminder \in Writers /\ \A m \in Managers : m \in Writers /\ m # Reminder
  BY WhitelistAssumption DEF Writers
<1>1. ASSUME Still PROVE ApprovalInv'
  <2>1. CurrentIsPending' /\ MeetingsAreKnown'
    BY <1>1 DEF Still, CurrentIsPending, MeetingsAreKnown, Targets
  <2>2. ASSUME NEW x \in pending[Reminder], Foreseen(x), memory[x.user] \in Entry \cup {NoEntry}
        PROVE  Foreseen(x)'
    BY <1>1, <2>2 DEF Still, Foreseen, Deleted, Entry, NoTime, TypeOK
  <2>3. ASSUME NEW x \in pending[Reminder]
        PROVE  memory[x.user] \in Entry \cup {NoEntry}
    BY <1>0, <2>3 DEF TypeOK, ColdStart, Table, Write
  <2>4. RoundForesees'
    BY <1>1, <2>2, <2>3 DEF Still, RoundForesees
  <2>5. QED
    BY <2>1, <2>4
<1>2. ASSUME NEW m \in Managers, ManagerRequest(m) PROVE ApprovalInv'
  <2>1. PICK writes \in SUBSET Write : Decide(m, writes)
    BY <1>2, RequestType
  <2>2. CurrentIsPending'
    BY <1>0, <2>1 DEF Decide, Idle, reminderVars, CurrentIsPending, TypeOK
  <2>3. MeetingsAreKnown'
    BY <1>0, <2>1, DecisionMeets DEF Decide
  <2>4. pending'[Reminder] = pending[Reminder] /\ contended \subseteq contended'
    BY <1>0, <2>1 DEF Decide, TypeOK
  <2>5. RoundForesees'
    BY <2>1, <2>4 DEF Decide, reminderVars, RoundForesees, Foreseen
  <2>6. QED
    BY <2>2, <2>3, <2>5
<1>3. ASSUME NEW w \in Writers, LoadRead(w) \/ LoadFails(w) PROVE ApprovalInv'
  BY <1>1, <1>3 DEF LoadRead, LoadFails, Still, reminderVars, RoundForesees, TypeOK
<1>4. ASSUME NEW w \in Writers, LoadInstall(w) PROVE ApprovalInv'
  <2>1. CASE memory = NotLoaded
    BY <1>0, <1>4, <2>1 DEF LoadInstall, ColdStart, reminderVars, CurrentIsPending,
       MeetingsAreKnown, RoundForesees, Targets
  <2>2. CASE memory # NotLoaded
    BY <1>1, <1>4, <2>2 DEF LoadInstall, Still, reminderVars, RoundForesees, TypeOK
  <2>3. QED
    BY <2>1, <2>2
<1>5. ASSUME NEW w \in Writers, NEW x \in pending[w], StoreWrite(w, x) PROVE ApprovalInv'
  <2>1. CurrentIsPending'
    BY <1>0, <1>5 DEF StoreWrite, MayWrite, reminderVars, CurrentIsPending, TypeOK
  <2>2. torn' \subseteq contended
    <3>1. ASSUME NEW v \in Writers \ {w}, InFlight(v, x.user) PROVE x.user \in contended
      <4>1. current[v] \in pending[v] /\ current[v].user = x.user
        BY <3>1 DEF InFlight, CurrentIsPending
      <4>2. x.user \in Targets(v) /\ x.user \in Targets(w)
        BY <4>1 DEF Targets
      <4>3. QED
        BY <4>2 DEF MeetingsAreKnown
    <3>2. QED
      BY <1>5, <3>1 DEF StoreWrite, MeetingsAreKnown
  <2>3. MeetingsAreKnown'
    BY <1>5, <2>2, FewerWrites DEF StoreWrite
  <2>4. RoundForesees'
    BY <1>5 DEF StoreWrite, reminderVars, RoundForesees, Foreseen
  <2>5. QED
    BY <2>1, <2>3, <2>4
<1>6. ASSUME NEW w \in Writers, NEW x \in pending[w], NEW applied \in BOOLEAN,
             StoreFails(w, x, applied)
      PROVE ApprovalInv'
  <2>1. /\ current' = current /\ current[w] = NoWrite
        /\ \A v \in Writers : pending'[v] \subseteq pending[v] /\ (v # w => pending'[v] = pending[v])
    BY <1>6 DEF StoreFails, MayWrite, TypeOK
  <2>2. CurrentIsPending'
    BY <1>0, <1>6, <2>1 DEF StoreFails, reminderVars, CurrentIsPending
  <2>3. contended \subseteq contended' /\ torn' \subseteq contended'
    BY <1>6 DEF StoreFails, MeetingsAreKnown
  <2>4. MeetingsAreKnown'
    BY <2>1, <2>3, FewerWrites
  <2>5. RoundForesees'
    BY <1>0, <1>6, <2>1, <2>3 DEF StoreFails, reminderVars, RoundForesees, Foreseen
  <2>6. QED
    BY <2>2, <2>4, <2>5
<1>7. ASSUME NEW w \in Writers, MemoryWrite(w) PROVE ApprovalInv'
  <2>1. /\ current[w] \in pending[w] /\ current[w] \in Write /\ memory \in Table
        /\ memory' = [memory EXCEPT ![current[w].user] = current[w].entry]
        /\ current' = [current EXCEPT ![w] = NoWrite]
        /\ pending' = [pending EXCEPT ![w] = @ \ {current[w]}]
        /\ UNCHANGED <<now, round, torn, contended>>
    BY <1>7 DEF MemoryWrite, CurrentIsPending, TypeOK, ColdStart, reminderVars
  <2> DEFINE z == current[w]
  <2>2. z.user \in Users /\ z.entry \in Entry \cup {NoEntry} /\ z = [user |-> z.user, entry |-> z.entry]
    BY <2>1 DEF Write
  <2>3. CurrentIsPending'
    BY <1>0, <1>7, <2>1 DEF MemoryWrite, reminderVars, CurrentIsPending, TypeOK
  <2>4. \A v \in Writers : pending'[v] \subseteq pending[v]
    BY <2>1 DEF TypeOK
  <2>5. MeetingsAreKnown'
    BY <2>1, <2>4, FewerWrites DEF MeetingsAreKnown
  <2>6. ASSUME NEW x \in pending'[Reminder], x.user \notin contended'
        PROVE  Foreseen(x)'
    <3>1. x \in pending[Reminder] /\ Foreseen(x) /\ x \in Write
      BY <1>0, <2>1, <2>4, <2>6 DEF RoundForesees, TypeOK
    <3>2. CASE x.user # z.user
      <4>1. memory'[x.user] = memory[x.user]
        BY <2>1, <2>2, <3>2 DEF Table
      <4>2. QED
        BY <2>1, <3>1, <4>1 DEF Foreseen
    <3>3. CASE x.user = z.user
      <4>1. w = Reminder
        BY <1>0, <2>1, <2>6, <3>1, <3>3 DEF MeetingsAreKnown, Targets
      <4>2. z \in pending[Reminder] /\ x # z /\ Foreseen(z)
        BY <2>1, <2>6, <3>3, <4>1 DEF RoundForesees, TypeOK
      <4>3. x.entry # NoEntry /\ z.entry # NoEntry
        BY <3>1, <3>3, <4>2 DEF RoundForesees
      <4>4. memory'[x.user] = z.entry
        BY <2>1, <2>2, <3>3 DEF Table
      <4>5. QED
        BY <3>1, <3>3, <4>2, <4>3, <4>4 DEF Foreseen
    <3>4. QED
      BY <3>2, <3>3
  <2>7. RoundForesees'
    BY <1>0, <2>1, <2>4, <2>6 DEF RoundForesees
  <2>8. QED
    BY <2>3, <2>5, <2>7
<1>8. CASE RemindSelect
  <2> DEFINE writes == UNION {RoundWrites(u, memory[u], round) :
                                u \in {v \in Users : memory[v] # NoEntry}}
  <2>1. /\ memory \in Table /\ pending[Reminder] = {} /\ current[Reminder] = NoWrite
        /\ pending' = [pending EXCEPT ![Reminder] = writes]
        /\ contended' = contended \cup Overlap(Reminder, writes)
        /\ UNCHANGED <<now, memory, current, round, torn>>
    BY <1>0, <1>8 DEF RemindSelect, Idle, CurrentIsPending, TypeOK
  <2>2. ASSUME NEW x \in writes
        PROVE  \E u \in Users : memory[u] \in Entry /\ x \in RoundWrites(u, memory[u], round)
    BY <2>1, <2>2 DEF Table
  <2>3. writes \in SUBSET Write
    BY <2>2, RoundWritesType DEF TypeOK
  <2>4. MeetingsAreKnown'
    BY <1>0, <2>1, <2>3, DecisionMeets
  <2>5. CurrentIsPending'
    BY <1>0, <2>1 DEF CurrentIsPending, TypeOK
  <2>6. pending'[Reminder] = writes /\ round <= now
    BY <1>0, <2>1 DEF TypeOK, RoundForesees
  <2>7. ASSUME NEW x \in writes PROVE Foreseen(x)'
    <3>1. PICK u \in Users : memory[u] \in Entry /\ x \in RoundWrites(u, memory[u], round)
      BY <2>2, <2>7
    <3>2. QED
      BY <2>1, <2>6, <3>1, RoundWritesForesee, SentinelAssumption DEF Foreseen
  <2>8. ASSUME NEW x \in writes, NEW y \in writes, x.user = y.user, x.entry = NoEntry
        PROVE  y = x
    <3>1. PICK u \in Users : memory[u] \in Entry /\ x \in RoundWrites(u, memory[u], round)
      BY <2>2, <2>8
    <3>2. PICK v \in Users : memory[v] \in Entry /\ y \in RoundWrites(v, memory[v], round)
      BY <2>2, <2>8
    <3>3. u = v
      BY <2>6, <2>8, <3>1, <3>2, RoundWritesForesee
    <3>4. QED
      BY <2>6, <2>8, <3>1, <3>2, <3>3, RoundWritesForesee
  <2>9. QED
    BY <2>1, <2>4, <2>5, <2>6, <2>7, <2>8 DEF RoundForesees
<1>9. CASE RemindStart \/ RemindNotify \/ RemindEnd \/ Tick \/ UNCHANGED vars
  BY <1>1, <1>9 DEF RemindStart, RemindNotify, RemindEnd, Tick, vars, reminderVars, Still,
     RoundForesees, TypeOK
<1>10. CASE RemindUnsent
  <2>1. current[Reminder] = NoWrite
    BY <1>0, <1>10 DEF RemindUnsent, CurrentIsPending
  <2>2. /\ current' = current /\ UNCHANGED <<memory, now, torn, contended>> /\ round' = 0
        /\ pending'[Reminder] = {} /\ phase' = "sleep"
        /\ \A v \in Writers \ {Reminder} : pending'[v] = pending[v]
    BY <1>0, <1>10 DEF RemindUnsent, TypeOK
  <2>3. CurrentIsPending'
    BY <2>1, <2>2 DEF CurrentIsPending
  <2>4. MeetingsAreKnown'
    BY <2>2, FewerWrites DEF MeetingsAreKnown
  <2>5. RoundForesees'
    BY <2>2 DEF RoundForesees, TypeOK
  <2>6. QED
    BY <2>3, <2>4, <2>5
<1>11. CASE Restart
  BY <1>0, <1>11 DEF Restart, CurrentIsPending, MeetingsAreKnown, RoundForesees, Targets, TypeOK
<1>12. QED
  BY <1>1, <1>2, <1>3, <1>4, <1>5, <1>6, <1>7, <1>8, <1>9, <1>10, <1>11
     DEF Next, WriterStep, WriterFailure, ReminderStep

\* What a check sees of a user that no two writers met on is changed by somebody who
\* has just that write pending; and the reminder's fits what is seen.
LEMMA ViewIsWritten ==
    ASSUME IInv, ApprovalInv, [Next]_vars,
           NEW u \in Users, u \notin contended, u \notin contended', View(u)' # View(u)
    PROVE  \E w \in Writers : \E x \in pending[w] :
              /\ x \in Write /\ x.user = u /\ x.entry = View(u)'
              /\ memory # NotLoaded /\ now' = now
              /\ w = Reminder => Foreseen(x)
<1> USE DEF IInv, ApprovalInv
<1>1. ASSUME UNCHANGED <<memory, store>> PROVE FALSE
  BY <1>1 DEF View
<1>2. ASSUME NEW w \in Writers, NEW x \in pending[w], x.user = u, w = Reminder
      PROVE  Foreseen(x)
  BY <1>2 DEF RoundForesees
<1>3. ASSUME NEW w \in Writers, MemoryWrite(w)
      PROVE  current[w] \in pending[w] /\ current[w].user = u /\ current[w].entry = View(u)'
             /\ current[w] \in Write /\ memory # NotLoaded /\ now' = now
  <2>1. /\ current[w] \in pending[w] /\ current[w] \in Write /\ memory \in Table
        /\ memory' = [memory EXCEPT ![current[w].user] = current[w].entry] /\ now' = now
    BY <1>3 DEF MemoryWrite, CurrentIsPending, TypeOK, ColdStart
  <2>2. memory' \in Table /\ memory # NotLoaded /\ memory' # NotLoaded
    BY <2>1, SentinelAssumption DEF Table, Write
  <2>3. current[w].user = u
    BY <2>1, <2>2 DEF View, Table
  <2>4. View(u)' = current[w].entry
    BY <2>1, <2>2, <2>3 DEF View, Table
  <2>5. QED
    BY <2>1, <2>2, <2>3, <2>4
<1>4. ASSUME Restart
      PROVE  \E w \in Writers : /\ current[w] \in pending[w] /\ current[w].user = u
                                /\ current[w].entry = View(u)'
                                /\ current[w] \in Write /\ memory # NotLoaded /\ now' = now
  <2>1. memory # NotLoaded /\ View(u) = memory[u] /\ View(u)' = store[u] /\ now' = now
    BY <1>4 DEF Restart, View
  <2>2. PICK w \in Writers : InFlight(w, u)
    BY <2>1 DEF WriteThrough, MeetingsAreKnown
  <2>3. current[w] \in pending[w] /\ current[w].user = u /\ current[w] \in Write
    BY <2>2 DEF InFlight, CurrentIsPending, TypeOK
  <2>4. store[u] = current[w].entry
    BY <2>2 DEF OneInFlight, MeetingsAreKnown
  <2>5. QED
    BY <2>1, <2>3, <2>4
<1>5. ASSUME NEW w \in Writers, LoadInstall(w) PROVE FALSE
  BY <1>5, SentinelAssumption DEF LoadInstall, ColdStart, View
<1>6. ASSUME NEW w \in Writers, NEW x \in pending[w],
             StoreWrite(w, x) \/ \E applied \in BOOLEAN : StoreFails(w, x, applied)
      PROVE FALSE
  BY <1>6 DEF StoreWrite, StoreFails, ColdStart, View
<1>7. ASSUME NEW w \in Writers, LoadRead(w) \/ LoadFails(w) PROVE FALSE
  BY <1>1, <1>7 DEF LoadRead, LoadFails
<1>8. ASSUME NEW m \in Managers, ManagerRequest(m) PROVE FALSE
  <2>1. PICK writes \in SUBSET Write : Decide(m, writes)
    BY <1>8, RequestType
  <2>2. QED
    BY <1>1, <2>1 DEF Decide
<1>9. ASSUME ReminderStep \/ RemindUnsent \/ Tick \/ UNCHANGED vars PROVE FALSE
  BY <1>1, <1>9 DEF ReminderStep, RemindStart, RemindSelect, RemindNotify, RemindEnd,
     RemindUnsent, Tick, vars
<1>10. Restart \/ \E w \in Writers : MemoryWrite(w)
  <2>1. ASSUME NEW w \in Writers, WriterStep(w) \/ WriterFailure(w) PROVE MemoryWrite(w)
    BY <1>5, <1>6, <1>7, <2>1 DEF WriterStep, WriterFailure
  <2>2. QED
    BY <1>8, <1>9, <2>1 DEF Next
<1>11. QED
  BY <1>2, <1>3, <1>4, <1>10

\* Every step changes approvals as ApprovalStep allows.
LEMMA NextChangesApprovals ==
    ASSUME IInv, ApprovalInv, [Next]_vars
    PROVE  ApprovalStep
<1>1. SUFFICES ASSUME NEW u \in Users, u \notin contended, u \notin contended',
                      \A m \in Managers : u \notin Targets(m), Approval(u)' # Approval(u)
               PROVE  Approval(u)' = <<>> /\ Deleted(View(u), now)
  BY DEF ApprovalStep
<1>2. View(u)' # View(u)
  BY <1>1 DEF Approval
<1>3. PICK w \in Writers : \E x \in pending[w] :
          /\ x \in Write /\ x.user = u /\ x.entry = View(u)'
          /\ memory # NotLoaded /\ now' = now
          /\ w = Reminder => Foreseen(x)
  BY <1>1, <1>2, ViewIsWritten
<1>4. PICK x \in pending[w] :
          /\ x \in Write /\ x.user = u /\ x.entry = View(u)'
          /\ memory # NotLoaded /\ now' = now
          /\ w = Reminder => Foreseen(x)
  BY <1>3
<1>5. Foreseen(x) /\ View(u) = memory[u]
  BY <1>1, <1>4 DEF Targets, Writers, View
<1>6. QED
  BY <1>1, <1>4, <1>5 DEF Foreseen, Approval

\* The dates of approvals and who works on them, in every behaviour.
THEOREM ApprovalInvariant == Spec => []ApprovalInv
<1>1. IInv /\ IInv' /\ ApprovalInv /\ [Next]_vars => ApprovalInv'
  BY NextApproval DEF IInv
<1>2. QED
  BY InitApproval, WhitelistInvariant, <1>1, PTL DEF Spec

\* For any number of managers, users, failures and restarts, the dates of an approval
\* change only under a manager's request, and the reminder ends none but an entry past
\* its end, of every user whose writers did not meet.
THEOREM WhitelistApprovals == Spec => ApprovalsAreTheAdministrators
<1>1. IInv /\ ApprovalInv /\ [Next]_vars => [ApprovalStep]_vars
  BY NextChangesApprovals
<1>2. QED
  BY ApprovalInvariant, WhitelistInvariant, <1>1, PTL DEF Spec, ApprovalsAreTheAdministrators

-----------------------------------------------------------------------------
\* What storage/whitelist/defs.go:4 says of access, for the users no two writers met
\* on: AccessEndsStep with that exception.
AccessEndsUncontended ==
    \A u \in Users \ (contended \cup contended') :
        Protected(u) /\ ~Protected(u)' =>
            \/ Deleted(View(u), now') \/ View(u)' # NoEntry
            \/ \E m \in Managers : [user |-> u, entry |-> NoEntry] \in pending[m]

LEMMA NextEndsAccess ==
    ASSUME IInv, ApprovalInv, [Next]_vars
    PROVE  AccessEndsUncontended
<1>1. SUFFICES ASSUME NEW u \in Users, u \notin contended, u \notin contended',
                      Protected(u), View(u)' = NoEntry
               PROVE  \E m \in Managers : [user |-> u, entry |-> NoEntry] \in pending[m]
  BY DEF AccessEndsUncontended
<1>2. View(u)' # View(u)
  BY <1>1 DEF Protected
<1>3. PICK w \in Writers : \E x \in pending[w] :
          /\ x \in Write /\ x.user = u /\ x.entry = View(u)'
          /\ memory # NotLoaded /\ now' = now
          /\ w = Reminder => Foreseen(x)
  BY <1>1, <1>2, ViewIsWritten
<1>4. PICK x \in pending[w] :
          /\ x \in Write /\ x.user = u /\ x.entry = View(u)'
          /\ memory # NotLoaded /\ now' = now
          /\ w = Reminder => Foreseen(x)
  BY <1>3
<1>5. x = [user |-> u, entry |-> NoEntry]
  BY <1>1, <1>4 DEF Write
<1>6. w # Reminder
  BY <1>1, <1>4, <1>5 DEF Foreseen, Protected, View
<1>7. QED
  BY <1>4, <1>5, <1>6 DEF Writers

\* "Access ends only when a temporary entry reaches DeleteAt or an administrator
\* removes the entry" holds of every user but those whose writers met, which is what
\* the run whitelist_access needs to refute it.
THEOREM WhitelistAccessEnds == Spec => [][AccessEndsUncontended]_vars
<1>1. IInv /\ ApprovalInv /\ [Next]_vars => [AccessEndsUncontended]_vars
  BY NextEndsAccess
<1>2. QED
  BY ApprovalInvariant, WhitelistInvariant, <1>1, PTL DEF Spec
=============================================================================
