------------------------------ MODULE Whitelist ------------------------------
(***************************************************************************)
(* The whitelist of one protected channel: the in-memory copy that checks  *)
(* read, the Redis hash it is written through to, the managers who add,    *)
(* renew and remove entries from the Mini App, and the reminder loop that  *)
(* drops ended entries and marks the reminded ones.  Every actor runs in   *)
(* a goroutine of its own; whitelistMutex is held for single map accesses  *)
(* only, so a Redis call separates the read from the write and the write   *)
(* to Redis from the write to memory.                                      *)
(* controllers/scanner/whitelist.go, storage/whitelist.                    *)
(***************************************************************************)
EXTENDS Integers, FiniteSets

CONSTANTS
    Users,         \* channel members an administrator may approve
    Managers,      \* concurrent Mini App requests
    Reminder,      \* the reminder goroutine
    NoEntry,       \* a user without an entry
    NoWrite,       \* a writer with no write between Redis and memory
    NotLoaded,     \* no in-memory copy yet
    Terms,         \* the terms a request may ask for; 0 is "no end"
    ReviewTTL,     \* whitelistTTL
    RemindBefore,  \* whitelistRemindBefore
    RemindEvery,   \* whitelistExpiredRemindEvery
    MaxTime,       \* bound on the clock
    MaxFailures,   \* bound on failing Redis calls and unsent notices
    MaxRestarts    \* bound on restarts of the process

NoTime == -1

ASSUME WhitelistAssumption ==
    /\ Reminder \notin Managers
    /\ Terms \subseteq Nat
    /\ {ReviewTTL, RemindBefore, RemindEvery} \subseteq Nat \ {0}
    /\ {MaxTime, MaxFailures, MaxRestarts} \subseteq Nat

Writers == Managers \cup {Reminder}

Entry == [expiresAt : Nat, deleteAt : Nat \cup {NoTime},
          remindedFor : Nat \cup {NoTime}, expiredRemindedAt : Nat \cup {NoTime}]

Table == [Users -> Entry \cup {NoEntry}]

\* A write of one user's entry; NoEntry drops it.
Write == [user : Users, entry : Entry \cup {NoEntry}]

ASSUME SentinelAssumption ==
    /\ NoEntry \notin Entry
    /\ NoWrite \notin Write
    /\ NotLoaded \notin Table

VARIABLES
    now,        \* d.now()
    store,      \* the Redis hash of the channel
    memory,     \* d.whitelists[channelID]
    loading,    \* what a writer loading the list has read from Redis
    pending,    \* the writes a writer has decided on and not finished
    current,    \* the write that reached Redis and not memory yet
    phase,      \* where the reminder round is
    round,      \* the time the reminder round started at, 0 between rounds
    failures,
    restarts,
    torn,       \* history: users written in Redis between the two writes of another
    contended   \* history: users two writers worked on at the same time

vars == <<now, store, memory, loading, pending, current, phase, round,
          failures, restarts, torn, contended>>

reminderVars == <<phase, round>>

-----------------------------------------------------------------------------
(* Entry: storage/whitelist/defs.go *)

Expired(e, t) == t >= e.expiresAt

Deleted(e, t) == e.deleteAt # NoTime /\ t >= e.deleteAt

EndsBeforeReview(e) == e.deleteAt # NoTime /\ e.deleteAt <= e.expiresAt

DeleteAt(ttl) == IF ttl = 0 THEN NoTime ELSE now + ttl

\* Mutant: the review date is computed backwards.
FreshEntryBackwards(ttl) ==
    [expiresAt |-> now - ReviewTTL, deleteAt |-> DeleteAt(ttl),
     remindedFor |-> NoTime, expiredRemindedAt |-> NoTime]

FreshEntry(ttl) ==
    [expiresAt |-> now + ReviewTTL, deleteAt |-> DeleteAt(ttl),
     remindedFor |-> NoTime, expiredRemindedAt |-> NoTime]

RenewedEntry(e, ttl) ==
    [e EXCEPT !.expiresAt = now + ReviewTTL,
              !.deleteAt = IF ttl = 0 THEN e.deleteAt ELSE now + ttl,
              !.expiredRemindedAt = NoTime]

\* The four lists of one reminder round; an entry is in at most one of them.
Ending(e, t) ==
    /\ ~Deleted(e, t) /\ EndsBeforeReview(e)
    /\ e.deleteAt - t <= RemindBefore /\ e.remindedFor # e.deleteAt

Overdue(e, t) ==
    /\ ~Deleted(e, t) /\ ~EndsBeforeReview(e) /\ Expired(e, t)
    /\ e.expiredRemindedAt = NoTime \/ t - e.expiredRemindedAt >= RemindEvery

Expiring(e, t) ==
    /\ ~Deleted(e, t) /\ ~EndsBeforeReview(e) /\ ~Expired(e, t)
    /\ e.expiresAt - t <= RemindBefore /\ e.remindedFor # e.expiresAt

\* Mutant: an entry due for review is dropped with the ended ones.
RoundWritesDropsExpired(u, e, t) ==
    {w \in {[user |-> u, entry |-> NoEntry]} : Deleted(e, t) \/ Expired(e, t)}

\* Mutant: the case of temporary entries comes before the case of ended ones.
RoundWritesEndingFirst(u, e, t) ==
    {w \in {[user |-> u, entry |-> NoEntry]} : Deleted(e, t) /\ ~EndsBeforeReview(e)}

\* What the round writes for entry e of user u: nothing, a drop or a mark.
RoundWrites(u, e, t) ==
    {w \in {[user |-> u, entry |-> NoEntry]} : Deleted(e, t)}
    \cup {w \in {[user |-> u, entry |-> [e EXCEPT !.remindedFor = e.deleteAt]]} : Ending(e, t)}
    \cup {w \in {[user |-> u, entry |-> [e EXCEPT !.expiredRemindedAt = t]]} : Overdue(e, t)}
    \cup {w \in {[user |-> u, entry |-> [e EXCEPT !.remindedFor = e.expiresAt]]} : Expiring(e, t)}

\* whitelistEntry on a loaded list.
Covered(u) == memory[u] # NoEntry /\ ~Deleted(memory[u], now)

Idle(w) == loading[w] = NotLoaded /\ pending[w] = {}

Targets(w) == {x.user : x \in pending[w]}

\* The users of writes that another writer is working on already.
Overlap(w, writes) ==
    {x.user : x \in writes} \cap UNION {Targets(v) : v \in Writers \ {w}}

InFlight(w, u) == current[w] # NoWrite /\ current[w].user = u

-----------------------------------------------------------------------------
Init ==
    /\ now = 0
    /\ store = [u \in Users |-> NoEntry]
    /\ memory = NotLoaded
    /\ loading = [w \in Writers |-> NotLoaded]
    /\ pending = [w \in Writers |-> {}]
    /\ current = [w \in Writers |-> NoWrite]
    /\ phase = "sleep" /\ round = 0
    /\ failures = 0 /\ restarts = 0
    /\ torn = {} /\ contended = {}

\* channelWhitelist, first half: not in memory, so read Redis without the lock.
\* The reminder loads at the start of a round, a manager at the start of a request.
LoadRead(w) ==
    /\ memory = NotLoaded /\ Idle(w)
    /\ w = Reminder => phase = "select"
    /\ loading' = [loading EXCEPT ![w] = store]
    /\ UNCHANGED <<now, store, memory, pending, current, reminderVars,
                   failures, restarts, torn, contended>>

\* Mutant: the load does not look again before it installs.
LoadInstallUnchecked(w) ==
    /\ loading[w] # NotLoaded
    /\ memory' = loading[w]
    /\ loading' = [loading EXCEPT ![w] = NotLoaded]
    /\ UNCHANGED <<now, store, pending, current, reminderVars,
                   failures, restarts, torn, contended>>

\* channelWhitelist, second half: install unless another load was faster.
LoadInstall(w) ==
    /\ loading[w] # NotLoaded
    /\ memory' = IF memory = NotLoaded THEN loading[w] ELSE memory
    /\ loading' = [loading EXCEPT ![w] = NotLoaded]
    /\ UNCHANGED <<now, store, pending, current, reminderVars,
                   failures, restarts, torn, contended>>

\* The load fails: the request ends with an error, the reminder skips the channel.
LoadFails(w) ==
    /\ failures < MaxFailures
    /\ memory = NotLoaded /\ Idle(w)
    /\ w = Reminder => phase = "select"
    /\ failures' = failures + 1
    /\ phase' = IF w = Reminder THEN "sleep" ELSE phase
    /\ round' = IF w = Reminder THEN 0 ELSE round
    /\ UNCHANGED <<now, store, memory, loading, pending, current,
                   restarts, torn, contended>>

-----------------------------------------------------------------------------
(* Requests of managers: decide what to write, from the list in memory. *)

Decide(m, writes) ==
    /\ memory # NotLoaded /\ Idle(m)
    /\ pending' = [pending EXCEPT ![m] = writes]
    /\ contended' = contended \cup Overlap(m, writes)
    /\ UNCHANGED <<now, store, memory, loading, current, reminderVars,
                   failures, restarts, torn>>

AddToWhitelist(m, batch, ttl) ==
    Decide(m, {[user |-> u, entry |-> FreshEntry(ttl)] : u \in batch})

RenewWhitelistEntry(m, u, ttl) ==
    /\ memory # NotLoaded /\ Covered(u)
    /\ Decide(m, {[user |-> u, entry |-> RenewedEntry(memory[u], ttl)]})

RemoveWhitelistEntry(m, u) ==
    /\ memory # NotLoaded /\ Covered(u)
    /\ Decide(m, {[user |-> u, entry |-> NoEntry]})

-----------------------------------------------------------------------------
(* putWhitelistEntry and the drops: Redis first, memory second. *)

\* The reminder drops the ended entries, then notifies, then marks.
MayWrite(w, x) ==
    /\ x \in pending[w] /\ current[w] = NoWrite
    /\ w = Reminder => phase = IF x.entry = NoEntry THEN "drop" ELSE "mark"

StoreWrite(w, x) ==
    /\ MayWrite(w, x)
    /\ store' = [store EXCEPT ![x.user] = x.entry]
    /\ current' = [current EXCEPT ![w] = x]
    /\ torn' = torn \cup {u \in {x.user} : \E v \in Writers \ {w} : InFlight(v, u)}
    /\ UNCHANGED <<now, memory, loading, pending, reminderVars,
                   failures, restarts, contended>>

\* A failed write ends a manager's request; the reminder goes on with the next
\* entry.  A call that timed out may have been applied all the same.
StoreFails(w, x, applied) ==
    /\ failures < MaxFailures
    /\ MayWrite(w, x)
    /\ failures' = failures + 1
    /\ pending' = [pending EXCEPT ![w] = IF w = Reminder THEN @ \ {x} ELSE {}]
    /\ store' = IF applied THEN [store EXCEPT ![x.user] = x.entry] ELSE store
    /\ torn' = IF applied THEN torn \cup {x.user} ELSE torn
    /\ contended' = IF applied THEN contended \cup {x.user} ELSE contended
    /\ UNCHANGED <<now, memory, loading, current, reminderVars, restarts>>

MemoryWrite(w) ==
    /\ current[w] # NoWrite
    /\ memory' = [memory EXCEPT ![current[w].user] = current[w].entry]
    /\ pending' = [pending EXCEPT ![w] = @ \ {current[w]}]
    /\ current' = [current EXCEPT ![w] = NoWrite]
    /\ UNCHANGED <<now, store, loading, reminderVars, failures, restarts, torn, contended>>

-----------------------------------------------------------------------------
(* remindWhitelists *)

RemindStart ==
    /\ phase = "sleep"
    /\ phase' = "select" /\ round' = now
    /\ UNCHANGED <<now, store, memory, loading, pending, current,
                   failures, restarts, torn, contended>>

\* Under the lock: copy the entries that need something into the round's lists.
RemindSelect ==
    /\ phase = "select" /\ memory # NotLoaded /\ Idle(Reminder)
    /\ LET writes == UNION {RoundWrites(u, memory[u], round) :
                               u \in {v \in Users : memory[v] # NoEntry}}
       IN  /\ pending' = [pending EXCEPT ![Reminder] = writes]
           /\ contended' = contended \cup Overlap(Reminder, writes)
    /\ phase' = "drop"
    /\ UNCHANGED <<now, store, memory, loading, current, round,
                   failures, restarts, torn>>

\* The drops are done; the notice is sent, if there is one to send.
RemindNotify ==
    /\ phase = "drop"
    /\ \A x \in pending[Reminder] : x.entry # NoEntry
    /\ phase' = "mark"
    /\ UNCHANGED <<now, store, memory, loading, pending, current, round,
                   failures, restarts, torn, contended>>

\* Nobody got the notice: nothing is marked and the next round sends it again.
RemindUnsent ==
    /\ failures < MaxFailures
    /\ phase = "drop"
    /\ pending[Reminder] # {}
    /\ \A x \in pending[Reminder] : x.entry # NoEntry
    /\ failures' = failures + 1
    /\ pending' = [pending EXCEPT ![Reminder] = {}]
    /\ phase' = "sleep" /\ round' = 0
    /\ UNCHANGED <<now, store, memory, loading, current, restarts, torn, contended>>

RemindEnd ==
    /\ phase = "mark" /\ pending[Reminder] = {}
    /\ phase' = "sleep" /\ round' = 0
    /\ UNCHANGED <<now, store, memory, loading, pending, current,
                   failures, restarts, torn, contended>>

-----------------------------------------------------------------------------
Tick ==
    /\ now < MaxTime
    /\ now' = now + 1
    /\ UNCHANGED <<store, memory, loading, pending, current, reminderVars,
                   failures, restarts, torn, contended>>

\* The process dies and starts again: Redis is all that is left.
Restart ==
    /\ restarts < MaxRestarts
    /\ restarts' = restarts + 1
    /\ memory' = NotLoaded
    /\ loading' = [w \in Writers |-> NotLoaded]
    /\ pending' = [w \in Writers |-> {}]
    /\ current' = [w \in Writers |-> NoWrite]
    /\ phase' = "sleep" /\ round' = 0
    /\ torn' = {} /\ contended' = {}
    /\ UNCHANGED <<now, store, failures>>

ManagerRequest(m) ==
    \/ \E batch \in (SUBSET Users) \ {{}}, ttl \in Terms : AddToWhitelist(m, batch, ttl)
    \/ \E u \in Users, ttl \in Terms : RenewWhitelistEntry(m, u, ttl)
    \/ \E u \in Users : RemoveWhitelistEntry(m, u)

WriterStep(w) ==
    \/ LoadRead(w)
    \/ LoadInstall(w)
    \/ \E x \in pending[w] : StoreWrite(w, x)
    \/ MemoryWrite(w)

WriterFailure(w) ==
    \/ LoadFails(w)
    \/ \E x \in pending[w], applied \in BOOLEAN : StoreFails(w, x, applied)

ReminderStep ==
    \/ RemindStart
    \/ RemindSelect
    \/ RemindNotify
    \/ RemindEnd

Next ==
    \/ \E m \in Managers : ManagerRequest(m)
    \/ \E w \in Writers : WriterStep(w) \/ WriterFailure(w)
    \/ ReminderStep
    \/ RemindUnsent
    \/ Tick
    \/ Restart

Spec == Init /\ [][Next]_vars

\* The reminder goroutine runs until shutdown, its ticker fires every hour and
\* every Redis call has a deadline of three seconds.
FairSpec ==
    /\ Spec
    /\ WF_vars(ReminderStep \/ WriterStep(Reminder))
    /\ \A m \in Managers : WF_vars(MemoryWrite(m))

-----------------------------------------------------------------------------
(* Every variable has its type. *)
TypeOK ==
    /\ now \in Nat
    /\ store \in Table
    /\ memory \in Table \cup {NotLoaded}
    /\ loading \in [Writers -> Table \cup {NotLoaded}]
    /\ pending \in [Writers -> SUBSET Write]
    /\ current \in [Writers -> Write \cup {NoWrite}]
    /\ phase \in {"sleep", "select", "drop", "mark"}
    /\ round \in Nat
    /\ failures \in Nat /\ restarts \in Nat
    /\ torn \in SUBSET Users /\ contended \in SUBSET Users

\* The entry a check would see: whitelistEntry loads Redis when memory is empty.
View(u) == IF memory = NotLoaded THEN store[u] ELSE memory[u]

Protected(u) == View(u) # NoEntry /\ ~Deleted(View(u), now)

Approval(u) == IF View(u) = NoEntry THEN <<>> ELSE <<View(u).expiresAt, View(u).deleteAt>>

(* The copy in memory and the hash in Redis hold the same entry of a user, *)
(* once nobody is between the two writes, unless two writers of that user  *)
(* met there (whitelist.go putWhitelistEntry, channelWhitelist).  Concurrent *)
(* first loads, failed writes and restarts do not break it.                *)
WriteThrough ==
    memory # NotLoaded =>
        \A u \in Users \ torn :
            (\A w \in Writers : ~InFlight(w, u)) => memory[u] = store[u]

(* Nobody but an administrator changes an approval: unless two writers     *)
(* worked on the user at once, the review date and the end of an entry     *)
(* change only while a manager's request for that user runs, or when the   *)
(* reminder drops an entry past its end (whitelist.go remindWhitelists).   *)
ApprovalStep ==
    \A u \in Users \ (contended \cup contended') :
        Approval(u)' # Approval(u) =>
            \/ \E m \in Managers : u \in Targets(m)
            \/ Approval(u)' = <<>> /\ Deleted(View(u), now)

ApprovalsAreTheAdministrators == [][ApprovalStep]_vars

EndedInStore(u) == store[u] # NoEntry /\ Deleted(store[u], now)

(* An entry past its end leaves Redis, or is approved again: the reminder  *)
(* round after the end drops it (whitelist.go removeEndedEntries), though  *)
(* it looks at memory only.  A torn user's entry may be in Redis alone.    *)
EndedEntryIsDropped ==
    \A u \in Users : EndedInStore(u) ~> (~EndedInStore(u) \/ u \in torn)

-----------------------------------------------------------------------------
(* "Access ends only when a temporary entry reaches DeleteAt or an          *)
(* administrator removes the entry" (storage/whitelist/defs.go:4).         *)
AccessEndsStep ==
    \A u \in Users :
        Protected(u) /\ ~Protected(u)' =>
            \/ Deleted(View(u), now') \/ View(u)' # NoEntry
            \/ \E m \in Managers : [user |-> u, entry |-> NoEntry] \in pending[m]

AccessEndsByTermOrAdministrator == [][AccessEndsStep]_vars
=============================================================================
