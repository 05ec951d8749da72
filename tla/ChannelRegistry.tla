--------------------------- MODULE ChannelRegistry ---------------------------
(***************************************************************************)
(* The protected chats, the control chats that command them, the tickers   *)
(* of the periodic scan and the record of each chat in Redis, under the    *)
(* requests that add, change, remove and migrate them.  Adds and updates   *)
(* hold channelsMutex over their Redis call; the ticker is brought in line *)
(* after the unlock, and removal takes no lock at all.                     *)
(* controllers/scanner: add_protected_channel.go, management_methods.go,   *)
(* handler_toggle_flag.go, setup_bot.go, run.go.                           *)
(***************************************************************************)
EXTENDS Integers, FiniteSets

CONSTANTS
    Channels,      \* chat ids that may be protected
    Chats,         \* control chats
    Actors,        \* web requests, the bot's goroutine of updates and the rights sweep
    Migrations,    \* pairs <<old id, new id>> of groups Telegram upgrades
    NotProtected,  \* no record
    NoJob, NoChat, NoChannel, Free,
    MaxFailures,   \* bound on failing Redis calls
    MaxRestarts,   \* bound on restarts of the process
    MaxMigrations  \* bound on upgrades of groups

ASSUME RegistryAssumption ==
    /\ Migrations \subseteq Channels \X Channels
    /\ {MaxFailures, MaxRestarts, MaxMigrations} \subseteq Nat
    /\ IsFiniteSet(Channels)
    /\ Free \notin Actors /\ NoChat \notin Chats /\ NoChannel \notin Channels

\* auto stands for AutoScan || AutoClean: what the ticker depends on.
Record == [chats : SUBSET Chats, auto : BOOLEAN]

Stages == {"addStore", "addApply", "updStore", "updApply",
           "sync", "register", "unregister", "migrate",
           "read", "detach", "removeStore", "control"}

Job == [stage : Stages, ch : Channels, chat : Chats \cup {NoChat}, auto : BOOLEAN,
        rec : Record \cup {NotProtected}, to : Channels \cup {NoChannel}]

ASSUME RegistrySentinels ==
    NotProtected \notin Record /\ NoJob \notin Job

VARIABLES
    protected,   \* d.protectedChannels
    known,       \* the keys of d.channels
    info,        \* commandChannelIDs of the entries of d.channels
    control,     \* d.commandChannels: how often a chat's list names a channel
    tickers,     \* how many cases of d.tickerCases belong to a channel
    storage,     \* the channel records in Redis
    lock,        \* the writer that holds channelsMutex
    job,         \* what each actor is in the middle of
    failures,
    restarts,
    migrations,
    removed,     \* history: channels detached, no add stored and no removal failed since
    raced,       \* history: channels removed while another job worked on them
    unsynced,    \* history: channels two jobs worked on at the same time
    unsaved,     \* history: channels whose last change Redis may not hold
    undone       \* history: channels with a removal that failed half way

vars == <<protected, known, info, control, tickers, storage, lock, job, failures,
          restarts, migrations, removed, raced, unsynced, unsaved, undone>>
maps == <<protected, known, info, control, tickers>>
history == <<removed, raced, unsynced, unsaved, undone>>
bounds == <<failures, restarts, migrations>>

-----------------------------------------------------------------------------
Busy(a, c) == job[a] # NoJob /\ c \in {job[a].ch, job[a].to}

AtStage(a, s) == job[a] # NoJob /\ job[a].stage = s

Removing(a) == \E s \in {"read", "detach", "removeStore", "control"} : AtStage(a, s)

\* Between the copy of the record an update took and the one it leaves.
Updating(a, c) == (AtStage(a, "updStore") \/ AtStage(a, "updApply")) /\ job[a].ch = c

Quiet(c) == \A a \in Actors : ~Busy(a, c)

GoTo(a, s) == job' = [job EXCEPT ![a].stage = s]

\* The job ends, or goes on with the migration GetChat announced.
Finish(a) ==
    job' = [job EXCEPT ![a] = IF @.to = NoChannel THEN NoJob
                              ELSE [@ EXCEPT !.stage = "migrate"]]

\* A new job of actor a; the history notes whom it meets on its channels.
Begin(a, j) ==
    LET others == Actors \ {a}
        met    == {c \in Channels \cap {j.ch, j.to} : \E b \in others : Busy(b, c)}
    IN  /\ job[a] = NoJob
        /\ job' = [job EXCEPT ![a] = j]
        /\ unsynced' = unsynced \cup met
        /\ raced' = raced \cup {c \in met : \/ j.stage = "read"
                                            \/ \E b \in others : Busy(b, c) /\ Removing(b)}

\* mergeProtectedChannel: an add only adds control chats.
Merged(r, chat) == [r EXCEPT !.chats = @ \cup {chat}]

AddedTo(r, chat, auto) ==
    IF r = NotProtected THEN [chats |-> {chat}, auto |-> auto] ELSE Merged(r, chat)

HasTicker(c) == tickers[c] > 0

-----------------------------------------------------------------------------
Init ==
    /\ protected = [c \in Channels |-> NotProtected]
    /\ storage = [c \in Channels |-> NotProtected]
    /\ known = {}
    /\ info = [c \in Channels |-> {}]
    /\ control = [k \in Chats |-> [c \in Channels |-> 0]]
    /\ tickers = [c \in Channels |-> 0]
    /\ lock = Free
    /\ job = [a \in Actors |-> NoJob]
    /\ failures = 0 /\ restarts = 0 /\ migrations = 0
    /\ removed = {} /\ raced = {} /\ unsynced = {}
    /\ unsaved = {} /\ undone = {}

\* AddProtectedChannel up to the Redis call, channelsMutex taken.
AddProtectedChannel(a, c, chat, auto) ==
    /\ lock = Free
    /\ lock' = a
    /\ Begin(a, [stage |-> "addStore", ch |-> c, chat |-> chat, auto |-> auto,
                 rec |-> AddedTo(protected[c], chat, auto), to |-> NoChannel])
    /\ UNCHANGED <<maps, storage, bounds, removed, unsaved, undone>>

\* Mutant: the control chat's list is extended without looking whether the
\* channel is there already.
AddApplyAppends(a) ==
    /\ AtStage(a, "addApply")
    /\ LET c   == job[a].ch
           old == protected[c]
           new == AddedTo(old, job[a].chat, job[a].auto)
       IN  /\ protected' = [protected EXCEPT ![c] = new]
           /\ known' = known \cup {c}
           /\ info' = [info EXCEPT ![c] = new.chats]
           /\ control' = [k \in Chats |-> [control[k] EXCEPT ![c] =
                            IF k \in new.chats /\ @ < 2 THEN @ + 1 ELSE @]]
           /\ tickers' = [tickers EXCEPT ![c] =
                            IF old = NotProtected /\ new.auto THEN @ + 1 ELSE @]
           /\ removed' = removed \ {c}
    /\ lock' = Free
    /\ Finish(a)
    /\ UNCHANGED <<storage, bounds, raced, unsynced, unsaved, undone>>

\* AddProtectedChannel after the Redis call: looks the channel up again, so a
\* channel removed meanwhile is added afresh.  Ticker options, over which it
\* unlocks, are given only while New makes the Domain, before anything else runs.
AddApply(a) ==
    /\ AtStage(a, "addApply")
    /\ LET c   == job[a].ch
           old == protected[c]
           new == AddedTo(old, job[a].chat, job[a].auto)
       IN  /\ protected' = [protected EXCEPT ![c] = new]
           /\ known' = known \cup {c}
           /\ info' = [info EXCEPT ![c] = new.chats]
           /\ control' = [k \in Chats |-> [control[k] EXCEPT ![c] =
                            IF k \in new.chats /\ @ = 0 THEN 1 ELSE @]]
           /\ tickers' = [tickers EXCEPT ![c] =
                            IF old = NotProtected /\ new.auto THEN @ + 1 ELSE @]
           /\ removed' = removed \ {c}
    /\ lock' = Free
    /\ Finish(a)
    /\ UNCHANGED <<storage, bounds, raced, unsynced, unsaved, undone>>

\* updateProtectedChannel, applyFlagToggle up to the Redis call.
UpdateProtectedChannel(a, c, auto, to) ==
    /\ lock = Free
    /\ protected[c] # NotProtected
    /\ lock' = a
    /\ Begin(a, [stage |-> "updStore", ch |-> c, chat |-> NoChat, auto |-> auto,
                 rec |-> [protected[c] EXCEPT !.auto = auto], to |-> to])
    /\ UNCHANGED <<maps, storage, bounds, removed, unsaved, undone>>

UpdateApply(a) ==
    /\ AtStage(a, "updApply")
    /\ protected' = [protected EXCEPT ![job[a].ch] = job[a].rec]
    /\ lock' = Free
    /\ GoTo(a, "sync")
    /\ UNCHANGED <<known, info, control, tickers, storage, bounds, history>>

\* Mutant: the update registers a ticker without looking for one.
SyncTickerAlways(a) ==
    /\ AtStage(a, "sync")
    /\ GoTo(a, IF job[a].rec.auto /\ tickers[job[a].ch] < 2 THEN "register" ELSE "unregister")
    /\ UNCHANGED <<maps, storage, lock, bounds, history>>

\* channelHasTicker, after the unlock.
SyncTicker(a) ==
    /\ AtStage(a, "sync")
    /\ IF job[a].rec.auto = HasTicker(job[a].ch)
       THEN Finish(a)
       ELSE GoTo(a, IF job[a].rec.auto THEN "register" ELSE "unregister")
    /\ UNCHANGED <<maps, storage, lock, bounds, history>>

RegisterTicker(a) ==
    /\ AtStage(a, "register")
    /\ tickers' = [tickers EXCEPT ![job[a].ch] = @ + 1]
    /\ Finish(a)
    /\ UNCHANGED <<protected, known, info, control, storage, lock, bounds, history>>

\* Mutant: removeTickers does not look for a match.
OneTickerLessUnchecked(c) == tickers[c] - 1

\* removeTickers drops the first match only.
OneTickerLess(c) == IF HasTicker(c) THEN tickers[c] - 1 ELSE tickers[c]

RemoveTickers(a) ==
    /\ AtStage(a, "unregister")
    /\ tickers' = [tickers EXCEPT ![job[a].ch] = OneTickerLess(job[a].ch)]
    /\ Finish(a)
    /\ UNCHANGED <<protected, known, info, control, storage, lock, bounds, history>>

-----------------------------------------------------------------------------
(* Removal: RemoveChannel, CleanProtectedChannel; no lock is held. *)

RemoveChannel(a, c, chat) ==
    /\ lock = Free
    /\ control[chat][c] > 0
    /\ Begin(a, [stage |-> "read", ch |-> c, chat |-> chat, auto |-> FALSE,
                 rec |-> NotProtected, to |-> NoChannel])
    /\ UNCHANGED <<maps, storage, lock, bounds, removed, unsaved, undone>>

\* A channel that is not protected counts as removed already.
CleanRead(a) ==
    /\ AtStage(a, "read")
    /\ LET c == job[a].ch
       IN  \/ /\ protected[c] = NotProtected
              /\ removed' = removed \cup {c}
              /\ Finish(a)
           \/ /\ protected[c] # NotProtected
              /\ job' = [job EXCEPT ![a].stage = "detach", ![a].rec = protected[c]]
              /\ UNCHANGED removed
    /\ UNCHANGED <<maps, storage, lock, bounds, raced, unsynced, unsaved, undone>>

\* The chat is swapped out in the slice that the cache entry and the copies of
\* updates in flight share; if it was the last one they keep it.
CleanDetach(a, swapped) ==
    /\ AtStage(a, "detach")
    /\ LET c    == job[a].ch
           k    == job[a].chat
           rest == job[a].rec.chats \ {k}
           next == IF rest = {} THEN NotProtected ELSE [job[a].rec EXCEPT !.chats = rest]
       IN  /\ swapped => k \in job[a].rec.chats /\ rest # {}
           /\ protected' = [protected EXCEPT ![c] = next]
           /\ tickers' = [tickers EXCEPT ![c] = IF rest = {} THEN OneTickerLess(c) ELSE @]
           /\ removed' = IF rest = {} THEN removed \cup {c} ELSE removed
           /\ info' = [info EXCEPT ![c] = IF swapped THEN @ \ {k} ELSE @]
           /\ job' = [b \in Actors |->
                        IF b = a
                        THEN [job[a] EXCEPT !.stage = "removeStore", !.rec = next]
                        ELSE IF swapped /\ Updating(b, c)
                        THEN [job[b] EXCEPT !.rec.chats = @ \ {k}]
                        ELSE job[b]]
    /\ UNCHANGED <<known, control, storage, lock, bounds, raced, unsynced, unsaved, undone>>

\* The control chat's list loses one mention of the channel.
CleanControl(a) ==
    /\ AtStage(a, "control")
    /\ control' = [control EXCEPT ![job[a].chat][job[a].ch] = IF @ > 0 THEN @ - 1 ELSE @]
    /\ Finish(a)
    /\ UNCHANGED <<protected, known, info, tickers, storage, lock, bounds, history>>

-----------------------------------------------------------------------------
(* The Redis call of a job, Store or Drop; rec is NotProtected when the record is dropped. *)

AfterStore == [addStore |-> "addApply", updStore |-> "updApply", removeStore |-> "control"]

Storing(a) == \E s \in DOMAIN AfterStore : AtStage(a, s)

StorageWrite(a) ==
    /\ Storing(a)
    /\ storage' = [storage EXCEPT ![job[a].ch] = job[a].rec]
    /\ GoTo(a, AfterStore[job[a].stage])
    /\ UNCHANGED <<maps, lock, bounds, history>>

\* Mutant: the error of the Redis call is logged and the job goes on.
StorageFailsIgnored(a, applied) ==
    /\ failures < MaxFailures
    /\ Storing(a)
    /\ failures' = failures + 1
    /\ GoTo(a, AfterStore[job[a].stage])
    /\ UNCHANGED <<maps, storage, lock, restarts, migrations, history>>

\* The call fails: an add or an update changes nothing in memory, a removal has
\* changed memory already.  A call that timed out may have been applied.
StorageFails(a, applied) ==
    /\ failures < MaxFailures
    /\ Storing(a)
    /\ failures' = failures + 1
    /\ storage' = IF applied THEN [storage EXCEPT ![job[a].ch] = job[a].rec] ELSE storage
    /\ unsaved' = IF applied \/ Removing(a) THEN unsaved \cup {job[a].ch} ELSE unsaved
    /\ removed' = IF applied \/ Removing(a) THEN removed \ {job[a].ch} ELSE removed
    /\ undone' = IF Removing(a) THEN undone \cup {job[a].ch} ELSE undone
    /\ lock' = IF Removing(a) THEN lock ELSE Free
    /\ Finish(a)
    /\ UNCHANGED <<maps, restarts, migrations, raced, unsynced>>

-----------------------------------------------------------------------------
(* updateChannelInfo: the identity is written through updateProtectedChannel, *)
(* whose error is only logged, then the announced migration is applied.       *)

RefreshIdentity(a, c, to) ==
    /\ lock = Free
    /\ c \in known
    /\ to # NoChannel => migrations < MaxMigrations
    /\ \/ protected[c] # NotProtected /\ UpdateProtectedChannel(a, c, protected[c].auto, to)
       \/ /\ protected[c] = NotProtected /\ to # NoChannel
          /\ Begin(a, [stage |-> "migrate", ch |-> c, chat |-> NoChat, auto |-> FALSE,
                       rec |-> NotProtected, to |-> to])
          /\ UNCHANGED <<maps, storage, lock, bounds, removed, unsaved, undone>>

\* A channel nobody protects migrates to an empty record; Redis is not written.
MigrateChannel(a) ==
    /\ AtStage(a, "migrate") /\ lock = Free
    /\ migrations' = migrations + 1
    /\ LET c     == job[a].ch
           d     == job[a].to
           chats == info[c]
           moved == IF protected[c] = NotProtected THEN [chats |-> {}, auto |-> FALSE]
                    ELSE protected[c]
       IN  /\ known' = (known \ {c}) \cup {d}
           /\ info' = [info EXCEPT ![c] = {}, ![d] = chats]
           /\ protected' = [protected EXCEPT ![c] = NotProtected, ![d] = moved]
           /\ control' = [k \in Chats |->
                            IF k \in chats
                            THEN [control[k] EXCEPT ![c] = 0, ![d] = @ + control[k][c]]
                            ELSE control[k]]
           /\ tickers' = [tickers EXCEPT ![c] = 0, ![d] = @ + tickers[c]]
           /\ unsaved' = unsaved \cup {c, d}
           /\ removed' = removed \ {d}
           /\ LET met == \/ protected[c] = NotProtected
                         \/ protected[d] # NotProtected \/ tickers[d] > 0
                         \/ \E b \in Actors \ {a} : Busy(b, c) \/ Busy(b, d)
                  Carried(past) == past \cup {x \in {c, d} : met \/ c \in past}
              IN  raced' = Carried(raced) /\ unsynced' = Carried(unsynced)
           /\ undone' = undone \cup {x \in {d} : c \in undone}
    /\ job' = [job EXCEPT ![a] = NoJob]
    /\ UNCHANGED <<storage, lock, failures, restarts>>

-----------------------------------------------------------------------------
\* The process dies and Run loads every record again; a record whose write-back
\* fails is left out.
Restart(lost) ==
    /\ restarts < MaxRestarts
    /\ failures + Cardinality(lost) <= MaxFailures
    /\ \A c \in lost : storage[c] # NotProtected
    /\ restarts' = restarts + 1
    /\ failures' = failures + Cardinality(lost)
    /\ LET loaded == [c \in Channels |-> IF c \in lost THEN NotProtected ELSE storage[c]]
           chatsOf(c) == IF loaded[c] = NotProtected THEN {} ELSE loaded[c].chats
       IN  /\ protected' = loaded
           /\ known' = {c \in Channels : loaded[c] # NotProtected}
           /\ info' = [c \in Channels |-> chatsOf(c)]
           /\ control' = [k \in Chats |-> [c \in Channels |-> IF k \in chatsOf(c) THEN 1 ELSE 0]]
           /\ tickers' = [c \in Channels |->
                            IF loaded[c] # NotProtected /\ loaded[c].auto THEN 1 ELSE 0]
    /\ lock' = Free
    /\ job' = [a \in Actors |-> NoJob]
    /\ removed' = {c \in removed \ (raced \cup undone) : Quiet(c)}
    /\ raced' = {} /\ unsynced' = {} /\ unsaved' = lost /\ undone' = {}
    /\ UNCHANGED <<storage, migrations>>

Announced(c) == {d \in Channels : <<c, d>> \in Migrations} \cup {NoChannel}

Request(a) ==
    \/ \E c \in Channels, k \in Chats, auto \in BOOLEAN : AddProtectedChannel(a, c, k, auto)
    \/ \E c \in Channels, auto \in BOOLEAN : UpdateProtectedChannel(a, c, auto, NoChannel)
    \/ \E c \in Channels, k \in Chats : RemoveChannel(a, c, k)
    \/ \E c \in Channels : \E to \in Announced(c) : RefreshIdentity(a, c, to)

JobStep(a) ==
    \/ AddApply(a)
    \/ UpdateApply(a)
    \/ SyncTicker(a)
    \/ RegisterTicker(a)
    \/ RemoveTickers(a)
    \/ CleanRead(a)
    \/ \E swapped \in BOOLEAN : CleanDetach(a, swapped)
    \/ CleanControl(a)
    \/ StorageWrite(a)
    \/ MigrateChannel(a)

Next ==
    \/ \E a \in Actors : Request(a) \/ JobStep(a)
    \/ \E a \in Actors, applied \in BOOLEAN : StorageFails(a, applied)
    \/ \E lost \in SUBSET Channels : Restart(lost)

Spec == Init /\ [][Next]_vars

-----------------------------------------------------------------------------
(* Every variable has its type. *)
TypeOK ==
    /\ protected \in [Channels -> Record \cup {NotProtected}]
    /\ storage \in [Channels -> Record \cup {NotProtected}]
    /\ known \in SUBSET Channels
    /\ info \in [Channels -> SUBSET Chats]
    /\ control \in [Chats -> [Channels -> Nat]]
    /\ tickers \in [Channels -> Nat]
    /\ lock \in Actors \cup {Free}
    /\ job \in [Actors -> Job \cup {NoJob}]
    /\ failures \in Nat /\ restarts \in Nat /\ migrations \in Nat
    /\ removed \subseteq Channels /\ raced \subseteq Channels /\ unsynced \subseteq Channels
    /\ unsaved \subseteq Channels /\ undone \subseteq Channels

Scheduled(c) == protected[c] # NotProtected /\ protected[c].auto

(* A quiet channel has one ticker when its flags ask for one and none       *)
(* otherwise, unless two jobs met on it (updateProtectedChannel,            *)
(* CleanProtectedChannel, AddProtectedChannel, MigrateChannel).            *)
TickerInSync ==
    \A c \in Channels \ unsynced :
        Quiet(c) => tickers[c] = IF Scheduled(c) THEN 1 ELSE 0

(* The control chats' lists and the channel records name each other, unless *)
(* a removal met another job or its Redis call failed.                     *)
ControlMatches ==
    \A c \in Channels \ (raced \cup undone), k \in Chats :
        Quiet(c) =>
            control[k][c] = IF protected[c] # NotProtected /\ k \in protected[c].chats
                            THEN 1 ELSE 0

(* A restart would bring back exactly what memory holds, unless a removal   *)
(* met another job, a Redis call failed or Telegram moved the chat.        *)
StorageMatches ==
    \A c \in Channels \ (raced \cup unsaved) :
        Quiet(c) => storage[c] = protected[c]

(* Whatever fails, while nobody moves the chat and removals are alone, a    *)
(* chat that is protected has a record to be restored from.                *)
ProtectionIsStored ==
    migrations = 0 =>
        \A c \in Channels \ raced :
            Quiet(c) /\ protected[c] # NotProtected => storage[c] # NotProtected

(* "The channel is fully detached: also remove its persisted record so it   *)
(* does not reappear after a restart" (add_protected_channel.go:300): so it *)
(* is once its removal was reported as done, unless the removal met another *)
(* job or one before it failed half way.                                   *)
RemovalIsFinal ==
    \A c \in removed \ (raced \cup undone) :
        Quiet(c) => protected[c] = NotProtected /\ storage[c] = NotProtected
=============================================================================
