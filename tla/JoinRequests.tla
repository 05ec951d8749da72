----------------------------- MODULE JoinRequests -----------------------------
(***************************************************************************)
(* Requests to join one protected chat: Telegram's own list of them, the   *)
(* bot's list in memory and in Redis, the goroutine that takes the updates *)
(* one after another, the managers who approve, decline and recheck, and   *)
(* the loop that rechecks what is pending.  joinMutex is held for single   *)
(* map accesses and while the list is loaded; checks, calls to Telegram    *)
(* and writes to Redis run without it, on a request copied before.         *)
(* controllers/scanner/joinrequests.go, storage/joinrequests.              *)
(***************************************************************************)
EXTENDS Integers

CONSTANTS
    Users,
    Bot,          \* the goroutine of the bot library (WithNotAsyncHandlers)
    Managers,     \* Mini App requests
    Loop,         \* the goroutine of RunJoinRequestRechecks
    NoJob, NotLoaded,
    MaxAsks,      \* bound on requests to join
    MaxChanges,   \* bound on changes of the mode, of access and in the chat
    MaxFailures,  \* bound on failing calls
    MaxRestarts   \* bound on restarts of the process

Actors == Managers \cup {Bot, Loop}

Modes == {"off", "auto", "manual"}

Stages == {"check", "resolve", "dropStore", "dropMemory", "put", "putStore", "putMemory"}

Job == [at : Stages, user : Users, auto : BOOLEAN, approve : BOOLEAN]

ASSUME JoinAssumption ==
    /\ Bot # Loop /\ {Bot, Loop} \cap Managers = {}
    /\ {MaxAsks, MaxChanges, MaxFailures, MaxRestarts} \subseteq Nat
    /\ NoJob \notin Job
    /\ \A list \in SUBSET Users : list # NotLoaded

VARIABLES
    open,      \* requests pending in Telegram
    members,
    entitled,  \* users who pass a check made now
    mode,      \* JoinRequestMode of the chat
    updates,   \* chat_join_request updates on their way, by user
    memory,    \* d.joinRequests of the chat
    storage,   \* its Redis hash
    job,       \* the request each goroutine works on, as it copied it
    due,       \* requests the loop has copied and not taken up
    dueAuto,   \* whether the loop saw auto mode when it copied the chat
    listing,   \* the loop has copied the chat and not yet its list
    asks, changes, failures, restarts,
    ignored,   \* history: users whose last request came while the mode was off
    crossed,   \* history: users two goroutines worked on at the same time
    unkept,    \* history: users whose request was not stored or got lost at a start
    stale      \* history: users whose request ended unseen by the bot

chat == <<open, members, entitled, mode>>
lists == <<memory, storage>>
round == <<due, dueAuto, listing>>
bounds == <<asks, changes, failures, restarts>>
history == <<ignored, crossed, unkept, stale>>
vars == <<chat, updates, lists, job, round, bounds, history>>

-----------------------------------------------------------------------------
At(a, s) == job[a] # NoJob /\ job[a].at = s

GoTo(a, s) == job' = [job EXCEPT ![a].at = s]

Finish(a) == job' = [job EXCEPT ![a] = NoJob]

Busy(a, u) == job[a] # NoJob /\ job[a].user = u

Fails == failures < MaxFailures /\ failures' = failures + 1

\* channelJoinRequests: the list, read from Redis the first time.
Loaded == IF memory = NotLoaded THEN storage ELSE memory

Begin(a, j) ==
    /\ job[a] = NoJob
    /\ job' = [job EXCEPT ![a] = j]
    /\ crossed' = crossed \cup {u \in {j.user} : \/ \E b \in Actors \ {a} : Busy(b, u)
                                                 \/ a # Loop /\ u \in due}

Init ==
    /\ open = {} /\ members = {} /\ entitled \in SUBSET Users /\ mode \in Modes
    /\ updates = [u \in Users |-> 0]
    /\ memory = NotLoaded /\ storage = {}
    /\ job = [a \in Actors |-> NoJob]
    /\ due = {} /\ dueAuto = FALSE /\ listing = FALSE
    /\ asks = 0 /\ changes = 0 /\ failures = 0 /\ restarts = 0
    /\ ignored = {} /\ crossed = {} /\ unkept = {} /\ stale = {}

-----------------------------------------------------------------------------
(* Outside the bot *)

Ask(u) ==
    /\ u \notin members \cup open
    /\ asks < MaxAsks
    /\ asks' = asks + 1
    /\ open' = open \cup {u}
    /\ updates' = [updates EXCEPT ![u] = @ + 1]
    /\ UNCHANGED <<members, entitled, mode, lists, job, round, changes, failures, restarts, history>>

\* A request is withdrawn, or answered by an administrator in Telegram.
Outside(u) ==
    /\ open' = open \ {u}
    /\ \/ u \in open /\ members' = members \cup {u}
       \/ u \in open \cup members /\ members' = members \ {u}
    /\ stale' = stale \cup ({u} \cap open)
    /\ UNCHANGED <<entitled, mode, ignored, crossed, unkept>>

Entitle(u) ==
    /\ entitled' = IF u \in entitled THEN entitled \ {u} ELSE entitled \cup {u}
    /\ UNCHANGED <<open, members, mode, history>>

SetMode(m) ==
    /\ mode' = m
    /\ UNCHANGED <<open, members, entitled, history>>

Change ==
    /\ changes < MaxChanges
    /\ changes' = changes + 1
    /\ \/ \E u \in Users : Outside(u) \/ Entitle(u)
       \/ \E m \in Modes \ {mode} : SetMode(m)
    /\ UNCHANGED <<updates, lists, job, round, asks, failures, restarts>>

-----------------------------------------------------------------------------
(* What sets a goroutine to work on a request *)

JoinRequestHandler(u) ==
    /\ updates[u] > 0
    /\ updates' = [updates EXCEPT ![u] = @ - 1]
    /\ \/ /\ mode = "off" /\ job[Bot] = NoJob
          /\ ignored' = ignored \cup {u}
          /\ UNCHANGED <<job, crossed>>
       \/ /\ mode # "off"
          /\ Begin(Bot, [at |-> "check", user |-> u, auto |-> mode = "auto", approve |-> TRUE])
          /\ ignored' = ignored \ {u}
    /\ UNCHANGED <<chat, lists, round, bounds, unkept, stale>>

ListJoinRequests ==
    /\ memory' = Loaded
    /\ UNCHANGED <<chat, updates, storage, job, round, bounds, history>>

\* One request of a batch; a batch goes on whatever becomes of it.
ResolveJoinRequest(m, u, approve) ==
    /\ u \in Loaded /\ memory' = Loaded
    /\ Begin(m, [at |-> "resolve", user |-> u, auto |-> FALSE, approve |-> approve])
    /\ UNCHANGED <<chat, updates, storage, round, bounds, ignored, unkept, stale>>

RecheckJoinRequest(m, u) ==
    /\ u \in Loaded /\ memory' = Loaded
    /\ Begin(m, [at |-> "check", user |-> u, auto |-> mode = "auto", approve |-> TRUE])
    /\ UNCHANGED <<chat, updates, storage, round, bounds, ignored, unkept, stale>>

\* recheckJoinRequests copies the chat first, its mode with it.
RecheckRound ==
    /\ mode # "off" /\ due = {} /\ job[Loop] = NoJob /\ ~listing
    /\ listing' = TRUE /\ dueAuto' = (mode = "auto")
    /\ UNCHANGED <<chat, updates, lists, job, due, bounds, history>>

Copy(list) ==
    /\ listing /\ listing' = FALSE
    /\ due' = list
    /\ crossed' = crossed \cup {u \in list : \E a \in Actors : Busy(a, u)}
    /\ UNCHANGED <<chat, updates, storage, job, dueAuto, bounds, ignored, unkept, stale>>

\* Mutant: a list nobody has asked for since the start is taken for empty.
RecheckListUnloaded ==
    /\ Copy(IF memory = NotLoaded THEN {} ELSE memory)
    /\ UNCHANGED memory

\* The list next; the day since the last check is left out, so every request is
\* due in every round.
RecheckList ==
    /\ Copy(Loaded)
    /\ memory' = Loaded

\* The list cannot be loaded: the round goes on without this chat.
RecheckListFails ==
    /\ listing /\ memory = NotLoaded /\ Fails
    /\ listing' = FALSE
    /\ UNCHANGED <<chat, updates, lists, job, due, dueAuto, asks, changes, restarts, history>>

RecheckNext(u) ==
    /\ u \in due
    /\ due' = due \ {u}
    /\ Begin(Loop, [at |-> "check", user |-> u, auto |-> dueAuto, approve |-> TRUE])
    /\ UNCHANGED <<chat, updates, lists, dueAuto, listing, bounds, ignored, unkept, stale>>

-----------------------------------------------------------------------------
(* recheckJoin, resolveJoin, putJoinRequest, dropJoinRequest *)

\* An update's check may be answered from the cache; a recheck asks the source
\* (VerdictCache has the crossings in which it does not).
Check(a) ==
    /\ At(a, "check")
    /\ \E passes \in IF a = Bot THEN BOOLEAN ELSE {job[a].user \in entitled} :
         GoTo(a, IF job[a].auto /\ passes THEN "resolve" ELSE "put")
    /\ UNCHANGED <<chat, updates, lists, round, bounds, history>>

CheckFails(a) ==
    /\ At(a, "check") /\ Fails
    /\ GoTo(a, "put")
    /\ UNCHANGED <<chat, updates, lists, round, asks, changes, restarts, history>>

Answered(a) ==
    LET u == job[a].user
    IN  /\ open' = open \ {u}
        /\ members' = IF job[a].approve /\ u \in open THEN members \cup {u} ELSE members

\* A request Telegram no longer has is dropped like one it resolved.
Resolve(a) ==
    /\ At(a, "resolve")
    /\ Answered(a)
    /\ GoTo(a, "dropStore")
    /\ UNCHANGED <<entitled, mode, updates, lists, round, bounds, history>>

\* Mutant: a request that could not be approved at once is not kept.
ResolveFailsForgets(a) ==
    /\ At(a, "resolve") /\ Fails
    /\ Finish(a)
    /\ UNCHANGED <<chat, updates, lists, round, asks, changes, restarts, history>>

\* The call fails, or times out after Telegram has acted on it: a manager is told,
\* the others keep the request for later.
ResolveFails(a) ==
    /\ At(a, "resolve") /\ Fails
    /\ \/ UNCHANGED <<open, members, stale>>
       \/ Answered(a) /\ stale' = stale \cup {job[a].user}
    /\ IF a \in Managers /\ ~job[a].auto THEN Finish(a) ELSE GoTo(a, "put")
    /\ UNCHANGED <<entitled, mode, updates, lists, round, asks, changes, restarts,
                   ignored, crossed, unkept>>

\* Mutant: the request is dropped in memory only.
DropStoreForgotten(a) ==
    /\ At(a, "dropStore")
    /\ GoTo(a, "dropMemory")
    /\ UNCHANGED <<chat, updates, lists, round, bounds, history>>

DropStore(a) ==
    /\ At(a, "dropStore")
    /\ storage' = storage \ {job[a].user}
    /\ GoTo(a, "dropMemory")
    /\ UNCHANGED <<chat, updates, memory, round, bounds, history>>

\* The error is logged; memory forgets the request all the same.
DropStoreFails(a) ==
    /\ At(a, "dropStore") /\ Fails
    /\ stale' = stale \cup {job[a].user}
    /\ GoTo(a, "dropMemory")
    /\ UNCHANGED <<chat, updates, lists, round, asks, changes, restarts,
                   ignored, crossed, unkept>>

DropMemory(a) ==
    /\ At(a, "dropMemory")
    /\ memory' = IF memory = NotLoaded THEN memory ELSE memory \ {job[a].user}
    /\ Finish(a)
    /\ UNCHANGED <<chat, updates, storage, round, bounds, history>>

\* Mutant: the list is not loaded before a request is put into it.
PutUnloaded(a) ==
    /\ At(a, "put")
    /\ GoTo(a, "putStore")
    /\ UNCHANGED <<chat, updates, lists, round, bounds, history>>

Put(a) ==
    /\ At(a, "put")
    /\ memory' = Loaded
    /\ GoTo(a, "putStore")
    /\ UNCHANGED <<chat, updates, storage, round, bounds, history>>

PutStore(a) ==
    /\ At(a, "putStore")
    /\ storage' = storage \cup {job[a].user}
    /\ GoTo(a, "putMemory")
    /\ UNCHANGED <<chat, updates, memory, round, bounds, history>>

\* The list cannot be loaded or the request not be stored; a write that timed
\* out may have been applied.
PutFails(a) ==
    /\ (At(a, "put") /\ memory = NotLoaded) \/ At(a, "putStore")
    /\ Fails
    /\ \/ UNCHANGED storage
       \/ At(a, "putStore") /\ storage' = storage \cup {job[a].user}
    /\ unkept' = unkept \cup {u \in Users : a = Bot /\ Busy(a, u)}
    /\ Finish(a)
    /\ UNCHANGED <<chat, updates, memory, round, asks, changes, restarts,
                   ignored, crossed, stale>>

PutMemory(a) ==
    /\ At(a, "putMemory")
    /\ memory' = memory \cup {job[a].user}
    /\ Finish(a)
    /\ UNCHANGED <<chat, updates, storage, round, bounds, history>>

-----------------------------------------------------------------------------
\* The update the process was handling is not delivered again, and Run polls
\* for updates before it registers what handles them.
Restart ==
    /\ restarts < MaxRestarts
    /\ updates' \in [Users -> 0..MaxAsks]
    /\ \A u \in Users : updates'[u] <= updates[u]
    /\ restarts' = restarts + 1
    /\ memory' = NotLoaded
    /\ job' = [a \in Actors |-> NoJob]
    /\ due' = {} /\ dueAuto' = FALSE /\ listing' = FALSE
    /\ unkept' = unkept \cup {u \in Users : Busy(Bot, u) \/ updates'[u] < updates[u]}
    /\ stale' = stale \cup {u \in Users : \E a \in Actors : Busy(a, u) /\ At(a, "dropStore")}
    /\ UNCHANGED <<chat, storage, asks, changes, failures, ignored, crossed>>

JobStep(a) ==
    \/ Check(a) \/ Resolve(a) \/ DropStore(a) \/ DropMemory(a)
    \/ Put(a) \/ PutStore(a) \/ PutMemory(a)

JobFailure(a) == CheckFails(a) \/ ResolveFails(a) \/ DropStoreFails(a) \/ PutFails(a)

LoopStep == RecheckRound \/ RecheckList \/ JobStep(Loop) \/ \E u \in Users : RecheckNext(u)

Next ==
    \/ Change \/ Restart \/ ListJoinRequests
    \/ RecheckRound \/ RecheckList \/ RecheckListFails
    \/ \E u \in Users :
          \/ Ask(u) \/ RecheckNext(u) \/ JoinRequestHandler(u)
          \/ \E m \in Managers : \/ RecheckJoinRequest(m, u)
                                 \/ \E approve \in BOOLEAN : ResolveJoinRequest(m, u, approve)
    \/ \E a \in Actors : JobStep(a) \/ JobFailure(a)

Spec == Init /\ [][Next]_vars

\* The loop's ticker goes on, and its calls to Telegram and Redis return.
FairSpec == Spec /\ WF_vars(LoopStep)

-----------------------------------------------------------------------------
\* Besides the types: no request is put into a list that is not there, which
\* would be a write to a nil map.
TypeOK ==
    /\ open \subseteq Users /\ members \subseteq Users /\ entitled \subseteq Users
    /\ mode \in Modes
    /\ updates \in [Users -> Nat]
    /\ memory # NotLoaded => memory \subseteq Users
    /\ storage \subseteq Users
    /\ job \in [Actors -> Job \cup {NoJob}]
    /\ \A a \in Actors : At(a, "putStore") \/ At(a, "putMemory") => memory # NotLoaded
    /\ due \subseteq Users /\ dueAuto \in BOOLEAN /\ listing \in BOOLEAN
    /\ asks \in Nat /\ changes \in Nat /\ failures \in Nat /\ restarts \in Nat
    /\ ignored \subseteq Users /\ crossed \subseteq Users
    /\ unkept \subseteq Users /\ stale \subseteq Users

Quiet(u) == updates[u] = 0 /\ u \notin due /\ \A a \in Actors : ~Busy(a, u)

\* joinrequests.go:21-26: who is waiting in Telegram is on the list managers and
\* the loop see, also when an automatic approval failed and after a restart -
\* unless the mode was off, Redis failed, a restart met the update or two goroutines
\* met on the user.
OpenIsKept ==
    \A u \in open \ (ignored \cup crossed \cup unkept) : Quiet(u) => u \in Loaded

\* The list names nobody whose request is over, also after a restart - unless it
\* ended where the bot could not see it or two goroutines met on the user.
KeptIsOpen ==
    \A u \in Users \ (crossed \cup stale) : Quiet(u) /\ u \in Loaded => u \in open

\* joinrequests.go:21, "approves everyone who passes the access check and leaves
\* the rest pending, rechecking them daily": nobody who would pass stays on the
\* list in auto mode, whatever else meets on them, fails or restarts.
PassingAreLetIn ==
    \A u \in Users :
        []<>~(mode = "auto" /\ u \in entitled /\ u \in open /\ u \in Loaded)
=============================================================================
