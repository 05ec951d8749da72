---------------------------- MODULE ScanScheduler ----------------------------
(***************************************************************************)
(* From a ticker to a finished scan: the goroutine that waits on all       *)
(* tickers at once, the bounded queue it shares with control chats and the *)
(* management API, and the workers that serve it, until the context ends.  *)
(* The waiting goroutine selects over a copy of the tickers it took before *)
(* it went to sleep.  controllers/scanner: channel_users_checker.go,       *)
(* add_protected_channel.go (tickers), handler_check.go,                   *)
(* management_methods.go (enqueueScan).                                    *)
(***************************************************************************)
EXTENDS Integers, Sequences, FiniteSets, SequencesExt

CONSTANTS
    Channels,
    Workers,     \* processingThreads
    Senders,     \* API requests inside TriggerScan or TriggerClean
    QueueCap,    \* capacity of processRequestChan
    Automatic,   \* channels protected at launch with AutoScan on
    Settings,    \* the AutoScan and AutoClean combinations managers set
    Commands,    \* the manual requests they make
    MaxTickers,  \* bound on tickers ever registered
    MaxCloses,   \* bound on ticker channels their owner closes
    Shutdowns    \* FALSE keeps the context alive

ASSUME SchedulerAssumption ==
    /\ QueueCap \in Nat \ {0}
    /\ MaxTickers \in Nat /\ MaxCloses \in Nat
    /\ Automatic \subseteq Channels
    /\ IsFiniteSet(Automatic) /\ Cardinality(Automatic) <= MaxTickers
    /\ Shutdowns \in BOOLEAN

Automation == {"AutoScan", "AutoClean"}

ASSUME RequestAssumption ==
    Settings \subseteq SUBSET Automation /\ Commands \subseteq {"Scan", "Clean"}

Request == [type : Automation \cup Commands, ch : Channels]
Ticker == [owner : Channels, n : 1..MaxTickers]
Resting == [stage : {"idle", "stopped"}]
Serving == [stage : {"check", "list", "classify", "report", "delay"}, request : Request]

VARIABLES
    protected,     \* the keys of d.protectedChannels
    flags,         \* their AutoScan and AutoClean
    made,          \* tickers registered so far
    cases,         \* d.tickerCases
    caseChannels,  \* d.tickerCasesChannels
    firing,        \* tickers with a tick in their channel's buffer of one
    closed,        \* tickers whose channel is closed
    at,            \* where the scheduling goroutine is
    snapCases,     \* its copies
    snapChannels,
    todo,          \* the requests of the tick it is serving
    queue,         \* d.processRequestChan
    blocked,       \* senders that wait for room, first come first served
    worker,        \* stage and request of each worker
    done           \* the context has ended

tickers == <<made, cases, caseChannels>>
scheduler == <<at, snapCases, snapChannels, todo>>
vars == <<protected, flags, tickers, firing, closed, scheduler,
          queue, blocked, worker, done>>

-----------------------------------------------------------------------------
HasRoom == Len(queue) < QueueCap

Waits(s) == \E i \in DOMAIN blocked : blocked[i].sender = s

HasTicker(c) == c \in ToSet(caseChannels)

Owned(c, n) == [owner |-> c, n |-> n]

Idle == [stage |-> "idle"]

AtStage(w, s) == worker[w].stage = s

WorkerGoes(w, s) == worker' = [worker EXCEPT ![w] = [@ EXCEPT !.stage = s]]

\* The requests a tick of c stands for; AutoScan goes first.
Due(c) ==
    LET One(f) == IF c \in protected /\ f \in flags[c] THEN <<[type |-> f, ch |-> c]>> ELSE <<>>
    IN  One("AutoScan") \o One("AutoClean")

Register(c) ==
    /\ made < MaxTickers
    /\ made' = made + 1
    /\ cases' = Append(cases, Owned(c, made + 1))
    /\ caseChannels' = Append(caseChannels, c)

Unregister(c) ==
    \E i \in DOMAIN caseChannels :
        /\ caseChannels[i] = c
        /\ \A k \in 1..(i - 1) : caseChannels[k] # c
        /\ cases' = RemoveAt(cases, i)
        /\ caseChannels' = RemoveAt(caseChannels, i)
        /\ UNCHANGED made

\* Launch goes through the records in any order.
Init ==
    \E launched \in SetToSeqs(Automatic) :
        /\ protected = Channels
        /\ flags = [c \in Channels |-> IF c \in Automatic THEN {"AutoScan"} ELSE {}]
        /\ made = Len(launched)
        /\ cases = [i \in DOMAIN launched |-> Owned(launched[i], i)]
        /\ caseChannels = launched
        /\ firing = {} /\ closed = {}
        /\ at = "snapshot"
        /\ snapCases = <<>> /\ snapChannels = <<>> /\ todo = <<>>
        /\ queue = <<>> /\ blocked = <<>>
        /\ worker = [w \in Workers |-> Idle]
        /\ done = FALSE

-----------------------------------------------------------------------------
\* ChannelRegistry has the interleavings of these three; here each is one step.
SetFlags(c, f) ==
    /\ c \in protected /\ f # flags[c]
    /\ flags' = [flags EXCEPT ![c] = f]
    /\ \/ f # {} /\ ~HasTicker(c) /\ Register(c)
       \/ f = {} /\ HasTicker(c) /\ Unregister(c)
       \/ (f # {}) = HasTicker(c) /\ UNCHANGED tickers
    /\ UNCHANGED <<protected, firing, closed, scheduler, queue, blocked, worker, done>>

AddProtectedChannel(c, f) ==
    /\ c \notin protected
    /\ protected' = protected \cup {c}
    /\ flags' = [flags EXCEPT ![c] = f]
    /\ IF f # {} THEN Register(c) ELSE UNCHANGED tickers
    /\ UNCHANGED <<firing, closed, scheduler, queue, blocked, worker, done>>

CleanProtectedChannel(c) ==
    /\ c \in protected
    /\ protected' = protected \ {c}
    /\ IF HasTicker(c) THEN Unregister(c) ELSE UNCHANGED tickers
    /\ UNCHANGED <<flags, firing, closed, scheduler, queue, blocked, worker, done>>

\* A removed ticker is never stopped: the copy may still receive from it.
Fire(t) ==
    /\ t \in (ToSet(cases) \cup ToSet(snapCases)) \ closed
    /\ firing' = firing \cup {t}
    /\ UNCHANGED <<protected, flags, tickers, closed, scheduler, queue, blocked, worker, done>>

CloseTicker(t) ==
    /\ Cardinality(closed) < MaxCloses
    /\ t \in ToSet(cases) \ closed
    /\ closed' = closed \cup {t}
    /\ UNCHANGED <<protected, flags, tickers, firing, scheduler, queue, blocked, worker, done>>

Shutdown ==
    /\ Shutdowns /\ ~done
    /\ done' = TRUE
    /\ UNCHANGED <<protected, flags, tickers, firing, closed, scheduler, queue, blocked, worker>>

-----------------------------------------------------------------------------
\* Mutant: the copy is taken when the goroutine starts and kept.
SnapshotOnce ==
    /\ at = "snapshot"
    /\ at' = "select"
    /\ IF snapCases = <<>> THEN snapCases' = cases /\ snapChannels' = caseChannels
                           ELSE UNCHANGED <<snapCases, snapChannels>>
    /\ UNCHANGED <<protected, flags, tickers, firing, closed, todo, queue, blocked, worker, done>>

Snapshot ==
    /\ at = "snapshot"
    /\ at' = "select"
    /\ snapCases' = cases /\ snapChannels' = caseChannels
    /\ UNCHANGED <<protected, flags, tickers, firing, closed, todo, queue, blocked, worker, done>>

ServeTick(i, c) ==
    /\ at = "select"
    /\ snapCases[i] \in firing
    /\ firing' = firing \ {snapCases[i]}
    /\ todo' = Due(c)
    /\ at' = IF todo' = <<>> THEN "snapshot" ELSE "enqueue"
    /\ UNCHANGED <<protected, flags, tickers, closed, snapCases, snapChannels,
                   queue, blocked, worker, done>>

\* Mutant: the channel is looked up in the live list, not in the copy.
TickLive(i) ==
    /\ i \in DOMAIN caseChannels
    /\ ServeTick(i, caseChannels[i])

Tick(i) == ServeTick(i, snapChannels[i])

\* A closed channel is ready at once: the goroutine logs a skip and returns.
TickClosed(i) ==
    /\ at = "select"
    /\ snapCases[i] \in closed \ firing
    /\ at' = "stopped"
    /\ UNCHANGED <<protected, flags, tickers, firing, closed, snapCases, snapChannels, todo,
                   queue, blocked, worker, done>>

TickDone ==
    /\ at = "select" /\ done
    /\ at' = "stopped"
    /\ UNCHANGED <<protected, flags, tickers, firing, closed, snapCases, snapChannels, todo,
                   queue, blocked, worker, done>>

\* Mutant: the scheduler waits for room in the queue.
EnqueueWaits ==
    /\ at = "enqueue"
    /\ HasRoom
    /\ queue' = Append(queue, Head(todo))
    /\ todo' = Tail(todo)
    /\ at' = IF todo' = <<>> THEN "snapshot" ELSE "enqueue"
    /\ UNCHANGED <<protected, flags, tickers, firing, closed, snapCases, snapChannels,
                   blocked, worker, done>>

\* enqueueScanRequest: a full queue, or a context that ended, drops the request.
Offer(r) ==
    \/ HasRoom /\ queue' = Append(queue, r)
    \/ (done \/ ~HasRoom) /\ UNCHANGED queue

Enqueue ==
    /\ at = "enqueue"
    /\ Offer(Head(todo))
    /\ todo' = Tail(todo)
    /\ at' = IF todo' = <<>> THEN "snapshot" ELSE "enqueue"
    /\ UNCHANGED <<protected, flags, tickers, firing, closed, snapCases, snapChannels,
                   blocked, worker, done>>

\* /scan and /clean of a control chat, one channel of the list at a time.
ScanChannelHandler(r) ==
    /\ r.ch \in protected /\ r.type \in Commands
    /\ Offer(r)
    /\ UNCHANGED <<protected, flags, tickers, firing, closed, scheduler, blocked, worker, done>>

\* Mutant: the API request joins the queue whether or not there is room.
EnqueueScanUnbounded(s, r) ==
    /\ ~Waits(s) /\ r.ch \in protected /\ r.type \in Commands
    /\ Len(queue) <= QueueCap
    /\ queue' = Append(queue, r) /\ UNCHANGED blocked
    /\ UNCHANGED <<protected, flags, tickers, firing, closed, scheduler, worker, done>>

\* TriggerScan and TriggerClean wait for room, whatever happens to the context.
EnqueueScan(s, r) ==
    /\ ~Waits(s) /\ r.ch \in protected /\ r.type \in Commands
    /\ IF HasRoom
       THEN queue' = Append(queue, r) /\ UNCHANGED blocked
       ELSE blocked' = Append(blocked, [sender |-> s, request |-> r]) /\ UNCHANGED queue
    /\ UNCHANGED <<protected, flags, tickers, firing, closed, scheduler, worker, done>>

-----------------------------------------------------------------------------
\* The first waiting sender puts its request in as the worker takes one out.
Take(w) ==
    /\ AtStage(w, "idle") /\ queue # <<>>
    /\ worker' = [worker EXCEPT ![w] = [stage |-> "check", request |-> Head(queue)]]
    /\ IF blocked = <<>>
       THEN queue' = Tail(queue) /\ UNCHANGED blocked
       ELSE queue' = Append(Tail(queue), Head(blocked).request) /\ blocked' = Tail(blocked)
    /\ UNCHANGED <<protected, flags, tickers, firing, closed, scheduler, done>>

\* CheckPermissions: the bot's rights may be missing at any time.
Check(w) ==
    /\ AtStage(w, "check")
    /\ \/ WorkerGoes(w, "list")
       \/ worker' = [worker EXCEPT ![w] = Idle]
    /\ UNCHANGED <<protected, flags, tickers, firing, closed, scheduler, queue, blocked, done>>

\* GetChannelUsers answers or fails.
List(w) ==
    /\ AtStage(w, "list")
    /\ \E s \in {"classify", "delay"} : WorkerGoes(w, s)
    /\ UNCHANGED <<protected, flags, tickers, firing, closed, scheduler, queue, blocked, done>>

\* The channel may be gone by the time its members are known.
Classify(w) ==
    /\ AtStage(w, "classify")
    /\ WorkerGoes(w, IF worker[w].request.ch \in protected THEN "report" ELSE "delay")
    /\ UNCHANGED <<protected, flags, tickers, firing, closed, scheduler, queue, blocked, done>>

Report(w) ==
    /\ AtStage(w, "report")
    /\ WorkerGoes(w, "delay")
    /\ UNCHANGED <<protected, flags, tickers, firing, closed, scheduler, queue, blocked, done>>

Delay(w) ==
    /\ AtStage(w, "delay")
    /\ worker' = [worker EXCEPT ![w] = Idle]
    /\ UNCHANGED <<protected, flags, tickers, firing, closed, scheduler, queue, blocked, done>>

StopWorker(w) ==
    /\ AtStage(w, "idle") /\ done
    /\ worker' = [worker EXCEPT ![w] = [stage |-> "stopped"]]
    /\ UNCHANGED <<protected, flags, tickers, firing, closed, scheduler, queue, blocked, done>>

Work(w) == Check(w) \/ List(w) \/ Classify(w) \/ Report(w) \/ Delay(w)

Next ==
    \/ Shutdown \/ Snapshot \/ TickDone \/ Enqueue
    \/ \E c \in Channels : \/ CleanProtectedChannel(c)
                           \/ \E f \in Settings : SetFlags(c, f) \/ AddProtectedChannel(c, f)
    \/ \E t \in Ticker : Fire(t) \/ CloseTicker(t)
    \/ \E i \in DOMAIN snapCases : Tick(i) \/ TickClosed(i)
    \/ \E r \in Request : \/ ScanChannelHandler(r)
                          \/ \E s \in Senders : EnqueueScan(s, r)
    \/ \E w \in Workers : Take(w) \/ StopWorker(w) \/ Work(w)

Spec == Init /\ [][Next]_vars

-----------------------------------------------------------------------------
\* Select picks at random among the ready cases, so no ready case is passed
\* over for ever; tickers tick; the goroutines themselves run on.
SchedulerFairness ==
    /\ WF_vars(Snapshot) /\ WF_vars(Enqueue) /\ SF_vars(TickDone)

TickerFairness ==
    \A t \in Ticker :
        /\ WF_vars(t \notin firing /\ Fire(t))
        /\ SF_vars(\E i \in DOMAIN snapCases : snapCases[i] = t /\ Tick(i))
        /\ SF_vars(\E i \in DOMAIN snapCases : snapCases[i] = t /\ TickClosed(i))

\* Scans end: the calls to Telegram and the access checker return.
WorkerFairness == \A w \in Workers : WF_vars(Take(w)) /\ WF_vars(Work(w))

SchedulerSpec == Spec /\ SchedulerFairness /\ TickerFairness
FairSpec == SchedulerSpec /\ WorkerFairness

-----------------------------------------------------------------------------
TypeOK ==
    /\ protected \subseteq Channels
    /\ flags \in [Channels -> SUBSET Automation]
    /\ made \in 0..MaxTickers
    /\ cases \in Seq(Ticker) /\ caseChannels \in Seq(Channels)
    /\ firing \subseteq Ticker /\ closed \subseteq Ticker
    /\ at \in {"snapshot", "select", "enqueue", "stopped"}
    /\ snapCases \in Seq(Ticker) /\ snapChannels \in Seq(Channels)
    /\ todo \in Seq(Request)
    /\ queue \in Seq(Request) /\ Len(queue) <= QueueCap
    /\ blocked \in Seq([sender : Senders, request : Request])
    /\ worker \in [Workers -> Resting \cup Serving]
    /\ done \in BOOLEAN

\* The list of tickers shrinks and grows while the goroutine sleeps on a copy
\* of it; the tick it then receives is still put down to the channel whose
\* ticker ticked (channel_users_checker.go:199-203).
TicksGoToTheirChannel ==
    [][\A t \in firing \ firing' : \A r \in ToSet(todo') : r.ch = t.owner]_vars

\* Nobody waits for room that is there: a sender blocks only on a full queue,
\* so a request that was accepted is never overtaken by one that found room.
NobodyWaitsForNothing == blocked # <<>> => ~HasRoom

\* channel_users_checker.go:264-267: a full queue, with workers that never come
\* back, does not keep the scheduling goroutine from seeing the context end.
ShutdownIsServed == done ~> at = "stopped"

\* Once one tick or another keeps waking the goroutine, every channel with
\* AutoScan or AutoClean on gets its turn.
WokenSchedulerServesAll ==
    \A c \in Channels :
        (<>[](c \in protected /\ flags[c] # {}) /\ []<>(at = "enqueue"))
            => []<>(at = "enqueue" /\ Head(todo).ch = c)

\* webapi/webui/miniapp/app.js:251, "Check members periodically": a channel
\* with AutoScan on is scheduled over and over.
AutoScanIsPeriodic ==
    \A c \in Channels :
        <>[](c \in protected /\ "AutoScan" \in flags[c])
            => []<>(at = "enqueue" /\ Head(todo).ch = c)
=============================================================================
