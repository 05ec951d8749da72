-------------------------- MODULE ScanSchedulerProofs --------------------------
(***************************************************************************)
(* The scheduling goroutine, the queue and the workers, for any number of  *)
(* channels, tickers, workers and senders.  Both lists of tickers keep     *)
(* step, the live ones and the copies, so a tick is put down to its owner. *)
(***************************************************************************)
EXTENDS ScanScheduler, SequenceTheorems, FiniteSetTheorems, TLAPS

\* The i-th select case belongs to the i-th channel.
Aligned(ts, cs) == Len(ts) = Len(cs) /\ \A i \in 1..Len(ts) : ts[i].owner = cs[i]

\* The goroutine is in the middle of a tick only while requests are left of it.
TickInHand == at = "enqueue" => todo # <<>>

SInv == TypeOK /\ Aligned(cases, caseChannels) /\ Aligned(snapCases, snapChannels) /\ TickInHand

-----------------------------------------------------------------------------
(* The operators. *)

LEMMA Bounds == QueueCap \in Nat /\ QueueCap >= 1 /\ MaxTickers \in Nat
BY SchedulerAssumption

LEMMA RequestType ==
    ASSUME NEW c \in Channels
    PROVE  /\ \A f \in Automation : [type |-> f, ch |-> c] \in Request
           /\ \A r \in Request : r.ch \in Channels
BY DEF Request

\* A tick of c stands for requests of c.
LEMMA DueIsOwn ==
    ASSUME NEW c \in Channels
    PROVE  Due(c) \in Seq(Request) /\ \A r \in ToSet(Due(c)) : r.ch = c
<1> DEFINE One(f) == IF c \in protected /\ f \in flags[c] THEN <<[type |-> f, ch |-> c]>> ELSE <<>>
<1>1. ASSUME NEW f \in Automation
      PROVE  /\ One(f) \in Seq(Request) /\ Len(One(f)) \in Nat
             /\ \A i \in 1..Len(One(f)) : One(f)[i].ch = c
  <2>1. CASE c \in protected /\ f \in flags[c]
    <3>1. [type |-> f, ch |-> c] \in Request
      BY RequestType
    <3>2. One(f) = <<[type |-> f, ch |-> c]>>
      BY <2>1
    <3>3. QED
      BY <3>1, <3>2
  <2>2. CASE ~(c \in protected /\ f \in flags[c])
    <3>1. One(f) = <<>>
      BY <2>2
    <3>2. QED
      BY <3>1
  <2>3. QED
    BY <2>1, <2>2
<1>2. "AutoScan" \in Automation /\ "AutoClean" \in Automation
  BY DEF Automation
<1>3. Due(c) = One("AutoScan") \o One("AutoClean")
  BY DEF Due
<1> HIDE DEF One
<1>4. /\ Due(c) \in Seq(Request)
      /\ \A i \in 1..Len(Due(c)) : Due(c)[i].ch = c
  BY <1>1, <1>2, <1>3, ConcatProperties
<1>5. QED
  BY <1>4 DEF ToSet

LEMMA AppendKeepsAligned ==
    ASSUME NEW ts \in Seq(Ticker), NEW cs \in Seq(Channels), Aligned(ts, cs),
           NEW t \in Ticker, NEW c \in Channels, t.owner = c
    PROVE  Aligned(Append(ts, t), Append(cs, c))
BY AppendProperties DEF Aligned

\* What is left when one place of a sequence is removed.
LEMMA Removed ==
    ASSUME NEW S, NEW s \in Seq(S), NEW i \in 1..Len(s)
    PROVE  /\ RemoveAt(s, i) \in Seq(S) /\ Len(RemoveAt(s, i)) = Len(s) - 1
           /\ \A k \in 1..(Len(s) - 1) : RemoveAt(s, i)[k] = IF k < i THEN s[k] ELSE s[k + 1]
<1> DEFINE before == SubSeq(s, 1, i - 1)
           after == SubSeq(s, i + 1, Len(s))
<1>1. Len(s) \in Nat /\ i \in Int /\ \A k \in 1..Len(s) : s[k] \in S
  BY LenProperties, ElementOfSeq
<1>2. before \in Seq(S) /\ Len(before) = i - 1 /\ \A k \in 1..(i - 1) : before[k] = s[k]
  BY <1>1, SubSeqProperties
<1>3. after \in Seq(S) /\ Len(after) = Len(s) - i /\ \A k \in 1..(Len(s) - i) : after[k] = s[k + i]
  BY <1>1, SubSeqProperties
<1>4. RemoveAt(s, i) = before \o after
  BY DEF RemoveAt
<1> HIDE DEF before, after
<1>5. /\ before \o after \in Seq(S) /\ Len(before \o after) = Len(before) + Len(after)
      /\ \A k \in 1..(Len(before) + Len(after)) :
            (before \o after)[k] = IF k <= Len(before) THEN before[k] ELSE after[k - Len(before)]
  BY <1>2, <1>3, ConcatProperties
<1>6. Len(RemoveAt(s, i)) = Len(s) - 1 /\ RemoveAt(s, i) \in Seq(S)
  BY <1>1, <1>2, <1>3, <1>4, <1>5
<1>7. ASSUME NEW k \in 1..(Len(s) - 1)
      PROVE  RemoveAt(s, i)[k] = IF k < i THEN s[k] ELSE s[k + 1]
  <2>1. RemoveAt(s, i)[k] = IF k <= i - 1 THEN before[k] ELSE after[k - (i - 1)]
    BY <1>1, <1>2, <1>3, <1>4, <1>5
  <2>2. CASE k < i
    BY <1>1, <1>2, <2>1, <2>2
  <2>3. CASE ~(k < i)
    <3>1. k - (i - 1) \in 1..(Len(s) - i) /\ (k - (i - 1)) + i = k + 1
      BY <1>1, <2>3
    <3>2. QED
      BY <1>1, <1>3, <2>1, <2>3, <3>1
  <2>4. QED
    BY <2>2, <2>3
<1>8. QED
  BY <1>6, <1>7

LEMMA RemoveKeepsAligned ==
    ASSUME NEW ts \in Seq(Ticker), NEW cs \in Seq(Channels), Aligned(ts, cs), NEW i \in 1..Len(cs)
    PROVE  Aligned(RemoveAt(ts, i), RemoveAt(cs, i))
<1>1. i \in 1..Len(ts) /\ Len(ts) = Len(cs) /\ Len(ts) \in Nat
  BY LenProperties DEF Aligned
<1>2. /\ Len(RemoveAt(ts, i)) = Len(ts) - 1 /\ Len(RemoveAt(cs, i)) = Len(ts) - 1
      /\ \A k \in 1..(Len(ts) - 1) : RemoveAt(ts, i)[k] = IF k < i THEN ts[k] ELSE ts[k + 1]
      /\ \A k \in 1..(Len(ts) - 1) : RemoveAt(cs, i)[k] = IF k < i THEN cs[k] ELSE cs[k + 1]
  BY <1>1, Removed
<1>3. \A k \in 1..(Len(ts) - 1) : k \in 1..Len(ts) /\ k + 1 \in 1..Len(ts)
  BY <1>1
<1>4. QED
  BY <1>1, <1>2, <1>3 DEF Aligned

-----------------------------------------------------------------------------
(* Types, and the lists in step. *)

LEMMA InitScheduler == Init => SInv
<1> SUFFICES ASSUME Init
             PROVE  SInv
  OBVIOUS
<1>1. PICK launched \in SetToSeqs(Automatic) :
          /\ made = Len(launched)
          /\ cases = [i \in DOMAIN launched |-> Owned(launched[i], i)]
          /\ caseChannels = launched
  BY DEF Init
<1> DEFINE n == Cardinality(Automatic)
<1>2. n \in Nat /\ n <= MaxTickers
  BY SchedulerAssumption, FS_CardinalityType
<1>3. launched \in [1..n -> Automatic]
  BY <1>1 DEF SetToSeqs
<1>4. launched \in Seq(Automatic) /\ Len(launched) = n
  BY <1>2, <1>3
<1>5. launched \in Seq(Channels)
  BY <1>4, SchedulerAssumption, SeqMonotonic
<1>6. \A i \in 1..n : Owned(launched[i], i) \in Ticker
  BY <1>2, <1>3, Bounds, SchedulerAssumption DEF Owned, Ticker
<1>7. cases \in [1..n -> Ticker] /\ \A i \in 1..n : cases[i].owner = launched[i]
  BY <1>1, <1>3, <1>6 DEF Owned
<1>8. cases \in Seq(Ticker) /\ Len(cases) = n
  BY <1>2, <1>7
<1>9. Aligned(cases, caseChannels)
  BY <1>1, <1>4, <1>7, <1>8 DEF Aligned
<1>10. Aligned(snapCases, snapChannels) /\ TickInHand
  BY DEF Init, Aligned, TickInHand
<1>11. TypeOK
  <2>1. flags \in [Channels -> SUBSET Automation]
    BY DEF Init, Automation
  <2>2. worker \in [Workers -> Resting \cup Serving]
    BY DEF Init, Idle, Resting
  <2>3. made \in 0..MaxTickers
    BY <1>1, <1>2, <1>4, Bounds
  <2>4. /\ snapCases \in Seq(Ticker) /\ snapChannels \in Seq(Channels) /\ todo \in Seq(Request)
        /\ queue \in Seq(Request) /\ Len(queue) <= QueueCap
        /\ blocked \in Seq([sender : Senders, request : Request])
    BY Bounds DEF Init
  <2>5. QED
    BY <1>1, <1>5, <1>8, <2>1, <2>2, <2>3, <2>4 DEF Init, TypeOK
<1>12. QED
  BY <1>9, <1>10, <1>11 DEF SInv

\* What registers and removes tickers.
LEMMA TickersKept ==
    ASSUME SInv, NEW c \in Channels, Register(c) \/ Unregister(c) \/ UNCHANGED tickers
    PROVE  /\ made' \in 0..MaxTickers /\ cases' \in Seq(Ticker) /\ caseChannels' \in Seq(Channels)
           /\ Aligned(cases', caseChannels')
<1>0. /\ made \in 0..MaxTickers /\ cases \in Seq(Ticker) /\ caseChannels \in Seq(Channels)
      /\ Aligned(cases, caseChannels)
  BY DEF SInv, TypeOK
<1>1. CASE Register(c)
  <2>1. Owned(c, made + 1) \in Ticker /\ Owned(c, made + 1).owner = c
    BY <1>0, <1>1, Bounds DEF Register, Owned, Ticker
  <2>2. made' \in 0..MaxTickers
    BY <1>0, <1>1, Bounds DEF Register
  <2>3. QED
    BY <1>0, <1>1, <2>1, <2>2, AppendKeepsAligned, AppendProperties DEF Register
<1>2. CASE Unregister(c)
  <2>1. PICK i \in DOMAIN caseChannels :
            cases' = RemoveAt(cases, i) /\ caseChannels' = RemoveAt(caseChannels, i) /\ made' = made
    BY <1>2 DEF Unregister
  <2>2. i \in 1..Len(caseChannels) /\ i \in 1..Len(cases)
    BY <1>0, LenProperties DEF Aligned
  <2>3. QED
    BY <1>0, <2>1, <2>2, Removed, RemoveKeepsAligned
<1>3. CASE UNCHANGED tickers
  BY <1>0, <1>3 DEF tickers
<1>4. QED
  BY <1>1, <1>2, <1>3

\* Managers and Telegram.
LEMMA ManagersKeep ==
    ASSUME SInv, NEW c \in Channels,
           CleanProtectedChannel(c) \/ \E f \in Settings : SetFlags(c, f) \/ AddProtectedChannel(c, f)
    PROVE  SInv'
<1>1. Register(c) \/ Unregister(c) \/ UNCHANGED tickers
  BY DEF SetFlags, AddProtectedChannel, CleanProtectedChannel
<1>2. /\ made' \in 0..MaxTickers /\ cases' \in Seq(Ticker) /\ caseChannels' \in Seq(Channels)
      /\ Aligned(cases', caseChannels')
  BY <1>1, TickersKept
<1>3. flags' \in [Channels -> SUBSET Automation] /\ protected' \subseteq Channels
  BY RequestAssumption DEF SInv, TypeOK, SetFlags, AddProtectedChannel, CleanProtectedChannel
<1>4. UNCHANGED <<firing, closed, scheduler, queue, blocked, worker, done>>
  BY DEF SetFlags, AddProtectedChannel, CleanProtectedChannel
<1>5. QED
  BY <1>2, <1>3, <1>4 DEF SInv, TypeOK, Aligned, TickInHand, scheduler

\* A request joins the queue only if there is room.
LEMMA OfferType ==
    ASSUME queue \in Seq(Request), Len(queue) <= QueueCap, NEW r \in Request, Offer(r)
    PROVE  queue' \in Seq(Request) /\ Len(queue') <= QueueCap
BY Bounds, AppendProperties, LenProperties DEF Offer, HasRoom

LEMMA SchedulerKeeps ==
    ASSUME SInv, \/ Snapshot \/ TickDone \/ Enqueue
                 \/ \E i \in DOMAIN snapCases : Tick(i) \/ TickClosed(i)
    PROVE  SInv'
<1>0. /\ TypeOK /\ Aligned(cases, caseChannels) /\ Aligned(snapCases, snapChannels) /\ TickInHand
      /\ snapCases \in Seq(Ticker) /\ snapChannels \in Seq(Channels) /\ todo \in Seq(Request)
      /\ queue \in Seq(Request) /\ Len(queue) <= QueueCap
  BY DEF SInv, TypeOK
<1>1. CASE Snapshot
  BY <1>0, <1>1 DEF Snapshot, TypeOK, SInv, Aligned, TickInHand, tickers
<1>2. CASE TickDone \/ \E i \in DOMAIN snapCases : TickClosed(i)
  BY <1>0, <1>2 DEF TickDone, TickClosed, TypeOK, SInv, Aligned, TickInHand, tickers
<1>3. CASE Enqueue
  <2>1. todo # <<>> /\ Head(todo) \in Request /\ Tail(todo) \in Seq(Request)
    BY <1>0, <1>3, HeadTailProperties DEF Enqueue, TickInHand
  <2>2. queue' \in Seq(Request) /\ Len(queue') <= QueueCap
    BY <1>0, <1>3, <2>1, OfferType DEF Enqueue
  <2>3. todo' \in Seq(Request) /\ at' \in {"snapshot", "enqueue"} /\ (at' = "enqueue" => todo' # <<>>)
    BY <1>3, <2>1 DEF Enqueue
  <2>4. QED
    BY <1>0, <1>3, <2>2, <2>3 DEF Enqueue, TypeOK, SInv, Aligned, TickInHand, tickers
<1>4. ASSUME NEW i \in DOMAIN snapCases, Tick(i)
      PROVE  SInv'
  <2>1. snapChannels[i] \in Channels
    BY <1>0, LenProperties, ElementOfSeq DEF Aligned
  <2>2. todo' \in Seq(Request)
    BY <1>4, <2>1, DueIsOwn DEF Tick, ServeTick
  <2>3. at' \in {"snapshot", "enqueue"} /\ (at' = "enqueue" => todo' # <<>>) /\ firing' \subseteq firing
    BY <1>4 DEF Tick, ServeTick
  <2>4. QED
    BY <1>0, <1>4, <2>2, <2>3 DEF Tick, ServeTick, TypeOK, SInv, Aligned, TickInHand, tickers
<1>5. QED
  BY <1>1, <1>2, <1>3, <1>4

LEMMA SendersKeep ==
    ASSUME SInv, NEW r \in Request, ScanChannelHandler(r) \/ \E s \in Senders : EnqueueScan(s, r)
    PROVE  SInv'
<1>0. /\ queue \in Seq(Request) /\ Len(queue) <= QueueCap /\ Len(queue) \in Nat
      /\ blocked \in Seq([sender : Senders, request : Request])
  BY LenProperties DEF SInv, TypeOK
<1>1. queue' \in Seq(Request) /\ Len(queue') <= QueueCap
  <2>1. CASE ScanChannelHandler(r)
    BY <1>0, <2>1, OfferType DEF ScanChannelHandler
  <2>2. CASE \E s \in Senders : EnqueueScan(s, r)
    <3>1. CASE HasRoom
      <4>1. queue' = Append(queue, r)
        BY <2>2, <3>1 DEF EnqueueScan
      <4>2. Append(queue, r) \in Seq(Request) /\ Len(Append(queue, r)) = Len(queue) + 1
        BY <1>0, AppendProperties
      <4>3. QED
        BY <1>0, <3>1, <4>1, <4>2, Bounds DEF HasRoom
    <3>2. CASE ~HasRoom
      BY <1>0, <2>2, <3>2 DEF EnqueueScan
    <3>3. QED
      BY <3>1, <3>2
  <2>3. QED
    BY <2>1, <2>2
<1>2. blocked' \in Seq([sender : Senders, request : Request])
  <2>1. ASSUME NEW s \in Senders
        PROVE  Append(blocked, [sender |-> s, request |-> r]) \in Seq([sender : Senders, request : Request])
    <3>1. [sender |-> s, request |-> r] \in [sender : Senders, request : Request]
      OBVIOUS
    <3>2. QED
      BY <1>0, <3>1, AppendProperties
  <2>2. \/ blocked' = blocked
        \/ \E s \in Senders : blocked' = Append(blocked, [sender |-> s, request |-> r])
    BY DEF ScanChannelHandler, EnqueueScan
  <2>3. QED
    BY <1>0, <2>1, <2>2
<1>3. QED
  BY <1>1, <1>2
     DEF SInv, TypeOK, Aligned, TickInHand, ScanChannelHandler, EnqueueScan, tickers, scheduler

LEMMA WorkersKeep ==
    ASSUME SInv, NEW w \in Workers, Take(w) \/ StopWorker(w) \/ Work(w)
    PROVE  SInv'
<1>0. /\ queue \in Seq(Request) /\ Len(queue) <= QueueCap /\ Len(queue) \in Nat
      /\ blocked \in Seq([sender : Senders, request : Request])
      /\ worker \in [Workers -> Resting \cup Serving]
  BY LenProperties DEF SInv, TypeOK
<1>1. /\ queue' \in Seq(Request) /\ Len(queue') <= QueueCap
      /\ blocked' \in Seq([sender : Senders, request : Request])
  <2>1. CASE Take(w)
    <3>1. /\ Tail(queue) \in Seq(Request) /\ Len(Tail(queue)) = Len(queue) - 1
      BY <1>0, <2>1, HeadTailProperties DEF Take
    <3>2. CASE blocked = <<>>
      <4>1. queue' = Tail(queue) /\ blocked' = blocked
        BY <2>1, <3>2 DEF Take
      <4>2. QED
        BY <1>0, <3>1, <4>1, Bounds
    <3>3. CASE blocked # <<>>
      <4>1. /\ Head(blocked) \in [sender : Senders, request : Request]
            /\ Tail(blocked) \in Seq([sender : Senders, request : Request])
        BY <1>0, <3>3, HeadTailProperties
      <4>2. Head(blocked).request \in Request
        BY <4>1
      <4>3. /\ Append(Tail(queue), Head(blocked).request) \in Seq(Request)
            /\ Len(Append(Tail(queue), Head(blocked).request)) = Len(queue)
        BY <1>0, <3>1, <4>2, AppendProperties
      <4>4. QED
        BY <1>0, <2>1, <3>3, <4>1, <4>3 DEF Take
    <3>4. QED
      BY <3>2, <3>3
  <2>2. CASE UNCHANGED <<queue, blocked>>
    BY <1>0, <2>2
  <2>3. QED
    BY <2>1, <2>2 DEF StopWorker, Work, Check, List, Classify, Report, Delay
<1>2. worker' \in [Workers -> Resting \cup Serving]
  <2>1. \E x \in Resting \cup Serving : worker' = [worker EXCEPT ![w] = x]
    <3>1. CASE Take(w)
      <4>1. Head(queue) \in Request
        BY <1>0, <3>1, HeadTailProperties DEF Take
      <4>2. [stage |-> "check", request |-> Head(queue)] \in Serving
        BY <4>1 DEF Serving
      <4>3. QED
        BY <3>1, <4>2 DEF Take
    <3>2. CASE StopWorker(w)
      BY <3>2 DEF StopWorker, Resting
    <3>3. Idle \in Resting
      BY DEF Idle, Resting
    <3>4. ASSUME worker[w].stage \in {"check", "list", "classify", "report"},
                 NEW s \in {"list", "classify", "report", "delay"}, WorkerGoes(w, s)
          PROVE  \E x \in Resting \cup Serving : worker' = [worker EXCEPT ![w] = x]
      <4>1. worker[w] \in Serving
        BY <1>0, <3>4 DEF Resting
      <4>2. [worker[w] EXCEPT !.stage = s] \in Serving
        BY <4>1 DEF Serving
      <4>3. QED
        BY <3>4, <4>2 DEF WorkerGoes
    <3>5. CASE Check(w)
      BY <3>3, <3>4, <3>5 DEF Check, AtStage
    <3>6. CASE List(w)
      BY <3>4, <3>6 DEF List, AtStage
    <3>7. CASE Classify(w)
      BY <3>4, <3>7 DEF Classify, AtStage
    <3>8. CASE Report(w)
      BY <3>4, <3>8 DEF Report, AtStage
    <3>9. CASE Delay(w)
      BY <3>3, <3>9 DEF Delay
    <3>10. QED
      BY <3>1, <3>2, <3>5, <3>6, <3>7, <3>8, <3>9 DEF Work
  <2>2. QED
    BY <1>0, <2>1
<1>3. QED
  BY <1>1, <1>2
     DEF SInv, TypeOK, Aligned, TickInHand, Take, StopWorker, Work, Check, List, Classify, Report,
         Delay, tickers, scheduler

LEMMA NextScheduler == SInv /\ [Next]_vars => SInv'
<1> SUFFICES ASSUME SInv, [Next]_vars
             PROVE  SInv'
  OBVIOUS
<1>1. CASE UNCHANGED vars
  BY <1>1 DEF vars, tickers, scheduler, SInv, TypeOK, Aligned, TickInHand
<1>2. CASE Shutdown
  <2>1. UNCHANGED <<protected, flags, tickers, firing, closed, scheduler, queue, blocked, worker>>
        /\ done' \in BOOLEAN
    BY <1>2 DEF Shutdown
  <2>2. QED
    BY <2>1 DEF tickers, scheduler, SInv, TypeOK, Aligned, TickInHand
<1>3. ASSUME NEW t \in Ticker, Fire(t) \/ CloseTicker(t)
      PROVE  SInv'
  <2>1. /\ firing' \subseteq Ticker /\ closed' \subseteq Ticker
        /\ UNCHANGED <<protected, flags, tickers, scheduler, queue, blocked, worker, done>>
    BY <1>3 DEF Fire, CloseTicker, SInv, TypeOK
  <2>2. QED
    BY <2>1 DEF tickers, scheduler, SInv, TypeOK, Aligned, TickInHand
<1>4. ASSUME NEW c \in Channels,
             CleanProtectedChannel(c) \/ \E f \in Settings : SetFlags(c, f) \/ AddProtectedChannel(c, f)
      PROVE  SInv'
  BY <1>4, ManagersKeep
<1>5. QED
  BY <1>1, <1>2, <1>3, <1>4, SchedulerKeeps, SendersKeep, WorkersKeep DEF Next

LEMMA SchedulerInvariant == Spec => []SInv
<1>1. Init => SInv
  BY InitScheduler
<1>2. SInv /\ [Next]_vars => SInv'
  BY NextScheduler
<1>3. QED
  BY <1>1, <1>2, PTL DEF Spec

\* The types; the queue is never longer than its capacity.
THEOREM SchedulerTypes == Spec => []TypeOK
<1>1. SInv => TypeOK
  BY DEF SInv
<1>2. QED
  BY <1>1, SchedulerInvariant, PTL

-----------------------------------------------------------------------------
\* A sender of the management API waits only while the queue is full: the worker
\* that makes room puts the first of them in.
THEOREM SendersWaitForRoom == Spec => []NobodyWaitsForNothing
<1>1. Init => NobodyWaitsForNothing
  BY DEF Init, NobodyWaitsForNothing
<1>2. SInv /\ NobodyWaitsForNothing /\ [Next]_vars => NobodyWaitsForNothing'
  <2> SUFFICES ASSUME SInv, NobodyWaitsForNothing, [Next]_vars
               PROVE  NobodyWaitsForNothing'
    OBVIOUS
  <2>0. queue \in Seq(Request) /\ Len(queue) \in Nat /\ blocked \in Seq([sender : Senders, request : Request])
    BY LenProperties DEF SInv, TypeOK
  <2>1. CASE UNCHANGED <<queue, blocked>>
    BY <2>1 DEF NobodyWaitsForNothing, HasRoom
  <2>2. ASSUME NEW r, Offer(r), blocked' = blocked
        PROVE  NobodyWaitsForNothing'
    BY <2>2 DEF Offer, NobodyWaitsForNothing, HasRoom
  <2>3. ASSUME NEW s \in Senders, NEW r \in Request, EnqueueScan(s, r)
        PROVE  NobodyWaitsForNothing'
    BY <2>0, <2>3, AppendProperties DEF EnqueueScan, NobodyWaitsForNothing, HasRoom
  <2>4. ASSUME NEW w \in Workers, Take(w)
        PROVE  NobodyWaitsForNothing'
    <3>1. CASE blocked = <<>>
      BY <2>4, <3>1 DEF Take, NobodyWaitsForNothing
    <3>2. CASE blocked # <<>>
      <4>1. /\ Tail(queue) \in Seq(Request) /\ Len(Tail(queue)) = Len(queue) - 1
        BY <2>0, <2>4, HeadTailProperties DEF Take
      <4>2. Head(blocked).request \in Request
        <5>1. Head(blocked) \in [sender : Senders, request : Request]
          BY <2>0, <3>2, HeadTailProperties
        <5>2. QED
          BY <5>1
      <4>3. Len(Append(Tail(queue), Head(blocked).request)) = Len(queue)
        BY <2>0, <4>1, <4>2, AppendProperties
      <4>4. QED
        BY <2>4, <3>2, <4>3 DEF Take, NobodyWaitsForNothing, HasRoom
    <3>3. QED
      BY <3>1, <3>2
  <2>5. CASE \E w \in Workers : StopWorker(w) \/ Work(w)
    BY <2>1, <2>5 DEF StopWorker, Work, Check, List, Classify, Report, Delay
  <2>6. CASE Snapshot \/ TickDone \/ Shutdown \/ \E i \in DOMAIN snapCases : Tick(i) \/ TickClosed(i)
    BY <2>1, <2>6 DEF Snapshot, TickDone, Shutdown, Tick, ServeTick, TickClosed
  <2>7. CASE Enqueue
    BY <2>2, <2>7 DEF Enqueue
  <2>8. CASE \E r \in Request : ScanChannelHandler(r)
    BY <2>2, <2>8 DEF ScanChannelHandler
  <2>9. CASE \/ \E c \in Channels : \/ CleanProtectedChannel(c)
                                   \/ \E f \in Settings : SetFlags(c, f) \/ AddProtectedChannel(c, f)
             \/ \E t \in Ticker : Fire(t) \/ CloseTicker(t)
    BY <2>1, <2>9 DEF CleanProtectedChannel, SetFlags, AddProtectedChannel, Fire, CloseTicker
  <2>10. CASE UNCHANGED vars
    BY <2>1, <2>10 DEF vars
  <2>11. QED
    BY <2>3, <2>4, <2>5, <2>6, <2>7, <2>8, <2>9, <2>10 DEF Next
<1>3. QED
  BY <1>1, <1>2, SchedulerInvariant, PTL DEF Spec

\* A tick is put down to the channel whose ticker ticked, although the list of
\* tickers may change while the goroutine sleeps on its copy.
THEOREM TicksAreOwn == Spec => TicksGoToTheirChannel
<1>1. SInv /\ [Next]_vars => [\A t \in firing \ firing' : \A r \in ToSet(todo') : r.ch = t.owner]_vars
  <2> SUFFICES ASSUME SInv, Next, NEW t \in firing, t \notin firing'
               PROVE  \A r \in ToSet(todo') : r.ch = t.owner
    OBVIOUS
  <2>0. /\ Aligned(snapCases, snapChannels)
        /\ snapCases \in Seq(Ticker) /\ snapChannels \in Seq(Channels)
    BY DEF SInv, TypeOK
  <2>1. PICK i \in DOMAIN snapCases : Tick(i)
    BY DEF Next, Shutdown, Snapshot, TickDone, Enqueue, CleanProtectedChannel, SetFlags,
           AddProtectedChannel, Fire, CloseTicker, TickClosed, ScanChannelHandler, EnqueueScan, Take,
           StopWorker, Work, Check, List, Classify, Report, Delay
  <2>2. i \in 1..Len(snapCases) /\ i \in 1..Len(snapChannels)
    BY <2>0, LenProperties DEF Aligned
  <2>3. t = snapCases[i] /\ todo' = Due(snapChannels[i])
    BY <2>1 DEF Tick, ServeTick
  <2>4. snapChannels[i] \in Channels /\ snapCases[i].owner = snapChannels[i]
    BY <2>0, <2>2, ElementOfSeq DEF Aligned
  <2>5. QED
    BY <2>3, <2>4, DueIsOwn
<1>2. QED
  BY <1>1, SchedulerInvariant, PTL DEF Spec, TicksGoToTheirChannel

=============================================================================
