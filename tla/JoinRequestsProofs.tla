-------------------------- MODULE JoinRequestsProofs --------------------------
(***************************************************************************)
(* The list of pending requests to join, for any number of users, managers,*)
(* failures and restarts.  The invariant says, user by user, which job may *)
(* be at work on whom and what it has done so far.                         *)
(***************************************************************************)
EXTENDS JoinRequests, TLAPS

Dropping == {"dropStore", "dropMemory"}

Keeping == {"check", "resolve", "put", "putStore", "putMemory"}

Listed(u) == u \in storage \/ u \in Loaded

Held(u) == u \in storage /\ (memory = NotLoaded \/ u \in memory)

BusyAt(a, u, S) == Busy(a, u) /\ job[a].at \in S

\* Who was not crossed has one goroutine at work on its request.
OneWorks(u) ==
    u \notin crossed =>
        /\ \A a, b \in Actors : Busy(a, u) /\ Busy(b, u) => a = b
        /\ u \in due => \A a \in Actors : ~Busy(a, u)

\* A user on the list, in a round or in a job waits in Telegram, unless the
\* job has had the answer; a new request is then still an update on its way.
ListedIsOpen(u) ==
    u \notin crossed \cup stale =>
        /\ Listed(u) => u \in open \/ \E a \in Actors : BusyAt(a, u, Dropping)
        /\ u \in due => u \in open
        /\ \A a \in Actors : BusyAt(a, u, Keeping) => u \in open
        /\ \A a \in Actors : BusyAt(a, u, {"dropMemory"}) => u \notin storage
        /\ updates[u] > 0 =>
               /\ u \in open /\ updates[u] = 1 /\ u \notin due
               /\ \A a \in Actors : ~BusyAt(a, u, Keeping)
               /\ Listed(u) => \E a \in Actors : BusyAt(a, u, Dropping)

\* Who waits is on its way to the bot, in its hands, or kept twice.
OpenIsSeen(u) ==
    u \in open \ (ignored \cup crossed \cup unkept) =>
        /\ \/ updates[u] > 0
           \/ Held(u)
           \/ BusyAt(Bot, u, {"check", "resolve", "put", "putStore"})
           \/ BusyAt(Bot, u, {"putMemory"}) /\ u \in storage
        /\ \A a \in Actors : BusyAt(a, u, Dropping) => updates[u] > 0

UserOK(u) == OneWorks(u) /\ ListedIsOpen(u) /\ OpenIsSeen(u)

\* The managers and the loop work on a list that is loaded.
LoadedFirst ==
    /\ due # {} => memory # NotLoaded
    /\ \A a \in Actors : job[a] # NoJob /\ a # Bot => memory # NotLoaded

JInv == TypeOK /\ LoadedFirst /\ \A u \in Users : UserOK(u)

-----------------------------------------------------------------------------
(* Types. *)

LEMMA JobType ==
    ASSUME TypeOK, NEW a \in Actors, job[a] # NoJob
    PROVE  /\ job[a] \in Job /\ job[a].at \in Stages /\ job[a].user \in Users
           /\ job[a].auto \in BOOLEAN /\ job[a].approve \in BOOLEAN
BY DEF TypeOK, Job

LEMMA LoadedType ==
    ASSUME TypeOK
    PROVE  Loaded \subseteq Users /\ Loaded # NotLoaded
BY JoinAssumption DEF TypeOK, Loaded

LEMMA ActorsAre == Bot \in Actors /\ Loop \in Actors /\ Managers \subseteq Actors
                   /\ Bot # Loop /\ Bot \notin Managers
BY JoinAssumption DEF Actors

\* A job goes on to a stage, or ends, or begins.
LEMMA GoToType ==
    ASSUME TypeOK, NEW a \in Actors, job[a] # NoJob, NEW s \in Stages, GoTo(a, s)
    PROVE  /\ job' \in [Actors -> Job \cup {NoJob}]
           /\ job'[a] # NoJob /\ job'[a].at = s /\ job'[a].user = job[a].user
           /\ \A b \in Actors : b # a => job'[b] = job[b]
<1>1. [job[a] EXCEPT !.at = s] \in Job
  BY JobType DEF Job
<1>2. job'[a] = [job[a] EXCEPT !.at = s]
  BY DEF TypeOK, GoTo
<1>3. job'[a] # NoJob
  BY <1>1, <1>2, JoinAssumption
<1>4. job'[a].at = s /\ job'[a].user = job[a].user
  BY <1>2, JobType DEF Job
<1>5. QED
  BY <1>1, <1>3, <1>4 DEF TypeOK, GoTo

LEMMA FinishType ==
    ASSUME TypeOK, NEW a \in Actors, Finish(a)
    PROVE  /\ job' \in [Actors -> Job \cup {NoJob}] /\ job'[a] = NoJob
           /\ \A b \in Actors : b # a => job'[b] = job[b]
BY DEF TypeOK, Finish

LEMMA BeginType ==
    ASSUME TypeOK, NEW a \in Actors, NEW j \in Job, Begin(a, j)
    PROVE  /\ job' \in [Actors -> Job \cup {NoJob}] /\ job[a] = NoJob /\ job'[a] = j /\ j # NoJob
           /\ \A b \in Actors : b # a => job'[b] = job[b]
           /\ crossed \subseteq crossed' /\ crossed' \subseteq Users
BY JoinAssumption DEF TypeOK, Begin, Job

LEMMA InitTypes == Init => TypeOK /\ LoadedFirst
<1> SUFFICES ASSUME Init
             PROVE  TypeOK /\ LoadedFirst
  OBVIOUS
<1>1. updates \in [Users -> Nat] /\ job \in [Actors -> Job \cup {NoJob}]
  BY DEF Init
<1>2. \A a \in Actors : job[a] = NoJob
  BY DEF Init
<1>3. QED
  BY <1>1, <1>2 DEF Init, TypeOK, LoadedFirst, At

LEMMA ChangeTypes ==
    ASSUME TypeOK, LoadedFirst, Change \/ ListJoinRequests \/ RecheckList
                                \/ RecheckRound \/ RecheckListFails \/ (\E u \in Users : Ask(u))
    PROVE  TypeOK' /\ LoadedFirst'
<1>1. CASE Change
  <2>1. /\ open' \subseteq Users /\ members' \subseteq Users /\ entitled' \subseteq Users
        /\ mode' \in Modes /\ stale' \subseteq Users
        /\ ignored' = ignored /\ crossed' = crossed /\ unkept' = unkept
    BY <1>1 DEF Change, Outside, Entitle, SetMode, TypeOK, history
  <2>2. changes' \in Nat
    BY <1>1 DEF Change, TypeOK
  <2>3. QED
    BY <1>1, <2>1, <2>2 DEF Change, TypeOK, LoadedFirst, lists, round, At
<1>2. CASE ListJoinRequests
  BY <1>2, LoadedType DEF ListJoinRequests, TypeOK, LoadedFirst, chat, round, bounds, history, At
<1>3. CASE RecheckList
  <2>1. Loaded \subseteq Users /\ Loaded # NotLoaded
    BY LoadedType
  <2>2. due' \subseteq Users /\ listing' \in BOOLEAN /\ crossed' \subseteq Users
    BY <1>3, <2>1 DEF RecheckList, Copy, TypeOK
  <2>3. QED
    BY <1>3, <2>1, <2>2 DEF RecheckList, Copy, TypeOK, LoadedFirst, chat, bounds, At
<1>4. CASE \E u \in Users : Ask(u)
  BY <1>4 DEF Ask, TypeOK, LoadedFirst, lists, round, history, At
<1>5. CASE RecheckRound
  BY <1>5 DEF RecheckRound, TypeOK, LoadedFirst, chat, lists, bounds, history, At
<1>6. CASE RecheckListFails
  <2>1. failures \in Nat /\ failures' = failures + 1
    BY <1>6 DEF RecheckListFails, Fails, TypeOK
  <2>2. failures' \in Nat
    BY <2>1
  <2>3. listing' = FALSE
    BY <1>6 DEF RecheckListFails
  <2>4. QED
    BY <1>6, <2>2, <2>3 DEF RecheckListFails, TypeOK, LoadedFirst, chat, lists, history, At
<1>7. QED
  BY <1>1, <1>2, <1>3, <1>4, <1>5, <1>6

LEMMA HandlerTypes ==
    ASSUME TypeOK, LoadedFirst, NEW u \in Users, JoinRequestHandler(u)
    PROVE  TypeOK' /\ LoadedFirst'
<1>1. updates' \in [Users -> Nat] /\ ignored' \subseteq Users
  BY DEF JoinRequestHandler, TypeOK
<1>2. CASE UNCHANGED <<job, crossed>>
  BY <1>1, <1>2 DEF JoinRequestHandler, TypeOK, LoadedFirst, chat, lists, round, bounds, At
<1>3. CASE Begin(Bot, [at |-> "check", user |-> u, auto |-> mode = "auto", approve |-> TRUE])
  <2>1. [at |-> "check", user |-> u, auto |-> mode = "auto", approve |-> TRUE] \in Job
    BY DEF Job, Stages
  <2>2. /\ job' \in [Actors -> Job \cup {NoJob}] /\ job'[Bot].at = "check"
        /\ \A b \in Actors : b # Bot => job'[b] = job[b]
        /\ crossed' \subseteq Users
    BY <1>3, <2>1, ActorsAre, BeginType
  <2>3. QED
    BY <1>1, <2>2, ActorsAre DEF JoinRequestHandler, TypeOK, LoadedFirst, chat, lists, round, bounds, At
<1>4. QED
  BY <1>2, <1>3 DEF JoinRequestHandler

\* The loop or a manager takes a request up.
Starts(u) ==
    \E a \in Actors, j \in Job :
        /\ a # Bot /\ Begin(a, j) /\ j.user = u /\ j.at \in {"check", "resolve"}
        /\ \/ a = Loop /\ u \in due /\ due' = due \ {u} /\ memory' = memory
           \/ a # Loop /\ u \in Loaded /\ due' = due /\ memory' = Loaded

LEMMA ManagerTypes ==
    ASSUME TypeOK, LoadedFirst, NEW u \in Users,
           \/ RecheckNext(u)
           \/ \E m \in Managers : RecheckJoinRequest(m, u)
           \/ \E m \in Managers, approve \in BOOLEAN : ResolveJoinRequest(m, u, approve)
    PROVE  /\ TypeOK' /\ LoadedFirst'
           /\ Starts(u)
           /\ UNCHANGED <<chat, updates, storage, bounds, ignored, unkept, stale>>
<1>1. Starts(u)
  <2>1. CASE RecheckNext(u)
    <3>1. [at |-> "check", user |-> u, auto |-> dueAuto, approve |-> TRUE] \in Job
      BY DEF Job, Stages, TypeOK
    <3>2. QED
      BY <2>1, <3>1, ActorsAre DEF RecheckNext, lists, Starts
  <2>2. ASSUME NEW m \in Managers, RecheckJoinRequest(m, u)
        PROVE  Starts(u)
    <3>1. [at |-> "check", user |-> u, auto |-> mode = "auto", approve |-> TRUE] \in Job
      BY DEF Job, Stages
    <3>2. m \in Actors /\ m # Loop /\ m # Bot
      BY JoinAssumption DEF Actors
    <3>3. QED
      BY <2>2, <3>1, <3>2 DEF RecheckJoinRequest, round, Starts
  <2>3. ASSUME NEW m \in Managers, NEW approve \in BOOLEAN, ResolveJoinRequest(m, u, approve)
        PROVE  Starts(u)
    <3>1. [at |-> "resolve", user |-> u, auto |-> FALSE, approve |-> approve] \in Job
      BY DEF Job, Stages
    <3>2. m \in Actors /\ m # Loop /\ m # Bot
      BY JoinAssumption DEF Actors
    <3>3. QED
      BY <2>3, <3>1, <3>2 DEF ResolveJoinRequest, round, Starts
  <2>4. QED
    BY <2>1, <2>2, <2>3
<1>2. UNCHANGED <<chat, updates, storage, bounds, ignored, unkept, stale>>
  BY DEF RecheckNext, RecheckJoinRequest, ResolveJoinRequest, lists, round
<1>3. PICK a \in Actors, j \in Job :
          /\ a # Bot /\ Begin(a, j) /\ j.user = u /\ j.at \in {"check", "resolve"}
          /\ \/ a = Loop /\ u \in due /\ due' = due \ {u} /\ memory' = memory
             \/ a # Loop /\ u \in Loaded /\ due' = due /\ memory' = Loaded
  BY <1>1 DEF Starts
<1>4. /\ job' \in [Actors -> Job \cup {NoJob}] /\ job'[a] = j
      /\ \A b \in Actors : b # a => job'[b] = job[b]
      /\ crossed' \subseteq Users
  BY <1>3, BeginType
<1>5. memory' # NotLoaded /\ memory' \subseteq Users /\ (memory # NotLoaded => memory' = memory)
  BY <1>3, LoadedType DEF LoadedFirst, TypeOK, Loaded
<1>6. dueAuto' \in BOOLEAN /\ listing' \in BOOLEAN
  BY DEF RecheckNext, RecheckJoinRequest, ResolveJoinRequest, lists, round, TypeOK
<1>7. TypeOK'
  BY <1>2, <1>3, <1>4, <1>5, <1>6 DEF TypeOK, chat, bounds, At
<1>8. LoadedFirst'
  BY <1>5 DEF LoadedFirst
<1>9. QED
  BY <1>1, <1>2, <1>7, <1>8

\* Actor a alone steps; its job ends, or goes on to stage s.
Goes(a, s) ==
    /\ \A b \in Actors : b # a => job'[b] = job[b]
    /\ job'[a] = NoJob \/ (job'[a] # NoJob /\ job'[a].at = s /\ job'[a].user = job[a].user)

LEMMA JobTypes ==
    ASSUME TypeOK, LoadedFirst, NEW a \in Actors, job[a] # NoJob, NEW s \in Stages,
           GoTo(a, s) \/ Finish(a),
           memory' # NotLoaded => memory' \subseteq Users,
           memory # NotLoaded => memory' # NotLoaded,
           s \in {"putStore", "putMemory"} => memory' # NotLoaded,
           due' = due
    PROVE  /\ job' \in [Actors -> Job \cup {NoJob}] /\ LoadedFirst' /\ Goes(a, s)
           /\ GoTo(a, s) => job'[a] # NoJob
           /\ \A b \in Actors : (At(b, "putStore") \/ At(b, "putMemory"))' => memory' # NotLoaded
<1>1. /\ job' \in [Actors -> Job \cup {NoJob}] /\ Goes(a, s)
      /\ GoTo(a, s) => job'[a] # NoJob
  BY GoToType, FinishType DEF Goes
<1>2. \A b \in Actors : (At(b, "putStore") \/ At(b, "putMemory"))' => memory' # NotLoaded
  BY <1>1 DEF Goes, TypeOK, At
<1>3. LoadedFirst'
  BY <1>1 DEF Goes, LoadedFirst
<1>4. QED
  BY <1>1, <1>2, <1>3

LEMMA MemoryType ==
    ASSUME TypeOK, NEW u \in Users
    PROVE  /\ memory # NotLoaded =>
                 /\ memory \ {u} \subseteq Users /\ memory \ {u} # NotLoaded
                 /\ memory \cup {u} \subseteq Users /\ memory \cup {u} # NotLoaded
           /\ Loaded \subseteq Users /\ Loaded # NotLoaded
           /\ memory # NotLoaded => Loaded = memory
BY JoinAssumption DEF TypeOK, Loaded

\* A job goes on to a stage that writes to the list only once there is one.
Proceeds(a) ==
    \E s \in Stages : /\ GoTo(a, s) \/ Finish(a)
                      /\ s \in {"putStore", "putMemory"} => memory' # NotLoaded

LEMMA StepTypes ==
    ASSUME TypeOK, LoadedFirst, NEW a \in Actors, JobStep(a)
    PROVE  /\ TypeOK' /\ LoadedFirst' /\ job[a] # NoJob
           /\ \E s \in Stages : Goes(a, s)
<1>1. job[a] # NoJob
  BY DEF JobStep, Check, Resolve, DropStore, DropMemory, Put, PutStore, PutMemory, At
<1>2. job[a].user \in Users
  BY <1>1, JobType
<1>3. Proceeds(a)
  <2>1. Put(a) => memory' # NotLoaded
    BY LoadedType DEF Put
  <2>2. PutStore(a) => memory' # NotLoaded
    BY DEF PutStore, TypeOK
  <2>3. Check(a) => \E s \in {"resolve", "put"} : GoTo(a, s)
    BY DEF Check
  <2>4. /\ Put(a) => GoTo(a, "putStore")
        /\ PutStore(a) => GoTo(a, "putMemory")
        /\ Resolve(a) => GoTo(a, "dropStore")
        /\ DropStore(a) => GoTo(a, "dropMemory")
        /\ DropMemory(a) \/ PutMemory(a) => Finish(a)
    BY DEF Resolve, DropStore, DropMemory, Put, PutStore, PutMemory
  <2>5. {"putStore", "putMemory", "dropStore", "dropMemory", "resolve", "put"} \subseteq Stages
    BY DEF Stages
  <2>6. CASE Put(a) \/ PutStore(a)
    BY <2>1, <2>2, <2>4, <2>5, <2>6 DEF Proceeds
  <2>7. CASE Resolve(a) \/ DropStore(a) \/ Check(a)
    BY <2>3, <2>4, <2>5, <2>7 DEF Proceeds
  <2>8. CASE DropMemory(a) \/ PutMemory(a)
    BY <2>4, <2>5, <2>8 DEF Proceeds
  <2>9. QED
    BY <2>6, <2>7, <2>8 DEF JobStep
<1>4. /\ memory' # NotLoaded => memory' \subseteq Users
      /\ memory # NotLoaded => memory' # NotLoaded
  BY <1>1, <1>2, MemoryType
     DEF JobStep, Check, Resolve, DropStore, DropMemory, Put, PutStore, PutMemory, lists, TypeOK
<1>5. /\ storage' \subseteq Users /\ due' = due /\ dueAuto' = dueAuto /\ listing' = listing /\ updates' = updates
      /\ mode' = mode /\ entitled' = entitled /\ bounds' = bounds /\ history' = history
  BY <1>2 DEF JobStep, Check, Resolve, DropStore, DropMemory, Put, PutStore, PutMemory,
              lists, round, chat, TypeOK
<1>6. open' \subseteq Users /\ members' \subseteq Users
  <2>1. CASE Resolve(a)
    BY <1>2, <2>1 DEF Resolve, Answered, TypeOK
  <2>2. CASE UNCHANGED chat
    BY <2>2 DEF chat, TypeOK
  <2>3. QED
    BY <2>1, <2>2 DEF JobStep, Check, DropStore, DropMemory, Put, PutStore, PutMemory
<1>7. PICK s \in Stages : /\ GoTo(a, s) \/ Finish(a)
                          /\ s \in {"putStore", "putMemory"} => memory' # NotLoaded
  BY <1>3 DEF Proceeds
<1>8. /\ job' \in [Actors -> Job \cup {NoJob}] /\ LoadedFirst' /\ Goes(a, s)
      /\ \A b \in Actors : (At(b, "putStore") \/ At(b, "putMemory"))' => memory' # NotLoaded
  BY <1>1, <1>4, <1>5, <1>7, JobTypes
<1>9. TypeOK'
  BY <1>4, <1>5, <1>6, <1>8 DEF TypeOK, bounds, history
<1>10. QED
  BY <1>1, <1>8, <1>9

LEMMA FailureTypes ==
    ASSUME TypeOK, LoadedFirst, NEW a \in Actors, JobFailure(a)
    PROVE  /\ TypeOK' /\ LoadedFirst' /\ job[a] # NoJob
           /\ \E s \in Stages : Goes(a, s)
<1>1. job[a] # NoJob
  BY DEF JobFailure, CheckFails, ResolveFails, DropStoreFails, PutFails, At
<1>2. job[a].user \in Users
  BY <1>1, JobType
<1>3. \E s \in Stages \ {"putStore", "putMemory"} : GoTo(a, s) \/ Finish(a)
  BY DEF JobFailure, CheckFails, ResolveFails, DropStoreFails, PutFails, Stages
<1>4. memory' = memory /\ due' = due /\ dueAuto' = dueAuto /\ listing' = listing /\ updates' = updates
      /\ mode' = mode /\ entitled' = entitled
  BY DEF JobFailure, CheckFails, ResolveFails, DropStoreFails, PutFails, lists, round, chat
<1>5. /\ failures' \in Nat /\ asks' = asks /\ changes' = changes /\ restarts' = restarts
  BY DEF JobFailure, CheckFails, ResolveFails, DropStoreFails, PutFails, Fails, TypeOK
<1>6. /\ ignored' = ignored /\ crossed' = crossed /\ unkept' \subseteq Users /\ stale' \subseteq Users
  BY <1>2 DEF JobFailure, CheckFails, ResolveFails, DropStoreFails, PutFails, history, TypeOK
<1>7. storage' \subseteq Users
  BY <1>2 DEF JobFailure, CheckFails, ResolveFails, DropStoreFails, PutFails, lists, TypeOK
<1>8. open' \subseteq Users /\ members' \subseteq Users
  <2>1. CASE ResolveFails(a)
    BY <1>2, <2>1 DEF ResolveFails, Answered, TypeOK
  <2>2. CASE UNCHANGED chat
    BY <2>2 DEF chat, TypeOK
  <2>3. QED
    BY <2>1, <2>2 DEF JobFailure, CheckFails, DropStoreFails, PutFails
<1>9. PICK s \in Stages \ {"putStore", "putMemory"} : GoTo(a, s) \/ Finish(a)
  BY <1>3
<1>10. /\ job' \in [Actors -> Job \cup {NoJob}] /\ LoadedFirst' /\ Goes(a, s)
       /\ \A b \in Actors : (At(b, "putStore") \/ At(b, "putMemory"))' => memory' # NotLoaded
  <2>1. memory' # NotLoaded => memory' \subseteq Users
    BY <1>4 DEF TypeOK
  <2>2. QED
    BY <1>1, <1>4, <1>9, <2>1, JobTypes
<1>11. TypeOK'
  BY <1>4, <1>5, <1>6, <1>7, <1>8, <1>10 DEF TypeOK
<1>12. QED
  BY <1>1, <1>10, <1>11

LEMMA RestartTypes ==
    ASSUME TypeOK, Restart
    PROVE  TypeOK' /\ LoadedFirst'
<1>1. updates' \in [Users -> Nat]
  BY JoinAssumption DEF Restart
<1>2. job' \in [Actors -> Job \cup {NoJob}] /\ \A a \in Actors : job'[a] = NoJob
  BY DEF Restart
<1>3. unkept' \subseteq Users /\ stale' \subseteq Users
  BY DEF Restart, TypeOK
<1>4. /\ memory' = NotLoaded /\ due' = {} /\ dueAuto' = FALSE /\ listing' = FALSE /\ restarts' \in Nat
      /\ open' = open /\ members' = members /\ entitled' = entitled /\ mode' = mode
      /\ storage' = storage /\ asks' = asks /\ changes' = changes /\ failures' = failures
      /\ ignored' = ignored /\ crossed' = crossed
  BY DEF Restart, TypeOK, chat
<1>5. LoadedFirst'
  BY <1>2, <1>4 DEF LoadedFirst
<1>6. TypeOK'
  BY <1>1, <1>2, <1>3, <1>4 DEF TypeOK, At
<1>7. QED
  BY <1>5, <1>6

-----------------------------------------------------------------------------
(* User by user. *)

\* The histories of u grow.
Remembers(u) ==
    /\ u \in crossed => u \in crossed'
    /\ u \in stale => u \in stale'
    /\ u \in ignored => u \in ignored'
    /\ u \in unkept => u \in unkept'

\* Nothing a step does to the lists and the chat is about u.
SameFor(u) ==
    /\ u \in open' <=> u \in open
    /\ updates'[u] = updates[u]
    /\ u \in storage' <=> u \in storage
    /\ Listed(u)' => Listed(u)
    /\ Held(u) => Held(u)'
    /\ u \in due' => u \in due

LEMMA Untouched ==
    ASSUME NEW u \in Users, UserOK(u), SameFor(u), Remembers(u),
           \A b \in Actors : Busy(b, u) \/ Busy(b, u)' => job'[b] = job[b]
    PROVE  UserOK(u)'
<1>1. \A b \in Actors : /\ Busy(b, u)' <=> Busy(b, u)
                        /\ BusyAt(b, u, Dropping)' <=> BusyAt(b, u, Dropping)
                        /\ BusyAt(b, u, Keeping)' <=> BusyAt(b, u, Keeping)
                        /\ BusyAt(b, u, {"dropMemory"})' <=> BusyAt(b, u, {"dropMemory"})
                        /\ BusyAt(b, u, {"putMemory"})' <=> BusyAt(b, u, {"putMemory"})
                        /\ BusyAt(b, u, {"check", "resolve", "put", "putStore"})'
                              <=> BusyAt(b, u, {"check", "resolve", "put", "putStore"})
  BY DEF Busy, BusyAt, Dropping, Keeping
<1>2. OneWorks(u)'
  BY <1>1 DEF UserOK, OneWorks, SameFor, Remembers
<1>3. ListedIsOpen(u)'
  <2> SUFFICES ASSUME u \notin (crossed \cup stale)'
               PROVE  ListedIsOpen(u)'
    BY DEF ListedIsOpen
  <2>1. u \notin crossed \cup stale
    BY DEF Remembers
  <2>2. QED
    BY <1>1, <2>1 DEF UserOK, ListedIsOpen, SameFor
<1>4. OpenIsSeen(u)'
  <2> SUFFICES ASSUME u \in open', u \notin ignored', u \notin crossed', u \notin unkept'
               PROVE  OpenIsSeen(u)'
    BY DEF OpenIsSeen
  <2>1. u \in open \ (ignored \cup crossed \cup unkept)
    BY DEF Remembers, SameFor
  <2>2. QED
    BY <1>1, <2>1, ActorsAre DEF UserOK, OpenIsSeen, SameFor
<1>5. QED
  BY <1>2, <1>3, <1>4 DEF UserOK

\* Loading the list changes nothing it says.
LEMMA LoadingKeeps ==
    ASSUME TypeOK, NEW u \in Users, storage' = storage, memory' = memory \/ memory' = Loaded
    PROVE  (Listed(u)' <=> Listed(u)) /\ (Held(u)' <=> Held(u))
BY LoadedType DEF Listed, Held, Loaded

\* The lists at a user no step is about.
LEMMA ListsOfOthers ==
    ASSUME TypeOK, NEW u \in Users, NEW v \in Users, v # u,
           \/ storage' = storage
           \/ storage' = storage \cup {v} \/ storage' = storage \ {v},
           \/ memory' = memory
           \/ memory # NotLoaded /\ (memory' = memory \cup {v} \/ memory' = memory \ {v})
    PROVE  /\ u \in storage' <=> u \in storage
           /\ Listed(u)' <=> Listed(u)
           /\ Held(u)' <=> Held(u)
<1>1. memory # NotLoaded => memory \cup {v} # NotLoaded /\ memory \ {v} # NotLoaded
  BY MemoryType
<1>2. QED
  BY <1>1 DEF Listed, Held, Loaded

\* A job that steps is, to whoever was not crossed, the only one.
LEMMA OneStep ==
    ASSUME TypeOK, NEW u \in Users, UserOK(u), NEW a \in Actors, Busy(a, u),
           NEW s \in Stages, Goes(a, s), crossed' = crossed, due' = due
    PROVE  /\ OneWorks(u)'
           /\ u \notin crossed =>
                 /\ u \notin due
                 /\ \A b \in Actors : b # a => ~Busy(b, u) /\ ~Busy(b, u)'
           /\ Busy(a, u)' <=> job'[a] # NoJob
           /\ job'[a] # NoJob => job'[a].at = s
<1>1. \A b \in Actors : Busy(b, u)' => Busy(b, u)
  BY DEF Goes, Busy
<1>2. OneWorks(u)'
  BY <1>1 DEF UserOK, OneWorks
<1>3. u \notin crossed => u \notin due /\ \A b \in Actors : b # a => ~Busy(b, u)
  BY DEF UserOK, OneWorks
<1>4. QED
  BY <1>1, <1>2, <1>3 DEF Goes, Busy

LEMMA StepKeeps ==
    ASSUME TypeOK, LoadedFirst, NEW u \in Users, UserOK(u), NEW a \in Actors, JobStep(a), Busy(a, u)
    PROVE  UserOK(u)'
<1>1. job[a] # NoJob /\ job[a].user = u /\ job[a].at \in Stages
  BY JobType DEF Busy
<1>2. /\ crossed' = crossed /\ due' = due /\ updates' = updates /\ ignored' = ignored
      /\ stale' = stale /\ unkept' = unkept
  BY DEF JobStep, Check, Resolve, DropStore, DropMemory, Put, PutStore, PutMemory, lists, round, history
<1>3. \A s \in Stages : GoTo(a, s) => Goes(a, s) /\ job'[a] # NoJob
  BY <1>1, GoToType DEF Goes
<1>4. Finish(a) => job'[a] = NoJob /\ Goes(a, "check")
  BY FinishType DEF Goes
<1>5. "check" \in Stages /\ "put" \in Stages /\ "resolve" \in Stages /\ "putStore" \in Stages
      /\ "putMemory" \in Stages /\ "dropStore" \in Stages /\ "dropMemory" \in Stages
  BY DEF Stages
<1>6. ASSUME NEW s \in Stages, Goes(a, s), ListedIsOpen(u)' \/ u \in crossed,
             OpenIsSeen(u)' \/ u \in crossed
      PROVE  UserOK(u)'
  BY <1>2, <1>6, OneStep DEF UserOK, ListedIsOpen, OpenIsSeen
<1>7. CASE Check(a)
  <2>1. PICK s \in {"resolve", "put"} : GoTo(a, s)
    BY <1>7 DEF Check
  <2>2. /\ Goes(a, s) /\ job'[a] # NoJob /\ s \in Stages
    BY <1>3, <1>5, <2>1
  <2>3. /\ open' = open /\ storage' = storage /\ memory' = memory /\ job[a].at = "check"
    BY <1>7 DEF Check, At, chat, lists
  <2>4. (Listed(u)' <=> Listed(u)) /\ (Held(u)' <=> Held(u))
    BY <2>3, LoadingKeeps
  <2>5. ListedIsOpen(u)' \/ u \in crossed
    BY <1>1, <1>2, <2>2, <2>3, <2>4, OneStep DEF ListedIsOpen, UserOK, BusyAt, Keeping, Dropping
  <2>6. OpenIsSeen(u)' \/ u \in crossed
    BY <1>1, <1>2, <2>2, <2>3, <2>4, OneStep, ActorsAre DEF OpenIsSeen, UserOK, BusyAt, Dropping
  <2>7. QED
    BY <1>6, <2>2, <2>5, <2>6
<1>8. CASE Resolve(a)
  <2>1. Goes(a, "dropStore") /\ job'[a] # NoJob
    BY <1>3, <1>5, <1>8 DEF Resolve
  <2>2. u \notin open' /\ storage' = storage /\ memory' = memory /\ job[a].at = "resolve"
    BY <1>1, <1>8 DEF Resolve, Answered, At, lists
  <2>3. (Listed(u)' <=> Listed(u)) /\ (Held(u)' <=> Held(u))
    BY <2>2, LoadingKeeps
  <2>4. ListedIsOpen(u)' \/ u \in crossed
    BY <1>1, <1>2, <1>5, <2>1, <2>2, <2>3, OneStep DEF ListedIsOpen, UserOK, BusyAt, Keeping, Dropping
  <2>5. OpenIsSeen(u)'
    BY <2>2 DEF OpenIsSeen
  <2>6. QED
    BY <1>5, <1>6, <2>1, <2>4, <2>5
<1>9. CASE DropStore(a)
  <2>1. Goes(a, "dropMemory") /\ job'[a] # NoJob
    BY <1>3, <1>5, <1>9 DEF DropStore
  <2>2. /\ open' = open /\ storage' = storage \ {u} /\ memory' = memory /\ job[a].at = "dropStore"
    BY <1>1, <1>9 DEF DropStore, At, chat
  <2>3. Listed(u)' => Listed(u)
    BY <2>2 DEF Listed, Loaded
  <2>4. ListedIsOpen(u)' \/ u \in crossed
    BY <1>1, <1>2, <1>5, <2>1, <2>2, <2>3, OneStep DEF ListedIsOpen, UserOK, BusyAt, Keeping, Dropping
  <2>5. OpenIsSeen(u)' \/ u \in crossed
    BY <1>1, <1>2, <1>5, <2>1, <2>2, OneStep, ActorsAre DEF OpenIsSeen, UserOK, BusyAt, Dropping
  <2>6. QED
    BY <1>5, <1>6, <2>1, <2>4, <2>5
<1>10. CASE DropMemory(a)
  <2>1. Goes(a, "check") /\ job'[a] = NoJob
    BY <1>4, <1>10 DEF DropMemory
  <2>2. /\ open' = open /\ storage' = storage /\ job[a].at = "dropMemory"
        /\ memory' = IF memory = NotLoaded THEN memory ELSE memory \ {u}
    BY <1>1, <1>10 DEF DropMemory, At, chat
  <2>3. Listed(u)' => u \in storage
    BY <2>2, MemoryType DEF Listed, Loaded
  <2>4. ListedIsOpen(u)' \/ u \in crossed
    BY <1>1, <1>2, <1>5, <2>1, <2>2, <2>3, OneStep DEF ListedIsOpen, UserOK, BusyAt, Keeping, Dropping
  <2>5. OpenIsSeen(u)' \/ u \in crossed
    BY <1>1, <1>2, <1>5, <2>1, <2>2, OneStep, ActorsAre DEF OpenIsSeen, UserOK, BusyAt, Dropping
  <2>6. QED
    BY <1>5, <1>6, <2>1, <2>4, <2>5
<1>11. CASE Put(a)
  <2>1. Goes(a, "putStore") /\ job'[a] # NoJob
    BY <1>3, <1>5, <1>11 DEF Put
  <2>2. /\ open' = open /\ storage' = storage /\ memory' = Loaded /\ job[a].at = "put"
    BY <1>11 DEF Put, At, chat
  <2>3. (Listed(u)' <=> Listed(u)) /\ (Held(u)' <=> Held(u))
    BY <2>2, LoadingKeeps
  <2>4. ListedIsOpen(u)' \/ u \in crossed
    BY <1>1, <1>2, <1>5, <2>1, <2>2, <2>3, OneStep DEF ListedIsOpen, UserOK, BusyAt, Keeping, Dropping
  <2>5. OpenIsSeen(u)' \/ u \in crossed
    BY <1>1, <1>2, <1>5, <2>1, <2>2, <2>3, OneStep, ActorsAre DEF OpenIsSeen, UserOK, BusyAt, Dropping
  <2>6. QED
    BY <1>5, <1>6, <2>1, <2>4, <2>5
<1>12. CASE PutStore(a)
  <2>1. Goes(a, "putMemory") /\ job'[a] # NoJob
    BY <1>3, <1>5, <1>12 DEF PutStore
  <2>2. /\ open' = open /\ storage' = storage \cup {u} /\ memory' = memory /\ job[a].at = "putStore"
    BY <1>1, <1>12 DEF PutStore, At, chat
  <2>3. Held(u) => Held(u)'
    BY <2>2 DEF Held
  <2>4. ListedIsOpen(u)' \/ u \in crossed
    BY <1>1, <1>2, <1>5, <2>1, <2>2, OneStep DEF ListedIsOpen, UserOK, BusyAt, Keeping, Dropping
  <2>5. OpenIsSeen(u)' \/ u \in crossed
    BY <1>1, <1>2, <1>5, <2>1, <2>2, <2>3, OneStep, ActorsAre DEF OpenIsSeen, UserOK, BusyAt, Dropping
  <2>6. QED
    BY <1>5, <1>6, <2>1, <2>4, <2>5
<1>13. CASE PutMemory(a)
  <2>1. Goes(a, "check") /\ job'[a] = NoJob
    BY <1>4, <1>13 DEF PutMemory
  <2>2. /\ open' = open /\ storage' = storage /\ memory' = memory \cup {u} /\ job[a].at = "putMemory"
    BY <1>1, <1>13 DEF PutMemory, At, chat
  <2>3. u \in storage => Held(u)'
    BY <2>2 DEF Held
  <2>4. Held(u) => u \in storage
    BY DEF Held
  <2>5. ListedIsOpen(u)' \/ u \in crossed
    BY <1>1, <1>2, <1>5, <2>1, <2>2, OneStep DEF ListedIsOpen, UserOK, BusyAt, Keeping, Dropping
  <2>6. OpenIsSeen(u)' \/ u \in crossed
    BY <1>1, <1>2, <1>5, <2>1, <2>2, <2>3, <2>4, OneStep, ActorsAre
       DEF OpenIsSeen, UserOK, BusyAt, Dropping
  <2>7. QED
    BY <1>5, <1>6, <2>1, <2>5, <2>6
<1>14. QED
  BY <1>7, <1>8, <1>9, <1>10, <1>11, <1>12, <1>13 DEF JobStep

LEMMA FailureKeeps ==
    ASSUME TypeOK, LoadedFirst, NEW u \in Users, UserOK(u), NEW a \in Actors, JobFailure(a), Busy(a, u)
    PROVE  UserOK(u)'
<1>1. job[a] # NoJob /\ job[a].user = u /\ job[a].at \in Stages
  BY JobType DEF Busy
<1>2. /\ crossed' = crossed /\ due' = due /\ updates' = updates /\ ignored' = ignored
      /\ memory' = memory /\ (u \in stale => u \in stale') /\ (u \in unkept => u \in unkept')
  BY DEF JobFailure, CheckFails, ResolveFails, DropStoreFails, PutFails, lists, round, history
<1>3. \A s \in Stages : GoTo(a, s) => Goes(a, s) /\ job'[a] # NoJob
  BY <1>1, GoToType DEF Goes
<1>4. Finish(a) => job'[a] = NoJob /\ Goes(a, "put")
  BY FinishType DEF Goes
<1>5. "check" \in Stages /\ "put" \in Stages /\ "resolve" \in Stages /\ "putStore" \in Stages
      /\ "putMemory" \in Stages /\ "dropStore" \in Stages /\ "dropMemory" \in Stages
  BY DEF Stages
<1>6. ASSUME NEW s \in Stages, Goes(a, s), ListedIsOpen(u)' \/ u \in crossed,
             OpenIsSeen(u)' \/ u \in crossed
      PROVE  UserOK(u)'
  BY <1>2, <1>6, OneStep DEF UserOK, ListedIsOpen, OpenIsSeen
<1>7. CASE CheckFails(a)
  <2>1. Goes(a, "put") /\ job'[a] # NoJob
    BY <1>3, <1>5, <1>7 DEF CheckFails
  <2>2. /\ open' = open /\ storage' = storage /\ job[a].at = "check"
        /\ stale' = stale /\ unkept' = unkept
    BY <1>7 DEF CheckFails, At, chat, lists, history
  <2>3. (Listed(u)' <=> Listed(u)) /\ (Held(u)' <=> Held(u))
    BY <1>2, <2>2, LoadingKeeps
  <2>4. ListedIsOpen(u)' \/ u \in crossed
    BY <1>1, <1>2, <1>5, <2>1, <2>2, <2>3, OneStep DEF ListedIsOpen, UserOK, BusyAt, Keeping, Dropping
  <2>5. OpenIsSeen(u)' \/ u \in crossed
    BY <1>1, <1>2, <1>5, <2>1, <2>2, <2>3, OneStep, ActorsAre DEF OpenIsSeen, UserOK, BusyAt, Dropping
  <2>6. QED
    BY <1>5, <1>6, <2>1, <2>4, <2>5
<1>8. CASE ResolveFails(a)
  <2>1. Goes(a, "put") /\ (a = Bot => job'[a] # NoJob)
    BY <1>3, <1>4, <1>5, <1>8, ActorsAre DEF ResolveFails
  <2>2. /\ open' = open \/ (u \notin open' /\ u \in stale')
        /\ storage' = storage /\ job[a].at = "resolve" /\ unkept' = unkept
    BY <1>1, <1>8 DEF ResolveFails, Answered, At, lists
  <2>3. (Listed(u)' <=> Listed(u)) /\ (Held(u)' <=> Held(u))
    BY <1>2, <2>2, LoadingKeeps
  <2>4. ListedIsOpen(u)' \/ u \in crossed
    <3>1. CASE u \in stale'
      BY <3>1 DEF ListedIsOpen
    <3>2. CASE u \notin stale' /\ open' = open
      BY <1>1, <1>2, <1>5, <2>1, <2>2, <2>3, <3>2, OneStep
         DEF ListedIsOpen, UserOK, BusyAt, Keeping, Dropping
    <3>3. QED
      BY <2>2, <3>1, <3>2
  <2>5. OpenIsSeen(u)' \/ u \in crossed
    BY <1>1, <1>2, <1>5, <2>1, <2>2, <2>3, OneStep, ActorsAre DEF OpenIsSeen, UserOK, BusyAt, Dropping
  <2>6. QED
    BY <1>5, <1>6, <2>1, <2>4, <2>5
<1>9. CASE DropStoreFails(a)
  <2>1. Goes(a, "dropMemory") /\ job'[a] # NoJob
    BY <1>3, <1>5, <1>9 DEF DropStoreFails
  <2>2. /\ open' = open /\ u \in stale' /\ job[a].at = "dropStore"
        /\ storage' = storage /\ unkept' = unkept
    BY <1>1, <1>9 DEF DropStoreFails, At, chat, lists
  <2>3. ListedIsOpen(u)'
    BY <2>2 DEF ListedIsOpen
  <2>4. (Listed(u)' <=> Listed(u)) /\ (Held(u)' <=> Held(u))
    BY <1>2, <2>2, LoadingKeeps
  <2>5. OpenIsSeen(u)' \/ u \in crossed
    BY <1>1, <1>2, <1>5, <2>1, <2>2, <2>4, OneStep, ActorsAre DEF OpenIsSeen, UserOK, BusyAt, Dropping
  <2>6. QED
    BY <1>5, <1>6, <2>1, <2>3, <2>5
<1>10. CASE PutFails(a)
  <2>1. Goes(a, "put") /\ job'[a] = NoJob
    BY <1>4, <1>10 DEF PutFails
  <2>2. /\ open' = open /\ stale' = stale /\ job[a].at \in {"put", "putStore"}
        /\ storage' = storage \/ storage' = storage \cup {u}
        /\ a = Bot => u \in unkept'
        /\ u \in unkept => u \in unkept'
    BY <1>1, <1>10 DEF PutFails, At, chat, Busy
  <2>3. Held(u) => Held(u)'
    BY <1>2, <2>2 DEF Held
  <2>4. ListedIsOpen(u)' \/ u \in crossed
    BY <1>1, <1>2, <1>5, <2>1, <2>2, OneStep DEF ListedIsOpen, UserOK, BusyAt, Keeping, Dropping
  <2>5. OpenIsSeen(u)' \/ u \in crossed
    BY <1>1, <1>2, <1>5, <2>1, <2>2, <2>3, OneStep, ActorsAre DEF OpenIsSeen, UserOK, BusyAt, Dropping
  <2>6. QED
    BY <1>5, <1>6, <2>1, <2>4, <2>5
<1>11. QED
  BY <1>7, <1>8, <1>9, <1>10 DEF JobFailure

\* A job on another user.
LEMMA OthersKeep ==
    ASSUME TypeOK, NEW u \in Users, UserOK(u), NEW a \in Actors,
           JobStep(a) \/ JobFailure(a), job[a] # NoJob, NEW s \in Stages, Goes(a, s), ~Busy(a, u)
    PROVE  UserOK(u)'
<1> DEFINE v == job[a].user
<1>1. v \in Users /\ v # u
  BY JobType DEF Busy
<1>2. /\ due' = due /\ updates' = updates /\ Remembers(u)
  BY DEF JobStep, Check, Resolve, DropStore, DropMemory, Put, PutStore, PutMemory,
         JobFailure, CheckFails, ResolveFails, DropStoreFails, PutFails,
         lists, round, history, Remembers
<1>3. u \in open' <=> u \in open
  <2>1. CASE UNCHANGED open
    BY <2>1
  <2>2. CASE Answered(a)
    BY <1>1, <2>2 DEF Answered
  <2>3. QED
    BY <2>1, <2>2
       DEF JobStep, Check, Resolve, DropStore, DropMemory, Put, PutStore, PutMemory,
           JobFailure, CheckFails, ResolveFails, DropStoreFails, PutFails, chat
<1>4. /\ u \in storage' <=> u \in storage
      /\ Listed(u)' <=> Listed(u)
      /\ Held(u)' <=> Held(u)
  <2>1. CASE storage' = storage /\ (memory' = memory \/ memory' = Loaded)
    BY <2>1, LoadingKeeps
  <2>2. CASE /\ \/ storage' = storage
                \/ storage' = storage \cup {v} \/ storage' = storage \ {v}
             /\ \/ memory' = memory
                \/ memory # NotLoaded /\ (memory' = memory \cup {v} \/ memory' = memory \ {v})
    BY <1>1, <2>2, ListsOfOthers
  <2>3. At(a, "putMemory") => memory # NotLoaded
    BY DEF TypeOK
  <2>4. CASE JobStep(a)
    BY <2>1, <2>2, <2>3, <2>4
       DEF JobStep, Check, Resolve, DropStore, DropMemory, Put, PutStore, PutMemory, lists
  <2>5. CASE JobFailure(a)
    BY <2>1, <2>2, <2>5 DEF JobFailure, CheckFails, ResolveFails, DropStoreFails, PutFails, lists
  <2>6. QED
    BY <2>4, <2>5
<1>5. SameFor(u)
  BY <1>2, <1>3, <1>4 DEF SameFor
<1>6. \A b \in Actors : Busy(b, u) \/ Busy(b, u)' => job'[b] = job[b]
  BY DEF Goes, Busy
<1>7. QED
  BY <1>2, <1>5, <1>6, Untouched

LEMMA AskKeeps ==
    ASSUME TypeOK, NEW u \in Users, UserOK(u), NEW v \in Users, Ask(v)
    PROVE  UserOK(u)'
<1>1. /\ storage' = storage /\ memory' = memory /\ job' = job /\ due' = due /\ Remembers(u)
      /\ crossed' = crossed /\ stale' = stale
  BY DEF Ask, lists, round, history, Remembers
<1>2. (Listed(u)' <=> Listed(u)) /\ (Held(u)' <=> Held(u))
  BY <1>1, LoadingKeeps
<1>3. CASE v # u
  <2>1. SameFor(u)
    BY <1>1, <1>2, <1>3 DEF SameFor, Ask, TypeOK
  <2>2. QED
    BY <1>1, <2>1, Untouched
<1>4. CASE v = u
  <2>1. u \notin open /\ u \in open' /\ updates'[u] = updates[u] + 1 /\ updates[u] \in Nat
    BY <1>4 DEF Ask, TypeOK
  <2>2. OneWorks(u)'
    BY <1>1 DEF UserOK, OneWorks, Busy
  <2>3. ListedIsOpen(u)'
    BY <1>1, <1>2, <2>1 DEF UserOK, ListedIsOpen, Busy, BusyAt
  <2>4. OpenIsSeen(u)'
    BY <2>1 DEF OpenIsSeen
  <2>5. QED
    BY <2>2, <2>3, <2>4 DEF UserOK
<1>5. QED
  BY <1>3, <1>4

LEMMA ChangeKeeps ==
    ASSUME TypeOK, NEW u \in Users, UserOK(u), Change
    PROVE  UserOK(u)'
<1>1. /\ storage' = storage /\ memory' = memory /\ job' = job /\ due' = due /\ updates' = updates
      /\ crossed' = crossed /\ ignored' = ignored /\ unkept' = unkept
      /\ u \in stale => u \in stale'
  BY DEF Change, Outside, Entitle, SetMode, lists, round, history
<1>2. (Listed(u)' <=> Listed(u)) /\ (Held(u)' <=> Held(u))
  BY <1>1, LoadingKeeps
<1>3. Remembers(u)
  BY <1>1 DEF Remembers
<1>4. CASE u \in open' <=> u \in open
  BY <1>1, <1>2, <1>3, <1>4, Untouched DEF SameFor
<1>5. CASE u \notin open' /\ u \in stale'
  <2>1. OneWorks(u)'
    BY <1>1 DEF UserOK, OneWorks, Busy
  <2>2. QED
    BY <1>5, <2>1 DEF UserOK, ListedIsOpen, OpenIsSeen
<1>6. QED
  BY <1>4, <1>5 DEF Change, Outside, Entitle, SetMode

LEMMA RoundKeeps ==
    ASSUME TypeOK, NEW u \in Users, UserOK(u), RecheckRound \/ RecheckListFails
    PROVE  UserOK(u)'
<1>1. /\ storage' = storage /\ memory' = memory /\ job' = job /\ updates' = updates
      /\ due' = due /\ open' = open /\ crossed' = crossed /\ Remembers(u)
  BY DEF RecheckRound, RecheckListFails, chat, lists, history, Remembers
<1>2. (Listed(u)' <=> Listed(u)) /\ (Held(u)' <=> Held(u))
  BY <1>1, LoadingKeeps
<1>3. SameFor(u)
  BY <1>1, <1>2 DEF SameFor
<1>4. QED
  BY <1>1, <1>3, Untouched

LEMMA ListKeeps ==
    ASSUME TypeOK, NEW u \in Users, UserOK(u), ListJoinRequests \/ RecheckList
    PROVE  UserOK(u)'
<1>1. /\ storage' = storage /\ memory' = Loaded /\ job' = job /\ updates' = updates /\ open' = open
      /\ ignored' = ignored /\ unkept' = unkept /\ stale' = stale /\ Remembers(u)
  BY DEF ListJoinRequests, RecheckList, Copy, chat, round, bounds, history, Remembers
<1>2. (Listed(u)' <=> Listed(u)) /\ (Held(u)' <=> Held(u))
  BY <1>1, LoadingKeeps
<1>3. CASE u \in due' => u \in due
  BY <1>1, <1>2, <1>3, Untouched DEF SameFor
<1>4. CASE u \in due' /\ u \notin due
  <2>1. /\ u \in Loaded
        /\ \A a \in Actors : Busy(a, u) => u \in crossed'
        /\ u \in crossed => u \in crossed'
    BY <1>4 DEF RecheckList, Copy, ListJoinRequests, round
  <2>2. CASE u \in crossed'
    BY <2>2 DEF UserOK, OneWorks, ListedIsOpen, OpenIsSeen
  <2>3. CASE u \notin crossed'
    <3>1. \A a \in Actors : ~Busy(a, u) /\ ~Busy(a, u)'
      BY <1>1, <2>1, <2>3 DEF Busy
    <3>2. OneWorks(u)'
      BY <3>1 DEF OneWorks
    <3>3. ListedIsOpen(u)'
      BY <1>1, <2>1, <2>3, <3>1 DEF UserOK, ListedIsOpen, BusyAt, Listed
    <3>4. OpenIsSeen(u)'
      BY <1>1, <1>2, <2>1, <2>3, <3>1, ActorsAre DEF UserOK, OpenIsSeen, BusyAt
    <3>5. QED
      BY <3>2, <3>3, <3>4 DEF UserOK
  <2>4. QED
    BY <2>2, <2>3
<1>5. QED
  BY <1>3, <1>4

LEMMA HandlerKeeps ==
    ASSUME TypeOK, NEW u \in Users, UserOK(u), NEW v \in Users, JoinRequestHandler(v)
    PROVE  UserOK(u)'
<1> DEFINE j == [at |-> "check", user |-> v, auto |-> mode = "auto", approve |-> TRUE]
<1>1. /\ storage' = storage /\ memory' = memory /\ due' = due /\ open' = open
      /\ unkept' = unkept /\ stale' = stale
  BY DEF JoinRequestHandler, lists, round, chat
<1>2. (Listed(u)' <=> Listed(u)) /\ (Held(u)' <=> Held(u))
  BY <1>1, LoadingKeeps
<1>3. /\ job[Bot] = NoJob
      /\ \A b \in Actors : b # Bot => job'[b] = job[b]
      /\ u \in crossed => u \in crossed'
      /\ \/ job' = job /\ crossed' = crossed /\ ignored' = ignored \cup {v}
         \/ Begin(Bot, j) /\ job'[Bot] = j /\ j # NoJob /\ ignored' = ignored \ {v}
  <2>1. j \in Job
    BY DEF Job, Stages
  <2>2. CASE Begin(Bot, j)
    BY <2>1, <2>2, ActorsAre, BeginType DEF JoinRequestHandler
  <2>3. CASE UNCHANGED <<job, crossed>> /\ mode = "off"
    BY <2>3 DEF JoinRequestHandler, Begin
  <2>4. QED
    BY <2>2, <2>3 DEF JoinRequestHandler
<1>4. CASE v # u
  <2>1. SameFor(u) /\ Remembers(u)
    BY <1>1, <1>2, <1>3, <1>4 DEF SameFor, Remembers, JoinRequestHandler, TypeOK
  <2>2. \A b \in Actors : Busy(b, u) \/ Busy(b, u)' => job'[b] = job[b]
    BY <1>3, <1>4 DEF Busy
  <2>3. QED
    BY <2>1, <2>2, Untouched
<1>5. CASE v = u
  <2>1. updates[u] \in Nat /\ updates[u] > 0 /\ updates'[u] = updates[u] - 1
    BY <1>5 DEF JoinRequestHandler, TypeOK
  <2>2. CASE job' = job /\ crossed' = crossed /\ ignored' = ignored \cup {v}
    <3>1. OneWorks(u)'
      BY <1>1, <2>2 DEF UserOK, OneWorks, Busy
    <3>2. ListedIsOpen(u)'
      BY <1>1, <1>2, <2>1, <2>2 DEF UserOK, ListedIsOpen, Busy, BusyAt
    <3>3. OpenIsSeen(u)'
      BY <1>5, <2>2 DEF OpenIsSeen
    <3>4. QED
      BY <3>1, <3>2, <3>3 DEF UserOK
  <2>3. CASE Begin(Bot, j) /\ job'[Bot] = j /\ j # NoJob /\ u \in crossed'
    BY <2>3 DEF UserOK, OneWorks, ListedIsOpen, OpenIsSeen
  <2>4. CASE Begin(Bot, j) /\ job'[Bot] = j /\ j # NoJob /\ u \notin crossed'
    <3>1. /\ \A b \in Actors : ~Busy(b, u)
          /\ u \notin due /\ u \notin crossed
      <4>1. \A b \in Actors \ {Bot} : ~Busy(b, u)
        BY <1>5, <2>4 DEF Begin
      <4>2. u \notin due /\ u \notin crossed
        BY <1>5, <2>4, ActorsAre DEF Begin
      <4>3. ~Busy(Bot, u)
        BY <1>3 DEF Busy
      <4>4. QED
        BY <4>1, <4>2, <4>3
    <3>2. \A b \in Actors : b # Bot => ~Busy(b, u)'
      BY <1>3, <3>1 DEF Busy
    <3>3. BusyAt(Bot, u, {"check", "resolve", "put", "putStore"})' /\ job'[Bot].at = "check"
      BY <1>5, <2>4 DEF BusyAt, Busy
    <3>4. OneWorks(u)'
      BY <1>1, <3>1, <3>2 DEF OneWorks
    <3>5. ListedIsOpen(u)'
      BY <1>1, <1>2, <2>1, <3>1, <3>2, <3>3 DEF UserOK, ListedIsOpen, BusyAt, Dropping
    <3>6. OpenIsSeen(u)'
      BY <3>2, <3>3 DEF OpenIsSeen, BusyAt, Dropping
    <3>7. QED
      BY <3>4, <3>5, <3>6 DEF UserOK
  <2>5. QED
    BY <1>3, <2>2, <2>3, <2>4
<1>6. QED
  BY <1>4, <1>5

LEMMA StartsKeeps ==
    ASSUME TypeOK, NEW u \in Users, UserOK(u), NEW v \in Users, Starts(v),
           UNCHANGED <<chat, updates, storage, bounds, ignored, unkept, stale>>
    PROVE  UserOK(u)'
<1>1. PICK a \in Actors, j \in Job :
          /\ a # Bot /\ Begin(a, j) /\ j.user = v /\ j.at \in {"check", "resolve"}
          /\ \/ a = Loop /\ v \in due /\ due' = due \ {v} /\ memory' = memory
             \/ a # Loop /\ v \in Loaded /\ due' = due /\ memory' = Loaded
  BY DEF Starts
<1>2. /\ job[a] = NoJob /\ job'[a] = j /\ j # NoJob
      /\ \A b \in Actors : b # a => job'[b] = job[b]
      /\ crossed \subseteq crossed'
  BY <1>1, BeginType
<1>3. /\ storage' = storage /\ updates' = updates /\ open' = open
      /\ ignored' = ignored /\ unkept' = unkept /\ stale' = stale
  BY DEF chat
<1>4. (Listed(u)' <=> Listed(u)) /\ (Held(u)' <=> Held(u))
  BY <1>1, <1>3, LoadingKeeps
<1>5. CASE v # u
  <2>1. SameFor(u) /\ Remembers(u)
    BY <1>1, <1>2, <1>3, <1>4, <1>5 DEF SameFor, Remembers
  <2>2. \A b \in Actors : Busy(b, u) \/ Busy(b, u)' => job'[b] = job[b]
    BY <1>1, <1>2, <1>5 DEF Busy
  <2>3. QED
    BY <2>1, <2>2, Untouched
<1>6. CASE v = u /\ u \in crossed'
  BY <1>6 DEF UserOK, OneWorks, ListedIsOpen, OpenIsSeen
<1>7. CASE v = u /\ u \notin crossed'
  <2>1. /\ u \notin crossed
        /\ a # Loop => u \notin due
        /\ \A b \in Actors \ {a} : ~Busy(b, u)
    BY <1>1, <1>2, <1>7 DEF Begin
  <2>2. ~Busy(a, u)
    BY <1>2 DEF Busy
  <2>3. \A b \in Actors : ~Busy(b, u) /\ (b # a => ~Busy(b, u)')
    BY <1>2, <2>1, <2>2 DEF Busy
  <2>4. job'[a].at \in {"check", "resolve"}
    BY <1>1, <1>2
  <2>5. u \notin due'
    BY <1>1, <1>7, <2>1
  <2>6. OneWorks(u)'
    BY <2>3, <2>5 DEF OneWorks
  <2>7. u \in due \/ Listed(u)
    BY <1>1, <1>7 DEF Listed
  <2>8. ListedIsOpen(u)'
    <3> SUFFICES ASSUME u \notin stale
                 PROVE  ListedIsOpen(u)'
      BY <1>3 DEF ListedIsOpen
    <3>1. u \in open
      BY <2>1, <2>3, <2>7 DEF UserOK, ListedIsOpen, BusyAt
    <3>2. ~(updates[u] > 0)
      BY <2>1, <2>3, <2>7 DEF UserOK, ListedIsOpen, BusyAt
    <3>3. \A b \in Actors : ~BusyAt(b, u, {"dropMemory"})'
      BY <2>3, <2>4 DEF BusyAt
    <3>4. QED
      BY <1>3, <2>5, <3>1, <3>2, <3>3 DEF ListedIsOpen
  <2>9. OpenIsSeen(u)'
    BY <1>3, <1>4, <2>1, <2>3, <2>4, ActorsAre DEF UserOK, OpenIsSeen, BusyAt, Dropping
  <2>10. QED
    BY <2>6, <2>8, <2>9 DEF UserOK
<1>8. QED
  BY <1>5, <1>6, <1>7

LEMMA RestartKeeps ==
    ASSUME TypeOK, NEW u \in Users, UserOK(u), Restart
    PROVE  UserOK(u)'
<1>1. /\ open' = open /\ storage' = storage /\ memory' = NotLoaded /\ due' = {}
      /\ crossed' = crossed /\ ignored' = ignored
      /\ \A a \in Actors : job'[a] = NoJob
  BY DEF Restart, chat
<1>2. \A a \in Actors : ~Busy(a, u)'
  BY <1>1 DEF Busy
<1>3. updates[u] \in Nat /\ updates'[u] \in Nat /\ updates'[u] <= updates[u]
  BY JoinAssumption DEF Restart, TypeOK
<1>4. /\ u \in stale \/ (\E a \in Actors : Busy(a, u) /\ At(a, "dropStore")) <=> u \in stale'
      /\ u \in unkept \/ Busy(Bot, u) \/ updates'[u] < updates[u] <=> u \in unkept'
  BY DEF Restart
<1>5. (Listed(u)' <=> u \in storage) /\ (Held(u)' <=> u \in storage)
  BY <1>1 DEF Listed, Held, Loaded
<1>6. OneWorks(u)'
  BY <1>1, <1>2 DEF OneWorks
<1>7. ListedIsOpen(u)'
  <2> SUFFICES ASSUME u \notin crossed, u \notin stale'
               PROVE  ListedIsOpen(u)'
    BY <1>1 DEF ListedIsOpen
  <2>1. u \in storage => \A a \in Actors : ~BusyAt(a, u, Dropping)
    <3> SUFFICES ASSUME u \in storage, NEW a \in Actors, BusyAt(a, u, Dropping)
                 PROVE  FALSE
      OBVIOUS
    <3>1. BusyAt(a, u, {"dropMemory"})
      BY <1>4 DEF BusyAt, Busy, At, Dropping
    <3>2. QED
      BY <1>4, <3>1 DEF UserOK, ListedIsOpen
  <2>2. u \in storage => u \in open /\ ~(updates[u] > 0)
    BY <1>4, <2>1 DEF UserOK, ListedIsOpen, Listed
  <2>3. updates'[u] > 0 => u \in open /\ updates'[u] = 1 /\ u \notin storage
    BY <1>3, <1>4, <2>2 DEF UserOK, ListedIsOpen
  <2>4. QED
    BY <1>1, <1>2, <1>5, <2>2, <2>3 DEF ListedIsOpen, BusyAt
<1>8. OpenIsSeen(u)'
  <2> SUFFICES ASSUME u \in open, u \notin ignored, u \notin crossed, u \notin unkept'
               PROVE  OpenIsSeen(u)'
    BY <1>1 DEF OpenIsSeen
  <2>1. ~Busy(Bot, u) /\ updates'[u] = updates[u]
    BY <1>3, <1>4
  <2>2. updates[u] > 0 \/ u \in storage
    BY <1>4, <2>1 DEF UserOK, OpenIsSeen, BusyAt, Held
  <2>3. QED
    BY <1>2, <1>5, <2>1, <2>2 DEF OpenIsSeen, BusyAt
<1>9. QED
  BY <1>6, <1>7, <1>8 DEF UserOK

-----------------------------------------------------------------------------
(* The invariant, and what it is for. *)

LEMMA InitJoins == Init => JInv
<1> SUFFICES ASSUME Init
             PROVE  JInv
  OBVIOUS
<1>1. TypeOK /\ LoadedFirst
  BY InitTypes
<1>2. /\ \A a \in Actors : job[a] = NoJob
      /\ \A u \in Users : updates[u] = 0
      /\ open = {} /\ storage = {} /\ memory = NotLoaded /\ due = {}
  BY DEF Init
<1>3. ASSUME NEW u \in Users
      PROVE  UserOK(u)
  <2>1. \A a \in Actors : ~Busy(a, u)
    BY <1>2 DEF Busy
  <2>2. ~Listed(u)
    BY <1>2 DEF Listed, Loaded
  <2>3. QED
    BY <1>2, <2>1, <2>2 DEF UserOK, OneWorks, ListedIsOpen, OpenIsSeen, BusyAt
<1>4. QED
  BY <1>1, <1>3 DEF JInv

LEMMA NextJoins == JInv /\ [Next]_vars => JInv'
<1> SUFFICES ASSUME JInv, [Next]_vars
             PROVE  JInv'
  OBVIOUS
<1>0. TypeOK /\ LoadedFirst /\ \A u \in Users : UserOK(u)
  BY DEF JInv
<1>1. CASE \/ Change \/ ListJoinRequests \/ RecheckList \/ RecheckRound \/ RecheckListFails
           \/ \E u \in Users : Ask(u)
  <2>1. TypeOK' /\ LoadedFirst'
    BY <1>0, <1>1, ChangeTypes
  <2>2. \A u \in Users : UserOK(u)'
    BY <1>0, <1>1, ChangeKeeps, ListKeeps, RoundKeeps, AskKeeps
  <2>3. QED
    BY <2>1, <2>2 DEF JInv
<1>2. ASSUME NEW v \in Users, JoinRequestHandler(v)
      PROVE  JInv'
  BY <1>0, <1>2, HandlerTypes, HandlerKeeps DEF JInv
<1>3. ASSUME NEW v \in Users,
             \/ RecheckNext(v)
             \/ \E m \in Managers : RecheckJoinRequest(m, v)
             \/ \E m \in Managers, approve \in BOOLEAN : ResolveJoinRequest(m, v, approve)
      PROVE  JInv'
  <2>1. /\ TypeOK' /\ LoadedFirst' /\ Starts(v)
        /\ UNCHANGED <<chat, updates, storage, bounds, ignored, unkept, stale>>
    BY <1>0, <1>3, ManagerTypes
  <2>2. \A u \in Users : UserOK(u)'
    BY <1>0, <2>1, StartsKeeps
  <2>3. QED
    BY <2>1, <2>2 DEF JInv
<1>4. ASSUME NEW a \in Actors, JobStep(a) \/ JobFailure(a)
      PROVE  JInv'
  <2>1. TypeOK' /\ LoadedFirst' /\ job[a] # NoJob /\ \E s \in Stages : Goes(a, s)
    BY <1>0, <1>4, StepTypes, FailureTypes
  <2>2. ASSUME NEW u \in Users
        PROVE  UserOK(u)'
    <3>1. CASE Busy(a, u)
      BY <1>0, <1>4, <3>1, StepKeeps, FailureKeeps
    <3>2. CASE ~Busy(a, u)
      BY <1>0, <1>4, <2>1, <3>2, OthersKeep
    <3>3. QED
      BY <3>1, <3>2
  <2>3. QED
    BY <2>1, <2>2 DEF JInv
<1>5. CASE Restart
  BY <1>0, <1>5, RestartTypes, RestartKeeps DEF JInv
<1>6. CASE UNCHANGED vars
  <2>1. /\ open' = open /\ members' = members /\ entitled' = entitled /\ mode' = mode
        /\ updates' = updates /\ memory' = memory /\ storage' = storage /\ job' = job
        /\ due' = due /\ dueAuto' = dueAuto /\ listing' = listing /\ asks' = asks /\ changes' = changes
        /\ failures' = failures /\ restarts' = restarts /\ ignored' = ignored
        /\ crossed' = crossed /\ unkept' = unkept /\ stale' = stale
    BY <1>6 DEF vars, chat, lists, round, bounds, history
  <2>2. TypeOK'
    BY <1>0, <2>1 DEF TypeOK, At
  <2>3. LoadedFirst'
    BY <1>0, <2>1 DEF LoadedFirst
  <2>4. ASSUME NEW u \in Users
        PROVE  UserOK(u)'
    <3>1. (Listed(u)' <=> Listed(u)) /\ (Held(u)' <=> Held(u))
      BY <1>0, <2>1, LoadingKeeps
    <3>2. SameFor(u) /\ Remembers(u)
      BY <2>1, <3>1 DEF SameFor, Remembers
    <3>3. QED
      BY <1>0, <2>1, <3>2, Untouched
  <2>5. QED
    BY <2>2, <2>3, <2>4 DEF JInv
<1>7. QED
  BY <1>1, <1>2, <1>3, <1>4, <1>5, <1>6 DEF Next

LEMMA JoinsInvariant == Spec => []JInv
<1>1. Init => JInv
  BY InitJoins
<1>2. JInv /\ [Next]_vars => JInv'
  BY NextJoins
<1>3. QED
  BY <1>1, <1>2, PTL DEF Spec

\* The types, and that putJoinRequest and the loop write to a list only once
\* channelJoinRequests has loaded it.
THEOREM JoinTypes == Spec => []TypeOK
<1>1. JInv => TypeOK
  BY DEF JInv
<1>2. QED
  BY <1>1, JoinsInvariant, PTL

\* Who waits in Telegram and is in nobody's hands is on the list that managers
\* and the rechecks see, whatever the goroutines crossed, failed or restarted.
THEOREM WaitingAreListed == Spec => []OpenIsKept
<1>1. JInv => OpenIsKept
  <2> SUFFICES ASSUME JInv, NEW u \in open \ (ignored \cup crossed \cup unkept), Quiet(u)
               PROVE  u \in Loaded
    BY DEF OpenIsKept
  <2>1. u \in Users /\ OpenIsSeen(u)
    BY DEF JInv, UserOK, TypeOK
  <2>2. Held(u)
    BY <2>1, ActorsAre DEF OpenIsSeen, Quiet, BusyAt
  <2>3. QED
    BY <2>2 DEF Held, Loaded
<1>2. QED
  BY <1>1, JoinsInvariant, PTL

\* Whom the list names and nobody works on still waits in Telegram, unless the
\* request ended where the bot could not see it.
THEOREM ListedAreWaiting == Spec => []KeptIsOpen
<1>1. JInv => KeptIsOpen
  <2> SUFFICES ASSUME JInv, NEW u \in Users \ (crossed \cup stale), Quiet(u), u \in Loaded
               PROVE  u \in open
    BY DEF KeptIsOpen
  <2>1. QED
    BY DEF JInv, UserOK, ListedIsOpen, Quiet, BusyAt, Listed
<1>2. QED
  BY <1>1, JoinsInvariant, PTL

=============================================================================
