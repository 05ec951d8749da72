------------------------- MODULE ChannelRegistryProofs -------------------------
(***************************************************************************)
(* The registry, for any number of channels, chats, actors, failures,      *)
(* restarts and migrations, which the run checks in slices only.  The      *)
(* invariant says of each channel what memory, Redis and the jobs at work  *)
(* on it know of each other (ChannelOK); every step is shown to keep it,   *)
(* on the channels it touches and, all at once, on those it does not.      *)
(***************************************************************************)
EXTENDS ChannelRegistry, FiniteSetTheorems, TLAPS

Locking == {"addStore", "addApply", "updStore", "updApply"}

AfterUpdate == {"sync", "register", "unregister"}

Removal == {"read", "detach", "removeStore", "control"}

\* What a job carries from one step to the next.
Shaped ==
    \A a \in Actors : job[a] # NoJob =>
        /\ job[a].stage \in Locking \cup AfterUpdate \cup {"detach"} => job[a].rec \in Record
        /\ job[a].stage \in {"addStore", "addApply"} \cup Removal =>
               job[a].chat \in Chats /\ job[a].to = NoChannel
        /\ job[a].stage = "migrate" => job[a].to \in Channels
        /\ job[a].stage \in Locking <=> lock = a

LEMMA JobType ==
    ASSUME TypeOK, NEW a \in Actors, job[a] # NoJob
    PROVE  /\ job[a] \in Job /\ job[a].stage \in Stages /\ job[a].ch \in Channels
           /\ job[a].chat \in Chats \cup {NoChat} /\ job[a].rec \in Record \cup {NotProtected}
           /\ job[a].to \in Channels \cup {NoChannel}
BY DEF TypeOK, Job

\* The removal keeps the record it read.
LEMMA ReadType ==
    ASSUME NEW j \in Job, NEW r \in Record \cup {NotProtected}
    PROVE  [j EXCEPT !.stage = "detach", !.rec = r] \in Job
BY DEF Job, Stages

LEMMA AddedToType ==
    ASSUME NEW r \in Record \cup {NotProtected}, NEW chat \in Chats, NEW auto \in BOOLEAN
    PROVE  AddedTo(r, chat, auto) \in Record
<1>1. CASE r = NotProtected
  BY <1>1 DEF AddedTo, Record
<1>2. CASE r # NotProtected
  BY <1>2 DEF AddedTo, Merged, Record
<1>3. QED
  BY <1>1, <1>2

\* A job goes on to a stage, or ends.
LEMMA GoToType ==
    ASSUME TypeOK, NEW a \in Actors, job[a] # NoJob, NEW s \in Stages, GoTo(a, s)
    PROVE  /\ job' \in [Actors -> Job \cup {NoJob}]
           /\ job'[a] = [job[a] EXCEPT !.stage = s] /\ job'[a] # NoJob
           /\ \A b \in Actors : b # a => job'[b] = job[b]
<1>1. [job[a] EXCEPT !.stage = s] \in Job
  BY JobType DEF Job
<1>2. QED
  BY <1>1, RegistrySentinels DEF TypeOK, GoTo

LEMMA FinishType ==
    ASSUME TypeOK, NEW a \in Actors, job[a] # NoJob, Finish(a)
    PROVE  /\ job' \in [Actors -> Job \cup {NoJob}]
           /\ \/ job[a].to = NoChannel /\ job'[a] = NoJob
              \/ /\ job[a].to \in Channels /\ job'[a] # NoJob
                 /\ job'[a] = [job[a] EXCEPT !.stage = "migrate"]
           /\ \A b \in Actors : b # a => job'[b] = job[b]
<1>1. [job[a] EXCEPT !.stage = "migrate"] \in Job
  BY JobType DEF Job, Stages
<1>2. job[a].to \in Channels \cup {NoChannel}
  BY JobType
<1>3. job'[a] = IF job[a].to = NoChannel THEN NoJob ELSE [job[a] EXCEPT !.stage = "migrate"]
  BY DEF TypeOK, Finish
<1>4. QED
  BY <1>1, <1>2, <1>3, RegistrySentinels DEF TypeOK, Finish

LEMMA BeginType ==
    ASSUME TypeOK, NEW a \in Actors, NEW j \in Job, Begin(a, j)
    PROVE  /\ job' \in [Actors -> Job \cup {NoJob}] /\ job'[a] = j /\ job[a] = NoJob
           /\ \A b \in Actors : b # a => job'[b] = job[b]
           /\ raced' \subseteq Channels /\ unsynced' \subseteq Channels
BY DEF TypeOK, Begin

\* The four requests a job begins with.
LEMMA RequestBegins ==
    ASSUME TypeOK, NEW a \in Actors, Request(a)
    PROVE  /\ \E j \in Job :
                /\ Begin(a, j)
                /\ \/ /\ j.stage \in {"addStore", "updStore"} /\ lock = Free /\ lock' = a
                      /\ j.rec \in Record
                      /\ j.stage = "addStore" => j.chat \in Chats /\ j.to = NoChannel
                   \/ /\ j.stage = "read" /\ lock = Free /\ UNCHANGED lock
                      /\ j.chat \in Chats /\ j.to = NoChannel
                   \/ /\ j.stage = "migrate" /\ lock = Free /\ UNCHANGED lock
                      /\ j.to \in Channels
           /\ UNCHANGED <<maps, storage, bounds, removed, unsaved, undone>>
<1>1. ASSUME NEW c \in Channels, NEW k \in Chats, NEW auto \in BOOLEAN, AddProtectedChannel(a, c, k, auto)
      PROVE  \E j \in Job : /\ Begin(a, j) /\ j.stage = "addStore" /\ lock = Free /\ lock' = a
                            /\ j.rec \in Record /\ j.chat \in Chats /\ j.to = NoChannel
  <2>1. AddedTo(protected[c], k, auto) \in Record
    BY AddedToType DEF TypeOK
  <2> DEFINE j == [stage |-> "addStore", ch |-> c, chat |-> k, auto |-> auto,
                   rec |-> AddedTo(protected[c], k, auto), to |-> NoChannel]
  <2>2. j \in Job
    BY <2>1 DEF Job, Stages
  <2>3. Begin(a, j)
    BY <1>1 DEF AddProtectedChannel
  <2>4. QED
    BY <1>1, <2>1, <2>2, <2>3 DEF AddProtectedChannel
<1>2. ASSUME NEW c \in Channels, NEW auto \in BOOLEAN, NEW to \in Channels \cup {NoChannel},
             UpdateProtectedChannel(a, c, auto, to)
      PROVE  \E j \in Job : /\ Begin(a, j) /\ j.stage = "updStore" /\ lock = Free /\ lock' = a
                            /\ j.rec \in Record
  <2>1. [protected[c] EXCEPT !.auto = auto] \in Record
    BY <1>2 DEF UpdateProtectedChannel, TypeOK, Record
  <2> DEFINE j == [stage |-> "updStore", ch |-> c, chat |-> NoChat, auto |-> auto,
                   rec |-> [protected[c] EXCEPT !.auto = auto], to |-> to]
  <2>2. j \in Job
    BY <2>1 DEF Job, Stages
  <2>3. Begin(a, j)
    BY <1>2 DEF UpdateProtectedChannel
  <2>4. QED
    BY <1>2, <2>1, <2>2, <2>3 DEF UpdateProtectedChannel
<1>3. ASSUME NEW c \in Channels, NEW k \in Chats, RemoveChannel(a, c, k)
      PROVE  \E j \in Job : /\ Begin(a, j) /\ j.stage = "read" /\ lock = Free /\ UNCHANGED lock
                            /\ j.chat \in Chats /\ j.to = NoChannel
  <2> DEFINE j == [stage |-> "read", ch |-> c, chat |-> k, auto |-> FALSE,
                   rec |-> NotProtected, to |-> NoChannel]
  <2>1. j \in Job
    BY DEF Job, Stages
  <2>2. QED
    BY <1>3, <2>1 DEF RemoveChannel
<1>4. ASSUME NEW c \in Channels, NEW to \in Channels, protected[c] = NotProtected,
             RefreshIdentity(a, c, to)
      PROVE  \E j \in Job : /\ Begin(a, j) /\ j.stage = "migrate" /\ lock = Free /\ UNCHANGED lock
                            /\ j.to \in Channels
  <2> DEFINE j == [stage |-> "migrate", ch |-> c, chat |-> NoChat, auto |-> FALSE,
                   rec |-> NotProtected, to |-> to]
  <2>1. j \in Job
    BY DEF Job, Stages
  <2>2. QED
    BY <1>4, <2>1 DEF RefreshIdentity
<1>5. ASSUME NEW c \in Channels, NEW to \in Channels \cup {NoChannel}, RefreshIdentity(a, c, to)
      PROVE  \/ UpdateProtectedChannel(a, c, protected[c].auto, to) /\ protected[c].auto \in BOOLEAN
             \/ to \in Channels /\ protected[c] = NotProtected
  BY <1>5 DEF RefreshIdentity, TypeOK, Record
<1>6. UNCHANGED <<maps, storage, bounds, removed, unsaved, undone>>
  BY DEF Request, AddProtectedChannel, UpdateProtectedChannel, RemoveChannel, RefreshIdentity
<1>7. \A c \in Channels : Announced(c) \subseteq Channels \cup {NoChannel}
  BY DEF Announced
<1>8. NoChannel \notin Channels
  BY RegistryAssumption
<1>9. QED
  BY <1>1, <1>2, <1>3, <1>4, <1>5, <1>6, <1>7, <1>8 DEF Request

-----------------------------------------------------------------------------
(* Types. *)

LEMMA InitTypes == Init => TypeOK /\ Shaped
BY DEF Init, TypeOK, Shaped

LEMMA RequestTypes ==
    ASSUME TypeOK, Shaped, NEW a \in Actors, Request(a)
    PROVE  TypeOK' /\ Shaped'
<1>1. PICK j \in Job :
        /\ Begin(a, j)
        /\ \/ /\ j.stage \in {"addStore", "updStore"} /\ lock = Free /\ lock' = a
              /\ j.rec \in Record
              /\ j.stage = "addStore" => j.chat \in Chats /\ j.to = NoChannel
           \/ /\ j.stage = "read" /\ lock = Free /\ UNCHANGED lock
              /\ j.chat \in Chats /\ j.to = NoChannel
           \/ /\ j.stage = "migrate" /\ lock = Free /\ UNCHANGED lock
              /\ j.to \in Channels
  BY RequestBegins
<1>2. UNCHANGED <<maps, storage, bounds, removed, unsaved, undone>>
  BY RequestBegins
<1>3. /\ job' \in [Actors -> Job \cup {NoJob}] /\ job'[a] = j
      /\ \A b \in Actors : b # a => job'[b] = job[b]
      /\ raced' \subseteq Channels /\ unsynced' \subseteq Channels
  BY <1>1, BeginType
<1>4. TypeOK'
  BY <1>1, <1>2, <1>3 DEF TypeOK, maps, bounds
<1>5. Shaped'
  BY <1>1, <1>3, RegistryAssumption DEF Shaped, Locking, AfterUpdate, Removal
<1>6. QED
  BY <1>4, <1>5

\* What a job does to job and lock keeps their shape.
LEMMA GoesOn ==
    ASSUME TypeOK, Shaped, NEW a \in Actors, job[a] # NoJob, NEW s \in Stages, GoTo(a, s),
           s \notin {"detach", "migrate"},
           s \in AfterUpdate => job[a].rec \in Record,
           s \in Removal <=> job[a].stage \in Removal,
           s \in {"addStore", "addApply"} => job[a].stage \in {"addStore", "addApply"},
           \/ s \in Locking /\ job[a].stage \in Locking /\ lock' = lock
           \/ s \notin Locking /\ job[a].stage \in Locking /\ lock' = Free
           \/ s \notin Locking /\ job[a].stage \notin Locking /\ lock' = lock
    PROVE  Shaped' /\ job' \in [Actors -> Job \cup {NoJob}] /\ lock' \in Actors \cup {Free}
<1>1. /\ job' \in [Actors -> Job \cup {NoJob}]
      /\ job'[a] = [job[a] EXCEPT !.stage = s]
      /\ \A b \in Actors : b # a => job'[b] = job[b]
  BY GoToType
<1>2. /\ job'[a].stage = s /\ job'[a].rec = job[a].rec /\ job'[a].chat = job[a].chat
      /\ job'[a].to = job[a].to
  BY <1>1, JobType DEF Job
<1>3. lock' \in Actors \cup {Free}
  BY DEF TypeOK
<1>4. ASSUME NEW b \in Actors, job'[b] # NoJob, b # a
      PROVE  job'[b] = job[b] /\ (job[b].stage \in Locking <=> lock' = b)
  <2>1. job'[b] = job[b]
    BY <1>1, <1>4
  <2>2. job[a].stage \in Locking <=> lock = a
    BY DEF Shaped
  <2>3. job[b].stage \in Locking <=> lock = b
    BY <1>4, <2>1 DEF Shaped
  <2>4. QED
    BY <1>4, <2>1, <2>2, <2>3, RegistryAssumption
<1>5. s \in Locking <=> lock' = a
  BY RegistryAssumption DEF Shaped
<1>6. Shaped'
  <2>1. /\ s \in Locking \cup AfterUpdate \cup {"detach"} => job[a].rec \in Record
        /\ s \in {"addStore", "addApply"} \cup Removal => job[a].chat \in Chats /\ job[a].to = NoChannel
    BY DEF Shaped
  <2>2. ASSUME NEW b \in Actors, job'[b] # NoJob, b # a
        PROVE  /\ job'[b].stage \in Locking \cup AfterUpdate \cup {"detach"} => job'[b].rec \in Record
               /\ job'[b].stage \in {"addStore", "addApply"} \cup Removal =>
                      job'[b].chat \in Chats /\ job'[b].to = NoChannel
               /\ job'[b].stage = "migrate" => job'[b].to \in Channels
               /\ job'[b].stage \in Locking <=> lock' = b
    BY <1>4, <2>2 DEF Shaped
  <2>3. QED
    BY <1>2, <1>5, <2>1, <2>2 DEF Shaped
<1>7. QED
  BY <1>1, <1>3, <1>6

LEMMA Finishes ==
    ASSUME TypeOK, Shaped, NEW a \in Actors, job[a] # NoJob, Finish(a),
           \/ job[a].stage \in Locking /\ lock' = Free
           \/ job[a].stage \notin Locking /\ lock' = lock
    PROVE  Shaped' /\ job' \in [Actors -> Job \cup {NoJob}] /\ lock' \in Actors \cup {Free}
<1>1. /\ job' \in [Actors -> Job \cup {NoJob}]
      /\ \/ job[a].to = NoChannel /\ job'[a] = NoJob
         \/ job[a].to \in Channels /\ job'[a] = [job[a] EXCEPT !.stage = "migrate"]
      /\ \A b \in Actors : b # a => job'[b] = job[b]
  BY FinishType
<1>2. job'[a] # NoJob => job'[a].stage = "migrate" /\ job'[a].to \in Channels
  BY <1>1, JobType DEF Job
<1>3. lock' \in Actors \cup {Free}
  BY DEF TypeOK
<1>4. Shaped'
  BY <1>1, <1>2, RegistryAssumption DEF Shaped, Locking, AfterUpdate, Removal
<1>5. QED
  BY <1>1, <1>3, <1>4

LEMMA StepTypes ==
    ASSUME TypeOK, Shaped, NEW a \in Actors, JobStep(a)
    PROVE  TypeOK' /\ Shaped'
<1> USE DEF AtStage
<1>1. CASE AddApply(a)
  <2> DEFINE c == job[a].ch
             new == AddedTo(protected[c], job[a].chat, job[a].auto)
  <2>1. c \in Channels /\ job[a].chat \in Chats /\ job[a].auto \in BOOLEAN
    BY <1>1, JobType DEF AddApply, Shaped, Job
  <2>2. new \in Record
    BY <2>1, AddedToType DEF TypeOK
  <2>3. Shaped' /\ job' \in [Actors -> Job \cup {NoJob}] /\ lock' \in Actors \cup {Free}
    BY <1>1, Finishes DEF AddApply, Locking
  <2>4. protected' \in [Channels -> Record \cup {NotProtected}] /\ info' \in [Channels -> SUBSET Chats]
    BY <1>1, <2>1, <2>2 DEF AddApply, TypeOK, Record
  <2>5. control' \in [Chats -> [Channels -> Nat]]
    BY <1>1, <2>1 DEF AddApply, TypeOK
  <2>6. tickers' \in [Channels -> Nat]
    BY <1>1, <2>1 DEF AddApply, TypeOK
  <2>7. QED
    BY <1>1, <2>1, <2>3, <2>4, <2>5, <2>6 DEF AddApply, TypeOK, bounds
<1>2. CASE UpdateApply(a)
  <2>1. job[a].ch \in Channels /\ job[a].rec \in Record
    BY <1>2, JobType DEF UpdateApply, Shaped, Locking
  <2>2. Shaped' /\ job' \in [Actors -> Job \cup {NoJob}] /\ lock' \in Actors \cup {Free}
    BY <1>2, <2>1, GoesOn DEF UpdateApply, Locking, AfterUpdate, Removal, Stages
  <2>3. QED
    BY <1>2, <2>1, <2>2 DEF UpdateApply, TypeOK, bounds, history
<1>3. CASE SyncTicker(a)
  <2>1. Shaped' /\ job' \in [Actors -> Job \cup {NoJob}] /\ lock' \in Actors \cup {Free}
    <3>1. job[a].rec \in Record /\ UNCHANGED lock
      BY <1>3 DEF SyncTicker, Shaped, AfterUpdate
    <3>2. CASE Finish(a)
      BY <1>3, <3>1, <3>2, Finishes DEF SyncTicker, Locking
    <3>3. CASE \E s \in {"register", "unregister"} : GoTo(a, s)
      BY <1>3, <3>1, <3>3, GoesOn DEF SyncTicker, Locking, AfterUpdate, Removal, Stages
    <3>4. QED
      BY <1>3, <3>2, <3>3 DEF SyncTicker
  <2>2. QED
    BY <1>3, <2>1 DEF SyncTicker, TypeOK, maps, bounds, history
<1>4. CASE RegisterTicker(a)
  <2>1. Shaped' /\ job' \in [Actors -> Job \cup {NoJob}] /\ lock' \in Actors \cup {Free}
    BY <1>4, Finishes DEF RegisterTicker, Locking
  <2>2. QED
    BY <1>4, <2>1, JobType DEF RegisterTicker, TypeOK, bounds, history
<1>5. CASE RemoveTickers(a)
  <2>1. Shaped' /\ job' \in [Actors -> Job \cup {NoJob}] /\ lock' \in Actors \cup {Free}
    BY <1>5, Finishes DEF RemoveTickers, Locking
  <2>2. OneTickerLess(job[a].ch) \in Nat
    BY <1>5, JobType DEF RemoveTickers, OneTickerLess, HasTicker, TypeOK
  <2>3. QED
    BY <1>5, <2>1, <2>2 DEF RemoveTickers, TypeOK, bounds, history
<1>6. CASE CleanRead(a)
  <2>1. job[a].ch \in Channels /\ job[a].chat \in Chats /\ job[a].to = NoChannel /\ UNCHANGED lock
    BY <1>6, JobType DEF CleanRead, Shaped, Removal
  <2>2. Shaped' /\ job' \in [Actors -> Job \cup {NoJob}] /\ lock' \in Actors \cup {Free}
    <3>1. CASE Finish(a)
      BY <1>6, <2>1, <3>1, Finishes DEF CleanRead, Locking
    <3>2. CASE /\ protected[job[a].ch] # NotProtected
               /\ job' = [job EXCEPT ![a].stage = "detach", ![a].rec = protected[job[a].ch]]
      <4>1. protected[job[a].ch] \in Record
        BY <2>1, <3>2 DEF TypeOK
      <4>2. [job[a] EXCEPT !.stage = "detach", !.rec = protected[job[a].ch]] \in Job
        BY <1>6, <4>1, JobType DEF CleanRead, Job, Stages
      <4>3. /\ job' \in [Actors -> Job \cup {NoJob}]
            /\ job'[a] = [job[a] EXCEPT !.stage = "detach", !.rec = protected[job[a].ch]]
            /\ \A b \in Actors : b # a => job'[b] = job[b]
        BY <3>2, <4>2 DEF TypeOK
      <4>4. /\ job'[a].stage = "detach" /\ job'[a].rec \in Record /\ job'[a].chat = job[a].chat
            /\ job'[a].to = job[a].to
        BY <1>6, <4>1, <4>3, JobType DEF CleanRead, Job
      <4>5. lock # a
        BY <1>6 DEF CleanRead, Shaped, Locking
      <4>6. Shaped'
        BY <2>1, <4>3, <4>4, <4>5 DEF Shaped, Locking, AfterUpdate, Removal
      <4>7. QED
        BY <2>1, <4>3, <4>6 DEF TypeOK
    <3>3. QED
      BY <1>6, <3>1, <3>2 DEF CleanRead
  <2>3. removed' \subseteq Channels
    BY <1>6, <2>1 DEF CleanRead, TypeOK
  <2>4. QED
    BY <1>6, <2>2, <2>3 DEF CleanRead, TypeOK, maps, bounds
<1>8. CASE CleanControl(a)
  <2>1. Shaped' /\ job' \in [Actors -> Job \cup {NoJob}] /\ lock' \in Actors \cup {Free}
    BY <1>8, Finishes DEF CleanControl, Locking
  <2>2. job[a].ch \in Channels /\ job[a].chat \in Chats
    BY <1>8, JobType DEF CleanControl, Shaped, Removal
  <2>3. control' \in [Chats -> [Channels -> Nat]]
    BY <1>8, <2>2 DEF CleanControl, TypeOK
  <2>4. QED
    BY <1>8, <2>1, <2>3 DEF CleanControl, TypeOK, bounds, history
<1>9. CASE StorageWrite(a)
  <2>1. /\ job[a] # NoJob /\ job[a].stage \in {"addStore", "updStore", "removeStore"}
        /\ job[a].ch \in Channels /\ job[a].rec \in Record \cup {NotProtected}
    BY <1>9, JobType DEF StorageWrite, Storing, AfterStore
  <2>2. Shaped' /\ job' \in [Actors -> Job \cup {NoJob}] /\ lock' \in Actors \cup {Free}
    BY <1>9, <2>1, GoesOn DEF StorageWrite, AfterStore, Locking, AfterUpdate, Removal, Stages
  <2>3. QED
    BY <1>9, <2>1, <2>2 DEF StorageWrite, TypeOK, maps, bounds, history
<1>7. ASSUME NEW swapped \in BOOLEAN, CleanDetach(a, swapped)
      PROVE  TypeOK' /\ Shaped'
  <2> DEFINE c == job[a].ch
             k == job[a].chat
             rest == job[a].rec.chats \ {k}
             next == IF rest = {} THEN NotProtected ELSE [job[a].rec EXCEPT !.chats = rest]
  <2>1. /\ job[a] # NoJob /\ job[a].stage = "detach" /\ c \in Channels /\ k \in Chats
        /\ job[a].to = NoChannel /\ job[a].rec \in Record
    BY <1>7, JobType DEF CleanDetach, Shaped, Removal
  <2>2. next \in Record \cup {NotProtected}
    BY <2>1 DEF Record
  <2>3. /\ [job[a] EXCEPT !.stage = "removeStore", !.rec = next] \in Job
        /\ [job[a] EXCEPT !.stage = "removeStore", !.rec = next].stage = "removeStore"
        /\ [job[a] EXCEPT !.stage = "removeStore", !.rec = next].chat = k
        /\ [job[a] EXCEPT !.stage = "removeStore", !.rec = next].to = NoChannel
    BY <2>1, <2>2, JobType DEF Job, Stages
  <2>4. \A b \in Actors : b # a =>
          \/ job'[b] = job[b]
          \/ /\ job[b] # NoJob /\ job[b].stage \in {"updStore", "updApply"}
             /\ job'[b] = [job[b] EXCEPT !.rec.chats = @ \ {k}]
    BY <1>7 DEF CleanDetach, Updating
  <2>5. ASSUME NEW b \in Actors, b # a, job[b] # NoJob, job[b].stage \in {"updStore", "updApply"},
               job'[b] = [job[b] EXCEPT !.rec.chats = @ \ {k}]
        PROVE  /\ job'[b] \in Job /\ job'[b].stage = job[b].stage
               /\ job'[b].rec \in Record /\ job'[b].to = job[b].to /\ job'[b].chat = job[b].chat
    <3>1. job[b] \in Job /\ job[b].rec \in Record
      BY <2>5, JobType DEF Shaped, Locking
    <3>2. [job[b].rec EXCEPT !.chats = @ \ {k}] \in Record
      BY <3>1 DEF Record
    <3>3. QED
      BY <2>5, <3>1, <3>2 DEF Job
  <2>6. job'[a] = [job[a] EXCEPT !.stage = "removeStore", !.rec = next]
    BY <1>7 DEF CleanDetach
  <2>7. job' \in [Actors -> Job \cup {NoJob}]
    <3>1. ASSUME NEW b \in Actors PROVE job'[b] \in Job \cup {NoJob}
      <4>1. CASE b = a
        BY <2>3, <2>6, <4>1
      <4>2. CASE b # a /\ job'[b] = job[b]
        BY <4>2 DEF TypeOK
      <4>3. CASE b # a /\ job'[b] # job[b]
        BY <2>4, <2>5, <4>3
      <4>4. QED
        BY <4>1, <4>2, <4>3
    <3>2. job' = [b \in Actors |-> job'[b]]
      BY <1>7 DEF CleanDetach
    <3>3. QED
      BY <3>1, <3>2
  <2>8. UNCHANGED lock
    BY <1>7 DEF CleanDetach
  <2>9. Shaped'
    <3>1. job'[a].stage = "removeStore" /\ job'[a].chat \in Chats /\ job'[a].to = NoChannel /\ lock # a
      BY <2>1, <2>3, <2>6 DEF Shaped, Locking
    <3>2. ASSUME NEW b \in Actors, b # a, job'[b] # NoJob
          PROVE  /\ job[b] # NoJob /\ job'[b].stage = job[b].stage /\ job'[b].to = job[b].to
                 /\ job'[b].chat = job[b].chat
                 /\ \/ job'[b].rec = job[b].rec
                    \/ job'[b].rec \in Record /\ job[b].stage \in {"updStore", "updApply"}
      BY <2>4, <2>5, <3>2
    <3>3. QED
      BY <2>8, <3>1, <3>2 DEF Shaped, Locking, AfterUpdate, Removal
  <2>10. /\ protected' \in [Channels -> Record \cup {NotProtected}]
         /\ tickers' \in [Channels -> Nat] /\ info' \in [Channels -> SUBSET Chats]
         /\ removed' \subseteq Channels
    <3>1. OneTickerLess(c) \in Nat
      BY <2>1 DEF OneTickerLess, HasTicker, TypeOK
    <3>2. QED
      BY <1>7, <2>1, <2>2, <3>1 DEF CleanDetach, TypeOK
  <2>11. QED
    BY <1>7, <2>7, <2>9, <2>10 DEF CleanDetach, TypeOK, bounds
<1>10. CASE MigrateChannel(a)
  <2>1. /\ job[a] # NoJob /\ job[a].ch \in Channels /\ job[a].to \in Channels
        /\ job[a].stage = "migrate"
    BY <1>10, JobType DEF MigrateChannel, Shaped
  <2>2. Shaped' /\ job' \in [Actors -> Job \cup {NoJob}]
    <3>1. /\ job' \in [Actors -> Job \cup {NoJob}] /\ job'[a] = NoJob
          /\ \A b \in Actors : b # a => job'[b] = job[b]
      BY <1>10 DEF MigrateChannel, TypeOK
    <3>2. QED
      BY <1>10, <3>1 DEF MigrateChannel, Shaped
  <2>3. protected' \in [Channels -> Record \cup {NotProtected}]
    BY <1>10, <2>1 DEF MigrateChannel, TypeOK, Record
  <2>4. /\ info' \in [Channels -> SUBSET Chats] /\ tickers' \in [Channels -> Nat]
        /\ known' \subseteq Channels
    BY <1>10, <2>1 DEF MigrateChannel, TypeOK
  <2>5. control' \in [Chats -> [Channels -> Nat]]
    BY <1>10, <2>1 DEF MigrateChannel, TypeOK
  <2>6. /\ removed' \subseteq Channels /\ raced' \subseteq Channels /\ unsynced' \subseteq Channels
        /\ unsaved' \subseteq Channels /\ undone' \subseteq Channels /\ migrations' \in Nat
    BY <1>10, <2>1 DEF MigrateChannel, TypeOK
  <2>7. QED
    BY <1>10, <2>2, <2>3, <2>4, <2>5, <2>6 DEF MigrateChannel, TypeOK
<1>11. QED
  BY <1>1, <1>2, <1>3, <1>4, <1>5, <1>6, <1>7, <1>8, <1>9, <1>10 DEF JobStep

LEMMA FailureTypes ==
    ASSUME TypeOK, Shaped, NEW a \in Actors, NEW applied \in BOOLEAN, StorageFails(a, applied)
    PROVE  TypeOK' /\ Shaped'
<1>1. /\ job[a] # NoJob /\ job[a].stage \in {"addStore", "updStore", "removeStore"}
      /\ job[a].ch \in Channels /\ job[a].rec \in Record \cup {NotProtected}
  BY JobType DEF StorageFails, Storing, AfterStore, AtStage
<1>2. Removing(a) <=> job[a].stage = "removeStore"
  BY <1>1 DEF Removing, AtStage
<1>3. Shaped' /\ job' \in [Actors -> Job \cup {NoJob}] /\ lock' \in Actors \cup {Free}
  BY <1>1, <1>2, Finishes DEF StorageFails, Locking
<1>4. storage' \in [Channels -> Record \cup {NotProtected}]
  BY <1>1 DEF StorageFails, TypeOK
<1>5. removed' \subseteq Channels /\ unsaved' \subseteq Channels /\ undone' \subseteq Channels
  BY <1>1 DEF StorageFails, TypeOK
<1>6. failures' \in Nat
  BY DEF StorageFails, TypeOK
<1>7. QED
  BY <1>3, <1>4, <1>5, <1>6 DEF StorageFails, TypeOK, maps

LEMMA RestartTypes ==
    ASSUME TypeOK, NEW lost \in SUBSET Channels, Restart(lost)
    PROVE  TypeOK' /\ Shaped'
<1>1. Cardinality(lost) \in Nat
  BY RegistryAssumption, FS_Subset, FS_CardinalityType
<1>2. job' \in [Actors -> Job \cup {NoJob}] /\ Shaped'
  BY DEF Restart, Shaped
<1>3. failures' \in Nat /\ restarts' \in Nat /\ migrations' \in Nat
  BY <1>1 DEF Restart, TypeOK
<1>4. protected' \in [Channels -> Record \cup {NotProtected}]
  BY DEF Restart, TypeOK
<1>5. info' \in [Channels -> SUBSET Chats] /\ tickers' \in [Channels -> Nat]
  BY DEF Restart, TypeOK, Record
<1>6. control' \in [Chats -> [Channels -> Nat]]
  BY DEF Restart
<1>7. /\ removed' \subseteq Channels /\ raced' \subseteq Channels /\ unsynced' \subseteq Channels
      /\ unsaved' \subseteq Channels /\ undone' \subseteq Channels /\ known' \subseteq Channels
  BY DEF Restart, TypeOK
<1>8. storage' \in [Channels -> Record \cup {NotProtected}] /\ lock' \in Actors \cup {Free}
  BY DEF Restart, TypeOK
<1>9. QED
  BY <1>2, <1>3, <1>4, <1>5, <1>6, <1>7, <1>8 DEF TypeOK

LEMMA NextTypes == TypeOK /\ Shaped /\ [Next]_vars => TypeOK' /\ Shaped'
<1> SUFFICES ASSUME TypeOK, Shaped, [Next]_vars
             PROVE  TypeOK' /\ Shaped'
  OBVIOUS
<1>1. CASE UNCHANGED vars
  BY <1>1 DEF vars, TypeOK, Shaped
<1>2. CASE Next
  BY <1>2, RequestTypes, StepTypes, FailureTypes, RestartTypes DEF Next
<1>3. QED
  BY <1>1, <1>2

-----------------------------------------------------------------------------
(* What memory, Redis and the jobs say of one channel. *)

Works(a, c) == job[a] # NoJob /\ job[a].ch = c

In(k, c) == protected[c] # NotProtected /\ k \in protected[c].chats

\* Who works on a channel alone, according to the history.
Apart(c) ==
    /\ c \in raced => c \in unsynced
    /\ c \notin unsynced => \A a, b \in Actors : Busy(a, c) /\ Busy(b, c) => a = b
    /\ c \notin raced =>
           \A a, b \in Actors : Busy(a, c) /\ Busy(b, c) /\ Removing(a) => a = b

\* The record a job carries is still about the one in memory.
Knows(c) ==
    c \notin raced => \A a \in Actors : Works(a, c) =>
        /\ job[a].stage \in {"addStore", "addApply"} =>
               job[a].rec = AddedTo(protected[c], job[a].chat, job[a].auto)
        /\ job[a].stage \in {"updStore", "updApply"} =>
               protected[c] # NotProtected /\ job[a].rec.chats = protected[c].chats
        /\ job[a].stage \in {"detach", "removeStore"} => job[a].rec = protected[c]
        /\ job[a].stage \in {"addApply", "updApply"} => storage[c] = job[a].rec
        /\ job[a].stage = "read" /\ c \notin undone => control[job[a].chat][c] > 0

TickerOK(c) ==
    c \notin unsynced =>
        /\ (\A a \in Actors : Works(a, c) => job[a].stage \notin AfterUpdate)
               => tickers[c] = IF Scheduled(c) THEN 1 ELSE 0
        /\ \A a \in Actors : Works(a, c) /\ job[a].stage \in AfterUpdate =>
               /\ protected[c] = job[a].rec
               /\ tickers[c] \in {0, 1}
               /\ job[a].stage = "register" => job[a].rec.auto /\ tickers[c] = 0
               /\ job[a].stage = "unregister" => ~job[a].rec.auto /\ tickers[c] = 1

\* A removal past its first half is about to take its chat's mention away.
ControlOK(c) ==
    c \notin raced \cup undone => \A k \in Chats :
        /\ (\A a \in Actors : Works(a, c) /\ job[a].chat = k =>
                                 job[a].stage \notin {"removeStore", "control"})
               => /\ control[k][c] = IF In(k, c) THEN 1 ELSE 0
                  /\ In(k, c) => k \in info[c]
        /\ \A a \in Actors : Works(a, c) /\ job[a].chat = k
                                /\ job[a].stage \in {"removeStore", "control"} =>
               control[k][c] \in {0, 1} /\ ~In(k, c)

StorageOK(c) ==
    c \notin raced \cup unsaved =>
        /\ (\A a \in Actors : Works(a, c) =>
                                 job[a].stage \notin {"addApply", "updApply", "removeStore"})
               => storage[c] = protected[c]

StoredOK(c) ==
    migrations = 0 /\ c \notin raced /\ protected[c] # NotProtected => storage[c] # NotProtected

RemovedOK(c) ==
    c \in removed \ (raced \cup undone) =>
        /\ protected[c] = NotProtected
        /\ (\A a \in Actors : Works(a, c) => job[a].stage \notin {"addApply", "removeStore"})
               => storage[c] = NotProtected

ChannelOK(c) == Apart(c) /\ Knows(c) /\ TickerOK(c) /\ ControlOK(c)
                /\ StorageOK(c) /\ StoredOK(c) /\ RemovedOK(c)

RInv == TypeOK /\ Shaped /\ \A c \in Channels : ChannelOK(c)

\* Nothing a step does is about channel c.
SameAt(c) ==
    /\ protected'[c] = protected[c] /\ storage'[c] = storage[c]
    /\ tickers'[c] = tickers[c] /\ info'[c] = info[c]
    /\ \A k \in Chats : control'[k][c] = control[k][c]
    /\ c \in removed' => c \in removed

\* The history of c is kept, and perhaps extended.
Remembers(c) ==
    /\ c \in raced => c \in raced'
    /\ c \in unsynced => c \in unsynced'
    /\ c \in unsaved => c \in unsaved'
    /\ c \in undone => c \in undone'
    /\ migrations' = 0 => migrations = 0

\* Actor a alone steps; its job ends, or goes on to stage s.
Goes(a, s) ==
    /\ \A b \in Actors : b # a => job'[b] = job[b]
    /\ \/ job'[a] = NoJob
       \/ /\ job'[a] # NoJob /\ job'[a].stage = s /\ job'[a].ch = job[a].ch
          /\ job'[a].chat = job[a].chat /\ job'[a].auto = job[a].auto
          /\ job'[a].rec = job[a].rec /\ job'[a].to = job[a].to

LEMMA GoesToStage ==
    ASSUME TypeOK, NEW a \in Actors, job[a] # NoJob, NEW s \in Stages, GoTo(a, s)
    PROVE  Goes(a, s) /\ job'[a] # NoJob
<1>1. job[a] \in Job
  BY JobType
<1>2. /\ job'[a] = [job[a] EXCEPT !.stage = s] /\ job'[a] # NoJob
      /\ \A b \in Actors : b # a => job'[b] = job[b]
  BY GoToType
<1>3. /\ job'[a].stage = s /\ job'[a].ch = job[a].ch /\ job'[a].chat = job[a].chat
      /\ job'[a].auto = job[a].auto /\ job'[a].rec = job[a].rec /\ job'[a].to = job[a].to
  BY <1>1, <1>2 DEF Job
<1>4. QED
  BY <1>2, <1>3 DEF Goes

LEMMA GoesToEnd ==
    ASSUME TypeOK, NEW a \in Actors, job[a] # NoJob, Finish(a)
    PROVE  Goes(a, "migrate")
BY FinishType, JobType DEF Goes, Job

LEMMA ApartKept ==
    ASSUME NEW c \in Channels, Apart(c), Remembers(c), raced' = raced, unsynced' = unsynced,
           \A b \in Actors : Busy(b, c)' => Busy(b, c) /\ (Removing(b)' => Removing(b))
    PROVE  Apart(c)'
BY DEF Apart, Remembers

LEMMA StillApart ==
    ASSUME TypeOK, NEW c \in Channels, Apart(c), raced' = raced, unsynced' = unsynced,
           NEW a \in Actors, job[a] # NoJob, NEW s \in Stages, Goes(a, s),
           s \in Removal => job[a].stage \in Removal
    PROVE  Apart(c)'
<1>1. \A b \in Actors : Busy(b, c)' => Busy(b, c)
  BY DEF Goes, Busy
<1>2. \A b \in Actors : Removing(b)' => Removing(b)
  BY DEF Goes, Removing, AtStage, Removal
<1>3. QED
  BY <1>1, <1>2 DEF Apart

LEMMA Untouched ==
    ASSUME Shaped, NEW c \in Channels, ChannelOK(c), Apart(c)', SameAt(c), Remembers(c),
           \A b \in Actors : Works(b, c) \/ Works(b, c)' => job'[b] = job[b]
    PROVE  ChannelOK(c)'
<1>1. \A b \in Actors : Works(b, c)' <=> Works(b, c)
  BY DEF Works
<1>2. Scheduled(c)' <=> Scheduled(c)
  BY DEF SameAt, Scheduled
<1>3. \A k \in Chats : In(k, c)' <=> In(k, c)
  BY DEF SameAt, In
<1>4. Knows(c)'
  <2> SUFFICES ASSUME c \notin raced', NEW b \in Actors, Works(b, c)'
               PROVE  /\ job'[b].stage \in {"addStore", "addApply"} =>
                             job'[b].rec = AddedTo(protected'[c], job'[b].chat, job'[b].auto)
                      /\ job'[b].stage \in {"updStore", "updApply"} =>
                             protected'[c] # NotProtected /\ job'[b].rec.chats = protected'[c].chats
                      /\ job'[b].stage \in {"detach", "removeStore"} => job'[b].rec = protected'[c]
                      /\ job'[b].stage \in {"addApply", "updApply"} => storage'[c] = job'[b].rec
                      /\ job'[b].stage = "read" /\ c \notin undone' => control'[job'[b].chat][c] > 0
    BY DEF Knows
  <2>1. Works(b, c) /\ job'[b] = job[b] /\ c \notin raced
    BY <1>1 DEF Remembers
  <2>2. job[b].stage = "read" => job[b].chat \in Chats
    BY <2>1 DEF Shaped, Works, Removal
  <2>3. QED
    BY <2>1, <2>2 DEF ChannelOK, Knows, SameAt, Remembers
<1>5. TickerOK(c)'
  BY <1>1, <1>2 DEF ChannelOK, TickerOK, SameAt, Remembers
<1>6. ControlOK(c)'
  BY <1>1, <1>3 DEF ChannelOK, ControlOK, SameAt, Remembers
<1>7. StorageOK(c)'
  BY <1>1 DEF ChannelOK, StorageOK, SameAt, Remembers
<1>8. StoredOK(c)'
  BY DEF ChannelOK, StoredOK, SameAt, Remembers
<1>9. RemovedOK(c)'
  BY <1>1 DEF ChannelOK, RemovedOK, SameAt, Remembers
<1>10. QED
  BY <1>4, <1>5, <1>6, <1>7, <1>8, <1>9 DEF ChannelOK

\* Who else may be at work on a's channel.
LEMMA Company ==
    ASSUME TypeOK, Shaped, NEW c \in Channels, Apart(c), NEW a \in Actors, Works(a, c)
    PROVE  \A b \in Actors : b # a /\ job[b] # NoJob =>
              /\ job[a].stage \in Locking => job[b].stage \notin Locking
              /\ Works(b, c) => c \in unsynced
              /\ Works(b, c) /\ c \notin raced =>
                    job[a].stage \notin Removal /\ job[b].stage \notin Removal
<1>1. \A b \in Actors : Works(b, c) => Busy(b, c)
  BY DEF Works, Busy
<1>2. \A b \in Actors : job[b] # NoJob /\ job[b].stage \in Removal => Removing(b)
  BY DEF Removing, AtStage, Removal
<1>3. SUFFICES ASSUME NEW b \in Actors, b # a, job[b] # NoJob
               PROVE  /\ job[a].stage \in Locking => job[b].stage \notin Locking
                      /\ Works(b, c) => c \in unsynced
                      /\ Works(b, c) /\ c \notin raced =>
                            job[a].stage \notin Removal /\ job[b].stage \notin Removal
  OBVIOUS
<1>4. job[a].stage \in Locking => job[b].stage \notin Locking
  BY <1>3 DEF Shaped, Works
<1>5. Works(b, c) => c \in unsynced
  BY <1>1, <1>3 DEF Apart
<1>6. Works(b, c) /\ c \notin raced => ~Removing(a) /\ ~Removing(b)
  BY <1>1, <1>3 DEF Apart
<1>7. QED
  BY <1>2, <1>3, <1>4, <1>5, <1>6 DEF Works

LEMMA Elsewhere ==
    ASSUME TypeOK, Shaped, NEW a \in Actors, job[a] # NoJob, NEW s \in Stages, Goes(a, s),
           s \in Removal => job[a].stage \in Removal,
           raced' = raced, unsynced' = unsynced,
           NEW c \in Channels, c # job[a].ch, ChannelOK(c), SameAt(c), Remembers(c)
    PROVE  ChannelOK(c)'
<1>1. Apart(c)'
  BY StillApart DEF ChannelOK
<1>2. \A b \in Actors : Works(b, c) \/ Works(b, c)' => job'[b] = job[b]
  BY DEF Works, Goes
<1>3. QED
  BY <1>1, <1>2, Untouched

-----------------------------------------------------------------------------
(* The steps of the jobs, one by one. *)

LEMMA AddApplyKeeps ==
    ASSUME TypeOK, Shaped, \A x \in Channels : ChannelOK(x), NEW a \in Actors, AddApply(a),
           NEW c \in Channels, c = job[a].ch
    PROVE  \A x \in Channels : ChannelOK(x)'
<1> DEFINE new == AddedTo(protected[c], job[a].chat, job[a].auto)
<1>1. /\ job[a] # NoJob /\ job[a].stage = "addApply" /\ c \in Channels /\ job[a].chat \in Chats
      /\ job[a].auto \in BOOLEAN /\ job[a].rec \in Record /\ Works(a, c)
  BY JobType DEF AddApply, AtStage, Shaped, Locking, Works, Job, TypeOK
<1>2. Goes(a, "migrate")
  BY <1>1, GoesToEnd DEF AddApply
<1>3. raced' = raced /\ unsynced' = unsynced /\ unsaved' = unsaved /\ undone' = undone
      /\ migrations' = migrations /\ storage' = storage
  BY DEF AddApply, bounds
<1>4. new \in Record /\ new # NotProtected
  BY <1>1, AddedToType, RegistrySentinels DEF TypeOK
<1>5. ASSUME NEW x \in Channels, x # c
      PROVE  ChannelOK(x)'
  <2>1. SameAt(x)
    BY <1>1, <1>3, <1>5 DEF AddApply, SameAt, TypeOK
  <2>2. QED
    BY <1>1, <1>2, <1>3, <1>5, <2>1, Elsewhere DEF Remembers, Stages, Removal
<1>6. ChannelOK(c) /\ Apart(c)'
  BY <1>1, <1>2, <1>3, StillApart DEF ChannelOK, Stages, Removal
<1>7. /\ \A b \in Actors : b # a /\ job[b] # NoJob => job[b].stage \notin Locking
      /\ \A b \in Actors : b # a /\ Works(b, c) =>
            c \in unsynced /\ (c \notin raced => job[b].stage \notin Removal)
  BY <1>1, <1>6, Company DEF ChannelOK, Locking, Works
<1>8. /\ protected'[c] = new /\ info'[c] = new.chats
      /\ tickers'[c] = IF protected[c] = NotProtected /\ new.auto THEN tickers[c] + 1 ELSE tickers[c]
      /\ c \notin removed'
  BY <1>1 DEF AddApply, TypeOK
<1>9. \A k \in Chats : control'[k][c] = IF k \in new.chats /\ control[k][c] = 0 THEN 1 ELSE control[k][c]
  BY <1>1 DEF AddApply, TypeOK
<1>10. \A b \in Actors : Works(b, c)' =>
          \/ b = a /\ job'[a].stage = "migrate"
          \/ b # a /\ Works(b, c) /\ job'[b] = job[b]
  BY <1>2 DEF Goes, Works
<1>11. \A b \in Actors : b # a /\ Works(b, c) => Works(b, c)' /\ job'[b] = job[b]
  BY <1>2 DEF Goes, Works
<1>12. Knows(c)'
  <2> SUFFICES ASSUME c \notin raced, NEW b \in Actors, b # a, Works(b, c), job'[b] = job[b]
               PROVE  /\ job[b].stage \notin Locking \cup {"detach", "removeStore"}
                      /\ job[b].stage # "read"
    BY <1>3, <1>10 DEF Knows, Locking
  <2> QED
    BY <1>7 DEF Works, Locking, Removal
<1>13. TickerOK(c)'
  <2> SUFFICES ASSUME c \notin unsynced
               PROVE  /\ tickers'[c] = IF Scheduled(c)' THEN 1 ELSE 0
                      /\ \A b \in Actors : Works(b, c)' => job'[b].stage \notin AfterUpdate
    BY <1>3 DEF TickerOK
  <2>1. \A b \in Actors : Works(b, c) => job[b].stage \notin AfterUpdate
    BY <1>1, <1>7 DEF AfterUpdate
  <2>2. tickers[c] = IF Scheduled(c) THEN 1 ELSE 0
    BY <1>6, <2>1 DEF ChannelOK, TickerOK
  <2>3. protected[c] # NotProtected => new.auto = protected[c].auto
    BY <1>1 DEF AddedTo, Merged, TypeOK, Record
  <2>4. QED
    BY <1>1, <1>4, <1>7, <1>8, <1>10, <2>2, <2>3 DEF Scheduled, AfterUpdate
<1>14. ControlOK(c)'
  <2> SUFFICES ASSUME c \notin raced \cup undone, NEW k \in Chats
               PROVE  /\ control'[k][c] = IF In(k, c)' THEN 1 ELSE 0
                      /\ In(k, c)' => k \in info'[c]
                      /\ \A b \in Actors : Works(b, c)' => job'[b].stage \notin {"removeStore", "control"}
    BY <1>3 DEF ControlOK
  <2>1. \A b \in Actors : Works(b, c) => job[b].stage \notin {"removeStore", "control"}
    BY <1>1, <1>7 DEF Removal
  <2>2. control[k][c] = IF In(k, c) THEN 1 ELSE 0
    BY <1>6, <2>1 DEF ChannelOK, ControlOK
  <2>3. In(k, c) => k \in new.chats
    BY <1>1 DEF In, AddedTo, Merged, TypeOK, Record
  <2>4. In(k, c)' <=> k \in new.chats
    BY <1>4, <1>8 DEF In
  <2>5. QED
    BY <1>8, <1>9, <1>10, <2>1, <2>2, <2>3, <2>4
<1>15. storage[c] = new \/ c \in raced
  BY <1>1, <1>6 DEF ChannelOK, Knows
<1>16. StorageOK(c)' /\ StoredOK(c)' /\ RemovedOK(c)'
  BY <1>3, <1>4, <1>8, <1>15 DEF StorageOK, StoredOK, RemovedOK
<1>17. QED
  BY <1>5, <1>6, <1>12, <1>13, <1>14, <1>16 DEF ChannelOK

LEMMA UpdateApplyKeeps ==
    ASSUME TypeOK, Shaped, \A x \in Channels : ChannelOK(x), NEW a \in Actors, UpdateApply(a),
           NEW c \in Channels, c = job[a].ch
    PROVE  \A x \in Channels : ChannelOK(x)'
<1> DEFINE new == job[a].rec
<1>1. /\ job[a] # NoJob /\ job[a].stage = "updApply" /\ c \in Channels
      /\ new \in Record /\ new # NotProtected /\ Works(a, c)
  BY JobType, RegistrySentinels DEF UpdateApply, AtStage, Shaped, Locking, Works, TypeOK
<1>2. Goes(a, "sync") /\ job'[a] # NoJob
  BY <1>1, GoesToStage DEF UpdateApply, Stages
<1>3. raced' = raced /\ unsynced' = unsynced /\ unsaved' = unsaved /\ undone' = undone
      /\ removed' = removed /\ migrations' = migrations /\ storage' = storage
      /\ UNCHANGED <<info, control, tickers>>
  BY DEF UpdateApply, bounds, history
<1>4. protected'[c] = new
  BY <1>1 DEF UpdateApply, TypeOK
<1>5. ASSUME NEW x \in Channels, x # c
      PROVE  ChannelOK(x)'
  <2>1. SameAt(x)
    BY <1>1, <1>3, <1>5 DEF UpdateApply, SameAt, TypeOK
  <2>2. QED
    BY <1>1, <1>2, <1>3, <1>5, <2>1, Elsewhere DEF Remembers, Stages, Removal
<1>6. ChannelOK(c) /\ Apart(c)'
  BY <1>1, <1>2, <1>3, StillApart DEF ChannelOK, Stages, Removal
<1>7. /\ \A b \in Actors : b # a /\ job[b] # NoJob => job[b].stage \notin Locking
      /\ \A b \in Actors : b # a /\ Works(b, c) =>
            c \in unsynced /\ (c \notin raced => job[b].stage \notin Removal)
  BY <1>1, <1>6, Company DEF ChannelOK, Locking, Works
<1>8. c \notin raced =>
         protected[c] # NotProtected /\ new.chats = protected[c].chats /\ storage[c] = new
  BY <1>1, <1>6 DEF ChannelOK, Knows
<1>10. /\ \A b \in Actors : b # a => job'[b] = job[b] /\ (Works(b, c)' <=> Works(b, c))
       /\ Works(a, c)' /\ job'[a].stage = "sync" /\ job'[a].rec = new
  BY <1>1, <1>2 DEF Goes, Works
<1>12. Knows(c)'
  <2> SUFFICES ASSUME c \notin raced, NEW b \in Actors, b # a, Works(b, c), job'[b] = job[b]
               PROVE  /\ job[b].stage \notin Locking \cup {"detach", "removeStore"}
                      /\ job[b].stage # "read"
    BY <1>3, <1>10 DEF Knows, Locking
  <2> QED
    BY <1>7 DEF Works, Locking, Removal
<1>13. TickerOK(c)'
  <2> SUFFICES ASSUME c \notin unsynced
               PROVE  tickers[c] \in {0, 1} /\ \A b \in Actors : b # a => ~Works(b, c)
    BY <1>3, <1>4, <1>10 DEF TickerOK, AfterUpdate
  <2>1. \A b \in Actors : Works(b, c) => job[b].stage \notin AfterUpdate
    BY <1>1, <1>7 DEF AfterUpdate
  <2>2. QED
    BY <1>6, <1>7, <2>1 DEF ChannelOK, TickerOK
<1>14. ControlOK(c)'
  <2> SUFFICES ASSUME c \notin raced \cup undone, NEW k \in Chats
               PROVE  /\ control[k][c] = IF In(k, c)' THEN 1 ELSE 0
                      /\ In(k, c)' => k \in info[c]
                      /\ \A b \in Actors : Works(b, c)' => job'[b].stage \notin {"removeStore", "control"}
    BY <1>3 DEF ControlOK
  <2>1. \A b \in Actors : Works(b, c) => job[b].stage \notin {"removeStore", "control"}
    BY <1>1, <1>7 DEF Removal
  <2>2. /\ control[k][c] = IF In(k, c) THEN 1 ELSE 0
        /\ In(k, c) => k \in info[c]
    BY <1>6, <2>1 DEF ChannelOK, ControlOK
  <2>3. In(k, c)' <=> In(k, c)
    BY <1>1, <1>4, <1>8 DEF In
  <2>4. QED
    BY <1>10, <2>1, <2>2, <2>3
<1>16. StorageOK(c)' /\ StoredOK(c)' /\ RemovedOK(c)'
  BY <1>1, <1>3, <1>4, <1>6, <1>8 DEF ChannelOK, StorageOK, StoredOK, RemovedOK
<1>17. QED
  BY <1>5, <1>6, <1>12, <1>13, <1>14, <1>16 DEF ChannelOK

\* A job that updates changes nothing but the ticker after its unlock.
LEMMA AfterUpdateKeeps ==
    ASSUME TypeOK, Shaped, \A x \in Channels : ChannelOK(x), NEW a \in Actors, job[a] # NoJob,
           NEW c \in Channels, c = job[a].ch, job[a].stage \in AfterUpdate,
           NEW s \in AfterUpdate \cup {"migrate"}, Goes(a, s),
           UNCHANGED <<protected, storage, info, control, history, bounds>>,
           \A x \in Channels : x # c => tickers'[x] = tickers[x],
           TickerOK(c)'
    PROVE  \A x \in Channels : ChannelOK(x)'
<1>1. /\ protected' = protected /\ storage' = storage /\ info' = info /\ control' = control
      /\ removed' = removed /\ raced' = raced /\ unsynced' = unsynced /\ unsaved' = unsaved
      /\ undone' = undone /\ migrations' = migrations
  BY DEF history, bounds
<1>2. ASSUME NEW x \in Channels, x # c
      PROVE  ChannelOK(x)'
  <2>1. SameAt(x)
    BY <1>1, <1>2 DEF SameAt
  <2>2. QED
    BY <1>1, <1>2, <2>1, Elsewhere DEF Remembers, Stages, Removal, AfterUpdate
<1>3. ChannelOK(c) /\ Apart(c)'
  BY <1>1, StillApart DEF ChannelOK, Stages, Removal, AfterUpdate
<1>4. \A b \in Actors : Works(b, c)' =>
          \/ b = a /\ job'[a].stage \in AfterUpdate \cup {"migrate"}
          \/ b # a /\ Works(b, c) /\ job'[b] = job[b]
  BY DEF Goes, Works
<1>5. Works(a, c) /\ \A b \in Actors : b # a /\ Works(b, c) => Works(b, c)' /\ job'[b] = job[b]
  BY DEF Goes, Works
<1>6. Knows(c)'
  <2> SUFFICES ASSUME c \notin raced, NEW b \in Actors, Works(b, c), job'[b] = job[b]
               PROVE  /\ job[b].stage \in {"addStore", "addApply"} =>
                             job[b].rec = AddedTo(protected[c], job[b].chat, job[b].auto)
                      /\ job[b].stage \in {"updStore", "updApply"} =>
                             protected[c] # NotProtected /\ job[b].rec.chats = protected[c].chats
                      /\ job[b].stage \in {"detach", "removeStore"} => job[b].rec = protected[c]
                      /\ job[b].stage \in {"addApply", "updApply"} => storage[c] = job[b].rec
                      /\ job[b].stage = "read" /\ c \notin undone => control[job[b].chat][c] > 0
    BY <1>1, <1>4 DEF Knows, AfterUpdate
  <2> QED
    BY <1>3 DEF ChannelOK, Knows
<1>7. ControlOK(c)'
  <2>1. \A k \in Chats : In(k, c)' <=> In(k, c)
    BY <1>1 DEF In
  <2>2. QED
    BY <1>1, <1>3, <1>4, <1>5, <2>1 DEF ChannelOK, ControlOK, AfterUpdate
<1>8. StorageOK(c)' /\ StoredOK(c)' /\ RemovedOK(c)'
  BY <1>1, <1>3, <1>5 DEF ChannelOK, StorageOK, StoredOK, RemovedOK, AfterUpdate
<1>9. QED
  BY <1>2, <1>3, <1>6, <1>7, <1>8 DEF ChannelOK

\* A flag and a condition, compared.
LEMMA FlagIs ==
    ASSUME NEW v \in BOOLEAN, NEW n \in Nat
    PROVE  /\ (v = (n > 0)) => (v => n > 0) /\ (~v => ~(n > 0))
           /\ ~(v = (n > 0)) => (v => ~(n > 0)) /\ (~v => n > 0)
<1>1. CASE v = TRUE
  BY <1>1
<1>2. CASE v = FALSE
  BY <1>2
<1>3. QED
  BY <1>1, <1>2

LEMMA TickerStepKeeps ==
    ASSUME TypeOK, Shaped, \A x \in Channels : ChannelOK(x), NEW a \in Actors,
           SyncTicker(a) \/ RegisterTicker(a) \/ RemoveTickers(a),
           NEW c \in Channels, c = job[a].ch
    PROVE  \A x \in Channels : ChannelOK(x)'
<1>1. /\ job[a] # NoJob /\ job[a].stage \in AfterUpdate /\ job[a].rec \in Record
      /\ job[a].rec # NotProtected /\ Works(a, c)
  BY RegistrySentinels
     DEF SyncTicker, RegisterTicker, RemoveTickers, AtStage, AfterUpdate, Shaped, Works
<1>2. UNCHANGED <<protected, storage, info, control, history, bounds>>
  BY DEF SyncTicker, RegisterTicker, RemoveTickers, maps
<1>3. \A x \in Channels : x # c => tickers'[x] = tickers[x]
  BY DEF SyncTicker, RegisterTicker, RemoveTickers, maps, TypeOK
<1>4. ChannelOK(c)
  OBVIOUS
<1>5. c \notin unsynced => \A b \in Actors : b # a => ~Works(b, c)
  BY <1>1, <1>4, Company DEF ChannelOK, Works
<1>6. c \notin unsynced =>
         /\ protected[c] = job[a].rec
         /\ tickers[c] \in {0, 1}
         /\ job[a].stage = "register" => job[a].rec.auto /\ tickers[c] = 0
         /\ job[a].stage = "unregister" => ~job[a].rec.auto /\ tickers[c] = 1
  BY <1>1, <1>4 DEF ChannelOK, TickerOK
<1>7. c \notin unsynced => (Scheduled(c)' <=> job[a].rec.auto)
  BY <1>1, <1>2, <1>6 DEF Scheduled
<1>8. ASSUME Finish(a), c \notin unsynced => tickers'[c] = IF job[a].rec.auto THEN 1 ELSE 0
      PROVE  \A x \in Channels : ChannelOK(x)'
  <2>1. Goes(a, "migrate")
    BY <1>1, <1>8, GoesToEnd
  <2>2. c \notin unsynced => \A b \in Actors : Works(b, c)' => job'[b].stage \notin AfterUpdate
    BY <1>5, <2>1 DEF Goes, Works, AfterUpdate
  <2>3. TickerOK(c)'
    BY <1>2, <1>7, <1>8, <2>2 DEF TickerOK, history
  <2>4. QED
    BY <1>1, <1>2, <1>3, <2>1, <2>3, AfterUpdateKeeps
<1>9. PICK v \in BOOLEAN : v = job[a].rec.auto
  BY <1>1 DEF Record
<1>10. tickers[c] \in Nat /\ ((v = HasTicker(c)) <=> (v = (tickers[c] > 0)))
  BY DEF TypeOK, HasTicker
<1>11. CASE SyncTicker(a) /\ v = HasTicker(c)
  <2>1. Finish(a) /\ tickers' = tickers
    BY <1>9, <1>11 DEF SyncTicker, maps
  <2>2. (v => tickers[c] > 0) /\ (~v => ~(tickers[c] > 0))
    BY <1>10, <1>11, FlagIs
  <2>3. c \notin unsynced => tickers'[c] = IF v THEN 1 ELSE 0
    BY <1>6, <2>1, <2>2
  <2>4. QED
    BY <1>8, <1>9, <2>1, <2>3
<1>12. CASE SyncTicker(a) /\ ~(v = HasTicker(c))
  <2>1. PICK s \in {"register", "unregister"} : GoTo(a, s) /\ s = IF v THEN "register" ELSE "unregister"
    BY <1>9, <1>12 DEF SyncTicker
  <2>2. Goes(a, s) /\ job'[a] # NoJob
    BY <1>1, <2>1, GoesToStage DEF Stages
  <2>3. tickers' = tickers
    BY <1>12 DEF SyncTicker, maps
  <2>4. (v => ~(tickers[c] > 0)) /\ (~v => tickers[c] > 0)
    BY <1>10, <1>12, FlagIs
  <2>5. c \notin unsynced => (v => tickers[c] = 0) /\ (~v => tickers[c] = 1)
    BY <1>6, <2>4
  <2>6. /\ Works(a, c)' /\ job'[a].stage = s /\ job'[a].rec = job[a].rec
        /\ \A b \in Actors : b # a => (Works(b, c)' <=> Works(b, c))
    BY <1>1, <2>2 DEF Goes, Works
  <2>7. protected' = protected /\ unsynced' = unsynced
    BY <1>2 DEF history
  <2>8. TickerOK(c)'
    <3> SUFFICES ASSUME c \notin unsynced
                 PROVE  /\ protected[c] = job[a].rec /\ tickers[c] \in {0, 1}
                        /\ s = "register" => v /\ tickers[c] = 0
                        /\ s = "unregister" => ~v /\ tickers[c] = 1
      BY <1>5, <1>9, <2>3, <2>6, <2>7 DEF TickerOK, AfterUpdate
    <3> QED
      BY <1>6, <2>1, <2>5
  <2>9. QED
    BY <1>1, <1>2, <1>3, <2>2, <2>8, AfterUpdateKeeps DEF AfterUpdate
<1>13. CASE RegisterTicker(a)
  <2>1. tickers'[c] = tickers[c] + 1 /\ job[a].stage = "register" /\ Finish(a)
    BY <1>13 DEF RegisterTicker, AtStage, TypeOK
  <2>2. QED
    BY <1>6, <1>8, <2>1
<1>14. CASE RemoveTickers(a)
  <2>1. tickers'[c] = OneTickerLess(c) /\ job[a].stage = "unregister" /\ Finish(a)
    BY <1>14 DEF RemoveTickers, AtStage, TypeOK
  <2>2. QED
    BY <1>6, <1>8, <2>1 DEF OneTickerLess, HasTicker
<1>15. QED
  BY <1>11, <1>12, <1>13, <1>14

LEMMA CleanControlKeeps ==
    ASSUME TypeOK, Shaped, \A x \in Channels : ChannelOK(x), NEW a \in Actors, CleanControl(a),
           NEW c \in Channels, c = job[a].ch
    PROVE  \A x \in Channels : ChannelOK(x)'
<1>1. /\ job[a] # NoJob /\ job[a].stage = "control" /\ job[a].chat \in Chats /\ Works(a, c)
  BY DEF CleanControl, AtStage, Shaped, Removal, Works
<1>2. Goes(a, "migrate")
  BY <1>1, GoesToEnd DEF CleanControl
<1>3. /\ protected' = protected /\ storage' = storage /\ info' = info /\ tickers' = tickers
      /\ removed' = removed /\ raced' = raced /\ unsynced' = unsynced /\ unsaved' = unsaved
      /\ undone' = undone /\ migrations' = migrations
  BY DEF CleanControl, history, bounds
<1>4. \A k \in Chats, x \in Channels :
          control'[k][x] = IF k = job[a].chat /\ x = c /\ control[k][x] > 0
                           THEN control[k][x] - 1 ELSE control[k][x]
  BY <1>1 DEF CleanControl, TypeOK
<1>5. ASSUME NEW x \in Channels, x # c
      PROVE  ChannelOK(x)'
  <2>1. SameAt(x)
    BY <1>3, <1>4, <1>5 DEF SameAt
  <2>2. QED
    BY <1>1, <1>2, <1>3, <1>5, <2>1, Elsewhere DEF Remembers, Stages, Removal
<1>6. ChannelOK(c) /\ Apart(c)'
  BY <1>1, <1>2, <1>3, StillApart DEF ChannelOK, Stages, Removal
<1>7. \A b \in Actors : b # a /\ Works(b, c) => c \in unsynced /\ c \in raced
  BY <1>1, <1>6, Company DEF ChannelOK, Removal, Works
<1>8. \A b \in Actors : Works(b, c)' =>
          \/ b = a /\ job'[a].stage = "migrate"
          \/ b # a /\ Works(b, c) /\ job'[b] = job[b]
  BY <1>2 DEF Goes, Works
<1>9. \A b \in Actors : b # a /\ Works(b, c) => Works(b, c)' /\ job'[b] = job[b]
  BY <1>2 DEF Goes, Works
<1>10. Knows(c)'
  BY <1>3, <1>7, <1>8 DEF Knows
<1>11. TickerOK(c)'
  <2> SUFFICES ASSUME c \notin unsynced
               PROVE  /\ tickers[c] = IF Scheduled(c) THEN 1 ELSE 0
                      /\ \A b \in Actors : Works(b, c)' => job'[b].stage \notin AfterUpdate
    BY <1>3 DEF TickerOK, Scheduled
  <2>1. \A b \in Actors : Works(b, c) => job[b].stage \notin AfterUpdate
    BY <1>1, <1>7 DEF AfterUpdate
  <2>2. QED
    BY <1>6, <1>7, <1>8, <2>1 DEF ChannelOK, TickerOK, AfterUpdate
<1>12. ControlOK(c)'
  <2> SUFFICES ASSUME c \notin raced \cup undone, NEW k \in Chats
               PROVE  /\ control'[k][c] = IF In(k, c) THEN 1 ELSE 0
                      /\ In(k, c) => k \in info[c]
                      /\ \A b \in Actors : Works(b, c)' => job'[b].stage \notin {"removeStore", "control"}
    BY <1>3 DEF ControlOK, In
  <2>1. \A b \in Actors : Works(b, c)' => job'[b].stage \notin {"removeStore", "control"}
    BY <1>7, <1>8
  <2>2. CASE k = job[a].chat
    <3>1. control[k][c] \in {0, 1} /\ ~In(k, c)
      BY <1>1, <1>6, <2>2 DEF ChannelOK, ControlOK
    <3>2. QED
      BY <1>4, <2>1, <2>2, <3>1
  <2>3. CASE k # job[a].chat
    <3>1. \A b \in Actors : Works(b, c) /\ job[b].chat = k => job[b].stage \notin {"removeStore", "control"}
      BY <1>7, <2>3
    <3>2. control[k][c] = (IF In(k, c) THEN 1 ELSE 0) /\ (In(k, c) => k \in info[c])
      BY <1>6, <3>1 DEF ChannelOK, ControlOK
    <3>3. QED
      BY <1>4, <2>1, <2>3, <3>2
  <2>4. QED
    BY <2>2, <2>3
<1>13. StorageOK(c)' /\ StoredOK(c)' /\ RemovedOK(c)'
  BY <1>1, <1>3, <1>6, <1>9 DEF ChannelOK, StorageOK, StoredOK, RemovedOK
<1>14. QED
  BY <1>5, <1>6, <1>10, <1>11, <1>12, <1>13 DEF ChannelOK

LEMMA CleanReadKeeps ==
    ASSUME TypeOK, Shaped, \A x \in Channels : ChannelOK(x), NEW a \in Actors, CleanRead(a),
           NEW c \in Channels, c = job[a].ch
    PROVE  \A x \in Channels : ChannelOK(x)'
<1>1. /\ job[a] # NoJob /\ job[a].stage = "read" /\ job[a].chat \in Chats /\ Works(a, c)
      /\ job[a].to = NoChannel
  BY DEF CleanRead, AtStage, Shaped, Removal, Works
<1>2. /\ protected' = protected /\ storage' = storage /\ info' = info /\ tickers' = tickers
      /\ control' = control /\ raced' = raced /\ unsynced' = unsynced /\ unsaved' = unsaved
      /\ undone' = undone /\ migrations' = migrations
      /\ \A x \in Channels : x # c => (x \in removed' <=> x \in removed)
  BY DEF CleanRead, maps, bounds
<1>3. \/ /\ protected[c] = NotProtected /\ job'[a] = NoJob
         /\ \A b \in Actors : b # a => job'[b] = job[b]
      \/ /\ protected[c] # NotProtected /\ removed' = removed
         /\ \A b \in Actors : b # a => job'[b] = job[b]
         /\ job'[a] # NoJob /\ job'[a].stage = "detach" /\ job'[a].rec = protected[c]
         /\ job'[a].ch = c /\ job'[a].chat = job[a].chat /\ job'[a].to = job[a].to
  <2>1. CASE protected[c] = NotProtected
    BY <1>1, <2>1, FinishType, RegistryAssumption DEF CleanRead
  <2>2. CASE protected[c] # NotProtected
    <3>1. job' = [job EXCEPT ![a].stage = "detach", ![a].rec = protected[c]] /\ removed' = removed
      BY <2>2 DEF CleanRead
    <3>2. job'[a] = [job[a] EXCEPT !.stage = "detach", !.rec = protected[c]]
          /\ \A b \in Actors : b # a => job'[b] = job[b]
      BY <3>1 DEF TypeOK
    <3>3. [job[a] EXCEPT !.stage = "detach", !.rec = protected[c]] \in Job
      <4>1. job[a] \in Job
        BY <1>1, JobType
      <4>2. protected[c] \in Record \cup {NotProtected}
        BY DEF TypeOK
      <4>3. QED
        BY <4>1, <4>2, ReadType
    <3>4. QED
      <4>1. job[a] \in Job /\ protected[c] \in Record \cup {NotProtected}
        BY <1>1, JobType DEF TypeOK
      <4>2. /\ job'[a].stage = "detach" /\ job'[a].rec = protected[c] /\ job'[a].ch = job[a].ch
            /\ job'[a].chat = job[a].chat /\ job'[a].to = job[a].to
        BY <3>2, <4>1 DEF Job
      <4>3. job'[a] # NoJob
        BY <3>2, <3>3, RegistrySentinels
      <4>4. QED
        BY <2>2, <3>1, <3>2, <4>2, <4>3
  <2>3. QED
    BY <2>1, <2>2
<1>4. ChannelOK(c)
  OBVIOUS
<1>5. \A b \in Actors : b # a /\ Works(b, c) => c \in unsynced /\ c \in raced
  BY <1>1, <1>4, Company DEF ChannelOK, Removal, Works
<1>6. \A x \in Channels : Apart(x)'
  <2>1. \A x \in Channels, b \in Actors : Busy(b, x)' => Busy(b, x)
    BY <1>1, <1>3 DEF Busy
  <2>2. \A b \in Actors : Removing(b)' => Removing(b)
    BY <1>1, <1>3 DEF Removing, AtStage
  <2>3. QED
    BY <1>2, <2>1, <2>2 DEF ChannelOK, Apart
<1>7. ASSUME NEW x \in Channels, x # c
      PROVE  ChannelOK(x)'
  <2>1. SameAt(x) /\ Remembers(x)
    BY <1>2, <1>7 DEF SameAt, Remembers
  <2>2. \A b \in Actors : Works(b, x) \/ Works(b, x)' => job'[b] = job[b]
    BY <1>1, <1>3, <1>7 DEF Works
  <2>3. QED
    BY <1>6, <2>1, <2>2, Untouched
<1>8. c \notin raced \cup undone => protected[c] # NotProtected
  <2> SUFFICES ASSUME c \notin raced \cup undone
               PROVE  In(job[a].chat, c)
    BY DEF In
  <2>1. control[job[a].chat][c] > 0
    BY <1>1, <1>4 DEF ChannelOK, Knows
  <2>2. \A b \in Actors : Works(b, c) => job[b].stage \notin {"removeStore", "control"}
    BY <1>1, <1>5
  <2>3. control[job[a].chat][c] = IF In(job[a].chat, c) THEN 1 ELSE 0
    BY <1>1, <1>4, <2>2 DEF ChannelOK, ControlOK
  <2>4. QED
    BY <2>1, <2>3
<1>9. \A b \in Actors : Works(b, c)' =>
          \/ b = a /\ job'[a].stage = "detach" /\ job'[a].rec = protected[c]
          \/ b # a /\ Works(b, c) /\ job'[b] = job[b]
  BY <1>1, <1>3 DEF Works
<1>10. Knows(c)'
  BY <1>2, <1>5, <1>9 DEF Knows
<1>11. TickerOK(c)'
  <2> SUFFICES ASSUME c \notin unsynced
               PROVE  /\ tickers[c] = IF Scheduled(c) THEN 1 ELSE 0
                      /\ \A b \in Actors : Works(b, c)' => job'[b].stage \notin AfterUpdate
    BY <1>2 DEF TickerOK, Scheduled
  <2>1. \A b \in Actors : Works(b, c) => job[b].stage \notin AfterUpdate
    BY <1>1, <1>5 DEF AfterUpdate
  <2>2. QED
    BY <1>4, <1>5, <1>9, <2>1 DEF ChannelOK, TickerOK, AfterUpdate
<1>12. ControlOK(c)'
  <2> SUFFICES ASSUME c \notin raced \cup undone, NEW k \in Chats
               PROVE  /\ control[k][c] = IF In(k, c) THEN 1 ELSE 0
                      /\ In(k, c) => k \in info[c]
                      /\ \A b \in Actors : Works(b, c)' => job'[b].stage \notin {"removeStore", "control"}
    BY <1>2 DEF ControlOK, In
  <2>1. \A b \in Actors : Works(b, c) => job[b].stage \notin {"removeStore", "control"}
    BY <1>1, <1>5
  <2>2. QED
    BY <1>4, <1>5, <1>9, <2>1 DEF ChannelOK, ControlOK
<1>13. StorageOK(c)'
  <2>1. c \notin raced => \A b \in Actors : Works(b, c) =>
            job[b].stage \notin {"addApply", "updApply", "removeStore"}
    BY <1>1, <1>5
  <2>2. QED
    BY <1>2, <1>4, <2>1 DEF ChannelOK, StorageOK
<1>14. StoredOK(c)'
  BY <1>2, <1>4 DEF ChannelOK, StoredOK
<1>15. RemovedOK(c)'
  <2>1. c \notin raced => \A b \in Actors : Works(b, c) => job[b].stage \notin {"addApply", "removeStore"}
    BY <1>1, <1>5
  <2>2. QED
    BY <1>2, <1>3, <1>4, <1>8, <2>1 DEF ChannelOK, RemovedOK
<1>16. QED
  BY <1>6, <1>7, <1>10, <1>11, <1>12, <1>13, <1>14, <1>15 DEF ChannelOK

\* What the calls to Redis have in common: memory stays as it is.
LEMMA StoringKeeps ==
    ASSUME TypeOK, Shaped, \A x \in Channels : ChannelOK(x), NEW a \in Actors, job[a] # NoJob,
           NEW c \in Channels, c = job[a].ch,
           job[a].stage \in {"addStore", "updStore", "removeStore"},
           NEW s \in Stages \ (AfterUpdate \cup {"read", "detach", "removeStore"}), Goes(a, s),
           s \in Removal => job[a].stage \in Removal,
           maps' = maps, raced' = raced, unsynced' = unsynced, migrations' = migrations,
           unsaved \subseteq unsaved', undone \subseteq undone',
           \A x \in Channels : x # c => storage'[x] = storage[x] /\ (x \in removed' => x \in removed)
    PROVE  /\ \A x \in Channels : x # c => ChannelOK(x)'
           /\ Apart(c)' /\ TickerOK(c)'
           /\ \A b \in Actors : b # a /\ Works(b, c) =>
                 /\ job[a].stage \in Locking => job[b].stage \notin Locking
                 /\ c \notin raced => job[a].stage \in Locking /\ job[b].stage \notin Removal
           /\ c \notin raced => \A b \in Actors : b # a /\ Works(b, c) =>
                 job[b].stage \notin Locking \cup Removal
<1>1. /\ protected' = protected /\ info' = info /\ tickers' = tickers /\ control' = control
  BY DEF maps
<1>2. ASSUME NEW x \in Channels, x # c
      PROVE  ChannelOK(x)'
  <2>1. SameAt(x) /\ Remembers(x)
    BY <1>1, <1>2 DEF SameAt, Remembers
  <2>2. QED
    BY <1>2, <2>1, Elsewhere
<1>3. ChannelOK(c) /\ Apart(c)' /\ Works(a, c)
  BY StillApart DEF ChannelOK, Works
<1>4. \A b \in Actors : b # a /\ Works(b, c) =>
         /\ job[a].stage \in Locking => job[b].stage \notin Locking
         /\ c \in unsynced
         /\ c \notin raced => job[a].stage \notin Removal /\ job[b].stage \notin Removal
  BY <1>3, Company DEF ChannelOK, Works
<1>5. job[a].stage \notin Removal => job[a].stage \in Locking
  BY DEF Removal, Locking
<1>6. TickerOK(c)'
  <2> SUFFICES ASSUME c \notin unsynced
               PROVE  /\ tickers[c] = IF Scheduled(c) THEN 1 ELSE 0
                      /\ \A b \in Actors : Works(b, c)' => job'[b].stage \notin AfterUpdate
    BY <1>1 DEF TickerOK, Scheduled
  <2>1. \A b \in Actors : Works(b, c) => job[b].stage \notin AfterUpdate
    BY <1>4 DEF AfterUpdate
  <2>2. \A b \in Actors : Works(b, c)' => job'[b].stage \notin AfterUpdate
    BY <1>4 DEF Goes, Works
  <2>3. QED
    BY <1>3, <2>1, <2>2 DEF ChannelOK, TickerOK
<1>7. QED
  BY <1>2, <1>3, <1>4, <1>5, <1>6

LEMMA StorageWriteKeeps ==
    ASSUME TypeOK, Shaped, \A x \in Channels : ChannelOK(x), NEW a \in Actors, StorageWrite(a),
           NEW c \in Channels, c = job[a].ch
    PROVE  \A x \in Channels : ChannelOK(x)'
<1> DEFINE s == AfterStore[job[a].stage]
<1>1. /\ job[a] # NoJob /\ job[a].stage \in {"addStore", "updStore", "removeStore"} /\ Works(a, c)
      /\ job[a].stage \in Locking => job[a].rec \in Record /\ job[a].rec # NotProtected
  BY RegistrySentinels DEF StorageWrite, Storing, AfterStore, AtStage, Shaped, Works, Locking
<1>2. PICK t \in {"addApply", "updApply", "control"} :
        /\ GoTo(a, t)
        /\ t = "addApply" <=> job[a].stage = "addStore"
        /\ t = "updApply" <=> job[a].stage = "updStore"
        /\ t = "control" <=> job[a].stage = "removeStore"
  BY <1>1 DEF StorageWrite, AfterStore
<1>3. Goes(a, t) /\ job'[a] # NoJob
  BY <1>1, <1>2, GoesToStage DEF Stages
<1>4. /\ maps' = maps /\ protected' = protected /\ info' = info /\ control' = control
      /\ removed' = removed /\ raced' = raced /\ unsynced' = unsynced /\ unsaved' = unsaved
      /\ undone' = undone /\ migrations' = migrations
  BY DEF StorageWrite, maps, bounds, history
<1>5. storage'[c] = job[a].rec /\ \A x \in Channels : x # c => storage'[x] = storage[x]
  BY DEF StorageWrite, TypeOK
<1>6. /\ \A x \in Channels : x # c => ChannelOK(x)'
      /\ Apart(c)' /\ TickerOK(c)'
      /\ c \notin raced => \A b \in Actors : b # a /\ Works(b, c) =>
             job[b].stage \notin Locking \cup Removal
  <2>1. t \in Stages \ (AfterUpdate \cup {"read", "detach", "removeStore"})
    BY <1>2 DEF Stages, AfterUpdate
  <2>2. t \in Removal => job[a].stage \in Removal
    BY <1>2 DEF Removal
  <2>3. QED
    BY <1>1, <1>3, <1>4, <1>5, <2>1, <2>2, StoringKeeps
<1>7. ChannelOK(c)
  OBVIOUS
<1>8. /\ Works(a, c)' /\ job'[a].stage = t /\ job'[a].rec = job[a].rec
      /\ job'[a].chat = job[a].chat /\ job'[a].auto = job[a].auto
      /\ \A b \in Actors : b # a => job'[b] = job[b] /\ (Works(b, c)' <=> Works(b, c))
  BY <1>1, <1>3 DEF Goes, Works
<1>9. c \notin raced =>
         /\ t = "addApply" => job[a].rec = AddedTo(protected[c], job[a].chat, job[a].auto)
         /\ t = "updApply" => protected[c] # NotProtected /\ job[a].rec.chats = protected[c].chats
         /\ t = "control" => job[a].rec = protected[c]
  BY <1>1, <1>2, <1>7 DEF ChannelOK, Knows
<1>10. Knows(c)'
  <2> SUFFICES ASSUME c \notin raced, NEW b \in Actors, b # a, Works(b, c), job'[b] = job[b]
               PROVE  job[b].stage \notin Locking \cup {"read", "detach", "removeStore"}
    BY <1>2, <1>4, <1>5, <1>8, <1>9 DEF Knows, Locking
  <2> QED
    BY <1>6 DEF Removal
<1>11. ControlOK(c)'
  <2> SUFFICES ASSUME c \notin raced \cup undone, NEW k \in Chats
               PROVE  /\ (\A b \in Actors : Works(b, c)' /\ job'[b].chat = k =>
                                            job'[b].stage \notin {"removeStore", "control"})
                            => /\ control[k][c] = IF In(k, c) THEN 1 ELSE 0
                               /\ In(k, c) => k \in info[c]
                      /\ \A b \in Actors : Works(b, c)' /\ job'[b].chat = k
                                           /\ job'[b].stage \in {"removeStore", "control"} =>
                             control[k][c] \in {0, 1} /\ ~In(k, c)
    BY <1>4 DEF ControlOK, In
  <2>1. \A b \in Actors : /\ Works(b, c)' <=> Works(b, c)
                          /\ job'[b].chat = job[b].chat
                          /\ job'[b].stage \in {"removeStore", "control"} <=>
                                job[b].stage \in {"removeStore", "control"}
    BY <1>1, <1>2, <1>8
  <2>2. QED
    BY <1>7, <2>1 DEF ChannelOK, ControlOK
<1>12. StorageOK(c)'
  BY <1>2, <1>4, <1>5, <1>8, <1>9 DEF StorageOK
<1>13. StoredOK(c)'
  BY <1>1, <1>2, <1>4, <1>5, <1>9 DEF StoredOK, Locking
<1>14. RemovedOK(c)'
  BY <1>2, <1>4, <1>5, <1>7, <1>8, <1>9 DEF ChannelOK, RemovedOK
<1>15. QED
  BY <1>6, <1>10, <1>11, <1>12, <1>13, <1>14 DEF ChannelOK

LEMMA StorageFailsKeeps ==
    ASSUME TypeOK, Shaped, \A x \in Channels : ChannelOK(x), NEW a \in Actors,
           NEW applied \in BOOLEAN, StorageFails(a, applied), NEW c \in Channels, c = job[a].ch
    PROVE  \A x \in Channels : ChannelOK(x)'
<1>1. /\ job[a] # NoJob /\ job[a].stage \in {"addStore", "updStore", "removeStore"} /\ Works(a, c)
      /\ job[a].stage # "removeStore" => job[a].rec \in Record /\ job[a].rec # NotProtected
  BY RegistrySentinels DEF StorageFails, Storing, AfterStore, AtStage, Shaped, Works, Locking
<1>2. Removing(a) <=> job[a].stage = "removeStore"
  BY <1>1 DEF Removing, AtStage
<1>3. Goes(a, "migrate")
  BY <1>1, GoesToEnd DEF StorageFails
<1>4. /\ maps' = maps /\ protected' = protected /\ info' = info /\ control' = control
      /\ raced' = raced /\ unsynced' = unsynced /\ migrations' = migrations
      /\ unsaved' = IF applied \/ job[a].stage = "removeStore" THEN unsaved \cup {c} ELSE unsaved
      /\ removed' = IF applied \/ job[a].stage = "removeStore" THEN removed \ {c} ELSE removed
      /\ undone' = IF job[a].stage = "removeStore" THEN undone \cup {c} ELSE undone
  BY <1>2 DEF StorageFails, maps
<1>5. /\ storage'[c] = IF applied THEN job[a].rec ELSE storage[c]
      /\ \A x \in Channels : x # c => storage'[x] = storage[x]
  BY DEF StorageFails, TypeOK
<1>6. /\ \A x \in Channels : x # c => ChannelOK(x)'
      /\ Apart(c)' /\ TickerOK(c)'
      /\ c \notin raced => \A b \in Actors : b # a /\ Works(b, c) =>
             job[b].stage \notin Locking \cup Removal
  BY <1>1, <1>3, <1>4, <1>5, StoringKeeps DEF Stages, AfterUpdate, Removal
<1>7. ChannelOK(c)
  OBVIOUS
<1>8. \A b \in Actors : Works(b, c)' =>
          \/ b = a /\ job'[a].stage = "migrate"
          \/ b # a /\ Works(b, c) /\ job'[b] = job[b]
  BY <1>3 DEF Goes, Works
<1>9. \A b \in Actors : b # a /\ Works(b, c) => Works(b, c)' /\ job'[b] = job[b]
  BY <1>3 DEF Goes, Works
<1>10. Knows(c)'
  <2> SUFFICES ASSUME c \notin raced, NEW b \in Actors, b # a, Works(b, c), job'[b] = job[b]
               PROVE  job[b].stage \notin Locking \cup {"read", "detach", "removeStore"}
    BY <1>4, <1>8 DEF Knows, Locking
  <2> QED
    BY <1>6 DEF Removal
<1>11. ControlOK(c)'
  <2> SUFFICES ASSUME c \notin raced \cup undone, job[a].stage # "removeStore", NEW k \in Chats
               PROVE  /\ control[k][c] = IF In(k, c) THEN 1 ELSE 0
                      /\ In(k, c) => k \in info[c]
                      /\ \A b \in Actors : Works(b, c)' => job'[b].stage \notin {"removeStore", "control"}
    BY <1>4 DEF ControlOK, In
  <2>1. \A b \in Actors : Works(b, c) => job[b].stage \notin {"removeStore", "control"}
    BY <1>1, <1>6 DEF Removal
  <2>2. QED
    BY <1>7, <1>8, <2>1 DEF ChannelOK, ControlOK
<1>12. StorageOK(c)'
  <2> SUFFICES ASSUME c \notin raced \cup unsaved, ~applied, job[a].stage # "removeStore"
               PROVE  storage[c] = protected[c]
    BY <1>4, <1>5 DEF StorageOK
  <2>1. \A b \in Actors : Works(b, c) => job[b].stage \notin {"addApply", "updApply", "removeStore"}
    BY <1>1, <1>6 DEF Removal, Locking
  <2>2. QED
    BY <1>7, <2>1 DEF ChannelOK, StorageOK
<1>13. StoredOK(c)'
  <2>1. c \notin raced /\ job[a].stage = "removeStore" => job[a].rec = protected[c]
    BY <1>1, <1>7 DEF ChannelOK, Knows
  <2>2. QED
    BY <1>1, <1>4, <1>5, <1>7, <2>1 DEF ChannelOK, StoredOK
<1>14. RemovedOK(c)'
  <2> SUFFICES ASSUME c \in removed \ (raced \cup undone), ~applied, job[a].stage # "removeStore"
               PROVE  protected[c] = NotProtected /\ storage[c] = NotProtected
    BY <1>4, <1>5 DEF RemovedOK
  <2>1. \A b \in Actors : Works(b, c) => job[b].stage \notin {"addApply", "removeStore"}
    BY <1>1, <1>6 DEF Removal, Locking
  <2>2. QED
    BY <1>7, <2>1 DEF ChannelOK, RemovedOK
<1>15. QED
  BY <1>6, <1>10, <1>11, <1>12, <1>13, <1>14 DEF ChannelOK

LEMMA CleanDetachKeeps ==
    ASSUME TypeOK, Shaped, \A x \in Channels : ChannelOK(x), NEW a \in Actors,
           NEW swapped \in BOOLEAN, CleanDetach(a, swapped), NEW c \in Channels, c = job[a].ch
    PROVE  \A x \in Channels : ChannelOK(x)'
<1> DEFINE k == job[a].chat
           rest == job[a].rec.chats \ {k}
           next == IF rest = {} THEN NotProtected ELSE [job[a].rec EXCEPT !.chats = rest]
<1>1. /\ job[a] # NoJob /\ job[a].stage = "detach" /\ k \in Chats /\ Works(a, c)
      /\ job[a].rec \in Record /\ job[a].rec # NotProtected /\ job[a] \in Job
  BY JobType, RegistrySentinels DEF CleanDetach, AtStage, Shaped, Removal, Works
<1>2. /\ next = NotProtected => rest = {}
      /\ next # NotProtected => next.chats = rest /\ next.auto = job[a].rec.auto
      /\ next \in Record \cup {NotProtected}
  BY <1>1, RegistrySentinels DEF Record
<1>3. /\ storage' = storage /\ control' = control
      /\ raced' = raced /\ unsynced' = unsynced /\ unsaved' = unsaved
      /\ undone' = undone /\ migrations' = migrations
  BY DEF CleanDetach, bounds
<1>4. /\ protected'[c] = next
      /\ tickers'[c] = IF rest = {} THEN OneTickerLess(c) ELSE tickers[c]
      /\ info[c] \ {k} \subseteq info'[c]
  BY DEF CleanDetach, TypeOK
<1>5. \A x \in Channels : x # c =>
          /\ protected'[x] = protected[x] /\ tickers'[x] = tickers[x] /\ info'[x] = info[x]
          /\ x \in removed' => x \in removed
  BY DEF CleanDetach, TypeOK
<1>6. c \in removed' => rest = {} \/ c \in removed
  BY DEF CleanDetach
<1>7. /\ job'[a] # NoJob /\ job'[a].stage = "removeStore" /\ job'[a].rec = next
      /\ job'[a].ch = c /\ job'[a].chat = k /\ job'[a].to = job[a].to
  <2>1. job'[a] = [job[a] EXCEPT !.stage = "removeStore", !.rec = next]
    BY DEF CleanDetach
  <2>2. [job[a] EXCEPT !.stage = "removeStore", !.rec = next] \in Job
    BY <1>1, <1>2 DEF Job, Stages
  <2>3. job'[a] # NoJob
    BY <2>1, <2>2, RegistrySentinels
  <2>4. QED
    BY <1>1, <2>1, <2>3 DEF Job
<1>8. \A b \in Actors : b # a =>
          \/ job'[b] = job[b]
          \/ /\ job[b] # NoJob /\ job[b].ch = c /\ job[b].stage \in {"updStore", "updApply"}
             /\ job'[b] = [job[b] EXCEPT !.rec.chats = @ \ {k}]
  BY DEF CleanDetach, Updating, AtStage
<1>9. ASSUME NEW b \in Actors, b # a, job'[b] # NoJob
      PROVE  /\ job[b] # NoJob /\ job'[b].stage = job[b].stage
             /\ job'[b].ch = job[b].ch /\ job'[b].to = job[b].to
  <2>1. CASE job'[b] = job[b]
    BY <1>9, <2>1
  <2>2. CASE job[b] # NoJob /\ job'[b] = [job[b] EXCEPT !.rec.chats = @ \ {k}]
    BY <2>2, JobType DEF Job
  <2>3. QED
    BY <1>8, <1>9, <2>1, <2>2
<1>10. \A x \in Channels : Apart(x)'
  <2>1. \A x \in Channels, b \in Actors : Busy(b, x)' => Busy(b, x)
    BY <1>1, <1>7, <1>9 DEF Busy
  <2>2. \A b \in Actors : Removing(b)' => Removing(b)
    BY <1>1, <1>7, <1>9 DEF Removing, AtStage
  <2>3. QED
    BY <1>3, <2>1, <2>2 DEF ChannelOK, Apart
<1>11. ASSUME NEW x \in Channels, x # c
       PROVE  ChannelOK(x)'
  <2>1. SameAt(x) /\ Remembers(x)
    BY <1>3, <1>5, <1>11 DEF SameAt, Remembers
  <2>2. \A b \in Actors : Works(b, x) \/ Works(b, x)' => job'[b] = job[b]
    BY <1>1, <1>7, <1>8, <1>9, <1>11 DEF Works
  <2>3. QED
    BY <1>10, <2>1, <2>2, Untouched
<1>12. ChannelOK(c)
  OBVIOUS
<1>13. c \notin raced => \A b \in Actors : b # a => ~Works(b, c) /\ ~Works(b, c)'
  BY <1>1, <1>9, <1>12, Company DEF ChannelOK, Removal, Works
<1>14. c \notin unsynced => c \notin raced
  BY <1>12 DEF ChannelOK, Apart
<1>15. c \notin raced => job[a].rec = protected[c]
  BY <1>1, <1>12 DEF ChannelOK, Knows
<1>16. Works(a, c)'
  BY <1>7 DEF Works
<1>17. Knows(c)'
  BY <1>3, <1>4, <1>7, <1>13 DEF Knows
<1>18. TickerOK(c)'
  <2> SUFFICES ASSUME c \notin unsynced
               PROVE  tickers'[c] = IF Scheduled(c)' THEN 1 ELSE 0
    BY <1>3, <1>7, <1>13, <1>14 DEF TickerOK, AfterUpdate
  <2>1. tickers[c] = IF Scheduled(c) THEN 1 ELSE 0
    BY <1>1, <1>12, <1>13, <1>14 DEF ChannelOK, TickerOK, AfterUpdate
  <2>2. CASE rest = {}
    BY <1>4, <2>1, <2>2 DEF OneTickerLess, HasTicker, Scheduled
  <2>3. CASE rest # {}
    BY <1>1, <1>2, <1>4, <1>14, <1>15, <2>1, <2>3 DEF Scheduled
  <2>4. QED
    BY <2>2, <2>3
<1>19. ControlOK(c)'
  <2> SUFFICES ASSUME c \notin raced \cup undone, NEW m \in Chats
               PROVE  /\ m # k => /\ control[m][c] = IF In(m, c)' THEN 1 ELSE 0
                                  /\ In(m, c)' => m \in info'[c]
                      /\ m = k => control[m][c] \in {0, 1} /\ ~In(m, c)'
    BY <1>3, <1>7, <1>13, <1>16 DEF ControlOK
  <2>1. /\ control[m][c] = IF In(m, c) THEN 1 ELSE 0
        /\ In(m, c) => m \in info[c]
    BY <1>1, <1>12, <1>13 DEF ChannelOK, ControlOK
  <2>2. In(m, c)' <=> m \in rest
    BY <1>2, <1>4 DEF In
  <2>3. In(m, c) <=> m \in job[a].rec.chats
    BY <1>1, <1>15 DEF In
  <2>4. QED
    BY <1>4, <2>1, <2>2, <2>3
<1>20. StorageOK(c)'
  BY <1>7, <1>16 DEF StorageOK
<1>21. StoredOK(c)'
  BY <1>1, <1>3, <1>12, <1>15 DEF ChannelOK, StoredOK
<1>22. RemovedOK(c)'
  <2> SUFFICES ASSUME c \in removed', c \notin raced \cup undone
               PROVE  protected'[c] = NotProtected
    BY <1>3, <1>7, <1>16 DEF RemovedOK
  <2>1. CASE rest = {}
    BY <1>4, <2>1
  <2>2. CASE c \in removed
    BY <1>1, <1>12, <1>15, <2>2 DEF ChannelOK, RemovedOK
  <2>3. QED
    BY <1>6, <2>1, <2>2
<1>23. QED
  BY <1>10, <1>11, <1>17, <1>18, <1>19, <1>20, <1>21, <1>22 DEF ChannelOK

LEMMA MigrateChannelKeeps ==
    ASSUME TypeOK, Shaped, \A x \in Channels : ChannelOK(x), NEW a \in Actors, MigrateChannel(a),
           NEW c \in Channels, c = job[a].ch, NEW d \in Channels, d = job[a].to
    PROVE  \A x \in Channels : ChannelOK(x)'
<1> DEFINE met == \/ protected[c] = NotProtected
                  \/ protected[d] # NotProtected \/ tickers[d] > 0
                  \/ \E b \in Actors \ {a} : Busy(b, c) \/ Busy(b, d)
<1>1. job[a] # NoJob /\ job[a].stage = "migrate" /\ Works(a, c)
  BY DEF MigrateChannel, AtStage, Works
<1>2. /\ job'[a] = NoJob /\ \A b \in Actors : b # a => job'[b] = job[b]
      /\ storage' = storage
  BY DEF MigrateChannel, TypeOK
<1>3. /\ raced' = raced \cup {x \in {c, d} : met \/ c \in raced}
      /\ unsynced' = unsynced \cup {x \in {c, d} : met \/ c \in unsynced}
      /\ unsaved' = unsaved \cup {c, d} /\ removed' = removed \ {d}
      /\ undone' = undone \cup {x \in {d} : c \in undone}
      /\ migrations' = migrations + 1 /\ migrations' # 0
  BY DEF MigrateChannel, TypeOK
<1>4. \A x \in Channels : x \notin {c, d} =>
          /\ protected'[x] = protected[x] /\ tickers'[x] = tickers[x] /\ info'[x] = info[x]
          /\ \A k \in Chats : control'[k][x] = control[k][x]
  BY DEF MigrateChannel, TypeOK
<1>5. ~met => c # d
  OBVIOUS
<1>6. ~met => /\ protected'[c] = NotProtected /\ protected'[d] = protected[c]
              /\ info'[c] = {} /\ info'[d] = info[c]
              /\ tickers'[c] = 0 /\ tickers'[d] = tickers[d] + tickers[c]
  BY <1>5 DEF MigrateChannel, TypeOK
<1>7. ~met => \A k \in Chats :
          /\ k \in info[c] => control'[k][c] = 0 /\ control'[k][d] = control[k][d] + control[k][c]
          /\ k \notin info[c] => control'[k][c] = control[k][c] /\ control'[k][d] = control[k][d]
  BY <1>5 DEF MigrateChannel, TypeOK
<1>8. \A b \in Actors, x \in Channels : Busy(b, x)' => b # a /\ Busy(b, x) /\ job'[b] = job[b]
  BY <1>2 DEF Busy
<1>9. \A x \in Channels : Apart(x)'
  <2>1. \A b \in Actors : Removing(b)' => Removing(b)
    BY <1>2 DEF Removing, AtStage
  <2>2. \A x \in Channels : x \in raced' => x \in unsynced'
    BY <1>3 DEF ChannelOK, Apart
  <2>3. raced \subseteq raced' /\ unsynced \subseteq unsynced'
    BY <1>3
  <2>4. QED
    BY <1>8, <2>1, <2>2, <2>3 DEF ChannelOK, Apart
<1>10. ASSUME NEW x \in Channels, x \notin {c, d}
       PROVE  ChannelOK(x)'
  <2>1. SameAt(x) /\ Remembers(x)
    BY <1>2, <1>3, <1>4, <1>10 DEF SameAt, Remembers, TypeOK
  <2>2. \A b \in Actors : Works(b, x) \/ Works(b, x)' => job'[b] = job[b]
    BY <1>2, <1>10 DEF Works
  <2>3. QED
    BY <1>9, <2>1, <2>2, Untouched
<1>11. ~met => \A x \in {c, d}, b \in Actors : ~Works(b, x)' /\ (b # a => ~Works(b, x))
  BY <1>2 DEF Works, Busy
<1>12. ChannelOK(c) /\ ChannelOK(d)
  OBVIOUS
<1>13. ASSUME NEW x \in {c, d}
       PROVE  ChannelOK(x)'
  <2>1. /\ x \notin raced' => ~met /\ c \notin raced /\ x \notin raced
        /\ x \notin unsynced' => ~met /\ c \notin unsynced /\ x \notin unsynced
        /\ x \notin undone' => x \notin undone /\ (x = d => c \notin undone)
    BY <1>3
  <2>2. Knows(x)'
    BY <1>11, <2>1 DEF Knows
  <2>3. TickerOK(x)'
    <3> SUFFICES ASSUME x \notin unsynced'
                 PROVE  tickers'[x] = IF Scheduled(x)' THEN 1 ELSE 0
      BY <1>11, <2>1 DEF TickerOK
    <3>1. \A b \in Actors : Works(b, c) => job[b].stage \notin AfterUpdate
      BY <1>1, <1>11, <2>1 DEF AfterUpdate
    <3>2. tickers[c] = IF Scheduled(c) THEN 1 ELSE 0
      BY <1>12, <2>1, <3>1 DEF ChannelOK, TickerOK
    <3>3. tickers[d] = 0
      BY <2>1 DEF TypeOK
    <3>4. QED
      BY <1>5, <1>6, <2>1, <3>2, <3>3 DEF Scheduled
  <2>4. ControlOK(x)'
    <3> SUFFICES ASSUME x \notin raced' \cup undone', NEW k \in Chats
                 PROVE  /\ control'[k][x] = IF In(k, x)' THEN 1 ELSE 0
                        /\ In(k, x)' => k \in info'[x]
      BY <1>11, <2>1 DEF ControlOK
    <3>1. ASSUME NEW y \in {c, d}, y \notin raced \cup undone
          PROVE  /\ control[k][y] = IF In(k, y) THEN 1 ELSE 0
                 /\ In(k, y) => k \in info[y]
      <4>1. \A b \in Actors : Works(b, y) => job[b].stage \notin {"removeStore", "control"}
        BY <1>1, <1>11, <2>1
      <4>2. QED
        BY <1>12, <3>1, <4>1 DEF ChannelOK, ControlOK
    <3>2. ~met /\ ~In(k, d) /\ (In(k, d)' <=> In(k, c)) /\ ~In(k, c)'
      BY <1>6, <2>1 DEF In
    <3>3. CASE x = c
      BY <1>6, <1>7, <2>1, <3>1, <3>2, <3>3
    <3>4. CASE x = d
      <4>1. c \notin raced \cup undone /\ d \notin raced \cup undone
        BY <2>1, <3>4
      <4>2. control[k][d] = 0 /\ control[k][c] = (IF In(k, c) THEN 1 ELSE 0)
            /\ (In(k, c) => k \in info[c])
        BY <3>1, <3>2, <4>1
      <4>3. QED
        BY <1>6, <1>7, <3>2, <3>4, <4>2
    <3>5. QED
      BY <3>3, <3>4
  <2>5. StorageOK(x)'
    BY <1>3 DEF StorageOK
  <2>6. StoredOK(x)'
    BY <1>3 DEF StoredOK
  <2>7. RemovedOK(x)'
    BY <1>3, <1>12, <2>1 DEF ChannelOK, RemovedOK
  <2>8. QED
    BY <1>9, <2>2, <2>3, <2>4, <2>5, <2>6, <2>7 DEF ChannelOK
<1>14. QED
  BY <1>10, <1>13

-----------------------------------------------------------------------------
(* New requests, and restarts. *)

Wanted(j) ==
    \/ /\ j.stage = "addStore"
       /\ j.rec = AddedTo(protected[j.ch], j.chat, j.auto)
    \/ /\ j.stage = "updStore"
       /\ protected[j.ch] # NotProtected /\ j.rec.chats = protected[j.ch].chats
    \/ j.stage = "read" /\ control[j.chat][j.ch] > 0
    \/ j.stage = "migrate"

LEMMA RequestWants ==
    ASSUME TypeOK, NEW a \in Actors, Request(a)
    PROVE  \E j : Begin(a, j) /\ Wanted(j)
<1>1. ASSUME NEW c \in Channels, NEW k \in Chats, NEW auto \in BOOLEAN, AddProtectedChannel(a, c, k, auto)
      PROVE  \E j : Begin(a, j) /\ Wanted(j)
  <2> DEFINE j == [stage |-> "addStore", ch |-> c, chat |-> k, auto |-> auto,
                   rec |-> AddedTo(protected[c], k, auto), to |-> NoChannel]
  <2>1. Begin(a, j) /\ Wanted(j)
    BY <1>1 DEF AddProtectedChannel, Wanted
  <2>2. QED
    BY <2>1
<1>2. ASSUME NEW c \in Channels, NEW auto \in BOOLEAN, NEW to \in Channels \cup {NoChannel},
             UpdateProtectedChannel(a, c, auto, to)
      PROVE  \E j : Begin(a, j) /\ Wanted(j)
  <2> DEFINE j == [stage |-> "updStore", ch |-> c, chat |-> NoChat, auto |-> auto,
                   rec |-> [protected[c] EXCEPT !.auto = auto], to |-> to]
  <2>1. protected[c] # NotProtected /\ [protected[c] EXCEPT !.auto = auto].chats = protected[c].chats
    BY <1>2 DEF UpdateProtectedChannel, TypeOK, Record
  <2>2. Begin(a, j) /\ Wanted(j)
    BY <1>2, <2>1 DEF UpdateProtectedChannel, Wanted
  <2>3. QED
    BY <2>2
<1>3. ASSUME NEW c \in Channels, NEW k \in Chats, RemoveChannel(a, c, k)
      PROVE  \E j : Begin(a, j) /\ Wanted(j)
  <2> DEFINE j == [stage |-> "read", ch |-> c, chat |-> k, auto |-> FALSE,
                   rec |-> NotProtected, to |-> NoChannel]
  <2>1. Begin(a, j) /\ Wanted(j)
    BY <1>3 DEF RemoveChannel, Wanted
  <2>2. QED
    BY <2>1
<1>4. ASSUME NEW c \in Channels, NEW to \in Channels, protected[c] = NotProtected,
             RefreshIdentity(a, c, to)
      PROVE  \E j : Begin(a, j) /\ Wanted(j)
  <2> DEFINE j == [stage |-> "migrate", ch |-> c, chat |-> NoChat, auto |-> FALSE,
                   rec |-> NotProtected, to |-> to]
  <2>1. Begin(a, j) /\ Wanted(j)
    BY <1>4 DEF RefreshIdentity, Wanted
  <2>2. QED
    BY <2>1
<1>5. ASSUME NEW c \in Channels, NEW to \in Channels \cup {NoChannel}, RefreshIdentity(a, c, to)
      PROVE  \/ UpdateProtectedChannel(a, c, protected[c].auto, to) /\ protected[c].auto \in BOOLEAN
             \/ to \in Channels /\ protected[c] = NotProtected
  BY <1>5 DEF RefreshIdentity, TypeOK, Record
<1>6. \A c \in Channels : Announced(c) \subseteq Channels \cup {NoChannel}
  BY DEF Announced
<1>7. QED
  BY <1>1, <1>2, <1>3, <1>4, <1>5, <1>6 DEF Request

LEMMA RequestKeeps ==
    ASSUME TypeOK, Shaped, NEW a \in Actors, Request(a), NEW c \in Channels, ChannelOK(c)
    PROVE  ChannelOK(c)'
<1>1. PICK j : Begin(a, j) /\ Wanted(j)
  BY RequestWants
<1>2. /\ protected' = protected /\ storage' = storage /\ info' = info /\ control' = control
      /\ tickers' = tickers /\ removed' = removed /\ unsaved' = unsaved /\ undone' = undone
      /\ migrations' = migrations
  BY RequestBegins DEF maps, bounds
<1>3. /\ job[a] = NoJob /\ job'[a] = j
      /\ \A b \in Actors : b # a => job'[b] = job[b]
      /\ raced \subseteq raced' /\ unsynced \subseteq unsynced'
  BY <1>1 DEF Begin, TypeOK
<1>4. \A b \in Actors : Works(b, c)' =>
          \/ b = a /\ j.ch = c
          \/ b # a /\ Works(b, c) /\ job'[b] = job[b]
  BY <1>3 DEF Works
<1>5. \A b \in Actors : Works(b, c) => Works(b, c)' /\ job'[b] = job[b] /\ b # a
  BY <1>3 DEF Works
<1>6. j.stage \in {"addStore", "updStore", "read", "migrate"}
  BY <1>1 DEF Wanted
<1>7. Apart(c)'
  <2>1. /\ c \in unsynced' <=> \/ c \in unsynced
                               \/ c \in {j.ch, j.to} /\ \E b \in Actors \ {a} : Busy(b, c)
        /\ c \in raced' <=> \/ c \in raced
                            \/ /\ c \in {j.ch, j.to} /\ \E b \in Actors \ {a} : Busy(b, c)
                               /\ \/ j.stage = "read"
                                  \/ \E b \in Actors \ {a} : Busy(b, c) /\ Removing(b)
    BY <1>1 DEF Begin
  <2>2. /\ \A b \in Actors : b # a => /\ Busy(b, c)' <=> Busy(b, c)
                                      /\ Removing(b)' <=> Removing(b)
        /\ Busy(a, c)' => c \in {j.ch, j.to}
        /\ Removing(a)' => j.stage = "read"
    BY <1>3, <1>6 DEF Busy, Removing, AtStage
  <2>3. Apart(c)
    BY DEF ChannelOK
  <2>4. c \in raced' => c \in unsynced'
    BY <2>1, <2>3 DEF Apart
  <2>5. c \notin unsynced' => \A p, q \in Actors : Busy(p, c)' /\ Busy(q, c)' => p = q
    BY <2>1, <2>2, <2>3 DEF Apart
  <2>6. c \notin raced' =>
            \A p, q \in Actors : Busy(p, c)' /\ Busy(q, c)' /\ Removing(p)' => p = q
    BY <2>1, <2>2, <2>3 DEF Apart
  <2>7. QED
    BY <2>4, <2>5, <2>6 DEF Apart
<1>8. Knows(c)'
  <2> SUFFICES ASSUME c \notin raced, NEW b \in Actors, Works(b, c)'
               PROVE  /\ job'[b].stage \in {"addStore", "addApply"} =>
                             job'[b].rec = AddedTo(protected[c], job'[b].chat, job'[b].auto)
                      /\ job'[b].stage \in {"updStore", "updApply"} =>
                             protected[c] # NotProtected /\ job'[b].rec.chats = protected[c].chats
                      /\ job'[b].stage \in {"detach", "removeStore"} => job'[b].rec = protected[c]
                      /\ job'[b].stage \in {"addApply", "updApply"} => storage[c] = job'[b].rec
                      /\ job'[b].stage = "read" /\ c \notin undone => control[job'[b].chat][c] > 0
    BY <1>2, <1>3 DEF Knows
  <2>1. CASE b = a
    BY <1>1, <1>3, <1>4, <2>1 DEF Wanted
  <2>2. CASE b # a
    BY <1>4, <2>2 DEF ChannelOK, Knows
  <2>3. QED
    BY <2>1, <2>2
<1>9. TickerOK(c)'
  BY <1>2, <1>3, <1>4, <1>5, <1>6 DEF ChannelOK, TickerOK, AfterUpdate, Scheduled
<1>10. ControlOK(c)'
  <2>1. \A k \in Chats : In(k, c)' <=> In(k, c)
    BY <1>2 DEF In
  <2>2. QED
    BY <1>2, <1>3, <1>4, <1>5, <1>6, <2>1 DEF ChannelOK, ControlOK
<1>11. StorageOK(c)' /\ StoredOK(c)' /\ RemovedOK(c)'
  BY <1>2, <1>3, <1>5 DEF ChannelOK, StorageOK, StoredOK, RemovedOK
<1>12. QED
  BY <1>7, <1>8, <1>9, <1>10, <1>11 DEF ChannelOK

LEMMA RestartKeeps ==
    ASSUME TypeOK, NEW lost \in SUBSET Channels, Restart(lost), NEW c \in Channels, ChannelOK(c)
    PROVE  ChannelOK(c)'
<1> DEFINE loaded == IF c \in lost THEN NotProtected ELSE storage[c]
<1>1. \A b \in Actors : ~Works(b, c)' /\ ~Busy(b, c)'
  BY DEF Restart, Works, Busy
<1>2. /\ protected'[c] = loaded /\ storage' = storage /\ raced' = {} /\ unsaved' = lost
      /\ info'[c] = (IF loaded = NotProtected THEN {} ELSE loaded.chats)
      /\ tickers'[c] = IF loaded # NotProtected /\ loaded.auto THEN 1 ELSE 0
  BY DEF Restart
<1>3. \A k \in Chats :
          control'[k][c] = IF k \in (IF loaded = NotProtected THEN {} ELSE loaded.chats) THEN 1 ELSE 0
  BY DEF Restart
<1>4. \A k \in Chats : In(k, c)' <=> k \in (IF loaded = NotProtected THEN {} ELSE loaded.chats)
  BY <1>2 DEF In
<1>5. Apart(c)' /\ Knows(c)'
  BY <1>1, <1>2 DEF Apart, Knows
<1>6. TickerOK(c)'
  BY <1>1, <1>2 DEF TickerOK, Scheduled
<1>7. ControlOK(c)'
  BY <1>1, <1>2, <1>3, <1>4 DEF ControlOK
<1>8. StorageOK(c)' /\ StoredOK(c)'
  BY <1>2 DEF StorageOK, StoredOK
<1>9. RemovedOK(c)'
  <2> SUFFICES ASSUME c \in removed'
               PROVE  storage[c] = NotProtected
    BY <1>2 DEF RemovedOK
  <2>1. c \in removed \ (raced \cup undone) /\ Quiet(c)
    BY DEF Restart
  <2>2. \A b \in Actors : ~Works(b, c)
    BY <2>1 DEF Quiet, Busy, Works
  <2>3. QED
    BY <2>1, <2>2 DEF ChannelOK, RemovedOK
<1>10. QED
  BY <1>5, <1>6, <1>7, <1>8, <1>9 DEF ChannelOK

-----------------------------------------------------------------------------
LEMMA InitRegistry == Init => RInv
<1> SUFFICES ASSUME Init
             PROVE  RInv
  OBVIOUS
<1>1. TypeOK /\ Shaped
  BY InitTypes
<1>2. ASSUME NEW c \in Channels
      PROVE  ChannelOK(c)
  <2>1. \A a \in Actors : ~Works(a, c) /\ ~Busy(a, c)
    BY DEF Init, Works, Busy
  <2>2. \A k \in Chats : control[k][c] = 0 /\ ~In(k, c)
    BY DEF Init, In
  <2>3. QED
    BY <2>1, <2>2 DEF Init, ChannelOK, Apart, Knows, TickerOK, ControlOK, StorageOK, StoredOK,
                      RemovedOK, Scheduled
<1>3. QED
  BY <1>1, <1>2 DEF RInv

LEMMA NextRegistry == RInv /\ [Next]_vars => RInv'
<1> SUFFICES ASSUME RInv, [Next]_vars
             PROVE  RInv'
  OBVIOUS
<1> USE DEF RInv
<1>1. TypeOK' /\ Shaped'
  BY NextTypes
<1>2. CASE UNCHANGED vars
  <2>1. ASSUME NEW c \in Channels
        PROVE  ChannelOK(c)'
    <3>1. SameAt(c) /\ Remembers(c) /\ job' = job
      BY <1>2 DEF vars, SameAt, Remembers
    <3>2. \A b \in Actors : (Busy(b, c)' <=> Busy(b, c)) /\ (Removing(b)' <=> Removing(b))
      BY <3>1 DEF Busy, Removing, AtStage
    <3>3. Apart(c)'
      BY <1>2, <3>1, <3>2, ApartKept DEF vars, ChannelOK
    <3>4. QED
      BY <3>1, <3>3, Untouched
  <2>2. QED
    BY <1>1, <2>1
<1>3. ASSUME NEW a \in Actors, Request(a)
      PROVE  \A c \in Channels : ChannelOK(c)'
  BY <1>3, RequestKeeps
<1>4. ASSUME NEW a \in Actors, JobStep(a)
      PROVE  \A c \in Channels : ChannelOK(c)'
  <2>1. job[a] # NoJob
    BY <1>4 DEF JobStep, AddApply, UpdateApply, SyncTicker, RegisterTicker, RemoveTickers,
                CleanRead, CleanDetach, CleanControl, StorageWrite, Storing, MigrateChannel, AtStage
  <2>2. job[a].ch \in Channels
    BY <2>1, JobType
  <2>3. MigrateChannel(a) => job[a].to \in Channels
    BY <2>1 DEF MigrateChannel, AtStage, Shaped
  <2>4. QED
    BY <1>4, <2>2, <2>3, AddApplyKeeps, UpdateApplyKeeps, TickerStepKeeps, CleanReadKeeps,
       CleanDetachKeeps, CleanControlKeeps, StorageWriteKeeps, MigrateChannelKeeps DEF JobStep
<1>5. ASSUME NEW a \in Actors, NEW applied \in BOOLEAN, StorageFails(a, applied)
      PROVE  \A c \in Channels : ChannelOK(c)'
  <2>1. job[a].ch \in Channels
    BY <1>5, JobType DEF StorageFails, Storing, AtStage
  <2>2. QED
    BY <1>5, <2>1, StorageFailsKeeps
<1>6. ASSUME NEW lost \in SUBSET Channels, Restart(lost)
      PROVE  \A c \in Channels : ChannelOK(c)'
  BY <1>6, RestartKeeps
<1>7. QED
  BY <1>1, <1>2, <1>3, <1>4, <1>5, <1>6 DEF Next

LEMMA Registry == Spec => []RInv
BY InitRegistry, NextRegistry, PTL DEF Spec

LEMMA NobodyWorks ==
    ASSUME NEW c \in Channels, Quiet(c)
    PROVE  \A a \in Actors : ~Works(a, c)
BY DEF Quiet, Busy, Works

(* The registry keeps the types of its tables, whatever requests, failures, *)
(* restarts and migrations of groups come (controllers/scanner).            *)
THEOREM RegistryTypes == Spec => []TypeOK
<1>1. RInv => TypeOK
  BY DEF RInv
<1>2. QED
  BY <1>1, Registry, PTL

(* A channel nobody works on has one ticker if its flags ask for one and    *)
(* none otherwise, unless two jobs met on it: channelHasTicker after the    *)
(* unlock decides rightly for a job that is alone, and a migration carries  *)
(* the ticker along.                                                        *)
THEOREM OneTickerEach == Spec => []TickerInSync
<1>1. RInv => TickerInSync
  BY NobodyWorks DEF RInv, ChannelOK, TickerOK, TickerInSync
<1>2. QED
  BY <1>1, Registry, PTL

(* The control chats' lists name exactly the channels whose records name    *)
(* the chat, unless a removal met another job or its Redis call failed.     *)
THEOREM ListsAndRecordsAgree == Spec => []ControlMatches
<1>1. RInv => ControlMatches
  BY NobodyWorks DEF RInv, ChannelOK, ControlOK, In, ControlMatches
<1>2. QED
  BY <1>1, Registry, PTL

(* What a restart would load is what memory holds, unless a removal met     *)
(* another job, a Redis call failed or Telegram moved the chat.             *)
THEOREM RedisFollowsMemory == Spec => []StorageMatches
<1>1. RInv => StorageMatches
  BY NobodyWorks DEF RInv, ChannelOK, StorageOK, StorageMatches
<1>2. QED
  BY <1>1, Registry, PTL

(* However many Redis calls fail and however often the process restarts, a  *)
(* protected channel keeps a record, while groups stay where they are and   *)
(* removals are alone.                                                      *)
THEOREM ProtectionSurvives == Spec => []ProtectionIsStored
<1>1. RInv => ProtectionIsStored
  BY DEF RInv, ChannelOK, StoredOK, ProtectionIsStored
<1>2. QED
  BY <1>1, Registry, PTL

(* A removal reported as done is final in memory and in Redis, over any     *)
(* number of restarts, unless it met another job or one before it failed    *)
(* half way (CleanProtectedChannel).                                        *)
THEOREM RemovedStaysRemoved == Spec => []RemovalIsFinal
<1>1. RInv => RemovalIsFinal
  BY NobodyWorks DEF RInv, TypeOK, ChannelOK, RemovedOK, RemovalIsFinal
<1>2. QED
  BY <1>1, Registry, PTL
=============================================================================
