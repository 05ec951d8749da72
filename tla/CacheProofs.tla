------------------------------ MODULE CacheProofs ------------------------------
(***************************************************************************)
(* The two caches a scan asks, and the one contract they implement.        *)
(*                                                                         *)
(* VerdictCache implements AccessVerdicts for any users, callers, TTL and  *)
(* latency, and a recheck that crosses no other call asks the source.      *)
(*                                                                         *)
(* MemberCache implements AccessVerdicts user by user, for any lifetime,   *)
(* latency and delay of updates, and what it says after an invalidation    *)
(* was true since.                                                         *)
(*                                                                         *)
(* The two specifications share no name, and no theorem speaks of both.    *)
(***************************************************************************)
EXTENDS VerdictCache, MemberCache, TLAPS

-----------------------------------------------------------------------------
(* The verdict cache *)

\* A stored verdict is at most one call older than its date.
CacheRecent ==
    \A u \in Users : cache[u] # Absent =>
        /\ cache[u].at <= now
        /\ Held(u, cache[u].has, cache[u].at - Latency)

\* A call is no longer under way than Latency, and what it will store was true
\* since it began.
CallRecent ==
    \A c \in Callers : call[c] # NoCall =>
        /\ call[c].start <= now
        /\ now <= call[c].start + Latency
        /\ call[c].stage = "store" => Held(call[c].user, call[c].has, call[c].start)

\* What an uncrossed recheck can find in the cache, or another call is about to
\* put there, was true since the recheck began.
FreshRecent ==
    \A c \in Callers : call[c] # NoCall /\ call[c].fresh /\ ~call[c].crossed =>
        LET u == call[c].user
        IN  /\ cache[u] # Absent => Held(u, cache[u].has, call[c].start)
            /\ \A d \in Callers : At(d, "store") /\ call[d].user = u =>
                    Held(u, call[d].has, call[c].start)

IInv == TypeOK /\ CacheRecent /\ CallRecent /\ FreshRecent

\* What held since t held since any earlier moment.
LEMMA HeldEarlier ==
    ASSUME NEW u \in Users, NEW v, NEW t \in Int, NEW s \in Int,
           changed \in [Users -> Int], s <= t, Held(u, v, t)
    PROVE  Held(u, v, s)
BY DEF Held, Contract!Held

\* A change at the source does not undo what was true since a past moment.
LEMMA HeldThroughChange ==
    ASSUME NEW u \in Users, NEW v \in BOOLEAN, NEW t \in Int, NEW w \in Users,
           TypeOK, Change(w), t <= now, Held(u, v, t)
    PROVE  Held(u, v, t)'
BY DEF Held, Contract!Held, Change, TypeOK

LEMMA HeldElsewhere ==
    ASSUME NEW u \in Users, NEW v, NEW t, UNCHANGED source, Held(u, v, t)
    PROVE  Held(u, v, t)'
BY DEF Held, Contract!Held, source

LEMMA InitInvariant == Init => IInv
BY VerdictAssumption, VerdictSentinels
   DEF Init, IInv, TypeOK, CacheRecent, CallRecent, FreshRecent, At, Contract!Never, Window

\* Every step keeps the types.
LEMMA StepType == TypeOK /\ [Next]_vars => TypeOK'
<1>1. SUFFICES ASSUME TypeOK, [Next]_vars PROVE TypeOK'
  OBVIOUS
<1> USE VerdictAssumption
<1>2. CASE Tick
  BY <1>1, <1>2 DEF TypeOK, Tick, source
<1>3. ASSUME NEW u \in Users, Change(u) PROVE TypeOK'
  BY <1>1, <1>3 DEF TypeOK, Change
<1>4. ASSUME NEW c \in Callers, Hit(c) PROVE TypeOK'
  BY <1>1, <1>4, VerdictSentinels
     DEF TypeOK, Hit, Reply, At, Usable, source, Call, Answer, Verdict
<1>5. ASSUME NEW c \in Callers, Miss(c) PROVE TypeOK'
  BY <1>1, <1>5 DEF TypeOK, Miss, At, source, Call
<1>6. ASSUME NEW c \in Callers, Ask(c) PROVE TypeOK'
  <2>1. call[c] \in Call /\ truth[call[c].user] \in BOOLEAN
    BY <1>1, <1>6 DEF TypeOK, Ask, At, Call
  <2>2. [call[c] EXCEPT !.stage = "store", !.has = truth[call[c].user]] \in Call
    BY <2>1 DEF Call
  <2>3. QED
    BY <1>1, <1>6, <2>2 DEF TypeOK, Ask, source
<1>7. ASSUME NEW c \in Callers, AskFails(c) PROVE TypeOK'
  BY <1>1, <1>7 DEF TypeOK, AskFails, At, source
<1>8. ASSUME NEW c \in Callers, Store(c) PROVE TypeOK'
  BY <1>1, <1>8 DEF TypeOK, Store, Reply, At, source, Call, Answer, Verdict
<1>9. ASSUME NEW c \in Callers, NEW u \in Users, HasAccess(c, u) PROVE TypeOK'
  BY <1>1, <1>9 DEF TypeOK, HasAccess, Begin, source, Call
<1>10. ASSUME NEW c \in Callers, NEW u \in Users, Recheck(c, u) PROVE TypeOK'
  BY <1>1, <1>10 DEF TypeOK, Recheck, Begin, UnderWay, source, Call
<1>11. CASE UNCHANGED vars
  BY <1>1, <1>11 DEF TypeOK, vars
<1>12. QED
  BY <1>1, <1>2, <1>3, <1>4, <1>5, <1>6, <1>7, <1>8, <1>9, <1>10, <1>11 DEF Next

\* Every step keeps what the answers rest on.
LEMMA StepRecent == IInv /\ [Next]_vars => (CacheRecent /\ CallRecent /\ FreshRecent)'
<1>1. SUFFICES ASSUME IInv, [Next]_vars
               PROVE (CacheRecent /\ CallRecent /\ FreshRecent)'
  OBVIOUS
<1> USE VerdictAssumption, VerdictSentinels, <1>1 DEF IInv
<1>0. TypeOK'
  BY StepType
<1>2. CASE Tick
  <2>1. UNCHANGED <<truth, changed, cache, call>> /\ now' = now + 1
    BY <1>2 DEF Tick, source
  <2>2. CacheRecent'
    BY <2>1 DEF CacheRecent, TypeOK, Verdict, Held, Contract!Held
  <2>3. CallRecent'
    BY <1>2, <2>1 DEF CallRecent, TypeOK, Call, Tick, Held, Contract!Held
  <2>4. FreshRecent'
    BY <2>1 DEF FreshRecent, At, Held, Contract!Held
  <2>5. QED
    BY <2>2, <2>3, <2>4
<1>3. ASSUME NEW w \in Users, Change(w) PROVE (CacheRecent /\ CallRecent /\ FreshRecent)'
  <2>1. UNCHANGED <<now, cache, call>>
    BY <1>3 DEF Change
  <2>2. CacheRecent'
    <3>1. SUFFICES ASSUME NEW u \in Users, cache[u] # Absent
                   PROVE  cache[u].at <= now /\ Held(u, cache[u].has, cache[u].at - Latency)'
      BY <2>1 DEF CacheRecent
    <3>2. /\ cache[u].has \in BOOLEAN /\ cache[u].at - Latency \in Int
          /\ cache[u].at - Latency <= now /\ cache[u].at <= now
          /\ Held(u, cache[u].has, cache[u].at - Latency)
      BY <3>1 DEF CacheRecent, TypeOK, Verdict
    <3>3. Held(u, cache[u].has, cache[u].at - Latency)'
      BY <1>3, <3>2, <2>1, HeldThroughChange DEF Held, Contract!Held, Change, TypeOK
    <3>4. QED
      BY <3>2, <3>3
  <2>3. CallRecent'
    BY <1>3, <2>1 DEF CallRecent, Change, TypeOK, Call, Held, Contract!Held
  <2>4. FreshRecent'
    BY <1>3, <2>1 DEF FreshRecent, CallRecent, CacheRecent, At, Change, TypeOK, Call, Verdict, Held, Contract!Held
  <2>5. QED
    BY <2>2, <2>3, <2>4
<1>4. ASSUME NEW c \in Callers, Hit(c) \/ AskFails(c)
      PROVE (CacheRecent /\ CallRecent /\ FreshRecent)'
  <2>1. /\ UNCHANGED <<truth, changed, now, cache>>
        /\ call' = [call EXCEPT ![c] = NoCall]
    BY <1>4 DEF Hit, AskFails, Reply, source
  <2>2. CacheRecent'
    BY <2>1 DEF CacheRecent, Held, Contract!Held
  <2>3. CallRecent'
    BY <2>1 DEF CallRecent, TypeOK, Held, Contract!Held
  <2>4. FreshRecent'
    BY <2>1 DEF FreshRecent, At, TypeOK, Held, Contract!Held
  <2>5. QED
    BY <2>2, <2>3, <2>4
<1>5. ASSUME NEW c \in Callers, Miss(c) PROVE (CacheRecent /\ CallRecent /\ FreshRecent)'
  <2>1. /\ UNCHANGED <<truth, changed, now, cache>>
        /\ call[c] # NoCall
        /\ call' = [call EXCEPT ![c].stage = "ask"]
    BY <1>5 DEF Miss, At, source
  <2>2. CacheRecent'
    BY <2>1 DEF CacheRecent, Held, Contract!Held
  <2>3. CallRecent'
    BY <2>1 DEF CallRecent, TypeOK, Call, Held, Contract!Held
  <2>4. FreshRecent'
    BY <2>1 DEF FreshRecent, At, TypeOK, Call, Held, Contract!Held
  <2>5. QED
    BY <2>2, <2>3, <2>4
<1>6. ASSUME NEW c \in Callers, Ask(c) PROVE (CacheRecent /\ CallRecent /\ FreshRecent)'
  <2>1. /\ UNCHANGED <<truth, changed, now, cache>>
        /\ call[c] \in Call
        /\ call' = [call EXCEPT ![c].stage = "store", ![c].has = truth[call[c].user]]
    BY <1>6 DEF Ask, At, source, TypeOK
  <2>2. CacheRecent'
    BY <2>1 DEF CacheRecent, Held, Contract!Held
  <2>3. CallRecent'
    BY <2>1 DEF CallRecent, TypeOK, Call, Held, Contract!Held
  <2>4. FreshRecent'
    BY <2>1 DEF FreshRecent, At, TypeOK, Call, Held, Contract!Held
  <2>5. QED
    BY <2>2, <2>3, <2>4
<1>7. ASSUME NEW c \in Callers, Store(c) PROVE (CacheRecent /\ CallRecent /\ FreshRecent)'
  <2> DEFINE u == call[c].user
  <2>1. /\ UNCHANGED <<truth, changed, now>>
        /\ call[c] \in Call
        /\ call[c].stage = "store"
        /\ call' = [call EXCEPT ![c] = NoCall]
        /\ cache' = [cache EXCEPT ![u] = [has |-> call[c].has, at |-> now]]
    BY <1>7 DEF Store, Reply, At, source, TypeOK
  <2>2. CacheRecent'
    <3>1. /\ Held(u, call[c].has, call[c].start)
          /\ now - Latency <= call[c].start
      BY <2>1 DEF CallRecent, TypeOK, Call
    <3>2. Held(u, call[c].has, now - Latency)
      BY <2>1, <3>1, HeldEarlier DEF TypeOK, Call
    <3>3. QED
      BY <2>1, <3>2 DEF CacheRecent, TypeOK, Call, Held, Contract!Held
  <2>3. CallRecent'
    BY <2>1 DEF CallRecent, TypeOK, Held, Contract!Held
  <2>4. FreshRecent'
    BY <2>1 DEF FreshRecent, At, TypeOK, Call, Held, Contract!Held
  <2>5. QED
    BY <2>2, <2>3, <2>4
<1>8. ASSUME NEW c \in Callers, NEW u \in Users, HasAccess(c, u) \/ Recheck(c, u)
      PROVE (CacheRecent /\ CallRecent /\ FreshRecent)'
  <2>1. PICK f \in BOOLEAN :
          /\ Begin(c, u, f)
          /\ f => Recheck(c, u)
          /\ UNCHANGED <<truth, changed, now>>
          /\ cache' = cache \/ cache' = [cache EXCEPT ![u] = Absent]
    BY <1>8 DEF HasAccess, Recheck, source
  <2>2. CacheRecent'
    BY <2>1 DEF CacheRecent, TypeOK, Held, Contract!Held
  <2>3. CallRecent'
    BY <2>1 DEF CallRecent, Begin, TypeOK, Call, Held, Contract!Held
  <2>4. FreshRecent'
    <3>1. SUFFICES ASSUME NEW d \in Callers, call'[d] # NoCall, call'[d].fresh,
                          ~call'[d].crossed
                   PROVE  LET w == call'[d].user
                          IN  /\ cache'[w] # Absent => Held(w, cache'[w].has, call'[d].start)
                              /\ \A e \in Callers : At(e, "store")' /\ call'[e].user = w =>
                                    Held(w, call'[e].has, call'[d].start)
      BY <2>1 DEF FreshRecent, Held, Contract!Held
    <3>2. CASE d # c
      <4>1. call'[d] = call[d] /\ call[d] \in Call
        BY <2>1, <3>1, <3>2 DEF Begin, TypeOK
      <4>2. \A e \in Callers : At(e, "store")' => At(e, "store") /\ call'[e] = call[e]
        BY <2>1 DEF Begin, At, TypeOK
      <4>3. cache'[call[d].user] # Absent => cache'[call[d].user] = cache[call[d].user]
        BY <2>1, <4>1 DEF TypeOK, Call
      <4>4. QED
        BY <3>1, <4>1, <4>2, <4>3 DEF FreshRecent
    <3>3. CASE d = c
      <4>1. f /\ call'[c].user = u /\ ~UnderWay(u) /\ cache'[u] = Absent
        BY <2>1, <3>1, <3>3 DEF Begin, TypeOK, Recheck
      <4>2. QED
        BY <2>1, <3>3, <4>1 DEF Begin, UnderWay, At, TypeOK
    <3>4. QED
      BY <3>2, <3>3
  <2>5. QED
    BY <2>2, <2>3, <2>4
<1>9. CASE UNCHANGED vars
  BY <1>9 DEF vars, source, CacheRecent, CallRecent, FreshRecent, At, Held, Contract!Held
<1>10. QED
  BY <1>2, <1>3, <1>4, <1>5, <1>6, <1>7, <1>8, <1>9 DEF Next

\* The inductive invariant of the cache.
THEOREM VerdictInvariant == Spec => []IInv
<1>1. IInv /\ [Next]_vars => IInv'
  BY StepType, StepRecent DEF IInv
<1>2. QED
  BY <1>1, InitInvariant, PTL DEF Spec

\* Every variable of the cache keeps its type.
THEOREM VerdictTypeCorrect == Spec => []TypeOK
BY VerdictInvariant, PTL DEF IInv

\* The answer of a reply is what the call found in the cache or was told.
LEMMA ReplyHeld ==
    ASSUME IInv, NEW c \in Callers, Hit(c) \/ Store(c)
    PROVE  /\ call[c] \in Call
           /\ said' = [said EXCEPT ![c] = [user |-> call[c].user, has |-> said'[c].has]]
           /\ said'[c].has \in BOOLEAN
           /\ Held(call[c].user, said'[c].has, now - Window + 1)
           /\ call[c].fresh /\ ~call[c].crossed =>
                 Held(call[c].user, said'[c].has, call[c].start)
<1> DEFINE u == call[c].user
<1>1. call[c] \in Call /\ u \in Users
  BY DEF IInv, TypeOK, Hit, Store, At, Call
<1>2. CASE Hit(c)
  <2>1. /\ cache[u] \in Verdict
        /\ cache[u].at + TTL > now
        /\ said' = [said EXCEPT ![c] = [user |-> u, has |-> cache[u].has]]
    BY <1>1, <1>2 DEF Hit, Reply, Usable, IInv, TypeOK
  <2>2. Held(u, cache[u].has, cache[u].at - Latency)
    BY <1>1, <2>1, VerdictSentinels DEF IInv, CacheRecent
  <2>3. Held(u, cache[u].has, now - Window + 1)
    BY <1>1, <2>1, <2>2, HeldEarlier, VerdictAssumption DEF IInv, TypeOK, Verdict, Window
  <2>4. call[c].fresh /\ ~call[c].crossed => Held(u, cache[u].has, call[c].start)
    BY <1>1, <1>2, <2>1, VerdictSentinels DEF IInv, FreshRecent, Hit, At
  <2>5. QED
    BY <1>1, <2>1, <2>3, <2>4 DEF IInv, TypeOK, Verdict
<1>3. CASE Store(c)
  <2>1. /\ call[c].stage = "store" /\ call[c] # NoCall
        /\ said' = [said EXCEPT ![c] = [user |-> u, has |-> call[c].has]]
    BY <1>3 DEF Store, Reply, At
  <2>2. Held(u, call[c].has, call[c].start) /\ now <= call[c].start + Latency
    BY <2>1 DEF IInv, CallRecent
  <2>3. Held(u, call[c].has, now - Window + 1)
    BY <1>1, <2>2, HeldEarlier, VerdictAssumption DEF IInv, TypeOK, Call, Window
  <2>4. QED
    BY <1>1, <2>1, <2>2, <2>3 DEF IInv, TypeOK, Call
<1>4. QED
  BY <1>2, <1>3

LEMMA InitImplements == Init => Contract!Init
BY DEF Init, Contract!Init

LEMMA StepImplements == IInv /\ [Next]_vars => [Contract!Next]_(Contract!vars)
<1>1. SUFFICES ASSUME IInv, Next PROVE [Contract!Next]_(Contract!vars)
  BY DEF vars, Contract!vars
<1>2. CASE Tick
  BY <1>2 DEF Tick, source, Contract!Next, Contract!Tick
<1>3. ASSUME NEW u \in Users, Change(u) PROVE Contract!Next
  BY <1>3 DEF Change, Contract!Next, Contract!Change
<1>4. ASSUME NEW c \in Callers, Hit(c) \/ Store(c) PROVE Contract!Next
  <2>1. UNCHANGED <<truth, changed, now>>
    BY <1>4 DEF Hit, Store, source
  <2>2. Contract!Say(c, call[c].user, said'[c].has)
    BY <1>1, <1>4, <2>1, ReplyHeld DEF Contract!Say, Held
  <2>3. call[c].user \in Users /\ said'[c].has \in BOOLEAN
    BY <1>1, <1>4, ReplyHeld DEF Call
  <2>4. QED
    BY <2>2, <2>3 DEF Contract!Next
<1>5. ASSUME NEW c \in Callers, AskFails(c) PROVE Contract!Next
  <2>1. Contract!Fail({c})
    BY <1>1, <1>5 DEF AskFails, source, IInv, TypeOK, Contract!Fail
  <2>2. QED
    BY <2>1 DEF Contract!Next
<1>6. ASSUME NEW c \in Callers,
             Miss(c) \/ Ask(c) \/ \E u \in Users : HasAccess(c, u) \/ Recheck(c, u)
      PROVE  UNCHANGED Contract!vars
  BY <1>6 DEF Contract!vars, Miss, Ask, HasAccess, Recheck, source
<1>7. QED
  BY <1>1, <1>2, <1>3, <1>4, <1>5, <1>6 DEF Next

\* No caller gets a verdict that has been wrong at the source for TTL +
\* Latency: the cache implements AccessVerdicts.
THEOREM VerdictRefinement == Spec => ImplementsVerdicts
BY VerdictInvariant, InitImplements, StepImplements, PTL
   DEF Spec, ImplementsVerdicts, Contract!Spec

\* A recheck that no call on the user was under way to cross reports what the
\* source said since the recheck began.
THEOREM VerdictRecheck == Spec => UncrossedRecheckAsksSource
<1> DEFINE Kept(c) == Answered(c) /\ call[c].fresh /\ ~call[c].crossed =>
                        Held(call[c].user, said'[c].has, call[c].start)
<1>1. ASSUME IInv, [Next]_vars, NEW c \in Callers PROVE Kept(c)
  <2>1. SUFFICES ASSUME Answered(c), call[c].fresh, ~call[c].crossed
                 PROVE  Held(call[c].user, said'[c].has, call[c].start)
    OBVIOUS
  <2>2. Hit(c) \/ Store(c)
    <3>1. call[c] # NoCall /\ call'[c] = NoCall /\ said'[c] # Silent
      BY <2>1 DEF Answered
    <3>2. call \in [Callers -> Call \cup {NoCall}] /\ said \in [Callers -> Answer \cup {Silent}]
      BY <1>1 DEF IInv, TypeOK
    <3>3. ASSUME NEW d \in Callers, Hit(d) \/ Store(d) \/ AskFails(d) PROVE d = c
      BY <3>1, <3>2, <3>3 DEF Hit, Store, AskFails, Reply
    <3>4. ASSUME NEW d \in Callers, Miss(d) \/ Ask(d) PROVE FALSE
      BY <3>1, <3>2, <3>4, VerdictSentinels DEF Miss, Ask, At, Call
    <3>5. ASSUME NEW d \in Callers, NEW u \in Users, HasAccess(d, u) \/ Recheck(d, u)
          PROVE  FALSE
      BY <3>1, <3>2, <3>5 DEF HasAccess, Recheck, Begin
    <3>6. ~AskFails(c)
      BY <3>1, <3>2 DEF AskFails
    <3>7. ~UNCHANGED call
      BY <3>1
    <3>8. QED
      BY <1>1, <3>3, <3>4, <3>5, <3>6, <3>7 DEF Next, vars, Tick, Change
  <2>3. QED
    BY <1>1, <2>1, <2>2, ReplyHeld
<1>2. IInv /\ [Next]_vars => \A c \in Callers : Kept(c)
  BY <1>1
<1>3. QED
  BY <1>2, VerdictInvariant, PTL DEF Spec, UncrossedRecheckAsksSource

-----------------------------------------------------------------------------
(* The list of members *)
\* v was true of u at some moment from t on.
Lasted(u, v, t) == (u \in members) = v \/ moved[u] >= t

\* What a cached list says of those it covers was true at most Lag before its date.
ListRecent ==
    list # NoList =>
        /\ list.at <= clock
        /\ \A u \in People \ list.unseen : Lasted(u, u \in list.users, list.at - Lag)

\* A listing is no longer under way than ListingTime, and what its pages have shown was
\* true since it began.  The pages still to come have shown nobody.
ListingRecent ==
    \A c \in Scans : During(c, "list") =>
        /\ listing[c].at <= clock /\ clock <= listing[c].at + ListingTime
        /\ listing[c].users \cap listing[c].unseen = {}
        /\ \A u \in People \ listing[c].unseen : Lasted(u, u \in listing[c].users, listing[c].at)

\* An update on its way was true when it was sent, and comes within UpdateDelay.
UpdatesRecent ==
    \A p \in updates :
        /\ p.at <= clock /\ clock <= p.at + UpdateDelay
        /\ Lasted(p.user, p.joined, p.at)

\* What is true now, what an update newer than the last invalidation says, and what
\* a list says of those it was not edited for by an older one, was true since then.
SinceMarked ==
    /\ \A u \in People : (u \in members) \in since[u]
    /\ \A p \in updates : ~p.stale => p.joined \in since[p.user]
    /\ list # NoList /\ ~list.crossed =>
          \A u \in People \ (list.old \cup list.unseen) : (u \in list.users) \in since[u]
    /\ \A c \in Scans : During(c, "list") => listing[c].old = {}
    /\ \A c \in Scans : listing[c] # NoListing /\ ~listing[c].crossed =>
          \A u \in People \ (listing[c].old \cup listing[c].unseen) :
              (u \in listing[c].users) \in since[u]

MembersInv ==
    MembersTypeOK /\ ListRecent /\ ListingRecent /\ UpdatesRecent /\ SinceMarked

LEMMA MembersLag ==
    /\ CacheTime \in Nat \ {0} /\ ListingTime \in Nat /\ UpdateDelay \in Nat
    /\ LastMoment \in Nat /\ MaxMoves \in Nat
    /\ Lag \in Nat /\ ListingTime <= Lag /\ UpdateDelay <= Lag
BY ListAssumption DEF ListAssumption, Lag

LEMMA MembersNoCall == NoListing \notin Listing
BY ListSentinels

LEMMA MembersInitInv ==
    ASSUME MembersInit
    PROVE  MembersInv
<1> USE MembersLag
<1>1. MembersTypeOK
  BY DEF MembersInit, MembersTypeOK, LongAgo, ListWindow
<1>2. ListRecent /\ ListingRecent /\ UpdatesRecent
  BY DEF MembersInit, ListRecent, ListingRecent, UpdatesRecent, During
<1>3. SinceMarked
  BY DEF MembersInit, SinceMarked, During
<1>4. QED
  BY <1>1, <1>2, <1>3 DEF MembersInv

\* Every step keeps the types of the member list.
LEMMA MembersTypeStep ==
    ASSUME MembersTypeOK, [MembersNext]_memberVars
    PROVE  MembersTypeOK'
<1> USE MembersLag DEF MembersTypeOK, telegram
<1>1. CASE MembersTick
  BY <1>1 DEF MembersTick
<1>2. CASE InvalidateChannel
  <2>1. listing' \in [Scans -> Listing \cup {NoListing}]
    <3>1. ASSUME NEW c \in Scans, listing[c] # NoListing
          PROVE  [listing[c] EXCEPT !.crossed = TRUE] \in Listing
      BY <3>1 DEF Listing
    <3>2. QED
      BY <1>2, <3>1 DEF InvalidateChannel, Mark
  <2>2. updates' \in SUBSET Update
    <3>1. ASSUME NEW p \in updates PROVE [p EXCEPT !.stale = TRUE] \in Update
      BY DEF Update
    <3>2. QED
      BY <1>2, <3>1 DEF InvalidateChannel, Mark
  <2>3. since' \in [People -> (SUBSET BOOLEAN) \ {{}}]
    BY <1>2 DEF InvalidateChannel, Mark
  <2>4. QED
    BY <1>2, <2>1, <2>2, <2>3 DEF InvalidateChannel
<1>3. ASSUME NEW u \in People, Move(u) PROVE MembersTypeOK'
  <2>1. members' \in SUBSET People /\ moved' \in [People -> Nat \cup {LongAgo}]
    BY <1>3 DEF Move
  <2>2. since' \in [People -> (SUBSET BOOLEAN) \ {{}}]
    BY <1>3 DEF Move
  <2>3. updates' \in SUBSET Update
    <3>1. [user |-> u, joined |-> u \notin members, at |-> clock, stale |-> FALSE]
            \in Update
      BY DEF Update
    <3>2. QED
      BY <1>3, <3>1 DEF Move
  <2>4. moves' \in 0..MaxMoves
    BY <1>3 DEF Move
  <2>5. QED
    BY <1>3, <2>1, <2>2, <2>3, <2>4 DEF Move
<1>4. ASSUME NEW p \in updates, Deliver(p) PROVE MembersTypeOK'
  <2>1. p \in Update /\ list \in List
    BY <1>4 DEF Deliver
  <2>2. list' \in List
    BY <1>4, <2>1 DEF Deliver, List, Update
  <2>3. QED
    BY <1>4, <2>2 DEF Deliver
<1>5. ASSUME NEW p \in updates, Lose(p) PROVE MembersTypeOK'
  BY <1>5 DEF Lose
<1>6. ASSUME NEW c \in Scans, ListHit(c) PROVE MembersTypeOK'
  BY <1>6 DEF ListHit, ListUsable, Listing, List
<1>7. ASSUME NEW c \in Scans, ListMiss(c) PROVE MembersTypeOK'
  BY <1>7 DEF ListMiss, Listing
<1>8. ASSUME NEW c \in Scans, ListingFails(c) \/ ListDone(c)
      PROVE  MembersTypeOK'
  BY <1>8 DEF ListingFails, ListDone
<1>9. ASSUME NEW c \in Scans, ListStore(c) PROVE MembersTypeOK'
  <2>1. listing[c] \in Listing
    BY <1>9 DEF ListStore, During
  <2>2. list' \in List
    BY <1>9, <2>1 DEF ListStore, Listing, List
  <2>3. [listing[c] EXCEPT !.stage = "answered", !.at = clock] \in Listing
    <3>1. clock \in Nat
      OBVIOUS
    <3>2. QED
      BY <2>1, <3>1, Zenon DEF Listing
  <2>4. QED
    BY <1>9, <2>2, <2>3 DEF ListStore
<1>10. ASSUME NEW c \in Scans, NEW u \in People, Page(c, u) PROVE MembersTypeOK'
  <2>1. listing[c] \in Listing
    BY <1>10 DEF Page, During
  <2>2. [listing[c] EXCEPT !.unseen = @ \ {u}, !.users = @ \cup ({u} \cap members)]
          \in Listing
    <3>1. /\ listing[c].unseen \ {u} \in SUBSET People
          /\ listing[c].users \cup ({u} \cap members) \in SUBSET People
      BY <2>1 DEF Listing
    <3>2. QED
      BY <2>1, <3>1 DEF Listing
  <2>3. QED
    BY <1>10, <2>2 DEF Page
<1>11. CASE UNCHANGED memberVars
  BY <1>11 DEF memberVars
<1>12. QED
  BY <1>1, <1>2, <1>3, <1>4, <1>5, <1>6, <1>7, <1>8, <1>9, <1>10, <1>11 DEF MembersNext

\* What was true of a user since t was true since any earlier moment.
LEMMA LastedLonger ==
    ASSUME MembersTypeOK, NEW u \in People, NEW v,
           NEW t \in Int, NEW s \in Int, s <= t, Lasted(u, v, t)
    PROVE  Lasted(u, v, s)
BY MembersLag DEF Lasted, MembersTypeOK, LongAgo, ListWindow

LEMMA LastedElsewhere ==
    ASSUME NEW u, NEW v, NEW t, UNCHANGED telegram, Lasted(u, v, t)
    PROVE  Lasted(u, v, t)'
BY DEF Lasted, telegram

\* A user who joins or leaves does not undo what was true since a past moment.
LEMMA LastedThroughChange ==
    ASSUME MembersTypeOK, NEW u \in People, NEW v \in BOOLEAN, NEW t \in Int,
           NEW w \in People, Move(w), t <= clock, Lasted(u, v, t)
    PROVE  Lasted(u, v, t)'
BY DEF Lasted, Move, MembersTypeOK


\* Every step keeps what the list and the updates say recent.
LEMMA MembersRecentStep ==
    ASSUME MembersInv, [MembersNext]_memberVars
    PROVE  (ListRecent /\ ListingRecent /\ UpdatesRecent)'
<1> USE MembersLag DEF MembersInv
<1>0. MembersTypeOK /\ MembersTypeOK'
  BY MembersTypeStep
<1>1. CASE MembersTick
  <2>1. UNCHANGED <<members, moved, list, listing, updates>> /\ clock' = clock + 1
    BY <1>1 DEF MembersTick, telegram
  <2>2. ListRecent'
    BY <1>0, <2>1 DEF ListRecent, Lasted, MembersTypeOK, List
  <2>3. ListingRecent'
    BY <1>0, <1>1, <2>1 DEF ListingRecent, Lasted, MembersTypeOK, MembersTick, During,
       Listing
  <2>4. UpdatesRecent'
    BY <1>0, <1>1, <2>1 DEF UpdatesRecent, Lasted, MembersTypeOK, MembersTick, Update
  <2>5. QED
    BY <2>2, <2>3, <2>4
<1>2. CASE InvalidateChannel
  <2>1. UNCHANGED <<members, moved, clock>> /\ list' = NoList
    BY <1>2 DEF InvalidateChannel, telegram
  <2>2. ListRecent'
    BY <2>1 DEF ListRecent
  <2>3. ListingRecent'
    <3>1. SUFFICES ASSUME NEW c \in Scans, During(c, "list")'
                   PROVE  /\ During(c, "list")
                          /\ listing'[c].at = listing[c].at /\ listing'[c].users = listing[c].users
                          /\ listing'[c].unseen = listing[c].unseen
      BY <2>1 DEF ListingRecent, Lasted
    <3>2. listing[c] # NoListing /\ listing[c] \in Listing
      BY <1>0, <1>2, <3>1 DEF InvalidateChannel, Mark, During, MembersTypeOK
    <3>3. listing'[c] = [listing[c] EXCEPT !.crossed = TRUE]
      BY <1>2, <3>2 DEF InvalidateChannel, Mark
    <3>4. QED
      BY <3>1, <3>2, <3>3 DEF During, Listing
  <2>4. UpdatesRecent'
    <3>1. ASSUME NEW q \in updates'
          PROVE  \E p \in updates : q.user = p.user /\ q.joined = p.joined /\ q.at = p.at
      <4>1. PICK p \in updates : q = [p EXCEPT !.stale = TRUE]
        BY <1>2 DEF InvalidateChannel, Mark
      <4>2. QED
        BY <1>0, <4>1 DEF MembersTypeOK, Update
    <3>2. QED
      BY <2>1, <3>1 DEF UpdatesRecent, Lasted
  <2>5. QED
    BY <2>2, <2>3, <2>4
<1>3. ASSUME NEW w \in People, Move(w)
      PROVE  (ListRecent /\ ListingRecent /\ UpdatesRecent)'
  <2>1. UNCHANGED <<clock, list, listing>>
    BY <1>3 DEF Move
  <2>2. ListRecent'
    <3>1. SUFFICES ASSUME list # NoList, NEW u \in People \ list.unseen
                   PROVE  list.at <= clock
                          /\ Lasted(u, u \in list.users, list.at - Lag)'
      BY <2>1 DEF ListRecent, Lasted
    <3>2. list.at \in Nat /\ list.at <= clock
          /\ Lasted(u, u \in list.users, list.at - Lag)
      BY <1>0, <3>1 DEF ListRecent, MembersTypeOK, List
    <3>3. QED
      BY <1>0, <1>3, <2>1, <3>2 DEF Lasted, Move, MembersTypeOK
  <2>3. ListingRecent'
    <3>1. SUFFICES ASSUME NEW c \in Scans, During(c, "list"),
                          NEW u \in People \ listing[c].unseen
                   PROVE  Lasted(u, u \in listing[c].users, listing[c].at)'
      BY <2>1 DEF ListingRecent, Lasted, During
    <3>2. listing[c].at \in Nat /\ listing[c].at <= clock
          /\ Lasted(u, u \in listing[c].users, listing[c].at)
      BY <1>0, <3>1 DEF ListingRecent, MembersTypeOK, Listing, During
    <3>3. QED
      BY <1>0, <1>3, <2>1, <3>2 DEF Lasted, Move, MembersTypeOK
  <2>4. UpdatesRecent'
    <3>1. SUFFICES ASSUME NEW p \in updates'
                   PROVE  (/\ p.at <= clock /\ clock <= p.at + UpdateDelay
                           /\ Lasted(p.user, p.joined, p.at))'
      BY <2>1 DEF UpdatesRecent, Lasted
    <3>2. CASE p \in updates
      <4>1. /\ p \in Update /\ p.at <= clock /\ clock <= p.at + UpdateDelay
            /\ Lasted(p.user, p.joined, p.at)
        BY <1>0, <3>2 DEF UpdatesRecent, MembersTypeOK
      <4>2. QED
        BY <1>0, <1>3, <4>1 DEF Lasted, Move, MembersTypeOK, Update
    <3>3. CASE p = [user |-> w, joined |-> w \notin members, at |-> clock, stale |-> FALSE]
      BY <1>0, <1>3, <3>3 DEF Lasted, Move, MembersTypeOK
    <3>4. QED
      BY <1>3, <3>2, <3>3 DEF Move
  <2>5. QED
    BY <2>2, <2>3, <2>4
<1>4. ASSUME NEW p \in updates, Deliver(p)
      PROVE  (ListRecent /\ ListingRecent /\ UpdatesRecent)'
  <2>1. /\ UNCHANGED <<members, moved, clock, listing, updates>>
        /\ p \in Update /\ list # NoList /\ list \in List
        /\ list'.at = list.at
        /\ list'.users = IF p.joined THEN list.users \cup {p.user} ELSE list.users \ {p.user}
        /\ list'.unseen = list.unseen \ {p.user}
    BY <1>0, <1>4 DEF Deliver, telegram, MembersTypeOK, List
  <2>2. ListRecent'
    <3>1. list.at <= clock /\ p.at <= clock /\ clock <= p.at + UpdateDelay
      BY <2>1 DEF ListRecent, UpdatesRecent
    <3>2. ASSUME NEW u \in People \ list'.unseen
          PROVE  Lasted(u, u \in list'.users, list.at - Lag)
      <4>1. CASE u = p.user
        <5>1. (u \in list'.users) = p.joined
          BY <2>1, <4>1 DEF Update
        <5>2. Lasted(u, p.joined, p.at) /\ list.at - Lag <= p.at
          BY <1>0, <2>1, <3>1, <4>1 DEF UpdatesRecent, Update, List,
             MembersTypeOK
        <5>3. QED
          BY <1>0, <2>1, <5>1, <5>2, LastedLonger DEF Update, List
      <4>2. CASE u # p.user
        <5>1. (u \in list'.users) = (u \in list.users) /\ u \notin list.unseen
          BY <2>1, <3>2, <4>2
        <5>2. QED
          BY <2>1, <5>1 DEF ListRecent
      <4>3. QED
        BY <4>1, <4>2
    <3>3. QED
      BY <2>1, <3>1, <3>2 DEF ListRecent, Lasted
  <2>3. ListingRecent' /\ UpdatesRecent'
    BY <2>1 DEF ListingRecent, UpdatesRecent, Lasted, During
  <2>4. QED
    BY <2>2, <2>3
<1>5. ASSUME NEW p \in updates, Lose(p)
      PROVE  (ListRecent /\ ListingRecent /\ UpdatesRecent)'
  BY <1>5 DEF Lose, telegram, ListRecent, ListingRecent, UpdatesRecent, Lasted,
     During
<1>6. ASSUME NEW c \in Scans,
             ListHit(c) \/ ListingFails(c) \/ ListDone(c)
      PROVE  (ListRecent /\ ListingRecent /\ UpdatesRecent)'
  <2>1. UNCHANGED <<members, moved, clock, list, updates>>
    BY <1>6 DEF ListHit, ListingFails, ListDone, telegram
  <2>2. ASSUME NEW d \in Scans, During(d, "list")'
        PROVE  During(d, "list") /\ listing'[d] = listing[d]
    BY <1>0, <1>6, <2>2 DEF ListHit, ListingFails, ListDone, During,
       MembersTypeOK
  <2>3. ListingRecent'
    BY <2>1, <2>2 DEF ListingRecent, Lasted
  <2>4. QED
    BY <2>1, <2>3 DEF ListRecent, UpdatesRecent, Lasted
<1>7. ASSUME NEW c \in Scans, ListMiss(c)
      PROVE  (ListRecent /\ ListingRecent /\ UpdatesRecent)'
  <2>1. UNCHANGED <<members, moved, clock, list, updates>>
    BY <1>7 DEF ListMiss, telegram
  <2>2. ASSUME NEW d \in Scans, d # c
        PROVE  listing'[d] = listing[d]
    BY <1>0, <1>7, <2>2 DEF ListMiss, MembersTypeOK
  <2>3. /\ listing'[c].at = clock /\ listing'[c].users = {} /\ listing'[c].unseen = People
    BY <1>0, <1>7 DEF ListMiss, MembersTypeOK
  <2>4. ListingRecent'
    BY <1>0, <2>1, <2>2, <2>3 DEF ListingRecent, Lasted, During, MembersTypeOK
  <2>5. QED
    BY <2>1, <2>4 DEF ListRecent, UpdatesRecent, Lasted
<1>8. ASSUME NEW c \in Scans, ListStore(c)
      PROVE  (ListRecent /\ ListingRecent /\ UpdatesRecent)'
  <2>1. /\ UNCHANGED <<members, moved, clock, updates>>
        /\ listing[c] \in Listing /\ During(c, "list")
        /\ list' = [users |-> listing[c].users, unseen |-> listing[c].unseen, at |-> clock,
                     crossed |-> listing[c].crossed, old |-> {}]
    BY <1>0, <1>8 DEF ListStore, telegram, During, MembersTypeOK
  <2>2. ListRecent'
    <3>1. clock <= listing[c].at + ListingTime
      BY <2>1 DEF ListingRecent
    <3>2. ASSUME NEW u \in People \ listing[c].unseen
          PROVE  Lasted(u, u \in listing[c].users, clock - Lag)
      <4>1. Lasted(u, u \in listing[c].users, listing[c].at)
        BY <2>1 DEF ListingRecent
      <4>2. clock - Lag <= listing[c].at /\ listing[c].at \in Nat /\ clock \in Nat
        BY <1>0, <2>1, <3>1 DEF MembersTypeOK, Listing
      <4>3. QED
        BY <1>0, <4>1, <4>2, LastedLonger
    <3>3. QED
      BY <1>0, <2>1, <3>2 DEF ListRecent, Lasted, MembersTypeOK
  <2>3. ASSUME NEW d \in Scans, During(d, "list")'
        PROVE  During(d, "list") /\ listing'[d] = listing[d]
    BY <1>0, <1>8, <2>1, <2>3 DEF ListStore, During, MembersTypeOK, Listing
  <2>4. ListingRecent'
    BY <2>1, <2>3 DEF ListingRecent, Lasted
  <2>5. QED
    BY <2>1, <2>2, <2>4 DEF UpdatesRecent, Lasted
<1>9. ASSUME NEW c \in Scans, NEW w \in People, Page(c, w)
      PROVE  (ListRecent /\ ListingRecent /\ UpdatesRecent)'
  <2>1. /\ UNCHANGED <<members, moved, clock, list, updates>>
        /\ listing[c] \in Listing /\ During(c, "list") /\ w \in listing[c].unseen
        /\ listing'[c] = [listing[c] EXCEPT !.unseen = @ \ {w}, !.users = @ \cup ({w} \cap members)]
        /\ \A d \in Scans \ {c} : listing'[d] = listing[d]
    BY <1>0, <1>9 DEF Page, telegram, During, MembersTypeOK
  <2>2. /\ listing'[c].at = listing[c].at
        /\ listing'[c].unseen = listing[c].unseen \ {w}
        /\ listing'[c].users = listing[c].users \cup ({w} \cap members)
    BY <2>1 DEF Listing
  <2>3. /\ listing[c].at <= clock /\ clock <= listing[c].at + ListingTime
        /\ listing[c].users \cap listing[c].unseen = {}
    BY <2>1 DEF ListingRecent
  <2>4. ASSUME NEW u \in People \ listing'[c].unseen
        PROVE  Lasted(u, u \in listing'[c].users, listing[c].at)
    <3>1. CASE u = w
      BY <2>1, <2>2, <2>3, <3>1 DEF Lasted
    <3>2. CASE u # w
      <4>1. u \in People \ listing[c].unseen /\ (u \in listing'[c].users) = (u \in listing[c].users)
        BY <2>2, <2>4, <3>2
      <4>2. QED
        BY <2>1, <4>1 DEF ListingRecent
    <3>3. QED
      BY <3>1, <3>2
  <2>5. listing'[c].users \cap listing'[c].unseen = {}
    BY <2>2, <2>3
  <2>6. ListingRecent'
    <3>1. SUFFICES ASSUME NEW d \in Scans, During(d, "list")'
                   PROVE  (/\ listing[d].at <= clock /\ clock <= listing[d].at + ListingTime
                           /\ listing[d].users \cap listing[d].unseen = {}
                           /\ \A u \in People \ listing[d].unseen :
                                 Lasted(u, u \in listing[d].users, listing[d].at))'
      BY DEF ListingRecent
    <3>2. CASE d = c
      BY <2>1, <2>2, <2>3, <2>4, <2>5, <3>2 DEF Lasted
    <3>3. CASE d # c
      <4>1. listing'[d] = listing[d] /\ During(d, "list")
        BY <2>1, <3>1, <3>3 DEF During
      <4>2. QED
        BY <2>1, <4>1 DEF ListingRecent, Lasted
    <3>4. QED
      BY <3>2, <3>3
  <2>7. QED
    BY <2>1, <2>6 DEF ListRecent, UpdatesRecent, Lasted
<1>10. CASE UNCHANGED memberVars
  BY <1>10 DEF memberVars, ListRecent, ListingRecent, UpdatesRecent, Lasted, During
<1>11. QED
  BY <1>1, <1>2, <1>3, <1>4, <1>5, <1>6, <1>7, <1>8, <1>9, <1>10 DEF MembersNext

\* Every step keeps what was true since the last invalidation.
LEMMA MembersSinceStep ==
    ASSUME MembersInv, [MembersNext]_memberVars
    PROVE  SinceMarked'
<1> USE DEF MembersInv
<1>0. MembersTypeOK /\ MembersTypeOK'
  BY MembersTypeStep
<1>1. CASE InvalidateChannel
  <2>1. /\ list' = NoList /\ UNCHANGED members
        /\ since' = [u \in People |-> {(u \in members)}]
    BY <1>1 DEF InvalidateChannel, Mark, telegram
  <2>2. ASSUME NEW p \in updates' PROVE p.stale
    <3>1. PICK q \in updates : p = [q EXCEPT !.stale = TRUE]
      BY <1>1 DEF InvalidateChannel, Mark
    <3>2. q \in Update
      BY <1>0 DEF MembersTypeOK
    <3>3. QED
      BY <3>1, <3>2 DEF Update
  <2>3. ASSUME NEW c \in Scans, listing'[c] # NoListing
        PROVE  /\ listing[c] # NoListing /\ listing'[c].crossed
               /\ listing'[c].stage = listing[c].stage /\ listing'[c].unseen = listing[c].unseen
               /\ listing'[c].old = listing[c].old
    <3>1. listing[c] # NoListing /\ listing'[c] = [listing[c] EXCEPT !.crossed = TRUE]
      BY <1>1, <2>3 DEF InvalidateChannel, Mark
    <3>2. listing[c] \in Listing
      BY <1>0, <3>1 DEF MembersTypeOK
    <3>3. QED
      BY <3>1, <3>2 DEF Listing
  <2>4. QED
    BY <2>1, <2>2, <2>3 DEF SinceMarked, During
<1>2. ASSUME NEW w \in People, Move(w) PROVE SinceMarked'
  <2>1. UNCHANGED <<list, listing>> /\ \A u \in People : since[u] \subseteq since'[u]
    BY <1>0, <1>2 DEF Move, MembersTypeOK
  <2>2. ASSUME NEW u \in People PROVE (u \in members') \in since'[u]
    <3>1. CASE u = w
      BY <1>0, <1>2, <3>1 DEF Move, MembersTypeOK
    <3>2. CASE u # w
      BY <1>0, <1>2, <3>2 DEF Move, MembersTypeOK, SinceMarked
    <3>3. QED
      BY <3>1, <3>2
  <2>3. ASSUME NEW p \in updates', ~p.stale PROVE p.joined \in since'[p.user]
    <3>1. CASE p \in updates
      BY <1>0, <2>1, <2>3, <3>1 DEF SinceMarked, MembersTypeOK, Update
    <3>2. CASE p = [user |-> w, joined |-> w \notin members, at |-> clock, stale |-> FALSE]
      BY <1>0, <1>2, <3>2 DEF Move, MembersTypeOK
    <3>3. QED
      BY <1>2, <3>1, <3>2 DEF Move
  <2>4. QED
    BY <1>0, <2>1, <2>2, <2>3 DEF SinceMarked, During
<1>3. ASSUME NEW p \in updates, Deliver(p) PROVE SinceMarked'
  <2>1. /\ UNCHANGED <<members, listing, updates, since>>
        /\ p \in Update /\ list # NoList /\ list \in List
        /\ list'.crossed = list.crossed
        /\ list'.users = IF p.joined THEN list.users \cup {p.user} ELSE list.users \ {p.user}
        /\ list'.old = IF p.stale THEN list.old \cup {p.user} ELSE list.old \ {p.user}
        /\ list'.unseen = list.unseen \ {p.user}
    BY <1>0, <1>3 DEF Deliver, telegram, MembersTypeOK, List
  <2>2. ASSUME ~list.crossed, NEW u \in People \ (list'.old \cup list'.unseen)
        PROVE  (u \in list'.users) \in since[u]
    <3>1. CASE u = p.user
      <4>1. ~p.stale /\ (u \in list'.users) = p.joined
        BY <2>1, <2>2, <3>1 DEF Update
      <4>2. QED
        BY <3>1, <4>1 DEF SinceMarked
    <3>2. CASE u # p.user
      <4>1. u \notin list.old \cup list.unseen /\ (u \in list'.users) = (u \in list.users)
        BY <2>1, <2>2, <3>2
      <4>2. QED
        BY <2>1, <2>2, <4>1 DEF SinceMarked
    <3>3. QED
      BY <3>1, <3>2
  <2>3. QED
    BY <2>1, <2>2 DEF SinceMarked, During
<1>4. ASSUME NEW c \in Scans,
             ListHit(c) \/ ListMiss(c) \/ ListingFails(c) \/ ListDone(c)
      PROVE  SinceMarked'
  <2>1. /\ UNCHANGED <<members, list, updates, since>>
        /\ \A d \in Scans \ {c} : listing'[d] = listing[d]
    <3>1. UNCHANGED <<members, list, updates, since>>
      BY <1>4 DEF ListHit, ListMiss, ListingFails, ListDone,
         telegram
    <3>2. PICK x : listing' = [listing EXCEPT ![c] = x]
      BY <1>4 DEF ListHit, ListMiss, ListingFails, ListDone
    <3>3. QED
      BY <1>0, <3>1, <3>2 DEF MembersTypeOK
  <2>2. CASE ListHit(c)
    <3>1. listing'[c] = [stage |-> "answered", users |-> list.users, unseen |-> list.unseen,
                      at |-> clock, crossed |-> list.crossed, old |-> list.old]
          /\ list # NoList
      BY <1>0, <2>2 DEF ListHit, ListUsable, MembersTypeOK
    <3>2. /\ listing'[c].stage = "answered" /\ listing'[c].unseen = list.unseen
          /\ listing'[c].users = list.users /\ listing'[c].crossed = list.crossed
          /\ listing'[c].old = list.old
      BY <3>1
    <3>3. ~listing'[c].crossed =>
            \A u \in People \ (listing'[c].old \cup listing'[c].unseen) :
                (u \in listing'[c].users) \in since[u]
      BY <3>1, <3>2 DEF SinceMarked
    <3>4. QED
      BY <2>1, <3>2, <3>3 DEF SinceMarked, During
  <2>3. CASE ListMiss(c)
    <3>1. listing'[c].unseen = People /\ listing'[c].stage = "list" /\ listing'[c].old = {}
      BY <1>0, <2>3 DEF ListMiss, MembersTypeOK
    <3>2. QED
      BY <2>1, <3>1 DEF SinceMarked, During
  <2>4. CASE ListingFails(c) \/ ListDone(c)
    <3>1. listing'[c] = NoListing
      BY <1>0, <2>4 DEF ListingFails, ListDone, MembersTypeOK
    <3>2. QED
      BY <2>1, <3>1 DEF SinceMarked, During
  <2>5. QED
    BY <1>4, <2>2, <2>3, <2>4
<1>5. ASSUME NEW c \in Scans, ListStore(c) PROVE SinceMarked'
  <2>1. /\ UNCHANGED <<members, updates, since>>
        /\ listing[c] \in Listing /\ listing[c] # NoListing
        /\ list' = [users |-> listing[c].users, unseen |-> listing[c].unseen, at |-> clock,
                     crossed |-> listing[c].crossed, old |-> {}]
        /\ listing'[c] = [listing[c] EXCEPT !.stage = "answered", !.at = clock]
        /\ \A d \in Scans \ {c} : listing'[d] = listing[d]
    BY <1>0, <1>5 DEF ListStore, telegram, During, MembersTypeOK
  <2>2. /\ listing'[c].unseen = listing[c].unseen /\ listing'[c].crossed = listing[c].crossed
        /\ listing'[c].old = listing[c].old /\ listing'[c].users = listing[c].users
    BY <2>1 DEF Listing
  <2>3. listing[c].old = {}
    BY <1>5, <2>1 DEF SinceMarked, ListStore
  <2>4. QED
    BY <2>1, <2>2, <2>3 DEF SinceMarked, During
<1>6. ASSUME NEW c \in Scans, NEW w \in People, Page(c, w) PROVE SinceMarked'
  <2>1. /\ UNCHANGED <<members, list, updates, since>>
        /\ listing[c] \in Listing /\ During(c, "list") /\ w \in listing[c].unseen
        /\ listing'[c] = [listing[c] EXCEPT !.unseen = @ \ {w}, !.users = @ \cup ({w} \cap members)]
        /\ \A d \in Scans \ {c} : listing'[d] = listing[d]
    BY <1>0, <1>6 DEF Page, telegram, During, MembersTypeOK
  <2>2. /\ listing'[c].stage = "list" /\ listing'[c].crossed = listing[c].crossed
        /\ listing'[c].old = listing[c].old
        /\ listing'[c].unseen = listing[c].unseen \ {w}
        /\ listing'[c].users = listing[c].users \cup ({w} \cap members)
    BY <2>1 DEF Listing, During
  <2>3. listing[c].users \cap listing[c].unseen = {}
    BY <2>1 DEF ListingRecent
  <2>4. ASSUME ~listing[c].crossed, NEW u \in People \ (listing[c].old \cup listing'[c].unseen)
        PROVE  (u \in listing'[c].users) \in since[u]
    <3>1. CASE u = w
      <4>1. (u \in listing'[c].users) = (u \in members)
        BY <2>1, <2>2, <2>3, <3>1
      <4>2. QED
        BY <4>1 DEF SinceMarked
    <3>2. CASE u # w
      <4>1. u \notin listing[c].unseen /\ (u \in listing'[c].users) = (u \in listing[c].users)
        BY <2>2, <2>4, <3>2
      <4>2. QED
        BY <2>1, <2>4, <4>1 DEF SinceMarked, During
    <3>3. QED
      BY <3>1, <3>2
  <2>5. ASSUME NEW d \in Scans
        PROVE  (/\ During(d, "list") => listing[d].old = {}
                /\ listing[d] # NoListing /\ ~listing[d].crossed =>
                      \A u \in People \ (listing[d].old \cup listing[d].unseen) :
                          (u \in listing[d].users) \in since[u])'
    <3>1. CASE d = c
      BY <2>1, <2>2, <2>4, <3>1 DEF SinceMarked, During
    <3>2. CASE d # c
      <4>1. listing'[d] = listing[d]
        BY <2>1, <3>2
      <4>2. QED
        BY <2>1, <4>1 DEF SinceMarked, During
    <3>3. QED
      BY <3>1, <3>2
  <2>6. QED
    BY <2>1, <2>5 DEF SinceMarked
<1>7. ASSUME NEW p \in updates, Lose(p) PROVE SinceMarked'
  BY <1>7 DEF Lose, telegram, SinceMarked, During
<1>8. CASE MembersTick \/ UNCHANGED memberVars
  BY <1>8 DEF MembersTick, telegram, memberVars, SinceMarked, During
<1>9. QED
  BY <1>1, <1>2, <1>3, <1>4, <1>5, <1>6, <1>7, <1>8 DEF MembersNext

\* The inductive invariant of the member list.
THEOREM MembersInvariant ==
    MembersSpec => []MembersInv
<1>1. MembersInit => MembersInv
  BY MembersInitInv
<1>2. MembersInv /\ [MembersNext]_memberVars => MembersInv'
  <2>1. SUFFICES ASSUME MembersInv, [MembersNext]_memberVars PROVE MembersInv'
    OBVIOUS
  <2>2. MembersTypeOK
    BY <2>1 DEF MembersInv
  <2>3. QED
    BY <2>1, <2>2, MembersTypeStep, MembersRecentStep, MembersSinceStep DEF MembersInv
<1>3. QED
  BY <1>1, <1>2, PTL DEF MembersSpec

\* Every variable of the member list keeps its type (get_channel_users.go).
THEOREM MembersTypes ==
    MembersSpec => []MembersTypeOK
<1>1. MembersInv => MembersTypeOK
  BY DEF MembersInv
<1>2. QED
  BY <1>1, MembersInvariant, PTL

\* A scan that lists the channel after an invalidation is told what was true since,
\* unless its list was under way then or an older update has edited it.
THEOREM KicksAreSeen ==
    MembersSpec => []InvalidationIsSeen
<1>1. MembersInv => InvalidationIsSeen
  BY DEF MembersInv, SinceMarked, InvalidationIsSeen, During
<1>2. QED
  BY <1>1, MembersInvariant, PTL

\* A scan that finds a list, or stores one, is told of each user it covers what was
\* true less than ListWindow before.
LEMMA MembersAnswer ==
    ASSUME MembersInv,
           NEW c \in Scans, NEW u \in People, ListHit(c) \/ ListStore(c),
           u \notin listing'[c].unseen
    PROVE  \E v \in BOOLEAN :
              /\ Lasted(u, v, clock - ListWindow + 1)
              /\ Told(c, u)' = [user |-> u, has |-> v]
<1> USE MembersLag
<1>0. MembersTypeOK /\ clock \in Nat
  BY DEF MembersInv, MembersTypeOK
<1>1. CASE ListHit(c)
  <2>1. /\ list \in List /\ list # NoList /\ list.at + CacheTime > clock
        /\ listing'[c] # NoListing
        /\ listing'[c].stage = "answered" /\ listing'[c].users = list.users
        /\ u \notin list.unseen
    <3>1. list # NoList /\ list \in List /\ list.at + CacheTime > clock
      BY <1>0, <1>1 DEF ListHit, ListUsable, MembersTypeOK
    <3>2. listing'[c] = [stage |-> "answered", users |-> list.users, unseen |-> list.unseen,
                      at |-> clock, crossed |-> list.crossed, old |-> list.old]
      BY <1>0, <1>1 DEF ListHit, MembersTypeOK
    <3>3. [stage |-> "answered", users |-> list.users, unseen |-> list.unseen,
           at |-> clock, crossed |-> list.crossed, old |-> list.old] \in Listing
      BY <1>0, <3>1 DEF Listing, List
    <3>4. QED
      BY <3>1, <3>2, <3>3, MembersNoCall
  <2>2. Lasted(u, u \in list.users, list.at - Lag)
    BY <2>1 DEF MembersInv, ListRecent
  <2>3. Lasted(u, u \in list.users, clock - ListWindow + 1)
    BY <1>0, <2>1, <2>2, LastedLonger DEF ListWindow, List
  <2>4. Told(c, u)' = [user |-> u, has |-> u \in list.users]
    BY <2>1 DEF Told, During
  <2>5. WITNESS (u \in list.users) \in BOOLEAN
  <2>6. QED
    BY <2>3, <2>4
<1>2. CASE ListStore(c)
  <2>1. /\ listing[c] \in Listing /\ During(c, "list")
        /\ listing'[c] = [listing[c] EXCEPT !.stage = "answered", !.at = clock]
    BY <1>0, <1>2 DEF ListStore, During, MembersTypeOK
  <2>2. /\ listing'[c] # NoListing /\ u \notin listing[c].unseen
        /\ listing'[c].stage = "answered" /\ listing'[c].users = listing[c].users
    <3>1. listing'[c] \in Listing
      BY <1>0, <2>1, Zenon DEF Listing
    <3>2. QED
      BY <2>1, <3>1, MembersNoCall DEF Listing
  <2>3. clock <= listing[c].at + ListingTime /\ Lasted(u, u \in listing[c].users, listing[c].at)
    BY <2>1 DEF MembersInv, ListingRecent
  <2>4. Lasted(u, u \in listing[c].users, clock - ListWindow + 1)
    BY <1>0, <2>1, <2>3, LastedLonger DEF ListWindow, Listing
  <2>5. Told(c, u)' = [user |-> u, has |-> u \in listing[c].users]
    BY <2>2 DEF Told, During
  <2>6. WITNESS (u \in listing[c].users) \in BOOLEAN
  <2>7. QED
    BY <2>4, <2>5
<1>3. QED
  BY <1>1, <1>2

\* What other callers were told is left alone.
LEMMA MembersToldElsewhere ==
    ASSUME NEW u \in People, NEW c \in Scans, listing'[c] = listing[c]
    PROVE  Told(c, u)' = Told(c, u)
BY DEF Told, During

LEMMA MembersInitImplements ==
    ASSUME NEW u \in People, MembersInit
    PROVE  ListContract(u)!Init
BY DEF MembersInit, ListContract!Init, LongAgo, ListContract!Never,
   Told, During

\* Seen by one user, every step is a step of the contract or changes nothing.
LEMMA MembersStepImplements ==
    ASSUME MembersInv, MembersNext, NEW u \in People
    PROVE  [ListContract(u)!Next]_(ListContract(u)!vars)
<1>0. MembersTypeOK
  BY DEF MembersInv
<1> DEFINE Seen == [c \in Scans |-> Told(c, u)]
<1>1. ASSUME UNCHANGED <<members, moved, clock, listing>>
      PROVE  UNCHANGED ListContract(u)!vars
  BY <1>1 DEF ListContract!vars, Told, During
<1>2. CASE MembersTick
  <2>1. Seen' = Seen
    BY <1>2 DEF MembersTick, Told, During
  <2>2. ListContract(u)!Tick
    BY <1>2, <2>1 DEF MembersTick, telegram, ListContract!Tick
  <2>3. QED
    BY <2>2 DEF ListContract!Next
<1>3. CASE InvalidateChannel
  <2>1. ASSUME NEW c \in Scans PROVE Told(c, u)' = Told(c, u)
    <3>1. CASE listing[c] = NoListing
      BY <1>3, <3>1 DEF InvalidateChannel, Mark, Told, During
    <3>2. CASE listing[c] # NoListing
      <4>1. listing[c] \in Listing
        BY <1>0, <3>2 DEF MembersTypeOK
      <4>2. listing'[c] = [listing[c] EXCEPT !.crossed = TRUE]
        BY <1>3, <3>2 DEF InvalidateChannel, Mark
      <4>3. listing'[c] \in Listing /\ listing'[c] # NoListing
            /\ listing'[c].stage = listing[c].stage /\ listing'[c].users = listing[c].users
            /\ listing'[c].unseen = listing[c].unseen
        BY <4>1, <4>2, MembersNoCall DEF Listing
      <4>4. QED
        BY <3>2, <4>3 DEF Told, During
    <3>3. QED
      BY <3>1, <3>2
  <2>2. UNCHANGED ListContract(u)!vars
    BY <1>3, <2>1 DEF InvalidateChannel, telegram, ListContract!vars
  <2>3. QED
    BY <2>2
<1>4. ASSUME NEW w \in People, Move(w)
      PROVE  [ListContract(u)!Next]_(ListContract(u)!vars)
  <2>1. Seen' = Seen
    BY <1>4 DEF Move, Told, During
  <2>2. CASE w = u
    <3>1. [v \in {u} |-> v \in members'] = [[v \in {u} |-> v \in members] EXCEPT ![u] = ~@]
      <4>1. (u \in members') = ~(u \in members)
        BY <1>4, <2>2 DEF Move
      <4>2. QED
        BY <4>1
    <3>2. [v \in {u} |-> moved'[v]] = [[v \in {u} |-> moved[v]] EXCEPT ![u] = clock]
      BY <1>0, <1>4, <2>2 DEF Move, MembersTypeOK
    <3>3. ListContract(u)!Change(u)
      BY <1>4, <2>1, <3>1, <3>2 DEF Move, ListContract!Change
    <3>4. QED
      BY <3>3 DEF ListContract!Next
  <2>3. CASE w # u
    <3>1. (u \in members') = (u \in members) /\ moved'[u] = moved[u]
      BY <1>0, <1>4, <2>3 DEF Move, MembersTypeOK
    <3>2. UNCHANGED ListContract(u)!vars
      BY <1>4, <2>1, <3>1 DEF Move, ListContract!vars
    <3>3. QED
      BY <3>2
  <2>4. QED
    BY <2>2, <2>3
<1>5. ASSUME NEW p \in updates, Deliver(p) \/ Lose(p)
      PROVE  UNCHANGED ListContract(u)!vars
  BY <1>1, <1>5 DEF Deliver, Lose, telegram
<1>6. ASSUME NEW c \in Scans, ListHit(c) \/ ListStore(c), u \notin listing'[c].unseen
      PROVE  ListContract(u)!Next
  <2>1. PICK v \in BOOLEAN :
              /\ Lasted(u, v, clock - ListWindow + 1)
              /\ Told(c, u)' = [user |-> u, has |-> v]
    BY <1>6, MembersAnswer
  <2>2. UNCHANGED <<members, moved, clock>> /\ \A d \in Scans \ {c} : listing'[d] = listing[d]
    BY <1>0, <1>6 DEF ListHit, ListStore, telegram, MembersTypeOK
  <2>3. Seen' = [Seen EXCEPT ![c] = [user |-> u, has |-> v]]
    BY <2>1, <2>2, MembersToldElsewhere
  <2>4. ListContract(u)!Held(u, v, clock - ListWindow + 1)
    BY <2>1 DEF Lasted, ListContract!Held
  <2>5. ListContract(u)!Say(c, u, v)
    BY <2>2, <2>3, <2>4 DEF ListContract!Say
  <2>6. QED
    BY <2>5 DEF ListContract!Next
<1>7. ASSUME NEW c \in Scans,
             \/ ListMiss(c) \/ ListingFails(c) \/ \E w \in People : Page(c, w)
             \/ (ListHit(c) \/ ListStore(c)) /\ u \in listing'[c].unseen
      PROVE  UNCHANGED ListContract(u)!vars
  <2>1. UNCHANGED <<members, moved, clock>> /\ \A d \in Scans \ {c} : listing'[d] = listing[d]
    BY <1>0, <1>7 DEF ListMiss, ListingFails, Page, ListHit, ListStore, telegram,
       MembersTypeOK
  <2>2. Told(c, u) = NoListing /\ Told(c, u)' = NoListing
    <3>1. ~During(c, "answered")
      BY <1>7 DEF ListMiss, ListingFails, Page, ListHit, ListStore, During
    <3>2. ~During(c, "answered")' \/ u \in listing'[c].unseen
      <4>1. CASE ListMiss(c) \/ ListingFails(c)
        BY <1>0, <4>1 DEF ListMiss, ListingFails, During, MembersTypeOK
      <4>2. ASSUME NEW w \in People, Page(c, w) PROVE ~During(c, "answered")'
        <5>1. listing[c] \in Listing /\ listing[c].stage = "list"
          BY <1>0, <4>2 DEF Page, During, MembersTypeOK
        <5>2. listing'[c].stage = "list"
          BY <1>0, <4>2, <5>1 DEF Page, MembersTypeOK, Listing
        <5>3. QED
          BY <5>2 DEF During
      <4>3. QED
        BY <1>7, <4>1, <4>2
    <3>3. QED
      BY <3>1, <3>2 DEF Told
  <2>3. QED
    BY <2>1, <2>2, MembersToldElsewhere DEF ListContract!vars
<1>8. ASSUME NEW c \in Scans, ListDone(c)
      PROVE  ListContract(u)!Next
  <2>1. /\ UNCHANGED <<members, moved, clock>> /\ \A d \in Scans \ {c} : listing'[d] = listing[d]
        /\ listing'[c] = NoListing
    BY <1>0, <1>8 DEF ListDone, telegram, MembersTypeOK
  <2>2. Seen' = [d \in Scans |-> IF d \in {c} THEN NoListing ELSE Seen[d]]
    BY <2>1, MembersToldElsewhere DEF Told, During
  <2>3. ListContract(u)!Fail({c})
    BY <2>1, <2>2 DEF ListContract!Fail
  <2>4. QED
    BY <2>3 DEF ListContract!Next
<1>9. QED
  BY <1>2, <1>3, <1>4, <1>5, <1>6, <1>7, <1>8 DEF MembersNext

\* The list implements the contract for each user, with CacheTime and the time of a
\* listing or of an update, whichever is longer: initial states map to initial
\* states, every step to a step or a stutter.
THEOREM MembersRefinement ==
    MembersSpec => ListsImplementVerdicts
<1>1. MembersInit => \A u \in People : ListContract(u)!Init
  BY MembersInitImplements
<1>2. MembersInv /\ [MembersNext]_memberVars =>
        \A u \in People : [ListContract(u)!Next]_(ListContract(u)!vars)
  <2>1. CASE MembersNext
    BY <2>1, MembersStepImplements
  <2>2. ASSUME UNCHANGED memberVars, NEW u \in People
        PROVE  UNCHANGED ListContract(u)!vars
    BY <2>2 DEF memberVars, ListContract!vars, Told, During
  <2>3. QED
    BY <2>1, <2>2
<1>3. QED
  BY <1>1, <1>2, MembersInvariant, PTL DEF MembersSpec, ListsImplementVerdicts

\* Each user sees AccessVerdicts itself.
THEOREM MembersImplementContract ==
    ASSUME NEW u \in People
    PROVE  MembersSpec => ListContract(u)!Spec
<1>1. MembersInit => ListContract(u)!Init
  BY MembersInitImplements
<1>2. MembersInv /\ [MembersNext]_memberVars =>
        [ListContract(u)!Next]_(ListContract(u)!vars)
  <2>1. CASE MembersNext
    BY <2>1, MembersStepImplements
  <2>2. CASE UNCHANGED memberVars
    BY <2>2 DEF memberVars, ListContract!vars, Told, During
  <2>3. QED
    BY <2>1, <2>2
<1>3. QED
  BY <1>1, <1>2, MembersInvariant, PTL DEF MembersSpec, ListContract!Spec
=============================================================================
