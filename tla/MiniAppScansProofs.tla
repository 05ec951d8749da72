-------------------------- MODULE MiniAppScansProofs --------------------------
(***************************************************************************)
(* The scans kept for the Mini App, for any number of users, requests and  *)
(* scans.  The invariant says what a scan holds at each stage of its       *)
(* goroutine, whom a request may still act on, and, user by user, that a   *)
(* scan shows the whitelist or somebody is about to make it.               *)
(***************************************************************************)
EXTENDS MiniAppScans, FiniteSetTheorems, TLAPS

\* A reason of the whitelist goes with its status, but for the kicked.
Noted(r) == r # NotSeen /\ r.note = "whitelisted" => r.status \in {"whitelisted", "kicked"}

\* A scan before its goroutine, and a scan in its goroutine's hands.
ScanOK(j) ==
    /\ j > started => job[j] = Fresh /\ run[j].at = "none"
    /\ run[j].at # "none" => job[j].users = Nobody
    /\ \A u \in Users : Noted(job[j].users[u])
    /\ run[j].at \in {"check", "publish"} => \A u \in Users : Noted(run[j].found[u])

\* What a request does is about users its scan has seen; a kick leaves out who
\* was protected all along.
SessionOK(s) ==
    /\ At(s, "recheck") => job[session[s].job].users[session[s].user] # NotSeen
    /\ session[s] \in Kick =>
         /\ \A u \in session[s].todo \cup session[s].allowed \cup session[s].kicked :
               job[session[s].job].users[u] # NotSeen
         /\ session[s].shielded["administrator"] \subseteq admins
         /\ session[s].shielded["whitelisted"] \subseteq whitelist
         /\ session[s].allowed \cap session[s].shielded["administrator"] = {}
         /\ session[s].allowed \cap session[s].shielded["whitelisted"] = {}
         /\ session[s].at \in {"check", "kick"} => session[s].todo \cap session[s].shielded["administrator"] = {}
         /\ session[s].at = "kick" => session[s].todo \cap session[s].shielded["whitelisted"] = {}

\* A session that is going to bring the scans in line with u's last change.
Pending(s, u) ==
    \/ At(s, "put") /\ u \in session[s].put
    \/ At(s, "sync") \/ At(s, "apply")

Agrees(r, u) ==
    /\ r.status = "whitelisted" <=> u \in whitelist
    /\ r.note = "whitelisted" => u \in whitelist

UserOK(u) ==
    u \notin untold =>
        /\ \A s \in Sessions : At(s, "apply") => (u \in session[s].entries <=> u \in whitelist)
        /\ \A j \in Jobs : run[j].at \in {"check", "publish"} /\ run[j].found[u] # NotSeen =>
                             Agrees(run[j].found[u], u)
        /\ \A j \in stored : job[j].state = "done" => Shows(j, u) \/ \E s \in Sessions : Pending(s, u)

MInv ==
    /\ TypeOK
    /\ \A j \in Jobs : ScanOK(j)
    /\ \A s \in Sessions : SessionOK(s)
    /\ \A u \in Users : UserOK(u)

-----------------------------------------------------------------------------
(* The operators. *)

LEMMA StoreBounds == StoreCap \in Nat /\ StoreCap >= 1 /\ MaxJobs \in Nat /\ MaxChanges \in Nat
BY ScanAssumption

LEMMA VerdictIs == ASSUME NEW v \in Verdicts PROVE v \in {"good", "bad", "unknown"}
BY ScanAssumption

LEMMA SeenIs == ASSUME NEW r \in Seen PROVE r # NotSeen
BY ScanSentinels

\* A user as a scan meets it, with a status or none.
Met == [status : Statuses \cup {""}, base : Verdicts \cup {"none"}, check : Verdicts \cup {"none"},
        note : {"none", "whitelisted", "administrator"}]

LEMMA MarkedType ==
    ASSUME NEW r \in Met
    PROVE  Marked(r) \in Seen /\ Marked(r).status = "whitelisted" /\ Noted(Marked(r))
<1>1. (IF r.status \in Verdicts THEN r.status ELSE r.base) \in Verdicts \cup {"none"}
  BY DEF Met
<1>2. (IF r.note = "none" THEN "whitelisted" ELSE r.note) \in {"none", "whitelisted", "administrator"}
  BY DEF Met
<1>3. Marked(r) \in Seen
  BY <1>1, <1>2 DEF Marked, Met, Seen, Statuses
<1>4. Marked(r).status = "whitelisted"
  BY DEF Marked, Met
<1>5. QED
  BY <1>3, <1>4 DEF Noted

LEMMA UnmarkedType ==
    ASSUME NEW r \in Seen
    PROVE  /\ Unmarked(r) \in Seen /\ Unmarked(r).status \in {"good", "bad", "unknown"}
           /\ Unmarked(r).note # "whitelisted" /\ Noted(Unmarked(r))
<1> DEFINE status == IF r.check # "none" THEN r.check ELSE IF r.base # "none" THEN r.base ELSE "unknown"
           note == IF r.note = "whitelisted" THEN "none" ELSE r.note
<1>1. status \in {"good", "bad", "unknown"}
  BY VerdictIs DEF Seen
<1>2. note \in {"none", "administrator"}
  BY DEF Seen
<1>3. Unmarked(r) = [r EXCEPT !.status = status, !.note = note]
  BY DEF Unmarked
<1> HIDE DEF status, note
<1>4. Unmarked(r) \in Seen
  BY <1>1, <1>2, <1>3 DEF Seen, Statuses
<1>5. Unmarked(r).status = status /\ Unmarked(r).note = note
  BY <1>3 DEF Seen
<1>6. QED
  BY <1>1, <1>2, <1>4, <1>5 DEF Noted

\* A reconciled user shows the whitelist, and stays seen and kicked.
LEMMA ReconciledShows ==
    ASSUME NEW r \in Seen \cup {NotSeen}, Noted(r), NEW listed \in BOOLEAN
    PROVE  /\ Reconciled(r, listed) \in Seen \cup {NotSeen} /\ Noted(Reconciled(r, listed))
           /\ r # NotSeen =>
                /\ Reconciled(r, listed) # NotSeen
                /\ r.status = "kicked" => Reconciled(r, listed).status = "kicked"
                /\ Reconciled(r, listed).status # "kicked" =>
                     /\ Reconciled(r, listed).status = "whitelisted" <=> listed
                     /\ Reconciled(r, listed).note = "whitelisted" => listed
           /\ r = NotSeen => Reconciled(r, listed) = NotSeen
<1>1. CASE r = NotSeen
  <2>1. Reconciled(r, listed) = r
    BY <1>1 DEF Reconciled
  <2>2. QED
    BY <1>1, <2>1
<1>2. CASE r # NotSeen /\ r.status # "kicked" /\ listed
  <2>1. Reconciled(r, listed) = Marked(r)
    BY <1>2 DEF Reconciled
  <2>2. r \in Met
    BY <1>2 DEF Seen, Met
  <2>3. QED
    BY <1>2, <2>1, <2>2, MarkedType, SeenIs
<1>3. CASE r # NotSeen /\ r.status = "whitelisted" /\ ~listed
  <2>1. Reconciled(r, listed) = Unmarked(r)
    BY <1>3 DEF Reconciled
  <2>2. QED
    BY <1>3, <2>1, UnmarkedType, SeenIs
<1>4. CASE r # NotSeen /\ ~(r.status # "kicked" /\ listed) /\ ~(r.status = "whitelisted" /\ ~listed)
  <2>1. Reconciled(r, listed) = r
    BY <1>4 DEF Reconciled
  <2>2. QED
    BY <1>4, <2>1 DEF Noted
<1>5. QED
  BY <1>1, <1>2, <1>3, <1>4

LEMMA CountsType == ASSUME NEW users PROVE Counts(users) \in Summary
<1>1. \A s \in Counted :
          Cardinality({u \in Users : users[u] # NotSeen /\ users[u].status = s}) \in Nat
  BY ScanAssumption, FS_Subset, FS_CardinalityType
<1>2. QED
  BY <1>1 DEF Counts, Summary

LEMMA ZeroType == Zero \in Summary
BY DEF Zero, Summary

\* expireScansLocked always leaves room for one.
LEMMA KeptHasRoom ==
    ASSUME NEW n \in Nat, NEW ids \in SUBSET (1..n), NEW i
    PROVE  /\ Kept(ids) \subseteq ids
           /\ Cardinality(Kept(ids)) <= StoreCap
           /\ Cardinality(Kept(ids) \cup {i}) <= StoreCap
<1>0. IsFiniteSet(1..n)
  BY FS_Interval
<1>1. IsFiniteSet(ids) /\ Cardinality(ids) \in Nat /\ ids \subseteq Int
  <2>1. IsFiniteSet(ids)
    BY <1>0, FS_Subset
  <2>2. Cardinality(ids) \in Nat
    BY <2>1, FS_CardinalityType
  <2>3. ids \subseteq Int
    OBVIOUS
  <2>4. QED
    BY <2>1, <2>2, <2>3
<1>2. Kept(ids) \subseteq ids
  BY DEF Kept
<1>3. IsFiniteSet(Kept(ids)) /\ Cardinality(Kept(ids)) \in Nat
  BY <1>1, <1>2, FS_Subset, FS_CardinalityType
<1>4. Cardinality(Kept(ids)) < StoreCap
  <2>1. CASE Cardinality(ids) < StoreCap
    BY <2>1 DEF Kept
  <2>2. CASE ~(Cardinality(ids) < StoreCap)
    <3> DEFINE kept == {k \in ids : Cardinality({m \in ids : m >= k}) < StoreCap}
               from(k) == {m \in ids : m >= k}
               f == [k \in kept |-> Cardinality(from(k))]
    <3>1. Kept(ids) = kept
      BY <2>2 DEF Kept
    <3>2. \A k \in kept : IsFiniteSet(from(k)) /\ Cardinality(from(k)) \in Nat
      BY <1>1, FS_Subset, FS_CardinalityType
    <3>3. \A k \in kept : k \in Int /\ k \in from(k)
      OBVIOUS
    <3>4. \A k \in kept : Cardinality(from(k)) \in 1..(StoreCap - 1)
      <4> SUFFICES ASSUME NEW k \in kept
                   PROVE  Cardinality(from(k)) \in 1..(StoreCap - 1)
        OBVIOUS
      <4>1. Cardinality(from(k)) # 0
        BY <3>2, <3>3, FS_EmptySet
      <4>2. Cardinality(from(k)) < StoreCap
        OBVIOUS
      <4>3. QED
        BY <3>2, <4>1, <4>2, StoreBounds
    <3>5. ASSUME NEW k \in kept, NEW m \in kept, k < m
          PROVE  Cardinality(from(k)) # Cardinality(from(m))
      <4>1. from(m) \subseteq from(k)
        <5> SUFFICES ASSUME NEW x \in ids, x >= m
                     PROVE  x >= k
          OBVIOUS
        <5>1. x \in Int /\ k \in Int /\ m \in Int
          BY <1>1
        <5>2. QED
          BY <3>5, <5>1
      <4>2. k \in from(k) /\ k \notin from(m)
        BY <3>3, <3>5
      <4>3. QED
        BY <3>2, <4>1, <4>2, FS_Subset
    <3>6. f \in Injection(kept, 1..(StoreCap - 1))
      <4>1. f \in [kept -> 1..(StoreCap - 1)]
        BY <3>4
      <4>2. ASSUME NEW k \in kept, NEW m \in kept, f[k] = f[m]
            PROVE  k = m
        <5>1. Cardinality(from(k)) = Cardinality(from(m))
          BY <4>2
        <5>2. QED
          BY <3>3, <3>5, <5>1
      <4>3. QED
        BY <4>1, <4>2 DEF Injection, IsInjective
    <3>7. IsFiniteSet(1..(StoreCap - 1)) /\ Cardinality(1..(StoreCap - 1)) = StoreCap - 1
      BY StoreBounds, FS_Interval
    <3>8. Cardinality(kept) <= StoreCap - 1
      BY <3>6, <3>7, FS_Injection
    <3>9. QED
      BY <1>3, <3>1, <3>8, StoreBounds
  <2>3. QED
    BY <2>1, <2>2
<1>5. Cardinality(Kept(ids) \cup {i}) \in {Cardinality(Kept(ids)), Cardinality(Kept(ids)) + 1}
  BY <1>3, FS_AddElement
<1>6. QED
  BY <1>2, <1>3, <1>4, <1>5, StoreBounds

-----------------------------------------------------------------------------
(* What the goroutines and the requests hold. *)

LEMMA SessionIs ==
    ASSUME TypeOK, NEW s \in Sessions
    PROVE  /\ session[s] # Idle => session[s] \in Session
           /\ At(s, "admins") \/ At(s, "check") \/ At(s, "kick") <=> session[s] \in Kick
           /\ At(s, "summary") => session[s].job \in Jobs
           /\ At(s, "record") => session[s].summary \in Summary
           /\ At(s, "recheck") => session[s].job \in Jobs /\ session[s].user \in Users
           /\ At(s, "put") => session[s].todo \in SUBSET Users /\ session[s].put \in SUBSET Users
           /\ At(s, "apply") => session[s].entries \in SUBSET Users
<1>1. session[s] \in Session \cup {Idle}
  BY DEF TypeOK
<1>2. Idle \notin Session /\ Idle \notin Kick
  BY ScanSentinels DEF Session
<1>3. QED
  BY <1>1, <1>2 DEF At, Session, Kick

LEMMA KickIs ==
    ASSUME NEW k \in Kick
    PROVE  /\ k.at \in {"admins", "check", "kick"} /\ k.job \in Jobs /\ k # Idle
           /\ k.todo \in SUBSET Users /\ k.allowed \in SUBSET Users /\ k.kicked \in SUBSET Users
           /\ k.shielded["administrator"] \in SUBSET Users
           /\ k.shielded["whitelisted"] \in SUBSET Users
<1>1. k # Idle
  BY ScanSentinels DEF Session
<1>2. k.shielded \in [Protections -> SUBSET Users]
  BY DEF Kick
<1>3. QED
  BY <1>1, <1>2 DEF Kick, Protections

LEMMA RunIs ==
    ASSUME TypeOK, NEW j \in Jobs
    PROVE  /\ run[j].at \in {"none", "list", "admins", "check", "publish"}
           /\ run[j].at \in {"admins", "check", "publish"} => run[j].todo \in SUBSET Users
           /\ run[j].at \in {"check", "publish"} =>
                 /\ run[j].protect \in SUBSET Users /\ run[j].found \in Found
                 /\ run[j] \in [at : {"check", "publish"}, todo : SUBSET Users,
                                 protect : SUBSET Users, found : Found]
<1>1. run[j] \in Run
  BY DEF TypeOK
<1>2. QED
  BY <1>1 DEF Run

LEMMA JobIs ==
    ASSUME TypeOK, NEW j \in Jobs
    PROVE  /\ job[j] \in View /\ job[j].users \in Found
           /\ \A u \in Users : job[j].users[u] \in Seen \cup {NotSeen}
BY DEF TypeOK, View, Found

LEMMA NobodyType == Nobody \in Found /\ \A u \in Users : Nobody[u] = NotSeen /\ Noted(Nobody[u])
BY DEF Nobody, Found, Noted

\* Nobody a scan has seen is forgotten.
SeenStay == \A j \in Jobs, u \in Users : job[j].users[u] # NotSeen => job'[j].users[u] # NotSeen

LEMMA SessionStays ==
    ASSUME TypeOK, NEW s \in Sessions, SessionOK(s), session'[s] = session[s], SeenStay,
           admins \subseteq admins', whitelist \subseteq whitelist'
    PROVE  SessionOK(s)'
<1>1. At(s, "recheck") => job'[session[s].job].users[session[s].user] # NotSeen
  BY SessionIs DEF SessionOK, SeenStay
<1>2. session[s] \in Kick => \A u \in session[s].todo \cup session[s].allowed \cup session[s].kicked :
                                 job'[session[s].job].users[u] # NotSeen
  BY KickIs DEF SessionOK, SeenStay
<1>3. QED
  BY <1>1, <1>2 DEF SessionOK, At

-----------------------------------------------------------------------------
(* The goroutine of a scan. *)

\* What a user in the scan says of the whitelist.
Right(r, u) == r # NotSeen => Agrees(r, u)

\* The goroutine of scan j has stepped.
Handled(j) ==
    /\ run'[j] \in Run /\ job'[j] \in View
    /\ run'[j].at # "none" => job'[j].users = Nobody
    /\ run'[j].at \in {"check", "publish"} => \A u \in Users : Noted(run'[j].found[u])
    /\ \A u \in Users : Noted(job'[j].users[u])
    /\ \A u \in Users \ untold :
         /\ run'[j].at \in {"check", "publish"} => Right(run'[j].found[u], u)
         /\ job'[j].state = "done" => Right(job'[j].users[u], u)

LEMMA GoroutineSteps ==
    ASSUME MInv, NEW j \in Jobs, JobStep(j)
    PROVE  /\ run[j].at # "none" /\ Handled(j)
           /\ run' = [run EXCEPT ![j] = run'[j]] /\ job' = [job EXCEPT ![j] = job'[j]]
           /\ lastCheck' \in Summary \cup {NoCheck}
           /\ UNCHANGED <<outside, whitelist, started, stored, bot, session, untold>>
<1>0. TypeOK /\ ScanOK(j) /\ \A u \in Users : UserOK(u)
  BY DEF MInv
<1>1. /\ run \in [Jobs -> Run] /\ job \in [Jobs -> View]
      /\ lastCheck \in Summary \cup {NoCheck}
      /\ members \subseteq Users /\ admins \subseteq Users
  BY <1>0 DEF TypeOK
<1>2. /\ UNCHANGED <<outside, whitelist, started, stored, bot, session, untold>>
      /\ lastCheck' \in Summary \cup {NoCheck}
  <2>1. UNCHANGED <<outside, whitelist, started, stored, bot, session, untold>>
    BY DEF JobStep, JobFails, JobList, JobAdmins, JobCheck, JobRecord, JobPublish
  <2>2. lastCheck' = lastCheck \/ lastCheck' = Counts(run[j].found)
    BY DEF JobStep, JobFails, JobList, JobAdmins, JobCheck, JobRecord, JobPublish
  <2>3. QED
    BY <1>1, <2>1, <2>2, CountsType
<1>3. run[j].at # "none"
  BY DEF JobStep, JobFails, JobList, JobAdmins, JobCheck, JobRecord, JobPublish
<1>4. job[j] \in View /\ job[j].users = Nobody
  BY <1>0, <1>1, <1>3 DEF ScanOK
<1>5. \A u \in Users : job[j].users[u] = NotSeen /\ Noted(job[j].users[u])
  BY <1>4, NobodyType
<1>6. CASE JobFails(j)
  <2>1. run' = [run EXCEPT ![j] = [at |-> "none"]] /\ job' = [job EXCEPT ![j] = [job[j] EXCEPT !.state = "failed"]]
    BY <1>6 DEF JobFails
  <2>2. run'[j] = [at |-> "none"] /\ job'[j] = [job[j] EXCEPT !.state = "failed"]
    BY <1>1, <2>1
  <2>3. job'[j] \in View /\ job'[j].state = "failed" /\ job'[j].users = job[j].users
    BY <1>4, <2>2 DEF View
  <2>4. Handled(j)
    BY <1>5, <2>2, <2>3 DEF Handled, Run
  <2>5. QED
    BY <1>2, <1>3, <2>1, <2>2, <2>4
<1>7. CASE JobList(j)
  <2>1. run' = [run EXCEPT ![j] = [at |-> "admins", todo |-> members]] /\ job' = job
    BY <1>7 DEF JobList
  <2>2. run'[j] = [at |-> "admins", todo |-> members] /\ job'[j] = job[j]
    BY <1>1, <2>1
  <2>3. Handled(j)
    BY <1>1, <1>4, <1>5, <2>2 DEF Handled, Run, Right
  <2>4. QED
    BY <1>1, <1>2, <1>3, <2>1, <2>2, <2>3
<1>8. CASE JobAdmins(j)
  <2>1. run' = [run EXCEPT ![j] = [at |-> "check", todo |-> run[j].todo, protect |-> admins, found |-> Nobody]]
        /\ job' = job
    BY <1>8 DEF JobAdmins
  <2>2. run'[j] = [at |-> "check", todo |-> run[j].todo, protect |-> admins, found |-> Nobody] /\ job'[j] = job[j]
    BY <1>1, <2>1
  <2>3. run[j].todo \in SUBSET Users
    BY <1>0, <1>8, RunIs DEF JobAdmins
  <2>4. run'[j] \in Run
    BY <1>1, <2>2, <2>3, NobodyType DEF Run
  <2>5. Handled(j)
    BY <1>4, <1>5, <2>2, <2>4, NobodyType DEF Handled, Right
  <2>6. QED
    BY <1>1, <1>2, <1>3, <2>1, <2>2, <2>5
<1>9. CASE JobCheck(j)
  <2>1. PICK u \in run[j].todo, v \in Verdicts :
            LET note == IF u \in run[j].protect THEN "administrator" ELSE "none"
            IN  run' = [run EXCEPT ![j].todo = @ \ {u},
                                   ![j].found[u] = IF u \in whitelist THEN Marked(SeenAs("", note))
                                                   ELSE SeenAs(v, note)]
    BY <1>9 DEF JobCheck
  <2> DEFINE note == IF u \in run[j].protect THEN "administrator" ELSE "none"
             r == IF u \in whitelist THEN Marked(SeenAs("", note)) ELSE SeenAs(v, note)
  <2>2. job' = job
    BY <1>9 DEF JobCheck
  <2>3. /\ run[j].todo \in SUBSET Users /\ run[j].found \in Found
        /\ run[j] \in [at : {"check", "publish"}, todo : SUBSET Users, protect : SUBSET Users, found : Found]
    BY <1>0, <1>9, RunIs DEF JobCheck
  <2>4. u \in Users
    BY <2>3
  <2>5. r \in Seen /\ Noted(r) /\ Agrees(r, u)
    <3>1. note \in {"none", "administrator"}
      OBVIOUS
    <3> HIDE DEF note
    <3>2. SeenAs("", note) \in Met
      BY <3>1 DEF SeenAs, Met
    <3>3. CASE u \in whitelist
      BY <3>2, <3>3, MarkedType DEF Agrees
    <3>4. CASE u \notin whitelist
      <4>1. SeenAs(v, note) \in Seen /\ SeenAs(v, note).status = v /\ SeenAs(v, note).note = note
        BY <3>1, VerdictIs DEF SeenAs, Seen, Statuses
      <4>2. QED
        BY <3>1, <3>4, <4>1, VerdictIs DEF Agrees, Noted
    <3>5. QED
      BY <3>3, <3>4
  <2>6. run' = [run EXCEPT ![j] = [run[j] EXCEPT !.todo = @ \ {u}, !.found = [@ EXCEPT ![u] = r]]]
    BY <1>1, <2>1
  <2> HIDE DEF r
  <2>7. run'[j] = [run[j] EXCEPT !.todo = @ \ {u}, !.found = [@ EXCEPT ![u] = r]]
    BY <1>1, <2>6
  <2>8. [run[j].found EXCEPT ![u] = r] \in Found
    BY <2>3, <2>5 DEF Found
  <2>9. /\ run'[j].at = run[j].at /\ run'[j].found = [run[j].found EXCEPT ![u] = r] /\ run'[j] \in Run
    BY <2>3, <2>7, <2>8 DEF Run
  <2>10. ASSUME NEW v2 \in Users
         PROVE  /\ Noted(run'[j].found[v2])
                /\ v2 \notin untold => Right(run'[j].found[v2], v2)
    <3>1. CASE v2 = u
      BY <2>3, <2>5, <2>9, <3>1 DEF Found, Right
    <3>2. CASE v2 # u
      <4>1. run'[j].found[v2] = run[j].found[v2]
        BY <2>3, <2>9, <3>2 DEF Found
      <4>2. QED
        BY <1>0, <1>9, <4>1 DEF JobCheck, ScanOK, UserOK, Right
    <3>3. QED
      BY <3>1, <3>2
  <2>11. Handled(j)
    BY <1>4, <1>5, <2>2, <2>9, <2>10 DEF Handled, Right
  <2>12. QED
    BY <1>1, <1>2, <1>3, <2>2, <2>6, <2>7, <2>11
<1>10. CASE JobRecord(j)
  <2>1. run' = [run EXCEPT ![j] = [run[j] EXCEPT !.at = "publish"]] /\ job' = job
    BY <1>10 DEF JobRecord
  <2>2. run[j] \in [at : {"check", "publish"}, todo : SUBSET Users, protect : SUBSET Users, found : Found]
    BY <1>0, <1>10, RunIs DEF JobRecord
  <2>3. run'[j] = [run[j] EXCEPT !.at = "publish"]
    BY <1>1, <2>1
  <2>4. run'[j] \in Run /\ run'[j].at = "publish" /\ run'[j].found = run[j].found
    BY <2>2, <2>3 DEF Run
  <2>5. Handled(j)
    BY <1>0, <1>4, <1>5, <1>10, <2>1, <2>4 DEF Handled, JobRecord, ScanOK, UserOK, Right
  <2>6. QED
    BY <1>1, <1>2, <1>3, <2>1, <2>3, <2>5
<1>11. CASE JobPublish(j)
  <2>1. /\ run' = [run EXCEPT ![j] = [at |-> "none"]]
        /\ job' = [job EXCEPT ![j] = [job[j] EXCEPT !.state = "done", !.users = run[j].found]]
    BY <1>1, <1>11 DEF JobPublish
  <2>2. run'[j] = [at |-> "none"] /\ job'[j] = [job[j] EXCEPT !.state = "done", !.users = run[j].found]
    BY <1>1, <2>1
  <2>3. run[j].found \in Found
    BY <1>0, <1>11, RunIs DEF JobPublish
  <2>4. job'[j] \in View /\ job'[j].users = run[j].found
    BY <1>4, <2>2, <2>3 DEF View
  <2>5. ASSUME NEW u \in Users
        PROVE  /\ Noted(job'[j].users[u])
               /\ u \notin untold => Right(job'[j].users[u], u)
    BY <1>0, <1>11, <2>4 DEF JobPublish, ScanOK, UserOK, Right
  <2>6. Handled(j)
    BY <2>2, <2>4, <2>5 DEF Handled, Run
  <2>7. QED
    BY <1>2, <1>3, <2>1, <2>2, <2>6
<1>12. QED
  BY <1>6, <1>7, <1>8, <1>9, <1>10, <1>11 DEF JobStep

LEMMA GoroutineKeeps ==
    ASSUME MInv, NEW j \in Jobs, JobStep(j)
    PROVE  MInv'
<1>0. TypeOK /\ (\A i \in Jobs : ScanOK(i)) /\ (\A s \in Sessions : SessionOK(s)) /\ \A u \in Users : UserOK(u)
  BY DEF MInv
<1>1. /\ run[j].at # "none" /\ Handled(j)
      /\ run' = [run EXCEPT ![j] = run'[j]] /\ job' = [job EXCEPT ![j] = job'[j]]
      /\ lastCheck' \in Summary \cup {NoCheck}
      /\ UNCHANGED <<outside, whitelist, started, stored, bot, session, untold>>
  BY GoroutineSteps
<1>2. /\ job' \in [Jobs -> View] /\ run' \in [Jobs -> Run]
      /\ \A i \in Jobs : i # j => job'[i] = job[i] /\ run'[i] = run[i]
  BY <1>0, <1>1 DEF Handled, TypeOK
<1>3. TypeOK'
  BY <1>0, <1>1, <1>2 DEF TypeOK, outside
<1>4. ASSUME NEW i \in Jobs
      PROVE  ScanOK(i)'
  <2>1. CASE i = j
    BY <1>0, <1>1, <2>1 DEF Handled, ScanOK
  <2>2. CASE i # j
    BY <1>0, <1>1, <1>2, <2>2 DEF ScanOK
  <2>3. QED
    BY <2>1, <2>2
<1>5. SeenStay
  <2>1. \A u \in Users : job[j].users[u] = NotSeen
    BY <1>0, <1>1, NobodyType DEF ScanOK
  <2>2. QED
    BY <1>2, <2>1 DEF SeenStay
<1>6. ASSUME NEW s \in Sessions
      PROVE  SessionOK(s)'
  BY <1>0, <1>1, <1>5, SessionStays DEF outside
<1>7. ASSUME NEW u \in Users
      PROVE  UserOK(u)'
  <2> SUFFICES ASSUME u \notin untold
               PROVE  UserOK(u)'
    BY <1>1 DEF UserOK
  <2>1. \A s \in Sessions : At(s, "apply")' => (u \in session'[s].entries <=> u \in whitelist')
    BY <1>0, <1>1 DEF UserOK, At
  <2>2. \A i \in Jobs : (run[i].at \in {"check", "publish"} /\ run[i].found[u] # NotSeen =>
                            Agrees(run[i].found[u], u))'
    <3>1. ASSUME NEW i \in Jobs, run'[i].at \in {"check", "publish"}, run'[i].found[u] # NotSeen
          PROVE  Agrees(run'[i].found[u], u)
      BY <1>0, <1>1, <1>2, <3>1 DEF UserOK, Handled, Right
    <3>2. QED
      BY <1>1, <3>1 DEF Agrees
  <2>3. ASSUME NEW i \in stored', job'[i].state = "done"
        PROVE  Shows(i, u)' \/ \E s \in Sessions : Pending(s, u)'
    <3>1. i \in stored /\ i \in Jobs
      <4>1. i \in stored /\ started \in 0..MaxJobs /\ stored \subseteq 1..started
        BY <1>0, <1>1 DEF TypeOK
      <4>2. QED
        BY <4>1, StoreBounds DEF Jobs
    <3>2. CASE i = j
      BY <1>1, <2>3, <3>2 DEF Handled, Right, Agrees, Shows
    <3>3. CASE i # j
      <4>1. Shows(i, u) \/ \E s \in Sessions : Pending(s, u)
        BY <1>0, <1>2, <2>3, <3>1, <3>3 DEF UserOK
      <4>2. Shows(i, u) => Shows(i, u)'
        BY <1>1, <1>2, <3>1, <3>3 DEF Shows
      <4>3. \A s \in Sessions : Pending(s, u) => Pending(s, u)'
        BY <1>1 DEF Pending, At
      <4>4. QED
        BY <4>1, <4>2, <4>3
    <3>4. QED
      BY <3>2, <3>3
  <2>4. QED
    BY <2>1, <2>2, <2>3 DEF UserOK
<1>8. QED
  BY <1>3, <1>4, <1>6, <1>7 DEF MInv

-----------------------------------------------------------------------------
(* The store, and what happens outside. *)

\* Of scans that hold the same users as before, those that are stored were
\* stored or are not finished.
StoresOnly ==
    /\ \A j \in Jobs : job'[j].users = job[j].users /\ job'[j].state = job[j].state
    /\ \A j \in stored' : j \in Jobs /\ (job[j].state = "done" => j \in stored)
    /\ \A j \in Jobs : run'[j].at \in {"check", "publish"} => run'[j] = run[j]
    /\ untold' = untold /\ whitelist' = whitelist

LEMMA UserStays ==
    ASSUME TypeOK, NEW u \in Users, UserOK(u), StoresOnly,
           \A s \in Sessions : At(s, "apply")' => session'[s] = session[s],
           \A s \in Sessions : Pending(s, u) => session'[s] = session[s]
    PROVE  UserOK(u)'
<1> SUFFICES ASSUME u \notin untold
             PROVE  UserOK(u)'
  BY DEF UserOK, StoresOnly
<1>1. ASSUME NEW s \in Sessions, At(s, "apply")'
      PROVE  (u \in session[s].entries <=> u \in whitelist)'
  <2>1. session'[s] = session[s] /\ At(s, "apply")
    BY <1>1 DEF At
  <2>2. u \in session[s].entries <=> u \in whitelist
    BY <2>1 DEF UserOK
  <2>3. QED
    BY <2>1, <2>2 DEF StoresOnly
<1>2. \A j \in Jobs : (run[j].at \in {"check", "publish"} /\ run[j].found[u] # NotSeen =>
                          Agrees(run[j].found[u], u))'
  BY DEF UserOK, StoresOnly, Agrees
<1>3. ASSUME NEW j \in stored', job'[j].state = "done"
      PROVE  Shows(j, u)' \/ \E s \in Sessions : Pending(s, u)'
  <2>1. j \in Jobs /\ j \in stored /\ job[j].state = "done" /\ job'[j].users = job[j].users
    BY <1>3 DEF StoresOnly
  <2>2. Shows(j, u) => Shows(j, u)'
    BY <2>1 DEF Shows, StoresOnly
  <2>3. \A s \in Sessions : Pending(s, u) => Pending(s, u)'
    BY DEF Pending, At
  <2>4. QED
    BY <2>1, <2>2, <2>3 DEF UserOK
<1>4. QED
  BY <1>1, <1>2, <1>3 DEF UserOK

LEMMA StoreIs ==
    ASSUME TypeOK
    PROVE  /\ started \in Nat /\ started <= MaxJobs /\ stored \in SUBSET (1..started)
           /\ \A j \in stored : j \in Jobs
           /\ started < MaxJobs => started + 1 \in Jobs
<1>1. started \in 0..MaxJobs /\ stored \subseteq 1..started
  BY DEF TypeOK
<1>2. QED
  BY <1>1, StoreBounds DEF Jobs

LEMMA StartKeeps ==
    ASSUME MInv, StartChannelScan \/ GetChannelScan
    PROVE  MInv'
<1>0. TypeOK /\ (\A i \in Jobs : ScanOK(i)) /\ (\A s \in Sessions : SessionOK(s)) /\ \A u \in Users : UserOK(u)
  BY DEF MInv
<1>1. UNCHANGED <<outside, whitelist, job, bot, session, lastCheck, untold>>
  BY DEF StartChannelScan, GetChannelScan
<1>2. \/ /\ stored' = Kept(stored) /\ started' = started /\ run' = run
      \/ /\ started < MaxJobs /\ started' = started + 1 /\ stored' = Kept(stored) \cup {started + 1}
         /\ run' = [run EXCEPT ![started + 1] = [at |-> "list"]]
  BY DEF StartChannelScan, GetChannelScan
<1>3. Kept(stored) \subseteq stored /\ Cardinality(Kept(stored)) <= StoreCap
      /\ Cardinality(Kept(stored) \cup {started + 1}) <= StoreCap
  BY <1>0, StoreIs, KeptHasRoom
<1>4. SeenStay
  BY <1>1 DEF SeenStay
<1>5. \A s \in Sessions : SessionOK(s)'
  BY <1>0, <1>1, <1>4, SessionStays DEF outside
<1>6. CASE stored' = Kept(stored) /\ started' = started /\ run' = run
  <2>1. TypeOK'
    BY <1>0, <1>1, <1>3, <1>6 DEF TypeOK, outside
  <2>2. \A j \in Jobs : ScanOK(j)'
    BY <1>0, <1>1, <1>6 DEF ScanOK
  <2>3. StoresOnly
    BY <1>0, <1>1, <1>3, <1>6, StoreIs DEF StoresOnly
  <2>4. \A u \in Users : UserOK(u)'
    BY <1>0, <1>1, <2>3, UserStays
  <2>5. QED
    BY <1>5, <2>1, <2>2, <2>4 DEF MInv
<1>7. CASE /\ started < MaxJobs /\ started' = started + 1 /\ stored' = Kept(stored) \cup {started + 1}
           /\ run' = [run EXCEPT ![started + 1] = [at |-> "list"]]
  <2>1. started + 1 \in Jobs /\ started \in Nat /\ started + 1 \in 0..MaxJobs
        /\ stored' \subseteq 1..(started + 1)
    BY <1>0, <1>3, <1>7, StoreIs, StoreBounds
  <2>2. job[started + 1] = Fresh
    BY <1>0, <2>1 DEF ScanOK
  <2>3. /\ run' \in [Jobs -> Run] /\ run'[started + 1] = [at |-> "list"]
        /\ \A j \in Jobs : j # started + 1 => run'[j] = run[j]
    <3>1. [at |-> "list"] \in Run
      BY DEF Run
    <3>2. QED
      BY <1>0, <1>7, <2>1, <3>1 DEF TypeOK
  <2>4. TypeOK'
    BY <1>0, <1>1, <1>3, <1>7, <2>1, <2>3 DEF TypeOK, outside
  <2>5. ASSUME NEW j \in Jobs
        PROVE  ScanOK(j)'
    <3>1. j \in Int
      BY StoreBounds DEF Jobs
    <3>2. CASE j = started + 1
      BY <1>0, <1>1, <1>7, <2>1, <2>2, <2>3, <3>2, NobodyType DEF ScanOK, Fresh
    <3>3. CASE j # started + 1
      BY <1>0, <1>1, <1>7, <2>1, <2>3, <3>1, <3>3 DEF ScanOK
    <3>4. QED
      BY <3>2, <3>3
  <2>6. StoresOnly
    <3>1. \A j \in Jobs : run'[j].at \in {"check", "publish"} => run'[j] = run[j]
      BY <2>3
    <3>2. job[started + 1].state = "running"
      BY <2>2 DEF Fresh
    <3>3. \A j \in stored' : j \in Jobs /\ (job[j].state = "done" => j \in stored)
      BY <1>0, <1>3, <1>7, <2>1, <3>2, StoreIs
    <3>4. QED
      BY <1>1, <3>1, <3>3 DEF StoresOnly
  <2>7. \A u \in Users : UserOK(u)'
    BY <1>0, <1>1, <2>6, UserStays
  <2>8. QED
    BY <1>5, <2>4, <2>5, <2>7 DEF MInv
<1>8. QED
  BY <1>2, <1>6, <1>7

\* Scans keep their users and states: they may become read-only.
Ages == /\ job' \in [Jobs -> View]
        /\ \A j \in Jobs : job'[j].users = job[j].users /\ job'[j].state = job[j].state
                            /\ (job[j] = Fresh => job'[j] = Fresh \/ j \in stored)

LEMMA ChangeKeeps ==
    ASSUME MInv, Ages, members' \subseteq Users, admins' = admins, changes' \in 0..MaxChanges,
           bot' \in BotReport \cup {Idle}, lastCheck' \in Summary \cup {NoCheck},
           UNCHANGED <<whitelist, started, stored, run, session, untold>>
    PROVE  MInv'
<1>0. TypeOK /\ (\A i \in Jobs : ScanOK(i)) /\ (\A s \in Sessions : SessionOK(s)) /\ \A u \in Users : UserOK(u)
  BY DEF MInv
<1>1. TypeOK'
  BY <1>0 DEF TypeOK, Ages
<1>2. ASSUME NEW j \in Jobs
      PROVE  ScanOK(j)'
  <2>1. j > started => j \notin stored
    <3>1. j \in stored => j \in 1..started
      BY <1>0 DEF TypeOK
    <3>2. started \in Nat
      BY <1>0, StoreIs
    <3>3. QED
      BY <3>1, <3>2
  <2>2. QED
    BY <1>0, <2>1 DEF ScanOK, Ages
<1>3. SeenStay
  BY DEF SeenStay, Ages
<1>4. \A s \in Sessions : SessionOK(s)'
  BY <1>0, <1>3, SessionStays
<1>5. StoresOnly
  BY <1>0, StoreIs DEF StoresOnly, Ages
<1>6. \A u \in Users : UserOK(u)'
  BY <1>0, <1>5, UserStays
<1>7. QED
  BY <1>1, <1>2, <1>4, <1>6 DEF MInv

LEMMA BotIs ==
    ASSUME TypeOK, bot # Idle
    PROVE  /\ bot.class \in [DOMAIN bot.class -> {"good", "bad", "unknown"}]
           /\ DOMAIN bot.class \subseteq Users
<1>1. bot \in BotReport
  BY DEF TypeOK
<1>2. PICK chat \in SUBSET Users : bot.class \in [chat -> {"good", "bad", "unknown"}]
  BY <1>1 DEF BotReport
<1>3. QED
  BY <1>2

LEMMA ReportCountsType == ASSUME TypeOK, bot # Idle PROVE ReportCounts \in Summary
<1> DEFINE Of(class) == {u \in DOMAIN bot.class : bot.class[u] = class}
           Counting(s) == CASE s = "good" -> Of("good") \ whitelist
                            [] s = "whitelisted" -> Of("good") \cap whitelist
                            [] OTHER -> Of(s)
<1>1. \A s \in Counted : Counting(s) \in SUBSET Users
  BY BotIs
<1>2. \A s \in Counted : IsFiniteSet(Counting(s))
  BY <1>1, ScanAssumption, FS_Subset
<1>3. \A s \in Counted : Cardinality(Counting(s)) \in Nat
  BY <1>2, FS_CardinalityType
<1>4. ReportCounts = [s \in Counted |-> Cardinality(Counting(s))]
  BY DEF ReportCounts
<1> HIDE DEF Counting
<1>5. QED
  BY <1>3, <1>4 DEF Summary

LEMMA ReportedShows ==
    ASSUME TypeOK, bot # Idle, NEW u \in DOMAIN bot.class
    PROVE  Reported(u) \in Seen /\ Noted(Reported(u)) /\ Agrees(Reported(u), u)
<1> DEFINE note == IF u \in admins THEN "administrator" ELSE "none"
           class == bot.class[u]
           status == IF class = "good" THEN "" ELSE class
<1>1. class \in {"good", "bad", "unknown"} /\ u \in Users
  BY BotIs
<1>2. note \in {"none", "administrator"} /\ status \in {"", "bad", "unknown"}
  BY <1>1
<1>3. Reported(u) = IF u \in whitelist THEN Marked(SeenAs(status, note)) ELSE SeenAs(class, note)
  BY DEF Reported
<1> HIDE DEF note, class, status
<1>4. CASE u \in whitelist
  <2>1. SeenAs(status, note) \in Met
    BY <1>2 DEF SeenAs, Met, Statuses
  <2>2. QED
    BY <1>3, <1>4, <2>1, MarkedType DEF Agrees
<1>5. CASE u \notin whitelist
  <2>1. /\ SeenAs(class, note) \in Seen
        /\ SeenAs(class, note).status = class /\ SeenAs(class, note).note = note
    BY <1>1, <1>2 DEF SeenAs, Seen, Statuses
  <2>2. QED
    BY <1>1, <1>2, <1>3, <1>5, <2>1 DEF Agrees, Noted
<1>6. QED
  BY <1>4, <1>5

LEMMA BotKeeps ==
    ASSUME MInv, BotClassify \/ BotRecord \/ BotClean
    PROVE  MInv'
<1>0. TypeOK
  BY DEF MInv
<1>1. CASE BotClassify
  <2>1. PICK v \in [members -> Verdicts] :
            bot' = [class |-> [u \in members |-> IF u \in whitelist THEN "good" ELSE v[u]],
                    recorded |-> FALSE]
    BY <1>1 DEF BotClassify
  <2>2. members \in SUBSET Users
    BY <1>0 DEF TypeOK
  <2>3. [u \in members |-> IF u \in whitelist THEN "good" ELSE v[u]] \in [members -> {"good", "bad", "unknown"}]
    BY VerdictIs
  <2>4. bot' \in BotReport
    BY <2>1, <2>2, <2>3 DEF BotReport
  <2>5. /\ UNCHANGED <<outside, whitelist, started, stored, job, run, session, lastCheck, untold>>
        /\ members' \subseteq Users /\ admins' = admins /\ changes' \in 0..MaxChanges
        /\ lastCheck' \in Summary \cup {NoCheck}
    BY <1>0, <1>1 DEF BotClassify, outside, TypeOK
  <2>6. Ages
    BY <1>0, <2>5 DEF Ages, TypeOK
  <2>7. QED
    BY <2>4, <2>5, <2>6, ChangeKeeps
<1>2. CASE BotClean
  <2>1. /\ bot' = Idle /\ changes' \in 0..MaxChanges /\ members' \subseteq Users
        /\ UNCHANGED <<admins, whitelist, started, stored, run, session, lastCheck, untold>>
    BY <1>0, <1>2, StoreBounds DEF BotClean, TypeOK
  <2>2. lastCheck' \in Summary \cup {NoCheck}
    BY <1>0, <2>1 DEF TypeOK
  <2>3. job' = [j \in Jobs |-> IF j \in stored /\ job[j].state = "done"
                                 THEN [job[j] EXCEPT !.readOnly = TRUE] ELSE job[j]]
    BY <1>2 DEF BotClean
  <2>4. ASSUME NEW j \in Jobs
        PROVE  /\ job'[j] \in View /\ job'[j].users = job[j].users /\ job'[j].state = job[j].state
               /\ job'[j] = job[j] \/ j \in stored
    <3>1. job[j] \in View
      BY <1>0, JobIs
    <3>2. job'[j] = job[j] \/ (j \in stored /\ job'[j] = [job[j] EXCEPT !.readOnly = TRUE])
      BY <2>3
    <3>3. QED
      BY <3>1, <3>2 DEF View
  <2>5. Ages
    BY <2>3, <2>4 DEF Ages
  <2>6. QED
    BY <2>1, <2>2, <2>5, ChangeKeeps
<1>3. CASE BotRecord
  <2>1. /\ bot # Idle /\ lastCheck' = ReportCounts /\ bot' = [bot EXCEPT !.recorded = TRUE]
        /\ UNCHANGED <<outside, whitelist, started, stored, job, run, session, untold>>
    BY <1>3 DEF BotRecord
  <2>2. bot \in BotReport
    BY <1>0, <2>1 DEF TypeOK
  <2>3. bot' \in BotReport
    BY <2>1, <2>2 DEF BotReport
  <2>4. lastCheck' \in Summary
    BY <1>0, <2>1, ReportCountsType
  <2>5. members' \subseteq Users /\ admins' = admins /\ changes' \in 0..MaxChanges
    BY <1>0, <2>1 DEF outside, TypeOK
  <2>6. Ages
    BY <1>0, <2>1 DEF Ages, TypeOK
  <2>7. QED
    BY <2>1, <2>3, <2>4, <2>5, <2>6, ChangeKeeps
<1>4. QED
  BY <1>1, <1>2, <1>3

LEMMA AgeKeeps ==
    ASSUME MInv, NEW i \in Jobs, Age(i)
    PROVE  MInv'
<1>0. TypeOK
  BY DEF MInv
<1>1. /\ changes' \in 0..MaxChanges /\ members' \subseteq Users /\ admins' = admins
      /\ bot' \in BotReport \cup {Idle} /\ lastCheck' \in Summary \cup {NoCheck}
      /\ UNCHANGED <<whitelist, started, stored, run, session, untold>>
  BY <1>0, StoreBounds DEF Age, TypeOK
<1>2. i \in stored /\ job' = [job EXCEPT ![i] = [job[i] EXCEPT !.readOnly = TRUE]]
  BY DEF Age, Actionable
<1>3. job[i] \in View /\ job \in [Jobs -> View]
  BY <1>0 DEF TypeOK
<1>4. /\ [job[i] EXCEPT !.readOnly = TRUE] \in View
      /\ [job[i] EXCEPT !.readOnly = TRUE].users = job[i].users
      /\ [job[i] EXCEPT !.readOnly = TRUE].state = job[i].state
  BY <1>3 DEF View
<1>5. Ages
  BY <1>2, <1>3, <1>4 DEF Ages
<1>6. QED
  BY <1>1, <1>5, ChangeKeeps

\* The end of a bot-side scan: a finished scan that shows the whitelist as it is.
LEMMA BotCacheKeeps ==
    ASSUME MInv, BotCache
    PROVE  MInv'
<1>0. TypeOK /\ (\A i \in Jobs : ScanOK(i)) /\ (\A s \in Sessions : SessionOK(s)) /\ \A u \in Users : UserOK(u)
  BY DEF MInv
<1> DEFINE n == started + 1
           users == [u \in Users |-> IF u \in DOMAIN bot.class THEN Reported(u) ELSE NotSeen]
<1>1. PICK blind \in BOOLEAN :
          job' = [job EXCEPT ![n] = [state |-> "done", readOnly |-> blind, users |-> users]]
  BY DEF BotCache
<1>2. /\ bot # Idle /\ started < MaxJobs /\ started' = n
      /\ stored' = Kept(stored) \cup {n} /\ bot' = Idle
      /\ UNCHANGED <<outside, whitelist, run, session, lastCheck, untold>>
  BY DEF BotCache
<1>3. /\ n \in Jobs /\ n \in 0..MaxJobs /\ started \in Nat
      /\ Kept(stored) \subseteq stored /\ Cardinality(Kept(stored) \cup {n}) <= StoreCap
  <2>1. started \in Nat /\ started <= MaxJobs /\ stored \in SUBSET (1..started) /\ n \in Jobs
    BY <1>0, <1>2, StoreIs
  <2>2. n \in 0..MaxJobs
    BY <2>1, StoreBounds DEF Jobs
  <2>3. Kept(stored) \subseteq stored /\ Cardinality(Kept(stored) \cup {n}) <= StoreCap
    BY <2>1, KeptHasRoom
  <2>4. QED
    BY <2>1, <2>2, <2>3
<1>4. \A u \in Users : /\ users[u] \in Seen \cup {NotSeen} /\ Noted(users[u])
                       /\ Right(users[u], u)
  BY <1>0, <1>2, ReportedShows DEF Noted, Right
<1>5. users \in Found
  BY <1>4 DEF Found
<1> HIDE DEF users
<1>6. [state |-> "done", readOnly |-> blind, users |-> users] \in View
  BY <1>5 DEF View
<1>7. /\ job' \in [Jobs -> View] /\ job'[n].users = users /\ job'[n].state = "done"
      /\ \A j \in Jobs : j # n => job'[j] = job[j]
  BY <1>0, <1>1, <1>3, <1>6 DEF TypeOK
<1>8. stored' \subseteq 1..n
  <2>1. stored \subseteq 1..started
    BY <1>0, StoreIs
  <2>2. 1..started \subseteq 1..n /\ n \in 1..n
    BY <1>3
  <2>3. QED
    BY <1>2, <1>3, <2>1, <2>2
<1>9. job[n] = Fresh /\ run[n].at = "none"
  BY <1>0, <1>3 DEF ScanOK
<1>10. TypeOK'
  BY <1>0, <1>2, <1>3, <1>7, <1>8 DEF TypeOK, outside
<1>11. ASSUME NEW j \in Jobs
       PROVE  ScanOK(j)'
  <2>1. j \in Int
    BY StoreBounds DEF Jobs
  <2>2. CASE j = n
    BY <1>2, <1>3, <1>4, <1>7, <1>9, <2>2 DEF ScanOK
  <2>3. CASE j # n
    BY <1>0, <1>2, <1>3, <1>7, <2>1, <2>3 DEF ScanOK
  <2>4. QED
    BY <2>2, <2>3
<1>12. SeenStay
  BY <1>7, <1>9, NobodyType DEF SeenStay, Fresh
<1>13. \A s \in Sessions : SessionOK(s)'
  BY <1>0, <1>2, <1>12, SessionStays DEF outside
<1>14. ASSUME NEW u \in Users
       PROVE  UserOK(u)'
  <2> SUFFICES ASSUME u \notin untold
               PROVE  UserOK(u)'
    BY <1>2 DEF UserOK
  <2>1. \A s \in Sessions : (At(s, "apply") => (u \in session[s].entries <=> u \in whitelist))'
    BY <1>0, <1>2 DEF UserOK, At
  <2>2. \A j \in Jobs : (run[j].at \in {"check", "publish"} /\ run[j].found[u] # NotSeen =>
                            Agrees(run[j].found[u], u))'
    BY <1>0, <1>2 DEF UserOK, Agrees
  <2>3. ASSUME NEW j \in stored', job'[j].state = "done"
        PROVE  Shows(j, u)' \/ \E s \in Sessions : Pending(s, u)'
    <3>1. CASE j = n
      BY <1>2, <1>4, <1>7, <3>1 DEF Right, Agrees, Shows
    <3>2. CASE j # n
      <4>1. j \in stored /\ j \in Jobs /\ job'[j] = job[j]
        BY <1>0, <1>2, <1>3, <1>7, <2>3, <3>2, StoreIs
      <4>2. Shows(j, u) \/ \E s \in Sessions : Pending(s, u)
        BY <1>0, <2>3, <4>1 DEF UserOK
      <4>3. Shows(j, u) => Shows(j, u)'
        BY <1>2, <4>1 DEF Shows
      <4>4. \A s \in Sessions : Pending(s, u) => Pending(s, u)'
        BY <1>2 DEF Pending, At
      <4>5. QED
        BY <4>2, <4>3, <4>4
    <3>3. QED
      BY <3>1, <3>2
  <2>4. QED
    BY <2>1, <2>2, <2>3 DEF UserOK
<1>15. QED
  BY <1>10, <1>11, <1>13, <1>14 DEF MInv

\* What Unshield leaves of a session.
LEMMA Unshielded ==
    ASSUME TypeOK, NEW u \in Users, NEW why \in Protections, NEW s \in Sessions
    PROVE  /\ session[s] \notin Kick => Unshield(u, why)[s] = session[s]
           /\ session[s] \in Kick =>
                /\ Unshield(u, why)[s] \in Kick
                /\ Unshield(u, why)[s].at = session[s].at /\ Unshield(u, why)[s].job = session[s].job
                /\ Unshield(u, why)[s].todo = session[s].todo
                /\ Unshield(u, why)[s].kicked = session[s].kicked
                /\ Unshield(u, why)[s].allowed = session[s].allowed
                /\ Unshield(u, why)[s].shielded = [session[s].shielded EXCEPT ![why] = @ \ {u}]
<1>1. CASE session[s] \notin Kick
  <2>1. ~(session[s] # Idle /\ session[s].at \in {"admins", "check", "kick"})
    BY <1>1, SessionIs DEF At
  <2>2. QED
    BY <1>1, <2>1 DEF Unshield
<1>2. CASE session[s] \in Kick
  <2>1. session[s] # Idle /\ session[s].at \in {"admins", "check", "kick"}
    BY <1>2, KickIs
  <2>2. Unshield(u, why)[s] = [session[s] EXCEPT !.shielded[why] = @ \ {u}]
    BY <2>1 DEF Unshield
  <2>3. session[s].shielded \in [Protections -> SUBSET Users]
    BY <1>2 DEF Kick
  <2>4. [session[s].shielded EXCEPT ![why] = @ \ {u}] \in [Protections -> SUBSET Users]
    BY <2>3
  <2>5. Unshield(u, why)[s] = [session[s] EXCEPT !.shielded = [session[s].shielded EXCEPT ![why] = @ \ {u}]]
    BY <2>2
  <2>6. QED
    BY <1>2, <2>3, <2>4, <2>5 DEF Kick
<1>3. QED
  BY <1>1, <1>2

LEMMA UnshieldKeeps ==
    ASSUME TypeOK, NEW u \in Users, NEW why \in Protections, NEW s \in Sessions, session[s] \in Kick
    PROVE  /\ Unshield(u, why)[s].at = session[s].at /\ Unshield(u, why)[s].job = session[s].job
           /\ Unshield(u, why)[s].todo = session[s].todo
           /\ Unshield(u, why)[s].kicked = session[s].kicked
           /\ Unshield(u, why)[s].allowed = session[s].allowed
<1>1. session[s] # Idle /\ session[s].at \in {"admins", "check", "kick"}
  BY KickIs
<1>2. Unshield(u, why)[s] = [session[s] EXCEPT !.shielded[why] = @ \ {u}]
  BY <1>1 DEF Unshield
<1>3. QED
  BY <1>2 DEF Kick

LEMMA OutsideKeeps ==
    ASSUME MInv, NEW v \in Users, Outside(v)
    PROVE  MInv'
<1>0. TypeOK /\ (\A i \in Jobs : ScanOK(i)) /\ (\A s \in Sessions : SessionOK(s)) /\ \A u \in Users : UserOK(u)
  BY DEF MInv
<1>1. /\ changes' \in 0..MaxChanges
      /\ UNCHANGED <<whitelist, started, stored, job, run, bot, lastCheck, untold>>
  BY <1>0, StoreBounds DEF Outside, TypeOK
<1>2. CASE UNCHANGED <<admins, session>>
  <2>1. members' \subseteq Users
    BY <1>0, <1>2 DEF Outside, TypeOK
  <2>2. Ages
    BY <1>0, <1>1 DEF Ages, TypeOK
  <2>3. bot' \in BotReport \cup {Idle} /\ lastCheck' \in Summary \cup {NoCheck}
    BY <1>0, <1>1 DEF TypeOK
  <2>4. QED
    BY <1>1, <1>2, <2>1, <2>2, <2>3, ChangeKeeps
<1>3. CASE /\ admins' = IF v \in admins THEN admins \ {v} ELSE admins \cup {v}
           /\ session' = Unshield(v, "administrator")
           /\ members' = members
  <2>1. "administrator" \in Protections /\ "whitelisted" \in Protections
    BY DEF Protections
  <2>2. ASSUME NEW s \in Sessions
        PROVE  /\ session'[s] \in Session \cup {Idle} /\ SessionOK(s)'
               /\ session[s] \notin Kick => session'[s] = session[s]
               /\ session[s] \in Kick => session'[s] \in Kick
    <3>1. CASE session[s] \notin Kick
      <4>1. session'[s] = session[s]
        BY <1>0, <1>3, <2>1, <3>1, Unshielded
      <4>2. session[s] \in Session \cup {Idle}
        BY <1>0 DEF TypeOK
      <4>3. SessionOK(s)'
        BY <1>0, <1>1, <3>1, <4>1 DEF SessionOK, At
      <4>4. QED
        BY <3>1, <4>1, <4>2, <4>3
    <3>2. CASE session[s] \in Kick
      <4>1. /\ session'[s] \in Kick /\ session'[s].at = session[s].at /\ session'[s].job = session[s].job
            /\ session'[s].todo = session[s].todo /\ session'[s].kicked = session[s].kicked
            /\ session'[s].allowed = session[s].allowed
            /\ session'[s].shielded["administrator"] = session[s].shielded["administrator"] \ {v}
            /\ session'[s].shielded["whitelisted"] = session[s].shielded["whitelisted"]
        <5> DEFINE k == Unshield(v, "administrator")[s]
        <5>1. k \in Kick
          BY <1>0, <2>1, <3>2, Unshielded
        <5>2. /\ k.at = session[s].at /\ k.job = session[s].job
              /\ k.todo = session[s].todo /\ k.kicked = session[s].kicked
              /\ k.allowed = session[s].allowed
          BY <1>0, <2>1, <3>2, UnshieldKeeps
        <5>3. /\ k.shielded = [session[s].shielded EXCEPT !["administrator"] = @ \ {v}]
              /\ session[s].shielded \in [Protections -> SUBSET Users]
          BY <1>0, <2>1, <3>2, Unshielded DEF Kick
        <5>4. /\ k.shielded["administrator"] = session[s].shielded["administrator"] \ {v}
              /\ k.shielded["whitelisted"] = session[s].shielded["whitelisted"]
          BY <2>1, <5>3
        <5>5. session'[s] = k
          BY <1>3
        <5> HIDE DEF k
        <5>6. QED
          BY <5>1, <5>2, <5>4, <5>5
      <4>2. ~At(s, "recheck")'
        BY <3>2, <4>1, KickIs DEF At
      <4>3. SessionOK(s)'
        BY <1>0, <1>1, <1>3, <3>2, <4>1, <4>2 DEF SessionOK
      <4>4. QED
        BY <3>2, <4>1, <4>3 DEF Session
    <3>3. QED
      BY <3>1, <3>2
  <2>3. session' \in [Sessions -> Session \cup {Idle}]
    <3>1. session' = [s \in Sessions |-> Unshield(v, "administrator")[s]]
      BY <1>3 DEF Unshield
    <3>2. QED
      BY <1>3, <2>2, <3>1
  <2>4. TypeOK'
    BY <1>0, <1>1, <1>3, <2>3 DEF TypeOK
  <2>5. \A j \in Jobs : ScanOK(j)'
    BY <1>0, <1>1 DEF ScanOK
  <2>6. StoresOnly
    BY <1>0, <1>1, StoreIs DEF StoresOnly
  <2>7. ASSUME NEW s \in Sessions, NEW u \in Users
        PROVE  /\ At(s, "apply")' => session'[s] = session[s]
               /\ Pending(s, u) => session'[s] = session[s]
    <3>1. CASE session[s] \notin Kick
      BY <2>2, <3>1
    <3>2. CASE session[s] \in Kick
      BY <2>2, <3>2, KickIs DEF Pending, At
    <3>3. QED
      BY <3>1, <3>2
  <2>8. \A u \in Users : UserOK(u)'
    BY <1>0, <2>6, <2>7, UserStays
  <2>9. QED
    BY <2>2, <2>4, <2>5, <2>8 DEF MInv
<1>4. QED
  BY <1>2, <1>3 DEF Outside

-----------------------------------------------------------------------------
(* Requests. *)

\* A request that leaves the whitelist and the scans alone.
LEMMA SessionMoves ==
    ASSUME MInv, NEW t \in Sessions, NEW x \in Session \cup {Idle},
           session' = [session EXCEPT ![t] = x], SessionOK(t)',
           ~At(t, "put"), ~At(t, "sync"), ~At(t, "apply"), x # Idle => x.at # "apply",
           stored' \subseteq stored, Cardinality(stored') <= StoreCap, members' \subseteq Users,
           lastCheck' \in Summary \cup {NoCheck},
           UNCHANGED <<admins, changes, whitelist, started, job, run, bot, untold>>
    PROVE  MInv'
<1>0. TypeOK /\ (\A i \in Jobs : ScanOK(i)) /\ (\A s \in Sessions : SessionOK(s)) /\ \A u \in Users : UserOK(u)
  BY DEF MInv
<1>1. /\ session' \in [Sessions -> Session \cup {Idle}] /\ session'[t] = x
      /\ \A s \in Sessions : s # t => session'[s] = session[s]
  BY <1>0 DEF TypeOK
<1>2. TypeOK'
  BY <1>0, <1>1 DEF TypeOK
<1>3. \A j \in Jobs : ScanOK(j)'
  BY <1>0 DEF ScanOK
<1>4. \A s \in Sessions : SessionOK(s)'
  <2>1. SeenStay
    BY DEF SeenStay
  <2>2. QED
    BY <1>0, <1>1, <2>1, SessionStays
<1>5. StoresOnly
  BY <1>0, StoreIs DEF StoresOnly
<1>6. \A s \in Sessions : At(s, "apply")' => session'[s] = session[s]
  BY <1>1 DEF At
<1>7. \A s \in Sessions, u \in Users : Pending(s, u) => session'[s] = session[s]
  BY <1>1 DEF Pending
<1>8. \A u \in Users : UserOK(u)'
  BY <1>0, <1>5, <1>6, <1>7, UserStays
<1>9. QED
  BY <1>2, <1>3, <1>4, <1>8 DEF MInv

\* Nobody shown as kicked is shown otherwise.
KicksStay ==
    \A j \in Jobs, u \in Users :
        job[j].users[u] # NotSeen /\ job[j].users[u].status = "kicked" =>
            job'[j].users[u].status = "kicked"

\* A request that changes users of finished scans.
LEMMA ScansMove ==
    ASSUME MInv, NEW t \in Sessions, NEW x \in Session \cup {Idle},
           session' = [session EXCEPT ![t] = x], x # Idle => x.at \in {"summary", "record"},
           job' \in [Jobs -> View],
           \A j \in Jobs : job'[j].state = job[j].state /\ (j > started => job'[j] = job[j]),
           \A j \in Jobs, u \in Users :
               (job[j].users[u] = NotSeen <=> job'[j].users[u] = NotSeen) /\ Noted(job'[j].users[u]),
           \A j \in stored, u \in Users \ untold : job[j].state = "done" =>
               Shows(j, u)' \/ (~Pending(t, u) /\ (Shows(j, u) => Shows(j, u)')),
           UNCHANGED <<outside, whitelist, started, stored, run, bot, lastCheck, untold>>
    PROVE  MInv'
<1>0. TypeOK /\ (\A i \in Jobs : ScanOK(i)) /\ (\A s \in Sessions : SessionOK(s)) /\ \A u \in Users : UserOK(u)
  BY DEF MInv
<1>1. /\ session' \in [Sessions -> Session \cup {Idle}] /\ session'[t] = x
      /\ \A s \in Sessions : s # t => session'[s] = session[s]
  BY <1>0 DEF TypeOK
<1>2. TypeOK'
  BY <1>0, <1>1 DEF TypeOK, outside
<1>3. ASSUME NEW j \in Jobs
      PROVE  ScanOK(j)'
  <2>1. ScanOK(j)
    BY <1>0
  <2>2. job[j].users = Nobody => job'[j].users = Nobody
    <3>1. job'[j].users \in Found
      BY <1>3 DEF View
    <3>2. job[j].users = Nobody => \A u \in Users : job'[j].users[u] = NotSeen
      BY NobodyType
    <3>3. QED
      BY <3>1, <3>2 DEF Nobody, Found
  <2>3. QED
    BY <2>1, <2>2 DEF ScanOK
<1>4. \A s \in Sessions : SessionOK(s)'
  <2>1. SeenStay
    BY DEF SeenStay
  <2>2. \A s \in Sessions : s # t => SessionOK(s)'
    BY <1>0, <1>1, <2>1, SessionStays DEF outside
  <2>3. SessionOK(t)'
    BY <1>1, KickIs DEF SessionOK, At
  <2>4. QED
    BY <2>2, <2>3
<1>5. ASSUME NEW u \in Users
      PROVE  UserOK(u)'
  <2> SUFFICES ASSUME u \notin untold
               PROVE  UserOK(u)'
    BY DEF UserOK
  <2>1. \A s \in Sessions : (At(s, "apply") => (u \in session[s].entries <=> u \in whitelist))'
    BY <1>0, <1>1 DEF UserOK, At
  <2>2. \A j \in Jobs : (run[j].at \in {"check", "publish"} /\ run[j].found[u] # NotSeen =>
                            Agrees(run[j].found[u], u))'
    BY <1>0 DEF UserOK, Agrees
  <2>3. ASSUME NEW j \in stored', job'[j].state = "done"
        PROVE  Shows(j, u)' \/ \E s \in Sessions : Pending(s, u)'
    <3>1. j \in stored /\ job[j].state = "done"
      BY <1>0, <2>3, StoreIs
    <3>2. Shows(j, u)' \/ (~Pending(t, u) /\ (Shows(j, u) => Shows(j, u)'))
      BY <3>1
    <3>3. Shows(j, u) \/ \E s \in Sessions : Pending(s, u)
      BY <1>0, <3>1 DEF UserOK
    <3>4. \A s \in Sessions : s # t /\ Pending(s, u) => Pending(s, u)'
      BY <1>1 DEF Pending, At
    <3>5. QED
      BY <3>2, <3>3, <3>4
  <2>4. QED
    BY <2>1, <2>2, <2>3 DEF UserOK
<1>6. QED
  BY <1>2, <1>3, <1>4, <1>5 DEF MInv

\* A change of v's entry by request t.
LEMMA WhitelistMoves ==
    ASSUME MInv, NEW t \in Sessions, NEW v \in Users, NoteUntold(t, {v}),
           session' \in [Sessions -> Session \cup {Idle}], \A s \in Sessions : SessionOK(s)',
           \A s \in Sessions \ {t} : At(s, "apply")' => session'[s] = session[s],
           \A s \in Sessions \ {t}, u \in Users : Pending(s, u) => session'[s] = session[s],
           ~At(t, "apply")', Pending(t, v)',
           \A u \in Users : Pending(t, u) => Pending(t, u)',
           whitelist' \subseteq Users, \A u \in Users \ {v} : u \in whitelist' <=> u \in whitelist,
           UNCHANGED <<outside, started, stored, job, run, bot, lastCheck>>
    PROVE  MInv'
<1>0. TypeOK /\ (\A i \in Jobs : ScanOK(i)) /\ \A u \in Users : UserOK(u)
  BY DEF MInv
<1>1. untold' = IF Crossed(t) THEN untold \cup {v} ELSE untold
  BY DEF NoteUntold
<1>2. TypeOK'
  BY <1>0, <1>1 DEF TypeOK, outside
<1>3. \A j \in Jobs : ScanOK(j)'
  BY <1>0 DEF ScanOK
<1>4. ASSUME NEW u \in Users, u # v
      PROVE  UserOK(u)'
  <2> SUFFICES ASSUME u \notin untold
               PROVE  UserOK(u)'
    BY <1>1 DEF UserOK
  <2>1. ASSUME NEW s \in Sessions, At(s, "apply")'
        PROVE  (u \in session[s].entries <=> u \in whitelist)'
    <3>1. s # t /\ session'[s] = session[s]
      BY <2>1
    <3>2. At(s, "apply")
      BY <2>1, <3>1 DEF At
    <3>3. u \in session[s].entries <=> u \in whitelist
      BY <1>0, <3>2 DEF UserOK
    <3>4. QED
      BY <1>4, <3>1, <3>3
  <2>2. \A j \in Jobs : (run[j].at \in {"check", "publish"} /\ run[j].found[u] # NotSeen =>
                            Agrees(run[j].found[u], u))'
    BY <1>0, <1>4 DEF UserOK, Agrees
  <2>3. ASSUME NEW j \in stored', job'[j].state = "done"
        PROVE  Shows(j, u)' \/ \E s \in Sessions : Pending(s, u)'
    <3>1. Shows(j, u) \/ \E s \in Sessions : Pending(s, u)
      BY <1>0, <2>3 DEF UserOK
    <3>2. Shows(j, u) => Shows(j, u)'
      BY <1>4 DEF Shows
    <3>3. \A s \in Sessions : s # t /\ Pending(s, u) => Pending(s, u)'
      BY DEF Pending, At
    <3>4. Pending(t, u) => Pending(t, u)'
      OBVIOUS
    <3>5. QED
      BY <3>1, <3>2, <3>3, <3>4
  <2>4. QED
    BY <2>1, <2>2, <2>3 DEF UserOK
<1>5. UserOK(v)'
  <2> SUFFICES ASSUME v \notin untold'
               PROVE  UserOK(v)'
    BY DEF UserOK
  <2>1. ~Crossed(t)
    BY <1>1
  <2>2. ASSUME NEW s \in Sessions
        PROVE  ~At(s, "apply")'
    <3>1. s # t /\ At(s, "apply")' => At(s, "apply")
      BY DEF At
    <3>2. s # t => ~At(s, "apply")
      BY <2>1 DEF Crossed
    <3>3. QED
      BY <3>1, <3>2
  <2>3. \A j \in Jobs : run'[j].at = "none"
    BY <2>1 DEF Crossed
  <2>4. QED
    BY <2>2, <2>3 DEF UserOK
<1>6. QED
  BY <1>2, <1>3, <1>4, <1>5 DEF MInv

LEMMA PutKeeps ==
    ASSUME MInv, NEW t \in Sessions, NEW v \in Users, Put(t, v)
    PROVE  MInv'
<1>0. TypeOK /\ (\A i \in Jobs : ScanOK(i)) /\ (\A s \in Sessions : SessionOK(s)) /\ \A u \in Users : UserOK(u)
  BY DEF MInv
<1> DEFINE k == session[t]
           x == IF k.todo = {v} THEN [at |-> "sync"]
                ELSE [at |-> "put", todo |-> k.todo \ {v}, put |-> k.put \cup {v}]
<1>1. /\ At(t, "put") /\ v \in k.todo /\ whitelist' = whitelist \cup {v} /\ NoteUntold(t, {v})
      /\ UNCHANGED <<outside, started, stored, job, run, bot, lastCheck>>
  BY DEF Put
<1>2. k \in [at : {"put"}, todo : SUBSET Users, put : SUBSET Users] /\ k # Idle
  <2>1. k \in Session
    BY <1>0, <1>1, SessionIs DEF At
  <2>2. k.at = "put"
    BY <1>1 DEF At
  <2>3. QED
    BY <1>1, <2>1, <2>2 DEF Session, Kick, At
<1>3. session' = [session EXCEPT ![t] = x]
  BY DEF Put
<1>4. x \in Session
  BY <1>2 DEF Session
<1>5. /\ session' \in [Sessions -> Session \cup {Idle}] /\ session'[t] = x
      /\ \A s \in Sessions \ {t} : session'[s] = session[s]
  BY <1>0, <1>3, <1>4 DEF TypeOK
<1>6. x # Idle /\ x.at \in {"put", "sync"} /\ x \notin Kick
  <2>1. x # Idle
    BY <1>4, ScanSentinels
  <2>2. x.at \in {"put", "sync"}
    OBVIOUS
  <2>3. QED
    BY <2>1, <2>2, KickIs
<1>7. x.at = "put" => x.put = k.put \cup {v}
  BY <1>2
<1> HIDE DEF x
<1>8. SeenStay
  BY <1>1 DEF SeenStay
<1>9. ASSUME NEW s \in Sessions
      PROVE  SessionOK(s)'
  <2>1. CASE s = t
    BY <1>5, <1>6, <2>1 DEF SessionOK, At
  <2>2. CASE s # t
    BY <1>0, <1>1, <1>5, <1>8, <2>2, SessionStays DEF outside
  <2>3. QED
    BY <2>1, <2>2
<1>10. ~At(t, "apply")' /\ Pending(t, v)'
  BY <1>5, <1>6, <1>7 DEF Pending, At
<1>11. \A u \in Users : Pending(t, u) => Pending(t, u)'
  BY <1>1, <1>5, <1>6, <1>7 DEF Pending, At
<1>12. whitelist' \subseteq Users /\ \A u \in Users \ {v} : u \in whitelist' <=> u \in whitelist
  BY <1>0, <1>1 DEF TypeOK
<1>13. QED
  BY <1>1, <1>5, <1>9, <1>10, <1>11, <1>12, WhitelistMoves

LEMMA RemoveKeeps ==
    ASSUME MInv, NEW t \in Sessions, NEW v \in Users, RemoveWhitelistEntry(t, v)
    PROVE  MInv'
<1>0. TypeOK /\ (\A i \in Jobs : ScanOK(i)) /\ (\A s \in Sessions : SessionOK(s)) /\ \A u \in Users : UserOK(u)
  BY DEF MInv
<1>1. /\ session[t] = Idle /\ whitelist' = whitelist \ {v} /\ NoteUntold(t, {v})
      /\ session' = [Unshield(v, "whitelisted") EXCEPT ![t] = [at |-> "sync"]]
      /\ UNCHANGED <<outside, started, stored, job, run, bot, lastCheck>>
  BY DEF RemoveWhitelistEntry
<1>2. [at |-> "sync"] \in Session /\ [at |-> "sync"] \notin Kick /\ [at |-> "sync"] # Idle
  BY ScanSentinels DEF Session, Kick
<1>3. /\ session'[t] = [at |-> "sync"]
      /\ \A s \in Sessions \ {t} : session'[s] = Unshield(v, "whitelisted")[s]
  BY <1>1 DEF Unshield
<1>4. "administrator" \in Protections /\ "whitelisted" \in Protections
  BY DEF Protections
<1>5. ASSUME NEW s \in Sessions
      PROVE  /\ session'[s] \in Session \cup {Idle} /\ SessionOK(s)'
             /\ s # t /\ session[s] \notin Kick => session'[s] = session[s]
             /\ s # t /\ session[s] \in Kick => session'[s] \in Kick
  <2>1. CASE s = t
    BY <1>2, <1>3, <2>1 DEF SessionOK, At
  <2>2. CASE s # t /\ session[s] \notin Kick
    <3>1. session'[s] = session[s]
      BY <1>0, <1>3, <1>4, <2>2, Unshielded
    <3>2. session[s] \in Session \cup {Idle}
      BY <1>0 DEF TypeOK
    <3>3. SessionOK(s)'
      BY <1>0, <1>1, <2>2, <3>1 DEF SessionOK, At
    <3>4. QED
      BY <2>2, <3>1, <3>2, <3>3
  <2>3. CASE s # t /\ session[s] \in Kick
    <3> DEFINE k == Unshield(v, "whitelisted")[s]
    <3>1. k \in Kick
      BY <1>0, <1>4, <2>3, Unshielded
    <3>2. /\ k.at = session[s].at /\ k.job = session[s].job
          /\ k.todo = session[s].todo /\ k.kicked = session[s].kicked
          /\ k.allowed = session[s].allowed
      BY <1>0, <1>4, <2>3, UnshieldKeeps
    <3>3. /\ k.shielded = [session[s].shielded EXCEPT !["whitelisted"] = @ \ {v}]
          /\ session[s].shielded \in [Protections -> SUBSET Users]
      BY <1>0, <1>4, <2>3, Unshielded DEF Kick
    <3>4. /\ k.shielded["administrator"] = session[s].shielded["administrator"]
          /\ k.shielded["whitelisted"] = session[s].shielded["whitelisted"] \ {v}
      BY <1>4, <3>3
    <3>5. session'[s] = k
      BY <1>3, <2>3
    <3> HIDE DEF k
    <3>6. ~At(s, "recheck")'
      BY <3>1, <3>5, KickIs DEF At
    <3>7. SessionOK(s)'
      BY <1>0, <1>1, <2>3, <3>1, <3>2, <3>4, <3>5, <3>6 DEF SessionOK, outside
    <3>8. QED
      BY <2>3, <3>1, <3>5, <3>7 DEF Session
  <2>4. QED
    BY <2>1, <2>2, <2>3
<1>6. session' \in [Sessions -> Session \cup {Idle}]
  <2>1. session' = [s \in Sessions |-> session'[s]]
    BY <1>1 DEF Unshield
  <2>2. QED
    BY <1>5, <2>1
<1>7. ASSUME NEW s \in Sessions \ {t}
      PROVE  /\ At(s, "apply")' => session'[s] = session[s]
             /\ \A u \in Users : Pending(s, u) => session'[s] = session[s]
  <2>1. CASE session[s] \notin Kick
    BY <1>5, <2>1
  <2>2. CASE session[s] \in Kick
    BY <1>5, <2>2, KickIs DEF Pending, At
  <2>3. QED
    BY <2>1, <2>2
<1>8. ~At(t, "apply")' /\ Pending(t, v)' /\ \A u \in Users : ~Pending(t, u)
  BY <1>1, <1>2, <1>3 DEF Pending, At
<1>9. whitelist' \subseteq Users /\ \A u \in Users \ {v} : u \in whitelist' <=> u \in whitelist
  BY <1>0, <1>1 DEF TypeOK
<1>10. QED
  BY <1>1, <1>5, <1>6, <1>7, <1>8, <1>9, WhitelistMoves

LEMMA KickStartKeeps ==
    ASSUME MInv, NEW t \in Sessions, NEW j \in Jobs, NEW ids \in SUBSET Users, KickScannedUsers(t, j, ids)
    PROVE  MInv'
<1>0. TypeOK
  BY DEF MInv
<1> DEFINE shield == [why \in Protections |-> IF why = "administrator" THEN admins ELSE whitelist]
           Kickable(u) == /\ job[j].users[u] # NotSeen
                          /\ job[j].users[u].note = "none"
                          /\ job[j].users[u].status # "kicked"
           chosen == {u \in ids : Kickable(u)}
           x == [at |-> "admins", job |-> j, todo |-> chosen, allowed |-> {}, kicked |-> {},
                 shielded |-> shield]
<1>1. /\ session[t] = Idle /\ stored' = Kept(stored)
      /\ session' = [session EXCEPT ![t] = x]
      /\ UNCHANGED <<outside, whitelist, started, job, run, bot, lastCheck, untold>>
  BY DEF KickScannedUsers
<1>2. /\ shield \in [Protections -> SUBSET Users]
      /\ shield["administrator"] = admins /\ shield["whitelisted"] = whitelist
  <2>1. admins \in SUBSET Users /\ whitelist \in SUBSET Users
    BY <1>0 DEF TypeOK
  <2>2. QED
    BY <2>1 DEF Protections
<1>3. chosen \in SUBSET Users /\ \A u \in chosen : job[j].users[u] # NotSeen
  OBVIOUS
<1> HIDE DEF shield, chosen
<1>4. x \in Kick
  BY <1>2, <1>3 DEF Kick
<1>5. x \in Session \cup {Idle}
  BY <1>4 DEF Session
<1>6. session'[t] = x
  BY <1>0, <1>1 DEF TypeOK
<1>7. SessionOK(t)'
  BY <1>1, <1>2, <1>3, <1>6 DEF SessionOK, At, outside
<1>8. ~At(t, "put") /\ ~At(t, "sync") /\ ~At(t, "apply") /\ x.at # "apply"
  BY <1>1 DEF At
<1>9. stored' \subseteq stored /\ Cardinality(stored') <= StoreCap
  BY <1>0, <1>1, StoreIs, KeptHasRoom
<1>10. /\ members' \subseteq Users /\ lastCheck' \in Summary \cup {NoCheck}
       /\ UNCHANGED <<admins, changes, whitelist, started, job, run, bot, untold>>
  BY <1>0, <1>1 DEF TypeOK, outside
<1> HIDE DEF x
<1>11. QED
  BY <1>1, <1>5, <1>7, <1>8, <1>9, <1>10, SessionMoves

\* What a kick goes on with: fewer to look at or to ban, or some banned.
LEMMA KickGoesOn ==
    ASSUME MInv, NEW t \in Sessions, session[t] \in Kick, NEW x \in Kick,
           session' = [session EXCEPT ![t] = x],
           x.job = session[t].job, x.shielded = session[t].shielded,
           x.todo \cup x.allowed \subseteq session[t].todo \cup session[t].allowed,
           x.kicked \subseteq session[t].todo \cup session[t].kicked,
           x.allowed \cap x.shielded["administrator"] = {}, x.allowed \cap x.shielded["whitelisted"] = {},
           x.at \in {"check", "kick"} => x.todo \cap x.shielded["administrator"] = {},
           x.at = "kick" => x.todo \cap x.shielded["whitelisted"] = {},
           members' \subseteq Users,
           UNCHANGED <<admins, changes, whitelist, started, stored, job, run, bot, lastCheck, untold>>
    PROVE  MInv'
<1>0. TypeOK /\ SessionOK(t)
  BY DEF MInv
<1>1. session'[t] = x /\ x \in Session \cup {Idle} /\ x # Idle
  BY <1>0, KickIs DEF TypeOK, Session
<1>2. x.at \notin {"apply", "recheck"}
  BY KickIs
<1>3. SessionOK(t)'
  BY <1>0, <1>1, <1>2 DEF SessionOK, At
<1>4. ~At(t, "put") /\ ~At(t, "sync") /\ ~At(t, "apply")
  BY KickIs DEF At
<1>5. /\ stored' \subseteq stored /\ Cardinality(stored') <= StoreCap /\ lastCheck' \in Summary \cup {NoCheck}
  BY <1>0 DEF TypeOK
<1>6. QED
  BY <1>1, <1>2, <1>3, <1>4, <1>5, SessionMoves

\* A request that ends, or goes on with a summary or another user of the scan.
LEMMA RequestEnds ==
    ASSUME MInv, NEW t \in Sessions, NEW x \in Session \cup {Idle},
           session' = [session EXCEPT ![t] = x],
           x # Idle => /\ x.at \in {"record", "recheck", "put"}
                       /\ x.at = "recheck" => job[x.job].users[x.user] # NotSeen,
           ~At(t, "put"), ~At(t, "sync"), ~At(t, "apply"),
           lastCheck' \in Summary \cup {NoCheck},
           UNCHANGED <<outside, whitelist, started, stored, job, run, bot, untold>>
    PROVE  MInv'
<1>0. TypeOK
  BY DEF MInv
<1>1. session'[t] = x
  BY <1>0 DEF TypeOK
<1>2. x \notin Kick
  BY KickIs
<1>3. SessionOK(t)'
  BY <1>1, <1>2 DEF SessionOK, At
<1>4. /\ stored' \subseteq stored /\ Cardinality(stored') <= StoreCap /\ members' \subseteq Users
      /\ UNCHANGED <<admins, changes>>
  BY <1>0 DEF TypeOK, outside
<1>5. QED
  BY <1>3, <1>4, SessionMoves

LEMMA KickStepsKeep ==
    ASSUME MInv, NEW t \in Sessions, KickAdmins(t) \/ KickUsers(t) \/ \E u \in Users : KickCheck(t, u) \/ Ban(t, u)
    PROVE  MInv'
<1>0. TypeOK /\ SessionOK(t) /\ lastCheck \in Summary \cup {NoCheck} /\ members \subseteq Users
  BY DEF MInv, TypeOK
<1>1. session[t] \in Kick /\ At(t, session[t].at) /\ ~At(t, "put") /\ ~At(t, "sync") /\ ~At(t, "apply")
  <2>1. At(t, "admins") \/ At(t, "check") \/ At(t, "kick")
    BY DEF KickAdmins, KickCheck, KickUsers, Ban
  <2>2. QED
    BY <1>0, <2>1, SessionIs, KickIs DEF At
<1> DEFINE k == session[t]
<1>2. /\ k.todo \in SUBSET Users /\ k.allowed \in SUBSET Users /\ k.kicked \in SUBSET Users
      /\ k.allowed \cap k.shielded["administrator"] = {} /\ k.allowed \cap k.shielded["whitelisted"] = {}
      /\ k.at \in {"check", "kick"} => k.todo \cap k.shielded["administrator"] = {}
      /\ k.at = "kick" => k.todo \cap k.shielded["whitelisted"] = {}
      /\ k.shielded["administrator"] \subseteq admins /\ k.shielded["whitelisted"] \subseteq whitelist
  BY <1>0, <1>1, KickIs DEF SessionOK
<1>3. CASE KickAdmins(t) /\ ~Finish(t)
  <2> DEFINE x == [k EXCEPT !.at = "check", !.todo = @ \ admins]
  <2>1. session' = [session EXCEPT ![t] = x]
    BY <1>0, <1>3 DEF KickAdmins, TypeOK
  <2>2. /\ x \in Kick /\ x.at = "check" /\ x.job = k.job /\ x.shielded = k.shielded
        /\ x.todo = k.todo \ admins /\ x.allowed = k.allowed /\ x.kicked = k.kicked
    BY <1>1 DEF Kick
  <2> HIDE DEF x
  <2>3. UNCHANGED <<members, admins, changes, whitelist, started, stored, job, run, bot, lastCheck, untold>>
    BY <1>3 DEF KickAdmins, outside
  <2>4. QED
    BY <1>0, <1>1, <1>2, <2>1, <2>2, <2>3, KickGoesOn
<1>4. CASE KickAdmins(t) /\ Finish(t)
  <2>1. session' = [session EXCEPT ![t] = Idle]
    BY <1>4 DEF Finish
  <2>2. UNCHANGED <<outside, whitelist, started, stored, job, run, bot, lastCheck, untold>>
    BY <1>4 DEF KickAdmins
  <2>3. QED
    BY <1>0, <1>1, <2>1, <2>2, RequestEnds
<1>5. ASSUME NEW u \in Users, KickCheck(t, u)
      PROVE  MInv'
  <2>1. k.at = "check" /\ u \in k.todo
    BY <1>5 DEF KickCheck, At
  <2> DEFINE allowed == IF Spares(u) THEN k.allowed ELSE k.allowed \cup {u}
             x == [k EXCEPT !.todo = @ \ {u}, !.allowed = allowed]
  <2>2. session' = [session EXCEPT ![t] = x]
    BY <1>0, <1>5 DEF KickCheck, TypeOK
  <2>3. /\ allowed \subseteq k.todo \cup k.allowed
        /\ allowed \cap k.shielded["administrator"] = {} /\ allowed \cap k.shielded["whitelisted"] = {}
    BY <1>2, <2>1 DEF Spares
  <2> HIDE DEF allowed
  <2>4. /\ x \in Kick /\ x.at = "check" /\ x.job = k.job /\ x.shielded = k.shielded
        /\ x.todo = k.todo \ {u} /\ x.allowed = allowed /\ x.kicked = k.kicked
    BY <1>1, <1>2, <2>1, <2>3 DEF Kick
  <2> HIDE DEF x
  <2>5. UNCHANGED <<members, admins, changes, whitelist, started, stored, job, run, bot, lastCheck, untold>>
    BY <1>5 DEF KickCheck, outside
  <2>6. QED
    BY <1>0, <1>1, <1>2, <2>1, <2>2, <2>3, <2>4, <2>5, KickGoesOn
<1>6. ASSUME NEW u \in Users, Ban(t, u)
      PROVE  MInv'
  <2>1. k.at = "kick" /\ u \in k.todo
    BY <1>6 DEF Ban, At
  <2>2. UNCHANGED <<admins, changes, whitelist, started, stored, job, run, bot, lastCheck, untold>>
        /\ members' \subseteq Users
    BY <1>0, <1>6 DEF Ban
  <2> DEFINE x == [k EXCEPT !.todo = @ \ {u}, !.kicked = @ \cup {u}]
             y == [k EXCEPT !.todo = @ \ {u}]
  <2>3. session' = [session EXCEPT ![t] = x] \/ session' = [session EXCEPT ![t] = y]
    BY <1>0, <1>6 DEF Ban, TypeOK
  <2>4. /\ x \in Kick /\ x.at = "kick" /\ x.job = k.job /\ x.shielded = k.shielded
        /\ x.todo = k.todo \ {u} /\ x.allowed = k.allowed /\ x.kicked = k.kicked \cup {u}
    BY <1>1, <2>1 DEF Kick
  <2>5. /\ y \in Kick /\ y.at = "kick" /\ y.job = k.job /\ y.shielded = k.shielded
        /\ y.todo = k.todo \ {u} /\ y.allowed = k.allowed /\ y.kicked = k.kicked
    BY <1>1, <2>1 DEF Kick
  <2> HIDE DEF x, y
  <2>6. CASE session' = [session EXCEPT ![t] = x]
    BY <1>1, <1>2, <2>1, <2>2, <2>4, <2>6, KickGoesOn
  <2>7. CASE session' = [session EXCEPT ![t] = y]
    BY <1>1, <1>2, <2>1, <2>2, <2>5, <2>7, KickGoesOn
  <2>8. QED
    BY <2>3, <2>6, <2>7
<1>7. CASE KickUsers(t)
  <2>1. k.at = "check" /\ k.todo = {}
    BY <1>7 DEF KickUsers, At
  <2> DEFINE x == [k EXCEPT !.at = "kick", !.todo = k.allowed, !.allowed = {}]
  <2>2. session' = [session EXCEPT ![t] = x]
    BY <1>0, <1>7 DEF KickUsers, TypeOK
  <2>3. /\ x \in Kick /\ x.at = "kick" /\ x.job = k.job /\ x.shielded = k.shielded
        /\ x.todo = k.allowed /\ x.allowed = {} /\ x.kicked = k.kicked
    BY <1>1 DEF Kick
  <2> HIDE DEF x
  <2>4. UNCHANGED <<members, admins, changes, whitelist, started, stored, job, run, bot, lastCheck, untold>>
    BY <1>7 DEF KickUsers, outside
  <2>5. QED
    BY <1>0, <1>1, <1>2, <2>2, <2>3, <2>4, KickGoesOn
<1>8. QED
  BY <1>3, <1>4, <1>5, <1>6, <1>7

LEMMA RequestsMoveOn ==
    ASSUME MInv, NEW t \in Sessions,
           \/ KickSummary(t) \/ RecordCheck(t)
           \/ \E j \in Jobs, u \in Users : RecheckScannedUser(t, j, u)
           \/ \E j \in Jobs, ids \in SUBSET Users : AddToWhitelist(t, j, ids)
    PROVE  MInv'
<1>0. TypeOK /\ lastCheck \in Summary \cup {NoCheck}
  BY DEF MInv, TypeOK
<1>1. UNCHANGED <<outside, whitelist, started, stored, job, run, bot, untold>>
  BY DEF KickSummary, RecordCheck, RecheckScannedUser, AddToWhitelist
<1>2. ~At(t, "put") /\ ~At(t, "sync") /\ ~At(t, "apply")
  BY DEF KickSummary, RecordCheck, RecheckScannedUser, AddToWhitelist, At
<1>3. CASE KickSummary(t)
  <2> DEFINE n == IF session[t].job \in stored THEN Counts(job[session[t].job].users) ELSE Zero
             x == [at |-> "record", summary |-> n]
  <2>1. session' = [session EXCEPT ![t] = x] /\ lastCheck' = lastCheck
    BY <1>3 DEF KickSummary
  <2>2. n \in Summary
    BY CountsType, ZeroType
  <2> HIDE DEF n
  <2>3. x \in Session
    BY <2>2 DEF Session
  <2>4. QED
    BY <1>0, <1>1, <1>2, <2>1, <2>3, RequestEnds
<1>4. CASE RecordCheck(t)
  <2>1. session' = [session EXCEPT ![t] = Idle] /\ lastCheck' \in Summary
    BY <1>0, <1>4, SessionIs DEF RecordCheck, Finish
  <2>2. QED
    BY <1>0, <1>1, <1>2, <2>1, RequestEnds
<1>5. ASSUME NEW j \in Jobs, NEW u \in Users, RecheckScannedUser(t, j, u)
      PROVE  MInv'
  <2> DEFINE x == [at |-> "recheck", job |-> j, user |-> u]
  <2>1. session' = [session EXCEPT ![t] = x] /\ lastCheck' = lastCheck /\ job[j].users[u] # NotSeen
    BY <1>5 DEF RecheckScannedUser
  <2>2. x \in Session
    BY DEF Session
  <2>3. QED
    BY <1>0, <1>1, <1>2, <2>1, <2>2, RequestEnds
<1>6. ASSUME NEW j \in Jobs, NEW ids \in SUBSET Users, AddToWhitelist(t, j, ids)
      PROVE  MInv'
  <2> DEFINE x == [at |-> "put", todo |-> ids, put |-> {}]
  <2>1. session' = [session EXCEPT ![t] = x] /\ lastCheck' = lastCheck
    BY <1>6 DEF AddToWhitelist
  <2>2. x \in Session
    BY DEF Session
  <2>3. QED
    BY <1>0, <1>1, <1>2, <2>1, <2>2, RequestEnds
<1>7. QED
  BY <1>3, <1>4, <1>5, <1>6

LEMMA KickMarkKeeps ==
    ASSUME MInv, NEW t \in Sessions, KickMark(t)
    PROVE  MInv' /\ KicksStay
<1>0. TypeOK /\ (\A i \in Jobs : ScanOK(i)) /\ SessionOK(t)
  BY DEF MInv
<1> DEFINE i == session[t].job
           kicked == session[t].kicked
           x == [at |-> "summary", job |-> i]
           Mark(u) == IF u \in kicked THEN [job[i].users[u] EXCEPT !.status = "kicked"]
                      ELSE job[i].users[u]
           users == [u \in Users |-> Mark(u)]
<1>1. /\ job' = IF i \in stored THEN [job EXCEPT ![i] = [job[i] EXCEPT !.users = users]] ELSE job
      /\ session' = [session EXCEPT ![t] = x]
      /\ UNCHANGED <<outside, whitelist, started, stored, run, bot, lastCheck, untold>>
  BY <1>0 DEF KickMark, TypeOK
<1>2. At(t, "kick") /\ session[t] \in Kick /\ i \in Jobs /\ kicked \in SUBSET Users
  BY <1>0, SessionIs, KickIs DEF KickMark
<1>3. \A u \in kicked : job[i].users[u] # NotSeen
  BY <1>0, <1>2 DEF SessionOK
<1>4. x \in Session \cup {Idle} /\ x.at \in {"summary", "record"}
  BY <1>2 DEF Session
<1>5. ASSUME NEW u \in Users
      PROVE  /\ users[u] \in Seen \cup {NotSeen} /\ Noted(users[u])
             /\ job[i].users[u] = NotSeen <=> users[u] = NotSeen
             /\ users[u] = job[i].users[u] \/ users[u].status = "kicked"
  <2>1. job[i].users[u] \in Seen \cup {NotSeen} /\ Noted(job[i].users[u])
    BY <1>0, <1>2, JobIs DEF ScanOK
  <2>2. CASE u \in kicked
    <3>1. /\ users[u] = [job[i].users[u] EXCEPT !.status = "kicked"] /\ job[i].users[u] \in Seen
          /\ job[i].users[u] # NotSeen
      BY <1>3, <2>1, <2>2
    <3>2. users[u] \in Seen /\ users[u].status = "kicked"
      BY <3>1 DEF Seen, Statuses
    <3>3. QED
      BY <3>1, <3>2, SeenIs DEF Noted
  <2>3. CASE u \notin kicked
    BY <2>1, <2>3
  <2>4. QED
    BY <2>2, <2>3
<1>6. users \in Found
  BY <1>5 DEF Found
<1> HIDE DEF users
<1>7. /\ [job[i] EXCEPT !.users = users] \in View /\ [job[i] EXCEPT !.users = users].users = users
      /\ [job[i] EXCEPT !.users = users].state = job[i].state
  BY <1>0, <1>2, <1>6, JobIs DEF View
<1>8. /\ job' \in [Jobs -> View]
      /\ \A j \in Jobs : \/ job'[j] = job[j]
                         \/ j = i /\ i \in stored /\ job'[j].users = users /\ job'[j].state = job[j].state
  BY <1>0, <1>1, <1>2, <1>7 DEF TypeOK
<1>9. \A j \in Jobs : job'[j].state = job[j].state /\ (j > started => job'[j] = job[j])
  <2>1. i \in stored => i \in 1..started
    BY <1>0, StoreIs
  <2>2. started \in Nat
    BY <1>0, StoreIs
  <2>3. i \in stored => ~(i > started)
    BY <2>1, <2>2
  <2>4. QED
    BY <1>8, <2>3
<1>10. \A j \in Jobs, u \in Users :
           (job[j].users[u] = NotSeen <=> job'[j].users[u] = NotSeen) /\ Noted(job'[j].users[u])
  BY <1>0, <1>5, <1>8 DEF ScanOK
<1>11. ASSUME NEW j \in stored, NEW u \in Users
       PROVE  ~Pending(t, u) /\ (Shows(j, u) => Shows(j, u)')
  <2>1. j \in Jobs
    BY <1>0, StoreIs
  <2>2. job'[j].users[u] = job[j].users[u] \/ job'[j].users[u].status = "kicked"
    BY <1>5, <1>8, <2>1
  <2>3. QED
    BY <1>1, <1>2, <2>2, KickIs DEF Shows, Pending, At
<1> HIDE DEF x
<1>12. MInv'
  BY <1>1, <1>4, <1>8, <1>9, <1>10, <1>11, ScansMove
<1>13. KicksStay
  BY <1>5, <1>8 DEF KicksStay
<1>14. QED
  BY <1>12, <1>13

LEMMA RecheckKeeps ==
    ASSUME MInv, NEW t \in Sessions, NEW v \in Verdicts, RecheckAnswer(t, v)
    PROVE  MInv' /\ KicksStay
<1>0. TypeOK /\ (\A i \in Jobs : ScanOK(i)) /\ SessionOK(t)
  BY DEF MInv
<1> DEFINE i == session[t].job
           w == session[t].user
           r == job[i].users[w]
           seen == [r EXCEPT !.check = v, !.status = IF @ \in {"whitelisted", "kicked"} THEN @ ELSE v]
           users == [job[i].users EXCEPT ![w] = seen]
           x == [at |-> "record", summary |-> Counts(job'[i].users)]
<1>1. At(t, "recheck") /\ i \in Jobs /\ w \in Users /\ session[t] \notin Kick
  BY <1>0, SessionIs, KickIs DEF RecheckAnswer, At
<1>2. r \in Seen /\ r # NotSeen /\ Noted(r) /\ job[i].users \in Found /\ job[i] \in View
  BY <1>0, <1>1, JobIs DEF SessionOK, ScanOK
<1>3. /\ job' = [job EXCEPT ![i] = [job[i] EXCEPT !.users = users]]
      /\ session' = [session EXCEPT ![t] = x]
      /\ UNCHANGED <<outside, whitelist, started, stored, run, bot, lastCheck, untold>>
  <2>1. job' = [job EXCEPT ![i].users[w] = seen]
    BY DEF RecheckAnswer
  <2>2. QED
    BY <1>0, <1>1, <1>2, <2>1 DEF RecheckAnswer, TypeOK
<1>4. /\ seen \in Seen /\ seen # NotSeen /\ Noted(seen) /\ seen.note = r.note
      /\ r.status \in {"whitelisted", "kicked"} => seen.status = r.status
      /\ r.status \notin {"whitelisted", "kicked"} => seen.status = v
  <2>1. v \in Statuses /\ v \in Verdicts \cup {"none"}
    BY VerdictIs DEF Statuses
  <2>2. /\ seen \in Seen /\ seen.note = r.note
        /\ r.status \in {"whitelisted", "kicked"} => seen.status = r.status
        /\ r.status \notin {"whitelisted", "kicked"} => seen.status = v
    BY <1>2, <2>1 DEF Seen
  <2>3. seen # NotSeen
    BY <2>2, SeenIs
  <2>4. QED
    BY <1>2, <2>2, <2>3 DEF Noted
<1> HIDE DEF seen
<1>5. /\ users \in Found /\ users[w] = seen
      /\ \A u \in Users : u # w => users[u] = job[i].users[u]
  BY <1>1, <1>2, <1>4 DEF Found
<1> HIDE DEF users
<1>6. /\ [job[i] EXCEPT !.users = users] \in View /\ [job[i] EXCEPT !.users = users].users = users
      /\ [job[i] EXCEPT !.users = users].state = job[i].state
  BY <1>2, <1>5 DEF View
<1>7. /\ job' \in [Jobs -> View] /\ job'[i].users = users /\ job'[i].state = job[i].state
      /\ \A j \in Jobs : j # i => job'[j] = job[j]
  BY <1>0, <1>1, <1>3, <1>6 DEF TypeOK
<1>8. x \in Session \cup {Idle} /\ x.at \in {"summary", "record"}
  BY CountsType DEF Session
<1>9. ~(i > started)
  <2>1. job[i] # Fresh
    BY <1>1, <1>2, NobodyType DEF Fresh
  <2>2. QED
    BY <1>0, <1>1, <2>1 DEF ScanOK
<1>10. \A j \in Jobs : job'[j].state = job[j].state /\ (j > started => job'[j] = job[j])
  BY <1>7, <1>9
<1>11. ASSUME NEW j \in Jobs, NEW u \in Users
       PROVE  (job[j].users[u] = NotSeen <=> job'[j].users[u] = NotSeen) /\ Noted(job'[j].users[u])
  <2>1. CASE j = i /\ u = w
    BY <1>2, <1>4, <1>5, <1>7, <2>1
  <2>2. CASE ~(j = i /\ u = w)
    <3>1. job'[j].users[u] = job[j].users[u]
      BY <1>5, <1>7, <2>2
    <3>2. QED
      BY <1>0, <3>1 DEF ScanOK
  <2>3. QED
    BY <2>1, <2>2
<1>12. ASSUME NEW j \in stored, NEW u \in Users
       PROVE  ~Pending(t, u) /\ (Shows(j, u) => Shows(j, u)')
  <2>1. ~Pending(t, u)
    BY <1>1 DEF Pending, At
  <2>2. j \in Jobs
    BY <1>0, StoreIs
  <2>3. CASE j = i /\ u = w
    <3>1. v \notin {"whitelisted", "kicked"}
      BY VerdictIs
    <3>2. /\ job'[j].users[u] = seen /\ job[j].users[u] = r
          /\ seen.status = "kicked" <=> r.status = "kicked"
          /\ seen.status = "whitelisted" <=> r.status = "whitelisted"
      BY <1>4, <1>5, <1>7, <2>3, <3>1
    <3>3. QED
      BY <1>2, <1>3, <1>4, <2>1, <3>2 DEF Shows
  <2>4. CASE ~(j = i /\ u = w)
    <3>1. job'[j].users[u] = job[j].users[u]
      BY <1>5, <1>7, <2>2, <2>4
    <3>2. QED
      BY <1>3, <2>1, <3>1 DEF Shows
  <2>5. QED
    BY <2>3, <2>4
<1> HIDE DEF x
<1>13. MInv'
  BY <1>3, <1>7, <1>8, <1>10, <1>11, <1>12, ScansMove
<1>14. ASSUME NEW j \in Jobs, NEW u \in Users, job[j].users[u].status = "kicked"
       PROVE  job'[j].users[u].status = "kicked"
  <2>1. CASE j = i /\ u = w
    BY <1>4, <1>5, <1>7, <1>14, <2>1
  <2>2. CASE ~(j = i /\ u = w)
    BY <1>5, <1>7, <1>14, <2>2
  <2>3. QED
    BY <2>1, <2>2
<1>15. QED
  BY <1>13, <1>14 DEF KicksStay

LEMMA SyncApplyKeeps ==
    ASSUME MInv, NEW t \in Sessions, SyncApply(t)
    PROVE  MInv' /\ KicksStay
<1>0. TypeOK /\ (\A i \in Jobs : ScanOK(i)) /\ \A u \in Users : UserOK(u)
  BY DEF MInv
<1> DEFINE entries == session[t].entries
           open == {j \in Jobs : Actionable(j)}
           n == Counts(job'[Latest(open)].users)
           x == IF open = {} THEN Idle ELSE [at |-> "record", summary |-> n]
           users(j) == [u \in Users |-> Reconciled(job[j].users[u], u \in entries)]
<1>1. /\ At(t, "apply") /\ job' = [j \in Jobs |-> Synced(j, entries)]
      /\ session' = [session EXCEPT ![t] = x]
      /\ UNCHANGED <<outside, whitelist, started, stored, run, bot, lastCheck, untold>>
  BY DEF SyncApply
<1>2. x \in Session \cup {Idle} /\ (x # Idle => x.at \in {"summary", "record"})
  <2>1. n \in Summary
    BY CountsType
  <2> HIDE DEF n, open
  <2>2. QED
    BY <2>1 DEF Session
<1>3. ASSUME NEW j \in Jobs, NEW u \in Users
      PROVE  /\ users(j)[u] \in Seen \cup {NotSeen} /\ Noted(users(j)[u])
             /\ job[j].users[u] = NotSeen <=> users(j)[u] = NotSeen
             /\ job[j].users[u] # NotSeen /\ job[j].users[u].status = "kicked" =>
                  users(j)[u].status = "kicked"
             /\ users(j)[u] # NotSeen /\ users(j)[u].status # "kicked" =>
                  /\ users(j)[u].status = "whitelisted" <=> u \in entries
                  /\ users(j)[u].note = "whitelisted" => u \in entries
  <2>1. job[j].users[u] \in Seen \cup {NotSeen} /\ Noted(job[j].users[u])
    BY <1>0, JobIs DEF ScanOK
  <2>2. users(j)[u] = Reconciled(job[j].users[u], u \in entries)
    OBVIOUS
  <2> HIDE DEF users
  <2>3. CASE u \in entries
    <3>1. users(j)[u] = Reconciled(job[j].users[u], TRUE)
      BY <2>2, <2>3
    <3>2. QED
      BY <2>1, <2>3, <3>1, ReconciledShows
  <2>4. CASE u \notin entries
    <3>1. users(j)[u] = Reconciled(job[j].users[u], FALSE)
      BY <2>2, <2>4 DEF Reconciled
    <3>2. QED
      BY <2>1, <2>4, <3>1, ReconciledShows
  <2>5. QED
    BY <2>3, <2>4
<1>4. \A j \in Jobs : users(j) \in Found
  BY <1>3 DEF Found
<1>5. ASSUME NEW j \in Jobs
      PROVE  /\ job'[j] \in View /\ job'[j].state = job[j].state
             /\ j \in stored /\ job[j].state = "done" => job'[j].users = users(j)
             /\ ~(j \in stored /\ job[j].state = "done") => job'[j] = job[j]
  <2>1. job'[j] = IF j \in stored /\ job[j].state = "done"
                  THEN [job[j] EXCEPT !.users = users(j)] ELSE job[j]
    BY <1>1 DEF Synced
  <2>2. job[j] \in View /\ users(j) \in Found
    BY <1>0, <1>4, JobIs
  <2> HIDE DEF users
  <2>3. QED
    BY <2>1, <2>2 DEF View
<1> HIDE DEF users, x
<1>6. job' \in [Jobs -> View]
  BY <1>1, <1>5
<1>7. \A j \in Jobs : job'[j].state = job[j].state /\ (j > started => job'[j] = job[j])
  <2>1. \A j \in stored : j \in 1..started
    BY <1>0, StoreIs
  <2>2. started \in Nat
    BY <1>0, StoreIs
  <2>3. \A j \in stored : ~(j > started)
    BY <2>1, <2>2
  <2>4. QED
    BY <1>5, <2>3
<1>8. \A j \in Jobs, u \in Users :
          (job[j].users[u] = NotSeen <=> job'[j].users[u] = NotSeen) /\ Noted(job'[j].users[u])
  BY <1>0, <1>3, <1>5 DEF ScanOK
<1>9. ASSUME NEW j \in stored, NEW u \in Users \ untold, job[j].state = "done"
      PROVE  Shows(j, u)'
  <2>1. j \in Jobs /\ job'[j].users[u] = users(j)[u]
    BY <1>0, <1>5, <1>9, StoreIs
  <2>2. u \in entries <=> u \in whitelist
    BY <1>0, <1>1 DEF UserOK
  <2>3. QED
    BY <1>1, <1>3, <2>1, <2>2 DEF Shows
<1>10. MInv'
  BY <1>1, <1>2, <1>6, <1>7, <1>8, <1>9, ScansMove
<1>11. KicksStay
  BY <1>3, <1>5 DEF KicksStay
<1>12. QED
  BY <1>10, <1>11

LEMMA SyncReadKeeps ==
    ASSUME MInv, NEW t \in Sessions, SyncRead(t)
    PROVE  MInv'
<1>0. TypeOK /\ (\A i \in Jobs : ScanOK(i)) /\ (\A s \in Sessions : SessionOK(s)) /\ \A u \in Users : UserOK(u)
  BY DEF MInv
<1> DEFINE x == [at |-> "apply", entries |-> whitelist]
<1>1. /\ At(t, "sync") /\ session' = [session EXCEPT ![t] = x]
      /\ UNCHANGED <<outside, whitelist, started, stored, job, run, bot, lastCheck, untold>>
  BY DEF SyncRead
<1>2. x \in Session /\ x # Idle /\ x \notin Kick
  <2>1. x \in Session
    BY <1>0 DEF TypeOK, Session
  <2>2. QED
    BY <2>1, ScanSentinels, KickIs
<1>3. /\ session' \in [Sessions -> Session \cup {Idle}] /\ session'[t] = x
      /\ \A s \in Sessions : s # t => session'[s] = session[s]
  BY <1>0, <1>1, <1>2 DEF TypeOK
<1>4. TypeOK'
  BY <1>0, <1>1, <1>3 DEF TypeOK, outside
<1>5. \A j \in Jobs : ScanOK(j)'
  BY <1>0, <1>1 DEF ScanOK
<1>6. SeenStay
  BY <1>1 DEF SeenStay
<1>7. ASSUME NEW s \in Sessions
      PROVE  SessionOK(s)'
  <2>1. CASE s = t
    BY <1>2, <1>3, <2>1 DEF SessionOK, At
  <2>2. CASE s # t
    BY <1>0, <1>1, <1>3, <1>6, <2>2, SessionStays DEF outside
  <2>3. QED
    BY <2>1, <2>2
<1>8. ASSUME NEW u \in Users
      PROVE  UserOK(u)'
  <2> SUFFICES ASSUME u \notin untold
               PROVE  UserOK(u)'
    BY <1>1 DEF UserOK
  <2>1. ASSUME NEW s \in Sessions, At(s, "apply")'
        PROVE  (u \in session[s].entries <=> u \in whitelist)'
    <3>1. CASE s = t
      BY <1>1, <1>3, <3>1
    <3>2. CASE s # t
      BY <1>0, <1>1, <1>3, <2>1, <3>2 DEF UserOK, At
    <3>3. QED
      BY <3>1, <3>2
  <2>2. \A j \in Jobs : (run[j].at \in {"check", "publish"} /\ run[j].found[u] # NotSeen =>
                            Agrees(run[j].found[u], u))'
    BY <1>0, <1>1 DEF UserOK, Agrees
  <2>3. ASSUME NEW j \in stored', job'[j].state = "done"
        PROVE  Shows(j, u)' \/ \E s \in Sessions : Pending(s, u)'
    <3>1. Pending(t, u)'
      BY <1>2, <1>3 DEF Pending, At
    <3>2. QED
      BY <3>1
  <2>4. QED
    BY <2>1, <2>2, <2>3 DEF UserOK
<1>9. QED
  BY <1>4, <1>5, <1>7, <1>8 DEF MInv

LEMMA PutFailsKeeps ==
    ASSUME MInv, NEW t \in Sessions, PutFails(t)
    PROVE  MInv'
<1>0. TypeOK /\ (\A i \in Jobs : ScanOK(i)) /\ (\A s \in Sessions : SessionOK(s)) /\ \A u \in Users : UserOK(u)
  BY DEF MInv
<1>1. /\ At(t, "put") /\ session' = [session EXCEPT ![t] = Idle]
      /\ untold' = untold \cup session[t].put
      /\ UNCHANGED <<outside, whitelist, started, stored, job, run, bot, lastCheck>>
  BY DEF PutFails, Finish
<1>2. /\ session' \in [Sessions -> Session \cup {Idle}] /\ session'[t] = Idle
      /\ \A s \in Sessions : s # t => session'[s] = session[s]
  BY <1>0, <1>1 DEF TypeOK
<1>3. TypeOK'
  BY <1>0, <1>1, <1>2, SessionIs DEF TypeOK, outside
<1>4. \A j \in Jobs : ScanOK(j)'
  BY <1>0, <1>1 DEF ScanOK
<1>5. SeenStay
  BY <1>1 DEF SeenStay
<1>6. ASSUME NEW s \in Sessions
      PROVE  SessionOK(s)'
  <2>1. CASE s = t
    BY <1>2, <2>1, KickIs DEF SessionOK, At
  <2>2. CASE s # t
    BY <1>0, <1>1, <1>2, <1>5, <2>2, SessionStays DEF outside
  <2>3. QED
    BY <2>1, <2>2
<1>7. ASSUME NEW u \in Users
      PROVE  UserOK(u)'
  <2> SUFFICES ASSUME u \notin untold'
               PROVE  UserOK(u)'
    BY DEF UserOK
  <2>0. u \notin untold /\ ~Pending(t, u)
    BY <1>1 DEF Pending, At
  <2>1. \A s \in Sessions : (At(s, "apply") => (u \in session[s].entries <=> u \in whitelist))'
    BY <1>0, <1>1, <1>2, <2>0 DEF UserOK, At
  <2>2. \A j \in Jobs : (run[j].at \in {"check", "publish"} /\ run[j].found[u] # NotSeen =>
                            Agrees(run[j].found[u], u))'
    BY <1>0, <1>1, <2>0 DEF UserOK, Agrees
  <2>3. ASSUME NEW j \in stored', job'[j].state = "done"
        PROVE  Shows(j, u)' \/ \E s \in Sessions : Pending(s, u)'
    <3>1. Shows(j, u) \/ \E s \in Sessions : Pending(s, u)
      BY <1>0, <1>1, <2>0, <2>3 DEF UserOK
    <3>2. Shows(j, u) => Shows(j, u)'
      BY <1>1 DEF Shows
    <3>3. \A s \in Sessions : Pending(s, u) => Pending(s, u)'
      BY <1>2, <2>0 DEF Pending, At
    <3>4. QED
      BY <3>1, <3>2, <3>3
  <2>4. QED
    BY <2>1, <2>2, <2>3 DEF UserOK
<1>8. QED
  BY <1>3, <1>4, <1>6, <1>7 DEF MInv

-----------------------------------------------------------------------------
(* The invariant. *)

LEMMA InitScans == ASSUME Init PROVE MInv
<1>1. /\ members \subseteq Users /\ admins \subseteq Users /\ whitelist \subseteq Users
      /\ changes \in 0..MaxChanges /\ started = 0 /\ started \in 0..MaxJobs
      /\ bot \in BotReport \cup {Idle} /\ lastCheck \in Summary \cup {NoCheck} /\ untold = {}
  BY StoreBounds DEF Init
<1>2. stored = {} /\ Cardinality(stored) <= StoreCap
  BY FS_EmptySet, StoreBounds DEF Init
<1>3. job = [j \in Jobs |-> Fresh] /\ job \in [Jobs -> View]
  <2>1. Fresh \in View
    BY NobodyType DEF Fresh, View
  <2>2. QED
    BY <2>1 DEF Init
<1>4. run = [j \in Jobs |-> [at |-> "none"]] /\ run \in [Jobs -> Run]
  BY DEF Init, Run
<1>5. session = [s \in Sessions |-> Idle] /\ session \in [Sessions -> Session \cup {Idle}]
  BY DEF Init
<1>6. TypeOK
  BY <1>1, <1>2, <1>3, <1>4, <1>5 DEF TypeOK
<1>7. \A j \in Jobs : ScanOK(j)
  BY <1>3, <1>4, NobodyType DEF ScanOK, Fresh
<1>8. \A s \in Sessions : SessionOK(s)
  BY <1>5, KickIs DEF SessionOK, At
<1>9. \A u \in Users : UserOK(u)
  BY <1>2, <1>4, <1>5 DEF UserOK, At
<1>10. QED
  BY <1>6, <1>7, <1>8, <1>9 DEF MInv

LEMMA NextScans == ASSUME MInv, [Next]_vars PROVE MInv'
<1>1. CASE UNCHANGED vars
  <2>1. /\ outside' = outside
        /\ UNCHANGED <<members, admins, changes, whitelist, started, stored, job, run, bot, session,
                       lastCheck, untold>>
    BY <1>1 DEF vars, outside
  <2>2. members' \subseteq Users /\ changes' \in 0..MaxChanges /\ bot' \in BotReport \cup {Idle}
        /\ lastCheck' \in Summary \cup {NoCheck} /\ job \in [Jobs -> View]
    BY <2>1 DEF MInv, TypeOK
  <2>3. Ages
    BY <2>1, <2>2 DEF Ages
  <2>4. QED
    BY <2>1, <2>2, <2>3, ChangeKeeps
<1>2. CASE StartChannelScan \/ GetChannelScan
  BY <1>2, StartKeeps
<1>3. CASE BotClassify \/ BotRecord \/ BotClean
  BY <1>3, BotKeeps
<1>4. CASE BotCache
  BY <1>4, BotCacheKeeps
<1>5. ASSUME NEW j \in Jobs, JobStep(j) \/ Age(j)
      PROVE  MInv'
  BY <1>5, GoroutineKeeps, AgeKeeps
<1>6. ASSUME NEW u \in Users, Outside(u)
      PROVE  MInv'
  BY <1>6, OutsideKeeps
<1>7. ASSUME NEW s \in Sessions, Request(s)
      PROVE  MInv'
  <2>1. CASE KickAdmins(s) \/ KickUsers(s) \/ \E u \in Users : KickCheck(s, u) \/ Ban(s, u)
    BY <2>1, KickStepsKeep
  <2>2. CASE KickMark(s)
    BY <2>2, KickMarkKeeps
  <2>3. CASE \/ KickSummary(s) \/ RecordCheck(s)
             \/ \E j \in Jobs, u \in Users : RecheckScannedUser(s, j, u)
             \/ \E j \in Jobs, ids \in SUBSET Users : AddToWhitelist(s, j, ids)
    BY <2>3, RequestsMoveOn
  <2>4. CASE PutFails(s)
    BY <2>4, PutFailsKeeps
  <2>5. CASE SyncRead(s)
    BY <2>5, SyncReadKeeps
  <2>6. CASE SyncApply(s)
    BY <2>6, SyncApplyKeeps
  <2>7. CASE \E u \in Users : Put(s, u) \/ RemoveWhitelistEntry(s, u)
    BY <2>7, PutKeeps, RemoveKeeps
  <2>8. CASE \E v \in Verdicts : RecheckAnswer(s, v)
    BY <2>8, RecheckKeeps
  <2>9. CASE \E j \in Jobs, ids \in SUBSET Users : KickScannedUsers(s, j, ids)
    BY <2>9, KickStartKeeps
  <2>10. QED
    BY <1>7, <2>1, <2>2, <2>3, <2>4, <2>5, <2>6, <2>7, <2>8, <2>9 DEF Request
<1>8. QED
  BY <1>1, <1>2, <1>3, <1>4, <1>5, <1>6, <1>7 DEF Next

LEMMA ScansInvariant == Spec => []MInv
<1>1. Init => MInv
  BY InitScans
<1>2. MInv /\ [Next]_vars => MInv'
  BY NextScans
<1>3. QED
  BY <1>1, <1>2, PTL DEF Spec

\* Every variable keeps its type, and the store its limit.
THEOREM ScanTypes == Spec => []TypeOK
<1>1. MInv => TypeOK
  BY DEF MInv
<1>2. QED
  BY <1>1, ScansInvariant, PTL

\* With no change of the whitelist under way, each stored finished scan shows the
\* whitelist as it is, but for the users whose last change met something else.
THEOREM ScansShowWhitelist == Spec => []ScansFollowWhitelist
<1>1. ASSUME MInv
      PROVE  ScansFollowWhitelist
  <2>1. ASSUME Settled, NEW j \in stored, NEW u \in Users \ untold, job[j].state = "done"
        PROVE  Shows(j, u)
    <3>1. UserOK(u)
      BY <1>1 DEF MInv
    <3>2. \A s \in Sessions : ~Pending(s, u)
      BY <2>1 DEF Settled, Pending
    <3>3. QED
      BY <2>1, <3>1, <3>2 DEF UserOK
  <2>2. QED
    BY <2>1 DEF ScansFollowWhitelist
<1>2. QED
  BY <1>1, ScansInvariant, PTL

LEMMA NextKeepsKicks == ASSUME MInv, [Next]_vars PROVE KicksStay
<1>0. TypeOK /\ \A j \in Jobs : ScanOK(j)
  BY DEF MInv
<1>1. CASE UNCHANGED job
  BY <1>1 DEF KicksStay
<1>2. ASSUME NEW j \in Jobs, JobStep(j)
      PROVE  KicksStay
  <2>1. run[j].at # "none" /\ job' = [job EXCEPT ![j] = job'[j]]
    BY <1>2, GoroutineSteps
  <2>2. \A u \in Users : job[j].users[u] = NotSeen
    BY <1>0, <2>1, NobodyType DEF ScanOK
  <2>3. \A i \in Jobs : i # j => job'[i] = job[i]
    BY <1>0, <2>1 DEF TypeOK
  <2>4. QED
    BY <2>2, <2>3 DEF KicksStay
<1>3. CASE BotCache
  <2>1. PICK x : job' = [job EXCEPT ![started + 1] = x]
    BY <1>3 DEF BotCache
  <2>2. started \in Nat /\ (started + 1 \in Jobs => job[started + 1] = Fresh)
    BY <1>0, StoreIs DEF ScanOK
  <2>3. \A i \in Jobs : i # started + 1 => job'[i] = job[i]
    BY <1>0, <2>1 DEF TypeOK
  <2>4. QED
    BY <2>2, <2>3, NobodyType DEF KicksStay, Fresh
<1>4. ASSUME \A j \in Jobs : job'[j] = job[j] \/ job'[j] = [job[j] EXCEPT !.readOnly = TRUE]
      PROVE  KicksStay
  <2>1. ASSUME NEW j \in Jobs
        PROVE  job'[j].users = job[j].users
    <3>1. job[j] \in View
      BY <1>0, JobIs
    <3>2. QED
      BY <1>4, <3>1 DEF View
  <2>2. QED
    BY <2>1 DEF KicksStay
<1>5. CASE BotClean
  BY <1>4, <1>5 DEF BotClean
<1>6. ASSUME NEW i \in Jobs, Age(i)
      PROVE  KicksStay
  <2>1. job' = [job EXCEPT ![i] = [job[i] EXCEPT !.readOnly = TRUE]]
    BY <1>6 DEF Age
  <2>2. QED
    BY <1>0, <1>4, <2>1 DEF TypeOK
<1>7. ASSUME NEW s \in Sessions, Request(s)
      PROVE  KicksStay \/ UNCHANGED job
  <2>1. CASE KickMark(s) \/ SyncApply(s) \/ \E v \in Verdicts : RecheckAnswer(s, v)
    BY <2>1, KickMarkKeeps, SyncApplyKeeps, RecheckKeeps
  <2>2. CASE ~(KickMark(s) \/ SyncApply(s) \/ \E v \in Verdicts : RecheckAnswer(s, v))
    BY <1>7, <2>2 DEF Request, KickAdmins, KickCheck, KickUsers, KickSummary, RecordCheck, PutFails, SyncRead, Ban,
         Put, RemoveWhitelistEntry, RecheckScannedUser, KickScannedUsers, AddToWhitelist
  <2>3. QED
    BY <2>1, <2>2
<1>8. QED
  BY <1>1, <1>2, <1>3, <1>5, <1>6, <1>7
     DEF Next, vars, StartChannelScan, GetChannelScan, BotClassify, BotRecord, Outside

\* A kick shown in a scan stays shown.
THEOREM KicksStayShown == Spec => KickedStaysKicked
<1>1. MInv /\ [Next]_vars => [KicksStay]_vars
  BY NextKeepsKicks
<1>2. Spec => [][KicksStay]_vars
  BY <1>1, ScansInvariant, PTL DEF Spec
<1>3. QED
  BY <1>2 DEF KickedStaysKicked, KicksStay

\* Only a ban adds to the kicked of a kick, and of those it still had to do.
LEMMA OnlyBansKick ==
    ASSUME MInv, [Next]_vars, NEW s \in Sessions, At(s, "kick")
    PROVE  \/ session'[s] = Idle \/ session'[s].at # "kick"
           \/ session'[s].kicked \ session[s].kicked \subseteq session[s].todo
<1>0. TypeOK /\ session[s] \in Kick /\ session[s] # Idle /\ session[s].at = "kick"
  BY SessionIs DEF MInv, At
<1>1. "administrator" \in Protections /\ "whitelisted" \in Protections
  BY DEF Protections
<1>2. \A u \in Users, why \in Protections : Unshield(u, why)[s].kicked = session[s].kicked
  BY <1>0, Unshielded
<1>3. CASE session'[s] = session[s]
  BY <1>3
<1>4. ASSUME NEW u \in Users, Outside(u)
      PROVE  session'[s].kicked = session[s].kicked
  <2>1. session' = session \/ session' = Unshield(u, "administrator")
    BY <1>4 DEF Outside
  <2>2. QED
    BY <1>1, <1>2, <2>1
<1>5. ASSUME NEW t \in Sessions \ {s}, Request(t)
      PROVE  session'[s] = session[s] \/ session'[s].kicked = session[s].kicked
  <2>1. ASSUME NEW u \in Users, RemoveWhitelistEntry(t, u)
        PROVE  session'[s].kicked = session[s].kicked
    <3>1. session'[s] = Unshield(u, "whitelisted")[s]
      BY <2>1 DEF RemoveWhitelistEntry, Unshield
    <3>2. QED
      BY <1>1, <1>2, <3>1
  <2>2. CASE ~\E u \in Users : RemoveWhitelistEntry(t, u)
    BY <1>0, <1>5, <2>2 DEF TypeOK, Request, KickAdmins, KickCheck, KickUsers, KickMark, KickSummary, RecordCheck,
         PutFails, SyncRead, SyncApply, Ban, Put, RecheckScannedUser, RecheckAnswer, KickScannedUsers,
         AddToWhitelist, Finish
  <2>3. QED
    BY <2>1, <2>2
<1>6. CASE Request(s)
  <2>1. CASE KickMark(s)
    <3>1. session'[s] = [at |-> "summary", job |-> session[s].job]
      BY <1>0, <2>1 DEF KickMark, TypeOK
    <3>2. QED
      BY <3>1
  <2>2. ASSUME NEW u \in Users, Ban(s, u)
        PROVE  session'[s].kicked \ session[s].kicked \subseteq session[s].todo
    <3> DEFINE k == session[s]
    <3>1. \/ session'[s] = [k EXCEPT !.todo = @ \ {u}, !.kicked = @ \cup {u}]
          \/ session'[s] = [k EXCEPT !.todo = @ \ {u}]
      BY <1>0, <2>2 DEF Ban, TypeOK
    <3>2. session'[s].kicked \in {k.kicked, k.kicked \cup {u}}
      BY <1>0, <3>1 DEF Kick
    <3>3. u \in k.todo
      BY <2>2 DEF Ban
    <3>4. QED
      BY <3>2, <3>3
  <2>3. KickMark(s) \/ \E u \in Users : Ban(s, u)
    BY <1>0, <1>6 DEF Request, At, KickAdmins, KickCheck, KickUsers, KickSummary, RecordCheck, PutFails, SyncRead,
         SyncApply, Put, RemoveWhitelistEntry, RecheckScannedUser, RecheckAnswer, KickScannedUsers,
         AddToWhitelist
  <2>4. QED
    BY <2>1, <2>2, <2>3
<1>7. CASE UNCHANGED session
  BY <1>3, <1>7
<1>8. session' = session \/ (\E u \in Users : Outside(u)) \/ \E t \in Sessions : Request(t)
  BY DEF Next, vars, StartChannelScan, GetChannelScan, BotClassify, BotRecord, BotCache, BotClean, Age, JobStep,
         JobFails, JobList, JobAdmins, JobCheck, JobRecord, JobPublish
<1>9. QED
  BY <1>3, <1>4, <1>5, <1>6, <1>7, <1>8

\* Who was whitelisted, or an administrator, ever since a kick began is not banned
\* by it.
THEOREM ProtectedAreNotKicked == Spec => ProtectedThroughoutIsNotKicked
<1> DEFINE Spared ==
      \A s \in Sessions :
          At(s, "kick") => session'[s] = Idle \/ session'[s].at # "kick" \/
            (session'[s].kicked \ session[s].kicked)
               \cap (session[s].shielded["administrator"] \cup session[s].shielded["whitelisted"]) = {}
<1>1. MInv /\ [Next]_vars => [Spared]_vars
  <2> SUFFICES ASSUME MInv, [Next]_vars, NEW s \in Sessions, At(s, "kick"),
                      session'[s] # Idle, session'[s].at = "kick"
               PROVE  (session'[s].kicked \ session[s].kicked)
                        \cap (session[s].shielded["administrator"] \cup session[s].shielded["whitelisted"]) = {}
    OBVIOUS
  <2>1. session'[s].kicked \ session[s].kicked \subseteq session[s].todo
    BY OnlyBansKick
  <2>2. TypeOK /\ SessionOK(s)
    BY DEF MInv
  <2>3. /\ session[s].todo \cap session[s].shielded["administrator"] = {}
        /\ session[s].todo \cap session[s].shielded["whitelisted"] = {}
    BY <2>2, SessionIs DEF SessionOK, At
  <2>4. QED
    BY <2>1, <2>3
<1> HIDE DEF Spared
<1>2. Spec => [][Spared]_vars
  BY <1>1, ScansInvariant, PTL DEF Spec
<1>3. QED
  BY <1>2 DEF ProtectedThroughoutIsNotKicked, Spared

-----------------------------------------------------------------------------
(* Running scans. *)

\* A started scan is shown as running exactly while its goroutine fills it, evicted
\* or not, and the store holds at most one: what is left of ScansEnd is that the
\* goroutine goes on.
RunningAreFilled ==
    /\ \A j \in 1..started : job[j].state = "running" <=> run[j].at # "none"
    /\ \A i, j \in stored : job[i].state = "running" /\ job[j].state = "running" => i = j

LEMMA GoroutineEnds ==
    ASSUME MInv, RunningAreFilled, NEW j \in Jobs, JobStep(j)
    PROVE  /\ j \in 1..started /\ job[j].state = "running"
           /\ job'[j].state = "running" <=> run'[j].at # "none"
<1>0. TypeOK /\ ScanOK(j) /\ j \in Nat /\ j >= 1 /\ job[j] \in View
  BY JobIs DEF MInv, Jobs
<1>1. run[j].at # "none"
  BY GoroutineSteps
<1>2. started \in Nat /\ j \in 1..started
  BY <1>0, <1>1, StoreIs DEF ScanOK
<1>3. job[j].state = "running"
  BY <1>1, <1>2 DEF RunningAreFilled
<1>4. run \in [Jobs -> Run] /\ job \in [Jobs -> View] /\ run[j] \in Run
  BY <1>0 DEF TypeOK
<1>5. CASE JobFails(j)
  <2>1. job'[j] = [job[j] EXCEPT !.state = "failed"] /\ run'[j] = [at |-> "none"]
    BY <1>4, <1>5 DEF JobFails
  <2>2. job'[j].state = "failed"
    BY <1>0, <2>1 DEF View
  <2>3. QED
    BY <1>2, <1>3, <2>1, <2>2
<1>6. CASE JobPublish(j)
  <2>1. job'[j] = [job[j] EXCEPT !.state = "done", !.users = run[j].found] /\ run'[j] = [at |-> "none"]
    BY <1>4, <1>6 DEF JobPublish
  <2>2. job'[j].state = "done"
    BY <1>0, <2>1 DEF View
  <2>3. QED
    BY <1>2, <1>3, <2>1, <2>2
<1>7. CASE JobList(j) \/ JobAdmins(j)
  <2>1. job' = job /\ run'[j].at \in {"admins", "check"}
    BY <1>4, <1>7 DEF JobList, JobAdmins
  <2>2. QED
    BY <1>2, <1>3, <2>1
<1>8. CASE JobCheck(j) \/ JobRecord(j)
  <2>1. job' = job /\ run[j].at = "check"
    BY <1>8 DEF JobCheck, JobRecord
  <2>2. run'[j].at \in {"check", "publish"}
    <3>1. CASE JobRecord(j)
      <4>1. run'[j] = [run[j] EXCEPT !.at = "publish"]
        BY <1>4, <3>1 DEF JobRecord
      <4>2. QED
        BY <1>4, <2>1, <4>1, RunIs
    <3>2. CASE JobCheck(j)
      <4>1. PICK todo, found : run'[j] = [run[j] EXCEPT !.todo = todo, !.found = found]
        <5>1. PICK u \in run[j].todo :
                  \E x : run' = [run EXCEPT ![j].todo = @ \ {u}, ![j].found[u] = x]
          BY <3>2 DEF JobCheck
        <5>2. PICK x : run' = [run EXCEPT ![j].todo = @ \ {u}, ![j].found[u] = x]
          BY <5>1
        <5> DEFINE todo == run[j].todo \ {u}
                   found == [run[j].found EXCEPT ![u] = x]
        <5>4. run'[j] = [run[j] EXCEPT !.todo = todo, !.found = found]
          BY <1>4, <5>2
        <5> HIDE DEF todo, found
        <5>5. QED
          BY <5>4
      <4>2. QED
        BY <1>4, <2>1, <4>1, RunIs
    <3>3. QED
      BY <1>8, <3>1, <3>2
  <2>3. QED
    BY <1>2, <1>3, <2>1, <2>2
<1>9. QED
  BY <1>5, <1>6, <1>7, <1>8 DEF JobStep

\* The states of the scans there were do not change, nor do their goroutines; what
\* is added to the store is one finished scan at most.
LEMMA StatesStay ==
    ASSUME MInv, RunningAreFilled, run' = run, started' \in {started, started + 1},
           \A j \in 1..started : job'[j].state = job[j].state,
           stored' \subseteq stored \cup {started'},
           started' = started => stored' \subseteq stored,
           started' # started => started + 1 \in Jobs /\ job'[started + 1].state = "done"
    PROVE  RunningAreFilled'
<1>0. TypeOK /\ started \in Nat /\ stored \in SUBSET (1..started)
  BY StoreIs DEF MInv
<1>1. CASE started' = started
  BY <1>0, <1>1 DEF RunningAreFilled
<1>2. CASE started' # started
  <2>1. started' = started + 1 /\ 1..started' = (1..started) \cup {started + 1}
    BY <1>0, <1>2
  <2>2. run[started + 1].at = "none"
    <3>1. started + 1 \in Jobs /\ ScanOK(started + 1)
      BY <1>2 DEF MInv
    <3>2. QED
      BY <1>0, <3>1 DEF ScanOK
  <2>3. QED
    BY <1>0, <1>2, <2>1, <2>2 DEF RunningAreFilled
<1>3. QED
  BY <1>1, <1>2

LEMMA NextRunning ==
    ASSUME MInv, RunningAreFilled, [Next]_vars
    PROVE  RunningAreFilled'
<1>0. /\ TypeOK /\ started \in Nat /\ stored \in SUBSET (1..started) /\ \A j \in 1..started : j \in Jobs
      /\ job \in [Jobs -> View] /\ run \in [Jobs -> Run]
  <2>1. TypeOK
    BY DEF MInv
  <2>2. \A j \in 1..started : j \in Jobs
    BY <2>1, StoreIs, StoreBounds DEF Jobs
  <2>3. QED
    BY <2>1, <2>2, StoreIs DEF TypeOK
<1>1. Kept(stored) \subseteq stored
  BY <1>0, KeptHasRoom
<1>2. ASSUME UNCHANGED <<run, job, started>>, stored' \subseteq stored
      PROVE  RunningAreFilled'
  BY <1>2, StatesStay
<1>3. ASSUME UNCHANGED <<run, started, stored>>, \A j \in Jobs : job'[j].state = job[j].state
      PROVE  RunningAreFilled'
  BY <1>0, <1>3, StatesStay
<1>4. CASE GetChannelScan
  BY <1>1, <1>2, <1>4 DEF GetChannelScan
<1>5. CASE StartChannelScan
  <2>1. CASE \E j \in Kept(stored) : job[j].state = "running"
    BY <1>1, <1>2, <1>5, <2>1 DEF StartChannelScan
  <2>2. CASE ~\E j \in Kept(stored) : job[j].state = "running"
    <3> DEFINE new == started + 1
    <3>1. /\ started < MaxJobs /\ started' = new /\ stored' = Kept(stored) \cup {new}
          /\ run' = [run EXCEPT ![new] = [at |-> "list"]] /\ job' = job
      BY <1>5, <2>2 DEF StartChannelScan
    <3>2. new \in Jobs /\ job[new] = Fresh
      BY <1>0, <3>1, StoreIs DEF MInv, ScanOK
    <3>3. job'[new].state = "running" /\ run'[new].at # "none"
      BY <1>0, <3>1, <3>2 DEF Fresh
    <3>4. \A j \in 1..started : run'[j] = run[j]
      BY <1>0, <3>1
    <3>5. 1..started' = (1..started) \cup {new}
      BY <1>0, <3>1
    <3>6. \A j \in 1..started' : job'[j].state = "running" <=> run'[j].at # "none"
      BY <3>1, <3>3, <3>4, <3>5 DEF RunningAreFilled
    <3>7. \A j \in stored' : job'[j].state = "running" => j = new
      BY <2>2, <3>1
    <3>8. QED
      BY <3>6, <3>7 DEF RunningAreFilled
  <2>3. QED
    BY <2>1, <2>2
<1>6. CASE BotCache
  <2>1. /\ started < MaxJobs /\ started' = started + 1 /\ run' = run
        /\ stored' = Kept(stored) \cup {started + 1}
    BY <1>6 DEF BotCache
  <2>2. PICK x : job' = [job EXCEPT ![started + 1] = x] /\ x.state = "done"
    <3>1. PICK blind \in BOOLEAN :
            job' = [job EXCEPT ![started + 1] =
                      [state |-> "done", readOnly |-> blind,
                       users |-> [u \in Users |-> IF u \in DOMAIN bot.class THEN Reported(u) ELSE NotSeen]]]
      BY <1>6 DEF BotCache
    <3> DEFINE seen == [u \in Users |-> IF u \in DOMAIN bot.class THEN Reported(u) ELSE NotSeen]
    <3>2. job' = [job EXCEPT ![started + 1] = [state |-> "done", readOnly |-> blind, users |-> seen]]
      BY <3>1
    <3> HIDE DEF seen
    <3>3. [state |-> "done", readOnly |-> blind, users |-> seen].state = "done"
      OBVIOUS
    <3>4. QED
      BY <3>2, <3>3
  <2>3. started + 1 \in Jobs
    BY <1>0, <2>1, StoreIs
  <2>4. job'[started + 1].state = "done" /\ \A j \in 1..started : job'[j] = job[j]
    BY <1>0, <2>2, <2>3
  <2>5. QED
    BY <1>0, <1>1, <2>1, <2>3, <2>4, StatesStay
<1>7. CASE BotClean
  <2>1. /\ UNCHANGED <<run, started, stored>>
        /\ \A j \in Jobs : job'[j] = job[j] \/ job'[j] = [job[j] EXCEPT !.readOnly = TRUE]
    BY <1>7 DEF BotClean
  <2>2. \A j \in Jobs : job'[j].state = job[j].state
    BY <1>0, <2>1 DEF View
  <2>3. QED
    BY <1>3, <2>1, <2>2
<1>8. ASSUME NEW i \in Jobs, Age(i)
      PROVE  RunningAreFilled'
  <2>1. UNCHANGED <<run, started, stored>> /\ job' = [job EXCEPT ![i] = [job[i] EXCEPT !.readOnly = TRUE]]
    BY <1>8 DEF Age
  <2>2. \A j \in Jobs : job'[j].state = job[j].state
    BY <1>0, <2>1 DEF View
  <2>3. QED
    BY <1>3, <2>1, <2>2
<1>9. ASSUME NEW j \in Jobs, JobStep(j)
      PROVE  RunningAreFilled'
  <2>1. /\ j \in 1..started /\ job[j].state = "running"
        /\ job'[j].state = "running" <=> run'[j].at # "none"
    BY <1>9, GoroutineEnds
  <2>2. /\ run' = [run EXCEPT ![j] = run'[j]] /\ job' = [job EXCEPT ![j] = job'[j]]
        /\ UNCHANGED <<started, stored>>
    BY <1>9, GoroutineSteps
  <2>3. \A i \in 1..started : i # j => run'[i] = run[i] /\ job'[i] = job[i]
    BY <1>0, <2>2
  <2>4. \A i \in 1..started : job'[i].state = "running" => job[i].state = "running"
    BY <2>1, <2>3
  <2>5. QED
    BY <1>0, <2>1, <2>2, <2>3, <2>4 DEF RunningAreFilled
<1>10. ASSUME NEW s \in Sessions, Request(s)
       PROVE  RunningAreFilled'
  <2>1. CASE KickMark(s)
    <3>1. UNCHANGED <<run, started, stored>>
          /\ \E f : job' = [job EXCEPT ![session[s].job].users = f] \/ job' = job
      BY <2>1 DEF KickMark
    <3>2. \A j \in Jobs : job'[j].state = job[j].state
      BY <1>0, <3>1 DEF View
    <3>3. QED
      BY <1>3, <3>1, <3>2
  <2>2. CASE SyncApply(s)
    <3>1. UNCHANGED <<run, started, stored>> /\ \A j \in Jobs : job'[j] = Synced(j, session[s].entries)
      BY <2>2 DEF SyncApply
    <3>2. \A j \in Jobs : job'[j].state = job[j].state
      BY <1>0, <3>1 DEF View, Synced
    <3>3. QED
      BY <1>3, <3>1, <3>2
  <2>3. ASSUME NEW v \in Verdicts, RecheckAnswer(s, v)
        PROVE  RunningAreFilled'
    <3>1. UNCHANGED <<run, started, stored>>
          /\ \E x : job' = [job EXCEPT ![session[s].job].users[session[s].user] = x]
      BY <2>3 DEF RecheckAnswer
    <3>2. \A j \in Jobs : job'[j].state = job[j].state
      BY <1>0, <3>1 DEF View
    <3>3. QED
      BY <1>3, <3>1, <3>2
  <2>4. CASE ~(KickMark(s) \/ SyncApply(s) \/ \E v \in Verdicts : RecheckAnswer(s, v))
    <3>1. UNCHANGED <<run, job, started>> /\ stored' \in {stored, Kept(stored)}
      BY <1>10, <2>4 DEF Request, KickAdmins, KickCheck, KickUsers, KickSummary, RecordCheck, PutFails, SyncRead, Ban,
         Put, RemoveWhitelistEntry, RecheckScannedUser, KickScannedUsers, AddToWhitelist, outside
    <3>2. QED
      BY <1>1, <1>2, <3>1
  <2>5. QED
    BY <2>1, <2>2, <2>3, <2>4
<1>11. CASE BotClassify \/ BotRecord \/ (\E u \in Users : Outside(u)) \/ UNCHANGED vars
  BY <1>2, <1>11 DEF BotClassify, BotRecord, Outside, vars
<1>12. QED
  BY <1>4, <1>5, <1>6, <1>7, <1>8, <1>9, <1>10, <1>11 DEF Next

\* A scan shown as running has its goroutine, a goroutine that leaves says done or
\* failed first, and a scan already running is returned instead of a second one.
THEOREM RunningScansAreFilled == Spec => []RunningAreFilled
<1>1. Init => RunningAreFilled
  BY DEF Init, RunningAreFilled
<1>2. MInv /\ RunningAreFilled /\ [Next]_vars => RunningAreFilled'
  BY NextRunning
<1>3. QED
  BY <1>1, <1>2, ScansInvariant, PTL DEF Spec

=============================================================================
