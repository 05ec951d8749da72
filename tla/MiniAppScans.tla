----------------------------- MODULE MiniAppScans -----------------------------
(***************************************************************************)
(* The scans of one channel kept in memory for the Mini App: the goroutine *)
(* that fills one, the reports of bot-side scans cached beside them, and   *)
(* the requests that act on a finished scan - kick, recheck, whitelist -   *)
(* while it ages, is evicted or is overtaken by another request.  Each     *)
(* holds scansMutex only for a moment and goes on with what it read.       *)
(* controllers/scanner: miniapp.go, scan_cache.go, whitelist.go (sync),    *)
(* health.go.                                                              *)
(***************************************************************************)
EXTENDS Integers, FiniteSets, FiniteSetsExt

CONSTANTS
    Users,
    Sessions,    \* Mini App requests under way at the same time
    Verdicts,    \* what the access checker may say
    StoreCap,    \* maxScanJobs
    MaxJobs,     \* bound on scans ever made
    MaxChanges,  \* bound on members and roles changing outside the bot, scans
                 \* growing old and bot-side taken together
    NotSeen, NoCheck, Idle

ASSUME ScanAssumption ==
    /\ IsFiniteSet(Users)
    /\ Verdicts \subseteq {"good", "bad", "unknown"}
    /\ StoreCap \in Nat \ {0} /\ MaxJobs \in Nat
    /\ MaxChanges \in Nat

Jobs == 1..MaxJobs  \* numbered as they start

Statuses == {"good", "bad", "unknown", "whitelisted", "kicked"}

\* ScannedUser: base is whitelistBaseStatus, check the last recheck's verdict,
\* note why the user is protected.
Seen == [status : Statuses, base : Verdicts \cup {"none"}, check : Verdicts \cup {"none"},
         note : {"none", "whitelisted", "administrator"}]

Counted == Statuses \ {"kicked"}

Summary == [Counted -> Nat]

Found == [Users -> Seen \cup {NotSeen}]

View == [state : {"running", "done", "failed"}, readOnly : BOOLEAN, users : Found]

\* The goroutine of a scan.
Run == [at : {"none", "list"}]
       \cup [at : {"admins"}, todo : SUBSET Users]
       \cup [at : {"check", "publish"}, todo : SUBSET Users, protect : SUBSET Users, found : Found]

BotReport == [class : UNION {[chat -> {"good", "bad", "unknown"}] : chat \in SUBSET Users},
              recorded : BOOLEAN]

Protections == {"administrator", "whitelisted"}

Kick == [at : {"admins", "check", "kick"}, job : Jobs, todo : SUBSET Users,
         allowed : SUBSET Users, kicked : SUBSET Users,
         shielded : [Protections -> SUBSET Users]]

Session == Kick \cup [at : {"summary"}, job : Jobs] \cup [at : {"record"}, summary : Summary]
           \cup [at : {"recheck"}, job : Jobs, user : Users]
           \cup [at : {"put"}, todo : SUBSET Users, put : SUBSET Users]
           \cup [at : {"sync"}] \cup [at : {"apply"}, entries : SUBSET Users]

ASSUME ScanSentinels ==
    /\ NotSeen \notin Seen /\ NoCheck \notin Summary
    /\ Idle \notin Session /\ Idle \notin BotReport

VARIABLES
    members,    \* who is in the chat
    admins,     \* its administrators
    whitelist,  \* users with an entry that has not ended
    changes,
    started,    \* scans made so far
    stored,     \* the keys of d.scans
    job,        \* the scans, evicted ones included: their goroutines keep them
    run,        \* the goroutine of each Mini App scan
    bot,        \* the report of the bot-side scan or clean under way
    session,    \* what each request is in the middle of
    lastCheck,  \* LastCheck of the channel
    untold      \* history: users whose whitelist change met another change, a scan
                \* being made, or a batch that failed

outside == <<members, admins, changes>>
vars == <<outside, whitelist, started, stored, job, run, bot, session,
          lastCheck, untold>>

-----------------------------------------------------------------------------
Nobody == [u \in Users |-> NotSeen]

Fresh == [state |-> "running", users |-> Nobody, readOnly |-> FALSE]

Actionable(j) == j \in stored /\ job[j].state = "done" /\ ~job[j].readOnly

\* summarizeScan
Counts(users) ==
    [s \in Counted |-> Cardinality({u \in Users : users[u] # NotSeen /\ users[u].status = s})]

Zero == [s \in Counted |-> 0]

SeenAs(status, note) == [status |-> status, base |-> "none", check |-> "none", note |-> note]

\* markWhitelisted
Marked(r) ==
    [r EXCEPT !.base = IF r.status \in Verdicts THEN r.status ELSE @,
              !.status = "whitelisted",
              !.note = IF @ = "none" THEN "whitelisted" ELSE @]

\* Mutant: a user without a verdict is left without a status.
UnmarkedEmpty(r) ==
    [r EXCEPT !.status = IF r.check # "none" THEN r.check ELSE r.base,
              !.note = IF @ = "whitelisted" THEN "none" ELSE @]

\* Mutant: the user keeps the protection the whitelist gave.
UnmarkedStillProtected(r) ==
    [r EXCEPT !.status = IF r.check # "none" THEN r.check
                         ELSE IF r.base # "none" THEN r.base ELSE "unknown"]

\* What a user is again without the whitelist.
Unmarked(r) ==
    [r EXCEPT !.status = IF r.check # "none" THEN r.check
                         ELSE IF r.base # "none" THEN r.base ELSE "unknown",
              !.note = IF @ = "whitelisted" THEN "none" ELSE @]

\* Mutant: the kicked are told apart from the others no more.
ReconciledKickedToo(r, listed) ==
    CASE r = NotSeen -> r
      [] r # NotSeen /\ listed -> Marked(r)
      [] r # NotSeen /\ ~listed /\ r.status = "whitelisted" -> Unmarked(r)
      [] OTHER -> r

\* One user of a scan brought in line with the whitelist.
Reconciled(r, listed) ==
    CASE r = NotSeen -> r
      [] r # NotSeen /\ r.status # "kicked" /\ listed -> Marked(r)
      [] r # NotSeen /\ r.status = "whitelisted" /\ ~listed -> Unmarked(r)
      [] OTHER -> r

\* expireScansLocked on a full store; scans past 24 hours are left out.
Kept(ids) ==
    IF Cardinality(ids) < StoreCap THEN ids
    ELSE {i \in ids : Cardinality({k \in ids : k >= i}) < StoreCap}

Latest(ids) == Max(ids)

At(s, stage) == session[s] # Idle /\ session[s].at = stage

Finish(s) == session' = [session EXCEPT ![s] = Idle]

\* History: the users a kick under way found protected for one reason, as it
\* began and since; "why" is that reason.
Unshield(u, why) ==
    [s \in Sessions |->
        IF session[s] # Idle /\ session[s].at \in {"admins", "check", "kick"}
        THEN [session[s] EXCEPT !.shielded[why] = @ \ {u}] ELSE session[s]]

Init ==
    /\ members = Users /\ admins \in SUBSET Users /\ whitelist = {}
    /\ changes = 0 /\ started = 0
    /\ stored = {}
    /\ job = [j \in Jobs |-> Fresh]
    /\ run = [j \in Jobs |-> [at |-> "none"]]
    /\ bot = Idle
    /\ session = [s \in Sessions |-> Idle]
    /\ lastCheck = NoCheck
    /\ untold = {}

-----------------------------------------------------------------------------
\* StartChannelScan: a scan already running is returned.
StartChannelScan ==
    LET ids == Kept(stored)
    IN  IF \E j \in ids : job[j].state = "running"
        THEN /\ stored' = ids
             /\ UNCHANGED <<outside, whitelist, started, job, run, bot, session,
                            lastCheck, untold>>
        ELSE /\ started < MaxJobs
             /\ started' = started + 1
             /\ stored' = ids \cup {started + 1}
             /\ run' = [run EXCEPT ![started + 1] = [at |-> "list"]]
             /\ UNCHANGED <<outside, whitelist, job, bot, session, lastCheck, untold>>

\* GetChannelScan, and a kick that names a scan no longer stored: both make
\* room in a full store although nothing is added.
GetChannelScan ==
    /\ stored' = Kept(stored)
    /\ UNCHANGED <<outside, whitelist, started, job, run, bot, session, lastCheck, untold>>

\* Mutant: a scan that cannot list the members stays running.
JobFailsSilently(j) ==
    /\ run[j].at \in {"list", "admins", "check"}
    /\ run' = [run EXCEPT ![j] = [at |-> "none"]]
    /\ UNCHANGED <<outside, whitelist, started, stored, job, bot, session,
                   lastCheck, untold>>

\* Telegram does not answer, or scanJobTimeout is over.
JobFails(j) ==
    /\ run[j].at \in {"list", "admins", "check"}
    /\ run' = [run EXCEPT ![j] = [at |-> "none"]]
    /\ job' = [job EXCEPT ![j].state = "failed"]
    /\ UNCHANGED <<outside, whitelist, started, stored, bot, session, lastCheck, untold>>

JobList(j) ==
    /\ run[j].at = "list"
    /\ run' = [run EXCEPT ![j] = [at |-> "admins", todo |-> members]]
    /\ UNCHANGED <<outside, whitelist, started, stored, job, bot, session,
                   lastCheck, untold>>

JobAdmins(j) ==
    /\ run[j].at = "admins"
    /\ run' = [run EXCEPT ![j] = [at |-> "check", todo |-> run[j].todo,
                                  protect |-> admins, found |-> Nobody]]
    /\ UNCHANGED <<outside, whitelist, started, stored, job, bot, session,
                   lastCheck, untold>>

JobCheck(j) ==
    /\ run[j].at = "check" /\ run[j].todo # {}
    /\ \E u \in run[j].todo, v \in Verdicts :
         LET note == IF u \in run[j].protect THEN "administrator" ELSE "none"
         IN  run' = [run EXCEPT ![j].todo = @ \ {u},
                                ![j].found[u] = IF u \in whitelist THEN Marked(SeenAs("", note))
                                                ELSE SeenAs(v, note)]
    /\ UNCHANGED <<outside, whitelist, started, stored, job, bot, session,
                   lastCheck, untold>>

\* The outcome is recorded before the scan is shown as done.
JobRecord(j) ==
    /\ run[j].at = "check" /\ run[j].todo = {}
    /\ lastCheck' = Counts(run[j].found)
    /\ run' = [run EXCEPT ![j].at = "publish"]
    /\ UNCHANGED <<outside, whitelist, started, stored, job, bot, session, untold>>

JobPublish(j) ==
    /\ run[j].at = "publish"
    /\ job' = [job EXCEPT ![j].state = "done", ![j].users = run[j].found]
    /\ run' = [run EXCEPT ![j] = [at |-> "none"]]
    /\ UNCHANGED <<outside, whitelist, started, stored, bot, session, lastCheck, untold>>

JobStep(j) == JobFails(j) \/ JobList(j) \/ JobAdmins(j) \/ JobCheck(j) \/ JobRecord(j) \/ JobPublish(j)

-----------------------------------------------------------------------------
\* ProcessRequest of a bot-side scan or clean.  The checker it uses lets the whitelisted
\* pass.
BotClassify ==
    /\ bot = Idle /\ started < MaxJobs
    /\ \E v \in [members -> Verdicts] :
         bot' = [class |-> [u \in members |-> IF u \in whitelist THEN "good" ELSE v[u]],
                 recorded |-> FALSE]
    /\ UNCHANGED <<outside, whitelist, started, stored, job, run, session,
                   lastCheck, untold>>

\* cacheReport: what a member of the report becomes in the cached scan.
Reported(u) ==
    LET note  == IF u \in admins THEN "administrator" ELSE "none"
        class == bot.class[u]
    IN  IF u \in whitelist THEN Marked(SeenAs(IF class = "good" THEN "" ELSE class, note))
        ELSE SeenAs(class, note)

\* Only the allowed are looked up in the whitelist.
ReportCounts ==
    LET Of(class) == {u \in DOMAIN bot.class : bot.class[u] = class}
    IN  [s \in Counted |->
            Cardinality(CASE s = "good" -> Of("good") \ whitelist
                          [] s = "whitelisted" -> Of("good") \cap whitelist
                          [] OTHER -> Of(s))]

\* recordRequestCheck, before anything else is done with the report.
BotRecord ==
    /\ bot # Idle /\ ~bot.recorded
    /\ lastCheck' = ReportCounts
    /\ bot' = [bot EXCEPT !.recorded = TRUE]
    /\ UNCHANGED <<outside, whitelist, started, stored, job, run, session, untold>>

\* The end of a bot-side scan: without the administrators it is read-only.
BotCache ==
    /\ bot # Idle /\ bot.recorded
    /\ started < MaxJobs
    /\ started' = started + 1
    /\ \E blind \in BOOLEAN :
         job' = [job EXCEPT ![started + 1] =
                   [state |-> "done", readOnly |-> blind,
                    users |-> [u \in Users |-> IF u \in DOMAIN bot.class THEN Reported(u)
                                               ELSE NotSeen]]]
    /\ stored' = Kept(stored) \cup {started + 1}
    /\ bot' = Idle
    /\ UNCHANGED <<outside, whitelist, run, session, lastCheck, untold>>

\* The end of a bot-side clean: some of those not allowed are gone and finished
\* scans cannot be acted on any more.
BotClean ==
    /\ bot # Idle /\ bot.recorded
    /\ changes < MaxChanges
    /\ changes' = changes + 1
    /\ \E gone \in SUBSET {u \in DOMAIN bot.class \ admins : bot.class[u] # "good"} :
         members' = members \ gone
    /\ job' = [j \in Jobs |-> IF j \in stored /\ job[j].state = "done"
                               THEN [job[j] EXCEPT !.readOnly = TRUE] ELSE job[j]]
    /\ bot' = Idle
    /\ UNCHANGED <<admins, whitelist, started, stored, run, session, lastCheck, untold>>

\* scanReadOnly: a scan older than scanJobTTL.
Age(j) ==
    /\ Actionable(j)
    /\ changes < MaxChanges
    /\ changes' = changes + 1
    /\ job' = [job EXCEPT ![j].readOnly = TRUE]
    /\ UNCHANGED <<members, admins, whitelist, started, stored, run, bot, session,
                   lastCheck, untold>>

\* Members come and go, administrators are made and unmade by others.
Outside(u) ==
    /\ changes < MaxChanges
    /\ changes' = changes + 1
    /\ \/ /\ members' = IF u \in members THEN members \ {u} ELSE members \cup {u}
          /\ UNCHANGED <<admins, session>>
       \/ /\ admins' = IF u \in admins THEN admins \ {u} ELSE admins \cup {u}
          /\ session' = Unshield(u, "administrator")
          /\ UNCHANGED members
    /\ UNCHANGED <<whitelist, started, stored, job, run, bot, lastCheck, untold>>

-----------------------------------------------------------------------------
\* KickScannedUsers up to the unlock: the selection against the scan.
KickScannedUsers(s, j, ids) ==
    LET kept == Kept(stored)
        Kickable(u) == /\ job[j].users[u] # NotSeen
                       /\ job[j].users[u].note = "none"
                       /\ job[j].users[u].status # "kicked"
    IN  /\ session[s] = Idle
        /\ stored' = kept
        /\ Actionable(j) /\ j \in kept
        /\ session' = [session EXCEPT ![s] =
                         [at |-> "admins", job |-> j, todo |-> {u \in ids : Kickable(u)},
                          allowed |-> {}, kicked |-> {},
                          shielded |-> [why \in Protections |->
                                         IF why = "administrator" THEN admins ELSE whitelist]]]
        /\ UNCHANGED <<outside, whitelist, started, job, run, bot, lastCheck, untold>>

KickAdmins(s) ==
    /\ At(s, "admins")
    /\ \/ session' = [session EXCEPT ![s].at = "check", ![s].todo = @ \ admins]
       \/ Finish(s)
    /\ UNCHANGED <<outside, whitelist, started, stored, job, run, bot, lastCheck, untold>>

\* Mutant: the whitelist of the scan is taken for the whitelist.
SparesNobody(u) == FALSE

\* whitelistEntry
Spares(u) == u \in whitelist

\* One selected user after the other is looked up, each under the lock alone.
KickCheck(s, u) ==
    /\ At(s, "check") /\ u \in session[s].todo
    /\ session' = [session EXCEPT ![s].todo = @ \ {u},
                                  ![s].allowed = IF Spares(u) THEN @ ELSE @ \cup {u}]
    /\ UNCHANGED <<outside, whitelist, started, stored, job, run, bot, lastCheck, untold>>

KickUsers(s) ==
    /\ At(s, "check") /\ session[s].todo = {}
    /\ session' = [session EXCEPT ![s].at = "kick", ![s].todo = session[s].allowed,
                                  ![s].allowed = {}]
    /\ UNCHANGED <<outside, whitelist, started, stored, job, run, bot, lastCheck, untold>>

\* KickUsers takes them one by one.  A ban may fail, and so may lifting it, which the
\* result does not tell apart: the member is gone and not counted as kicked.
Ban(s, u) ==
    /\ At(s, "kick") /\ u \in session[s].todo
    /\ members' \in {members, members \ {u}}
    /\ \/ /\ u \notin members'
          /\ session' = [session EXCEPT ![s].todo = @ \ {u}, ![s].kicked = @ \cup {u}]
       \/ session' = [session EXCEPT ![s].todo = @ \ {u}]
    /\ UNCHANGED <<admins, changes, whitelist, started, stored, job, run, bot,
                   lastCheck, untold>>

KickMark(s) ==
    /\ At(s, "kick") /\ session[s].todo = {}
    /\ LET j == session[s].job
           Mark(u) == IF u \in session[s].kicked THEN [job[j].users[u] EXCEPT !.status = "kicked"]
                      ELSE job[j].users[u]
       IN  job' = IF j \in stored THEN [job EXCEPT ![j].users = [u \in Users |-> Mark(u)]] ELSE job
    /\ session' = [session EXCEPT ![s] = [at |-> "summary", job |-> @.job]]
    /\ UNCHANGED <<outside, whitelist, started, stored, run, bot, lastCheck, untold>>

\* An evicted scan leaves the summary at its zero value: a check of nobody.
KickSummary(s) ==
    /\ At(s, "summary")
    /\ LET j == session[s].job
       IN  session' = [session EXCEPT ![s] =
                         [at |-> "record", summary |-> IF j \in stored THEN Counts(job[j].users) ELSE Zero]]
    /\ UNCHANGED <<outside, whitelist, started, stored, job, run, bot, lastCheck, untold>>

RecordCheck(s) ==
    /\ At(s, "record")
    /\ lastCheck' = session[s].summary
    /\ Finish(s)
    /\ UNCHANGED <<outside, whitelist, started, stored, job, run, bot, untold>>

RecheckScannedUser(s, j, u) ==
    /\ session[s] = Idle
    /\ Actionable(j) /\ job[j].users[u] # NotSeen
    /\ session' = [session EXCEPT ![s] = [at |-> "recheck", job |-> j, user |-> u]]
    /\ UNCHANGED <<outside, whitelist, started, stored, job, run, bot, lastCheck, untold>>

\* The verdict goes into the scan the request began with, evicted or not.
RecheckAnswer(s, v) ==
    /\ At(s, "recheck")
    /\ LET j == session[s].job
           r == job[j].users[session[s].user]
       IN  job' = [job EXCEPT ![j].users[session[s].user] =
                     [r EXCEPT !.check = v,
                               !.status = IF @ \in {"whitelisted", "kicked"} THEN @ ELSE v]]
    /\ session' = [session EXCEPT ![s] =
                     [at |-> "record", summary |-> Counts(job'[session[s].job].users)]]
    /\ UNCHANGED <<outside, whitelist, started, stored, run, bot, lastCheck, untold>>

-----------------------------------------------------------------------------
\* A whitelist change of u by session s meets another one, or a scan that may
\* have looked u up before.
Crossed(s) ==
    \/ bot # Idle
    \/ \E j \in Jobs : run[j].at # "none"
    \/ \E t \in Sessions \ {s} : \E a \in {"put", "sync", "apply"} : At(t, a)

NoteUntold(s, us) == untold' = IF Crossed(s) THEN untold \cup us ELSE untold

\* AddToWhitelist: users of a scan, administrators included.
AddToWhitelist(s, j, ids) ==
    /\ session[s] = Idle
    /\ Actionable(j)
    /\ ids # {} /\ \A u \in ids : job[j].users[u] # NotSeen
    /\ session' = [session EXCEPT ![s] = [at |-> "put", todo |-> ids, put |-> {}]]
    /\ UNCHANGED <<outside, whitelist, started, stored, job, run, bot, lastCheck, untold>>

Put(s, u) ==
    /\ At(s, "put") /\ u \in session[s].todo
    /\ whitelist' = whitelist \cup {u}
    /\ session' = [session EXCEPT ![s] =
                     IF @.todo = {u} THEN [at |-> "sync"]
                     ELSE [at |-> "put", todo |-> @.todo \ {u}, put |-> @.put \cup {u}]]
    /\ NoteUntold(s, {u})
    /\ UNCHANGED <<outside, started, stored, job, run, bot, lastCheck>>

\* The batch ends at the first entry that cannot be stored; what was stored
\* stays, and the scans are not brought in line.
PutFails(s) ==
    /\ At(s, "put")
    /\ untold' = untold \cup session[s].put
    /\ Finish(s)
    /\ UNCHANGED <<outside, whitelist, started, stored, job, run, bot, lastCheck>>

RemoveWhitelistEntry(s, u) ==
    /\ session[s] = Idle
    /\ u \in whitelist
    /\ whitelist' = whitelist \ {u}
    /\ session' = [Unshield(u, "whitelisted") EXCEPT ![s] = [at |-> "sync"]]
    /\ NoteUntold(s, {u})
    /\ UNCHANGED <<outside, started, stored, job, run, bot, lastCheck>>

\* syncWhitelistScans: the entries are copied under whitelistMutex ...
SyncRead(s) ==
    /\ At(s, "sync")
    /\ session' = [session EXCEPT ![s] = [at |-> "apply", entries |-> whitelist]]
    /\ UNCHANGED <<outside, whitelist, started, stored, job, run, bot, lastCheck, untold>>

\* ... and applied to every finished scan under scansMutex.
Synced(j, entries) ==
    IF j \in stored /\ job[j].state = "done"
    THEN [job[j] EXCEPT !.users = [u \in Users |-> Reconciled(job[j].users[u], u \in entries)]]
    ELSE job[j]

SyncApply(s) ==
    /\ At(s, "apply")
    /\ job' = [j \in Jobs |-> Synced(j, session[s].entries)]
    /\ LET open == {j \in Jobs : Actionable(j)}
       IN  session' = [session EXCEPT ![s] =
                         IF open = {} THEN Idle
                         ELSE [at |-> "record", summary |-> Counts(job'[Latest(open)].users)]]
    /\ UNCHANGED <<outside, whitelist, started, stored, run, bot, lastCheck, untold>>

Request(s) ==
    \/ KickAdmins(s) \/ KickUsers(s) \/ KickMark(s) \/ KickSummary(s)
    \/ RecordCheck(s) \/ PutFails(s) \/ SyncRead(s) \/ SyncApply(s)
    \/ \E u \in Users : KickCheck(s, u) \/ Ban(s, u) \/ Put(s, u) \/ RemoveWhitelistEntry(s, u)
    \/ \E j \in Jobs, u \in Users : RecheckScannedUser(s, j, u)
    \/ \E v \in Verdicts : RecheckAnswer(s, v)
    \/ \E j \in Jobs, ids \in SUBSET Users : KickScannedUsers(s, j, ids) \/ AddToWhitelist(s, j, ids)

Next ==
    \/ StartChannelScan \/ GetChannelScan \/ BotClassify \/ BotRecord \/ BotCache \/ BotClean
    \/ \E j \in Jobs : JobStep(j) \/ Age(j)
    \/ \E u \in Users : Outside(u)
    \/ \E s \in Sessions : Request(s)

Spec == Init /\ [][Next]_vars

\* The scan's goroutine runs on, and its timeout ends what Telegram does not.
FairSpec == Spec /\ \A j \in Jobs : WF_vars(JobStep(j))

-----------------------------------------------------------------------------
TypeOK ==
    /\ members \subseteq Users /\ admins \subseteq Users /\ whitelist \subseteq Users
    /\ changes \in 0..MaxChanges /\ started \in 0..MaxJobs
    /\ stored \subseteq 1..started /\ Cardinality(stored) <= StoreCap
    /\ job \in [Jobs -> View] /\ run \in [Jobs -> Run]
    /\ bot \in BotReport \cup {Idle} /\ session \in [Sessions -> Session \cup {Idle}]
    /\ lastCheck \in Summary \cup {NoCheck}
    /\ untold \subseteq Users

\* A user who was whitelisted when a kick request arrived and has been ever
\* since, or an administrator all that time, is not banned by it, whatever the
\* scan it names says.  Who goes from the one protection to the other may be.
ProtectedThroughoutIsNotKicked ==
    [][\A s \in Sessions :
          At(s, "kick") => session'[s] = Idle \/ session'[s].at # "kick" \/
            (session'[s].kicked \ session[s].kicked)
               \cap (session[s].shielded["administrator"] \cup session[s].shielded["whitelisted"]) = {}]_vars

\* A kick shown in a scan stays shown, through later rechecks and whitelist
\* changes of the same user.
KickedStaysKicked ==
    [][\A j \in Jobs, u \in Users :
          job[j].users[u] # NotSeen /\ job[j].users[u].status = "kicked" =>
             job'[j].users[u].status = "kicked"]_vars

Settled == \A s \in Sessions, a \in {"put", "sync", "apply"} : ~At(s, a)

Shows(j, u) ==
    job[j].users[u] # NotSeen /\ job[j].users[u].status # "kicked" =>
        /\ job[j].users[u].status = "whitelisted" <=> u \in whitelist
        /\ job[j].users[u].note = "whitelisted" => u \in whitelist

\* With no change under way, every stored finished scan shows a user as
\* whitelisted exactly if the user is, and protects nobody for an entry that
\* is gone - unless the last changes of the user met something else.
ScansFollowWhitelist ==
    Settled => \A j \in stored, u \in Users \ untold : job[j].state = "done" => Shows(j, u)

\* A scan that was started ends, and the next may start.
ScansEnd == \A j \in Jobs : j <= started /\ job[j].state = "running" ~> job[j].state # "running"
=============================================================================
