# Telegram NDA Guard: a verification project

The guard is a Telegram bot. Administrators protect chats with it; it finds the
members an access checker does not let through, reports them to control chats,
and removes them on demand or on a schedule. A Mini App and a web API do the
same for managers, keep a whitelist per chat and handle requests to join. All of
it runs in one Go process, keeps its state in maps guarded by a handful of
mutexes, and persists what must survive a restart in Redis.

Most of what can go wrong is between goroutines: every HTTP request has one, the
Telegram updates share one that handles them in turn (`WithNotAsyncHandlers`),
scan workers, the scheduler, the sweep of the bot's rights, the whitelist
reminder and the join request loop have theirs, and the locks are released over every call
to Redis, to Telegram and to the access checker. The modules here model
those interleavings, the failures of the calls in between, and restarts.

## 1. The system

Paths are relative to `src/`; `scanner/` stands for `controllers/scanner/`.

| Component | State | Operations | Called by, calls |
|---|---|---|---|
| Whitelist (`scanner/whitelist.go`, `storage/whitelist`) | entries per chat in memory (`whitelistMutex`) and in a Redis hash | add, renew, remove, the reminder round | Mini App and control chats; read by every check |
| Channel registry (`scanner/add_protected_channel.go`, `management_methods.go`, `handler_toggle_flag.go`, `run.go`, `setup_bot.go`) | protected chats, the control chats' lists of them, tickers, one Redis record each (`channelsMutex`) | add, update, toggle, remove, migrate, restore | every other component reads it |
| Access verdict cache (`checker/cached`) | last verdict per user | HasAccess, Invalidate | scan workers, Mini App, join requests |
| Scan scheduler (`scanner/channel_users_checker.go`, `handler_check.go`) | copies of the tickers, a queue of ten requests | ticks, /scan and /clean, TriggerScan, TriggerClean, workers | registry's tickers; starts scans |
| Mini App scans (`scanner/miniapp.go`, `scan_cache.go`, `health.go`) | up to 200 scans in memory (`scansMutex`), LastCheck | start, show, kick, recheck, whitelist from a scan; reports cached from bot-side scans | checker, whitelist, kicker |
| Join requests (`scanner/joinrequests.go`, `storage/joinrequests`) | pending requests in memory (`joinMutex`) and Redis | the update handler, list, approve, decline, recheck, daily loop | checker, Telegram |
| Cached userbot (`telegram/userbots/cached`) | members per chat, with a lifetime | fetch, member updates, invalidation | scans |
| Notifications and audit (`scanner/notifications.go`, `audit.go`) | time of the last summary and of each notice; a bounded log in Redis | reserve a summary, throttle a notice, append | scans, managers' actions |
| Known chats and rights (`scanner/knownchats.go`, `connection.go`, `setup_bot.go`, `storage/knownchats`) | chats the bot is in, in memory and Redis; its rights in each protected chat; when their owners were told of trouble | membership updates, the refresh a connection starts, the sweeping loop | Mini App, /add, the dashboard; Telegram |
| Authorization (`scanner/authorizer`, `authorization.go`, `commands.go`) | the owner and allowlist, a cache of the administrators of each chat | decide who may act in a chat | all handlers; Telegram |
| Web API and sessions (`scanner/webapi`) | none: sessions are signed cookies and tokens | sign in, the routes of the dashboard and of the Mini App | authorizer, managers, control chats |
| Control chat commands (`scanner/handler_*.go`) | unanswered /add requests | /add and its share, lists, settings, removal, scans | authorizer, registry |
| Telegram sender (`telegram/sender/ratelimited`) | tokens per chat and overall | send, refill | everything that talks |
| Processors (`processors/*`) | none | report, ban and unban | scan workers |
| Pages, bot adapter, userbot, storage drivers, programs | mostly none | parsing, formatting, transport | - |

What is hard, by component, and what makes it correct:

- **Whitelist.** Redis is written first and memory second, under no common lock;
  the reminder copies entries, talks to Telegram, and writes its copies back.
  Correct: both copies agree, only administrators change an approval, an ended
  entry goes away.
- **Registry.** Adds and updates hold the lock over Redis but synchronise the
  ticker after the unlock; removal takes no lock. Correct: record, control
  lists, ticker and Redis name each other; a removal is final, also after a restart.
- **Verdict cache.** The question is asked between two critical sections.
  Correct: no answer is older than the lifetime plus one call; a recheck asks again.
- **Scheduler.** One goroutine selects over a copy of a list that shrinks and
  grows, and shares a bounded queue with requests that drop and requests that
  wait. Correct: a tick goes to its own chat, the queue keeps its bound, shutdown
  is seen, a chat that is switched on is scanned.
- **Scans.** A kick lasts minutes; meanwhile the scan is evicted, rechecked,
  reconciled with a whitelist that changes. Correct: a scan shows what the
  whitelist says, who is protected is not banned, a kick stays shown, a scan ends.
- **Join requests.** A request is answered in Telegram, dropped in Redis, dropped
  in memory, while updates and the loop put requests back. Correct: the list and
  Telegram agree on who waits; in auto mode whoever passes gets in.
- **Access.** A decision rests on a list of administrators fetched for an earlier
  request, on a session that nothing takes back, on a control chat or a manager
  that another request is removing. Correct: whoever acts was entitled within the
  age of what was asked, from a chat that controls the channel; nobody loses the
  management of a channel that stays protected.
- **Known chats and rights.** Updates, a connection's goroutine and the sweeps learn
  the rights at one moment and write them at another; a start loses updates.
  Correct: the list follows the updates, the rights shown settle on the real ones,
  connecting ends, the owners hear of trouble.
- **Cached userbot.** A listing takes pages and no lock, and caches what an
  invalidation may have just outdated; updates edit the cached list late or out of
  order. Correct: no list is older than its lifetime plus a listing or an update, and
  after a kick the next scan sees it.
- **Notifications.** A summary is reserved before it is sent: a failed send is not
  made up for until the interval is over. Not modelled.

`PROJECT.json` lists the hazards with their lines.

## 2. The modules

Each module is one component; `MC*` modules give its constants values for TLC,
`*Proofs` modules hold its theorems. An action is named after the function it
models, or after the part of it between two points where other goroutines may
run. Variables called *history* record what happened for a property and are read
by no action.

### Whitelist
One chat. `memory` is `d.whitelists[channelID]`, `store` the Redis hash,
`loading[w]` what a goroutine has read from Redis and not installed
(`channelWhitelist` unlocks over the read). A request decides on a set of
writes (`AddToWhitelist`, `RenewWhitelistEntry`, `RemoveWhitelistEntry`); every
write is two steps, `StoreWrite` and `MemoryWrite`, as in
`putWhitelistEntry`. The reminder round is `RemindStart`, `RemindSelect` (the
copy under the lock), drops, `RemindNotify`, marks, `RemindEnd`; `RoundWrites`
is its classification of an entry. A failing call may have been applied.
Histories: `torn` users were written to Redis between the two writes of another
goroutine, or by a call that failed after being applied; `contended` users had
two goroutines decide on them at once.

### ChannelRegistry
A job is what one handler or request is in the middle of. `AddProtectedChannel`
and `UpdateProtectedChannel` take `lock` (`channelsMutex`), `StorageWrite` or
`StorageFails` is the Redis call, `AddApply` and `UpdateApply` the rest under the
lock; `SyncTicker`, `RegisterTicker`, `RemoveTickers` follow the unlock.
`RemoveChannel` starts a removal: `CleanRead`, `CleanDetach`, the Redis call,
`CleanControl`, all without the lock. `CleanDetach` may swap the control chat
out of the slice that the cache entry and copies in flight share.
`RefreshIdentity` and `MigrateChannel` are `updateChannelInfo` and the upgrade of
a group. `auto` stands for AutoScan or AutoClean; the other options of the
record travel with it and are left out. Ticker options, over which
`AddProtectedChannel` unlocks (`add_protected_channel.go:143`), are given only by options
of `New` (`options.go:70`), before any goroutine runs; that window is left out.

### AccessVerdicts and VerdictCache
`AccessVerdicts` is the contract: an answer was true at the source less than
`Window` ticks before it was given. Three caches implement it: the verdicts, the
member lists (MemberCache) and the administrators (ManagementAccess). `VerdictCache`
is `HasAccess` in its steps (`HasAccess`, `Hit`, `Miss`, `Ask`, `Store`) and the
recheck, with `Window = TTL + Latency`: `ImplementsVerdicts` is the contract
instantiated over the cache's own `truth`, `changed`, `now` and `said`. An entry
is dated when it is stored, not when it was true, which is where `Latency`
comes from.

### ScanScheduler
`cases` and `caseChannels` are the parallel lists of `reflect.SelectCase`s and
chats, `snapCases` and `snapChannels` the copies the goroutine sleeps on
(`Snapshot`, `Tick`, `TickClosed`, `TickDone`, `Enqueue`). `Offer` is the send
that drops when the queue is full, `EnqueueScan` the one that waits; `Take` lets
the first waiting sender in, as Go channels do. Workers go through `Check`,
`List`, `Classify`, `Report`, `Delay`. The registry's operations are one step
each here; ChannelRegistry has their interleavings. Renaming tickers on a
migration is left to ChannelRegistry. `Init` takes the chats that are automatic at
launch in any order, as `Run` ranges over a map.

### MiniAppScans
One chat. `job` holds the scans, `stored` the keys of `d.scans`; a goroutine
keeps a scan it began with after it is evicted, so both are separate. `run[j]` is
the goroutine that fills scan `j` (`JobList` to `JobPublish`, `JobFails`), `bot`
a bot-side scan whose report is counted and then cached (`BotClassify`, `BotRecord`,
`BotCache`) or a clean that makes finished scans read-only (`BotClean`). `session[s]` is a request:
a kick (`KickScannedUsers`, `KickAdmins`, `KickCheck` user by user, `KickUsers`, `Ban`,
`KickMark`, `KickSummary`, `RecordCheck`), a recheck, or a whitelist change followed by
`syncWhitelistScans` (`SyncRead`, `SyncApply`). `Marked`, `Unmarked` and
`Reconciled` are the status arithmetic of `scan_cache.go`. A ban may fail, and so may
lifting it (`process_report.go:133`): then the member is gone and not shown as kicked.

### JoinRequests
One chat. `open` is Telegram's list, which the Bot API cannot show; `memory` and
`storage` are the bot's. A job walks through `Check`, `Resolve`, `DropStore`,
`DropMemory` or `Put`, `PutStore`, `PutMemory`, with the request it copied.
`RecheckRound` copies the chat with its mode, `RecheckList` its list afterwards,
`RecheckNext` takes the copies one by one without looking again. The day between two rechecks of a request is left out, so
every request is due in every round; a verdict, a name or a time inside a
request decides nothing later and is left out too.

### ManagementAccess
One or more channels, control chats and people; a person's id is also the id of
the private chat with the bot. A request begins as `Command`, `PrivateAdd`,
`Dashboard` or `MiniApp` (what the front asks before the authorizer), then
`Authorize` decides by the owner and the allowlist, or `CacheHit` or `CacheMiss`,
`Fetch`, `Store` by the administrators of the chat, as `chatAdmins` does around
its unlocked call; `Gate` is what the front asks afterwards (`requireLinkedChannel`,
`handleChannelByPath`, `handleMiniAppChannel`) and the operation follows as a step
of its own. `BotIsFree` keeps commands one at a time. Operations that change who
may act later are modelled (`AddHandler`, `AddCallback`, `AddChannel`,
`ConnectChat`, `JoinChannel`, `RemoveChannel`), the others are one, `Manage`.
`info` is the cache entry of `d.channels` that the dashboard's gate reads: it
keeps a control chat that was detached until a restart. `Contract` instantiates
AccessVerdicts over the administrators: the authorizer implements the same
contract as the verdict cache, with `Window = AdminCacheTTL + Latency`. The
comment of `WithAdminCacheTTL` ("at most this long") leaves the request out.
`crossed` requests were met by a removal of their channel. The /admin command is
left out: `handler_set_admin.go:45` refuses it whenever an administrator is set,
which the default of -1 already is.
The authorizer is the HybridAuthorizer, as the program sets it (`cmd/example/main.go:248`):
a bot that is given none lets every member of a control chat act
(`authorization.go:13`), and nothing said here holds of it. `RemoveChannel` is one step;
ChannelRegistry has the steps of a removal.

### BotRights
One chat. `standing` is the bot's place there at Telegram, `known` and `stored` the
list of chats in memory and in Redis, `rights` and `connecting` the entry of
`d.channels`. `update[i]` is the i-th membership update and how far its handler
is (`BotMembershipHandler`, then `Forbid` or `Grant`, `Store`); `NextInTurn` lets one
handler run at a time. `ConnectChat` or `Share`, then `Protect` and
`RefreshConnectedChat`, are a request that protects the chat; `RefreshAsk`,
`RefreshApply`, `RefreshLeaves` the goroutine it starts; `SendAddedChannelStatus` the one
a share leaves to wait for it, which sends a message, fails to, or finds the chat removed
and says nothing (`handler_add_channel.go:162`). `SweepBegin` to `SweepNotice` are one
chat's turn in `CheckRights`; a notice is dated there and then sent (`SweepSend`) or lost
(`SweepSendFails`), and `IntervalEnds` is the end of the hours in which its kind is not
repeated. Histories: `reply` is what became of the latest share's message, `heard` the
kinds of trouble somebody was really told of. `Standing` has one place more than the
code's `Status`: a bot that is restricted without being a member, which an update reports
as a member (`Said`, `knownchats.go:83`) and the sweeps as out (`Access`). `Restart`
makes the entry from the record, loads the list, and may lose the first of the waiting
updates: `Run` starts polling (`run.go:55`) before it registers handlers. Titles and who
added the bot are copied along and left out; permissions are either both there or not.

### MemberCache
One channel, whose entry of `channelUsersCache` is `list`. A `GetChannelUsers` call,
`listing[c]`, is `ListHit` (the copy under the lock) or `ListMiss`, `Page` by page, and
`ListStore` or `ListingFails`; users no page covered are `unseen`, because pages are cut
by offset (`userbot/get_channel_users.go:89`) and a member whose place moves up meanwhile
is on none; the scan keeps its copy until `ListDone`.
`InvalidateChannel` is what a kick ends with. `Move` changes who is a member and sends an
update; `Deliver` edits the list as `addUserToCache` and
`delUserFromCache` do and leaves the update there, so that it may come again; `Lose`
ends it. The client hands updates straight to the dispatcher
(`userbot/domain.go:59`), which promises neither order nor completeness. Histories:
`crossed` calls and lists were under way when the channel was invalidated, `old` users
were last edited by an update from before that, `since` is what was true of each user
after it. A list that Telegram cuts short (`ScanStats`) is left out.
`ListContract(u)` is AccessVerdicts over what the lists say of the user `u` (a list
answers for all users at once), with the lifetime plus the time of a listing or the
delay of an update, whichever is longer. The module's names are kept apart from
VerdictCache's, so that one module proves both.

### How they fit
The modules meet at data each treats as nondeterministic input: a verdict
(VerdictCache decides how old it may be), a whitelist entry (Whitelist decides
who writes it; MiniAppScans sees one atomic write), a protected chat with a
ticker (ChannelRegistry decides when it exists; ScanScheduler uses it), a ban
(one step that may fail), an entitled request (ManagementAccess decides how stale
the entitlement may be; the other modules take the request as given), a chat with
rights (BotRights; a scan or a kick without them is a failing call).

## 3. What the runs check

| Run | Instance | Shows |
|---|---|---|
| `whitelist` | 1 user, 1 manager, the reminder, clock to 3, 1 failure, 1 restart | types; `WriteThrough`, `ApprovalsAreTheAdministrators`, `EndedEntryIsDropped` |
| `whitelist_access` | clock to 2, no failure | *violated*: an entry renewed after the reminder listed it as ended is dropped (`storage/whitelist/defs.go:4`) |
| `registry` | 1 chat, 2 control chats, 2 actors, 1 failure, 1 restart; or 2 ids, 1 control chat, 1 actor, 2 upgrades, 1 restart | types; `TickerInSync`, `ControlMatches`, `StorageMatches`, `ProtectionIsStored`, `RemovalIsFinal`, also across group upgrades |
| `verdicts` | 1 user, 3 callers, TTL 1, latency 1, clock to 3, 2 changes at the source | the refinement; `UncrossedRecheckAsksSource` |
| `members` | 1 user, 2 scans, lifetime 2, listing 1, delay 2, clock to 4, 2 changes | types; `ListsImplementVerdicts` (the refinement), `InvalidationIsSeen` |
| `scheduler` | 2 chats, 2 tickers and shutdown while no worker takes anything, or 1 chat with 1 worker, 1 waiting sender and a ticker closed by its owner; queue of 1 | types with the queue's bound; `TicksGoToTheirChannel`, `ShutdownIsServed`, `WokenSchedulerServesAll` |
| `scheduler_periodic` | 1 chat, none automatic at launch | *violated*: automation switched on while the scheduler sleeps on an empty copy is never served (`webapi/webui/miniapp/app.js:251`) |
| `scans` | 2 users, 2 requests, 1 scan or cached report | `ScansFollowWhitelist`, `ProtectedThroughoutIsNotKicked`, `KickedStaysKicked` |
| `scans_two` | 1 user, 1 request, 2 scans, 1 change outside, ageing or clean | types; `ScansEnd` |
| `joins` | 1 user who asks twice, the bot, 1 manager, the loop, 1 change, 1 failure, 1 restart | types and no write to a nil map; `OpenIsKept`, `KeptIsOpen`, `PassingAreLetIn` |
| `access` | 1 channel, 1 control chat, 2 people, 2 requests, every operation; cache and employee window 1, clock to 3, 1 change, 1 restart with or without an owner | types; `ActsAreEntitled`, `LeaverLosesTheApp`, `OnlyControlChatsAct`, `AdminAnswersAreRecent` (the refinement), `ManagersAreKept` |
| `rights` | the loop, 2 changes of the bot's place, 2 protections, 1 failing Redis call or restart, any 3 of these; notices and messages that fail as often as they like | types and no protected chat the sweeps miss; `KnownMatches`, `RightsSettle`, `ConnectingEnds`, `ShareIsAnswered`, `TroubleIsAnnounced` |

**Bounds.** Every bound is a constant that ends in a guard and is named in its
module. Entries, chats, verdicts and requests of different users share no state
but maps whose keys do not meet, so one user or chat shows what two goroutines do
to it; two are used where a batch, a list or the order of chats matters. Two
actors of a kind are what a lost update needs, three callers what a recheck
between two crossing calls needs. One failure and one restart are enough to meet
every step in every order; the clock reaches past review date, reminder and end
of an entry (2, 1 and 1 ticks). A queue of one and a store of two are full
after as many steps. The real sizes (10, 200, four workers) differ in how long
it takes to fill them.

**Constraints.** `registry`, `access` and `scheduler` are each the union of two
instances, by a CONSTRAINT in the MC module: TLC explores a state only if it belongs to
one of them, and checks the properties on every state it reaches. `registry` is one chat
that stays where it is, or a group on the move under one actor. `access` is
`Ageing`, one person whose rights, sessions and caches grow old with both
requests in flight, or `SideBySide`, two administrators on a channel in one moment
with every operation. Both are safety runs, and their constraints do not tell
symmetric values apart. `scheduler` is two chats and a shutdown while no worker takes
a request, or one chat alone with workers, senders and closed tickers; its liveness is
that of the behaviours that stay in these. Only steps without fairness in
`SchedulerSpec` leave them (a worker's, a sender's, a closing, the shutdown, a change of
a chat), so what a behaviour is owed it is owed inside. What the slices leave out (time passing while two people
change the registry; an upgrade while two requests run) is covered where the
properties are proved. `rights` is cut after any three changes, protections and faults;
none of those is owed by fairness, so a behaviour that stops short of one is still fair.

**Symmetry and view.** Actors, control chats, callers, users and sessions are
interchangeable in the safety runs that use SYMMETRY; no run with liveness does.
`scans` ignores `lastCheck` in its VIEW: no action and none of its properties
reads it. It ignores `members` once the last scan has listed them: what may happen
next no longer depends on them, a ban succeeds or fails whoever is there.

`members` needs one user only: a listing, an update and an invalidation treat each user
of a list by itself. The window is tight: one tick shorter, it is violated by a late
update in this instance, and by a slow listing where a listing may take longer than an
update.

**Fairness, and why the code gives it.**
- *Whitelist*: weak fairness of the reminder and of a started memory write. The
  loop runs until shutdown, its ticker is hourly, each Redis call has a deadline
  of three seconds.
- *Scheduler*: `reflect.Select` picks at random among ready cases, hence strong
  fairness of receiving any one ticker, of a closed one and of the context's
  end; weak fairness of the goroutine's own steps and of ticking. Workers are
  only assumed to come back where a run says so (`FairSpec`); `scheduler`
  does without.
- *Scans*: weak fairness of the goroutine that fills a scan; `scanJobTimeout` ends
  what Telegram does not. Requests and kicks need not end.
- *Join requests*: weak fairness of the loop. The bot and managers need not end.
- *Rights*: weak fairness of a connection, whose goroutine gives up after thirty
  seconds, and of the loop; strong fairness of the loop's question being answered
  while the bot is in the chat, and of a notice being sent: not all of infinitely many
  calls fail; weak fairness of the end of the hours between two notices, which is time
  passing. For a chat
  the bot is out of Telegram may refuse every answer, and `RightsSettle` and
  `TroubleIsAnnounced` do not speak of it.

**Deadlock** is checked in all runs except those of MiniAppScans, ManagementAccess
and BotRights, where the bounds on scans, time, changes and protections end
everything and a process with nothing to do is a proper end.

### The exceptions in the properties
Several properties hold except for users or chats on which two goroutines met, or
a call failed. Each exception is there because TLC finds the disagreement without
it, and each is a behaviour of the code that its maintainers may want to know:

- `torn`, `contended` (Whitelist): two writers of one user order their writes to
  Redis and to memory differently; the reminder's mark re-adds an entry an
  administrator removed while notices were being sent, and undoes a renewal.
- `unsynced` (Registry): two updates synchronise the ticker after their unlocks in
  the other order, so a chat may lose its ticker or gain a second one.
- `raced`: a removal holds no lock and interleaves with an add or an update.
- `undone`: a removal that failed in Redis has changed memory; repeating it finds
  nothing to remove and reports success, and a restart brings the chat back.
- `unsaved`: a migration is not written to Redis; a failed write may have been
  applied.
- `crossed` (VerdictCache): a check under way when a recheck invalidates puts
  the old verdict back, and the recheck may return it.
- `untold` (Scans): two whitelist changes apply their copies of the list in the
  other order; a scan being filled, or a report being cached, has looked the user
  up before; a batch that fails half way skips the reconciliation.
- `ProtectedThroughoutIsNotKicked` speaks of those protected for the same reason
  from the request on: who is whitelisted after the kick looked may be banned.
- `crossed`, `unkept`, `stale`, `ignored` (Join requests): a recheck puts back a
  request answered meanwhile; who asks again between an answer and its drop is
  dropped with the old request and nobody sees the new one; Redis fails; a
  request ends in Telegram unseen; a request comes while the mode is off; a start or
  a crash loses the update.
- `crossed`, `old` (Members): a listing under way at an invalidation is cached after
  it, and so is the edit of an update that comes late; the next scan then shows who was
  kicked, whatever the comment at `get_channel_users.go:48` says, until the list is too
  old or is invalidated again.
- `crossed` (Access): a removal during a request lets it act on a channel its chat
  has just lost.
- `reply = "excused"` (Rights): a chat removed before its status was sent gets no
  message, and one that fails is only logged.
- `unseen` (Members): a listing may miss a member who is there throughout.
- `missed` (Rights): Redis failed, or a start lost the update. The list is wrong
  until the next update of that chat.
- `orphaned`: a chat removed while its rights are asked for keeps `connecting`; when
  it is protected again every refresh returns the closed channel of the first
  (`connection.go:16`), so the Mini App shows it as connecting, and asks again
  every few seconds, until a restart. The sweeps keep its rights right all the same.

Without an exception of its own: a kick whose scan is evicted from the full store
before the end records the zero summary (`miniapp.go:667`, `KickSummary`), so the
channel shows as checked with nobody in it until the next check. No property speaks
of `lastCheck` beyond its type.

The mutants in the modules (comments starting with "Mutant") are plausible bugs;
each property is violated by at least one of them.

## 4. What is proved

TLAPS checks these for every value of the constants, under the named assumptions of
the modules: bounds are natural numbers; sentinels are not data (`Absent`, `NoCall`,
`NotSeen` and the like are no record of theirs, `NotLoaded` is no list of users); the
reminder is not a manager; the lifetime of a verdict, of a member list and of a list of
administrators and the window of an employee check are positive; the registry's chats,
the users of a scan and the chats automatic at launch are finite, the last no more than
the tickers. An invariant is the conjunction of what each part of the state promises at
each stage of the goroutines, and the proof that a step keeps it goes by action.

- **WhitelistProofs.** `WhitelistTypeCorrect` (`Spec => []TypeOK`) and
  `WhitelistWriteThrough` (`Spec => []WriteThrough`). `WriteThrough` alone is not
  inductive: it says nothing of a writer between Redis and memory, nor of a list
  being loaded. The invariant adds `ColdStart` (before the list is loaded nobody
  writes, and every load has read what Redis holds) and `OneInFlight` (of an
  untorn user at most one writer is between its writes, and Redis holds what it
  wrote). The run checks one user and two writers, the theorem any number of users,
  of writers and batches of any size.
  `WhitelistApprovals` (`Spec => ApprovalsAreTheAdministrators`) is about the reminder
  acting on a copy. Its invariant, `ApprovalInv`: a writer between its two writes still
  owes the write (`CurrentIsPending`), two writers of one user are on record
  (`MeetingsAreKnown`), and what the round decided from its copy still fits the list in
  memory, for the users nobody else worked on (`RoundForesees`: it drops an entry only
  past its end and keeps the dates of one it marks).
  `WhitelistAccessEnds` is what remains of the promise at `storage/whitelist/defs.go:4`
  that `whitelist_access` refutes: access ends only by term or by an administrator for
  every user no two writers met on. So that meeting is the only way to break it.
- **CacheProofs.** Of VerdictCache: `VerdictTypeCorrect`; `VerdictRefinement`
  (`Spec => ImplementsVerdicts`): initial states map to initial states, every step
  to a step of the contract or a stutter; `VerdictRecheck`
  (`Spec => UncrossedRecheckAsksSource`). The invariant adds `CacheRecent` (a
  stored verdict is at most one call older than its date), `CallRecent` (what a
  call will store was true since it began) and `FreshRecent` (what an uncrossed
  recheck can meet was true since it began). `Tick` bounds a call by `Latency`:
  an assumption on the callers' contexts, not something the cache enforces.
  Of MemberCache: `MembersTypes`, `MembersRefinement` (`ListsImplementVerdicts`),
  `MembersImplementContract` (the specification of AccessVerdicts itself, for each
  user) and `KicksAreSeen` (`InvalidationIsSeen`), for any number of users, scans and
  updates. `MembersInv` says how far what is known of each user may lag: a list
  behind its date (`ListRecent`), the pages of a listing behind its
  beginning (`ListingRecent`), an update behind its sending (`UpdatesRecent`); and what
  of it is from after the last invalidation (`SinceMarked`). A late update may put older
  news into the list, but never older than the window; this holds only because an edit
  leaves the date of the list alone. The bounds on a listing and
  on an update are assumptions on the contexts and on Telegram, as `Latency` is.
- **ChannelRegistryProofs.** `RegistryTypes`, `OneTickerEach` (`TickerInSync`),
  `ListsAndRecordsAgree` (`ControlMatches`), `RedisFollowsMemory` (`StorageMatches`),
  `ProtectionSurvives` (`ProtectionIsStored`), `RemovedStaysRemoved`
  (`RemovalIsFinal`). The five are proved as one invariant, `RInv`: for each chat,
  what the record, the lists, the ticker and Redis are, less the part that a job
  under way has yet to do, for a job that no other job met. The step that needs
  most care is `CleanDetach`, whose swap reaches the slices of the jobs in flight.
- **JoinRequestsProofs.** `JoinTypes`, `WaitingAreListed` (`OpenIsKept`),
  `ListedAreWaiting` (`KeptIsOpen`), from `JInv`: what each stage of a job has done
  and still owes to the list and to Redis for the user it is about.
- **ScanSchedulerProofs.** `SchedulerTypes`; `SendersWaitForRoom`
  (`NobodyWaitsForNothing`: a sender waits only while the queue is full);
  `TicksAreOwn` (`TicksGoToTheirChannel`). The invariant `SInv` adds that the list of
  cases and the list of chats, and the two copies of them, stay parallel, each
  ticker beside its owner.
- **MiniAppScansProofs.** `ScanTypes`, `ScansShowWhitelist` (`ScansFollowWhitelist`),
  `KicksStayShown` (`KickedStaysKicked`), `ProtectedAreNotKicked`
  (`ProtectedThroughoutIsNotKicked`). `MInv` says what the goroutine of a scan holds
  at each stage (`ScanOK`), that a kick has only users of its scan left and none who
  was protected throughout (`SessionOK`), and that the scans agree with the whitelist
  on a user unless somebody is about to reconcile them (`UserOK`).
  `RunningScansAreFilled`: a started scan shows as running exactly while its goroutine
  fills it, evicted or not, and the store holds one running scan at most, as the comment
  of `StartChannelScan` says.
- **ManagementAccessProofs.** `AccessTypes`, `ControlIsAsked` (`OnlyControlChatsAct`),
  `OnlyTheEntitledAct` (`ActsAreEntitled`), `LeaversAreOut` (`LeaverLosesTheApp`),
  `ManagementIsKept` (`ManagersAreKept`), and `AnswersAreRecent`
  (`AdminAnswersAreRecent`): the authorizer's cache implements AccessVerdicts. The
  invariant dates what each request and cache entry rests on.
- **BotRightsProofs.** `TypeCorrect`; `ListFollowsTelegram` (`KnownMatches`). The
  invariant says that updates are reached in order (`InOrder`) and what memory and
  Redis owe to the latest one reached (`Follows`). `ConnectingHasAGoroutine`
  (`ConnectingIsAsked`): a chat shows as connecting just while one goroutine asks for
  its rights, and the channel that shares wait on is open just then, but for a chat that
  was removed meanwhile. `SharesAreNotForgotten` (`SilenceIsExcused`): whoever waits to
  tell of a share finds the chat protected, and so sends a message, unless somebody
  removed it since.

**Only model-checked.** Every invariant, action property and refinement that a passing
run checks is stated by a theorem. Liveness rests on fairness and `ENABLED` and is out of
the prover's reach: `EndedEntryIsDropped`, `ShutdownIsServed`, `WokenSchedulerServesAll`,
`ScansEnd`, `PassingAreLetIn`, `RightsSettle`, `ConnectingEnds`, `ShareIsAnswered`,
`TroubleIsAnnounced`. What they rest on that is safety is proved for some: nobody waits
for a queue with room (`NobodyWaitsForNothing`), a running scan has its goroutine
(`RunningAreFilled`), so has a connection (`ConnectingIsAsked`), and silence about a share
has its reason (`SilenceIsExcused`). The last three and `AccessEndsUncontended` are stated in the proof modules.

## 5. Not modelled, and why

- Parsing, formatting, HTTP, the pages, the bot library's types: data the
  properties do not tell apart. /admin does nothing (see ManagementAccess); /retry
  and the commands that only show something change no state a property reads.
- Signatures of sessions and web app data: cryptography.
- Storage drivers: one call each; a call and its failures are steps of the modules
  that make it.
- The userbot's connection and its pages of members: answers are inputs, a page is a
  step of MemberCache. Whether a list is complete (`ScanStats`) is shown to people and
  decides nothing but a notice.
- Summaries and their reservation (`scheduledReport`), digests, the audit log: the mark
  is written by the update ChannelRegistry models; the rest is whom to tell. A summary
  that was reserved and not sent is lost by design of the code, so there is no promise
  of it to state.
- The sender and the restrictor: waiting for a library's rate limiter and repeating a
  call once is part of the call's time in the modules that make it.
- Processors: a ban is a step of MiniAppScans, a report is text.
- Limits of 24 hours on scans and of 200 requests in a batch, notices other than the
  reminder's and those about rights, the options of a chat other than its automation,
  control chats and join mode.

## 6. What is left

1. Notifications beside updates of the record and restarts: at most one summary per
   interval for each chat.
2. Compositions: a chat's registry job with its scheduler, so that a removal is seen by
   the worker that scans the chat; a scan over MemberCache's answers and over the
   whitelist's two-step writes, instead of members and entries read in one step.
3. More of the safety that liveness rests on: what the reminder, the join request loop and
   the sweeps still owe at each stage.
