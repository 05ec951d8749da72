--------------------------- MODULE ManagementAccess ---------------------------
(***************************************************************************)
(* Who gets to act on a protected channel, from three sides: commands in   *)
(* Telegram chats (commands.go, authorization.go, handler_*.go), the web   *)
(* dashboard and the Mini App (webapi).  A request passes a session, the   *)
(* authorizer with its cache of administrators (authorizer/hybrid.go) and  *)
(* a gate of its own before it acts; between any two of them other         *)
(* requests run, people lose their rights and channels are removed.        *)
(***************************************************************************)
EXTENDS Integers, FiniteSets

CONSTANTS
    People,         \* a person's private chat with the bot has the person's id
    Chats,          \* groups the bot takes commands in
    Channels,       \* chats that may be protected
    Requests,
    Tasks,          \* what each person tries: triples of a person, a front and an operation
    AdminFronts,    \* where the authorizer was given WithRequireAdmin
    Configured,     \* the owner and allowlist: what a launch may find
    AdminCacheTTL,
    Latency,        \* bound on one request
    EmployeeWindow, \* how far the access checker may lag behind (AccessVerdicts)
    MiniAppSession,
    Absent, Idle, Silent, NoChat,
    MaxNow,         \* bound on the clock
    MaxChanges,     \* bound on changes of administrators and employees
    MaxRestarts     \* bound on restarts of the process

\* Chats with administrators; a private chat has none to ask for.
Groups == Chats \cup Channels

Scopes == People \cup Groups

\* "manage" stands for every operation on one channel that keeps it protected.
CommandOperations == {"manage", "remove", "add", "share"}
DashboardOperations == {"manage", "remove", "create"}
MiniAppOperations == {"manage", "join", "connect"}

Operations ==
    [command |-> CommandOperations, private |-> {"add", "share"},
     dashboard |-> DashboardOperations, miniapp |-> MiniAppOperations]

Fronts == DOMAIN Operations

ASSUME AccessAssumption ==
    /\ {AdminCacheTTL, EmployeeWindow} \subseteq Nat \ {0} /\ {Latency, MiniAppSession} \subseteq Nat
    /\ {MaxNow, MaxChanges, MaxRestarts} \subseteq Nat
    /\ Configured \subseteq SUBSET People
    /\ \A t \in Tasks : t[1] \in People /\ t[3] \in Operations[t[2]]
    /\ AdminFronts \subseteq {"command", "dashboard"}

Stages == {"authorize", "fetch", "store", "gate", "act"}

Answer == [user : Groups \X People, has : BOOLEAN]

Request == [who : People, front : Fronts, op : UNION {Operations[f] : f \in Fronts},
            scope : Scopes \cup {NoChat}, ch : Channels, stage : Stages, start : Nat,
            crossed : BOOLEAN, got : SUBSET People, answer : Answer \cup {Silent}]

CacheEntry == [admins : SUBSET People, fetched : Nat]

ASSUME AccessSentinels ==
    /\ Absent \notin CacheEntry /\ Idle \notin Request /\ Silent \notin Answer
    /\ NoChat \notin Scopes

VARIABLES
    now,
    admins,      \* at Telegram: does the person administer the group?
    adminSince,  \* when that last changed for a person in a chat
    employees,   \* what the access checker's source says
    employeeSince,
    changes,
    privileged,  \* the owner and the allowlist the process was launched with
    adminCache,  \* HybridAuthorizer.adminCache
    signedIn,    \* who may still hold a cookie of the dashboard
    session,     \* expiry of the latest Mini App token each person holds
    managers,    \* Managers of each protected channel
    control,     \* its control chats (commandChannels), none if it is not protected
    info,        \* commandChannelIDs of the entries of d.channels
    pending,     \* chats with an unanswered /add (addChannelHandlers)
    request,
    restarts

vars == <<now, admins, adminSince, employees, employeeSince, changes, privileged, adminCache,
          signedIn, session, managers, control, info, pending, request, restarts>>
world == <<admins, adminSince, employees, employeeSince, changes>>
tokens == <<signedIn, session>>
registry == <<managers, control, info, pending>>

\* How old an answer of the authorizer may be.
Window == AdminCacheTTL + Latency

Contract == INSTANCE AccessVerdicts WITH
    Users   <- Groups \X People,
    Callers <- Requests,
    truth   <- admins,
    changed <- adminSince,
    said    <- [r \in Requests |-> IF request[r] = Idle THEN Silent ELSE request[r].answer]

-----------------------------------------------------------------------------
NoSession == -1

\* A value that is v, or was until a change at t or later.
Lately(holds, since, t) == holds \/ since >= t

WasAdmin(p, chat, t) ==
    chat \in Groups /\ Lately(admins[<<chat, p>>], adminSince[<<chat, p>>], t)

WasEmployee(p, t) == Lately(p \in employees, employeeSince[p], t)

At(r, s) == request[r] # Idle /\ request[r].stage = s

GoTo(r, s) == request' = [request EXCEPT ![r].stage = s]

End(r) == request' = [request EXCEPT ![r] = Idle]

Privileged(r) == request[r].who \in privileged

Protected(c) == control[c] # {}

Init ==
    /\ now = 0
    /\ admins = [x \in Groups \X People |-> TRUE]
    /\ adminSince = [x \in Groups \X People |-> Contract!Never]
    /\ employees = People
    /\ employeeSince = [p \in People |-> Contract!Never]
    /\ changes = 0
    /\ privileged \in Configured
    /\ adminCache = [s \in Groups |-> Absent]
    /\ signedIn = {}
    /\ session = [p \in People |-> NoSession]
    /\ managers = [c \in Channels |-> {}]
    /\ control = [c \in Channels |-> {}]
    /\ info = [c \in Channels |-> {}]
    /\ pending = {}
    /\ request = [r \in Requests |-> Idle]
    /\ restarts = 0

-----------------------------------------------------------------------------
(* Sessions. *)

\* handleMiniAppAuth: the access checker answers now, as recently as it can.
SignIn(p) ==
    /\ WasEmployee(p, now - EmployeeWindow + 1)
    /\ session' = [session EXCEPT ![p] = now + MiniAppSession]
    /\ UNCHANGED <<now, world, privileged, adminCache, signedIn, registry, request, restarts>>

\* handleLogin authorizes without a chat: the owner and the allowlist only.
Login(p) ==
    /\ p \in privileged
    /\ signedIn' = signedIn \cup {p}
    /\ UNCHANGED <<now, world, privileged, adminCache, session, registry, request, restarts>>

\* A cookie expires some time.
Expire(p) ==
    /\ p \in signedIn
    /\ signedIn' = signedIn \ {p}
    /\ UNCHANGED <<now, world, privileged, adminCache, session, registry, request, restarts>>

\* Mutant: nobody looks at the expiry.
ValidSessionForever(p) == session[p] # NoSession

\* validateSessionToken: a token is good up to and including its expiry.
ValidSession(p) == now <= session[p]

-----------------------------------------------------------------------------
(* A request. *)

Begin(r, p, front, op, scope, c, stage) ==
    /\ request[r] = Idle
    /\ <<p, front, op>> \in Tasks
    /\ request' = [request EXCEPT ![r] =
                     [who |-> p, front |-> front, op |-> op, scope |-> scope, ch |-> c,
                      stage |-> stage, start |-> now, crossed |-> FALSE, got |-> {}, answer |-> Silent]]
    /\ UNCHANGED <<now, world, privileged, adminCache, tokens, registry, restarts>>

\* WithNotAsyncHandlers: the bot takes one update at a time.
BotIsFree == \A r \in Requests : request[r] # Idle => request[r].front \notin {"command", "private"}

\* A command or a button in a control chat.
Command(r, p, op, chat, c) ==
    /\ BotIsFree
    /\ Begin(r, p, "command", op, chat, c, "authorize")

\* requireAuthOrPrivateEmployee: /add and the share that answers it, in private.
PrivateAdd(r, p, op, c, employee) ==
    /\ BotIsFree
    /\ employee => WasEmployee(p, now - EmployeeWindow + 1)
    /\ Begin(r, p, "private", op, p, c, IF employee THEN "gate" ELSE "authorize")

\* requireAuth of the web server; the scope is the ?chat= of the URL, if any.
Dashboard(r, p, op, scope, c) ==
    /\ p \in signedIn
    /\ Begin(r, p, "dashboard", op, scope, c, "authorize")

\* requireSession, then AuthorizeChannel.
MiniApp(r, p, op, c) ==
    /\ ValidSession(p)
    /\ Begin(r, p, "miniapp", op, c, c, "authorize")

\* authorizeIDs and AuthorizeChannel ask Telegram for this chat, or deny.
AsksAdmins(r) ==
    /\ ~Privileged(r)
    /\ request[r].scope # NoChat
    /\ request[r].front # "miniapp" =>
           request[r].front \in AdminFronts \/ (request[r].front = "private" /\ "command" \in AdminFronts)

\* The HybridAuthorizer.  A bot that was given none asks nobody (allowAllAuthorizer).
Authorize(r) ==
    /\ At(r, "authorize")
    /\ ~AsksAdmins(r)
    /\ IF Privileged(r) THEN GoTo(r, "gate") ELSE End(r)
    /\ UNCHANGED <<now, world, privileged, adminCache, tokens, registry, restarts>>

\* Mutant: an entry never grows old.
UsableForever(s) == s \in Groups /\ adminCache[s] # Absent

Usable(s) == s \in Groups /\ adminCache[s] # Absent /\ now - adminCache[s].fetched < AdminCacheTTL

\* isChatAdmin, on the list the cache or Telegram gave.
Decided(r, list) ==
    request' = [request EXCEPT
        ![r].stage = "gate", ![r].got = {},
        ![r].answer = [user |-> <<request[r].scope, request[r].who>>, has |-> request[r].who \in list]]

CacheHit(r) ==
    /\ At(r, "authorize") /\ AsksAdmins(r)
    /\ Usable(request[r].scope)
    /\ Decided(r, adminCache[request[r].scope].admins)
    /\ UNCHANGED <<now, world, privileged, adminCache, tokens, registry, restarts>>

CacheMiss(r) ==
    /\ At(r, "authorize") /\ AsksAdmins(r)
    /\ ~Usable(request[r].scope)
    /\ GoTo(r, "fetch")
    /\ UNCHANGED <<now, world, privileged, adminCache, tokens, registry, restarts>>

\* GetChatAdministrators; private chats have none and the call fails.
Fetch(r) ==
    /\ At(r, "fetch")
    /\ request[r].scope \in Groups
    /\ request' = [request EXCEPT ![r].stage = "store",
                                  ![r].got = {p \in People : admins[<<request[r].scope, p>>]}]
    /\ UNCHANGED <<now, world, privileged, adminCache, tokens, registry, restarts>>

\* Mutant: nobody can tell who administers the chat, so everybody may go on.
FetchFailsOpen(r) ==
    /\ At(r, "fetch")
    /\ GoTo(r, "gate")
    /\ UNCHANGED <<now, world, privileged, adminCache, tokens, registry, restarts>>

\* isChatAdmin fails closed.
FetchFails(r) ==
    /\ At(r, "fetch")
    /\ End(r)
    /\ UNCHANGED <<now, world, privileged, adminCache, tokens, registry, restarts>>

\* The entry is dated by the moment it is stored.
Store(r) ==
    /\ At(r, "store")
    /\ adminCache' = [adminCache EXCEPT ![request[r].scope] =
                        [admins |-> request[r].got, fetched |-> now]]
    /\ Decided(r, request[r].got)
    /\ UNCHANGED <<now, world, privileged, tokens, registry, restarts>>

Refused(r) == request[r].answer # Silent /\ ~request[r].answer.has

\* Mutant: any channel may be named in any control chat.
LinkedAnyway(r) == TRUE

\* isChannelLinkedToControlChat
Linked(r) == request[r].scope \in control[request[r].ch]

\* requireLinkedChannel; /rmconfirm, /scan and /clean buttons ask the same.
\* A share must answer an /add of its own chat.
CommandPasses(r) ==
    /\ request[r].op \in {"manage", "remove"} => Linked(r)
    /\ request[r].op = "share" => request[r].scope \in pending

\* handleChannelByPath reads the cache entry, RemoveChannel the control chats.
DashboardPasses(r) ==
    /\ request[r].op # "create" /\ request[r].scope # NoChat => request[r].scope \in info[request[r].ch]
    /\ request[r].op = "remove" => request[r].scope # NoChat /\ Linked(r)

Joined(r) == Privileged(r) \/ request[r].who \in managers[request[r].ch]

\* handleMiniAppChannel, ConnectChat
MiniAppPasses(r) ==
    /\ request[r].op = "manage" => Joined(r)
    /\ request[r].op = "connect" => ~Protected(request[r].ch)

\* What each side asks on top of the authorizer's answer.
Passes(r) ==
    CASE request[r].front = "dashboard" -> DashboardPasses(r)
      [] request[r].front = "miniapp"   -> MiniAppPasses(r)
      [] OTHER                          -> CommandPasses(r)

Gate(r) ==
    /\ At(r, "gate")
    /\ IF ~Refused(r) /\ Passes(r) THEN GoTo(r, "act") ELSE End(r)
    /\ UNCHANGED <<now, world, privileged, adminCache, tokens, registry, restarts>>

-----------------------------------------------------------------------------
(* What the operations do to what later requests are judged by. *)

\* Mutant: protecting a chat again starts its managers over.
MergedAfresh(c, added) == added

\* mergeProtectedChannel
Merged(c, added) == managers[c] \cup added

Protect(c, chat, added) ==
    /\ managers' = [managers EXCEPT ![c] = Merged(c, added)]
    /\ control' = [control EXCEPT ![c] = @ \cup {chat}]
    /\ info' = [info EXCEPT ![c] = control[c] \cup {chat}]

\* AddChannelHandler issues request ids; AddChannelCallbackHandler uses one up.
AddHandler(r) ==
    /\ At(r, "act") /\ request[r].op = "add"
    /\ pending' = pending \cup {request[r].scope}
    /\ End(r)
    /\ UNCHANGED <<now, world, privileged, adminCache, tokens, managers, control,
                   info, restarts>>

AddCallback(r, last) ==
    /\ At(r, "act") /\ request[r].op = "share"
    /\ Protect(request[r].ch, request[r].scope, {request[r].who})
    /\ pending' = IF last THEN pending \ {request[r].scope} ELSE pending
    /\ End(r)
    /\ UNCHANGED <<now, world, privileged, adminCache, tokens, restarts>>

\* POST /api/channels names its control chat in the body and adds no manager.
AddChannel(r, chat) ==
    /\ At(r, "act") /\ request[r].op = "create"
    /\ Protect(request[r].ch, chat, {})
    /\ End(r)
    /\ UNCHANGED <<now, world, privileged, adminCache, tokens, pending, restarts>>

ConnectChat(r) ==
    /\ At(r, "act") /\ request[r].op = "connect"
    /\ Protect(request[r].ch, request[r].who, {request[r].who})
    /\ End(r)
    /\ UNCHANGED <<now, world, privileged, adminCache, tokens, pending, restarts>>

JoinChannel(r) ==
    /\ At(r, "act") /\ request[r].op = "join"
    /\ managers' = [managers EXCEPT ![request[r].ch] =
                      IF Protected(request[r].ch) THEN @ \cup {request[r].who} ELSE @]
    /\ End(r)
    /\ UNCHANGED <<now, world, privileged, adminCache, tokens, control,
                   info, pending, restarts>>

\* Mutant: the record of a detached channel is not deleted.
ManagersStay(c, rest) == managers[c]

\* The record goes with the last control chat, and the managers with it.
ManagersLeft(c, rest) == IF rest = {} THEN {} ELSE managers[c]

\* CleanProtectedChannel, whose steps ChannelRegistry has; the cache entry keeps the
\* chat unless it is swapped out of the slice both share.
RemoveChannel(r, swapped) ==
    /\ At(r, "act") /\ request[r].op = "remove"
    /\ LET c    == request[r].ch
           k    == request[r].scope
           rest == control[c] \ {k}
       IN  /\ swapped => k \in control[c] /\ rest # {}
           /\ control' = [control EXCEPT ![c] = rest]
           /\ managers' = [managers EXCEPT ![c] = ManagersLeft(c, rest)]
           /\ info' = [info EXCEPT ![c] = IF swapped THEN @ \ {k} ELSE @]
           /\ request' = [q \in Requests |->
                            CASE q = r -> Idle
                              [] request[q] # Idle /\ request[q].ch = c /\ k \in control[c]
                                    -> [request[q] EXCEPT !.crossed = TRUE]
                              [] OTHER -> request[q]]
    /\ UNCHANGED <<now, world, privileged, adminCache, tokens, pending, restarts>>

\* Settings, flags, scans, kicks, the whitelist: other modules' actions.
Manage(r) ==
    /\ At(r, "act") /\ request[r].op = "manage"
    /\ End(r)
    /\ UNCHANGED <<now, world, privileged, adminCache, tokens, registry, restarts>>

-----------------------------------------------------------------------------
(* The world, the clock and the process. *)

\* Telegram promotes or demotes somebody.
ChangeAdmin(s, p) ==
    /\ changes < MaxChanges
    /\ admins' = [admins EXCEPT ![<<s, p>>] = ~@]
    /\ adminSince' = [adminSince EXCEPT ![<<s, p>>] = now]
    /\ changes' = changes + 1
    /\ UNCHANGED <<now, employees, employeeSince, privileged, adminCache, tokens,
                   registry, request, restarts>>

\* Somebody joins or leaves the company.
ChangeEmployee(p) ==
    /\ changes < MaxChanges
    /\ employees' = IF p \in employees THEN employees \ {p} ELSE employees \cup {p}
    /\ employeeSince' = [employeeSince EXCEPT ![p] = now]
    /\ changes' = changes + 1
    /\ UNCHANGED <<now, admins, adminSince, privileged, adminCache, tokens,
                   registry, request, restarts>>

Tick ==
    /\ now < MaxNow
    /\ \A r \in Requests : request[r] # Idle => now < request[r].start + Latency
    /\ now' = now + 1
    /\ UNCHANGED <<world, privileged, adminCache, tokens, registry, request, restarts>>

\* A launch reads the configuration again; tokens are signed and survive, the
\* cache, the unanswered /add and the requests do not, and the cache of channels
\* is made from the records.
Restart(config) ==
    /\ restarts < MaxRestarts
    /\ restarts' = restarts + 1
    /\ privileged' = config
    /\ adminCache' = [s \in Groups |-> Absent]
    /\ info' = control
    /\ pending' = {}
    /\ request' = [r \in Requests |-> Idle]
    /\ UNCHANGED <<now, world, tokens, managers, control>>

Arrive(r) ==
    \E t \in Tasks, c \in Channels :
        \/ \E k \in Chats : Command(r, t[1], t[3], k, c)
        \/ \E e \in BOOLEAN : PrivateAdd(r, t[1], t[3], c, e)
        \/ \E k \in Chats \cup {NoChat} : Dashboard(r, t[1], t[3], k, c)
        \/ MiniApp(r, t[1], t[3], c)

Act(r) ==
    \/ AddHandler(r)
    \/ \E last \in BOOLEAN : AddCallback(r, last)
    \/ \E k \in Chats : AddChannel(r, k)
    \/ ConnectChat(r)
    \/ JoinChannel(r)
    \/ \E swapped \in BOOLEAN : RemoveChannel(r, swapped)
    \/ Manage(r)

Next ==
    \/ Tick
    \/ \E p \in People : \/ SignIn(p) \/ Login(p) \/ Expire(p) \/ ChangeEmployee(p)
                         \/ \E s \in Groups : ChangeAdmin(s, p)
    \/ \E r \in Requests : \/ Arrive(r)
                           \/ Authorize(r) \/ CacheHit(r) \/ CacheMiss(r)
                           \/ Fetch(r) \/ FetchFails(r) \/ Store(r) \/ Gate(r)
                           \/ Act(r)
    \/ \E config \in Configured : Restart(config)

Spec == Init /\ [][Next]_vars
-----------------------------------------------------------------------------
TypeOK ==
    /\ now \in 0..MaxNow /\ changes \in 0..MaxChanges /\ restarts \in 0..MaxRestarts
    /\ admins \in [Groups \X People -> BOOLEAN]
    /\ adminSince \in [Groups \X People -> Int]
    /\ employees \subseteq People /\ employeeSince \in [People -> Int]
    /\ privileged \in Configured
    /\ adminCache \in [Groups -> CacheEntry \cup {Absent}]
    /\ signedIn \subseteq People /\ session \in [People -> Nat \cup {NoSession}]
    /\ managers \in [Channels -> SUBSET People]
    /\ \A c \in Channels : Protected(c) \/ managers[c] = {}
    /\ control \in [Channels -> SUBSET (People \cup Chats)]
    /\ info \in [Channels -> SUBSET (People \cup Chats)]
    /\ pending \subseteq People \cup Chats
    /\ request \in [Requests -> Request \cup {Idle}]

\* HybridAuthorizer keeps the contract of every cache of verdicts here: what it
\* says of an administrator was so at Telegram less than AdminCacheTTL plus a
\* request ago, whatever requests fill and read the cache in between.
AdminAnswersAreRecent == Contract!Spec

\* Nobody acts but the owner, the allowlist, an administrator of the chat the
\* request is for, or in private an employee; a right lost is felt after the
\* cached list, the request that fetched it and the request itself.
ActsAreEntitled ==
    \A r \in Requests : At(r, "act") =>
        LET q == request[r]
        IN  \/ Privileged(r)
            \/ q.front = "private" /\ WasEmployee(q.who, now - (EmployeeWindow + Latency) + 1)
            \/ WasAdmin(q.who, q.scope, now - (Window + Latency) + 1)

\* Who leaves the company loses the Mini App when the session ends (server.go),
\* although nothing ends the session and no request asks again.
LeaverLosesTheApp ==
    \A r \in Requests : At(r, "act") /\ request[r].front = "miniapp" =>
        WasEmployee(request[r].who, now - (MiniAppSession + EmployeeWindow + Latency))

\* A command acts on a channel, and either front removes one, only from a chat
\* that controls it: buttons outlive the control and the cache entry keeps chats
\* that lost the channel, but only a removal during the request gets through.
OnlyControlChatsAct ==
    \A r \in Requests :
        /\ At(r, "act")
        /\ request[r].op = "remove" \/ (request[r].front = "command" /\ request[r].op = "manage")
        => request[r].scope \in control[request[r].ch] \/ request[r].crossed

\* Two who connect one chat at once, an /add beside a connect, a join beside a
\* removal: as long as the channel stays protected nobody loses its management.
ManagersAreKept ==
    [][\A c \in Channels : Protected(c)' => managers[c] \subseteq managers'[c]]_vars
=============================================================================
