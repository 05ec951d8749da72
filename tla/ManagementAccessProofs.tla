------------------------ MODULE ManagementAccessProofs ------------------------
(***************************************************************************)
(* Who gets to act, for any number of people, chats, channels and requests *)
(* and any interleaving of them, which the run checks in slices only.      *)
(***************************************************************************)
EXTENDS ManagementAccess, TLAPS

\* Where a request may come from.
Fits ==
    \A r \in Requests : request[r] # Idle =>
        LET q == request[r]
        IN  /\ q.op \in Operations[q.front]
            /\ q.front = "command" => q.scope \in Chats
            /\ q.front = "private" => q.scope \in People
            /\ q.front = "dashboard" => q.scope \in Chats \cup {NoChat}
            /\ q.front = "miniapp" => q.scope \in Channels
            /\ q.stage = "store" => q.scope \in Groups

\* A request ends in time.
Timely ==
    \A r \in Requests : request[r] # Idle =>
        request[r].start <= now /\ now <= request[r].start + Latency

\* A cached list was right when the request that stored it began, or later.
CacheRecent ==
    \A s \in Groups, p \in People : adminCache[s] # Absent =>
        /\ adminCache[s].fetched <= now
        /\ Contract!Held(<<s, p>>, p \in adminCache[s].admins, adminCache[s].fetched - Latency)

GotRecent ==
    \A r \in Requests, p \in People : At(r, "store") =>
        Contract!Held(<<request[r].scope, p>>, p \in request[r].got, request[r].start)

\* An answer is about the person and the chat of the request.
AnswerRecent ==
    \A r \in Requests : request[r] # Idle /\ request[r].answer # Silent =>
        LET q == request[r]
        IN  /\ q.answer.user = <<q.scope, q.who>> /\ q.stage \in {"gate", "act"}
            /\ Contract!Held(q.answer.user, q.answer.has, q.start - Window + 1)

\* What lets a request through the authorizer, and through its gate.
Entitled ==
    \A r \in Requests : At(r, "gate") \/ At(r, "act") =>
        /\ \/ Privileged(r)
           \/ request[r].front = "private" /\ WasEmployee(request[r].who, request[r].start - EmployeeWindow + 1)
           \/ request[r].answer # Silent
        /\ At(r, "act") => ~Refused(r)

SessionRecent ==
    \A p \in People : session[p] # NoSession =>
        /\ session[p] <= now + MiniAppSession
        /\ WasEmployee(p, session[p] - MiniAppSession - EmployeeWindow)

AppRecent ==
    \A r \in Requests : request[r] # Idle /\ request[r].front = "miniapp" =>
        WasEmployee(request[r].who, request[r].start - MiniAppSession - EmployeeWindow)

Recent == CacheRecent /\ GotRecent /\ AnswerRecent /\ SessionRecent /\ AppRecent

IInv == TypeOK /\ Fits /\ Timely /\ Recent /\ Entitled /\ OnlyControlChatsAct

-----------------------------------------------------------------------------
\* Whose and what a request is does not change; who was crossed stays so.
SameTask(r) ==
    LET p == request[r]
        q == request'[r]
    IN  /\ q.who = p.who /\ q.front = p.front /\ q.op = p.op
        /\ q.scope = p.scope /\ q.ch = p.ch /\ q.start = p.start
        /\ p.crossed => q.crossed

Stays(r) ==
    LET p == request[r]
        q == request'[r]
    IN  q.stage = p.stage /\ q.got = p.got /\ q.answer = p.answer

Moves(r) == Authorize(r) \/ CacheHit(r) \/ CacheMiss(r) \/ Fetch(r) \/ Store(r) \/ Gate(r)

LEMMA InitIInv == Init => IInv
<1> SUFFICES ASSUME Init PROVE IInv
  OBVIOUS
<1>1. TypeOK
  BY AccessAssumption, AccessSentinels DEF Init, TypeOK, Protected, NoSession, Contract!Never, Window
<1>2. Fits /\ Timely /\ Entitled /\ OnlyControlChatsAct
  BY DEF Init, Fits, Timely, Entitled, OnlyControlChatsAct, At
<1>3. Recent
  BY DEF Init, Recent, CacheRecent, GotRecent, AnswerRecent, SessionRecent, AppRecent, At
<1>4. QED
  BY <1>1, <1>2, <1>3 DEF IInv

\* Every way a request that is still there after a step can have got there.
LEMMA StepOfRequest ==
    ASSUME TypeOK, [Next]_vars, NEW r \in Requests, request'[r] # Idle
    PROVE  \/ request[r] = Idle /\ Arrive(r)
           \/ request[r] # Idle /\ SameTask(r) /\ (Stays(r) \/ Moves(r))
<1> USE DEF SameTask, Stays
<1>1. request \in [Requests -> Request \cup {Idle}]
  BY DEF TypeOK
<1>2. ASSUME UNCHANGED request
      PROVE  request[r] # Idle /\ SameTask(r) /\ Stays(r)
  BY <1>2
<1>3. CASE Tick
  BY <1>2, <1>3 DEF Tick
<1>4. ASSUME NEW p \in People, SignIn(p) \/ Login(p) \/ Expire(p) \/ ChangeEmployee(p)
      PROVE  request[r] # Idle /\ SameTask(r) /\ Stays(r)
  BY <1>2, <1>4 DEF SignIn, Login, Expire, ChangeEmployee
<1>5. ASSUME NEW p \in People, NEW s \in Groups, ChangeAdmin(s, p)
      PROVE  request[r] # Idle /\ SameTask(r) /\ Stays(r)
  BY <1>2, <1>5 DEF ChangeAdmin
<1>6. ASSUME NEW q \in Requests, Arrive(q)
      PROVE  \/ request[r] = Idle /\ Arrive(r)
             \/ request[r] # Idle /\ SameTask(r) /\ Stays(r)
  <2>1. CASE q = r
    <3>1. request[r] = Idle
      BY <1>6, <2>1 DEF Arrive, Command, PrivateAdd, Dashboard, MiniApp, Begin
    <3>2. QED
      BY <1>6, <2>1, <3>1
  <2>2. CASE q # r
    BY <1>1, <1>6, <2>2 DEF Arrive, Command, PrivateAdd, Dashboard, MiniApp, Begin
  <2>3. QED
    BY <2>1, <2>2
<1>7. ASSUME NEW q \in Requests, Moves(q) \/ FetchFails(q)
      PROVE  request[r] # Idle /\ SameTask(r) /\ (Stays(r) \/ Moves(r))
  <2>1. CASE q = r
    <3>1. CASE Moves(q)
      <4>1. request[r] # Idle
        BY <2>1, <3>1 DEF Moves, Authorize, CacheHit, CacheMiss, Fetch, Store, Gate, At
      <4>2. request[r] \in Request
        BY <1>1, <4>1
      <4>3. SameTask(r)
        BY <1>1, <2>1, <3>1, <4>2
           DEF Moves, Authorize, CacheHit, CacheMiss, Fetch, Store, Gate, GoTo, End, Decided, Request
      <4>4. QED
        BY <2>1, <3>1, <4>1, <4>3
    <3>2. CASE FetchFails(q)
      BY <1>1, <2>1, <3>2 DEF FetchFails, End
    <3>3. QED
      BY <1>7, <3>1, <3>2
  <2>2. CASE q # r
    BY <1>1, <1>7, <2>2
       DEF Moves, Authorize, CacheHit, CacheMiss, Fetch, Store, Gate, FetchFails, At, GoTo, End, Decided
  <2>3. QED
    BY <2>1, <2>2
<1>8. ASSUME NEW q \in Requests, Act(q)
      PROVE  request[r] # Idle /\ SameTask(r) /\ Stays(r)
  <2>1. CASE \E swapped \in BOOLEAN : RemoveChannel(q, swapped)
    BY <1>1, <2>1, AccessSentinels DEF RemoveChannel, Request
  <2>2. CASE End(q)
    BY <1>1, <2>2 DEF End
  <2>3. QED
    BY <1>8, <2>1, <2>2 DEF Act, AddHandler, AddCallback, AddChannel, ConnectChat, JoinChannel, Manage
<1>9. ASSUME NEW config \in Configured, Restart(config) PROVE FALSE
  BY <1>9 DEF Restart
<1>10. CASE UNCHANGED vars
  BY <1>2, <1>10 DEF vars
<1>11. QED
  BY <1>3, <1>4, <1>5, <1>6, <1>7, <1>8, <1>9, <1>10 DEF Next, Moves

\* The world is changed by nobody in the program.
LEMMA Frame ==
    ASSUME [Next]_vars
    PROVE  \/ Tick
           \/ \E p \in People : ChangeEmployee(p) \/ \E s \in Groups : ChangeAdmin(s, p)
           \/ UNCHANGED <<now, world>>
<1> USE DEF world
<1>1. ASSUME NEW p \in People, SignIn(p) \/ Login(p) \/ Expire(p) PROVE UNCHANGED <<now, world>>
  BY <1>1 DEF SignIn, Login, Expire
<1>2. ASSUME NEW r \in Requests, Arrive(r) PROVE UNCHANGED <<now, world>>
  BY <1>2 DEF Arrive, Command, PrivateAdd, Dashboard, MiniApp, Begin
<1>3. ASSUME NEW r \in Requests, Moves(r) \/ FetchFails(r) PROVE UNCHANGED <<now, world>>
  BY <1>3 DEF Moves, Authorize, CacheHit, CacheMiss, Fetch, FetchFails, Store, Gate
<1>4. ASSUME NEW r \in Requests, Act(r) PROVE UNCHANGED <<now, world>>
  BY <1>4 DEF Act, AddHandler, AddCallback, AddChannel, ConnectChat, JoinChannel, RemoveChannel, Manage
<1>5. ASSUME NEW config \in Configured, Restart(config) PROVE UNCHANGED <<now, world>>
  BY <1>5 DEF Restart
<1>6. CASE UNCHANGED vars
  BY <1>6 DEF vars
<1>7. QED
  BY <1>1, <1>2, <1>3, <1>4, <1>5, <1>6 DEF Next, Moves

\* What was held at t goes on being held since t.
LEMMA HeldLasts ==
    ASSUME TypeOK, [Next]_vars, NEW u \in Groups \X People, NEW v \in BOOLEAN, NEW t \in Int,
           t <= now, Contract!Held(u, v, t)
    PROVE  admins'[u] = v \/ adminSince'[u] >= t
<1>1. CASE UNCHANGED <<admins, adminSince>>
  BY <1>1 DEF Contract!Held
<1>2. ASSUME NEW p \in People, NEW s \in Groups, ChangeAdmin(s, p)
      PROVE  admins'[u] = v \/ adminSince'[u] >= t
  BY <1>2 DEF Contract!Held, ChangeAdmin, TypeOK
<1>3. QED
  BY <1>1, <1>2, Frame DEF world, Tick, ChangeEmployee

LEMMA ListLasts ==
    ASSUME TypeOK, [Next]_vars, NEW s \in Groups, NEW p \in People, NEW list, NEW t \in Int,
           t <= now, Contract!Held(<<s, p>>, p \in list, t)
    PROVE  \/ admins'[<<s, p>>] = (p \in list)
           \/ adminSince'[<<s, p>>] >= t
<1>1. CASE UNCHANGED <<admins, adminSince>>
  BY <1>1 DEF Contract!Held
<1>2. ASSUME NEW q \in People, NEW c \in Groups, ChangeAdmin(c, q)
      PROVE  \/ admins'[<<s, p>>] = (p \in list)
             \/ adminSince'[<<s, p>>] >= t
  <2>1. CASE <<s, p>> = <<c, q>>
    BY <1>2, <2>1 DEF ChangeAdmin, TypeOK
  <2>2. CASE <<s, p>> # <<c, q>>
    <3>1. admins'[<<s, p>>] = admins[<<s, p>>] /\ adminSince'[<<s, p>>] = adminSince[<<s, p>>]
      BY <1>2, <2>2 DEF ChangeAdmin, TypeOK
    <3>2. QED
      BY <3>1 DEF Contract!Held
  <2>3. QED
    BY <2>1, <2>2
<1>3. QED
  BY <1>1, <1>2, Frame DEF world, Tick, ChangeEmployee

LEMMA EmployeeLasts ==
    ASSUME TypeOK, [Next]_vars, NEW p \in People, NEW t \in Int, t <= now, WasEmployee(p, t)
    PROVE  WasEmployee(p, t)'
<1> USE DEF WasEmployee, Lately
<1>1. CASE UNCHANGED <<employees, employeeSince>>
  BY <1>1
<1>2. ASSUME NEW q \in People, ChangeEmployee(q) PROVE WasEmployee(p, t)'
  BY <1>2 DEF ChangeEmployee, TypeOK
<1>3. QED
  BY <1>1, <1>2, Frame DEF world, Tick, ChangeAdmin

\* The clock moves only when no request is over its time.
LEMMA ClockSteps ==
    ASSUME [Next]_vars
    PROVE  \/ now' = now
           \/ /\ now' = now + 1 /\ UNCHANGED <<session, adminCache, request>>
              /\ \A r \in Requests : request[r] # Idle => now < request[r].start + Latency
BY Frame DEF Tick, tokens, world, ChangeEmployee, ChangeAdmin

LEMMA HeldEarlier ==
    ASSUME TypeOK, NEW u \in Groups \X People, NEW v, NEW s \in Int, NEW t \in Int, t <= s,
           Contract!Held(u, v, s)
    PROVE  Contract!Held(u, v, t)
BY DEF TypeOK, Contract!Held

-----------------------------------------------------------------------------
(* Types. *)

\* A request comes with the type it will keep.
LEMMA ArrivalType ==
    ASSUME TypeOK, NEW r \in Requests, Arrive(r)
    PROVE  /\ request' \in [Requests -> Request \cup {Idle}]
           /\ UNCHANGED <<now, world, privileged, adminCache, tokens, registry, restarts>>
<1>1. PICK t \in Tasks, c \in Channels :
        \/ \E k \in Chats : Command(r, t[1], t[3], k, c)
        \/ \E e \in BOOLEAN : PrivateAdd(r, t[1], t[3], c, e)
        \/ \E k \in Chats \cup {NoChat} : Dashboard(r, t[1], t[3], k, c)
        \/ MiniApp(r, t[1], t[3], c)
  BY DEF Arrive
<1>2. PICK front \in Fronts, scope \in Scopes \cup {NoChat}, stage \in {"authorize", "gate"} :
        Begin(r, t[1], front, t[3], scope, c, stage)
  <2>1. t[1] \in People
    BY AccessAssumption
  <2>2. {"command", "private", "dashboard", "miniapp"} = Fronts
    BY DEF Fronts, Operations
  <2>3. QED
    BY <1>1, <2>1, <2>2 DEF Command, PrivateAdd, Dashboard, MiniApp, Scopes, Groups
<1>3. t[1] \in People /\ t[3] \in UNION {Operations[f] : f \in Fronts}
  <2>1. <<t[1], front, t[3]>> \in Tasks
    BY <1>2 DEF Begin
  <2>2. <<t[1], front, t[3]>>[3] \in Operations[<<t[1], front, t[3]>>[2]] /\ <<t[1], front, t[3]>>[1] \in People
    BY <2>1, AccessAssumption
  <2>3. QED
    BY <2>2
<1>4. [who |-> t[1], front |-> front, op |-> t[3], scope |-> scope, ch |-> c,
       stage |-> stage, start |-> now, crossed |-> FALSE, got |-> {}, answer |-> Silent] \in Request
  BY <1>3 DEF Request, Stages, TypeOK
<1>5. request' \in [Requests -> Request \cup {Idle}]
  BY <1>2, <1>4 DEF Begin, TypeOK
<1>6. QED
  BY <1>2, <1>5 DEF Begin

LEMMA MoveType ==
    ASSUME TypeOK, Fits, NEW r \in Requests, Moves(r) \/ FetchFails(r)
    PROVE  /\ request' \in [Requests -> Request \cup {Idle}]
           /\ adminCache' \in [Groups -> CacheEntry \cup {Absent}]
           /\ UNCHANGED <<now, world, privileged, tokens, registry, restarts>>
<1>1. request[r] \in Request /\ request \in [Requests -> Request \cup {Idle}]
      /\ adminCache \in [Groups -> CacheEntry \cup {Absent}] /\ now \in Nat
  BY DEF TypeOK, Moves, Authorize, CacheHit, CacheMiss, Fetch, Store, Gate, FetchFails, At
<1>2. ASSUME NEW s \in Stages, GoTo(r, s) PROVE request' \in [Requests -> Request \cup {Idle}]
  BY <1>1, <1>2 DEF GoTo, Request
<1>3. ASSUME End(r) PROVE request' \in [Requests -> Request \cup {Idle}]
  BY <1>1, <1>3 DEF End
<1>4. ASSUME NEW list \in SUBSET People, request[r].scope \in Groups, Decided(r, list)
      PROVE  request' \in [Requests -> Request \cup {Idle}]
  <2>1. [user |-> <<request[r].scope, request[r].who>>, has |-> request[r].who \in list] \in Answer
    BY <1>1, <1>4 DEF Answer, Request
  <2>2. QED
    BY <1>1, <1>4, <2>1 DEF Decided, Request, Stages
<1>5. CASE Authorize(r) \/ CacheMiss(r) \/ Gate(r) \/ FetchFails(r)
  BY <1>1, <1>2, <1>3, <1>5 DEF Authorize, CacheMiss, Gate, FetchFails, Stages
<1>6. CASE CacheHit(r)
  <2>1. request[r].scope \in Groups /\ adminCache[request[r].scope].admins \in SUBSET People
    BY <1>1, <1>6 DEF CacheHit, Usable, CacheEntry
  <2>2. QED
    BY <1>1, <1>4, <1>6, <2>1 DEF CacheHit
<1>7. CASE Fetch(r)
  BY <1>1, <1>7 DEF Fetch, Request, Stages
<1>8. CASE Store(r)
  <2>1. request[r].scope \in Groups /\ request[r].got \in SUBSET People
    BY <1>1, <1>8 DEF Store, Fits, At, Request
  <2>2. adminCache' \in [Groups -> CacheEntry \cup {Absent}]
    BY <1>1, <1>8, <2>1 DEF Store, CacheEntry
  <2>3. QED
    BY <1>4, <1>8, <2>1, <2>2 DEF Store
<1>9. QED
  BY <1>5, <1>6, <1>7, <1>8 DEF Moves

LEMMA ActType ==
    ASSUME TypeOK, Fits, NEW r \in Requests, Act(r)
    PROVE  TypeOK'
<1>1. request[r] \in Request /\ request \in [Requests -> Request \cup {Idle}]
  BY DEF TypeOK, Act, AddHandler, AddCallback, AddChannel, ConnectChat, JoinChannel, RemoveChannel,
         Manage, At
<1>2. request[r].ch \in Channels /\ request[r].who \in People
  BY <1>1 DEF Request
<1>3. ASSUME End(r) PROVE request' \in [Requests -> Request \cup {Idle}]
  BY <1>1, <1>3 DEF End
<1>4. ASSUME request[r].op \in {"add", "share"}, request[r] # Idle
      PROVE  request[r].scope \in People \cup Chats
  BY <1>1, <1>4 DEF Fits, Operations, CommandOperations, DashboardOperations, MiniAppOperations, Request, Fronts
<1>5. ASSUME NEW c \in Channels, NEW chat \in People \cup Chats, NEW added \in SUBSET People,
             Protect(c, chat, added)
      PROVE  /\ managers' \in [Channels -> SUBSET People]
             /\ \A d \in Channels : Protected(d)' \/ managers'[d] = {}
             /\ control' \in [Channels -> SUBSET (People \cup Chats)]
             /\ info' \in [Channels -> SUBSET (People \cup Chats)]
  <2>1. Merged(c, added) \in SUBSET People
    BY DEF Merged, TypeOK
  <2>2. control[c] \cup {chat} \in SUBSET (People \cup Chats) /\ control[c] \cup {chat} # {}
    BY DEF TypeOK
  <2>3. QED
    BY <1>5, <2>1, <2>2 DEF Protect, TypeOK, Protected
<1>6. ASSUME AddHandler(r) PROVE TypeOK'
  BY <1>3, <1>4, <1>6 DEF AddHandler, TypeOK, Protected, world, tokens, At
<1>7. ASSUME NEW last \in BOOLEAN, AddCallback(r, last) PROVE TypeOK'
  <2>1. request[r].scope \in People \cup Chats
    BY <1>4, <1>7 DEF AddCallback, At
  <2>2. pending' \subseteq People \cup Chats
    BY <1>7 DEF AddCallback, TypeOK
  <2>3. QED
    BY <1>2, <1>3, <1>5, <1>7, <2>1, <2>2 DEF AddCallback, TypeOK, world, tokens
<1>8. ASSUME NEW k \in Chats, AddChannel(r, k) PROVE TypeOK'
  BY <1>2, <1>3, <1>5, <1>8 DEF AddChannel, TypeOK, world, tokens
<1>9. ASSUME ConnectChat(r) PROVE TypeOK'
  BY <1>2, <1>3, <1>5, <1>9 DEF ConnectChat, TypeOK, world, tokens
<1>10. ASSUME JoinChannel(r) PROVE TypeOK'
  <2>1. /\ managers' \in [Channels -> SUBSET People]
        /\ \A d \in Channels : Protected(d)' \/ managers'[d] = {}
    BY <1>2, <1>10 DEF JoinChannel, TypeOK, Protected
  <2>2. QED
    BY <1>3, <1>10, <2>1 DEF JoinChannel, TypeOK, world, tokens
<1>11. ASSUME NEW swapped \in BOOLEAN, RemoveChannel(r, swapped) PROVE TypeOK'
  <2> DEFINE c == request[r].ch
             k == request[r].scope
             rest == control[c] \ {k}
  <2>1. rest \in SUBSET (People \cup Chats)
    BY <1>2 DEF TypeOK
  <2>2. ManagersLeft(c, rest) \in SUBSET People /\ (rest = {} => ManagersLeft(c, rest) = {})
    BY <1>2 DEF TypeOK, ManagersLeft
  <2>3. ManagersLeft(c, rest) = {} \/ rest # {}
    BY <2>2
  <2>4. /\ control' = [control EXCEPT ![c] = rest]
        /\ managers' = [managers EXCEPT ![c] = ManagersLeft(c, rest)]
        /\ info' \in [Channels -> SUBSET (People \cup Chats)]
        /\ UNCHANGED <<now, world, privileged, adminCache, tokens, pending, restarts>>
    BY <1>2, <1>11 DEF RemoveChannel, TypeOK
  <2>5. ASSUME NEW q \in Requests PROVE request'[q] \in Request \cup {Idle}
    <3>1. request[q] \in Request => [request[q] EXCEPT !.crossed = TRUE] \in Request
      BY DEF Request
    <3>2. QED
      BY <1>1, <1>11, <3>1 DEF RemoveChannel
  <2>6. request' \in [Requests -> Request \cup {Idle}]
    BY <1>11, <2>5 DEF RemoveChannel
  <2> HIDE DEF rest
  <2>7. /\ managers' \in [Channels -> SUBSET People]
        /\ control' \in [Channels -> SUBSET (People \cup Chats)]
        /\ \A d \in Channels : control'[d] # {} \/ managers'[d] = {}
    BY <1>2, <2>1, <2>2, <2>3, <2>4 DEF TypeOK, Protected
  <2>8. QED
    BY <2>4, <2>6, <2>7 DEF TypeOK, Protected, world, tokens
<1>12. ASSUME Manage(r) PROVE TypeOK'
  BY <1>3, <1>12 DEF Manage, TypeOK, Protected, world, tokens, registry
<1>13. QED
  BY <1>6, <1>7, <1>8, <1>9, <1>10, <1>11, <1>12 DEF Act

LEMMA NextTypeOK ==
    ASSUME TypeOK, Fits, [Next]_vars
    PROVE  TypeOK'
<1> USE DEF world, tokens, registry
<1>1. CASE Tick
  <2>1. now' \in 0..MaxNow
    BY <1>1, AccessAssumption DEF Tick, TypeOK
  <2>2. QED
    BY <1>1, <2>1 DEF Tick, TypeOK, Protected
<1>2. ASSUME NEW p \in People, SignIn(p) \/ Login(p) \/ Expire(p) PROVE TypeOK'
  <2>1. signedIn' \subseteq People
    BY <1>2 DEF SignIn, Login, Expire, TypeOK
  <2>2. session' \in [People -> Nat \cup {NoSession}]
    BY <1>2, AccessAssumption DEF SignIn, Login, Expire, TypeOK
  <2>3. QED
    BY <1>2, <2>1, <2>2 DEF SignIn, Login, Expire, TypeOK, Protected
<1>3. ASSUME NEW p \in People, ChangeEmployee(p) PROVE TypeOK'
  <2>1. employees' \subseteq People /\ employeeSince' \in [People -> Int]
    BY <1>3 DEF ChangeEmployee, TypeOK
  <2>2. changes' \in 0..MaxChanges
    BY <1>3, AccessAssumption DEF ChangeEmployee, TypeOK
  <2>3. QED
    BY <1>3, <2>1, <2>2 DEF ChangeEmployee, TypeOK, Protected
<1>4. ASSUME NEW p \in People, NEW s \in Groups, ChangeAdmin(s, p) PROVE TypeOK'
  <2>1. admins' \in [Groups \X People -> BOOLEAN]
    BY <1>4 DEF ChangeAdmin, TypeOK
  <2>2. adminSince' \in [Groups \X People -> Int]
    BY <1>4 DEF ChangeAdmin, TypeOK
  <2>3. changes' \in 0..MaxChanges
    BY <1>4, AccessAssumption DEF ChangeAdmin, TypeOK
  <2>4. QED
    BY <1>4, <2>1, <2>2, <2>3 DEF ChangeAdmin, TypeOK, Protected
<1>5. ASSUME NEW r \in Requests, Arrive(r) PROVE TypeOK'
  BY <1>5, ArrivalType DEF TypeOK, Protected
<1>6. ASSUME NEW r \in Requests, Moves(r) \/ FetchFails(r) PROVE TypeOK'
  BY <1>6, MoveType DEF TypeOK, Protected
<1>7. ASSUME NEW r \in Requests, Act(r) PROVE TypeOK'
  BY <1>7, ActType
<1>8. ASSUME NEW config \in Configured, Restart(config) PROVE TypeOK'
  BY <1>8, AccessAssumption DEF Restart, TypeOK, Protected
<1>9. CASE UNCHANGED vars
  BY <1>9 DEF vars, TypeOK, Protected
<1>10. QED
  BY <1>1, <1>2, <1>3, <1>4, <1>5, <1>6, <1>7, <1>8, <1>9 DEF Next, Moves

-----------------------------------------------------------------------------
\* A request is for one chat all the way, and has one only if it stores a list.
LEMMA NextFits ==
    ASSUME TypeOK, Fits, [Next]_vars
    PROVE  Fits'
<1> SUFFICES ASSUME NEW r \in Requests, request'[r] # Idle
             PROVE  LET q == request'[r]
                    IN  /\ q.op \in Operations[q.front]
                        /\ q.front = "command" => q.scope \in Chats
                        /\ q.front = "private" => q.scope \in People
                        /\ q.front = "dashboard" => q.scope \in Chats \cup {NoChat}
                        /\ q.front = "miniapp" => q.scope \in Channels
                        /\ q.stage = "store" => q.scope \in Groups
  BY DEF Fits
<1>1. CASE request[r] = Idle /\ Arrive(r)
  <2>1. PICK t \in Tasks, c \in Channels :
          \/ \E k \in Chats : Command(r, t[1], t[3], k, c)
          \/ \E e \in BOOLEAN : PrivateAdd(r, t[1], t[3], c, e)
          \/ \E k \in Chats \cup {NoChat} : Dashboard(r, t[1], t[3], k, c)
          \/ MiniApp(r, t[1], t[3], c)
    BY <1>1 DEF Arrive
  <2>2. \A front, scope, stage : Begin(r, t[1], front, t[3], scope, c, stage) =>
          /\ request'[r].front = front /\ request'[r].scope = scope /\ request'[r].stage = stage
          /\ request'[r].op \in Operations[front]
    <3> SUFFICES ASSUME NEW front, NEW scope, NEW stage, Begin(r, t[1], front, t[3], scope, c, stage)
                 PROVE  /\ request'[r].front = front /\ request'[r].scope = scope /\ request'[r].stage = stage
                        /\ request'[r].op \in Operations[front]
      OBVIOUS
    <3>1. request'[r] = [who |-> t[1], front |-> front, op |-> t[3], scope |-> scope, ch |-> c,
                         stage |-> stage, start |-> now, crossed |-> FALSE, got |-> {}, answer |-> Silent]
      BY DEF Begin, TypeOK
    <3>2. <<t[1], front, t[3]>> \in Tasks
      BY DEF Begin
    <3>3. <<t[1], front, t[3]>>[3] \in Operations[<<t[1], front, t[3]>>[2]]
      BY <3>2, AccessAssumption
    <3>4. QED
      BY <3>1, <3>3
  <2>3. t[1] \in People
    BY AccessAssumption
  <2>4. ASSUME NEW k \in Chats, Command(r, t[1], t[3], k, c)
        PROVE  /\ request'[r].front = "command" /\ request'[r].scope \in Chats
               /\ request'[r].stage # "store" /\ request'[r].op \in Operations["command"]
    BY <2>2, <2>4 DEF Command
  <2>5. ASSUME NEW e \in BOOLEAN, PrivateAdd(r, t[1], t[3], c, e)
        PROVE  /\ request'[r].front = "private" /\ request'[r].scope \in People
               /\ request'[r].stage # "store" /\ request'[r].op \in Operations["private"]
    BY <2>2, <2>3, <2>5 DEF PrivateAdd
  <2>6. ASSUME NEW k \in Chats \cup {NoChat}, Dashboard(r, t[1], t[3], k, c)
        PROVE  /\ request'[r].front = "dashboard" /\ request'[r].scope \in Chats \cup {NoChat}
               /\ request'[r].stage # "store" /\ request'[r].op \in Operations["dashboard"]
    BY <2>2, <2>6 DEF Dashboard
  <2>7. ASSUME MiniApp(r, t[1], t[3], c)
        PROVE  /\ request'[r].front = "miniapp" /\ request'[r].scope \in Channels
               /\ request'[r].stage # "store" /\ request'[r].op \in Operations["miniapp"]
    BY <2>2, <2>7 DEF MiniApp
  <2>8. QED
    BY <2>1, <2>4, <2>5, <2>6, <2>7
<1>2. CASE request[r] # Idle /\ SameTask(r) /\ Stays(r)
  BY <1>2 DEF Fits, SameTask, Stays
<1>3. CASE request[r] # Idle /\ SameTask(r) /\ Moves(r)
  <2>1. request'[r].stage = "store" => request[r].scope \in Groups
    <3>1. request[r] \in Request /\ request \in [Requests -> Request \cup {Idle}]
      BY <1>3 DEF TypeOK
    <3>2. CASE Authorize(r) \/ CacheMiss(r) \/ Gate(r)
      BY <3>1, <3>2 DEF Authorize, CacheMiss, Gate, GoTo, End, Request
    <3>3. CASE CacheHit(r) \/ Store(r)
      BY <3>1, <3>3 DEF CacheHit, Store, Decided, Request
    <3>4. CASE Fetch(r)
      BY <3>4 DEF Fetch
    <3>5. QED
      BY <1>3, <3>2, <3>3, <3>4 DEF Moves
  <2>2. QED
    BY <1>3, <2>1 DEF Fits, SameTask
<1>4. QED
  BY <1>1, <1>2, <1>3, StepOfRequest

LEMMA ArrivesNow ==
    ASSUME TypeOK, NEW r \in Requests, Arrive(r)
    PROVE  /\ request'[r].start = now /\ request'[r].answer = Silent /\ now' = now
           /\ request'[r].stage \in {"authorize", "gate"}
           /\ request'[r].stage = "gate" =>
                  /\ request'[r].front = "private"
                  /\ WasEmployee(request'[r].who, now - EmployeeWindow + 1)
           /\ request'[r].front = "miniapp" => ValidSession(request'[r].who)
<1>1. PICK t \in Tasks, c \in Channels :
        \/ \E k \in Chats : Command(r, t[1], t[3], k, c)
        \/ \E e \in BOOLEAN : PrivateAdd(r, t[1], t[3], c, e)
        \/ \E k \in Chats \cup {NoChat} : Dashboard(r, t[1], t[3], k, c)
        \/ MiniApp(r, t[1], t[3], c)
  BY DEF Arrive
<1>2. \A front, scope, stage : Begin(r, t[1], front, t[3], scope, c, stage) =>
        /\ request'[r].start = now /\ request'[r].answer = Silent /\ now' = now
        /\ request'[r].stage = stage /\ request'[r].front = front /\ request'[r].who = t[1]
  BY DEF Begin, TypeOK
<1>3. ASSUME NEW k \in Chats, Command(r, t[1], t[3], k, c)
      PROVE  Begin(r, t[1], "command", t[3], k, c, "authorize")
  BY <1>3 DEF Command
<1>4. ASSUME NEW e \in BOOLEAN, PrivateAdd(r, t[1], t[3], c, e)
      PROVE  \/ Begin(r, t[1], "private", t[3], t[1], c, "authorize")
             \/ /\ Begin(r, t[1], "private", t[3], t[1], c, "gate")
                /\ WasEmployee(t[1], now - EmployeeWindow + 1)
  BY <1>4 DEF PrivateAdd
<1>5. ASSUME NEW k \in Chats \cup {NoChat}, Dashboard(r, t[1], t[3], k, c)
      PROVE  Begin(r, t[1], "dashboard", t[3], k, c, "authorize")
  BY <1>5 DEF Dashboard
<1>6. ASSUME MiniApp(r, t[1], t[3], c)
      PROVE  Begin(r, t[1], "miniapp", t[3], c, c, "authorize") /\ ValidSession(t[1])
  BY <1>6 DEF MiniApp
<1>7. QED
  BY <1>1, <1>2, <1>3, <1>4, <1>5, <1>6

LEMMA NextTimely ==
    ASSUME TypeOK, TypeOK', Timely, [Next]_vars
    PROVE  Timely'
<1> SUFFICES ASSUME NEW r \in Requests, request'[r] # Idle
             PROVE  request'[r].start <= now' /\ now' <= request'[r].start + Latency
  BY DEF Timely
<1>1. CASE request[r] = Idle /\ Arrive(r)
  BY <1>1, ArrivesNow, AccessAssumption DEF TypeOK
<1>2. CASE request[r] # Idle /\ SameTask(r)
  <2>1. request[r].start \in Nat /\ request'[r].start = request[r].start /\ now \in Nat
    BY <1>2 DEF TypeOK, Request, SameTask
  <2>2. QED
    BY <1>2, <2>1, ClockSteps, AccessAssumption DEF Timely
<1>3. QED
  BY <1>1, <1>2, StepOfRequest

-----------------------------------------------------------------------------
\* Lists that were fetched, stored and read in between.
LEMMA NextCacheRecent ==
    ASSUME IInv, TypeOK', [Next]_vars
    PROVE  CacheRecent'
<1> USE DEF IInv, Recent
<1> SUFFICES ASSUME NEW s \in Groups, NEW p \in People, adminCache'[s] # Absent
             PROVE  /\ adminCache'[s].fetched <= now'
                    /\ \/ admins'[<<s, p>>] = (p \in adminCache'[s].admins)
                       \/ adminSince'[<<s, p>>] >= adminCache'[s].fetched - Latency
  BY DEF CacheRecent, Contract!Held
<1>1. now' \in Nat /\ now \in Nat /\ now <= now' /\ Latency \in Nat
  BY ClockSteps, AccessAssumption DEF TypeOK
<1>2. CASE adminCache'[s] = adminCache[s]
  <2>1. adminCache[s].fetched \in Nat
    BY <1>2 DEF TypeOK, CacheEntry
  <2>2. adminCache[s].fetched <= now
        /\ Contract!Held(<<s, p>>, p \in adminCache[s].admins, adminCache[s].fetched - Latency)
    BY <1>2 DEF CacheRecent
  <2>3. admins'[<<s, p>>] = (p \in adminCache[s].admins)
        \/ adminSince'[<<s, p>>] >= adminCache[s].fetched - Latency
    <3>1. adminCache[s].fetched - Latency \in Int /\ adminCache[s].fetched - Latency <= now
      BY <1>1, <2>1, <2>2
    <3>2. QED
      BY <2>2, <3>1, ListLasts
  <2>4. QED
    BY <1>1, <1>2, <2>1, <2>2, <2>3
<1>3. ASSUME NEW r \in Requests, Store(r), request[r].scope = s
      PROVE  /\ adminCache'[s].fetched <= now'
             /\ \/ admins'[<<s, p>>] = (p \in adminCache'[s].admins)
                \/ adminSince'[<<s, p>>] >= adminCache'[s].fetched - Latency
  <2>1. /\ adminCache'[s] = [admins |-> request[r].got, fetched |-> now]
        /\ UNCHANGED <<now, admins, adminSince>>
    BY <1>3 DEF Store, TypeOK, world
  <2>2. /\ Contract!Held(<<s, p>>, p \in request[r].got, request[r].start)
        /\ request[r].start \in Nat /\ now <= request[r].start + Latency
    BY <1>3 DEF Store, At, GotRecent, Timely, TypeOK, Request
  <2>3. adminSince[<<s, p>>] \in Int
    BY DEF TypeOK
  <2>4. QED
    BY <1>1, <2>1, <2>2, <2>3 DEF Contract!Held
<1>4. adminCache'[s] = adminCache[s] \/ \E r \in Requests : Store(r) /\ request[r].scope = s
  <2>1. ASSUME NEW r \in Requests, Store(r)
        PROVE  adminCache'[s] = adminCache[s] \/ request[r].scope = s
    BY <2>1 DEF Store, TypeOK
  <2>2. ASSUME NEW r \in Requests, Moves(r) \/ FetchFails(r)
        PROVE  Store(r) \/ UNCHANGED adminCache
    BY <2>2 DEF Moves, Authorize, CacheHit, CacheMiss, Fetch, Gate, FetchFails
  <2>3. ASSUME NEW r \in Requests, Act(r) PROVE UNCHANGED adminCache
    BY <2>3 DEF Act, AddHandler, AddCallback, AddChannel, ConnectChat, JoinChannel, RemoveChannel, Manage
  <2>4. ASSUME NEW r \in Requests, Arrive(r) PROVE UNCHANGED adminCache
    BY <2>4, ArrivalType
  <2>5. ASSUME NEW q \in People, SignIn(q) \/ Login(q) \/ Expire(q) \/ ChangeEmployee(q)
        PROVE  UNCHANGED adminCache
    BY <2>5 DEF SignIn, Login, Expire, ChangeEmployee
  <2>6. ASSUME NEW q \in People, NEW t \in Groups, ChangeAdmin(t, q) PROVE UNCHANGED adminCache
    BY <2>6 DEF ChangeAdmin
  <2>7. ASSUME NEW config \in Configured, Restart(config) PROVE FALSE
    BY <2>7 DEF Restart
  <2>8. QED
    BY <2>1, <2>2, <2>3, <2>4, <2>5, <2>6, <2>7 DEF Next, Moves, vars, Tick
<1>5. QED
  BY <1>2, <1>3, <1>4

\* A request that has its list, or is about to answer from one.
LEMMA NextGotRecent ==
    ASSUME IInv, TypeOK', [Next]_vars
    PROVE  GotRecent'
<1> USE DEF IInv, Recent
<1> SUFFICES ASSUME NEW r \in Requests, NEW p \in People, request'[r] # Idle, request'[r].stage = "store"
             PROVE  \/ admins'[<<request'[r].scope, p>>] = (p \in request'[r].got)
                    \/ adminSince'[<<request'[r].scope, p>>] >= request'[r].start
  BY DEF GotRecent, Contract!Held, At
<1>1. CASE request[r] = Idle /\ Arrive(r)
  BY <1>1, ArrivesNow
<1>2. CASE request[r] # Idle /\ SameTask(r) /\ Stays(r)
  <2>1. /\ request[r].scope \in Groups /\ request[r].start \in Nat /\ request[r].start <= now
        /\ Contract!Held(<<request[r].scope, p>>, p \in request[r].got, request[r].start)
    BY <1>2 DEF Fits, Timely, TypeOK, Request, Stays, GotRecent, At
  <2>2. \/ admins'[<<request[r].scope, p>>] = (p \in request[r].got)
        \/ adminSince'[<<request[r].scope, p>>] >= request[r].start
    BY <2>1, ListLasts
  <2>3. QED
    BY <1>2, <2>2 DEF SameTask, Stays
<1>3. CASE request[r] # Idle /\ SameTask(r) /\ Moves(r)
  <2>1. request[r] \in Request /\ request \in [Requests -> Request \cup {Idle}]
    BY <1>3 DEF TypeOK
  <2>2. CASE Fetch(r)
    <3>1. /\ request[r].scope \in Groups /\ UNCHANGED <<admins, adminSince>>
          /\ request'[r].got = {q \in People : admins[<<request[r].scope, q>>]}
          /\ request'[r].scope = request[r].scope
      BY <2>1, <2>2 DEF Fetch, world, Request
    <3>2. admins[<<request[r].scope, p>>] \in BOOLEAN
      BY <3>1 DEF TypeOK
    <3>3. QED
      BY <3>1, <3>2
  <2>3. CASE Authorize(r) \/ CacheMiss(r) \/ Gate(r)
    BY <2>1, <2>3 DEF Authorize, CacheMiss, Gate, GoTo, End, Request
  <2>4. CASE CacheHit(r) \/ Store(r)
    BY <2>1, <2>4 DEF CacheHit, Store, Decided, Request
  <2>5. QED
    BY <1>3, <2>2, <2>3, <2>4 DEF Moves
<1>4. QED
  BY <1>1, <1>2, <1>3, StepOfRequest

LEMMA MovesLeaveWorld ==
    ASSUME NEW r \in Requests, Moves(r)
    PROVE  UNCHANGED <<now, admins, adminSince, employees, employeeSince, privileged, control>>
BY DEF Moves, Authorize, CacheHit, CacheMiss, Fetch, Store, Gate, world, registry

LEMMA WindowType == Window \in Nat /\ Window >= 1
BY AccessAssumption DEF Window

\* What a cached or a fetched list says was so Window ago or later.
LEMMA AnswerHeld ==
    ASSUME IInv, NEW r \in Requests, CacheHit(r) \/ Store(r)
    PROVE  \E list :
             /\ Decided(r, list) /\ request[r].scope \in Groups
             /\ Contract!Held(<<request[r].scope, request[r].who>>, request[r].who \in list, now - Window + 1)
<1> USE DEF IInv, Recent
<1>1. /\ request[r] \in Request /\ request[r] # Idle /\ now \in Nat /\ request[r].who \in People
      /\ request[r].start \in Nat /\ now <= request[r].start + Latency
      /\ AdminCacheTTL \in Nat /\ Latency \in Nat
  BY AccessAssumption DEF CacheHit, Store, At, TypeOK, Request, Timely
<1>2. CASE CacheHit(r)
  <2> DEFINE e == adminCache[request[r].scope]
  <2>1. /\ request[r].scope \in Groups /\ e \in CacheEntry /\ e # Absent
        /\ now - e.fetched < AdminCacheTTL /\ Decided(r, e.admins)
    BY <1>2 DEF CacheHit, Usable, TypeOK
  <2>2. Contract!Held(<<request[r].scope, request[r].who>>, request[r].who \in e.admins, e.fetched - Latency)
    BY <1>1, <2>1 DEF CacheRecent
  <2>3. /\ now - Window + 1 <= e.fetched - Latency
        /\ now - Window + 1 \in Int /\ e.fetched - Latency \in Int
    BY <1>1, <2>1 DEF Window, CacheEntry
  <2>4. Contract!Held(<<request[r].scope, request[r].who>>, request[r].who \in e.admins, now - Window + 1)
    BY <1>1, <2>1, <2>2, <2>3 DEF Contract!Held, TypeOK
  <2>5. QED
    BY <2>1, <2>4
<1>3. CASE Store(r)
  <2>1. request[r].scope \in Groups /\ Decided(r, request[r].got)
    BY <1>1, <1>3 DEF Store, Fits, At
  <2>2. Contract!Held(<<request[r].scope, request[r].who>>, request[r].who \in request[r].got,
                      request[r].start)
    BY <1>1, <1>3 DEF GotRecent, Store
  <2>3. adminSince[<<request[r].scope, request[r].who>>] \in Int
    BY <1>1, <2>1 DEF TypeOK
  <2>4. now - Window + 1 <= request[r].start
    BY <1>1, AccessAssumption DEF Window
  <2>5. Contract!Held(<<request[r].scope, request[r].who>>, request[r].who \in request[r].got, now - Window + 1)
    BY <1>1, <2>2, <2>3, <2>4, WindowType DEF Contract!Held
  <2>6. QED
    BY <2>1, <2>5
<1>4. QED
  BY <1>2, <1>3

LEMMA NextAnswerRecent ==
    ASSUME IInv, TypeOK', [Next]_vars
    PROVE  AnswerRecent'
<1> USE DEF IInv, Recent
<1> SUFFICES ASSUME NEW r \in Requests, request'[r] # Idle, request'[r].answer # Silent
             PROVE  LET q == request'[r]
                    IN  /\ q.answer.user = <<q.scope, q.who>> /\ q.stage \in {"gate", "act"}
                        /\ \/ admins'[q.answer.user] = q.answer.has
                           \/ adminSince'[q.answer.user] >= q.start - Window + 1
  BY DEF AnswerRecent, Contract!Held
<1>1. CASE request[r] = Idle /\ Arrive(r)
  BY <1>1, ArrivesNow
<1>2. CASE request[r] # Idle /\ SameTask(r) /\ Stays(r)
  <2> DEFINE a == request[r].answer
  <2>1. /\ a \in Answer /\ request[r].start \in Nat /\ now \in Nat
        /\ request[r].start <= now
    BY <1>2 DEF TypeOK, Request, Stays, Timely
  <2>2. /\ a.user = <<request[r].scope, request[r].who>> /\ request[r].stage \in {"gate", "act"}
        /\ Contract!Held(a.user, a.has, request[r].start - Window + 1)
    BY <1>2 DEF Stays, AnswerRecent
  <2>3. a.user \in Groups \X People /\ a.has \in BOOLEAN
    BY <2>1 DEF Answer
  <2>4. admins'[a.user] = a.has \/ adminSince'[a.user] >= request[r].start - Window + 1
    BY <2>1, <2>2, <2>3, HeldLasts, WindowType
  <2>5. QED
    BY <1>2, <2>2, <2>4 DEF SameTask, Stays
<1>3. CASE request[r] # Idle /\ SameTask(r) /\ Moves(r)
  <2>1. request[r] \in Request /\ request \in [Requests -> Request \cup {Idle}] /\ now \in Nat
    BY <1>3 DEF TypeOK
  <2>2. UNCHANGED <<now, admins, adminSince>> /\ request[r].start <= now
    BY <1>3, MovesLeaveWorld DEF Timely
  <2>3. ASSUME NEW list, Decided(r, list), request[r].scope \in Groups,
               Contract!Held(<<request[r].scope, request[r].who>>, request[r].who \in list,
                             request[r].start - Window + 1)
        PROVE  LET q == request'[r]
               IN  /\ q.answer.user = <<q.scope, q.who>> /\ q.stage \in {"gate", "act"}
                   /\ \/ admins'[q.answer.user] = q.answer.has
                      \/ adminSince'[q.answer.user] >= q.start - Window + 1
    <3>1. /\ request'[r].answer = [user |-> <<request[r].scope, request[r].who>>,
                                   has |-> request[r].who \in list]
          /\ request'[r].stage = "gate"
          /\ request'[r].scope = request[r].scope /\ request'[r].who = request[r].who
          /\ request'[r].start = request[r].start
      BY <2>1, <2>3 DEF Decided, Request
    <3>2. QED
      BY <2>2, <2>3, <3>1 DEF Contract!Held
  <2>4. CASE CacheHit(r) \/ Store(r)
    <3>1. PICK list :
            /\ Decided(r, list) /\ request[r].scope \in Groups
            /\ Contract!Held(<<request[r].scope, request[r].who>>, request[r].who \in list, now - Window + 1)
      BY <2>4, AnswerHeld
    <3>2. /\ request[r].who \in People /\ request[r].start \in Nat
          /\ adminSince[<<request[r].scope, request[r].who>>] \in Int
      BY <2>1, <3>1 DEF Request, TypeOK
    <3>3. Contract!Held(<<request[r].scope, request[r].who>>, request[r].who \in list,
                        request[r].start - Window + 1)
      BY <2>1, <2>2, <3>1, <3>2, WindowType DEF Contract!Held
    <3>4. QED
      BY <2>3, <3>1, <3>3
  <2>5. CASE Gate(r)
    <3>1. /\ request'[r].answer = request[r].answer /\ request'[r].stage = "act"
          /\ request'[r].scope = request[r].scope /\ request'[r].who = request[r].who
          /\ request'[r].start = request[r].start
      BY <2>1, <2>5 DEF Gate, GoTo, End, Request
    <3>2. QED
      BY <1>3, <2>2, <3>1 DEF AnswerRecent, Contract!Held
  <2>6. CASE Authorize(r) \/ CacheMiss(r) \/ Fetch(r)
    <3>1. request'[r].answer = request[r].answer /\ request[r].stage \in {"authorize", "fetch"}
      BY <2>1, <2>6 DEF Authorize, CacheMiss, Fetch, GoTo, End, Request, At
    <3>2. QED
      BY <1>3, <3>1 DEF AnswerRecent
  <2>7. QED
    BY <1>3, <2>4, <2>5, <2>6 DEF Moves
<1>4. QED
  BY <1>1, <1>2, <1>3, StepOfRequest

LEMMA NextSessionRecent ==
    ASSUME IInv, TypeOK', [Next]_vars
    PROVE  SessionRecent'
<1> USE DEF IInv, Recent
<1> SUFFICES ASSUME NEW p \in People, session'[p] # NoSession
             PROVE  /\ session'[p] <= now' + MiniAppSession
                    /\ WasEmployee(p, session[p] - MiniAppSession - EmployeeWindow)'
  BY DEF SessionRecent, WasEmployee, Lately
<1>1. now \in Nat /\ now' \in Nat /\ now <= now' /\ MiniAppSession \in Nat /\ EmployeeWindow \in Nat
      /\ EmployeeWindow > 0 /\ session[p] \in Nat \cup {NoSession}
  BY ClockSteps, AccessAssumption DEF TypeOK
<1>2. CASE session'[p] = session[p]
  <2>1. /\ session[p] \in Nat /\ session[p] <= now + MiniAppSession
        /\ WasEmployee(p, session[p] - MiniAppSession - EmployeeWindow)
    BY <1>1, <1>2 DEF SessionRecent
  <2>2. /\ session[p] - MiniAppSession - EmployeeWindow \in Int
        /\ session[p] - MiniAppSession - EmployeeWindow <= now
    BY <1>1, <2>1
  <2>3. QED
    BY <1>1, <1>2, <2>1, <2>2, EmployeeLasts DEF WasEmployee
<1>3. CASE SignIn(p)
  <2>1. /\ session'[p] = now + MiniAppSession /\ UNCHANGED <<now, employees, employeeSince>>
        /\ WasEmployee(p, now - EmployeeWindow + 1)
    BY <1>3 DEF SignIn, TypeOK, world
  <2>2. employeeSince[p] \in Int
    BY DEF TypeOK
  <2>3. QED
    BY <1>1, <2>1, <2>2 DEF WasEmployee, Lately
<1>4. session'[p] = session[p] \/ SignIn(p)
  <2>1. ASSUME NEW q \in People, SignIn(q) PROVE session'[p] = session[p] \/ q = p
    BY <2>1 DEF SignIn, TypeOK
  <2>2. ASSUME NEW r \in Requests, Moves(r) \/ FetchFails(r) PROVE UNCHANGED session
    BY <2>2 DEF Moves, Authorize, CacheHit, CacheMiss, Fetch, Store, Gate, FetchFails, tokens
  <2>3. ASSUME NEW r \in Requests, Act(r) PROVE UNCHANGED session
    BY <2>3 DEF Act, AddHandler, AddCallback, AddChannel, ConnectChat, JoinChannel, RemoveChannel, Manage, tokens
  <2>4. ASSUME NEW r \in Requests, Arrive(r) PROVE UNCHANGED session
    BY <2>4, ArrivalType DEF tokens
  <2>5. ASSUME NEW q \in People, Login(q) \/ Expire(q) \/ ChangeEmployee(q) PROVE UNCHANGED session
    BY <2>5 DEF Login, Expire, ChangeEmployee, tokens
  <2>6. ASSUME NEW q \in People, NEW t \in Groups, ChangeAdmin(t, q) PROVE UNCHANGED session
    BY <2>6 DEF ChangeAdmin, tokens
  <2>7. ASSUME NEW config \in Configured, Restart(config) PROVE UNCHANGED session
    BY <2>7 DEF Restart, tokens
  <2>8. QED
    BY <2>1, <2>2, <2>3, <2>4, <2>5, <2>6, <2>7 DEF Next, Moves, vars, Tick, tokens
<1>5. QED
  BY <1>2, <1>3, <1>4

LEMMA NextAppRecent ==
    ASSUME IInv, TypeOK', [Next]_vars
    PROVE  AppRecent'
<1> USE DEF IInv, Recent
<1> SUFFICES ASSUME NEW r \in Requests, request'[r] # Idle, request'[r].front = "miniapp"
             PROVE  LET q == request'[r]
                    IN  \/ q.who \in employees'
                        \/ employeeSince'[q.who] >= q.start - MiniAppSession - EmployeeWindow
  BY DEF AppRecent, WasEmployee, Lately
<1>1. now \in Nat /\ MiniAppSession \in Nat /\ EmployeeWindow \in Nat
  BY AccessAssumption DEF TypeOK
<1>2. CASE request[r] = Idle /\ Arrive(r)
  <2> DEFINE p == request'[r].who
  <2>1. p \in People /\ request'[r].start = now /\ ValidSession(p)
    BY <1>2, ArrivesNow DEF TypeOK, Request
  <2>2. UNCHANGED <<employees, employeeSince>>
    BY <1>2, ArrivalType DEF world
  <2>3. session[p] \in Nat /\ now <= session[p] /\ employeeSince[p] \in Int
    BY <1>1, <2>1 DEF ValidSession, TypeOK, NoSession
  <2>4. WasEmployee(p, session[p] - MiniAppSession - EmployeeWindow)
    BY <2>1, <2>3 DEF SessionRecent, NoSession
  <2>5. QED
    BY <1>1, <2>1, <2>2, <2>3, <2>4 DEF WasEmployee, Lately
<1>3. CASE request[r] # Idle /\ SameTask(r)
  <2>1. request[r].who \in People /\ request[r].start \in Nat /\ request[r].start <= now
    BY <1>3 DEF TypeOK, Request, Timely
  <2>2. WasEmployee(request[r].who, request[r].start - MiniAppSession - EmployeeWindow)
    BY <1>3 DEF SameTask, AppRecent
  <2>3. \/ request[r].who \in employees'
        \/ employeeSince'[request[r].who] >= request[r].start - MiniAppSession - EmployeeWindow
    <3> DEFINE p == request[r].who
               t == request[r].start - MiniAppSession - EmployeeWindow
    <3>1. p \in People /\ t \in Int /\ t <= now /\ WasEmployee(p, t)
      BY <1>1, <2>1, <2>2
    <3> HIDE DEF p, t
    <3>2. p \in employees' \/ employeeSince'[p] >= t
      <4>1. ASSUME NEW a \in People, NEW b \in Int, b <= now, WasEmployee(a, b)
            PROVE  a \in employees' \/ employeeSince'[a] >= b
        BY <4>1, EmployeeLasts DEF WasEmployee, Lately
      <4>2. QED
        BY <3>1, <4>1
    <3>3. QED
      BY <3>2 DEF p, t
  <2>4. QED
    BY <1>3, <2>3 DEF SameTask
<1>4. QED
  BY <1>2, <1>3, StepOfRequest

\* A launch that changes who is privileged ends every request.
LEMMA PrivilegedLasts ==
    ASSUME TypeOK, [Next]_vars, NEW r \in Requests, request'[r] # Idle
    PROVE  privileged' = privileged
<1>1. ASSUME NEW q \in Requests, Moves(q) \/ FetchFails(q) PROVE UNCHANGED privileged
  BY <1>1 DEF Moves, Authorize, CacheHit, CacheMiss, Fetch, Store, Gate, FetchFails
<1>2. ASSUME NEW q \in Requests, Act(q) PROVE UNCHANGED privileged
  BY <1>2 DEF Act, AddHandler, AddCallback, AddChannel, ConnectChat, JoinChannel, RemoveChannel, Manage
<1>3. ASSUME NEW q \in Requests, Arrive(q) PROVE UNCHANGED privileged
  BY <1>3, ArrivalType
<1>4. ASSUME NEW p \in People, SignIn(p) \/ Login(p) \/ Expire(p) \/ ChangeEmployee(p)
      PROVE  UNCHANGED privileged
  BY <1>4 DEF SignIn, Login, Expire, ChangeEmployee
<1>5. ASSUME NEW p \in People, NEW s \in Groups, ChangeAdmin(s, p) PROVE UNCHANGED privileged
  BY <1>5 DEF ChangeAdmin
<1>6. ASSUME NEW config \in Configured, Restart(config) PROVE FALSE
  BY <1>6 DEF Restart
<1>7. QED
  BY <1>1, <1>2, <1>3, <1>4, <1>5, <1>6 DEF Next, Moves, vars, Tick

LEMMA NextEntitled ==
    ASSUME IInv, TypeOK', [Next]_vars
    PROVE  Entitled'
<1> USE DEF IInv
<1> DEFINE MayPass(q) == \/ q.who \in privileged'
                         \/ /\ q.front = "private"
                            /\ \/ q.who \in employees'
                               \/ employeeSince'[q.who] >= q.start - EmployeeWindow + 1
                         \/ q.answer # Silent
<1> SUFFICES ASSUME NEW r \in Requests, request'[r] # Idle, request'[r].stage \in {"gate", "act"}
             PROVE  /\ MayPass(request'[r])
                    /\ request'[r].stage = "act" =>
                          ~(request'[r].answer # Silent /\ ~request'[r].answer.has)
  BY DEF Entitled, Privileged, Refused, At, WasEmployee, Lately
<1>1. now \in Nat /\ EmployeeWindow \in Nat /\ EmployeeWindow > 0
  BY AccessAssumption DEF TypeOK
<1>2. CASE request[r] = Idle /\ Arrive(r)
  <2>1. UNCHANGED <<employees, employeeSince>>
    BY <1>2, ArrivalType DEF world
  <2>2. QED
    BY <1>2, <2>1, ArrivesNow DEF WasEmployee, Lately
<1>3. CASE request[r] # Idle /\ SameTask(r) /\ Stays(r)
  <2>1. request[r].who \in People /\ request[r].start \in Nat /\ request[r].start <= now
    BY <1>3 DEF TypeOK, Request, Timely
  <2>2. /\ \/ Privileged(r)
           \/ request[r].front = "private" /\ WasEmployee(request[r].who, request[r].start - EmployeeWindow + 1)
           \/ request[r].answer # Silent
        /\ request[r].stage = "act" => ~Refused(r)
    BY <1>3 DEF Entitled, Stays, At
  <2>3. ASSUME NEW a \in People, NEW b \in Int, b <= now, WasEmployee(a, b)
        PROVE  a \in employees' \/ employeeSince'[a] >= b
    BY <2>3, EmployeeLasts DEF WasEmployee, Lately
  <2>4. WasEmployee(request[r].who, request[r].start - EmployeeWindow + 1) =>
          \/ request[r].who \in employees'
          \/ employeeSince'[request[r].who] >= request[r].start - EmployeeWindow + 1
    <3>1. request[r].start - EmployeeWindow + 1 \in Int /\ request[r].start - EmployeeWindow + 1 <= now
      BY <1>1, <2>1
    <3>2. QED
      BY <2>1, <2>3, <3>1
  <2>5. privileged' = privileged
    BY PrivilegedLasts
  <2>6. QED
    BY <1>3, <2>2, <2>4, <2>5 DEF SameTask, Stays, Privileged, Refused
<1>4. CASE request[r] # Idle /\ SameTask(r) /\ Moves(r)
  <2>1. request[r] \in Request /\ request \in [Requests -> Request \cup {Idle}]
    BY <1>4 DEF TypeOK
  <2>2. UNCHANGED <<employees, employeeSince, privileged>>
    BY <1>4, MovesLeaveWorld
  <2>3. CASE Authorize(r)
    BY <2>1, <2>2, <2>3 DEF Authorize, GoTo, End, Request, Privileged
  <2>4. CASE CacheHit(r) \/ Store(r)
    <3>1. PICK list : Decided(r, list)
      BY <2>4 DEF CacheHit, Store
    <3>2. /\ request'[r].stage = "gate"
          /\ request'[r].answer = [user |-> <<request[r].scope, request[r].who>>, has |-> request[r].who \in list]
      BY <2>1, <3>1 DEF Decided, Request
    <3>3. request'[r].answer # Silent
      <4>1. request[r].scope \in Groups
        BY <2>1, <2>4 DEF CacheHit, Usable, Store, Fits, At
      <4>2. request'[r].answer \in Answer
        BY <2>1, <3>2, <4>1 DEF Answer, Request
      <4>3. QED
        BY <4>2, AccessSentinels
    <3>4. QED
      BY <3>2, <3>3
  <2>5. CASE CacheMiss(r) \/ Fetch(r)
    BY <2>1, <2>5 DEF CacheMiss, Fetch, GoTo, Request
  <2>6. CASE Gate(r)
    <3>1. /\ request[r].stage = "gate" /\ ~Refused(r)
          /\ request' = [request EXCEPT ![r].stage = "act"]
      BY <2>1, <2>6 DEF Gate, GoTo, End, At
    <3>2. QED
      BY <1>4, <2>1, <2>2, <3>1 DEF Entitled, At, Privileged, Refused, WasEmployee, Lately, Request
  <2>7. QED
    BY <1>4, <2>3, <2>4, <2>5, <2>6 DEF Moves
<1>5. QED
  BY <1>2, <1>3, <1>4, StepOfRequest

-----------------------------------------------------------------------------
\* A chat keeps the control of a channel until a removal, which every request
\* under way for the channel is told of.
LEMMA ControlLasts ==
    ASSUME TypeOK, [Next]_vars, NEW r \in Requests, request[r] # Idle, request'[r] # Idle,
           request[r].scope \in control[request[r].ch]
    PROVE  request[r].scope \in control'[request[r].ch] \/ request'[r].crossed
<1>1. request[r].ch \in Channels /\ request[r] \in Request
  BY DEF TypeOK, Request
<1>2. ASSUME NEW q \in Requests, Moves(q) \/ FetchFails(q) PROVE UNCHANGED control
  BY <1>2 DEF Moves, Authorize, CacheHit, CacheMiss, Fetch, Store, Gate, FetchFails, registry
<1>3. ASSUME NEW q \in Requests, Act(q)
      PROVE  request[r].scope \in control'[request[r].ch] \/ request'[r].crossed
  <2>1. ASSUME NEW c \in Channels, NEW chat, NEW added, Protect(c, chat, added)
        PROVE  request[r].scope \in control'[request[r].ch]
    BY <1>1, <2>1 DEF Protect, TypeOK
  <2>2. q \in Requests /\ (request[q] # Idle => request[q].ch \in Channels)
    BY DEF TypeOK, Request
  <2>3. CASE \E last \in BOOLEAN : AddCallback(q, last)
    BY <2>1, <2>2, <2>3 DEF AddCallback, At
  <2>4. CASE \E k \in Chats : AddChannel(q, k)
    BY <2>1, <2>2, <2>4 DEF AddChannel, At
  <2>5. CASE ConnectChat(q)
    BY <2>1, <2>2, <2>5 DEF ConnectChat, At
  <2>6. CASE AddHandler(q) \/ JoinChannel(q) \/ Manage(q)
    BY <2>6 DEF AddHandler, JoinChannel, Manage, registry
  <2>7. ASSUME NEW swapped \in BOOLEAN, RemoveChannel(q, swapped)
        PROVE  request[r].scope \in control'[request[r].ch] \/ request'[r].crossed
    <3>1. CASE r = q
      BY <2>7, <3>1 DEF RemoveChannel
    <3>2. CASE r # q /\ request[r].ch = request[q].ch /\ request[q].scope \in control[request[q].ch]
      <4>1. request'[r] = [request[r] EXCEPT !.crossed = TRUE]
        BY <2>7, <3>2 DEF RemoveChannel
      <4>2. QED
        BY <1>1, <4>1 DEF Request
    <3>3. CASE request[r].ch # request[q].ch \/ request[q].scope \notin control[request[q].ch]
      BY <1>1, <2>2, <2>7, <3>3 DEF RemoveChannel, TypeOK, At
    <3>4. QED
      BY <3>1, <3>2, <3>3
  <2>8. QED
    BY <1>3, <2>3, <2>4, <2>5, <2>6, <2>7 DEF Act
<1>4. ASSUME NEW q \in Requests, Arrive(q) PROVE UNCHANGED control
  BY <1>4, ArrivalType DEF registry
<1>5. ASSUME NEW p \in People, SignIn(p) \/ Login(p) \/ Expire(p) \/ ChangeEmployee(p)
      PROVE  UNCHANGED control
  BY <1>5 DEF SignIn, Login, Expire, ChangeEmployee, registry
<1>6. ASSUME NEW p \in People, NEW s \in Groups, ChangeAdmin(s, p) PROVE UNCHANGED control
  BY <1>6 DEF ChangeAdmin, registry
<1>7. ASSUME NEW config \in Configured, Restart(config) PROVE FALSE
  BY <1>7 DEF Restart
<1>8. QED
  BY <1>2, <1>3, <1>4, <1>5, <1>6, <1>7 DEF Next, Moves, vars, Tick, registry

LEMMA NextOnlyControlChatsAct ==
    ASSUME IInv, TypeOK', [Next]_vars
    PROVE  OnlyControlChatsAct'
<1> USE DEF IInv
<1> DEFINE Bound(q) == q.op = "remove" \/ (q.front = "command" /\ q.op = "manage")
<1> SUFFICES ASSUME NEW r \in Requests, request'[r] # Idle, request'[r].stage = "act", Bound(request'[r])
             PROVE  request'[r].scope \in control'[request'[r].ch] \/ request'[r].crossed
  BY DEF OnlyControlChatsAct, At
<1>1. CASE request[r] = Idle /\ Arrive(r)
  BY <1>1, ArrivesNow
<1>2. CASE request[r] # Idle /\ SameTask(r) /\ Stays(r)
  <2>1. request[r].scope \in control[request[r].ch] \/ request[r].crossed
    BY <1>2 DEF OnlyControlChatsAct, At, SameTask, Stays
  <2>2. QED
    BY <1>2, <2>1, ControlLasts DEF SameTask
<1>3. CASE request[r] # Idle /\ SameTask(r) /\ Moves(r)
  <2>1. request[r] \in Request /\ request \in [Requests -> Request \cup {Idle}]
    BY <1>3 DEF TypeOK
  <2>2. Gate(r)
    BY <1>3, <2>1
       DEF Moves, Authorize, CacheHit, CacheMiss, Fetch, Store, GoTo, End, Decided, Request
  <2>3. Passes(r)
    BY <2>1, <2>2 DEF Gate, End
  <2>4. request[r].op \in Operations[request[r].front] /\ Bound(request[r]) /\ request[r].front \in Fronts
    BY <1>3, <2>1 DEF Fits, SameTask, Request
  <2>5. Linked(r)
    BY <2>3, <2>4 DEF Passes, CommandPasses, DashboardPasses, Fronts, Operations, CommandOperations,
                      DashboardOperations, MiniAppOperations
  <2>6. UNCHANGED control
    BY <1>3, MovesLeaveWorld
  <2>7. QED
    BY <1>3, <2>5, <2>6 DEF Linked, SameTask
<1>4. QED
  BY <1>1, <1>2, <1>3, StepOfRequest

LEMMA NextIInv == IInv /\ [Next]_vars => IInv'
<1> SUFFICES ASSUME IInv, [Next]_vars PROVE IInv'
  OBVIOUS
<1>1. TypeOK'
  BY NextTypeOK DEF IInv
<1>2. Fits' /\ Timely'
  BY <1>1, NextFits, NextTimely DEF IInv
<1>3. Recent'
  BY <1>1, NextCacheRecent, NextGotRecent, NextAnswerRecent, NextSessionRecent, NextAppRecent DEF Recent
<1>4. Entitled' /\ OnlyControlChatsAct'
  BY <1>1, NextEntitled, NextOnlyControlChatsAct
<1>5. QED
  BY <1>1, <1>2, <1>3, <1>4 DEF IInv

LEMMA Invariance == Spec => []IInv
BY InitIInv, NextIInv, PTL DEF Spec

\* Types, and that a channel without control chats has no managers.
THEOREM AccessTypes == Spec => []TypeOK
<1>1. IInv => TypeOK
  BY DEF IInv
<1>2. QED
  BY <1>1, Invariance, PTL

\* A command or a removal acts on a channel only from a chat that controls it,
\* or controlled it when the request passed its gate.
THEOREM ControlIsAsked == Spec => []OnlyControlChatsAct
<1>1. IInv => OnlyControlChatsAct
  BY DEF IInv
<1>2. QED
  BY <1>1, Invariance, PTL

LEMMA EntitledActs == IInv => ActsAreEntitled
<1> USE DEF IInv, Recent
<1> SUFFICES ASSUME IInv, NEW r \in Requests, At(r, "act")
             PROVE  LET q == request[r]
                    IN  \/ Privileged(r)
                        \/ q.front = "private" /\ WasEmployee(q.who, now - (EmployeeWindow + Latency) + 1)
                        \/ WasAdmin(q.who, q.scope, now - (Window + Latency) + 1)
  BY DEF ActsAreEntitled
<1>1. /\ request[r] \in Request /\ request[r] # Idle /\ now \in Nat /\ Latency \in Nat
      /\ EmployeeWindow \in Nat /\ Window \in Nat
      /\ request[r].start \in Nat /\ now <= request[r].start + Latency
  BY AccessAssumption, WindowType DEF At, TypeOK, Request, Timely
<1>2. ~Refused(r)
  BY DEF Entitled
<1>3. CASE request[r].front = "private" /\ WasEmployee(request[r].who, request[r].start - EmployeeWindow + 1)
  <2>1. employeeSince[request[r].who] \in Int
    BY <1>1 DEF TypeOK, Request
  <2>2. WasEmployee(request[r].who, now - (EmployeeWindow + Latency) + 1)
    BY <1>1, <1>3, <2>1 DEF WasEmployee, Lately
  <2>3. QED
    BY <1>3, <2>2
<1>4. CASE request[r].answer # Silent
  <2> DEFINE u == <<request[r].scope, request[r].who>>
  <2>1. /\ request[r].answer \in Answer /\ request[r].answer.user = u
        /\ Contract!Held(u, request[r].answer.has, request[r].start - Window + 1)
    BY <1>1, <1>4 DEF Request, AnswerRecent
  <2>2. request[r].answer.has = TRUE
    BY <1>2, <1>4, <2>1 DEF Refused, Answer
  <2>3. u \in Groups \X People /\ request[r].scope \in Groups
    BY <2>1 DEF Answer
  <2>4. adminSince[u] \in Int
    BY <2>3 DEF TypeOK
  <2>5. admins[u] = TRUE \/ adminSince[u] >= request[r].start - Window + 1
    BY <2>1, <2>2 DEF Contract!Held
  <2>6. request[r].start - Window + 1 >= now - (Window + Latency) + 1
    BY <1>1
  <2>7. admins[u] \/ adminSince[u] >= now - (Window + Latency) + 1
    BY <1>1, <2>4, <2>5, <2>6
  <2>8. QED
    BY <2>3, <2>7 DEF WasAdmin, Lately
<1>5. QED
  BY <1>3, <1>4 DEF Entitled

\* Nobody acts but the owner, the allowlist, a recent administrator of the chat
\* the request is for, or in private a recent employee.
THEOREM OnlyTheEntitledAct == Spec => []ActsAreEntitled
BY Invariance, EntitledActs, PTL

LEMMA LeaversAct == IInv => LeaverLosesTheApp
<1> USE DEF IInv, Recent
<1> SUFFICES ASSUME IInv, NEW r \in Requests, At(r, "act"), request[r].front = "miniapp"
             PROVE  WasEmployee(request[r].who, now - (MiniAppSession + EmployeeWindow + Latency))
  BY DEF LeaverLosesTheApp
<1>1. /\ now \in Nat /\ Latency \in Nat /\ EmployeeWindow \in Nat /\ MiniAppSession \in Nat
      /\ request[r].start \in Nat /\ now <= request[r].start + Latency
      /\ employeeSince[request[r].who] \in Int
  BY AccessAssumption DEF At, TypeOK, Request, Timely
<1>2. WasEmployee(request[r].who, request[r].start - MiniAppSession - EmployeeWindow)
  BY DEF AppRecent, At
<1>3. QED
  BY <1>1, <1>2 DEF WasEmployee, Lately

\* Who left the company acts in the Mini App no longer than a session, the
\* checker's lag and a request after.
THEOREM LeaversAreOut == Spec => []LeaverLosesTheApp
BY Invariance, LeaversAct, PTL

-----------------------------------------------------------------------------
LEMMA StepKeepsManagers ==
    ASSUME IInv, [Next]_vars, NEW c \in Channels, Protected(c)'
    PROVE  managers[c] \subseteq managers'[c]
<1> USE DEF IInv
<1>1. ASSUME NEW r \in Requests, Act(r) PROVE managers[c] \subseteq managers'[c]
  <2>1. ASSUME NEW d, NEW chat, NEW added, Protect(d, chat, added)
        PROVE  managers[c] \subseteq managers'[c]
    BY <2>1 DEF Protect, Merged, TypeOK
  <2>2. CASE \/ \E last \in BOOLEAN : AddCallback(r, last)
             \/ \E k \in Chats : AddChannel(r, k)
             \/ ConnectChat(r)
    BY <2>1, <2>2 DEF AddCallback, AddChannel, ConnectChat
  <2>3. CASE AddHandler(r) \/ JoinChannel(r) \/ Manage(r)
    BY <2>3 DEF AddHandler, JoinChannel, Manage, registry, TypeOK
  <2>4. ASSUME NEW swapped \in BOOLEAN, RemoveChannel(r, swapped)
        PROVE  managers[c] \subseteq managers'[c]
    BY <2>4 DEF RemoveChannel, ManagersLeft, Protected, TypeOK
  <2>5. QED
    BY <1>1, <2>2, <2>3, <2>4 DEF Act
<1>2. ASSUME NEW r \in Requests, Moves(r) \/ FetchFails(r) PROVE UNCHANGED managers
  BY <1>2 DEF Moves, Authorize, CacheHit, CacheMiss, Fetch, Store, Gate, FetchFails, registry
<1>3. ASSUME NEW r \in Requests, Arrive(r) PROVE UNCHANGED managers
  BY <1>3, ArrivalType DEF registry
<1>4. ASSUME NEW p \in People, SignIn(p) \/ Login(p) \/ Expire(p) \/ ChangeEmployee(p)
      PROVE  UNCHANGED managers
  BY <1>4 DEF SignIn, Login, Expire, ChangeEmployee, registry
<1>5. ASSUME NEW p \in People, NEW s \in Groups, ChangeAdmin(s, p) PROVE UNCHANGED managers
  BY <1>5 DEF ChangeAdmin, registry
<1>6. ASSUME NEW config \in Configured, Restart(config) PROVE UNCHANGED managers
  BY <1>6 DEF Restart
<1>7. QED
  BY <1>1, <1>2, <1>3, <1>4, <1>5, <1>6 DEF Next, Moves, vars, Tick, registry

\* As long as a channel stays protected nobody loses its management.
THEOREM ManagementIsKept == Spec => ManagersAreKept
<1> DEFINE Kept == \A c \in Channels : Protected(c)' => managers[c] \subseteq managers'[c]
<1>1. IInv /\ [Next]_vars => Kept
  BY StepKeepsManagers
<1>2. QED
  BY <1>1, Invariance, PTL DEF Spec, ManagersAreKept

-----------------------------------------------------------------------------
(* The cache of administrators keeps the contract of AccessVerdicts. *)

said == [r \in Requests |-> IF request[r] = Idle THEN Silent ELSE request[r].answer]

LEMMA InitImplements == Init => Contract!Init
BY DEF Init, Contract!Init

\* A request that begins, goes on or ends gives no answer, or takes one back.
LEMMA SilentStep ==
    ASSUME UNCHANGED <<admins, adminSince, now>>,
           \A r \in Requests : said'[r] = said[r] \/ said'[r] = Silent
    PROVE  Contract!Next
<1>1. PICK gone \in SUBSET Requests : gone = {r \in Requests : said'[r] # said[r]}
  OBVIOUS
<1>2. \A r \in Requests : said'[r] = IF r \in gone THEN Silent ELSE said[r]
  BY <1>1
<1>3. said' = [r \in Requests |-> IF r \in gone THEN Silent ELSE said[r]]
  BY <1>2 DEF said
<1>4. Contract!Fail(gone)
  BY <1>3 DEF Contract!Fail, said
<1>5. QED
  BY <1>4 DEF Contract!Next

LEMMA StepImplements ==
    ASSUME IInv, IInv', [Next]_vars
    PROVE  [Contract!Next]_<<admins, adminSince, now, said>>
<1> USE DEF IInv, Recent
<1>1. CASE Tick
  BY <1>1 DEF Tick, world, said, Contract!Next, Contract!Tick
<1>2. ASSUME NEW p \in People, NEW s \in Groups, ChangeAdmin(s, p) PROVE Contract!Next
  <2>1. Contract!Change(<<s, p>>)
    BY <1>2 DEF ChangeAdmin, said, Contract!Change
  <2>2. \E u \in Groups \X People : Contract!Change(u)
    BY <2>1
  <2>3. QED
    BY <2>2 DEF Contract!Next
<1>3. ASSUME NEW r \in Requests, CacheHit(r) \/ Store(r) PROVE Contract!Next
  <2> DEFINE u == <<request[r].scope, request[r].who>>
             q == request'[r]
  <2>1. request[r] \in Request /\ request \in [Requests -> Request \cup {Idle}]
        /\ request[r].scope \in Groups /\ now \in Nat
    BY <1>3 DEF CacheHit, Usable, Store, At, Fits, TypeOK
  <2>2. PICK list :
          /\ Decided(r, list)
          /\ Contract!Held(u, request[r].who \in list, now - Window + 1)
    BY <1>3, AnswerHeld
  <2>3. /\ q.answer = [user |-> u, has |-> request[r].who \in list]
        /\ \A o \in Requests : o # r => request'[o] = request[o]
        /\ q.who = request[r].who /\ q.scope = request[r].scope /\ q.start = request[r].start
        /\ q.answer \in Answer
    BY <2>1, <2>2 DEF Decided, Request, Answer
  <2>4. q # Idle /\ q.answer # Silent /\ u \in Groups \X People
    <3>1. request'[r] \in Request
      BY <2>1, <2>2, <2>3 DEF Decided, Request, Stages
    <3>2. request[r].who \in People
      BY <2>1 DEF Request
    <3>3. QED
      BY <2>1, <2>3, <3>1, <3>2, AccessSentinels
  <2>5. UNCHANGED <<admins, adminSince, now>>
    BY <1>3 DEF CacheHit, Store, world
  <2>6. PICK v \in BOOLEAN : q.answer.has = v
    BY <2>3 DEF Answer
  <2>7. admins[u] = v \/ adminSince[u] >= now - Window + 1
    BY <2>2, <2>3, <2>6 DEF Contract!Held
  <2>8. said' = [said EXCEPT ![r] = [user |-> u, has |-> v]]
    <3>1. q.answer = [user |-> u, has |-> v]
      BY <2>3, <2>6 DEF Answer
    <3>2. \A o \in Requests : said'[o] = IF o = r THEN q.answer ELSE said[o]
      BY <2>3, <2>4 DEF said
    <3>3. QED
      BY <3>1, <3>2 DEF said
  <2>9. Contract!Say(r, u, v)
    BY <2>5, <2>7, <2>8 DEF Contract!Say, Contract!Held, said
  <2>10. \E c \in Requests, w \in Groups \X People, x \in BOOLEAN : Contract!Say(c, w, x)
    BY <2>4, <2>9
  <2>11. QED
    BY <2>10 DEF Contract!Next
<1>4. ASSUME NEW p \in People, SignIn(p) \/ Login(p) \/ Expire(p) \/ ChangeEmployee(p)
      PROVE  UNCHANGED <<admins, adminSince, now, said>>
  BY <1>4 DEF SignIn, Login, Expire, ChangeEmployee, world, said
<1>5. ASSUME NEW r \in Requests, Arrive(r) PROVE Contract!Next
  <2>1. \A o \in Requests : o # r => request'[o] = request[o]
    BY <1>5 DEF Arrive, Command, PrivateAdd, Dashboard, MiniApp, Begin, TypeOK
  <2>2. said'[r] = Silent
    BY <1>5, ArrivesNow DEF said
  <2>3. UNCHANGED <<admins, adminSince, now>>
    BY <1>5, ArrivalType DEF world
  <2>4. QED
    BY <2>1, <2>2, <2>3, SilentStep DEF said
<1>6. ASSUME NEW r \in Requests, Authorize(r) \/ CacheMiss(r) \/ Fetch(r) \/ FetchFails(r) \/ Gate(r)
      PROVE  Contract!Next
  <2>1. request[r] \in Request /\ request \in [Requests -> Request \cup {Idle}]
    BY <1>6 DEF Authorize, CacheMiss, Fetch, FetchFails, Gate, At, TypeOK
  <2>2. \A o \in Requests : o # r => request'[o] = request[o]
    BY <1>6, <2>1 DEF Authorize, CacheMiss, Fetch, FetchFails, Gate, GoTo, End
  <2>3. request'[r] = Idle \/ (request[r] # Idle /\ request'[r].answer = request[r].answer)
    BY <1>6, <2>1 DEF Authorize, CacheMiss, Fetch, FetchFails, Gate, GoTo, End, At, Request
  <2>4. UNCHANGED <<admins, adminSince, now>>
    BY <1>6 DEF Authorize, CacheMiss, Fetch, FetchFails, Gate, world
  <2>5. QED
    BY <2>2, <2>3, <2>4, SilentStep DEF said
<1>7. ASSUME NEW r \in Requests, Act(r) PROVE Contract!Next
  <2>1. UNCHANGED <<admins, adminSince, now>>
    BY <1>7 DEF Act, AddHandler, AddCallback, AddChannel, ConnectChat, JoinChannel, RemoveChannel,
                Manage, world
  <2>2. ASSUME NEW o \in Requests
        PROVE  request'[o] = Idle \/ (request[o] # Idle /\ request'[o].answer = request[o].answer)
               \/ request'[o] = request[o]
    <3>1. CASE End(r)
      BY <3>1 DEF End, TypeOK
    <3>2. CASE \E swapped \in BOOLEAN : RemoveChannel(r, swapped)
      BY <3>2 DEF RemoveChannel, TypeOK, Request
    <3>3. QED
      BY <1>7, <3>1, <3>2 DEF Act, AddHandler, AddCallback, AddChannel, ConnectChat, JoinChannel, Manage
  <2>3. QED
    BY <2>1, <2>2, SilentStep DEF said
<1>8. ASSUME NEW config \in Configured, Restart(config) PROVE Contract!Next
  <2>1. UNCHANGED <<admins, adminSince, now>> /\ \A o \in Requests : request'[o] = Idle
    BY <1>8 DEF Restart, world
  <2>2. QED
    BY <2>1, SilentStep DEF said
<1>9. CASE UNCHANGED vars
  BY <1>9 DEF vars, world, said
<1>10. QED
  BY <1>1, <1>2, <1>3, <1>4, <1>5, <1>6, <1>7, <1>8, <1>9 DEF Next

\* HybridAuthorizer implements AccessVerdicts, for any mix of requests.
THEOREM AnswersAreRecent == Spec => AdminAnswersAreRecent
<1>1. IInv /\ IInv' /\ [Next]_vars => [Contract!Next]_<<admins, adminSince, now, said>>
  BY StepImplements
<1>2. QED
  BY <1>1, Invariance, InitImplements, PTL DEF Spec, AdminAnswersAreRecent, Contract!Spec, Contract!vars, said
=============================================================================
