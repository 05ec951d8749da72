------------------------------ MODULE MemberCache ------------------------------
(***************************************************************************)
(* The member list of one channel that the cached userbot keeps            *)
(* (telegram/userbots/cached): scans read it, a miss lists the members     *)
(* page by page without the lock, a kick invalidates it, and Telegram's    *)
(* updates edit it in place.  An update may come late, out of order, more  *)
(* than once or never.  The keys of the cache are independent, so one      *)
(* channel stands for all.  Names are kept apart from those of             *)
(* VerdictCache: a scan asks both caches, and so do their proofs.          *)
(***************************************************************************)
EXTENDS Integers

CONSTANTS
    People,
    Scans,        \* scans that list the channel's members
    CacheTime,    \* WithCacheTTL; a cache that keeps nothing is left out
    ListingTime,  \* bound on one listing; the scans' contexts give it
    UpdateDelay,  \* how late an update may come
    NoList, NoListing,
    LastMoment,   \* bound on the clock
    MaxMoves      \* bound on members coming and going

ASSUME ListAssumption ==
    CacheTime \in Nat \ {0} /\ {ListingTime, UpdateDelay, LastMoment, MaxMoves} \subseteq Nat

\* ChannelUsersCache.  unseen, crossed and old are history, as in Listing.
List == [users : SUBSET People, unseen : SUBSET People, at : Nat, crossed : BOOLEAN,
         old : SUBSET People]

\* unseen: the users no page has covered.  at: when the listing began, and
\* then when the answer was given.  crossed: the channel was invalidated
\* meanwhile.  old: the users an update older than that was applied to last.
Listing == [stage : {"list", "answered"}, users : SUBSET People, unseen : SUBSET People,
            at : Nat, crossed : BOOLEAN, old : SUBSET People]

Update == [user : People, joined : BOOLEAN, at : Nat, stale : BOOLEAN]

ASSUME ListSentinels == NoList \notin List /\ NoListing \notin Listing

VARIABLES
    members,  \* who is in the channel
    moved,    \* when that last changed for each of them
    moves,
    clock,
    list,     \* the channel's entry of channelUsersCache
    listing,  \* the GetChannelUsers call of each scan, kept while it uses the answer
    updates,  \* on their way; stale is history: older than the last invalidation
    since     \* history: what was true of each user since the last invalidation

memberVars == <<members, moved, moves, clock, list, listing, updates, since>>
telegram == <<members, moved, moves>>

\* How far what a list says may lag behind its date, and an answer behind the channel.
Lag == IF ListingTime >= UpdateDelay THEN ListingTime ELSE UpdateDelay
ListWindow == CacheTime + Lag

\* Before anything the model looks at.
LongAgo == -1 - ListWindow

During(c, stage) == listing[c] # NoListing /\ listing[c].stage = stage

\* What the scan c knows of u, once it has a list with a page that covered u.
Told(c, u) ==
    IF During(c, "answered") /\ u \notin listing[c].unseen
    THEN [user |-> u, has |-> u \in listing[c].users] ELSE NoListing

\* A list answers for all users at once, and what it says of one is a verdict.
ListContract(u) == INSTANCE AccessVerdicts WITH
    Users   <- {u},
    Callers <- Scans,
    Window  <- ListWindow,
    Silent  <- NoListing,
    truth   <- [v \in {u} |-> v \in members],
    changed <- [v \in {u} |-> moved[v]],
    now     <- clock,
    said    <- [c \in Scans |-> Told(c, u)]

-----------------------------------------------------------------------------
MembersInit ==
    /\ members \in SUBSET People
    /\ moved = [u \in People |-> LongAgo]
    /\ moves = 0
    /\ clock = 0
    /\ list = NoList
    /\ listing = [c \in Scans |-> NoListing]
    /\ updates = {}
    /\ since = [u \in People |-> {(u \in members)}]

\* Mutant: a list still counts at the very moment its time is over.
ListUsableAtTheEnd == list # NoList /\ list.at + CacheTime >= clock

\* cache.updated.Add(cacheTime).After(now)
ListUsable == list # NoList /\ list.at + CacheTime > clock

\* A copy of the cached users, taken under the lock.
ListHit(c) ==
    /\ listing[c] = NoListing
    /\ ListUsable
    /\ listing' = [listing EXCEPT ![c] =
                     [stage |-> "answered", users |-> list.users, unseen |-> list.unseen,
                      at |-> clock, crossed |-> list.crossed, old |-> list.old]]
    /\ UNCHANGED <<telegram, clock, list, updates, since>>

ListMiss(c) ==
    /\ listing[c] = NoListing
    /\ ~ListUsable
    /\ listing' = [listing EXCEPT ![c] =
                     [stage |-> "list", users |-> {}, unseen |-> People,
                      at |-> clock, crossed |-> FALSE, old |-> {}]]
    /\ UNCHANGED <<telegram, clock, list, updates, since>>

\* The page that shows u, if u is there.
Page(c, u) ==
    /\ During(c, "list")
    /\ u \in listing[c].unseen
    /\ listing' = [listing EXCEPT ![c].unseen = @ \ {u}, ![c].users = @ \cup ({u} \cap members)]
    /\ UNCHANGED <<telegram, clock, list, updates, since>>

\* Mutant: what a failed listing got so far is kept, without a date.
ListingFailsCached(c) ==
    /\ During(c, "list")
    /\ list' = [users |-> listing[c].users, unseen |-> {}, at |-> LongAgo, crossed |-> FALSE,
                 old |-> {}]
    /\ listing' = [listing EXCEPT ![c] = NoListing]
    /\ UNCHANGED <<telegram, clock, updates, since>>

\* The error is returned and the cache keeps what it has.
ListingFails(c) ==
    /\ During(c, "list")
    /\ listing' = [listing EXCEPT ![c] = NoListing]
    /\ UNCHANGED <<telegram, clock, list, updates, since>>

\* A page that is not full is the last.  Pages are cut by offset: a member whose place
\* moves up when others leave is on none, nor is one that Telegram hides.  The list is
\* dated by the moment it is stored, not by the first page.
ListStore(c) ==
    /\ During(c, "list")
    /\ list' = [users |-> listing[c].users, unseen |-> listing[c].unseen, at |-> clock,
                 crossed |-> listing[c].crossed, old |-> {}]
    /\ listing' = [listing EXCEPT ![c].stage = "answered", ![c].at = clock]
    /\ UNCHANGED <<telegram, clock, updates, since>>

\* The scan is done with its copy.
ListDone(c) ==
    /\ During(c, "answered")
    /\ listing' = [listing EXCEPT ![c] = NoListing]
    /\ UNCHANGED <<telegram, clock, list, updates, since>>

\* History: from here on, what came before is out of date.
Mark ==
    /\ since' = [u \in People |-> {(u \in members)}]
    /\ listing' = [c \in Scans |-> IF listing[c] = NoListing THEN NoListing
                                   ELSE [listing[c] EXCEPT !.crossed = TRUE]]
    /\ updates' = {[p EXCEPT !.stale = TRUE] : p \in updates}

\* Mutant: the list survives while it can be used.
InvalidateExpired ==
    /\ list' = IF ListUsable THEN list ELSE NoList
    /\ Mark
    /\ UNCHANGED <<telegram, clock>>

\* KickScannedUsers, after its bans.
InvalidateChannel ==
    /\ list' = NoList
    /\ Mark
    /\ UNCHANGED <<telegram, clock>>

\* addUserToCache, delUserFromCache: without a list there is nothing to edit, and
\* the date stays.
Deliver(p) ==
    /\ p \in updates
    /\ list # NoList
    /\ list' = [list EXCEPT
                  !.users = IF p.joined THEN @ \cup {p.user} ELSE @ \ {p.user},
                  !.unseen = @ \ {p.user},
                  !.old = IF p.stale THEN @ \cup {p.user} ELSE @ \ {p.user}]
    /\ UNCHANGED <<telegram, clock, listing, updates, since>>

\* The last or the only copy of an update is gone, or names a user that does not
\* come with it.
Lose(p) ==
    /\ p \in updates
    /\ updates' = updates \ {p}
    /\ UNCHANGED <<telegram, clock, list, listing, since>>

\* u joins, leaves or is kicked.
Move(u) ==
    LET joined == u \notin members
    IN  /\ moves < MaxMoves
        /\ moves' = moves + 1
        /\ members' = IF joined THEN members \cup {u} ELSE members \ {u}
        /\ moved' = [moved EXCEPT ![u] = clock]
        /\ since' = [since EXCEPT ![u] = @ \cup {joined}]
        /\ updates' = updates \cup
                        {[user |-> u, joined |-> joined, at |-> clock, stale |-> FALSE]}
        /\ UNCHANGED <<clock, list, listing>>

\* No listing takes more than ListingTime, no update comes after UpdateDelay.
MembersTick ==
    /\ clock < LastMoment
    /\ \A c \in Scans : During(c, "list") => clock < listing[c].at + ListingTime
    /\ \A p \in updates : clock < p.at + UpdateDelay
    /\ clock' = clock + 1
    /\ UNCHANGED <<telegram, list, listing, updates, since>>

MembersNext ==
    \/ MembersTick
    \/ InvalidateChannel
    \/ \E u \in People : Move(u)
    \/ \E p \in updates : Deliver(p) \/ Lose(p)
    \/ \E c \in Scans :
          ListHit(c) \/ ListMiss(c) \/ ListingFails(c) \/ ListStore(c) \/ ListDone(c)
    \/ \E c \in Scans, u \in People : Page(c, u)

MembersSpec == MembersInit /\ [][MembersNext]_memberVars

-----------------------------------------------------------------------------
\* A cached list has a date and calls and updates hold what the code gives them
\* (get_channel_users.go).
MembersTypeOK ==
    /\ members \in SUBSET People
    /\ moved \in [People -> Nat \cup {LongAgo}]
    /\ moves \in 0..MaxMoves
    /\ clock \in 0..LastMoment
    /\ list = NoList \/ list \in List
    /\ listing \in [Scans -> Listing \cup {NoListing}]
    /\ updates \in SUBSET Update
    /\ since \in [People -> (SUBSET BOOLEAN) \ {{}}]

\* What a scan is told of each user that the pages covered was true less than CacheTime
\* before the answer, or less than CacheTime and the time a listing or an update takes:
\* editing a list in place neither lengthens its life nor leaves older news in it, in
\* whatever order the updates come (get_channel_users.go:22, update_handlers.go:85).
ListsImplementVerdicts ==
    /\ \A u \in People : ListContract(u)!Init
    /\ [][\A u \in People : [ListContract(u)!Next]_(ListContract(u)!vars)]_memberVars

\* "so the next scan reflects the change": after an invalidation a scan is told of
\* each user what was true since, unless its list was being fetched at the
\* invalidation, no page covered the user, or an update older than it came after it
\* (get_channel_users.go:48, miniapp.go:661).
InvalidationIsSeen ==
    \A c \in Scans :
        listing[c] # NoListing /\ ~listing[c].crossed /\ listing[c].stage = "answered" =>
            \A u \in People \ (listing[c].old \cup listing[c].unseen) : (u \in listing[c].users) \in since[u]
=============================================================================
