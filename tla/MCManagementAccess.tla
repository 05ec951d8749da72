-------------------------- MODULE MCManagementAccess --------------------------
(* Instances of ManagementAccess for TLC. *)
EXTENDS ManagementAccess, TLC

CONSTANTS alice, bob, k1, c1, r1, r2

TwoPeople == {alice, bob}
OneChat == {k1}
OneChannel == {c1}
TwoRequests == {r1, r2}
OwnerComes == {{}, {bob}}

Both == {alice} \X {"miniapp"} \X {"manage", "join", "connect"}
        \cup {alice} \X {"command"} \X {"manage", "remove"}
        \cup {alice} \X {"private"} \X {"add", "share"}
        \cup {bob} \X {"dashboard"} \X {"manage", "remove", "create"}
        \cup {<<bob, "miniapp", "connect">>, <<alice, "command", "add">>}

Busy == {r \in Requests : request[r] # Idle}

Fetching == \E r \in Busy : request[r].stage \in {"fetch", "store"}

\* Time passes, and alice is looked at by every cache; bob keeps out of it.
Ageing ==
    /\ control[c1] = {} /\ pending = {} /\ signedIn = {} /\ session[bob] = NoSession
    /\ privileged = {} /\ restarts = 0
    /\ employeeSince[bob] = Contract!Never
    /\ \A s \in Groups : adminSince[s, bob] = Contract!Never
    /\ \A r \in Busy : request[r].who = alice /\ request[r].op \in {"add", "join"}

\* Two administrators work side by side on a channel in one moment; what the
\* caches need is fetched before both are busy.
SideBySide ==
    /\ now = 0 /\ changes = 0
    /\ k1 \notin pending /\ alice \notin signedIn
    /\ restarts = 0 => privileged # {}
    /\ Busy # {} => \A p \in People : session[p] # NoSession
    /\ Cardinality(Busy) = 2 => /\ ~Fetching
                                /\ bob \in signedIn
                                /\ \A s \in {k1, c1} : adminCache[s] # Absent

OneThingAtATime == Ageing \/ SideBySide

RequestSymmetry == Permutations({r1, r2})
=============================================================================
