--------------------------- MODULE MCChannelRegistry ---------------------------
(* Instances of ChannelRegistry for TLC. *)
EXTENDS ChannelRegistry, TLC

CONSTANTS c1, c2, k1, k2, a1, a2

TwoChannels == {c1, c2}
TwoChats == {k1, k2}
TwoActors == {a1, a2}
OneMigration == {<<c1, c2>>}

RegistrySymmetry == Permutations({a1, a2}) \cup Permutations({k1, k2})

UsedChannels == known \cup removed \cup {c \in Channels : storage[c] # NotProtected \/ ~Quiet(c)}

\* Either one channel that stays where it is, under two actors and two chats,
\* or a group on the move, under one actor and one chat.
Moving == migrations > 0 \/ \E a \in Actors : job[a] # NoJob /\ job[a].to # NoChannel

Unused(k) ==
    /\ \A c \in Channels : /\ control[k][c] = 0 /\ k \notin info[c]
                           /\ storage[c] = NotProtected \/ k \notin storage[c].chats
    /\ \A a \in Actors : job[a] # NoJob => job[a].chat # k

OneThingAtATime ==
    \/ ~Moving /\ UsedChannels \subseteq {c1}
    \/ /\ failures = 0
       /\ migrations = 0 => raced = {} /\ unsynced = {}
       /\ Cardinality({a \in Actors : job[a] # NoJob}) <= 1
       /\ \E k \in Chats : Unused(k)
=============================================================================
