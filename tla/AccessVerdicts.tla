---------------------------- MODULE AccessVerdicts ----------------------------
(***************************************************************************)
(* What the callers of an access checker may count on when a cache stands  *)
(* between them and the source of truth: an answer was true at the source  *)
(* less than Window ticks before it was given.  How the cache is filled,   *)
(* aged and invalidated is not visible here.  VerdictCache implements it,  *)
(* and so do MemberCache, user by user, and ManagementAccess.              *)
(***************************************************************************)
EXTENDS Integers

CONSTANTS
    Users,
    Callers,  \* scan workers, Mini App requests, join request handlers
    Window,   \* how far an answer may lag behind the source
    Silent    \* no answer given, or the check failed

VARIABLES
    truth,    \* what the wrapped checker would say of each user
    changed,  \* when that last changed
    now,
    said      \* the last answer each caller got

vars == <<truth, changed, now, said>>

Answer == [user : Users, has : BOOLEAN]

\* Before anything the model looks at.
Never == -1 - Window

\* The source said v of u at some moment from t on.
Held(u, v, t) == truth[u] = v \/ changed[u] >= t

Init ==
    /\ truth \in [Users -> BOOLEAN]
    /\ changed = [u \in Users |-> Never]
    /\ now = 0
    /\ said = [c \in Callers |-> Silent]

Change(u) ==
    /\ truth' = [truth EXCEPT ![u] = ~@]
    /\ changed' = [changed EXCEPT ![u] = now]
    /\ UNCHANGED <<now, said>>

Tick ==
    /\ now' = now + 1
    /\ UNCHANGED <<truth, changed, said>>

Say(c, u, v) ==
    /\ Held(u, v, now - Window + 1)
    /\ said' = [said EXCEPT ![c] = [user |-> u, has |-> v]]
    /\ UNCHANGED <<truth, changed, now>>

\* A check fails, its caller is done with it, or all callers die.
Fail(gone) ==
    /\ said' = [c \in Callers |-> IF c \in gone THEN Silent ELSE said[c]]
    /\ UNCHANGED <<truth, changed, now>>

Next ==
    \/ Tick
    \/ \E u \in Users : Change(u)
    \/ \E gone \in SUBSET Callers : Fail(gone)
    \/ \E c \in Callers, u \in Users, v \in BOOLEAN : Say(c, u, v)

Spec == Init /\ [][Next]_vars
=============================================================================
