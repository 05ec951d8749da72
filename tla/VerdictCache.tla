----------------------------- MODULE VerdictCache -----------------------------
(***************************************************************************)
(* The cache in front of the access checker (checker/cached) under         *)
(* concurrent HasAccess calls and rechecks.  The lock is held for the      *)
(* lookup and for the store, never over the question to the wrapped        *)
(* checker in between.  A recheck (miniapp.go, joinrequests.go) drops the  *)
(* cached verdict and then makes an ordinary HasAccess call.               *)
(***************************************************************************)
EXTENDS Integers

CONSTANTS
    Users,
    Callers,    \* scan workers, Mini App requests, join request handlers
    TTL,        \* WithTTL; a cache that keeps nothing is left out
    Latency,    \* bound on one HasAccess call; the callers' contexts give it
    Absent, NoCall, Silent,
    MaxNow,     \* bound on the clock
    MaxChanges  \* bound on changes at the source

ASSUME VerdictAssumption ==
    /\ TTL \in Nat \ {0} /\ Latency \in Nat
    /\ MaxNow \in Nat /\ MaxChanges \in Nat

Verdict == [has : BOOLEAN, at : Nat]

Call == [user : Users, stage : {"lookup", "ask", "store"}, has : BOOLEAN,
         start : Nat, fresh : BOOLEAN, crossed : BOOLEAN]

Answer == [user : Users, has : BOOLEAN]

ASSUME VerdictSentinels ==
    Absent \notin Verdict /\ NoCall \notin Call /\ Silent \notin Answer

VARIABLES
    truth,    \* what the wrapped checker would say of each user
    changed,  \* when that last changed
    changes,
    now,
    cache,    \* d.cache
    call,     \* the HasAccess call each caller is in; crossed is history: a
              \* recheck that began while another call on the user was under way
    said      \* the last answer each caller got

vars == <<truth, changed, changes, now, cache, call, said>>
source == <<truth, changed, changes>>

Window == TTL + Latency

Contract == INSTANCE AccessVerdicts WITH Window <- Window

Held(u, v, t) == Contract!Held(u, v, t)

-----------------------------------------------------------------------------
At(c, s) == call[c] # NoCall /\ call[c].stage = s

UnderWay(u) == \E c \in Callers : call[c] # NoCall /\ call[c].user = u

\* Mutant: an entry still counts at the very moment its time is over.
UsableAtTheEnd(u) == cache[u] # Absent /\ cache[u].at + TTL >= now

\* record.updated.Add(ttl).After(now)
Usable(u) == cache[u] # Absent /\ cache[u].at + TTL > now

Init ==
    /\ truth \in [Users -> BOOLEAN]
    /\ changed = [u \in Users |-> Contract!Never]
    /\ changes = 0
    /\ now = 0
    /\ cache = [u \in Users |-> Absent]
    /\ call = [c \in Callers |-> NoCall]
    /\ said = [c \in Callers |-> Silent]

Begin(c, u, fresh) ==
    /\ call[c] = NoCall
    /\ call' = [call EXCEPT ![c] =
                 [user |-> u, stage |-> "lookup", has |-> FALSE, start |-> now,
                  fresh |-> fresh, crossed |-> fresh /\ UnderWay(u)]]

Reply(c, v) ==
    /\ said' = [said EXCEPT ![c] = [user |-> call[c].user, has |-> v]]
    /\ call' = [call EXCEPT ![c] = NoCall]

HasAccess(c, u) ==
    /\ Begin(c, u, FALSE)
    /\ UNCHANGED <<source, now, cache, said>>

\* Mutant: the recheck forgets to drop the cached verdict.
RecheckCached(c, u) ==
    /\ Begin(c, u, TRUE)
    /\ UNCHANGED <<source, now, cache, said>>

\* Invalidate, then HasAccess.
Recheck(c, u) ==
    /\ Begin(c, u, TRUE)
    /\ cache' = [cache EXCEPT ![u] = Absent]
    /\ UNCHANGED <<source, now, said>>

Hit(c) ==
    /\ At(c, "lookup")
    /\ Usable(call[c].user)
    /\ Reply(c, cache[call[c].user].has)
    /\ UNCHANGED <<source, now, cache>>

Miss(c) ==
    /\ At(c, "lookup")
    /\ ~Usable(call[c].user)
    /\ call' = [call EXCEPT ![c].stage = "ask"]
    /\ UNCHANGED <<source, now, cache, said>>

Ask(c) ==
    /\ At(c, "ask")
    /\ call' = [call EXCEPT ![c].stage = "store", ![c].has = truth[call[c].user]]
    /\ UNCHANGED <<source, now, cache, said>>

\* An error of the wrapped checker is returned and not cached.
AskFails(c) ==
    /\ At(c, "ask")
    /\ said' = [said EXCEPT ![c] = Silent]
    /\ call' = [call EXCEPT ![c] = NoCall]
    /\ UNCHANGED <<source, now, cache>>

\* The entry is dated by the moment it is stored, not by the answer's.
Store(c) ==
    /\ At(c, "store")
    /\ cache' = [cache EXCEPT ![call[c].user] = [has |-> call[c].has, at |-> now]]
    /\ Reply(c, call[c].has)
    /\ UNCHANGED <<source, now>>

\* The source changes its mind: somebody signs or leaves.
Change(u) ==
    /\ changes < MaxChanges
    /\ truth' = [truth EXCEPT ![u] = ~@]
    /\ changed' = [changed EXCEPT ![u] = now]
    /\ changes' = changes + 1
    /\ UNCHANGED <<now, cache, call, said>>

Tick ==
    /\ now < MaxNow
    /\ \A c \in Callers : call[c] # NoCall => now < call[c].start + Latency
    /\ now' = now + 1
    /\ UNCHANGED <<source, cache, call, said>>

Next ==
    \/ Tick
    \/ \E u \in Users : Change(u)
    \/ \E c \in Callers : \/ Hit(c) \/ Miss(c) \/ Ask(c) \/ AskFails(c) \/ Store(c)
                          \/ \E u \in Users : HasAccess(c, u) \/ Recheck(c, u)

Spec == Init /\ [][Next]_vars

-----------------------------------------------------------------------------
TypeOK ==
    /\ truth \in [Users -> BOOLEAN]
    /\ changed \in [Users -> Int]
    /\ changes \in 0..MaxChanges
    /\ now \in 0..MaxNow
    /\ cache \in [Users -> Verdict \cup {Absent}]
    /\ call \in [Callers -> Call \cup {NoCall}]
    /\ said \in [Callers -> Answer \cup {Silent}]

\* Whatever calls cross on a user, however late an answer is stored: no caller
\* gets a verdict that has been wrong at the source for TTL + Latency.  This
\* holds for HasAccess although it stores an old answer with a new date.
ImplementsVerdicts == Contract!Spec

Answered(c) == call[c] # NoCall /\ call'[c] = NoCall /\ said'[c] # Silent

\* The recheck keeps that promise when no other call on the user was under way
\* as it began, whatever calls begin on the user afterwards.
UncrossedRecheckAsksSource ==
    [][\A c \in Callers : Answered(c) /\ call[c].fresh /\ ~call[c].crossed =>
          Held(call[c].user, said'[c].has, call[c].start)]_vars
=============================================================================
