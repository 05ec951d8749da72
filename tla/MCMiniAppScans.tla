---------------------------- MODULE MCMiniAppScans ----------------------------
(* Instances of MiniAppScans for TLC. *)
EXTENDS MiniAppScans, TLC

CONSTANTS u1, u2, s1, s2

OneUser == {u1}
TwoUsers == {u1, u2}
OneSession == {s1}
TwoSessions == {s1, s2}
BadOnly == {"bad"}
GoodOrBad == {"good", "bad"}

ScansSymmetry == Permutations({u1, u2}) \cup Permutations({s1, s2})

\* No action and no property of MCScans.cfg reads lastCheck, nor who is in the chat once
\* the last scan there may be has listed them.
Listable == IF started = MaxJobs /\ \A j \in Jobs : run[j].at # "list" THEN {} ELSE members

ScansView == <<Listable, admins, changes, whitelist, started, stored, job, run, bot, session, untold>>
=============================================================================
