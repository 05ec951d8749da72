---------------------------- MODULE MCScanScheduler ----------------------------
(* Instances of ScanScheduler for TLC. *)
EXTENDS ScanScheduler

CONSTANTS c1, c2, w1, w2, s1, s2

OneChannel == {c1}
TwoChannels == {c1, c2}
OneWorker == {w1}
OneSender == {s1}
Nobody == {}
OnOff == {{}, {"AutoScan"}}
ScanOnly == {"Scan"}

\* Two channels while no worker comes back, or one channel with all that can
\* happen to it before the end.
Slices ==
    \/ blocked = <<>> /\ closed = {} /\ \A w \in Workers : worker[w] = Idle
    \/ ~done /\ c2 \notin protected /\ made <= 1
=============================================================================
