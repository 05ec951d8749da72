----------------------------- MODULE MCWhitelist -----------------------------
(* Instances of Whitelist for TLC. *)
EXTENDS Whitelist, TLC

CONSTANTS u1, u2, m1, m2

OneUser == {u1}
TwoUsers == {u1, u2}
OneManager == {m1}
TwoManagers == {m1, m2}
EndOrNot == {0, 1}

Managers2Symmetry == Permutations({m1, m2})
=============================================================================
