---------------------------- MODULE MCVerdictCache ----------------------------
(* Instances of VerdictCache for TLC. *)
EXTENDS VerdictCache, TLC

CONSTANTS u1, u2, p1, p2, p3

OneUser == {u1}
TwoUsers == {u1, u2}
TwoCallers == {p1, p2}
ThreeCallers == {p1, p2, p3}

VerdictSymmetry == Permutations({p1, p2, p3})
=============================================================================
