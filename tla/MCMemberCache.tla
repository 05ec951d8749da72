---------------------------- MODULE MCMemberCache ----------------------------
(* Instances of MemberCache for TLC. *)
EXTENDS MemberCache, TLC

CONSTANTS u1, c1, c2

OneUser == {u1}
TwoScans == {c1, c2}

CacheSymmetry == Permutations({c1, c2})
=============================================================================
