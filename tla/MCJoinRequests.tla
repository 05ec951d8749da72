---------------------------- MODULE MCJoinRequests ----------------------------
(* Instances of JoinRequests for TLC. *)
EXTENDS JoinRequests

CONSTANTS u1, u2, m1

OneUser == {u1}
TwoUsers == {u1, u2}
OneManager == {m1}
=============================================================================
