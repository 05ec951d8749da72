------------------------------ MODULE MCBotRights ------------------------------
(* Instances of BotRights for TLC. *)
EXTENDS BotRights

CONSTANTS loop

JustTheLoop == {loop}

\* Any three of the changes, protections and faults there may be.  None of them is
\* owed by fairness, so a behaviour is cut only where nothing more need happen.
ThreeEvents == changes + adds + faults <= 3
=============================================================================
