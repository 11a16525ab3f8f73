--------------------------- MODULE MCTargetLocks ----------------------------
(***************************************************************************)
(* TLC instance of TargetLocks.  Two new volumes, so that one surfaces or  *)
(* is in use while the other is locked, and four attempts: one more than   *)
(* the early end of the loop needs.                                        *)
(***************************************************************************)
EXTENDS TargetLocks

\* The volumes surface before the last enumeration.
EarlySteps == {"splice", "round", "poll"}
=============================================================================
