---------------------------- MODULE ExitContract ----------------------------
(***************************************************************************)
(* What a run of `diskclone clone` promises about the target disk, in the  *)
(* terms of the exit-code table of the README and of util.h:               *)
(*                                                                         *)
(*   0    the clone is complete (or the run was a dry run)                 *)
(*   2-4  refused: nothing was written to any disk                         *)
(*   5    copy failure: the target is untouched or destroyed, never whole  *)
(*   6    finalization failure: the data copy had succeeded                *)
(*   130  cancelled: like 5                                                *)
(*                                                                         *)
(* Only what has become of the target and the outcome are visible here;    *)
(* CmdClone implements this specification.                                 *)
(***************************************************************************)
EXTENDS Naturals

CONSTANT Running   \* the outcome of a run that has not exited yet

VARIABLES
  dryRun,    \* the --dry-run option
  target,    \* what has become of the disk the run writes to
  outcome    \* Running, or the exit code

vars == <<dryRun, target, outcome>>

Refusals  == {2, 3, 4}          \* NotElevated, SafetyRefusal, VssFailure
Aborts    == {5, 130}           \* CopyFailure, UserAbort

Init ==
  /\ dryRun \in BOOLEAN
  /\ target = "untouched"
  /\ outcome = Running

Exit(codes) ==
  /\ outcome = Running
  /\ outcome' \in codes
  /\ UNCHANGED <<dryRun, target>>

Become(from, to) ==
  /\ outcome = Running
  /\ ~dryRun
  /\ target = from
  /\ target' = to
  /\ UNCHANGED <<dryRun, outcome>>

Refuse   == target = "untouched" /\ Exit(Refusals \cup Aborts)
DryRun   == target = "untouched" /\ dryRun /\ Exit({0})
Destroy  == Become("untouched", "destroyed")
Abort    == target = "destroyed" /\ Exit(Aborts)
Complete == Become("destroyed", "cloned")
Finish   == target = "cloned" /\ Exit({0, 6})

Next == Refuse \/ DryRun \/ Destroy \/ Abort \/ Complete \/ Finish

Spec == Init /\ [][Next]_vars
=============================================================================
