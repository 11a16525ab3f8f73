-------------------------- MODULE FinalizeContract --------------------------
(***************************************************************************)
(* What FinalizeNewIds (bootfix.cpp) promises the orchestration that calls *)
(* it: it gives up at once, or brings the clone online and then succeeds   *)
(* or fails.  It never takes a disk offline again.  FinalizeNewIds         *)
(* implements this contract; CmdClone relies on nothing else.              *)
(***************************************************************************)
VARIABLES
  attrs,     \* the device implements the offline attribute
  offline,   \* the offline attribute of the target disk
  result     \* "running", "online", then "ok" or "failed"

vars == <<attrs, offline, result>>

Init == attrs \in BOOLEAN /\ offline \in BOOLEAN /\ result = "running"

BringOnline ==
  /\ result = "running"
  /\ attrs
  /\ offline' = FALSE
  /\ result' = "online"
  /\ UNCHANGED attrs

\* No ESP to boot from, or the disk could not be brought online.
GiveUp ==
  /\ result = "running"
  /\ result' = "failed"
  /\ UNCHANGED <<attrs, offline>>

Finish ==
  /\ result = "online"
  /\ result' \in {"ok", "failed"}
  /\ UNCHANGED <<attrs, offline>>

Next == BringOnline \/ GiveUp \/ Finish

Spec == Init /\ [][Next]_vars
=============================================================================
