------------------------------ MODULE CmdClone ------------------------------
(***************************************************************************)
(* CmdClone (main.cpp): plan, confirm, revalidate, snapshot, wipe, copy,   *)
(* finalize, and the handler that annotates every failure with the state   *)
(* of the target disk.  Around it disks are swapped, so that a disk number *)
(* comes to denote another disk, and the user presses Ctrl+C.              *)
(*                                                                         *)
(* `step' names the next thing the thread does and, once the process has   *)
(* exited, the thing it was doing.                                         *)
(***************************************************************************)
EXTENDS Naturals

CONSTANTS
  Dev,         \* physical disks, told apart by what RevalidateDiskIdentity compares
  S, T,        \* the disks the plan was built from: source and target
  NoDev,       \* no disk
  Running,     \* the process has not exited
  Blocks,      \* bound: I/O blocks of the whole copy
  SwapSteps    \* the steps of the program during which disks may be swapped

Steps == {"plan", "confirm", "revalidateSource", "revalidateTarget",
          "openSource", "snapshot", "openTarget", "takeOffline", "lockOld",
          "deleteLayout", "createDisk", "setLayout", "splice", "lockNew",
          "copy", "transfer", "flush", "complete", "finalize", "retryOffline"}
Roles == {"source", "target"}
Codes == {0, 2, 3, 4, 5, 6, 130}

ASSUME DiskAssumption    == S \in Dev /\ T \in Dev /\ S # T /\ NoDev \notin Dev
ASSUME RunningAssumption == Running \notin Codes
ASSUME BlocksAssumption  == Blocks \in Nat \ {0}
ASSUME SwapAssumption    == SwapSteps \subseteq Steps

VARIABLES
  opts,             \* --new-ids, --force, --dry-run, and the source is MBR
  attrs,            \* the target device implements the offline attribute
  at,               \* the disk each role's number denotes now
  sourceDisk,       \* the disk behind the source handle
  target,           \* the disk behind the target handle
  content,          \* what each disk holds
  offline,          \* the persistent offline attribute of the target
  step, exit,       \* control, and the exit code
  targetModified, offlined,   \* the program's own flags
  locks,            \* whose volumes are held locked: the old table's, the new one's
  snapshot,         \* the VSS snapshot set: none, held, or reported complete
  blocks,           \* blocks copied
  fin,              \* progress of FinalizeNewIds
  cancelled,        \* g_cancelled
  said              \* what the messages claim about the target

devVars   == <<opts, attrs>>
envVars   == <<at, cancelled>>
openVars  == <<sourceDisk, target>>
diskVars  == <<content, offline>>
flagVars  == <<targetModified, offlined>>
copyVars  == <<locks, snapshot, blocks>>
vars == <<devVars, envVars, openVars, diskVars, step, exit, flagVars, copyVars,
          fin, said>>

Fin == INSTANCE FinalizeContract WITH result <- fin

Options  == [newIds: BOOLEAN, force: BOOLEAN, dryRun: BOOLEAN, mbr: BOOLEAN]
Numbers  == [Roles -> Dev \cup {NoDev}]
Tables   == {"old", "new"}
Contents == [Dev -> {"original", "destroyed", "cloned"}]
Claims   == [disk: {"nothing", "not modified", "destroyed"}, offline: BOOLEAN,
             swap: {"nothing", "offline", "online"}]
Silent == [disk |-> "nothing", offline |-> FALSE, swap |-> "nothing"]

Init ==
  /\ opts \in Options
  /\ attrs \in BOOLEAN
  /\ at = [r \in Roles |-> IF r = "source" THEN S ELSE T]
  /\ sourceDisk = NoDev /\ target = NoDev
  /\ content = [d \in Dev |-> "original"]
  /\ offline \in (IF attrs THEN BOOLEAN ELSE {FALSE})
  /\ step = "plan" /\ exit = Running
  /\ targetModified = FALSE /\ offlined = FALSE
  /\ locks = {} /\ snapshot = "none" /\ blocks = 0
  /\ fin = "running"
  /\ cancelled = FALSE
  /\ said = Silent
-----------------------------------------------------------------------------
Do(s)   == exit = Running /\ step = s
Goto(s) == step' = s /\ UNCHANGED <<exit, said>>

\* Leave with a code, outside the try block: no word on the target.
Exit(codes) ==
  /\ exit' \in codes
  /\ UNCHANGED <<devVars, envVars, openVars, diskVars, step, flagVars, copyVars,
                 fin, said>>

\* The catch block: claim a state of the target from the two flags, after
\* undoing the offline attribute of a target that is not modified; then
\* unwinding releases the locks.
Catch(code) ==
  /\ exit' = code
  /\ offline' \in (IF offlined /\ ~targetModified THEN BOOLEAN ELSE {offline})
  /\ said' = [disk    |-> IF targetModified THEN "destroyed" ELSE "not modified",
              offline |-> offlined /\ (targetModified \/ offline'),
              swap    |-> "nothing"]
  /\ locks' = {}
  /\ UNCHANGED <<devVars, envVars, openVars, content, step, flagVars, snapshot,
                 blocks, fin>>

\* An operation that touches none of the modelled state, or fails.
Pass(s, next) ==
  /\ Do(s)
  /\ Goto(next)
  /\ UNCHANGED <<devVars, envVars, openVars, diskVars, flagVars, copyVars, fin>>
-----------------------------------------------------------------------------
(* Before the try block: nothing is written, failures are not annotated.   *)

\* Elevation, enumeration, the safety gauntlet, the plan, --dry-run.
BuildPlan ==
  \/ ~opts.dryRun /\ Pass("plan", "confirm")
  \/ opts.dryRun /\ Do("plan") /\ Exit({0})
  \/ Do("plan") /\ Exit({2, 3, 5})

Confirm ==
  \/ Pass("confirm", "revalidateSource")
  \/ ~opts.force /\ Do("confirm") /\ Exit({130})

RevalidateDiskIdentity(s, role, expected, next) ==
  \/ at[role] = expected /\ Pass(s, next)
  \/ Do(s) /\ Exit({3})

RevalidateSource ==
  RevalidateDiskIdentity("revalidateSource", "source", S, "revalidateTarget")
RevalidateTargetSkipped ==   \* mutant: only the source is verified again
  Pass("revalidateTarget", "openSource")
RevalidateTarget ==
  RevalidateDiskIdentity("revalidateTarget", "target", T, "openSource")

OpenSource ==
  /\ Do("openSource")
  /\ \/ /\ at["source"] # NoDev
        /\ sourceDisk' = at["source"]
        /\ Goto("snapshot")
        /\ UNCHANGED <<devVars, envVars, target, diskVars, flagVars, copyVars, fin>>
     \/ Exit({3})

\* SnapshotSet::Create, when the source has NTFS volumes that are mounted.
TakeSnapshot ==
  /\ Do("snapshot")
  /\ \/ /\ snapshot' \in {"none", "held"}
        /\ Goto("openTarget")
        /\ UNCHANGED <<devVars, envVars, openVars, diskVars, flagVars, locks, blocks, fin>>
     \/ Exit({4})
-----------------------------------------------------------------------------
(* The try block: target preparation. *)

OpenTarget ==
  /\ Do("openTarget")
  /\ \/ /\ at["target"] # NoDev
        /\ target' = at["target"]
        /\ Goto("takeOffline")
        /\ UNCHANGED <<devVars, envVars, sourceDisk, diskVars, flagVars, copyVars, fin>>
     \/ Catch(3)

\* SetDiskOffline(true), and the flag that remembers it.
MarkedFirst ==   \* mutant: the flag is set before the IOCTL has succeeded
  offlined' = TRUE /\ offline' \in {offline, attrs}
SetOffline == attrs /\ offline' = TRUE /\ offlined' = TRUE

\* A device that rejects the attribute has its volumes locked instead.
NoFallback == "deleteLayout"   \* mutant: it is wiped and written unlocked
Fallback == "lockOld"

TakeOffline ==
  /\ Do("takeOffline")
  /\ \/ SetOffline /\ Goto("deleteLayout")
     \/ Goto(Fallback) /\ UNCHANGED <<offline, offlined>>
  /\ UNCHANGED <<devVars, envVars, openVars, content, targetModified, copyVars, fin>>

\* Fallback: lock and dismount the volumes the target has now.
LockOldVolumes ==
  /\ Do("lockOld")
  /\ \/ /\ locks' = {"old"}
        /\ Goto("deleteLayout")
        /\ UNCHANGED <<devVars, envVars, openVars, diskVars, flagVars, snapshot, blocks, fin>>
     \/ Catch(5)

\* targetModified flips before the first destructive IOCTL.
MarkLater == UNCHANGED targetModified   \* mutant: it flips with the last one
MarkModified == targetModified' = TRUE

\* A failure of the IOCTL itself is ignored.
DeleteDriveLayout ==
  /\ Do("deleteLayout")
  /\ MarkModified
  /\ content' \in {content, [content EXCEPT ![target] = "destroyed"]}
  /\ Goto("createDisk")
  /\ UNCHANGED <<devVars, envVars, openVars, offline, offlined, copyVars, fin>>

CreateDiskStyle ==
  /\ Do("createDisk")
  /\ \/ /\ content' = [content EXCEPT ![target] = "destroyed"]
        /\ Goto("setLayout")
        /\ UNCHANGED <<devVars, envVars, openVars, offline, flagVars, copyVars, fin>>
     \/ Catch(5)

\* The layout, then the MBR bootstrap; then the volumes that surface are
\* locked, but only when the target could not be taken offline.
NotIsolated == "copy"   \* mutant: a half-copied file system may be mounted
AfterSplice == IF offlined THEN "copy" ELSE "lockNew"

SetDriveLayout ==
  \/ Pass("setLayout", IF opts.mbr THEN "splice" ELSE AfterSplice)
  \/ Do("setLayout") /\ Catch(5)

SpliceMbrBootstrap ==
  \/ Pass("splice", AfterSplice)
  \/ Do("splice") /\ Catch(5)

LockNewVolumes ==
  /\ Do("lockNew")
  /\ \/ /\ locks' = locks \cup {"new"}
        /\ Goto("copy")
        /\ UNCHANGED <<devVars, envVars, openVars, diskVars, flagVars, snapshot, blocks, fin>>
     \/ Catch(5)
-----------------------------------------------------------------------------
(* The try block: copy and finalization. *)

\* CheckCancelled, on entering each block.
CheckedAtStart == cancelled /\ blocks = 0   \* mutant: once, before the loop
CheckCancelled == cancelled

\* What follows the n-th block.
OneMoreBlock(n) == IF n > Blocks THEN "flush" ELSE "copy"   \* mutant
CompleteUnflushed(n) == IF n = Blocks THEN "complete" ELSE "copy"   \* mutant
AfterBlock(n) == IF n = Blocks THEN "flush" ELSE "copy"

\* CheckCancelled, then one block is read from the source and written, during
\* which Ctrl+C goes unnoticed.
CopyBlock ==
  \/ CheckCancelled /\ Do("copy") /\ Catch(130)
  \/ ~CheckCancelled /\ Pass("copy", "transfer")
  \/ /\ Do("transfer")
     /\ blocks' = blocks + 1
     /\ Goto(AfterBlock(blocks'))
     /\ UNCHANGED <<devVars, envVars, openVars, diskVars, flagVars, locks, snapshot, fin>>
  \/ Do("transfer") /\ Catch(5)

Flush ==
  /\ Do("flush")
  /\ \/ /\ content' = [content EXCEPT ![target] = "cloned"]
        /\ Goto("complete")
        /\ UNCHANGED <<devVars, envVars, openVars, offline, flagVars, copyVars, fin>>
     \/ Catch(5)

\* SnapshotSet::Complete never throws; then the locks are dropped.
Complete ==
  /\ Do("complete")
  /\ snapshot' = IF snapshot = "held" THEN "completed" ELSE snapshot
  /\ locks' = {}
  /\ Goto(IF opts.newIds THEN "finalize" ELSE "retryOffline")
  /\ UNCHANGED <<devVars, envVars, openVars, diskVars, flagVars, blocks, fin>>

\* FinalizeNewIds rethrows what it catches as a finalization failure.
CodeUnwrapped == 5   \* mutant: an error of SetDiskOffline keeps its own code
FinalizeFailure == 6

\* FinalizeNewIds, by its contract, and the return or throw that follows.
Finalize ==
  /\ Do("finalize")
  /\ \/ /\ Fin!Next
        /\ Goto("finalize")
        /\ UNCHANGED <<opts, envVars, openVars, content, flagVars, copyVars>>
     \/ fin = "ok" /\ Exit({0})
     \/ fin = "failed" /\ Catch(FinalizeFailure)

\* PrintSwapInstructions reports the flag.
ClaimsOffline == "offline"   \* mutant: whatever the device has accepted
SwapClaim == IF offlined' THEN "offline" ELSE "online"

\* The offline attribute is tried again, then PrintSwapInstructions.
RetryOffline ==
  /\ Do("retryOffline")
  /\ \/ ~offlined /\ SetOffline
     \/ UNCHANGED <<offline, offlined>>
  /\ said' = [said EXCEPT !.swap = SwapClaim]
  /\ exit' = 0
  /\ UNCHANGED <<devVars, envVars, openVars, content, step, targetModified, copyVars, fin>>

Proceed ==
  \/ BuildPlan \/ Confirm \/ RevalidateSource \/ RevalidateTarget \/ OpenSource
  \/ TakeSnapshot \/ OpenTarget \/ TakeOffline \/ LockOldVolumes
  \/ DeleteDriveLayout \/ CreateDiskStyle \/ SetDriveLayout
  \/ SpliceMbrBootstrap \/ LockNewVolumes \/ CopyBlock \/ Flush \/ Complete
  \/ Finalize \/ RetryOffline
-----------------------------------------------------------------------------
\* CtrlHandler: the flag is set and the process goes on.
Cancel ==
  /\ exit = Running
  /\ ~cancelled
  /\ cancelled' = TRUE
  /\ UNCHANGED <<devVars, at, openVars, diskVars, step, exit, flagVars, copyVars,
                 fin, said>>

\* Disks come and go: the numbers of the roles denote no disk, other ones, or
\* each other's.  Once a handle is open it stays bound to its disk.
SwapDisk ==
  /\ exit = Running
  /\ step \in SwapSteps
  /\ at' \in {n \in Numbers : n["source"] = n["target"] => n["source"] = NoDev}
  /\ UNCHANGED <<devVars, cancelled, openVars, diskVars, step, exit, flagVars,
                 copyVars, fin, said>>

Next == Proceed \/ Cancel \/ SwapDisk

\* The thread is scheduled, the user answers the prompt and I/O completes.
Spec == Init /\ [][Next]_vars /\ WF_vars(Proceed)
-----------------------------------------------------------------------------
(* Properties *)

\* The variables stay in their types.
TypeOK ==
  /\ opts \in Options
  /\ attrs \in BOOLEAN
  /\ at \in Numbers
  /\ sourceDisk \in Dev \cup {NoDev}
  /\ target \in Dev \cup {NoDev}
  /\ content \in Contents
  /\ offline \in BOOLEAN
  /\ step \in Steps
  /\ exit \in Codes \cup {Running}
  /\ targetModified \in BOOLEAN /\ offlined \in BOOLEAN
  /\ locks \subseteq Tables
  /\ snapshot \in {"none", "held", "completed"}
  /\ blocks \in 0..Blocks
  /\ fin \in {"running", "online", "ok", "failed"}
  /\ cancelled \in BOOLEAN
  /\ said \in Claims

\* No disk but the approved target is ever written, the source least of all.
ApprovedTargetOnly == \A d \in Dev : content[d] # "original" => d = T

\* Nor is any disk but the approved source read: what RevalidateDiskIdentity
\* is for when disks are swapped while the prompt waits.
ApprovedDisksOnly == sourceDisk \in {NoDev, S} /\ ApprovedTargetOnly

\* "was NOT modified" is said only when no disk has been written, although
\* the flag it is read from is set apart from the IOCTLs that write.
NotModifiedNoteTrue ==
  said.disk = "not modified" => \A d \in Dev : content[d] = "original"

\* A failure before finalization says that the target remains OFFLINE exactly
\* when this run has set the attribute and it is still set.
OfflineNoteExact ==
  exit \in {3, 5, 130} /\ said.disk # "nothing" =>
    (said.offline <=> offlined /\ offline)

\* The closing instructions say that the clone was left offline only when it
\* is: its duplicate identity is not online beside the source.
SwapInstructionsTrue == said.swap = "offline" => offline

\* The target is isolated: offline, or its old volumes are locked from the wipe
\* on and the new ones too while blocks are written; and no lock is left to
\* block what finalization mounts.
Wiping  == {"deleteLayout", "createDisk", "setLayout", "splice", "lockNew"}
Writing == {"copy", "transfer", "flush"}
TargetIsolated ==
  /\ exit = Running /\ step \in Wiping => offline \/ "old" \in locks
  /\ exit = Running /\ step \in Writing => offline \/ locks = Tables
  /\ step \in {"finalize", "retryOffline"} \/ exit # Running => locks = {}

\* The VSS writers are told of a successful backup only once the whole clone
\* is on the disk (SnapshotSet::Complete).
WritersToldTruth ==
  snapshot = "completed" => content[target] = "cloned" /\ blocks = Blocks

\* Ctrl+C before a block ends the run with 130.  During the last block's I/O
\* it comes too late, and an I/O error is reported before it.
CancelledCopyAborts ==
  (cancelled /\ step = "copy" /\ exit = Running) ~> exit = 130

\* A run keeps the promises of the exit-code table.
TargetBecame ==
  IF target = NoDev THEN "untouched"
  ELSE IF content[target] = "original" THEN "untouched" ELSE content[target]
Exits == INSTANCE ExitContract
           WITH dryRun <- opts.dryRun, target <- TargetBecame, outcome <- exit
ImplementsExitContract == Exits!Spec

(* What the documentation says and the code does not do. *)

\* README: the annotation includes "whether the target was left with the
\* persistent OFFLINE attribute".
OfflineNoteTrue == said.offline => offline
=============================================================================
