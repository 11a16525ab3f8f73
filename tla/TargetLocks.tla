---------------------------- MODULE TargetLocks -----------------------------
(***************************************************************************)
(* The fallback of CmdClone (main.cpp) for a target that cannot be taken   *)
(* offline: the volumes it has are locked and dismounted before the wipe,  *)
(* the volumes that surface with the new partition table after it.         *)
(* Meanwhile the mount manager surfaces volumes and other programs open    *)
(* them.                                                                   *)
(***************************************************************************)
EXTENDS Naturals

CONSTANTS
  Old, New,      \* volumes of the target, by GUID path: before, after the wipe
  Attempts,      \* rounds of the polling loop; 10 in the code
  Blocks,        \* bound: I/O blocks of the copy
  SurfaceSteps,  \* the steps of the program during which volumes surface
  Running        \* the process has not exited

Vol   == Old \cup New
Steps == {"enumerate", "lockOld", "deleteLayout", "createDisk", "setLayout",
          "splice", "round", "poll", "check", "copy"}
Codes == {0, 5, 130}

ASSUME VolumeAssumption  == Old \cap New = {}
ASSUME BoundAssumption   == Attempts \in Nat \ {0} /\ Blocks \in Nat \ {0}
ASSUME SurfaceAssumption == SurfaceSteps \subseteq Steps
ASSUME RunningAssumption == Running \notin Codes

VARIABLES
  mbr,          \* the source is an MBR disk
  present,      \* the volumes the target has now
  inUse,        \* those another program has open
  step, exit,
  handles,      \* lockedVolumes: the handles that hold a lock
  lockedPaths,  \* lockedGuidPaths: the volumes the polling has locked
  todo,         \* what is left of the enumeration being walked
  attempt, allLocked,
  blocks

envVars  == <<mbr, present, inUse>>
pollVars == <<lockedPaths, todo, attempt, allLocked>>
vars == <<envVars, step, exit, handles, pollVars, blocks>>

Init ==
  /\ mbr \in BOOLEAN
  /\ present = Old
  /\ inUse \in SUBSET Old
  /\ step = "enumerate" /\ exit = Running
  /\ handles = {} /\ lockedPaths = {} /\ todo = {}
  /\ attempt = 0 /\ allLocked = FALSE
  /\ blocks = 0
-----------------------------------------------------------------------------
Do(s) == exit = Running /\ step = s
Goto(s) == step' = s /\ UNCHANGED exit

\* Failure, cancellation or completion: the handles are closed.
Release == handles' = {}
Leave(code) ==
  /\ exit' = code
  /\ Release
  /\ UNCHANGED <<envVars, step, pollVars, blocks>>

\* LockAndDismountVolume fails on a volume that anybody has open.
LockUnasked(v) == v \in present   \* mutant: dismounted without the lock
CanLock(v) == v \in present \ (inUse \cup handles)
LockAndDismountVolume(v) == handles' = handles \cup {v}

Enumerate ==
  /\ Do("enumerate")
  /\ todo' = present
  /\ Goto("lockOld")
  /\ UNCHANGED <<envVars, handles, lockedPaths, attempt, allLocked, blocks>>

\* Before the wipe a volume that cannot be locked ends the run.
LockOld ==
  /\ Do("lockOld")
  /\ \/ \E v \in todo :
          \/ /\ CanLock(v)
             /\ LockAndDismountVolume(v)
             /\ todo' = todo \ {v}
             /\ UNCHANGED <<envVars, step, exit, lockedPaths, attempt, allLocked, blocks>>
          \/ Leave(5)
     \/ todo = {} /\ Goto("deleteLayout") /\ UNCHANGED <<envVars, handles, pollVars, blocks>>

\* The old volumes are gone once the table is, their handles are not.  A
\* failure to delete it is ignored.
DeleteDriveLayout ==
  /\ Do("deleteLayout")
  /\ present' \in {present, {}}
  /\ inUse' = inUse \cap present'
  /\ Goto("createDisk")
  /\ UNCHANGED <<mbr, handles, pollVars, blocks>>

CreateDiskStyle ==
  /\ Do("createDisk")
  /\ \/ /\ present' = {} /\ inUse' = {}
        /\ Goto("setLayout")
        /\ UNCHANGED <<mbr, handles, pollVars, blocks>>
     \/ Leave(5)

NoPolling == "copy"   \* mutant: the new volumes are forgotten
AfterLayout == "round"

\* UpdateDiskProperties, which follows, may fail unnoticed.
SetDriveLayout ==
  /\ Do("setLayout")
  /\ \/ /\ Goto(IF mbr THEN "splice" ELSE AfterLayout)
        /\ UNCHANGED <<envVars, handles, pollVars, blocks>>
     \/ Leave(5)

\* The bootstrap is read from the source and written to the online target.
SpliceMbrBootstrap ==
  /\ Do("splice")
  /\ \/ Goto(AfterLayout) /\ UNCHANGED <<envVars, handles, pollVars, blocks>>
     \/ Leave(5)

\* A second of sleep, then the volumes of the target not yet locked.
BeginRound ==
  /\ Do("round")
  /\ todo' = present \ lockedPaths
  /\ allLocked' = TRUE
  /\ Goto("poll")
  /\ UNCHANGED <<envVars, handles, lockedPaths, attempt, blocks>>

\* A failure is remembered for the next round.
PollVolume ==
  /\ Do("poll")
  /\ \E v \in todo :
       /\ todo' = todo \ {v}
       /\ \/ /\ CanLock(v)
             /\ LockAndDismountVolume(v)
             /\ lockedPaths' = lockedPaths \cup {v}
             /\ UNCHANGED allLocked
          \/ allLocked' = FALSE /\ UNCHANGED <<handles, lockedPaths>>
  /\ UNCHANGED <<envVars, step, exit, attempt, blocks>>

\* The loop ends after the last attempt, or when all is locked.
LoopEnds == (allLocked /\ attempt >= 2) \/ attempt + 1 >= Attempts

SameAttempt == attempt   \* mutant: the rounds are not counted
NextAttempt == attempt + 1

EndRound ==
  /\ Do("poll")
  /\ todo = {}
  /\ \/ LoopEnds /\ Goto("check") /\ UNCHANGED attempt
     \/ ~LoopEnds /\ Goto("round") /\ attempt' = NextAttempt
  /\ UNCHANGED <<envVars, handles, lockedPaths, todo, allLocked, blocks>>

\* The last enumeration: a volume without a lock ends the run.
CheckUnlocked == {}   \* mutant: the loop is trusted
Unlocked == present \ lockedPaths

CheckLocked ==
  /\ Do("check")
  /\ \/ /\ Unlocked = {}
        /\ Goto("copy")
        /\ UNCHANGED <<envVars, handles, pollVars, blocks>>
     \/ Unlocked # {} /\ Leave(5)

CopyBlock ==
  /\ Do("copy")
  /\ \/ /\ blocks < Blocks
        /\ blocks' = blocks + 1
        /\ UNCHANGED <<envVars, step, exit, handles, pollVars>>
     \/ blocks < Blocks /\ (Leave(5) \/ Leave(130))
     \/ blocks = Blocks /\ Leave(0)

Proceed ==
  \/ Enumerate \/ LockOld \/ DeleteDriveLayout \/ CreateDiskStyle \/ SetDriveLayout
  \/ SpliceMbrBootstrap \/ BeginRound \/ PollVolume \/ EndRound \/ CheckLocked \/ CopyBlock
-----------------------------------------------------------------------------
(* The mount manager and other programs. *)

Surface ==
  /\ exit = Running
  /\ step \in SurfaceSteps
  /\ \E v \in New \ present : present' = present \cup {v}
  /\ UNCHANGED <<mbr, inUse, step, exit, handles, pollVars, blocks>>

\* A volume that is locked cannot be opened.
ToggleUse ==
  /\ exit = Running
  /\ \E v \in present \ handles :
       inUse' = IF v \in inUse THEN inUse \ {v} ELSE inUse \cup {v}
  /\ UNCHANGED <<mbr, present, step, exit, handles, pollVars, blocks>>

Next == Proceed \/ Surface \/ ToggleUse

\* The thread is scheduled, whatever other programs do.
Spec == Init /\ [][Next]_vars /\ WF_vars(Proceed)
-----------------------------------------------------------------------------
(* Properties *)

\* The variables stay in their types.
TypeOK ==
  /\ mbr \in BOOLEAN
  /\ present \subseteq Vol /\ inUse \subseteq present
  /\ step \in Steps /\ exit \in Codes \cup {Running}
  /\ handles \subseteq Vol /\ lockedPaths \subseteq New /\ todo \subseteq Vol
  /\ attempt \in 0..(Attempts - 1)
  /\ allLocked \in BOOLEAN
  /\ blocks \in 0..Blocks

\* While blocks are written every volume of the target is locked by this
\* program and open in no other, however volumes surfaced and were opened and
\* closed between the rounds of the polling.
NobodyElseWrites ==
  /\ TypeOK
  /\ step = "copy" /\ exit = Running => present \subseteq handles /\ inUse = {}

\* The partition table is never replaced under a volume another program uses.
WipeExclusive ==
  [][step = "deleteLayout" /\ step' # step => inUse = {} /\ present \subseteq handles]_vars

\* A lock is kept until the end of the run, and not beyond it.
LocksKept ==
  [][IF exit' = Running THEN handles \subseteq handles' ELSE handles' = {}]_vars

\* The old volumes are locked from before the wipe on, and every lock until the
\* run ends.
LocksHold == WipeExclusive /\ LocksKept

\* The wait for the volumes ends, even if they are never free.
Terminates == <>(exit # Running)

\* Each step is one of CmdClone, whose steps lockOld and lockNew are detailed
\* here, or none: the target is not wiped before its old volumes are locked,
\* nor written before the new ones are, which are locked by then, and every
\* failure has the code and the note of its place.  What CmdClone does from the
\* first block on is left to it.
Wiping == step \notin {"enumerate", "lockOld", "deleteLayout"}
CloneStep ==
  CASE step = "enumerate" -> "lockOld"
    [] step \in {"round", "poll", "check"} -> "lockNew"
    [] OTHER -> step
Failed == exit = 5 /\ step # "copy"
Locked(volumes) == volumes \subseteq handles \/ exit # Running
CloneLocks ==
  IF Failed THEN {}
  ELSE {t \in {"old", "new"} :
          IF t = "old" THEN step \notin {"enumerate", "lockOld"} /\ Locked(Old)
          ELSE step = "copy" /\ Locked(present)}
Clone == INSTANCE CmdClone WITH
  Dev <- {"source", "target"}, S <- "source", T <- "target", NoDev <- "none",
  SwapSteps <- {},
  opts <- [newIds |-> FALSE, force |-> FALSE, dryRun |-> FALSE, mbr |-> mbr],
  attrs <- FALSE, offline <- FALSE, offlined <- FALSE, cancelled <- FALSE,
  at <- [r \in {"source", "target"} |-> r], sourceDisk <- "source", target <- "target",
  content <- [d \in {"source", "target"} |->
    IF d = "source" \/ ~Wiping \/ (step = "createDisk" /\ present # {})
    THEN "original" ELSE "destroyed"],
  step <- CloneStep, exit <- IF Failed THEN 5 ELSE Running,
  targetModified <- Wiping,
  locks <- CloneLocks,
  snapshot <- "none", blocks <- 0, fin <- "running",
  said <- [disk |-> IF ~Failed THEN "nothing" ELSE IF Wiping THEN "destroyed" ELSE "not modified",
           offline |-> FALSE, swap |-> "nothing"]
DetailsCmdClone == [][Clone!Next]_(Clone!vars)
=============================================================================
