------------------------- MODULE TargetLocksProofs -------------------------
(***************************************************************************)
(* Proofs about TargetLocks for any volumes, any number of rounds of the   *)
(* polling and any number of blocks.                                       *)
(***************************************************************************)
EXTENDS TargetLocks, TLAPS

\* The tuples that abbreviate what an action leaves unchanged.
USE DEF vars, envVars, pollVars

-----------------------------------------------------------------------------
(* The inductive invariant: what each step may rely on about the locks.     *)

\* A volume is never both locked by this program and open in another, and
\* what the polling believes to be locked is.
LocksInv ==
  /\ inUse \cap handles = {}
  /\ exit = Running => lockedPaths \subseteq handles

\* What was enumerated before the wipe is locked or yet to be locked.
WipeInv ==
  exit = Running =>
    /\ step = "lockOld" => present \subseteq handles \cup todo
    /\ step = "deleteLayout" => present \subseteq handles

\* During the copy nothing is present but what the last enumeration checked.
CopyInv == exit = Running /\ step = "copy" => present \subseteq lockedPaths

\* Once the new table has been begun only volumes of it are there to be locked.
NewInv ==
  /\ step \notin {"enumerate", "lockOld", "deleteLayout", "createDisk"} => present \subseteq New
  /\ step = "poll" => todo \subseteq New

\* The old volumes' handles outlive their volumes.
OldInv ==
  exit = Running =>
    /\ step = "enumerate" => Old \subseteq present
    /\ step = "lockOld" => Old \subseteq handles \cup todo
    /\ step \notin {"enumerate", "lockOld"} => Old \subseteq handles

IInv == TypeOK /\ LocksInv /\ WipeInv /\ CopyInv /\ NewInv /\ OldInv

\* When volumes must not surface: on the old table once it was enumerated, and
\* after the last enumeration of the new one.
Settled == {"lockOld", "deleteLayout", "copy"}
-----------------------------------------------------------------------------
\* Initially nothing is locked, and nothing is relied on.
LEMMA InitIInv == Init => IInv
<1> SUFFICES ASSUME Init PROVE IInv
  OBVIOUS
<1>1. attempt \in 0..(Attempts - 1) /\ blocks \in 0..Blocks
  BY BoundAssumption DEF Init
<1>2. TypeOK
  BY <1>1 DEF Init, TypeOK, Vol, Steps
<1> QED BY <1>2 DEF Init, IInv, LocksInv, WipeInv, CopyInv, NewInv, OldInv

\* Leaving closes every handle (the vector lockedVolumes of main.cpp), so that
\* nothing is relied on any more.
LEMMA LeaveKeeps ==
  ASSUME IInv, NEW code \in Codes, Leave(code)
  PROVE  IInv'
BY RunningAssumption
DEF Leave, Release, IInv, TypeOK, LocksInv, WipeInv, CopyInv, NewInv, OldInv, Codes

\* LockAndDismountVolume (volumes.cpp) locks a volume nobody has open.
LEMMA LockKeeps ==
  ASSUME IInv, NEW v, CanLock(v), LockAndDismountVolume(v), UNCHANGED envVars
  PROVE  /\ handles' \subseteq Vol /\ handles \subseteq handles'
         /\ v \in handles'
         /\ (inUse \cap handles = {})'
BY DEF CanLock, LockAndDismountVolume, IInv, TypeOK, LocksInv

\* No step of the program or of other programs breaks the invariant, if
\* volumes surface at no step of Settled.
LEMMA StepKeeps ==
  ASSUME SurfaceSteps \cap Settled = {}, IInv, [Next]_vars
  PROVE  IInv'
<1> USE DEF Do, Goto
<1>1. CASE Enumerate
  BY <1>1 DEF Enumerate, IInv, TypeOK, LocksInv, WipeInv, CopyInv, NewInv, OldInv, Steps
<1>2. CASE LockOld
  <2>1. CASE \E v \in todo :
               /\ CanLock(v)
               /\ LockAndDismountVolume(v)
               /\ todo' = todo \ {v}
               /\ UNCHANGED <<envVars, step, exit, lockedPaths, attempt, allLocked, blocks>>
    <3>1. PICK v \in todo :
               /\ CanLock(v)
               /\ LockAndDismountVolume(v)
               /\ todo' = todo \ {v}
               /\ UNCHANGED <<envVars, step, exit, lockedPaths, attempt, allLocked, blocks>>
      BY <2>1
    <3>2. /\ handles' \subseteq Vol /\ handles \subseteq handles'
          /\ v \in handles' /\ (inUse \cap handles = {})'
      BY <3>1, LockKeeps
    <3> QED
      BY <1>2, <3>1, <3>2 DEF LockOld, IInv, TypeOK, LocksInv, WipeInv, CopyInv, NewInv, OldInv
  <2>2. CASE Leave(5)
    BY <2>2, LeaveKeeps DEF Codes
  <2>3. CASE todo = {} /\ Goto("deleteLayout") /\ UNCHANGED <<envVars, handles, pollVars, blocks>>
    BY <1>2, <2>3 DEF LockOld, IInv, TypeOK, LocksInv, WipeInv, CopyInv, NewInv, OldInv, Steps
  <2> QED BY <1>2, <2>1, <2>2, <2>3 DEF LockOld
<1>3. CASE DeleteDriveLayout
  <2>1. present' \subseteq present
    BY <1>3 DEF DeleteDriveLayout
  <2> QED
    BY <1>3, <2>1 DEF DeleteDriveLayout, IInv, TypeOK, LocksInv, WipeInv, CopyInv, NewInv, OldInv, Steps
<1>4. CASE CreateDiskStyle
  <2>1. CASE Leave(5)
    BY <2>1, LeaveKeeps DEF Codes
  <2>2. CASE ~Leave(5)
    BY <1>4, <2>2 DEF CreateDiskStyle, IInv, TypeOK, LocksInv, WipeInv, CopyInv, NewInv, OldInv, Steps
  <2> QED BY <2>1, <2>2
<1>5. CASE SetDriveLayout
  <2>1. CASE Leave(5)
    BY <2>1, LeaveKeeps DEF Codes
  <2>2. CASE ~Leave(5)
    BY <1>5, <2>2 DEF SetDriveLayout, AfterLayout, IInv, TypeOK, LocksInv, WipeInv,
                      CopyInv, NewInv, OldInv, Steps
  <2> QED BY <2>1, <2>2
<1>6. CASE BeginRound
  BY <1>6 DEF BeginRound, IInv, TypeOK, LocksInv, WipeInv, CopyInv, NewInv, OldInv, Steps
<1>7. CASE PollVolume
  <2>1. PICK v \in todo :
          /\ todo' = todo \ {v}
          /\ \/ /\ CanLock(v)
                /\ LockAndDismountVolume(v)
                /\ lockedPaths' = lockedPaths \cup {v}
                /\ UNCHANGED allLocked
             \/ allLocked' = FALSE /\ UNCHANGED <<handles, lockedPaths>>
    BY <1>7 DEF PollVolume
  <2>2. UNCHANGED <<envVars, step, exit, attempt, blocks>>
    BY <1>7 DEF PollVolume
  <2>3. CASE allLocked' = FALSE /\ UNCHANGED <<handles, lockedPaths>>
    BY <1>7, <2>1, <2>2, <2>3 DEF PollVolume, IInv, TypeOK, LocksInv, WipeInv, CopyInv, NewInv, OldInv
  <2>4. CASE /\ CanLock(v)
             /\ LockAndDismountVolume(v)
             /\ lockedPaths' = lockedPaths \cup {v}
             /\ UNCHANGED allLocked
    <3>1. /\ handles' \subseteq Vol /\ handles \subseteq handles'
          /\ v \in handles' /\ (inUse \cap handles = {})'
      BY <2>2, <2>4, LockKeeps
    <3> QED
      BY <1>7, <2>1, <2>2, <2>4, <3>1
      DEF PollVolume, IInv, TypeOK, LocksInv, WipeInv, CopyInv, NewInv, OldInv
  <2> QED BY <2>1, <2>3, <2>4
<1>8. CASE EndRound
  <2>1. attempt' \in 0..(Attempts - 1)
    BY <1>8, BoundAssumption DEF EndRound, LoopEnds, NextAttempt, IInv, TypeOK
  <2> QED
    BY <1>8, <2>1 DEF EndRound, IInv, TypeOK, LocksInv, WipeInv, CopyInv, NewInv, OldInv, Steps
<1>9. CASE CheckLocked
  <2>1. CASE Leave(5)
    BY <2>1, LeaveKeeps DEF Codes
  <2>2. CASE ~Leave(5)
    BY <1>9, <2>2 DEF CheckLocked, Unlocked, IInv, TypeOK, LocksInv, WipeInv, CopyInv, NewInv, OldInv, Steps
  <2> QED BY <2>1, <2>2
<1>10. CASE CopyBlock
  <2>1. CASE Leave(5) \/ Leave(130) \/ Leave(0)
    BY <2>1, LeaveKeeps DEF Codes
  <2>2. CASE blocks < Blocks /\ blocks' = blocks + 1
             /\ UNCHANGED <<envVars, step, exit, handles, pollVars>>
    <3>1. blocks' \in 0..Blocks
      BY <2>2, BoundAssumption DEF IInv, TypeOK
    <3> QED
      BY <2>2, <3>1 DEF IInv, TypeOK, LocksInv, WipeInv, CopyInv, NewInv, OldInv
  <2> QED BY <1>10, <2>1, <2>2 DEF CopyBlock
<1>11. CASE Surface
  <2>1. step \notin Settled
    BY <1>11 DEF Surface
  <2> QED
    BY <1>11, <2>1
    DEF Surface, Settled, IInv, TypeOK, LocksInv, WipeInv, CopyInv, NewInv, OldInv, Vol
<1>12. CASE ToggleUse
  BY <1>12 DEF ToggleUse, IInv, TypeOK, LocksInv, WipeInv, CopyInv, NewInv, OldInv
<1>13. CASE UNCHANGED vars
  BY <1>13 DEF IInv, TypeOK, LocksInv, WipeInv, CopyInv, NewInv, OldInv
<1>14. CASE SpliceMbrBootstrap
  <2>1. CASE Leave(5)
    BY <2>1, LeaveKeeps DEF Codes
  <2>2. CASE ~Leave(5)
    BY <1>14, <2>2 DEF SpliceMbrBootstrap, AfterLayout, IInv, TypeOK, LocksInv, WipeInv,
                       CopyInv, NewInv, OldInv, Steps
  <2> QED BY <2>1, <2>2
<1> QED
  BY <1>1, <1>2, <1>3, <1>4, <1>5, <1>6, <1>7, <1>8, <1>9, <1>10, <1>11, <1>12,
     <1>13, <1>14
  DEF Next, Proceed
-----------------------------------------------------------------------------
(* The properties.                                                          *)

THEOREM Invariance ==
  ASSUME SurfaceSteps \cap Settled = {}
  PROVE  Spec => []IInv
<1>1. IInv /\ [Next]_vars => IInv'
  BY StepKeeps
<1> QED BY <1>1, InitIInv, PTL DEF Spec

\* If no volume surfaces after the last enumeration, every volume of the
\* online target is locked and open in no other program while CmdClone copies.
THEOREM NobodyElseWritesTarget ==
  ASSUME SurfaceSteps \cap Settled = {}
  PROVE  Spec => []NobodyElseWrites
<1>1. IInv => NobodyElseWrites
  BY DEF IInv, TypeOK, LocksInv, CopyInv, NobodyElseWrites
<1> QED BY <1>1, Invariance, PTL

\* Only DeleteDriveLayout ends the step before the wipe, and by then every
\* volume is locked, which none in use can be.
LEMMA WipeIsExclusive ==
  ASSUME IInv, Next, step = "deleteLayout", step' # step
  PROVE  inUse = {} /\ present \subseteq handles
<1>1. exit = Running
  BY DEF Next, Proceed, Enumerate, LockOld, DeleteDriveLayout, CreateDiskStyle,
         SetDriveLayout, SpliceMbrBootstrap, BeginRound, PollVolume, EndRound, CheckLocked, CopyBlock,
         Surface, ToggleUse, Do
<1> QED BY <1>1 DEF IInv, TypeOK, LocksInv, WipeInv

\* A lock is given up by Leave only, which gives up all.
LEMMA LocksAreKept ==
  ASSUME IInv, Next
  PROVE  IF exit' = Running THEN handles \subseteq handles' ELSE handles' = {}
<1> USE DEF Do, Goto
<1>1. ASSUME NEW code \in Codes, Leave(code)
      PROVE  exit' # Running /\ handles' = {}
  BY <1>1, RunningAssumption DEF Leave, Release
<1>2. CASE LockOld
  BY <1>1, <1>2 DEF LockOld, LockAndDismountVolume, Codes
<1>3. CASE CreateDiskStyle \/ SetDriveLayout \/ SpliceMbrBootstrap
  BY <1>1, <1>3 DEF CreateDiskStyle, SetDriveLayout, SpliceMbrBootstrap, Codes
<1>4. CASE PollVolume
  BY <1>4 DEF PollVolume, LockAndDismountVolume
<1>5. CASE CheckLocked
  BY <1>1, <1>5 DEF CheckLocked, Codes
<1>6. CASE CopyBlock
  BY <1>1, <1>6 DEF CopyBlock, Codes
<1>7. CASE Enumerate \/ DeleteDriveLayout \/ BeginRound \/ EndRound \/ Surface \/ ToggleUse
  BY <1>7 DEF Enumerate, DeleteDriveLayout, BeginRound, EndRound, Surface, ToggleUse
<1> QED BY <1>2, <1>3, <1>4, <1>5, <1>6, <1>7 DEF Next, Proceed

\* The partition table is replaced under locked volumes only, and a lock is
\* kept until CmdClone ends, however volumes surface and are opened meanwhile.
THEOREM LocksAreHeld ==
  ASSUME SurfaceSteps \cap Settled = {}
  PROVE  Spec => LocksHold
<1>1. IInv /\ [Next]_vars =>
        [step = "deleteLayout" /\ step' # step => inUse = {} /\ present \subseteq handles]_vars
  BY WipeIsExclusive
<1>2. IInv /\ [Next]_vars =>
        [IF exit' = Running THEN handles \subseteq handles' ELSE handles' = {}]_vars
  BY LocksAreKept
<1>3. Spec => WipeExclusive
  BY <1>1, Invariance, PTL DEF Spec, WipeExclusive
<1>4. Spec => LocksKept
  BY <1>2, Invariance, PTL DEF Spec, LocksKept
<1> QED BY <1>3, <1>4 DEF LocksHold
-----------------------------------------------------------------------------
(* Each step is one of CmdClone or none.                                    *)

USE DEF Clone!vars, Clone!devVars, Clone!envVars, Clone!openVars, Clone!diskVars,
        Clone!flagVars, Clone!copyVars

\* The locks that CmdClone holds at each step, which the handles agree with.
HeldLocks ==
  IF Failed \/ step \in {"enumerate", "lockOld"} THEN {}
  ELSE IF step = "copy" THEN {"old", "new"} ELSE {"old"}

LEMMA LocksAgree == IInv => CloneLocks = HeldLocks
<1> SUFFICES ASSUME IInv, ~Failed PROVE CloneLocks = HeldLocks
  BY DEF CloneLocks, HeldLocks
<1>1. step \notin {"enumerate", "lockOld"} => Locked(Old)
  BY DEF IInv, OldInv, Locked
<1>2. step = "copy" => Locked(present)
  BY DEF IInv, LocksInv, CopyInv, Locked
<1> QED BY <1>1, <1>2 DEF CloneLocks, HeldLocks

\* Leaving with a failure is the catch block of CmdClone, wherever it happens.
LEMMA LeaveIsCatch ==
  ASSUME exit = Running, step \in Steps \ {"enumerate", "copy"}, Leave(5)
  PROVE  Clone!Catch(5)
<1>1. exit' = 5 /\ UNCHANGED <<mbr, step, present>>
  BY DEF Leave
<1>2. ~Failed /\ Failed'
  BY <1>1, RunningAssumption DEF Failed, Codes
<1>3. CloneStep' = CloneStep /\ Wiping' = Wiping
  BY <1>1 DEF CloneStep, Wiping
<1>4. CloneLocks' = {}
  BY <1>2 DEF CloneLocks
<1> QED BY <1>1, <1>2, <1>3, <1>4 DEF Clone!Catch

\* Locking one by one, the rounds of the polling and other programs are no steps
\* of CmdClone; the end of a loop, each IOCTL and each failure is one.
LEMMA StepDetails ==
  ASSUME "createDisk" \notin SurfaceSteps, IInv, IInv', Next
  PROVE  Clone!Next \/ UNCHANGED Clone!vars
<1>0. CloneLocks = HeldLocks /\ CloneLocks' = HeldLocks'
  <2>1. (IInv => CloneLocks = HeldLocks)'
    BY LocksAgree, PTL
  <2> QED BY <2>1, LocksAgree
<1> USE <1>0 DEF Do, Goto, HeldLocks
<1> USE RunningAssumption DEF Codes
<1>1. CASE Enumerate
  BY <1>1 DEF Enumerate, CloneStep, Wiping, Failed
<1>2. CASE LockOld
  <2>1. CASE Leave(5)
    <3>1. Clone!Catch(5) /\ CloneStep = "lockOld" /\ ~Failed
      BY <1>2, <2>1, LeaveIsCatch DEF LockOld, Steps, CloneStep, Failed
    <3> QED BY <3>1 DEF Clone!Next, Clone!Proceed, Clone!LockOldVolumes, Clone!Do
  <2>2. CASE step' = "deleteLayout" /\ UNCHANGED <<mbr, exit, present>>
    BY <1>2, <2>2 DEF LockOld, CloneStep, Wiping, Failed, Clone!Next, Clone!Proceed,
       Clone!LockOldVolumes, Clone!Do, Clone!Goto
  <2>3. CASE UNCHANGED <<mbr, step, exit, present>>
    BY <2>3 DEF CloneStep, Wiping, Failed
  <2> QED BY <1>2, <2>1, <2>2, <2>3 DEF LockOld
<1>3. CASE DeleteDriveLayout
  BY <1>3 DEF DeleteDriveLayout, CloneStep, Wiping, Failed, Clone!Next, Clone!Proceed,
     Clone!DeleteDriveLayout, Clone!MarkModified, Clone!Do, Clone!Goto
<1>4. CASE CreateDiskStyle
  <2>1. CASE Leave(5)
    <3>1. Clone!Catch(5) /\ CloneStep = "createDisk" /\ ~Failed
      BY <1>4, <2>1, LeaveIsCatch DEF CreateDiskStyle, Steps, CloneStep, Failed
    <3> QED BY <3>1 DEF Clone!Next, Clone!Proceed, Clone!CreateDiskStyle, Clone!Do
  <2>2. CASE step' = "setLayout" /\ UNCHANGED <<mbr, exit>>
    BY <1>4, <2>2 DEF CreateDiskStyle, CloneStep, Wiping, Failed, Clone!Next,
       Clone!Proceed, Clone!CreateDiskStyle, Clone!Do, Clone!Goto
  <2> QED BY <1>4, <2>1, <2>2 DEF CreateDiskStyle
<1>5. CASE SetDriveLayout
  <2>1. CASE Leave(5)
    <3>1. Clone!Catch(5) /\ CloneStep = "setLayout" /\ ~Failed
      BY <1>5, <2>1, LeaveIsCatch DEF SetDriveLayout, Steps, CloneStep, Failed
    <3> QED BY <3>1 DEF Clone!Next, Clone!Proceed, Clone!SetDriveLayout, Clone!Do
  <2>2. CASE step' = (IF mbr THEN "splice" ELSE "round") /\ UNCHANGED <<mbr, exit, present>>
    BY <1>5, <2>2 DEF SetDriveLayout, AfterLayout, CloneStep, Wiping, Failed, Clone!Next,
       Clone!Proceed, Clone!SetDriveLayout, Clone!AfterSplice, Clone!Pass, Clone!Do, Clone!Goto
  <2> QED BY <1>5, <2>1, <2>2 DEF SetDriveLayout, AfterLayout
<1>11. CASE SpliceMbrBootstrap
  <2>1. CASE Leave(5)
    <3>1. Clone!Catch(5) /\ CloneStep = "splice" /\ ~Failed
      BY <1>11, <2>1, LeaveIsCatch DEF SpliceMbrBootstrap, Steps, CloneStep, Failed
    <3> QED BY <3>1 DEF Clone!Next, Clone!Proceed, Clone!SpliceMbrBootstrap, Clone!Do
  <2>2. CASE step' = "round" /\ UNCHANGED <<mbr, exit, present>>
    BY <1>11, <2>2 DEF SpliceMbrBootstrap, CloneStep, Wiping, Failed, Clone!Next,
       Clone!Proceed, Clone!SpliceMbrBootstrap, Clone!AfterSplice, Clone!Pass, Clone!Do, Clone!Goto
  <2> QED BY <1>11, <2>1, <2>2 DEF SpliceMbrBootstrap, AfterLayout
<1>6. CASE BeginRound \/ EndRound
  BY <1>6 DEF BeginRound, EndRound, CloneStep, Wiping, Failed
<1>7. CASE CheckLocked
  <2>1. CASE Leave(5)
    <3>1. Clone!Catch(5) /\ CloneStep = "lockNew" /\ ~Failed
      BY <1>7, <2>1, LeaveIsCatch DEF CheckLocked, Steps, CloneStep, Failed
    <3> QED BY <3>1 DEF Clone!Next, Clone!Proceed, Clone!LockNewVolumes, Clone!Do
  <2>2. CASE step' = "copy" /\ UNCHANGED <<mbr, exit, present>>
    BY <1>7, <2>2 DEF CheckLocked, CloneStep, Wiping, Failed, Clone!Next,
       Clone!Proceed, Clone!LockNewVolumes, Clone!Pass, Clone!Do, Clone!Goto
  <2> QED BY <1>7, <2>1, <2>2 DEF CheckLocked
<1>8. CASE CopyBlock
  <2>1. step = "copy" /\ step' = "copy" /\ mbr' = mbr
    BY <1>8 DEF CopyBlock, Leave
  <2> QED BY <2>1 DEF CloneStep, Wiping, Failed
<1>9. CASE PollVolume \/ ToggleUse
  BY <1>9 DEF PollVolume, ToggleUse, CloneStep, Wiping, Failed
<1>10. CASE Surface
  <2>1. UNCHANGED <<mbr, step, exit>> /\ step # "createDisk"
    BY <1>10 DEF Surface
  <2> QED BY <2>1 DEF CloneStep, Wiping, Failed
<1> QED
  BY <1>1, <1>2, <1>3, <1>4, <1>5, <1>6, <1>7, <1>8, <1>9, <1>10, <1>11
  DEF Next, Proceed
\* The steps lockOld and lockNew of CmdClone stand for the two loops of main.cpp:
\* with the loops in their place, each step up to the first block is still one
\* of CmdClone, or none, whatever the number of volumes and of rounds.
THEOREM RefinesCmdClone ==
  ASSUME SurfaceSteps \cap (Settled \cup {"createDisk"}) = {}
  PROVE  Spec => DetailsCmdClone
<1>1. IInv /\ IInv' /\ [Next]_vars => [Clone!Next]_(Clone!vars)
  <2>1. CASE Next
    BY <2>1, StepDetails
  <2>2. CASE UNCHANGED vars
    BY <2>2 DEF CloneStep, Wiping, Failed, CloneLocks, Locked
  <2> QED BY <2>1, <2>2
<1>2. Spec => []IInv
  BY Invariance
<1> QED BY <1>1, <1>2, PTL DEF Spec, DetailsCmdClone
=============================================================================
