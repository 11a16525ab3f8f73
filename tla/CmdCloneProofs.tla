--------------------------- MODULE CmdCloneProofs ---------------------------
(***************************************************************************)
(* Proofs about CmdClone for any set of disks, any number of blocks and    *)
(* any choice of what may be swapped when.                                 *)
(***************************************************************************)
EXTENDS CmdClone, TLAPS

\* The tuples that abbreviate what an action leaves unchanged.
USE DEF vars, devVars, envVars, openVars, diskVars, flagVars, copyVars

-----------------------------------------------------------------------------
(* The inductive invariant: what each step of the program may rely on.      *)

BeforeOpen == {"plan", "confirm", "revalidateSource", "revalidateTarget",
               "openSource", "snapshot", "openTarget"}
Isolating  == {"takeOffline", "lockOld"}
BeforeWipe == BeforeOpen \cup Isolating \cup {"deleteLayout"}
Epilogue   == {"complete", "finalize", "retryOffline"}
BeforeCopy == Steps \ ({"copy", "transfer", "flush"} \cup Epilogue)

\* A dry run does not get past the plan.
DryRunInv == opts.dryRun => step = "plan"

\* Before the copy no block is written, and during it one is left.
BlocksInv ==
  /\ step \in BeforeCopy => blocks = 0
  /\ step \in {"copy", "transfer"} => blocks < Blocks
  /\ step \notin BeforeCopy \cup {"copy", "transfer"} => blocks = Blocks

\* The flag targetModified tells on which side of the wipe the program is;
\* before it every disk is as it was, after it every disk but the target.
ContentInv ==
  /\ step \in BeforeOpen => target = NoDev
  /\ step \notin BeforeOpen => target \in Dev
  /\ targetModified <=> step \notin BeforeWipe
  /\ \A d \in Dev : d # target \/ step \in BeforeWipe => content[d] = "original"
  /\ step \in {"setLayout", "splice", "lockNew", "copy", "transfer", "flush"} =>
       content[target] = "destroyed"
  /\ step = "createDisk" => content[target] \in {"original", "destroyed"}
  /\ step \in Epilogue => content[target] = "cloned"

\* The flag offlined tells the attribute until FinalizeNewIds clears it.
OfflineInv ==
  /\ step \in BeforeOpen \cup Isolating => ~offlined
  /\ step # "finalize" => fin = "running"
  /\ offlined /\ fin = "running" => offline

\* Locks are held from the fallback to the end of the copy, the new ones from
\* the second locking on.
LockInv ==
  /\ \/ step \in BeforeOpen \cup Isolating \cup {"finalize", "retryOffline"}
     \/ exit # Running
     => locks = {}
  /\ exit = Running /\ step \in Wiping => offlined \/ "old" \in locks
  /\ exit = Running /\ step \in Writing => offlined \/ locks = Tables

SnapshotInv == snapshot = "completed" => step \in {"finalize", "retryOffline"}

\* Nothing is said before the end, and what is said then is true.
SaidInv ==
  /\ exit = Running => said = Silent
  /\ said.disk = "not modified" => ~targetModified
  /\ OfflineNoteExact
  /\ SwapInstructionsTrue

IInv ==
  /\ TypeOK /\ DryRunInv /\ BlocksInv /\ ContentInv /\ OfflineInv /\ LockInv
  /\ SnapshotInv /\ SaidInv
-----------------------------------------------------------------------------
(* Types. *)

\* Leaving without a word, with one, and passing on keep the types: the three
\* ways most operations of CmdClone (main.cpp) end.
LEMMA ExitTypes ==
  ASSUME TypeOK, NEW codes \in SUBSET Codes, Exit(codes)
  PROVE  TypeOK'
BY DEF TypeOK, Exit

\* The catch block of CmdClone.
LEMMA CatchTypes ==
  ASSUME TypeOK, NEW code \in Codes, Catch(code)
  PROVE  TypeOK'
<1>1. offline' \in BOOLEAN
  BY DEF TypeOK, Catch
<1>2. said' \in Claims
  <2>1. (offlined /\ (targetModified \/ offline')) \in BOOLEAN
    OBVIOUS
  <2> QED BY <2>1 DEF Catch, Claims
<1> QED BY <1>1, <1>2 DEF TypeOK, Catch

\* An operation without an effect on the modelled state.
LEMMA PassTypes ==
  ASSUME TypeOK, NEW s \in Steps, NEW next \in Steps, Pass(s, next)
  PROVE  TypeOK'
BY DEF TypeOK, Pass, Do, Goto

\* Init establishes the types.
LEMMA TypeInit == Init => TypeOK
<1> SUFFICES ASSUME Init PROVE TypeOK
  OBVIOUS
<1>1. opts \in Options /\ said \in Claims
  BY DEF Init, Options, Claims, Silent
<1>2. at \in Numbers /\ content \in Contents
  BY DiskAssumption DEF Init, Numbers, Contents, Roles
<1>3. blocks \in 0..Blocks
  BY BlocksAssumption DEF Init
<1>4. offline \in BOOLEAN
  BY DEF Init
<1> QED BY <1>1, <1>2, <1>3, <1>4 DEF Init, TypeOK, Steps

\* Every action of CmdClone keeps the types.
LEMMA TypeStep == TypeOK /\ BlocksInv /\ [Next]_vars => TypeOK'
<1> SUFFICES ASSUME TypeOK, BlocksInv, [Next]_vars PROVE TypeOK'
  OBVIOUS
<1> DEFINE Leaves == \/ \E c \in SUBSET Codes : Exit(c)
                     \/ \E c \in Codes : Catch(c)
                     \/ \E s \in Steps, n \in Steps : Pass(s, n)
<1>0. CASE Leaves
  BY <1>0, ExitTypes, CatchTypes, PassTypes
<1>1. CASE BuildPlan
  BY <1>1, <1>0 DEF BuildPlan, Steps, Codes
<1>2. CASE Confirm
  BY <1>2, <1>0 DEF Confirm, Steps, Codes
<1>3. CASE RevalidateSource \/ RevalidateTarget
  BY <1>3, <1>0 DEF RevalidateSource, RevalidateTarget, RevalidateDiskIdentity, Steps, Codes
<1>4. CASE OpenSource
  <2>1. CASE Exit({3})
    BY <2>1, <1>0 DEF Codes
  <2>2. at["source"] \in Dev \cup {NoDev}
    BY DEF TypeOK, Numbers, Roles
  <2> QED BY <1>4, <2>1, <2>2 DEF OpenSource, TypeOK, Goto, Steps
<1>5. CASE TakeSnapshot
  <2>1. CASE Exit({4})
    BY <2>1, <1>0 DEF Codes
  <2> QED BY <1>5, <2>1 DEF TakeSnapshot, TypeOK, Goto, Steps
<1>6. CASE OpenTarget
  <2>1. CASE Catch(3)
    BY <2>1, <1>0 DEF Codes
  <2>2. at["target"] \in Dev \cup {NoDev}
    BY DEF TypeOK, Numbers, Roles
  <2> QED BY <1>6, <2>1, <2>2 DEF OpenTarget, TypeOK, Goto, Steps
<1>7. CASE TakeOffline
  <2>1. offline' \in BOOLEAN /\ offlined' \in BOOLEAN
    BY <1>7 DEF TakeOffline, SetOffline, TypeOK
  <2>2. step' \in Steps /\ exit' = exit /\ said' = said
    BY <1>7 DEF TakeOffline, Fallback, Goto, Steps
  <2>3. UNCHANGED <<opts, attrs, at, cancelled, sourceDisk, target, content,
                    targetModified, locks, snapshot, blocks, fin>>
    BY <1>7 DEF TakeOffline
  <2> QED BY <2>1, <2>2, <2>3 DEF TypeOK
<1>8. CASE LockOldVolumes
  <2>1. CASE Catch(5)
    BY <2>1, <1>0 DEF Codes
  <2>2. CASE /\ locks' = {"old"} /\ Goto("deleteLayout")
             /\ UNCHANGED <<devVars, envVars, openVars, diskVars, flagVars, snapshot,
                            blocks, fin>>
    BY <2>2 DEF TypeOK, Tables, Goto, Steps
  <2> QED BY <1>8, <2>1, <2>2 DEF LockOldVolumes
<1>9. ASSUME NEW v \in {"destroyed", "cloned"}, content' = [content EXCEPT ![target] = v]
      PROVE  content' \in Contents
  BY <1>9 DEF TypeOK, Contents
<1>10. CASE DeleteDriveLayout
  <2>1. content' \in Contents
    BY <1>10, <1>9 DEF DeleteDriveLayout, TypeOK
  <2> QED BY <1>10, <2>1 DEF DeleteDriveLayout, MarkModified, TypeOK, Goto, Steps
<1>11. CASE CreateDiskStyle
  <2>1. CASE Catch(5)
    BY <2>1, <1>0 DEF Codes
  <2> QED BY <1>11, <1>9, <2>1 DEF CreateDiskStyle, TypeOK, Goto, Steps
<1>12. CASE SetDriveLayout
  BY <1>12, <1>0 DEF SetDriveLayout, AfterSplice, Steps, Codes
<1>13. CASE SpliceMbrBootstrap
  BY <1>13, <1>0 DEF SpliceMbrBootstrap, AfterSplice, Steps, Codes
<1>14. CASE LockNewVolumes
  <2>1. CASE Catch(5)
    BY <2>1, <1>0 DEF Codes
  <2>2. CASE /\ locks' = locks \cup {"new"} /\ Goto("copy")
             /\ UNCHANGED <<devVars, envVars, openVars, diskVars, flagVars, snapshot,
                            blocks, fin>>
    BY <2>2 DEF TypeOK, Tables, Goto, Steps
  <2> QED BY <1>14, <2>1, <2>2 DEF LockNewVolumes
<1>15. CASE CopyBlock
  <2>1. CASE \/ Do("copy") /\ (Catch(130) \/ Pass("copy", "transfer"))
             \/ Do("transfer") /\ Catch(5)
    BY <2>1, <1>0 DEF Codes, Steps
  <2>2. CASE /\ Do("transfer") /\ blocks' = blocks + 1 /\ Goto(AfterBlock(blocks'))
             /\ UNCHANGED <<devVars, envVars, openVars, diskVars, flagVars, locks,
                            snapshot, fin>>
    <3>1. blocks' \in 0..Blocks
      BY <2>2, BlocksAssumption DEF Do, BlocksInv, TypeOK
    <3> QED BY <2>2, <3>1 DEF TypeOK, Goto, AfterBlock, Steps
  <2> QED BY <1>15, <2>1, <2>2 DEF CopyBlock, Pass
<1>16. CASE Flush
  <2>1. CASE Catch(5)
    BY <2>1, <1>0 DEF Codes
  <2> QED BY <1>16, <1>9, <2>1 DEF Flush, TypeOK, Goto, Steps
<1>17. CASE Complete
  BY <1>17, ZenonT(40) DEF Complete, TypeOK, Goto, Steps
<1>18. CASE Finalize
  <2>1. CASE Exit({0}) \/ Catch(FinalizeFailure)
    BY <2>1, <1>0 DEF Codes, FinalizeFailure
  <2>2. CASE Fin!Next /\ Goto("finalize")
             /\ UNCHANGED <<opts, envVars, openVars, content, flagVars, copyVars>>
    <3>1. attrs' = attrs /\ offline' \in BOOLEAN
      BY <2>2 DEF Fin!Next, Fin!BringOnline, Fin!GiveUp, Fin!Finish, TypeOK
    <3>2. fin' \in {"running", "online", "ok", "failed"}
      BY <2>2 DEF Fin!Next, Fin!BringOnline, Fin!GiveUp, Fin!Finish
    <3> QED BY <2>2, <3>1, <3>2 DEF TypeOK, Goto, Steps
  <2> QED BY <1>18, <2>1, <2>2 DEF Finalize
<1>19. CASE RetryOffline
  <2>1. said' \in Claims
    BY <1>19 DEF RetryOffline, TypeOK, SwapClaim, Claims
  <2>2. offline' \in BOOLEAN /\ offlined' \in BOOLEAN
    BY <1>19 DEF RetryOffline, SetOffline, TypeOK
  <2>3. exit' \in Codes
    BY <1>19 DEF RetryOffline, Codes
  <2>4. UNCHANGED <<opts, attrs, at, cancelled, sourceDisk, target, content, step,
                    targetModified, locks, snapshot, blocks, fin>>
    BY <1>19 DEF RetryOffline
  <2> QED BY <2>1, <2>2, <2>3, <2>4 DEF TypeOK
<1>20. CASE Cancel
  BY <1>20 DEF Cancel, TypeOK
<1>21. CASE SwapDisk
  <2>1. at' \in Numbers
    BY <1>21 DEF SwapDisk, TypeOK, Numbers
  <2> QED BY <1>21, <2>1 DEF SwapDisk, TypeOK
<1>22. CASE UNCHANGED vars
  BY <1>22 DEF TypeOK
<1> QED
  BY <1>1, <1>2, <1>3, <1>4, <1>5, <1>6, <1>7, <1>8, <1>10, <1>11, <1>12, <1>13,
     <1>14, <1>15, <1>16, <1>17, <1>18, <1>19, <1>20, <1>21, <1>22
  DEF Next, Proceed
-----------------------------------------------------------------------------
(* The parts of the invariant. *)

\* What the catch block does, as its callers need it.
LEMMA CatchFacts ==
  ASSUME TypeOK, NEW code, Catch(code)
  PROVE  /\ exit' = code /\ locks' = {}
         /\ UNCHANGED <<opts, step, target, content, targetModified, offlined,
                        snapshot, blocks, fin>>
         /\ ~offlined \/ targetModified => offline' = offline
         /\ said'.disk = IF targetModified THEN "destroyed" ELSE "not modified"
         /\ said'.offline = (offlined /\ (targetModified \/ offline'))
         /\ said'.swap = "nothing"
BY DEF Catch, TypeOK

\* After the process has exited nothing happens.
LEMMA OnlyWhileRunning == Next => exit = Running
BY DEF Next, Proceed, BuildPlan, Confirm, RevalidateSource, RevalidateTarget,
       RevalidateDiskIdentity, OpenSource, TakeSnapshot, OpenTarget, TakeOffline,
       LockOldVolumes, DeleteDriveLayout, CreateDiskStyle, SetDriveLayout,
       SpliceMbrBootstrap, LockNewVolumes, CopyBlock, Flush, Complete, Finalize,
       RetryOffline, Cancel, SwapDisk, Pass, Do

\* A step leaves in silence, leaves with a note, says nothing, or is the last.
LEMMA StepKinds ==
  Next => \/ \E codes \in SUBSET Codes : Exit(codes)
          \/ \E code \in {3, 5, 6, 130} :
               Catch(code) /\ (step = "finalize" => code = FinalizeFailure)
          \/ UNCHANGED <<exit, said>>
          \/ RetryOffline
BY DEF Next, Proceed, BuildPlan, Confirm, RevalidateSource, RevalidateTarget,
       RevalidateDiskIdentity, OpenSource, TakeSnapshot, OpenTarget, TakeOffline,
       LockOldVolumes, DeleteDriveLayout, CreateDiskStyle, SetDriveLayout,
       SpliceMbrBootstrap, LockNewVolumes, CopyBlock, Flush, Complete, Finalize,
       Cancel, SwapDisk, Pass, Do, Goto, Codes, FinalizeFailure

\* The invariant holds when the program starts.
LEMMA InvInit == Init => IInv
<1> SUFFICES ASSUME Init PROVE IInv
  OBVIOUS
<1>1. TypeOK
  BY TypeInit
<1>2. DryRunInv /\ BlocksInv /\ LockInv /\ SnapshotInv /\ OfflineInv
  BY DEF Init, DryRunInv, BlocksInv, LockInv, SnapshotInv, OfflineInv, BeforeOpen,
         Isolating, BeforeCopy, Epilogue, Wiping, Writing, Steps
<1>3. ContentInv
  BY DEF Init, ContentInv, BeforeOpen, BeforeWipe, Epilogue
<1>4. SaidInv
  BY RunningAssumption DEF Init, SaidInv, Silent, OfflineNoteExact,
     SwapInstructionsTrue, Codes
<1> QED BY <1>1, <1>2, <1>3, <1>4 DEF IInv

\* Only BuildPlan leaves the step "plan", and not in a dry run.
LEMMA DryRunInvStep ==
  ASSUME TypeOK, DryRunInv, Next PROVE DryRunInv'
BY DEF Next, Proceed, BuildPlan, Confirm, RevalidateSource, RevalidateTarget,
      RevalidateDiskIdentity, OpenSource, TakeSnapshot, OpenTarget, TakeOffline,
      Fallback, SetOffline, LockOldVolumes, DeleteDriveLayout, CreateDiskStyle,
      SetDriveLayout, SpliceMbrBootstrap, AfterSplice, LockNewVolumes, CopyBlock,
      AfterBlock, Flush, Complete, Finalize, RetryOffline, Cancel, SwapDisk, Exit,
      Catch, Pass, Do, Goto, DryRunInv

\* CopyBlock counts the blocks up to the bound.
LEMMA BlocksInvStep ==
  ASSUME TypeOK, BlocksInv, Next PROVE BlocksInv'
<1> USE DEF TypeOK, Steps, BeforeOpen, Isolating, BeforeWipe, BeforeCopy, Epilogue,
            BlocksInv, Do, Goto
<1>1. ASSUME NEW codes \in SUBSET Codes, Exit(codes)
      PROVE  BlocksInv'
  BY <1>1, BlocksAssumption
  DEF Exit
<1>2. ASSUME NEW code \in Codes, Catch(code)
      PROVE  BlocksInv'
  BY <1>2, CatchFacts, BlocksAssumption
<1>3. CASE BuildPlan
  BY <1>3, <1>1, BlocksAssumption
  DEF BuildPlan, Pass, Codes
<1>4. CASE Confirm
  BY <1>4, <1>1, BlocksAssumption
  DEF Confirm, Pass, Codes
<1>5. CASE RevalidateSource
  BY <1>5, <1>1, BlocksAssumption
  DEF RevalidateSource, RevalidateDiskIdentity, Pass, Codes
<1>6. CASE RevalidateTarget
  BY <1>6, <1>1, BlocksAssumption
  DEF RevalidateTarget, RevalidateDiskIdentity, Pass, Codes
<1>7. CASE OpenSource
  BY <1>7, <1>1, BlocksAssumption
  DEF OpenSource, Codes
<1>8. CASE TakeSnapshot
  BY <1>8, <1>1, BlocksAssumption
  DEF TakeSnapshot, Codes
<1>9. CASE OpenTarget
  BY <1>9, <1>2, BlocksAssumption
  DEF OpenTarget, Codes
<1>10. CASE TakeOffline
  BY <1>10, BlocksAssumption
  DEF TakeOffline, SetOffline, Fallback
<1>11. CASE LockOldVolumes
  BY <1>11, <1>2, BlocksAssumption
  DEF LockOldVolumes, Codes
<1>12. CASE DeleteDriveLayout
  BY <1>12, BlocksAssumption
  DEF DeleteDriveLayout, MarkModified
<1>13. CASE CreateDiskStyle
  BY <1>13, <1>2, BlocksAssumption
  DEF CreateDiskStyle, Codes
<1>14. CASE SetDriveLayout
  BY <1>14, <1>2, BlocksAssumption
  DEF SetDriveLayout, AfterSplice, Pass, Codes
<1>15. CASE SpliceMbrBootstrap
  BY <1>15, <1>2, BlocksAssumption
  DEF SpliceMbrBootstrap, AfterSplice, Pass, Codes
<1>16. CASE LockNewVolumes
  BY <1>16, <1>2, BlocksAssumption
  DEF LockNewVolumes, Pass, Codes
<1>17. CASE CopyBlock
  BY <1>17, <1>2, BlocksAssumption
  DEF CopyBlock, CheckCancelled, AfterBlock, Pass, Codes
<1>18. CASE Flush
  BY <1>18, <1>2, BlocksAssumption
  DEF Flush, Codes
<1>19. CASE Complete
  BY <1>19, BlocksAssumption
  DEF Complete
<1>20. CASE Finalize
  BY <1>20, <1>1, <1>2, BlocksAssumption
  DEF Finalize, FinalizeFailure, Fin!Next, Fin!BringOnline, Fin!GiveUp,
     Fin!Finish, Codes
<1>21. CASE RetryOffline
  BY <1>21, BlocksAssumption
  DEF RetryOffline, SetOffline
<1>22. CASE Cancel
  BY <1>22, BlocksAssumption
  DEF Cancel
<1>23. CASE SwapDisk
  BY <1>23, BlocksAssumption
  DEF SwapDisk
<1> QED
  BY <1>3, <1>4, <1>5, <1>6, <1>7, <1>8, <1>9, <1>10, <1>11, <1>12, <1>13,
     <1>14, <1>15, <1>16, <1>17, <1>18, <1>19, <1>20, <1>21, <1>22, <1>23
  DEF Next, Proceed

\* Only DeleteDriveLayout, CreateDiskStyle and Flush write, and to the target.
LEMMA ContentInvStep ==
  ASSUME TypeOK, ContentInv, Next PROVE ContentInv'
<1> USE DEF TypeOK, Steps, BeforeOpen, Isolating, BeforeWipe, BeforeCopy, Epilogue,
            ContentInv, Do, Goto
<1>1. ASSUME NEW codes \in SUBSET Codes, Exit(codes)
      PROVE  ContentInv'
  BY <1>1, DiskAssumption
  DEF Exit
<1>2. ASSUME NEW code \in Codes, Catch(code)
      PROVE  ContentInv'
  BY <1>2, CatchFacts, DiskAssumption
<1>3. CASE BuildPlan
  BY <1>3, <1>1, DiskAssumption
  DEF BuildPlan, Pass, Codes, Contents, Numbers, Roles
<1>4. CASE Confirm
  BY <1>4, <1>1, DiskAssumption
  DEF Confirm, Pass, Codes, Contents, Numbers, Roles
<1>5. CASE RevalidateSource
  BY <1>5, <1>1, DiskAssumption
  DEF RevalidateSource, RevalidateDiskIdentity, Pass, Codes, Contents,

     Numbers, Roles
<1>6. CASE RevalidateTarget
  BY <1>6, <1>1, DiskAssumption
  DEF RevalidateTarget, RevalidateDiskIdentity, Pass, Codes, Contents,

     Numbers, Roles
<1>7. CASE OpenSource
  BY <1>7, <1>1, DiskAssumption
  DEF OpenSource, Codes, Contents, Numbers, Roles
<1>8. CASE TakeSnapshot
  BY <1>8, <1>1, DiskAssumption
  DEF TakeSnapshot, Codes, Contents, Numbers, Roles
<1>9. CASE OpenTarget
  BY <1>9, <1>2, DiskAssumption
  DEF OpenTarget, Codes, Contents, Numbers, Roles
<1>10. CASE TakeOffline
  BY <1>10, DiskAssumption
  DEF TakeOffline, SetOffline, Fallback, Contents, Numbers, Roles
<1>11. CASE LockOldVolumes
  BY <1>11, <1>2, DiskAssumption
  DEF LockOldVolumes, Codes, Contents, Numbers, Roles
<1>12. CASE DeleteDriveLayout
  BY <1>12, DiskAssumption
  DEF DeleteDriveLayout, MarkModified, Contents, Numbers, Roles
<1>13. CASE CreateDiskStyle
  BY <1>13, <1>2, DiskAssumption, ZenonT(40)
  DEF CreateDiskStyle, Codes, Contents, Numbers, Roles
<1>14. CASE SetDriveLayout
  BY <1>14, <1>2, DiskAssumption
  DEF SetDriveLayout, AfterSplice, Pass, Codes, Contents, Numbers, Roles
<1>15. CASE SpliceMbrBootstrap
  BY <1>15, <1>2, DiskAssumption
  DEF SpliceMbrBootstrap, AfterSplice, Pass, Codes, Contents, Numbers, Roles
<1>16. CASE LockNewVolumes
  BY <1>16, <1>2, DiskAssumption
  DEF LockNewVolumes, Pass, Codes, Contents, Numbers, Roles
<1>17. CASE CopyBlock
  BY <1>17, <1>2, DiskAssumption
  DEF CopyBlock, CheckCancelled, AfterBlock, Pass, Codes, Contents, Numbers, Roles
<1>18. CASE Flush
  BY <1>18, <1>2, DiskAssumption, ZenonT(40)
  DEF Flush, Codes, Contents, Numbers, Roles
<1>19. CASE Complete
  BY <1>19, DiskAssumption
  DEF Complete, Contents, Numbers, Roles
<1>20. CASE Finalize
  BY <1>20, <1>1, <1>2, DiskAssumption, ZenonT(40)
  DEF Finalize, FinalizeFailure, Fin!Next, Fin!BringOnline, Fin!GiveUp,
     Fin!Finish, Codes, Contents, Numbers, Roles
<1>21. CASE RetryOffline
  BY <1>21, DiskAssumption
  DEF RetryOffline, SetOffline, Contents, Numbers, Roles
<1>22. CASE Cancel
  BY <1>22, DiskAssumption
  DEF Cancel, Contents, Numbers, Roles
<1>23. CASE SwapDisk
  BY <1>23, DiskAssumption
  DEF SwapDisk, Contents, Numbers, Roles
<1> QED
  BY <1>3, <1>4, <1>5, <1>6, <1>7, <1>8, <1>9, <1>10, <1>11, <1>12, <1>13,
     <1>14, <1>15, <1>16, <1>17, <1>18, <1>19, <1>20, <1>21, <1>22, <1>23
  DEF Next, Proceed

\* Only TakeOffline, RetryOffline and FinalizeNewIds change the attribute.
LEMMA OfflineInvStep ==
  ASSUME TypeOK, ContentInv, OfflineInv, Next PROVE OfflineInv'
<1> USE DEF TypeOK, Steps, BeforeOpen, Isolating, BeforeWipe, BeforeCopy, Epilogue,
            OfflineInv, Do, Goto
<1>1. ASSUME NEW codes \in SUBSET Codes, Exit(codes)
      PROVE  OfflineInv'
  BY <1>1
  DEF Exit
<1>2. ASSUME NEW code \in Codes, Catch(code), ~offlined \/ targetModified
      PROVE  OfflineInv'
  BY <1>2, CatchFacts
<1>3. CASE BuildPlan
  BY <1>3, <1>1
  DEF BuildPlan, Pass, Codes, ContentInv
<1>4. CASE Confirm
  BY <1>4, <1>1
  DEF Confirm, Pass, Codes, ContentInv
<1>5. CASE RevalidateSource
  BY <1>5, <1>1
  DEF RevalidateSource, RevalidateDiskIdentity, Pass, Codes, ContentInv
<1>6. CASE RevalidateTarget
  BY <1>6, <1>1
  DEF RevalidateTarget, RevalidateDiskIdentity, Pass, Codes, ContentInv
<1>7. CASE OpenSource
  BY <1>7, <1>1
  DEF OpenSource, Codes, ContentInv
<1>8. CASE TakeSnapshot
  BY <1>8, <1>1
  DEF TakeSnapshot, Codes, ContentInv
<1>9. CASE OpenTarget
  BY <1>9, <1>2
  DEF OpenTarget, Codes, ContentInv
<1>10. CASE TakeOffline
  BY <1>10
  DEF TakeOffline, SetOffline, Fallback, ContentInv
<1>11. CASE LockOldVolumes
  BY <1>11, <1>2
  DEF LockOldVolumes, Codes, ContentInv
<1>12. CASE DeleteDriveLayout
  BY <1>12
  DEF DeleteDriveLayout, MarkModified, ContentInv
<1>13. CASE CreateDiskStyle
  <2>1. targetModified
    BY <1>13 DEF CreateDiskStyle, ContentInv
  <2>2. CASE Catch(5) \/ Catch(130)
    BY <1>13, <2>1, <2>2, <1>2 DEF CreateDiskStyle, Codes
  <2> QED BY <1>13, <2>2 DEF CreateDiskStyle
<1>14. CASE SetDriveLayout
  BY <1>14, <1>2
  DEF SetDriveLayout, AfterSplice, Pass, Codes, ContentInv
<1>15. CASE SpliceMbrBootstrap
  BY <1>15, <1>2
  DEF SpliceMbrBootstrap, AfterSplice, Pass, Codes, ContentInv
<1>16. CASE LockNewVolumes
  <2>1. CASE Catch(5)
    <3>1. targetModified
      BY <1>16 DEF LockNewVolumes, ContentInv
    <3> QED BY <2>1, <3>1, <1>2 DEF Codes
  <2>2. CASE ~Catch(5)
    BY <1>16, <2>2 DEF LockNewVolumes
  <2> QED BY <2>1, <2>2
<1>17. CASE CopyBlock
  <2>1. targetModified
    BY <1>17 DEF CopyBlock, Pass, Do, ContentInv, BeforeWipe, BeforeOpen, Isolating
  <2>2. CASE Catch(5) \/ Catch(130)
    BY <1>17, <2>1, <2>2, <1>2 DEF CopyBlock, Codes
  <2> QED BY <1>17, <2>2 DEF CopyBlock, CheckCancelled, AfterBlock, Pass
<1>18. CASE Flush
  <2>1. targetModified
    BY <1>18 DEF Flush, ContentInv
  <2>2. CASE Catch(5) \/ Catch(130)
    BY <1>18, <2>1, <2>2, <1>2 DEF Flush, Codes
  <2> QED BY <1>18, <2>2 DEF Flush
<1>19. CASE Complete
  BY <1>19
  DEF Complete, ContentInv
<1>20. CASE Finalize
  BY <1>20, <1>1, <1>2
  DEF Finalize, FinalizeFailure, Fin!Next, Fin!BringOnline, Fin!GiveUp,
     Fin!Finish, Codes, ContentInv
<1>21. CASE RetryOffline
  BY <1>21
  DEF RetryOffline, SetOffline, ContentInv
<1>22. CASE Cancel
  BY <1>22
  DEF Cancel, ContentInv
<1>23. CASE SwapDisk
  BY <1>23
  DEF SwapDisk, ContentInv
<1> QED
  BY <1>3, <1>4, <1>5, <1>6, <1>7, <1>8, <1>9, <1>10, <1>11, <1>12, <1>13,
     <1>14, <1>15, <1>16, <1>17, <1>18, <1>19, <1>20, <1>21, <1>22, <1>23
  DEF Next, Proceed

\* LockOldVolumes and LockNewVolumes take the locks; Complete and the catch
\* block drop them.
LEMMA LockInvStep ==
  ASSUME TypeOK, OfflineInv, LockInv, Next PROVE LockInv'
<1> USE DEF TypeOK, Steps, BeforeOpen, Isolating, BeforeWipe, BeforeCopy, Epilogue,
            LockInv, Wiping, Writing, Tables, Do, Goto
<1>1. ASSUME NEW codes \in SUBSET Codes, Exit(codes), locks = {}
      PROVE  LockInv'
  BY <1>1, RunningAssumption
  DEF Exit, Codes
<1>2. ASSUME NEW code \in Codes, Catch(code)
      PROVE  LockInv'
  <2>1. exit' # Running /\ locks' = {}
    BY <1>2, CatchFacts, RunningAssumption
  <2> QED BY <2>1
<1>3. CASE BuildPlan
  BY <1>3, <1>1, RunningAssumption
  DEF BuildPlan, Pass, OfflineInv, Codes
<1>4. CASE Confirm
  BY <1>4, <1>1, RunningAssumption
  DEF Confirm, Pass, OfflineInv, Codes
<1>5. CASE RevalidateSource
  BY <1>5, <1>1, RunningAssumption
  DEF RevalidateSource, RevalidateDiskIdentity, Pass, OfflineInv, Codes
<1>6. CASE RevalidateTarget
  BY <1>6, <1>1, RunningAssumption
  DEF RevalidateTarget, RevalidateDiskIdentity, Pass, OfflineInv, Codes
<1>7. CASE OpenSource
  BY <1>7, <1>1, RunningAssumption
  DEF OpenSource, OfflineInv, Codes
<1>8. CASE TakeSnapshot
  BY <1>8, <1>1, RunningAssumption
  DEF TakeSnapshot, OfflineInv, Codes
<1>9. CASE OpenTarget
  BY <1>9, <1>2, RunningAssumption
  DEF OpenTarget, OfflineInv, Codes
<1>10. CASE TakeOffline
  BY <1>10, RunningAssumption
  DEF TakeOffline, SetOffline, Fallback, OfflineInv, Codes
<1>11. CASE LockOldVolumes
  BY <1>11, <1>2, RunningAssumption
  DEF LockOldVolumes, OfflineInv, Codes
<1>12. CASE DeleteDriveLayout
  BY <1>12, RunningAssumption
  DEF DeleteDriveLayout, MarkModified, OfflineInv, Codes
<1>13. CASE CreateDiskStyle
  BY <1>13, <1>2, RunningAssumption
  DEF CreateDiskStyle, OfflineInv, Codes
<1>14. CASE SetDriveLayout
  BY <1>14, <1>2, RunningAssumption
  DEF SetDriveLayout, AfterSplice, Pass, OfflineInv, Codes
<1>15. CASE SpliceMbrBootstrap
  BY <1>15, <1>2, RunningAssumption
  DEF SpliceMbrBootstrap, AfterSplice, Pass, OfflineInv, Codes
<1>16. CASE LockNewVolumes
  BY <1>16, <1>2, RunningAssumption
  DEF LockNewVolumes, Pass, OfflineInv, Codes
<1>17. CASE CopyBlock
  BY <1>17, <1>2, RunningAssumption
  DEF CopyBlock, CheckCancelled, AfterBlock, Pass, OfflineInv, Codes
<1>18. CASE Flush
  BY <1>18, <1>2, RunningAssumption
  DEF Flush, OfflineInv, Codes
<1>19. CASE Complete
  BY <1>19, RunningAssumption
  DEF Complete, OfflineInv, Codes
<1>20. CASE Finalize
  BY <1>20, <1>1, <1>2, RunningAssumption
  DEF Finalize, FinalizeFailure, Fin!Next, Fin!BringOnline, Fin!GiveUp,
     Fin!Finish, OfflineInv, Codes
<1>21. CASE RetryOffline
  BY <1>21, RunningAssumption
  DEF RetryOffline, SetOffline, OfflineInv, Codes
<1>22. CASE Cancel
  BY <1>22, RunningAssumption
  DEF Cancel, OfflineInv, Codes
<1>23. CASE SwapDisk
  BY <1>23, RunningAssumption
  DEF SwapDisk, OfflineInv, Codes
<1> QED
  BY <1>3, <1>4, <1>5, <1>6, <1>7, <1>8, <1>9, <1>10, <1>11, <1>12, <1>13,
     <1>14, <1>15, <1>16, <1>17, <1>18, <1>19, <1>20, <1>21, <1>22, <1>23
  DEF Next, Proceed

\* Only Complete reports the snapshot set as completed.
LEMMA SnapshotInvStep ==
  ASSUME TypeOK, SnapshotInv, Next PROVE SnapshotInv'
BY DEF Next, Proceed, BuildPlan, Confirm, RevalidateSource, RevalidateTarget,
      RevalidateDiskIdentity, OpenSource, TakeSnapshot, OpenTarget, TakeOffline,
      Fallback, SetOffline, LockOldVolumes, DeleteDriveLayout, CreateDiskStyle,
      SetDriveLayout, SpliceMbrBootstrap, AfterSplice, LockNewVolumes, CopyBlock,
      AfterBlock, Flush, Complete, Finalize, RetryOffline, Cancel, SwapDisk, Exit,
      Catch, Pass, Do, Goto, SnapshotInv, TypeOK

\* What is said is said once, at the end, from flags that are right by then.
LEMMA SaidInvStep ==
  ASSUME TypeOK, ContentInv, OfflineInv, SaidInv, Next PROVE SaidInv'
<1>1. exit = Running /\ said = Silent
  BY OnlyWhileRunning DEF SaidInv
<1>2. Silent.disk = "nothing" /\ Silent.swap = "nothing"
  BY DEF Silent
<1>3. CASE UNCHANGED said /\ (UNCHANGED exit \/ exit' \in Codes)
  BY <1>1, <1>2, <1>3, RunningAssumption
  DEF SaidInv, OfflineNoteExact, SwapInstructionsTrue
<1>4. ASSUME NEW codes \in SUBSET Codes, Exit(codes)
      PROVE  SaidInv'
  BY <1>3, <1>4 DEF Exit
<1>5. ASSUME NEW code \in {3, 5, 6, 130}, Catch(code),
             step = "finalize" => code = FinalizeFailure
      PROVE  SaidInv'
  <2>0. exit' = code
    BY <1>5, CatchFacts
  <2>1. exit' # Running
    BY <2>0, RunningAssumption DEF Codes
  <2>2. said'.disk = "not modified" => ~targetModified'
    BY <1>5, CatchFacts
  <2>3. SwapInstructionsTrue'
    BY <1>5, CatchFacts DEF SwapInstructionsTrue
  <2>4. exit' \in {3, 5, 130} => fin = "running"
    BY <2>0, <1>5 DEF OfflineInv, FinalizeFailure
  <2>5. fin = "running" => (said'.offline <=> offlined' /\ offline')
    <3>1. said'.offline <=> offlined /\ (targetModified \/ offline')
      BY <1>5, CatchFacts
    <3>2. (offlined' <=> offlined) /\ (targetModified => (offline' <=> offline))
      BY <1>5, CatchFacts
    <3>3. offlined /\ fin = "running" => offline
      BY DEF OfflineInv
    <3> QED BY <3>1, <3>2, <3>3
  <2> QED BY <2>1, <2>2, <2>3, <2>4, <2>5 DEF SaidInv, OfflineNoteExact
<1>6. CASE RetryOffline
  <2>1. exit' = 0 /\ said' = [said EXCEPT !.swap = SwapClaim]
    BY <1>6 DEF RetryOffline
  <2>2. said'.disk = "nothing" /\ said'.swap = SwapClaim
    BY <2>1, <1>1 DEF Silent
  <2>3. offlined' => offline'
    BY <1>6 DEF RetryOffline, SetOffline, OfflineInv, Do
  <2>4. exit' # Running
    BY <2>1, RunningAssumption DEF Codes
  <2>5. SwapInstructionsTrue'
    BY <2>2, <2>3 DEF SwapInstructionsTrue, SwapClaim
  <2> QED
    BY <2>2, <2>4, <2>5 DEF SaidInv, OfflineNoteExact
<1> QED
  BY <1>3, <1>4, <1>5, <1>6, StepKinds

\* Every step keeps the invariant.
LEMMA InvStep == IInv /\ [Next]_vars => IInv'
<1> SUFFICES ASSUME IInv, [Next]_vars PROVE IInv'
  OBVIOUS
<1>1. CASE Next
  BY <1>1, TypeStep, DryRunInvStep, BlocksInvStep, ContentInvStep, OfflineInvStep,
     LockInvStep, SnapshotInvStep, SaidInvStep DEF IInv
<1>2. CASE UNCHANGED vars
  <2>1. TypeOK'
    BY <1>2, TypeStep DEF IInv
  <2>2. DryRunInv' /\ BlocksInv' /\ OfflineInv' /\ LockInv' /\ SnapshotInv'
    BY <1>2 DEF IInv, DryRunInv, BlocksInv, OfflineInv, LockInv, SnapshotInv
  <2>3. ContentInv'
    BY <1>2 DEF IInv, ContentInv
  <2>4. SaidInv'
    BY <1>2 DEF IInv, SaidInv, OfflineNoteExact, SwapInstructionsTrue
  <2> QED BY <2>1, <2>2, <2>3, <2>4 DEF IInv
<1> QED BY <1>1, <1>2

\* IInv is an invariant of CmdClone (main.cpp), whatever disks are swapped.
THEOREM Invariance == Spec => []IInv
BY InvInit, InvStep, PTL DEF Spec
-----------------------------------------------------------------------------
(* What the invariant gives. *)

\* The variables of CmdClone (main.cpp) stay in their types.
THEOREM TypeCorrect == Spec => []TypeOK
<1>1. IInv => TypeOK
  BY DEF IInv
<1> QED BY <1>1, Invariance, PTL

\* When the catch block of CmdClone says that the target was NOT modified, no
\* disk at all has been written, however many were plugged in or swapped.
THEOREM NotModifiedNoteIsTrue == Spec => []NotModifiedNoteTrue
<1>1. IInv => NotModifiedNoteTrue
  BY DEF IInv, SaidInv, ContentInv, NotModifiedNoteTrue
<1> QED BY <1>1, Invariance, PTL

\* Before finalization the note of the catch block on the OFFLINE attribute
\* agrees with what this run has done to it.
THEOREM OfflineNoteIsExact == Spec => []OfflineNoteExact
<1>1. IInv => OfflineNoteExact
  BY DEF IInv, SaidInv
<1> QED BY <1>1, Invariance, PTL

\* PrintSwapInstructions says that the clone is offline only when it is.
THEOREM SwapInstructionsAreTrue == Spec => []SwapInstructionsTrue
<1>1. IInv => SwapInstructionsTrue
  BY DEF IInv, SaidInv
<1> QED BY <1>1, Invariance, PTL

\* CmdClone wipes and writes only a target that is offline or whose volumes, the
\* old ones and then the new ones, it holds locked, and keeps no lock into
\* finalization or beyond its exit.
THEOREM TargetIsIsolated == Spec => []TargetIsolated
<1>1. IInv => TargetIsolated
  BY DEF IInv, TypeOK, LockInv, OfflineInv, TargetIsolated, Wiping, Writing
<1> QED BY <1>1, Invariance, PTL

\* SnapshotSet::Complete reports success to the VSS writers only for a clone
\* that is complete, whatever the number of blocks.
THEOREM WritersAreToldTruth == Spec => []WritersToldTruth
<1>1. IInv => WritersToldTruth
  BY DEF IInv, SnapshotInv, ContentInv, BlocksInv, BeforeCopy, Epilogue,
         WritersToldTruth, Steps
<1> QED BY <1>1, Invariance, PTL
-----------------------------------------------------------------------------
(* The disks that are opened.                                               *)

\* If disks are swapped no later than the prompt, the numbers that have been
\* verified, and the handles opened by them, denote the disks of the plan.
Verified == Steps \ {"plan", "confirm", "revalidateSource"}

ApprovedInv ==
  /\ step \in Verified => at["source"] = S
  /\ step \in Verified \ {"revalidateTarget"} => at["target"] = T
  /\ sourceDisk \in {NoDev, S}
  /\ target \in {NoDev, T}

\* RevalidateDiskIdentity puts the two numbers right; nothing is swapped later.
LEMMA ApprovedInvStep ==
  ASSUME SwapSteps \subseteq {"plan", "confirm"}, TypeOK, ApprovedInv, [Next]_vars
  PROVE  ApprovedInv'
<1>1. CASE SwapDisk
  BY <1>1 DEF SwapDisk, ApprovedInv, Verified
<1>2. CASE UNCHANGED vars
  BY <1>2 DEF ApprovedInv
<1>3. CASE BuildPlan \/ Confirm \/ RevalidateSource \/ RevalidateTarget \/ OpenSource
            \/ TakeSnapshot \/ OpenTarget \/ Cancel
  BY <1>3, ZenonT(40) DEF BuildPlan, Confirm, RevalidateSource, RevalidateTarget,
      RevalidateDiskIdentity, OpenSource, TakeSnapshot, OpenTarget, Cancel, Exit,
      Catch, Pass, Do, Goto, ApprovedInv, Verified, Steps
<1>4. CASE \/ TakeOffline \/ LockOldVolumes \/ DeleteDriveLayout \/ CreateDiskStyle
           \/ SetDriveLayout \/ SpliceMbrBootstrap \/ LockNewVolumes \/ CopyBlock
           \/ Flush \/ Complete \/ Finalize \/ RetryOffline
  <2> DEFINE Opening == {"plan", "confirm", "revalidateSource", "revalidateTarget",
                         "openSource", "snapshot", "openTarget"}
  <2>1. UNCHANGED <<at, openVars>>
    BY <1>4 DEF TakeOffline, LockOldVolumes, DeleteDriveLayout, CreateDiskStyle,
        SetDriveLayout, SpliceMbrBootstrap, LockNewVolumes, CopyBlock, Flush,
        Complete, Finalize, RetryOffline, Exit, Catch, Pass
  <2>2. step \notin Opening
    BY <1>4 DEF TakeOffline, LockOldVolumes, DeleteDriveLayout, CreateDiskStyle,
        SetDriveLayout, SpliceMbrBootstrap, LockNewVolumes, CopyBlock, Flush,
        Complete, Finalize, RetryOffline, Pass, Do
  <2>3. step \in Verified \ {"revalidateTarget"}
    BY <2>2 DEF TypeOK, Verified
  <2> QED BY <2>1, <2>3 DEF ApprovedInv
<1> QED BY <1>1, <1>2, <1>3, <1>4 DEF Next, Proceed

\* When disks are swapped only while the prompt waits, the two calls of
\* RevalidateDiskIdentity in CmdClone are enough: only the source of the plan
\* is read, and only its target is written.
THEOREM OnlyApprovedDisks ==
  ASSUME SwapSteps \subseteq {"plan", "confirm"}
  PROVE  Spec => []ApprovedDisksOnly
<1>1. Init => ApprovedInv
  BY DEF Init, ApprovedInv, Verified
<1>2. TypeOK /\ ApprovedInv /\ [Next]_vars => ApprovedInv'
  BY ApprovedInvStep
<1>3. IInv /\ ApprovedInv => ApprovedDisksOnly
  BY DiskAssumption
  DEF IInv, ContentInv, ApprovedInv, ApprovedDisksOnly, ApprovedTargetOnly
<1> QED BY <1>1, <1>2, <1>3, TypeCorrect, Invariance, PTL DEF Spec
-----------------------------------------------------------------------------
(* CmdClone keeps the promises of the exit-code table.                      *)

Destroying == {"setLayout", "splice", "lockNew", "copy", "transfer", "flush"}

\* What has become of the target, read from the step.
LEMMA Became ==
  ASSUME IInv
  PROVE  /\ step \in BeforeWipe => TargetBecame = "untouched"
         /\ step = "createDisk" => TargetBecame \in {"untouched", "destroyed"}
         /\ step \in Destroying => TargetBecame = "destroyed"
         /\ step \in Epilogue => TargetBecame = "cloned"
BY DiskAssumption
DEF IInv, ContentInv, TargetBecame, BeforeWipe, BeforeOpen, Isolating, Destroying,
    Epilogue

\* The codes with which CmdClone can leave at each of its steps.
CodesAt(s) ==
  CASE s = "plan" -> IF opts.dryRun THEN {0, 2, 3, 5} ELSE {2, 3, 5}
    [] s \in BeforeWipe \ {"plan"} -> {3, 4, 5, 130}
    [] s \in {"createDisk"} \cup Destroying -> {5, 130}
    [] s \in Epilogue -> {0, 6}

\* A step that leaves touches no disk; any other moves on, by at most one stage
\* of the target.
LEMMA Stages ==
  ASSUME TypeOK, Next
  PROVE  \/ exit' \in CodesAt(step) /\ UNCHANGED <<step, content, target>>
         \/ UNCHANGED <<exit, step, content, target>>
         \/ /\ UNCHANGED exit
            /\ ~opts.dryRun \/ step # "plan"
            /\ \/ step \in BeforeWipe /\ step' \in BeforeWipe \cup {"createDisk"}
               \/ step = "createDisk" /\ step' = "setLayout"
               \/ step \in Destroying /\ step' \in Destroying \cup Epilogue
               \/ step \in Epilogue /\ step' \in Epilogue
BY ZenonT(40) DEF Next, Proceed, BuildPlan, Confirm, RevalidateSource, RevalidateTarget,
      RevalidateDiskIdentity, OpenSource, TakeSnapshot, OpenTarget, TakeOffline,
      Fallback, SetOffline, LockOldVolumes, DeleteDriveLayout, CreateDiskStyle,
      SetDriveLayout, SpliceMbrBootstrap, AfterSplice, LockNewVolumes, CopyBlock,
      AfterBlock, Flush, Complete, Finalize, RetryOffline, Cancel, SwapDisk, Exit,
      Catch, Pass, Do, Goto, BeforeWipe,
      BeforeOpen, Isolating, Destroying, Epilogue, CodesAt, FinalizeFailure

\* Every step of CmdClone is a step of the exit-code contract, or none.
LEMMA ExitStep ==
  ASSUME IInv, IInv', Next
  PROVE  [Exits!Next]_(Exits!vars)
<1>1. exit = Running
  BY OnlyWhileRunning
<1>2. opts' = opts
  BY DEF Next, Proceed, BuildPlan, Confirm, RevalidateSource, RevalidateTarget,
      RevalidateDiskIdentity, OpenSource, TakeSnapshot, OpenTarget, TakeOffline,
      Fallback, SetOffline, LockOldVolumes, DeleteDriveLayout, CreateDiskStyle,
      SetDriveLayout, SpliceMbrBootstrap, AfterSplice, LockNewVolumes, CopyBlock,
      AfterBlock, Flush, Complete, Finalize, RetryOffline, Cancel, SwapDisk, Exit,
      Catch, Pass, Do, Goto
<1>3. CASE exit' \in CodesAt(step) /\ UNCHANGED <<step, content, target>>
  <2>1. TargetBecame' = TargetBecame
    BY <1>3 DEF TargetBecame
  <2>2. step \in Steps
    BY DEF IInv, TypeOK
  <2> QED
    BY <1>1, <1>2, <1>3, <2>1, <2>2, Became
    DEF CodesAt, BeforeWipe, BeforeOpen, Isolating, Destroying, Epilogue, Steps,
        Exits!Next, Exits!Refuse, Exits!DryRun, Exits!Abort, Exits!Finish,
        Exits!Exit, Exits!Refusals, Exits!Aborts
<1>4. CASE UNCHANGED <<exit, step, content, target>>
  BY <1>2, <1>4 DEF Exits!vars, TargetBecame
<1>5. CASE /\ UNCHANGED exit
           /\ ~opts.dryRun \/ step # "plan"
           /\ \/ step \in BeforeWipe /\ step' \in BeforeWipe \cup {"createDisk"}
              \/ step = "createDisk" /\ step' = "setLayout"
              \/ step \in Destroying /\ step' \in Destroying \cup Epilogue
              \/ step \in Epilogue /\ step' \in Epilogue
  <2>1. ~opts.dryRun
    BY <1>5 DEF IInv, DryRunInv
  <2>2. \/ TargetBecame' = TargetBecame
        \/ TargetBecame = "untouched" /\ TargetBecame' = "destroyed"
        \/ TargetBecame = "destroyed" /\ TargetBecame' = "cloned"
    <3>1. /\ step' \in BeforeWipe => TargetBecame' = "untouched"
          /\ step' = "createDisk" => TargetBecame' \in {"untouched", "destroyed"}
          /\ step' \in Destroying => TargetBecame' = "destroyed"
          /\ step' \in Epilogue => TargetBecame' = "cloned"
      BY DiskAssumption
      DEF IInv, ContentInv, TargetBecame, BeforeWipe, BeforeOpen, Isolating, Destroying,
          Epilogue
    <3> QED BY <1>5, <3>1, Became DEF Destroying
  <2> QED
    BY <1>1, <1>2, <1>5, <2>1, <2>2
    DEF Exits!vars, Exits!Next, Exits!Destroy, Exits!Complete, Exits!Become
<1> QED BY <1>3, <1>4, <1>5, Stages DEF IInv

\* Every run of `diskclone clone` keeps the exit-code table of the README: a
\* refusal has written nothing, 0 and 6 are a complete copy, 5 and 130 are not.
THEOREM KeepsExitContract == Spec => ImplementsExitContract
<1>1. Init => Exits!Init
  BY DEF Init, Exits!Init, TargetBecame, Options
<1>2. IInv /\ IInv' /\ [Next]_vars => [Exits!Next]_(Exits!vars)
  <2>1. CASE UNCHANGED vars
    BY <2>1 DEF Exits!vars, TargetBecame
  <2> QED BY <2>1, ExitStep
<1> QED BY <1>1, <1>2, Invariance, PTL DEF Spec, Exits!Spec, ImplementsExitContract
=============================================================================
