------------------------ MODULE FinalizeNewIdsProofs ------------------------
(***************************************************************************)
(* Proofs about FinalizeNewIds for any set of drive letters, any time-out  *)
(* and any number of registry values.                                      *)
(***************************************************************************)
EXTENDS FinalizeNewIds, TLAPS

\* The tuples that abbreviate what an action leaves unchanged.
USE DEF vars, diskVars, waitVars, letterVars, cloneVars, Mounted

-----------------------------------------------------------------------------
(* The inductive invariant: what each step of the function may rely on.     *)

BeforeMount == {"start", "waitWindows", "pickWindows", "mountWindows"}
BootSteps   == {"waitBoot", "pickBoot", "mountBoot"}

\* A letter chosen is a letter, and once mounted it denotes the clone's volume
\* until the mounts are released: no other process takes it.
MountInv ==
  /\ step \in BeforeMount => \A l \in Letters : drive[l] \notin Volumes
  /\ step = "mountWindows" => winLetter \in Letters
  /\ step \in BootSteps \cup RepairSteps =>
       winLetter \in Letters /\ drive[winLetter] = "windows"
  /\ step = "mountBoot" => bootLetter \in Letters
  /\ step \in {"pickBoot", "mountBoot"} => plan.boot = "own"
  /\ step \in RepairSteps => bootLetter \in Letters /\ drive[bootLetter] = BootVolume

\* What is known of the plan and the disk past the first step.
OnlineInv ==
  /\ step \notin {"start", "failed"} => ~offline /\ ~NoEsp
  /\ step # "ok" => ~extended
  /\ step = "ok" => extended = plan.grow

\* bcdboot has run or not; while it runs its target is mounted (MountInv).
BcdInv ==
  /\ step \in BeforeMount \cup BootSteps \cup {"bcdboot"} => bcd = "untouched"
  /\ step \in (RepairSteps \ {"bcdboot"}) \cup {"ok"} => bcd = BootVolume
  /\ bcd \in {"untouched", BootVolume}

\* The hive is loaded in two steps only; afterwards Windows may keep it.
HiveInv ==
  /\ step \in {"start", "bcdboot", "loadHive"} \cup WaitSteps => hive = "unloaded"
  /\ step = "openKey" => hive = "loaded"
  /\ step = "clearValues" => hive = "keyOpen"
  /\ step \in {"extend", "ok", "failed"} => hive \in {"unloaded", "stuck"}

\* How the letters were left behind, which other processes cannot change.
LeftInv == KeptLettersServe /\ NoStrayMount

IInv == TypeOK /\ MountInv /\ OnlineInv /\ BcdInv /\ HiveInv /\ LeftInv
-----------------------------------------------------------------------------
(* Types. *)


\* The program starts with no letter chosen, nothing mounted and no hive.
LEMMA InitIInv == Init => IInv
<1> SUFFICES ASSUME Init PROVE IInv
  OBVIOUS
<1>1. TypeOK
  <2>1. polls \in 0..MaxPolls /\ values \in 0..MaxValues
    BY BoundsAssumption DEF Init
  <2>2. drive \in [Letters -> {"free", "other"} \cup Volumes]
    <3>1. drive \in [Letters -> {"free", "other"}]
      BY DEF Init
    <3> QED BY <3>1
  <2>3. failure \in [at: Steps, letters: SUBSET (Letters \cup {NoLetter})]
    BY DEF Init, NoFailure, Steps
  <2>4. attrs \in BOOLEAN /\ offline \in BOOLEAN
    BY DEF Init
  <2>5. plan \in LegalPlans /\ step \in Steps /\ arrived \subseteq Volumes
    BY DEF Init, Steps
  <2>6. /\ winLetter \in Letters \cup {NoLetter} /\ bootLetter \in Letters \cup {NoLetter}
        /\ bcd \in {"untouched", "free", "other"} \cup Volumes
        /\ hive \in {"unloaded", "loaded", "keyOpen", "stuck"} /\ extended \in BOOLEAN
        /\ stuck \subseteq Letters
    BY DEF Init
  <2> QED BY <2>1, <2>2, <2>3, <2>4, <2>5, <2>6 DEF TypeOK
<1>2. MountInv
  BY DEF Init, MountInv, BeforeMount, BootSteps, RepairSteps, Volumes
<1>3. OnlineInv /\ BcdInv /\ HiveInv /\ LeftInv
  BY DEF Init, OnlineInv, BcdInv, HiveInv, WaitSteps, LeftInv, KeptLettersServe, NoStrayMount,
     BeforeMount, BootSteps, RepairSteps
<1> QED BY <1>1, <1>2, <1>3 DEF IInv

\* A failure before step 4 unwinds both mounts (~TempMount), and the hive and
\* the boot files are as they were.
LEMMA FailKeeps ==
  ASSUME IInv, NEW letters \in SUBSET (Letters \cup {NoLetter}), Fail(letters),
         step \in {"start"} \cup WaitSteps
  PROVE  IInv'
<1> USE DEF Fail, FinalizeFail, Unmount
<1>1. drive' \in [Letters -> {"free", "other"} \cup Volumes] /\ stuck' \subseteq Letters
  BY DEF IInv, TypeOK
<1>2. /\ step' = "failed" /\ failure' = [at |-> step, letters |-> letters]
      /\ failure' \in [at: Steps, letters: SUBSET (Letters \cup {NoLetter})]
  BY DEF IInv, TypeOK
<1>3. TypeOK'
  BY <1>1, <1>2 DEF IInv, TypeOK, Steps
<1>7. \A l \in Letters : drive'[l] \in Volumes => l \in stuck'
  BY DEF Volumes, IInv, TypeOK
<1>4. LeftInv'
  BY <1>2, <1>7 DEF LeftInv, KeptLettersServe, NoStrayMount, WaitSteps, RepairSteps
<1>5. MountInv' /\ OnlineInv'
  BY <1>2 DEF IInv, MountInv, OnlineInv, BeforeMount, BootSteps, WaitSteps, RepairSteps
<1>6. BcdInv' /\ HiveInv'
  BY <1>2 DEF IInv, BcdInv, HiveInv, BeforeMount, BootSteps, WaitSteps, RepairSteps, BootVolume
<1> QED BY <1>3, <1>4, <1>5, <1>6 DEF IInv

\* A failure in steps 4-6 keeps the letters it prints, which are mounted, and
\* unloads the hive.
LEMMA FailKeepingKeeps ==
  ASSUME IInv, NEW letters \in SUBSET {winLetter, bootLetter}, FailKeepingLetters(letters),
         step \in RepairSteps, bcd' \in {bcd, BootVolume}
  PROVE  IInv'
<1> USE DEF FailKeepingLetters, FinalizeFail, Dismiss, UnloadHive
<1>1. letters \in SUBSET (Letters \cup {NoLetter})
  BY DEF IInv, TypeOK
<1>2. /\ step' = "failed" /\ failure' = [at |-> step, letters |-> letters]
      /\ failure' \in [at: Steps, letters: SUBSET (Letters \cup {NoLetter})]
  BY <1>1 DEF IInv, TypeOK
<1>3. bcd' \in {"untouched"} \cup Volumes
  BY DEF IInv, BcdInv, BootVolume, Volumes
<1>4. TypeOK'
  BY <1>2, <1>3 DEF IInv, TypeOK, Steps
<1>5. \A l \in letters : l \in Letters /\ drive[l] \in CloneVolumes
  <2>1. /\ winLetter \in Letters /\ drive[winLetter] = "windows"
        /\ bootLetter \in Letters /\ drive[bootLetter] = BootVolume
    BY DEF IInv, MountInv
  <2> QED BY <2>1 DEF CloneVolumes, BootVolume, Volumes
<1>6. LeftInv'
  BY <1>2, <1>5 DEF LeftInv, KeptLettersServe, NoStrayMount, CloneVolumes
<1>7. MountInv' /\ OnlineInv'
  BY <1>2 DEF IInv, MountInv, OnlineInv, BeforeMount, BootSteps, RepairSteps
<1>8. BcdInv' /\ HiveInv'
  BY <1>2 DEF IInv, BcdInv, HiveInv, WaitSteps, BeforeMount, BootSteps, RepairSteps, BootVolume
<1> QED BY <1>4, <1>6, <1>7, <1>8 DEF IInv

\* A step that changes neither a drive letter nor what is left behind, and
\* does not end the function, keeps what is said of an ended function.
LEMMA RunningKeepsLeft ==
  ASSUME step' \notin {"ok", "failed"}
  PROVE  LeftInv'
BY DEF LeftInv, KeptLettersServe, NoStrayMount

\* A round of WaitForVolume finds the volume, goes on or fails.
LEMMA PollKeeps ==
  ASSUME IInv, NEW volume \in Volumes, NEW found, NEW letters \in SUBSET (Letters \cup {NoLetter}),
         Poll(volume, found, letters),
         \/ step = "waitWindows" /\ found = "pickWindows"
         \/ step = "waitBoot" /\ found = "pickBoot" /\ plan.boot = "own"
  PROVE  IInv'
<1>1. CASE Fail(letters)
  BY <1>1, FailKeeps DEF WaitSteps
<1>2. CASE ~Fail(letters)
  <2>1. /\ polls' \in 0..MaxPolls
        /\ step' \in {step, found} /\ UNCHANGED failure
        /\ UNCHANGED <<diskVars, arrived, letterVars, cloneVars>>
    <3>1. polls \in 0..MaxPolls
      BY DEF IInv, TypeOK
    <3> QED BY <1>2, <3>1, BoundsAssumption DEF Poll, TimeLeft, NextPoll, Goto
  <2>2. TypeOK'
    BY <2>1 DEF IInv, TypeOK, Steps, WaitSteps
  <2>3. LeftInv'
    BY <2>1, RunningKeepsLeft
  <2>4. MountInv' /\ OnlineInv'
    BY <2>1 DEF IInv, MountInv, OnlineInv, BeforeMount, BootSteps, RepairSteps, NoEsp, BootVolume
  <2>5. BcdInv' /\ HiveInv'
    BY <2>1 DEF IInv, BcdInv, HiveInv, WaitSteps, BeforeMount, BootSteps, RepairSteps, BootVolume
  <2> QED BY <2>2, <2>3, <2>4, <2>5 DEF IInv
<1> QED BY <1>1, <1>2

\* Mounting a volume at a free letter disturbs no letter that is mounted.
LEMMA MountKeeps ==
  ASSUME IInv, NEW l \in Letters, NEW v \in Volumes, NEW next,
         NEW letters \in SUBSET (Letters \cup {NoLetter}), Mount(l, v, next, letters),
         \/ step = "mountWindows" /\ l = winLetter /\ v = "windows" /\ next = "waitBoot"
         \/ step = "mountBoot" /\ l = bootLetter /\ v = "boot" /\ next = "bcdboot"
  PROVE  IInv'
<1>1. CASE Fail(letters)
  BY <1>1, FailKeeps DEF WaitSteps
<1>2. CASE MountAt(l, v) /\ Goto(next)
           /\ UNCHANGED <<diskVars, waitVars, winLetter, bootLetter, stuck, cloneVars>>
  <2> USE DEF Goto
  <2>1. /\ drive' \in [Letters -> {"free", "other"} \cup Volumes]
        /\ drive'[l] = v
        /\ \A k \in Letters : drive[k] \in Volumes => drive'[k] = drive[k]
    BY <1>2 DEF MountAt, IInv, TypeOK, Volumes
  <2>2. TypeOK'
    BY <1>2, <2>1 DEF IInv, TypeOK, Steps, WaitSteps, RepairSteps
  <2>3. LeftInv'
    BY <1>2, RunningKeepsLeft
  <2>4. CASE step = "mountWindows"
    BY <1>2, <2>1, <2>2, <2>3, <2>4
    DEF IInv, MountInv, OnlineInv, BcdInv, HiveInv, WaitSteps, BeforeMount, BootSteps,
        RepairSteps, NoEsp,
        BootVolume
  <2>5. CASE step = "mountBoot"
    <3>1. winLetter \in Letters /\ drive[winLetter] = "windows" /\ plan.boot = "own"
      BY <2>5 DEF IInv, MountInv, BootSteps
    <3>2. drive'[winLetter] = "windows" /\ drive'[bootLetter] = "boot" /\ BootVolume' = "boot"
      BY <1>2, <2>1, <2>5, <3>1 DEF Volumes, BootVolume
    <3>3. MountInv' /\ OnlineInv'
      BY <1>2, <2>5, <3>1, <3>2
      DEF IInv, MountInv, OnlineInv, BeforeMount, BootSteps, RepairSteps, NoEsp
    <3>4. BcdInv' /\ HiveInv'
      BY <1>2, <2>5, <3>2 DEF IInv, BcdInv, HiveInv, WaitSteps, BeforeMount, BootSteps, RepairSteps
    <3> QED BY <2>2, <2>3, <3>3, <3>4 DEF IInv
  <2> QED BY <2>4, <2>5
<1> QED BY <1>1, <1>2 DEF Mount

\* No step of the function, of the mount manager or of another process breaks
\* the invariant.
LEMMA StepKeeps ==
  ASSUME IInv, [Next]_vars
  PROVE  IInv'
<1> USE DEF Goto
<1>1. CASE RefuseWithoutEsp
  BY <1>1, FailKeeps DEF RefuseWithoutEsp
<1>2. CASE BringOnline
  <2>1. CASE Fail({})
    BY <1>2, <2>1, FailKeeps DEF BringOnline
  <2>2. CASE ~Fail({})
    <3>1. /\ step = "start" /\ ~NoEsp /\ step' = "waitWindows" /\ offline' = FALSE
          /\ UNCHANGED <<plan, attrs, waitVars, letterVars, cloneVars, failure>>
      BY <1>2, <2>2 DEF BringOnline, OnlineFails
    <3>2. TypeOK'
      BY <3>1, ZenonT(30) DEF IInv, TypeOK, Steps, WaitSteps
    <3>3. LeftInv'
      BY <3>1, RunningKeepsLeft DEF IInv
    <3>4. MountInv' /\ OnlineInv'
      BY <3>1 DEF IInv, MountInv, OnlineInv, BeforeMount, BootSteps, RepairSteps, NoEsp
    <3>5. BcdInv' /\ HiveInv'
      BY <3>1 DEF IInv, BcdInv, HiveInv, WaitSteps, BeforeMount, BootSteps, RepairSteps, BootVolume
    <3> QED BY <3>2, <3>3, <3>4, <3>5 DEF IInv
  <2> QED BY <2>1, <2>2
<1>3. CASE WaitForWindows
  BY <1>3, PollKeeps DEF WaitForWindows, Volumes
<1>4. CASE PickWindowsLetter
  <2>1. CASE Fail({})
    BY <1>4, <2>1, FailKeeps DEF PickWindowsLetter, WaitSteps
  <2>2. CASE ~Fail({})
    <3>1. /\ winLetter' \in Letters /\ step = "pickWindows" /\ step' = "mountWindows"
          /\ UNCHANGED <<failure, diskVars, waitVars, drive, bootLetter, stuck, cloneVars>>
      BY <1>4, <2>2 DEF PickWindowsLetter, Highest, Free
    <3> QED
      BY <3>1, RunningKeepsLeft
      DEF IInv, TypeOK, MountInv, OnlineInv, BcdInv, HiveInv, Steps, WaitSteps, BeforeMount,
          BootSteps, RepairSteps, NoEsp, BootVolume
  <2> QED BY <2>1, <2>2
<1>5. CASE MountWindows
  <2>1. step = "mountWindows" /\ winLetter \in Letters
    BY <1>5 DEF MountWindows, IInv, MountInv
  <2> QED BY <1>5, <2>1, MountKeeps DEF MountWindows, Volumes
<1>6. CASE BootFilesOnWindows
  BY <1>6, RunningKeepsLeft
  DEF BootFilesOnWindows, IInv, TypeOK, MountInv, OnlineInv, BcdInv, HiveInv, Steps, WaitSteps,
      BeforeMount, BootSteps, RepairSteps, NoEsp, BootVolume
<1>7. CASE WaitForBoot
  BY <1>7, PollKeeps DEF WaitForBoot, Volumes, IInv, TypeOK
<1>8. CASE PickBootLetter
  <2>1. CASE Fail({winLetter})
    BY <1>8, <2>1, FailKeeps DEF PickBootLetter, WaitSteps, IInv, TypeOK
  <2>2. CASE ~Fail({winLetter})
    <3>1. /\ bootLetter' \in Letters /\ step = "pickBoot" /\ step' = "mountBoot"
          /\ UNCHANGED <<failure, diskVars, waitVars, drive, winLetter, stuck, cloneVars>>
      BY <1>8, <2>2 DEF PickBootLetter, Highest, Free
    <3> QED
      BY <3>1, RunningKeepsLeft
      DEF IInv, TypeOK, MountInv, OnlineInv, BcdInv, HiveInv, Steps, WaitSteps, BeforeMount,
          BootSteps, RepairSteps, NoEsp, BootVolume
  <2> QED BY <2>1, <2>2
<1>9. CASE MountBoot
  <2>1. step = "mountBoot" /\ bootLetter \in Letters
    BY <1>9 DEF MountBoot, IInv, MountInv
  <2> QED BY <1>9, <2>1, MountKeeps DEF MountBoot, Volumes, IInv, TypeOK
<1>10. CASE RunBcdboot
  <2>1. drive[bootLetter] = BootVolume /\ step \in RepairSteps
    BY <1>10 DEF RunBcdboot, IInv, MountInv, RepairSteps
  <2>2. CASE FailKeepingLetters({winLetter, bootLetter})
    BY <1>10, <2>1, <2>2, FailKeepingKeeps DEF RunBcdboot, FailKeepingLetters, FinalizeFail
  <2>3. CASE /\ bcd' = BootVolume /\ Goto("loadHive")
             /\ UNCHANGED <<diskVars, waitVars, letterVars, hive, values, extended>>
    BY <1>10, <2>1, <2>3, RunningKeepsLeft
    DEF RunBcdboot, IInv, TypeOK, MountInv, OnlineInv, BcdInv, HiveInv, Steps, WaitSteps,
        BeforeMount, BootSteps, RepairSteps, NoEsp, BootVolume, Volumes
  <2> QED BY <1>10, <2>1, <2>2, <2>3 DEF RunBcdboot
<1>11. CASE LoadHive
  <2>1. CASE FailKeepingLetters({})
    BY <1>11, <2>1, FailKeepingKeeps DEF LoadHive, RepairSteps, FailKeepingLetters, IInv, BcdInv
  <2>2. CASE ~FailKeepingLetters({})
    BY <1>11, <2>2, RunningKeepsLeft
    DEF LoadHive, IInv, TypeOK, MountInv, OnlineInv, BcdInv, HiveInv, WaitSteps, Steps,
        BeforeMount, BootSteps, RepairSteps, NoEsp, BootVolume
  <2> QED BY <2>1, <2>2
<1>12. CASE OpenMountedDevices
  <2>1. CASE FailKeepingLetters({})
    BY <1>12, <2>1, FailKeepingKeeps DEF OpenMountedDevices, RepairSteps, IInv, BcdInv
  <2>2. CASE ~FailKeepingLetters({})
    BY <1>12, <2>2, RunningKeepsLeft
    DEF OpenMountedDevices, UnloadHive, IInv, TypeOK, MountInv, OnlineInv, BcdInv, HiveInv,
        WaitSteps, Steps,
        BeforeMount, BootSteps, RepairSteps, NoEsp, BootVolume
  <2> QED BY <2>1, <2>2
<1>13. CASE ClearValue
  <2>1. values' \in 0..MaxValues
    BY <1>13, BoundsAssumption DEF ClearValue, IInv, TypeOK
  <2> QED
    BY <1>13, <2>1, RunningKeepsLeft
    DEF ClearValue, UnloadHive, IInv, TypeOK, MountInv, OnlineInv, BcdInv, HiveInv, WaitSteps,
        Steps,
        BeforeMount, BootSteps, RepairSteps, NoEsp, BootVolume
<1>14. CASE ExtendFilesystem
  <2>1. CASE FailKeepingLetters({winLetter})
    BY <1>14, <2>1, FailKeepingKeeps DEF ExtendFilesystem, RepairSteps, IInv, BcdInv
  <2>2. CASE ~FailKeepingLetters({winLetter})
    <3>1. /\ drive' \in [Letters -> {"free", "other"} \cup Volumes]
          /\ stuck' \subseteq Letters
          /\ \A l \in Letters : drive'[l] \in Volumes => l \in stuck'
      <4>1. Unmount /\ drive \in [Letters -> {"free", "other"} \cup Volumes]
        BY <1>14, <2>2 DEF ExtendFilesystem, IInv, TypeOK
      <4> QED BY <4>1 DEF Unmount, Volumes
    <3>7. /\ step' = "ok" /\ extended' = plan.grow /\ UNCHANGED failure
          /\ UNCHANGED <<diskVars, waitVars, winLetter, bootLetter, bcd, hive, values>>
      BY <1>14, <2>2 DEF ExtendFilesystem, MustExtend
    <3>2. LeftInv'
      BY <3>1, <3>7 DEF LeftInv, KeptLettersServe, NoStrayMount
    <3>3. plan.grow \in BOOLEAN
      BY DEF IInv, TypeOK, LegalPlans, Plans
    <3>4. TypeOK'
      BY <3>1, <3>7, <3>3 DEF IInv, TypeOK, Steps
    <3>5. MountInv' /\ OnlineInv'
      BY <1>14, <3>1, <3>7 DEF ExtendFilesystem, IInv, MountInv, OnlineInv, BeforeMount, BootSteps,
                         RepairSteps, NoEsp
    <3>6. BcdInv' /\ HiveInv'
      BY <1>14, <3>1, <3>7 DEF ExtendFilesystem, IInv, BcdInv, HiveInv, WaitSteps, BeforeMount,
                               BootSteps,
                         RepairSteps, BootVolume
    <3> QED BY <3>2, <3>4, <3>5, <3>6 DEF IInv
  <2> QED BY <2>1, <2>2
<1>15. CASE VolumeArrives
  <2>1. /\ arrived' \subseteq Volumes
        /\ UNCHANGED <<diskVars, step, polls, letterVars, cloneVars, failure>>
    BY <1>15 DEF VolumeArrives, CloneVolumes, Volumes, IInv, TypeOK
  <2> QED
    BY <2>1 DEF IInv, TypeOK, MountInv, OnlineInv, BcdInv, HiveInv, LeftInv, KeptLettersServe,
                NoStrayMount, CloneVolumes, BootVolume, NoEsp
<1>16. CASE LetterChanges
  <2>1. /\ drive' \in [Letters -> {"free", "other"} \cup Volumes]
        /\ \A l \in Letters : drive[l] \in Volumes => drive'[l] = drive[l]
        /\ \A l \in Letters : drive'[l] \in Volumes => drive[l] \in Volumes
    BY <1>16 DEF LetterChanges, IInv, TypeOK, Volumes
  <2>2. UNCHANGED <<diskVars, step, waitVars, winLetter, bootLetter, stuck, cloneVars, failure>>
    BY <1>16 DEF LetterChanges
  <2>3. TypeOK' /\ OnlineInv' /\ BcdInv' /\ HiveInv'
    BY <2>1, <2>2 DEF IInv, TypeOK, OnlineInv, BcdInv, HiveInv, NoEsp, BootVolume
  <2>4. MountInv'
    BY <2>1, <2>2 DEF IInv, MountInv, BootVolume, Volumes
  <2>5. LeftInv'
    BY <2>1, <2>2 DEF IInv, LeftInv, KeptLettersServe, NoStrayMount, CloneVolumes, Volumes
  <2> QED BY <2>3, <2>4, <2>5 DEF IInv
<1>17. CASE UNCHANGED vars
  BY <1>17 DEF IInv, TypeOK, MountInv, OnlineInv, BcdInv, HiveInv, LeftInv, KeptLettersServe,
               NoStrayMount, CloneVolumes, BootVolume, NoEsp
<1> QED
  BY <1>1, <1>2, <1>3, <1>4, <1>5, <1>6, <1>7, <1>8, <1>9, <1>10, <1>11, <1>12, <1>13, <1>14,
     <1>15, <1>16, <1>17
  DEF Next, Proceed

\* What every state of FinalizeNewIds satisfies.
THEOREM Invariance == Spec => []IInv
<1>1. Init => IInv
  BY InitIInv
<1>2. IInv /\ [Next]_vars => IInv'
  BY StepKeeps
<1> QED BY <1>1, <1>2, PTL DEF Spec
-----------------------------------------------------------------------------
(* The theorems *)

\* bcdboot (RunProcess, bootfix.cpp) rewrites boot files on the clone's own
\* boot volume or nowhere, however many drive letters change hands meanwhile.
THEOREM BcdbootStaysOnClone == Spec => []BcdbootOnCloneOnly
<1>1. IInv => BcdbootOnCloneOnly
  BY DEF IInv, BcdInv, BcdbootOnCloneOnly
<1> QED BY <1>1, Invariance, PTL

\* After a failure of steps 4-6 the letters of the printed recovery commands
\* denote volumes of the clone, and stay so whatever other processes do.
THEOREM RecoveryLettersServe == Spec => []KeptLettersServe
<1>1. IInv => KeptLettersServe
  BY DEF IInv, LeftInv
<1> QED BY <1>1, Invariance, PTL

\* Every variable has its type; success and an early failure leave no letter
\* mounted but those Windows refused to release, and the function is never left
\* with the clone's hive loaded unless Windows refused to unload it.
THEOREM NothingIsLeaked == Spec => []ResourcesSettled
<1>1. IInv => NoStrayMount /\ TypeOK
  BY DEF IInv, LeftInv
<1>2. IInv => HiveReleased
  <2>1. ASSUME IInv PROVE step \in {"ok", "failed"} => hive \in {"unloaded", "stuck"}
    BY <2>1 DEF IInv, HiveInv
  <2>2. ASSUME IInv, hive \in {"loaded", "keyOpen"}
        PROVE  winLetter \in Letters /\ drive[winLetter] = "windows"
    <3>1. step \in Steps
      BY <2>2 DEF IInv, TypeOK
    <3>2. step \in RepairSteps
      BY <2>2, <3>1 DEF IInv, HiveInv, WaitSteps, Steps, RepairSteps
    <3> QED BY <2>2, <3>2 DEF IInv, MountInv
  <2> QED BY <2>1, <2>2 DEF HiveReleased
<1> QED BY <1>1, <1>2, Invariance, PTL DEF ResourcesSettled

\* FinalizeNewIds returns only with the clone online, its boot volume rewritten
\* and the file system of a grown partition extended.
THEOREM SuccessMeansComplete == Spec => []SuccessIsComplete
<1>1. IInv => SuccessIsComplete
  BY DEF IInv, OnlineInv, BcdInv, SuccessIsComplete
<1> QED BY <1>1, Invariance, PTL

\* A step that neither leaves the function nor brings the disk online is
\* invisible to the caller: it happens between two steps of the same result.
LEMMA QuietStep ==
  ASSUME UNCHANGED <<attrs, offline>>,
         \/ UNCHANGED step
         \/ step \notin {"start", "ok", "failed"} /\ step' \notin {"start", "ok", "failed"}
  PROVE  UNCHANGED Contract!vars
BY DEF Contract!vars, Result

\* Any step from which the function ends, after the disk was brought online.
LEMMA EndingStep ==
  ASSUME UNCHANGED <<attrs, offline>>, step \notin {"start", "ok", "failed"},
         step' \in {"ok", "failed"}
  PROVE  Contract!Next
<1>1. Contract!Finish
  BY DEF Contract!Finish, Result
<1> QED BY <1>1 DEF Contract!Next

\* Each step of FinalizeNewIds is one of its contract, or none.
LEMMA StepImplements ==
  ASSUME IInv, [Next]_vars
  PROVE  [Contract!Next]_(Contract!vars)
<1> USE DEF Goto
<1>1. step \in Steps
  BY DEF IInv, TypeOK
<1>2. CASE RefuseWithoutEsp \/ BringOnline
  <2>1. CASE Fail({})
    <3>1. Contract!GiveUp
      BY <1>2, <2>1 DEF RefuseWithoutEsp, BringOnline, Fail, FinalizeFail, Contract!GiveUp, Result
    <3> QED BY <3>1 DEF Contract!Next
  <2>2. CASE ~Fail({})
    <3>1. Contract!BringOnline
      BY <1>2, <2>2 DEF RefuseWithoutEsp, BringOnline, OnlineFails, Contract!BringOnline, Result
    <3> QED BY <3>1 DEF Contract!Next
  <2> QED BY <2>1, <2>2
<1>3. CASE /\ step \notin {"start", "ok", "failed"} /\ step' \in Steps \ {"start"}
           /\ UNCHANGED <<attrs, offline>>
  BY <1>3, QuietStep, EndingStep
<1>4. CASE UNCHANGED <<attrs, offline, step>>
  BY <1>4, QuietStep
<1>5. CASE WaitForWindows \/ PickWindowsLetter \/ MountWindows \/ BootFilesOnWindows
        \/ WaitForBoot \/ PickBootLetter \/ MountBoot
  <2>1. /\ step \in WaitSteps /\ step' \in WaitSteps \cup {"bcdboot", "failed"}
        /\ UNCHANGED diskVars
    BY <1>5 DEF WaitForWindows, PickWindowsLetter, MountWindows, BootFilesOnWindows,
       WaitForBoot, PickBootLetter, MountBoot, Poll, Mount, Fail, FinalizeFail, WaitSteps
  <2> QED BY <1>3, <2>1 DEF WaitSteps, Steps, RepairSteps
<1>6. CASE RunBcdboot \/ LoadHive \/ OpenMountedDevices \/ ClearValue \/ ExtendFilesystem
  <2>1. step \in RepairSteps /\ step' \in RepairSteps \cup {"ok", "failed"} /\ UNCHANGED diskVars
    BY <1>6 DEF RunBcdboot, LoadHive, OpenMountedDevices, ClearValue, ExtendFilesystem,
       FailKeepingLetters, FinalizeFail, RepairSteps
  <2> QED BY <1>3, <2>1 DEF RepairSteps, Steps
<1>7. CASE VolumeArrives \/ LetterChanges \/ UNCHANGED vars
  BY <1>4, <1>7 DEF VolumeArrives, LetterChanges
<1> QED BY <1>2, <1>5, <1>6, <1>7 DEF Next, Proceed

\* FinalizeNewIds keeps what CmdClone relies on (FinalizeContract): it gives up
\* at once, or brings the disk online and then succeeds or fails.
THEOREM KeepsContract == Spec => ImplementsContract
<1>1. Init => Contract!Init
  BY DEF Init, Contract!Init, Result
<1>2. IInv /\ [Next]_vars => [Contract!Next]_(Contract!vars)
  BY StepImplements
<1> QED BY <1>1, <1>2, Invariance, PTL DEF Spec, ImplementsContract, Contract!Spec
=============================================================================
