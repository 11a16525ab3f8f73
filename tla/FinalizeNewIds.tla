--------------------------- MODULE FinalizeNewIds ---------------------------
(***************************************************************************)
(* FinalizeNewIds (bootfix.cpp), the --new-ids epilogue: bring the clone   *)
(* online, wait for its volumes, mount them at temporary drive letters,    *)
(* run bcdboot, clear the clone's MountedDevices key, extend the file      *)
(* system.  Meanwhile volumes arrive and other processes take and release  *)
(* drive letters.                                                          *)
(***************************************************************************)
EXTENDS Naturals

CONSTANTS
  Letters,    \* the drive letters G..Z, as ranks; the search starts at Z
  MaxPolls,   \* bound: unsuccessful polls of WaitForVolume within its 15 s
  MaxValues   \* bound: values recorded under the clone's MountedDevices

ASSUME LettersAssumption == Letters \subseteq Nat \ {0}
ASSUME BoundsAssumption  == MaxPolls \in Nat /\ MaxValues \in Nat

NoLetter == 0

VARIABLES
  plan,        \* what the plan says: style, where boot files go, --expand grew
  attrs,       \* the device implements the offline attribute
  offline,     \* the offline attribute of the target disk
  step,        \* control: the next thing the function does
  arrived,     \* volumes of the clone the mount manager has surfaced
  polls,       \* unsuccessful polls of the current WaitForVolume
  drive,       \* what each drive letter denotes
  winLetter, bootLetter,   \* the temporary letters chosen
  stuck,       \* letters whose mount Windows refused to remove
  bcd,         \* the volume whose boot files bcdboot has rewritten
  hive,        \* the clone's SYSTEM hive: unloaded, loaded, its key open, or
               \* stuck: Windows refused to unload it
  values,      \* values left under the clone's MountedDevices key
  extended,    \* the NTFS file system fills the grown partition
  failure      \* the FinalizeFail thrown: where, and the letters it prints

diskVars   == <<plan, attrs, offline>>
waitVars   == <<arrived, polls>>
letterVars == <<drive, winLetter, bootLetter, stuck>>
cloneVars  == <<bcd, hive, values, extended>>
vars == <<diskVars, step, waitVars, letterVars, cloneVars, failure>>

Plans ==
  [style: {"GPT", "MBR"}, boot: {"own", "windows", "none"}, grow: BOOLEAN]

\* GPT boots from an ESP or the plan has none; MBR boots from the active
\* partition, and from the Windows partition when no other one is active.
LegalPlans ==
  {p \in Plans : p.boot # (IF p.style = "GPT" THEN "windows" ELSE "none")}

WaitSteps  == {"waitWindows", "pickWindows", "mountWindows",
               "waitBoot", "pickBoot", "mountBoot"}
RepairSteps == {"bcdboot", "loadHive", "openKey", "clearValues", "extend"}
Steps      == {"start", "ok", "failed"} \cup WaitSteps \cup RepairSteps
Volumes    == {"windows", "boot"}
CloneVolumes == IF plan.boot = "own" THEN Volumes ELSE {"windows"}
BootVolume == IF plan.boot = "own" THEN "boot" ELSE "windows"
NoFailure  == [at |-> "start", letters |-> {}]

Init ==
  /\ plan \in LegalPlans
  /\ attrs \in BOOLEAN
  /\ offline \in (IF attrs THEN BOOLEAN ELSE {FALSE})
  /\ step = "start"
  /\ arrived = {} /\ polls = 0
  /\ drive \in [Letters -> {"free", "other"}]
  /\ winLetter = NoLetter /\ bootLetter = NoLetter /\ stuck = {}
  /\ bcd = "untouched"
  /\ hive = "unloaded"
  /\ values \in 0..MaxValues
  /\ extended = FALSE
  /\ failure = NoFailure
-----------------------------------------------------------------------------
Goto(s) == step' = s /\ UNCHANGED failure

\* ~TempMount: the letters this function mounted are released.  The result of
\* DeleteVolumeMountPoint is not looked at: what it refuses stays mounted.
Mounted == {l \in Letters : drive[l] \in Volumes}
Unmount ==
  /\ stuck' \in SUBSET Mounted
  /\ drive' = [l \in Letters |-> IF l \in Mounted \ stuck' THEN "free" ELSE drive[l]]

FinalizeFail(letters) ==
  /\ step' = "failed"
  /\ failure' = [at |-> step, letters |-> letters]

\* Thrown before step 4: the temporary mounts are unwound.
Fail(letters) ==
  /\ FinalizeFail(letters)
  /\ Unmount
  /\ UNCHANGED <<diskVars, waitVars, winLetter, bootLetter, cloneVars>>

\* The handler of steps 4-6 dismisses both TempMounts.
DismissForgotten == Unmount   \* mutant: the mounts are unwound all the same
Dismiss == UNCHANGED <<drive, stuck>>

\* The key is closed before the hive is unloaded, as it must be.  The result
\* of RegUnLoadKey is not looked at: refused, the hive stays loaded.
UnloadWhileOpen ==   \* mutant: the other order, and RegUnLoadKey always fails
  IF hive = "loaded" THEN hive' \in {"unloaded", "stuck"} ELSE UNCHANGED hive
UnloadHive ==
  IF hive \in {"loaded", "keyOpen"} THEN hive' \in {"unloaded", "stuck"}
  ELSE UNCHANGED hive

\* Thrown in steps 4-6.
FailKeepingLetters(letters) ==
  /\ FinalizeFail(letters)
  /\ Dismiss
  /\ UnloadHive
  /\ UNCHANGED <<diskVars, waitVars, winLetter, bootLetter, values, extended>>

\* The free letters, as GetLogicalDrives shows them now; the highest is used.
Free(excluded) == {l \in Letters \ excluded : drive[l] = "free"}
Highest(S, l)  == l \in S /\ \A k \in S : k <= l

\* MountAt: fails when the letter is no longer free, and may fail anyway.
MountUnchecked(l, v) ==   \* mutant: the result is not looked at
  drive' = IF drive[l] = "free" THEN [drive EXCEPT ![l] = v] ELSE drive
MountAt(l, v) == drive[l] = "free" /\ drive' = [drive EXCEPT ![l] = v]

Mount(l, v, next, letters) ==
  \/ /\ MountAt(l, v)
     /\ Goto(next)
     /\ UNCHANGED <<diskVars, waitVars, winLetter, bootLetter, stuck, cloneVars>>
  \/ Fail(letters)

\* The 15 s of WaitForVolume.
TimeLeft == polls < MaxPolls
PollAfresh == polls                 \* mutant: every poll restarts the clock
NextPoll == polls + 1

\* One round of WaitForVolume: found, not yet, or out of time.
Poll(volume, found, letters) ==
  \/ /\ volume \in arrived
     /\ polls' = 0
     /\ Goto(found)
     /\ UNCHANGED <<diskVars, arrived, letterVars, cloneVars>>
  \/ /\ volume \notin arrived
     /\ TimeLeft
     /\ polls' = NextPoll
     /\ Goto(step)
     /\ UNCHANGED <<diskVars, arrived, letterVars, cloneVars>>
  \/ /\ volume \notin arrived
     /\ ~TimeLeft
     /\ Fail(letters)
-----------------------------------------------------------------------------
NoEsp == plan.style = "GPT" /\ plan.boot = "none"

RefuseWithoutEsp == step = "start" /\ NoEsp /\ Fail({})

\* A failure to bring the disk online ends the function.
OnlineIgnored ==   \* mutant: the failure is swallowed
  Goto("waitWindows") /\ UNCHANGED <<diskVars, waitVars, letterVars, cloneVars>>
OnlineFails == Fail({})

BringOnline ==
  /\ step = "start"
  /\ ~NoEsp
  /\ \/ /\ attrs
        /\ offline' = FALSE
        /\ Goto("waitWindows")
        /\ UNCHANGED <<plan, attrs, waitVars, letterVars, cloneVars>>
     \/ OnlineFails

WaitForWindows == step = "waitWindows" /\ Poll("windows", "pickWindows", {})

PickWindowsLetter ==
  /\ step = "pickWindows"
  /\ \/ /\ \E l \in Letters : Highest(Free({}), l) /\ winLetter' = l
        /\ Goto("mountWindows")
        /\ UNCHANGED <<diskVars, waitVars, drive, bootLetter, stuck, cloneVars>>
     \/ Free({}) = {} /\ Fail({})

MountWindows ==
  step = "mountWindows" /\ Mount(winLetter, "windows", "waitBoot", {})

\* Boot files on the Windows partition itself: /s names its letter.
BootFilesOnWindows ==
  /\ step = "waitBoot"
  /\ plan.boot = "windows"
  /\ bootLetter' = winLetter
  /\ Goto("bcdboot")
  /\ UNCHANGED <<diskVars, waitVars, drive, winLetter, stuck, cloneVars>>

WaitForBoot ==
  step = "waitBoot" /\ plan.boot = "own" /\ Poll("boot", "pickBoot", {winLetter})

PickBootLetter ==
  /\ step = "pickBoot"
  /\ \/ /\ \E l \in Letters : Highest(Free({winLetter}), l) /\ bootLetter' = l
        /\ Goto("mountBoot")
        /\ UNCHANGED <<diskVars, waitVars, drive, winLetter, stuck, cloneVars>>
     \/ Free({winLetter}) = {} /\ Fail({winLetter})

MountBoot ==
  step = "mountBoot" /\ Mount(bootLetter, "boot", "bcdboot", {winLetter})

\* bcdboot <win>:\Windows /s <boot>: rewrites the boot files on whatever the
\* letter denotes when it runs, completely or, if it fails, in part.
RunBcdboot ==
  /\ step = "bcdboot"
  /\ \/ /\ bcd' = drive[bootLetter]
        /\ Goto("loadHive")
        /\ UNCHANGED <<diskVars, waitVars, letterVars, hive, values, extended>>
     \/ /\ bcd' \in {bcd, drive[bootLetter]}
        /\ FailKeepingLetters({winLetter, bootLetter})

LoadHive ==
  /\ step = "loadHive"
  /\ \/ /\ hive' = "loaded"
        /\ Goto("openKey")
        /\ UNCHANGED <<diskVars, waitVars, letterVars, bcd, values, extended>>
     \/ FailKeepingLetters({}) /\ UNCHANGED bcd

\* RegOpenKeyEx: opened; absent, so nothing is recorded; or refused.
OpenMountedDevices ==
  /\ step = "openKey"
  /\ \/ /\ \/ hive' = "keyOpen" /\ Goto("clearValues")
           \/ values = 0 /\ UnloadHive /\ Goto("extend")
        /\ UNCHANGED <<diskVars, waitVars, letterVars, bcd, values, extended>>
     \/ FailKeepingLetters({}) /\ UNCHANGED bcd

\* One round of the loop: delete the first value, or leave the loop: at the
\* end of the enumeration or on any error, which is not told apart.
ClearValue ==
  /\ step = "clearValues"
  /\ \/ values > 0 /\ values' = values - 1 /\ Goto(step) /\ UNCHANGED hive
     \/ UnloadHive /\ Goto("extend") /\ UNCHANGED values
  /\ UNCHANGED <<diskVars, waitVars, letterVars, bcd, extended>>

\* --expand grew the Windows partition.
MustExtendOwnBoot == plan.grow /\ plan.boot = "own"   \* mutant: not for others
MustExtend == plan.grow

ExtendFilesystem ==
  /\ step = "extend"
  /\ \/ /\ extended' = MustExtend
        /\ Unmount
        /\ Goto("ok")
        /\ UNCHANGED <<diskVars, waitVars, winLetter, bootLetter, bcd, hive, values>>
     \/ MustExtend /\ FailKeepingLetters({winLetter}) /\ UNCHANGED bcd

Proceed ==
  \/ RefuseWithoutEsp \/ BringOnline \/ WaitForWindows \/ PickWindowsLetter
  \/ MountWindows \/ BootFilesOnWindows \/ WaitForBoot \/ PickBootLetter
  \/ MountBoot \/ RunBcdboot \/ LoadHive \/ OpenMountedDevices \/ ClearValue
  \/ ExtendFilesystem
-----------------------------------------------------------------------------
\* The mount manager surfaces a volume of the online clone.
VolumeArrives ==
  /\ ~offline
  /\ \E v \in CloneVolumes \ arrived : arrived' = arrived \cup {v}
  /\ UNCHANGED <<diskVars, step, polls, letterVars, cloneVars, failure>>

\* Another process, or automount, takes or releases a drive letter.
LetterChanges ==
  /\ \E l \in Letters :
       \/ drive[l] = "free"  /\ drive' = [drive EXCEPT ![l] = "other"]
       \/ drive[l] = "other" /\ drive' = [drive EXCEPT ![l] = "free"]
  /\ UNCHANGED <<diskVars, step, waitVars, winLetter, bootLetter, stuck, cloneVars,
                 failure>>

Next == Proceed \/ VolumeArrives \/ LetterChanges

\* The thread is scheduled, waits have timeouts and bcdboot terminates.
Spec == Init /\ [][Next]_vars /\ WF_vars(Proceed)
-----------------------------------------------------------------------------
(* Properties *)

\* The variables stay in their types: in particular the poll count stays in
\* the bound and only the function's own mounts denote the clone's volumes.
TypeOK ==
  /\ plan \in LegalPlans
  /\ attrs \in BOOLEAN /\ offline \in BOOLEAN
  /\ step \in Steps
  /\ arrived \subseteq Volumes
  /\ polls \in 0..MaxPolls
  /\ drive \in [Letters -> {"free", "other"} \cup Volumes]
  /\ winLetter \in Letters \cup {NoLetter}
  /\ bootLetter \in Letters \cup {NoLetter}
  /\ bcd \in {"untouched", "free", "other"} \cup Volumes
  /\ stuck \subseteq Letters
  /\ hive \in {"unloaded", "loaded", "keyOpen", "stuck"}
  /\ values \in 0..MaxValues
  /\ extended \in BOOLEAN
  /\ failure \in [at: Steps, letters: SUBSET (Letters \cup {NoLetter})]

\* bcdboot never writes anywhere but to the clone's own boot volume, whoever
\* takes and releases drive letters between choosing one and using it
\* ("bcdboot MUST always receive /s ...", bootfix.cpp).
BcdbootOnCloneOnly == bcd \in {"untouched", BootVolume}

\* A failure of steps 4-6 leaves every letter its recovery command prints
\* denoting a volume of the clone (the handler dismisses the TempMounts).
KeptLettersServe ==
  step = "failed" /\ failure.at \in RepairSteps =>
    \A l \in failure.letters : l \in Letters /\ drive[l] \in CloneVolumes

\* Success, and a failure before step 4, leave no temporary letter mounted but
\* those whose mount Windows refused to remove, and other processes keep
\* theirs (~TempMount).
NoStrayMount ==
  step = "ok" \/ (step = "failed" /\ failure.at \notin RepairSteps) =>
    Mounted \subseteq stuck

\* The clone's SYSTEM hive is loaded and used only while its volume is mounted,
\* and the function is never left with it loaded unless Windows refused to
\* unload it once its key was closed: a hive never given back would keep the
\* clone's volume busy and the next run's RegLoadKey failing.
HiveReleased ==
  /\ step \in {"ok", "failed"} => hive \in {"unloaded", "stuck"}
  /\ hive \in {"loaded", "keyOpen"} =>
       winLetter \in Letters /\ drive[winLetter] = "windows"

\* However the function is left, it gave back every mount that is not meant to
\* stay and the hive, and what remains is what Windows itself refused to take
\* back (the results of both calls are ignored).
ResourcesSettled == TypeOK /\ NoStrayMount /\ HiveReleased

\* Success means that the clone was onlined, its own boot volume rewritten
\* and, when --expand grew the Windows partition, its file system extended.
SuccessIsComplete ==
  step = "ok" => ~offline /\ bcd = BootVolume /\ extended = plan.grow

\* The function always returns or throws, although volumes may never arrive
\* and drive letters keep changing hands.
Terminates == <>(step \in {"ok", "failed"})

\* What the orchestration relies on: FinalizeNewIds gives up at once, or
\* brings the disk online and then succeeds or fails.
Result ==
  CASE step = "start"           -> "running"
    [] step \in {"ok", "failed"} -> step
    [] OTHER                    -> "online"
Contract == INSTANCE FinalizeContract WITH result <- Result
ImplementsContract == Contract!Spec

(* What the documentation says and the code does not do. *)

\* README: on exit 6 "temp drive letters are kept mounted so those commands
\* work as printed".
PrintedLettersServe ==
  step = "failed" =>
    \A l \in failure.letters : l \in Letters /\ drive[l] \in CloneVolumes

\* bootfix.h: FinalizeNewIds resets the clone's MountedDevices registry map,
\* and throws FinalizeFailure on error.
SuccessMeansReset == step = "ok" => values = 0
=============================================================================
