# DiskClone: TLA+ specifications and proofs

DiskClone is a Windows command line tool that clones a whole disk, the running
system disk included: it checks that the pair of disks may be cloned, asks for
confirmation, takes VSS snapshots of the source, replaces the partition table of
the target, copies the partitions (used clusters only for NTFS), and either
leaves the clone offline with the identity of the source or gives it an identity
of its own and makes it bootable (`--new-ids`).  One wrong step destroys the
wrong disk, produces a clone that does not boot, or tells the user something
untrue about a disk that has just been wiped.  These modules specify what the
code in `src/src/` does and check that it does not.

Paths below are relative to the root of the repository, as in `PROJECT.json`, so
the sources are `src/src/*.cpp`.

## 1. Inventory

| Component | Code | State it keeps | Operations |
|---|---|---|---|
| Clone orchestration | `main.cpp` `CmdClone`, `CtrlHandler`, `Confirm` | handles, `targetModified`, `offlined`, `lockedVolumes`, the snapshot set, `g_cancelled` | the sequence of the clone; the handler that annotates failures; Ctrl+C |
| Exclusive access | `main.cpp` 204-269, `volumes.cpp` | the volumes locked and their paths | lock the old volumes, poll for the new ones, check |
| Finalization | `bootfix.cpp` `FinalizeNewIds` | temporary drive letters, a loaded registry hive | online, wait, mount, `bcdboot`, clear `MountedDevices`, extend |
| Splice, instructions | `bootfix.cpp` | none | copy the MBR bootstrap; print how to swap the disks |
| Snapshot set | `vss.cpp` | backup components, shadows | create, look up a shadow device, complete |
| Source consistency | `copy.cpp` `OpenSourceVolumeForCopy`, `main.cpp` 276-294 | the lock of the volume being copied | shadow, lock or raw read |
| Copy engine | `copy.cpp` | the runs gathered from the bitmap | scan the bitmap, merge runs, copy spans |
| Safety gauntlet | `layout.cpp` `BuildClonePlan`, `FindWindowsPartition` | the plan | refusals, sniffing, Windows partition, identity |
| Layout planning, target layout | `layout.cpp` `BuildClonePlan`, `BuildTargetLayoutBuffer` | the plan | `--expand` packing; the entries written |
| Disk operations | `disks.cpp` | `DiskInfo`, a copy of what the disk was | enumerate, identify, online/offline, partition tables |
| Volumes | `volumes.cpp` | none | enumerate, sniff file systems, annotate, lock |
| Command line | `main.cpp` `wmain`, `ParseDiskNumber`, `CmdList` | `CloneOptions` | parse, list |
| Privileges, utilities | `privileges.cpp`, `util.h` | the token; the progress display | elevation, errors, alignment |

How they interact: `CmdClone` calls everything else, on one thread, and keeps all
state that outlives a call.  Ctrl+C arrives on another thread and sets a flag.
What really runs concurrently is the machine: disks are unplugged and their
numbers reused, the mount manager surfaces volumes of an online disk, other
programs open volumes, write to them and take drive letters.  Every call may
fail and throw; two handlers decide what is undone and what is said.

What is hard, and what makes each part correct:

* **Orchestration**: failure at any of twenty points, after some of the effects;
  stale disk numbers; cancellation.  Correct when only the approved disks are
  opened for the clone, when every claim about the target is true at the moment
  it is made, when the exit code means what the table of the README says, and
  when the target is isolated from the system while it is written.
* **Exclusive access**: volumes surface and are opened between rounds of a
  polling loop.  Correct when nobody else has a volume of the target while the
  partition table or a block is written.
* **Finalization**: volumes arrive late or never, letters change hands between
  the choice and the mount, three resources to release or deliberately keep.
  Correct when only the clone is modified and the letters printed are good.
* **Safety gauntlet**: the machine is looked at four times, each time by disk
  number, and disks change their numbers in between.  Correct when the disks
  opened are those asked for and planned for and may be cloned, and when nothing
  that may be cloned is refused.
* **Target table**: slots out of order, empty or too many; padding; identities.
  Correct when what is read back from the clone is the plan, and the plan is the
  source.
* **Source consistency**: writes between reads.  Correct when everything copied
  from a volume is of one instant, and of one for all snapshotted volumes.
* **Copy engine** and **layout**: arithmetic at boundaries (chunk, run, MiB,
  cluster, 2 TiB, wrapping subtraction).  Correct when no allocated cluster is
  lost and no partition overlaps another or leaves the disk.

`PROJECT.json` lists the hazards one by one, each at its line, with the
properties that would catch it.

## 2. Modules

| Module | Models | Relation to others |
|---|---|---|
| `ExitContract` | what a run promises about the target (README exit codes) | abstract; implemented by `CmdClone` |
| `CmdClone` | `CmdClone` with the disks around it | uses `FinalizeContract` for the call of `FinalizeNewIds` |
| `CmdCloneProofs` | theorems on `CmdClone` | extends it |
| `FinalizeContract` | what `FinalizeNewIds` promises its caller | abstract; implemented by `FinalizeNewIds` |
| `FinalizeNewIds` | the `--new-ids` epilogue | proved to implement `FinalizeContract` |
| `FinalizeNewIdsProofs` | theorems on `FinalizeNewIds` | extends it |
| `CommandLine` | verbs, options, disk numbers | |
| `SafetyGauntlet` | privileges, enumeration, annotation, refusals, prompt, revalidation | extends `CommandLine`; proved to take only steps of `CmdClone`, up to the opening of the target |
| `SafetyGauntletProofs` | theorems on `SafetyGauntlet` and `CommandLine` | extends it |
| `TargetTable` | the partition table from the source through the plan to the target | details the plan and the step `SetDriveLayout` of `CmdClone` |
| `TargetTableProofs` | theorems on `TargetTable` | extends it |
| `TargetLocks` | the fallback for a target that cannot be taken offline | proved to take only steps of `CmdClone`, two of which it details |
| `TargetLocksProofs` | theorems on `TargetLocks` | extends it |
| `SourceImage` | the snapshot set, the locks on the source, the reads | details the snapshot and copy steps of `CmdClone` |
| `SourceImageProofs` | theorems on `SourceImage` | extends it |
| `BitmapCopy` | the copy of one partition | details one partition of `SourceImage` |
| `BitmapCopyProofs` | theorems on `BitmapCopy` | extends it |
| `ExpandLayout` | size check and `--expand` packing | details the plan |
| `ExpandLayoutProofs` | theorems on `ExpandLayout` | extends it |
| `MC...` | an instance for TLC each | |

The composition is by contract: `CmdClone` takes the steps of `FinalizeContract`
instead of those of `FinalizeNewIds`, and `FinalizeNewIds` is proved to take no
others.  The other way round, `SafetyGauntlet` and `TargetLocks` are finer than
`CmdClone`: each states with an INSTANCE of `CmdClone` which of its steps it is at, and
TLC checks, and the proofs show, that it takes only steps of `CmdClone` or none
(`ImplementsCmdClone`, `DetailsCmdClone`).  What `SafetyGauntlet` is compared with allows swapped disks at `plan`
and `confirm` only, which is the hypothesis of the theorem `OnlyApprovedDisks`.

### CmdClone

`step` names the next call of the function and `exit` the exit code, `Running`
until the process has one.  The disks are abstract: `at` says which disk the
number of each role denotes now, `content` whether a disk is as it was, has been
destroyed or is a whole clone, `offline` is the persistent attribute of the
target.  A handle stays bound to the disk it was opened on (`sourceDisk`,
`target`).  `Dev` distinguishes disks by what `RevalidateDiskIdentity` compares.

Each call is one action with its success and its failure.  Before the `try` block
a failure leaves through `Exit`, without a note; inside it through `Catch`, which
undoes the offline attribute of a target that is not modified (and may fail to),
words the note from the two flags, and releases the locks.  `said` holds what
the messages claim, so that the properties can compare it with the disks.  The
first step, `BuildPlan`, stands for elevation, enumeration and the safety gauntlet.
A block of the copy is two steps, the look at the cancellation flag and the I/O,
so that Ctrl+C can come between them.  `DeleteDriveLayout` may or may not have an effect,
as its failure is ignored.  `locks` says of which table's volumes locks are held: the first
locking adds the old ones, the second the new ones.

`Cancel` is the control handler.  `SwapDisk` replaces or removes the disks the two
numbers denote, at the steps in `SwapSteps`.

### FinalizeNewIds

One action for each call.  `drive` maps each letter to nothing, somebody else's
volume, or one of the clone's; `VolumeArrives` and `LetterChanges` are the
environment.  `WaitForVolume` polls at most `MaxPolls` times for 15 seconds.  A
failure before step 4 unwinds the temporary mounts (`Fail`); in steps 4-6 the
handler dismisses them (`FailKeepingLetters`).  The code ignores the results of
`DeleteVolumeMountPoint` and `RegUnLoadKey`: a letter that could not be released is in
`stuck`, a hive that could not be unloaded is `"stuck"`, and the function goes on.  While
a key of the hive is open the unloading cannot succeed.  `failure` records the step and the
letters that the message prints.  The loop over `MountedDevices` leaves on any error,
as in the code.

### CommandLine

`argv` is what follows the verb, `i` the index of the loop, one action for each
branch of it.  A number is text with what comes before its digits, their value and
what comes after them: that is all `wcstoul` and the loop over trailing blanks tell
apart.  `Long` is the number of values of `unsigned long`.  `LastGiven` says without
a loop which argument is the number of a role, for `AsGiven` to compare with.

### SafetyGauntlet

`at` says which disk each number denotes now; `disk` and `volumes` what is true of
the machine.  What the program has seen it remembers by number or not at all:
`listed` is the disk a number denoted when it was queried (its `DiskInfo`), `duty`
the annotation, `mapped` and `sniffed` the disks that carried the number of the source
when volumes were enumerated and file systems sniffed.  They are kept because the
properties need to know; the code compares `listed` only, in `RevalidateDiskIdentity`.
`EnumerateDisks` is one action for each number, as disks are replugged between them;
`AnnotateSystemAndPagefileDisks` enumerates the volumes once, `EnumerateVolumes` a
second time.  `named` says which of the lookups succeed, of the volume of Windows and
of that of the boot files.  The refusals of `BuildClonePlan` are one action: they
have the same exit code, and nothing happens between them.  They are in three parts: what
needs no more than the two `DiskInfo` (`Refused`; `spread` abstracts the target on which
`--expand` finds room, which `ExpandLayout` computes), what sniffing finds
(`RefusedSniffing`), and calls that fail (`PlanFails`: opening the source, making GUIDs).
Calls fail on a machine that is `faulty`, where `OpenPhysicalDisk` may fail on a disk that
is there; a number is then passed by in the scan.  A volume has a disk number only if it
has a single extent (`On`).  Environment: `Replug` and
`CreatePagefile`, at the steps in `ReplugSteps` and `HostSteps`.

### TargetTable

A source disk is its table, slot by slot as the drivers report them, and what each
partition holds.  `QueryLayout` with its growing buffer, `CheckTable`, `SniffNext` for
each partition, `ChooseIdentity` and `SetDriveLayout` follow the code.
`FindWindowsPartition` is `IdentifyRunning`, the lookup of the running system, and
then one `CompareNext` for each partition.  `std::sort` is what it guarantees: the
k-th entry is the one with k - 1 before it (`Sorted`).  A type of partition, an attribute or
an identity is one value: no bytes.

### TargetLocks

The volumes present before the wipe (`Old`) and those that come with the new
table (`New`).  The wipe is the deletion of the table, whose failure is ignored, the new
style, the layout with `UpdateDiskProperties`, whose result is ignored too, and for an MBR
source the splice of the bootstrap.  A round of the polling enumerates (`BeginRound`), tries each volume
not yet locked (`PollVolume`), and decides (`EndRound`).  `Surface` and `ToggleUse`
are the mount manager and the other programs; a volume in use cannot be locked
and one that is locked cannot be opened.  `SurfaceSteps` says when volumes surface.

### SourceImage

`log` is the history of blocks other programs have written; an instant is a length
of it.  A shadow shows the instant of the snapshot, any other read the present.
`image` records which write each copied block shows.  The volumes VSS is asked for
are the NTFS ones with a volume path; the rest is read through the disk.  A
volume VSS refused is locked for its copy.

### BitmapCopy

In sectors.  The bitmap is read in chunks of `ChunkBits` clusters, which start at a
multiple of `Granule` below the cluster asked for (`QueryBitmap`), and looked at bit by
bit (`ExamineBit`); the run that is `open` at the end of a chunk is carried on.  `FlushRun`
merges runs less than `MiB` apart.  `span` is what the current call of `CopySpan` has
still to copy, first of the head, then of the runs (`NextRun`).  `image` maps
each sector of the clone to the source sector it shows, which makes a lost, moved
or doubled sector visible.

### ExpandLayout

The loop of `BuildClonePlan` with its index, cursor and unsigned subtraction
(`Minus`, modulo `Word`).  The unit is a third of a MiB so that lengths that are
no multiple of a MiB occur.

## 3. Runs

| Run | Distinct states | Shows |
|---|---|---|
| `clone` | 6,520 | approved disks only, true notes, exit-code contract, isolation, cancellation |
| `finalize` | 15,672 | the clone's own boot files, letters and hive given back unless Windows refuses, the contract, termination |
| `source_image` | 119,550 | one instant for the snapshot set, one for each locked volume |
| `target_locks` | 896 | nobody else has the target at the wipe or during the copy; the wait ends; only steps of `CmdClone` |
| `expand_layout` | 28,660 | the layout is ordered, on the target and long enough |
| `gauntlet` | 837,594 | the disks opened are asked for, planned for, and may be cloned; nothing else is refused unless a call fails; only steps of `CmdClone` |
| `target_table` | 76,454 | nothing is lost between the source's table and the clone's; identity; Windows |
| `bitmap_copy` | 17,016 | every allocated cluster is copied, once, within the volume |

Bounds, and why they are enough:

* `clone`: three disks, so that each number may come to denote the other
  disk of the pair or an unrelated one; two blocks, the first and the last.
  Disks are swapped during the prompt.  The proofs drop all these bounds.
* `finalize`: three letters (two mounts and one that is taken in between; with
  others in use the search runs out), two polls, two registry values.
* `source_image`: two partitions of two blocks and two writes, the least with
  which an image is torn within a volume or between two.
* `target_locks`: two volumes before and two after the wipe, GPT and MBR, and four rounds, one
  more than the early end of the loop needs; the code has ten.
* `expand_layout`: three partitions, each of them Windows in turn, lengths
  aligned and not, targets too small, exact and beyond the 2 TiB cap.
* `bitmap_copy`: every allocation of volumes of six to eight clusters; chunks of
  four bits, so that runs cross chunks; a MiB of three sectors and a buffer of
  two; volumes that fill the partition, leave a sector, end within a cluster.
* `gauntlet`: three disks on five numbers, with gaps of one and, ending the scan,
  of two; one change of numbers, at any step until the prompt is answered (each
  pair of looks is separated by one).  A machine is out of the ordinary in one
  thing; that with the plain command lines only, and many command lines on a plain
  machine.  Calls may fail on machines that are plain otherwise, with the plain
  command lines and every numbering; a volume may have several extents on a single
  disk, and a target be as large as the source needs but too small for what
  `--expand` moves.  `Long` is 1024, so that numbers saturate and negative ones wrap.
* `target_table`: up to nine slots, room for two that grows to eight, a GPT for four
  partitions; NTFS at every set of places, one partition of BitLocker, one
  unreadable sector.

Some properties have named parts, which belong together: `LocksHold` (`WipeExclusive`,
`LocksKept`), `ResourcesSettled` (`NoStrayMount`, `HiveReleased`), `CopyAccounted`
(`SourceReleased`, `SuccessIsWhole`), `LengthsKept` (`DataFits`, `OnlyWindowsGrows`),
`WholeCopy` (`EverythingAllocatedCopied`, `BackupBootInPlace`), `SpansApart` (`RunsApart`,
`CopiedOnce`), `AsAsked` (`AsGiven`, `Privileged`), `SameTable` (`NothingLost`) and
`TableAccepted` (`NeverRejected`, `ReadsBack`).  The type invariant of each module but
`CmdClone` is a part of one of its properties.

`CHECK_DEADLOCK FALSE` is given throughout: the program ends.

**Fairness.**  `CmdClone`, `FinalizeNewIds` and `TargetLocks` assume weak fairness of
`Proceed`, the program's own steps, and none of the environment's.  That is
what the code has: one thread that the system schedules, I/O and IOCTLs that
complete or fail, waits with a timeout or a number of rounds, a user who
answers the prompt.  `bcdboot` is assumed to end, as `RunProcess` waits for it
without a timeout.  The other modules state safety only.

Assumptions on the environment that a property depends on:

* `ApprovedDisksOnly`: no swap after the prompt.  `RevalidateDiskIdentity` and
  the opening of the target use the number twice, with the snapshot between.
* `NobodyElseWrites`: volumes surface before the last enumeration; what surfaces
  later stays unlocked.
* `LocksHold` (`WipeExclusive`): no volume surfaces on the old table after it was enumerated.
* `SafePair`, `PlanOfOneDisk`, `TargetServesNobody`: disks change their numbers no
  later than the prompt, and none comes back to a number it has left, so in the run
  they change only once (section 4); no two disks have the same identity; a
  volume on several disks makes each of them dynamic (or Storage Spaces).
* `target_table`: no two partitions begin at the same place; GUIDs that are made are
  new; on an MBR disk partitions begin at a sector below 2^32.
* `ListsEveryDisk`, `RefusedForCause`: nothing is replugged and no call to the system fails.
  Opening a disk may fail although it is there, `EnumerateDisks` then passes it by, and
  `CoCreateGuid` may fail; whatever fails in the plan refuses the pair.
* `TargetServesNobody`: pagefiles are created before the annotation.  One that is
  created later, or boot files whose volume cannot be looked up, are not seen.
* `TableAccepted` (`NeverRejected`): a GPT source has at most `MaxPartitions` partitions.
* `expand_layout`: Windows ends beyond a MiB for each partition, as any Windows
  does, and on an MBR disk the source partitions end below 2 TiB.  The run
  `mbr_expand` drops the latter: an MBR partition starts below 2 TiB and is
  shorter than that, but may end beyond.
* `bitmap_copy`: the volume and its allocation do not change meanwhile (a shadow
  or a locked volume: `SourceImage`), and NTFS leaves room for a MiB.

### Where code and documents disagree

| Run | The text | The code |
|---|---|---|
| `offline_note` | `src/README.md:71-72`: the note tells whether the target was left OFFLINE | after `FinalizeNewIds` has brought it online, a failure still says that it remains OFFLINE: nothing clears `offlined` |
| `printed_letters` | `src/README.md:67`: on exit 6 the letters are kept, so that the commands work as printed | if the boot volume does not arrive or cannot be mounted, the command names the letter of Windows, and unwinding removes it |
| `mounted_devices` | `src/README.md:51-52`: the map is reset; `bootfix.h:24`: an error throws | an error in the loop ends it like the end of the values does, and the run succeeds |
| `mbr_expand` | `layout.cpp:263`: "target layout does not fit" | trailing partitions that are together longer than the space below the cap wrap the cursor around, and a partition is planned beyond the end of the disk |

Seen in the same models, and left without a run: `ParseDiskNumber` takes a sign, so that
`+1` is disk 1 and so is `-4294967295`, as `wcstoul` negates modulo 2^32, where
`main.cpp:110-111` says that the entire token must be digits, with no sign (`AsAsked`
states what the code reads, not what the comment asks); a mounted volume that is not
NTFS is read raw through the disk while programs write to it, where `src/README.md:98`
says that a mounted, writable volume is never silently copied; a volume that surfaces
after the last enumeration is not locked, where `main.cpp:228-231` says that every
volume that surfaces must be; a default clone shares the GUID or signature of its
source, so that twins whose serial, model and size agree are taken for one disk; if the
boot volume cannot be looked up the check for it is silently off; a GPT with more than
128 partitions is planned, and rejected by the driver after the wipe; the steps between
the prompt and the `try` block fail without the note that `src/README.md:70` promises
for every failure; a target whose wipe failed at the first IOCTL is reported as
destroyed; Ctrl+C during the snapshot is looked at only after the wipe; a volume that
VSS refuses and that is in use is found out after the wipe; `allLocked && attempt >= 2`
ends the polling after one quiet round where its comment says two; onlining a device
without the attribute fails although it is online; `FinalizeNewIds` succeeds with the
hive of the clone still loaded, or a letter still mounted, when Windows refuses to take
them back.

## 4. Theorems

`CmdCloneProofs` proves, for every set of disks, every number of blocks and every
choice of `SwapSteps`, under the assumptions named in `CmdClone`:

| Theorem | Statement |
|---|---|
| `TypeCorrect` | `Spec => []TypeOK` |
| `NotModifiedNoteIsTrue` | "was NOT modified" is said only when no disk is written |
| `OfflineNoteIsExact` | before finalization the OFFLINE note is exact |
| `SwapInstructionsAreTrue` | the instructions claim OFFLINE only when it holds |
| `TargetIsIsolated` | offline, or the old volumes locked from the wipe on and the new ones while written; no lock afterwards |
| `WritersAreToldTruth` | VSS writers hear of success only for a whole clone |
| `OnlyApprovedDisks` | if `SwapSteps` is at most `{"plan", "confirm"}`: only the approved disks |
| `KeepsExitContract` | `CmdClone` implements `ExitContract` |

None of the invariants is inductive.  `Invariance` proves the one that is:

    IInv == /\ TypeOK /\ DryRunInv /\ BlocksInv /\ ContentInv /\ OfflineInv
            /\ LockInv /\ SnapshotInv /\ SaidInv

`ContentInv` ties `targetModified` and the content of each disk to the step: it
is what makes the "not modified" note true and what the refinement reads the
stage of the target from.  `OfflineInv` says that `offlined` implies the attribute
until finalization clears it.  `LockInv` needs `offlined`, because the choice
between attribute and locks is made once and used much later; it follows the locks of
the old volumes and those of the new ones separately, so that a second locking left out
would show.  `BlocksInv` says that
no block is missing once the loop is left, and also gives `TypeOK` its bound.
`SnapshotInv` and `SaidInv` confine the report and the messages to the end.
For each part one lemma shows that every action preserves it, with a case for
each action; three lemmas on `Exit`, `Catch` and `Pass` cover the three ways in
which most actions end.

`OnlyApprovedDisks` needs a second invariant: from the revalidation on, the
numbers denote the disks of the plan.

`KeepsExitContract` maps the state to what has become of the target.  `Became`
reads that from the step, `Stages` shows that a step leaves the control where it
is, exits with a code of its stage, or passes at most one stage boundary, and
`ExitStep` concludes that it is a step of the contract or a stutter.

`TargetLocksProofs` proves, for any volumes, any number of rounds and of blocks, if no
volume surfaces at the steps of `Settled` (on the old table once it was enumerated, or
after the last enumeration of the new one):

| Theorem | Statement |
|---|---|
| `NobodyElseWritesTarget` | `Spec => []NobodyElseWrites` |
| `LocksAreHeld` | `Spec => LocksHold` |
| `RefinesCmdClone` | `Spec => DetailsCmdClone`, if none surfaces at `createDisk` either |

`NobodyElseWrites` is not inductive: `LocksInv` adds that no volume is both locked and
open elsewhere and that what the polling believes to be locked is, `WipeInv` that what was
enumerated is locked or yet to be, `CopyInv` that nothing is present but what the last
enumeration checked, `NewInv` that only volumes of the new table are there after the
wipe, `OldInv` that the handles of the old volumes are kept.  `CmdClone`'s `locks` are read
off the handles, and `LocksAgree` gets their value at each step from the invariant;
`LeaveIsCatch` shows that a failure at any
step is the catch block of `CmdClone`, and `StepDetails` goes through the actions.

`FinalizeNewIdsProofs` proves, for any drive letters, any number of polls and of
registry values, whatever the mount manager and other processes do:

| Theorem | Statement |
|---|---|
| `BcdbootStaysOnClone` | `bcdboot` writes to the boot volume of the clone only |
| `RecoveryLettersServe` | after a failure in steps 4-6 each letter printed denotes a volume of the clone |
| `NothingIsLeaked` | `ResourcesSettled`: the hive and the mounts that are not meant to stay are given back, but for what Windows refuses |
| `SuccessMeansComplete` | success: online, boot files written, file system extended if it has to be |
| `KeepsContract` | `FinalizeNewIds` implements `FinalizeContract` |

`MountInv` is what the others rest on: from the mount on, a letter that was chosen denotes
the volume of the clone, because nobody else can take a letter in use; before it, none
does.  `BcdInv` and `HiveInv` say at which steps `bcdboot` has run and the hive is
loaded or may have been kept, `OnlineInv` what is known of the disk past the first step, `LeftInv` that what a
failure leaves behind outlasts the changes of other letters.

`SafetyGauntletProofs` proves, for any command line, any set of disks, numbers and
volumes, any gap after which the scan ends and any number of changes of the
numbering, under `QuietHost`: nothing is replugged after the prompt and no pagefile is
created after the annotation.

| Theorem | Statement |
|---|---|
| `PlanIsOfOneDisk` | `PlanOfOneDisk`, if no disk returns to a number it left (`NoReturn`) |
| `PairIsSafe` | `SafePair`, under the same condition |
| `TargetIsOutOfUse` | `TargetServesNobody`, under the same condition |
| `AfterOneReplug` | the three without the condition, if `Replugs <= 1` |
| `EveryDiskIsListed` | the scan lists each reachable disk, if nothing is replugged and disks can be opened |
| `RefusalsHaveCause` | a refusal has a named cause, if nothing is replugged and no call fails |
| `OnlyWhatWasAsked` | `AsAsked`: the disks are what the last texts given read as, by a caller with the privileges |
| `DetailsThePlan` | `ImplementsCmdClone` |

`NoReturn` is no convenience.  Without it, and with two changes of numbers, TLC finds `SafePair`
and `PlanOfOneDisk` violated: a disk is listed, another takes its number while
the volumes or the file systems are looked at, and the first is back when
`RevalidateDiskIdentity` compares.  With one change that cannot happen, which
`OnceIsNoReturn` shows.  The invariant `IInv` has a part for each phase: `LineInv` relates
what the loop over the options has taken to the texts it has passed, `TokenInv` the
privileges to how many were asked for, `ScanInv` the disks listed and the misses counted to
the numbers below the next one (and gives completeness of the scan), `MachineInv`, `PlanInv` and
`OpenInv` what was refused and what the numbers denote from the revalidation on.
`SeenInv`, under `NoReturn` only, says that as long as a number denotes the
disk it was listed with, what was looked up by that number is that disk's.
`DetailsThePlan` shows for each action which step of `CmdClone` it is, or that it is none.

`SourceImageProofs` proves, for any number of partitions, blocks and writes:

| Theorem | Statement |
|---|---|
| `SnapshotSetIsOneInstant` | all that is copied of the snapshotted volumes shows one instant |
| `LockedVolumeIsOneInstant` | so does each volume that VSS refused |
| `EverythingIsAccounted` | success means every block of every partition; no lock is left |

`SnapshotInv` fixes the instant of the snapshot; `LockedInv` says that the image of a
volume that is locked shows the present, which stays true because (`LockInv`) nobody has it
open who could write, and turns into an instant of the past when the lock is released.  `LoopInv` counts the
blocks.  The lemma `PastStays` is why later writes do not matter: what a volume
held at an instant does not depend on the history after it.

`ExpandLayoutProofs` proves, for any number of partitions, any lengths and any unit:

| Theorem | Statement |
|---|---|
| `PlanDoesNotOverlap` | `NonOverlapping` |
| `PlanIsWithinTarget` | `WithinTarget`: before the GPT reserve; below 2 TiB if an MBR disk is expanded |
| `PlanKeepsLengths` | `LengthsKept`: only Windows grows, only what is behind it moves |

Their hypothesis `Roomy` is what `expand_layout` assumes of its layouts too, and
`mbr_expand` shows that it is needed: Windows ends beyond a MiB for each partition
behind it, and the partitions of an MBR disk end below 2 TiB.  `RoomInv` is the
argument against the wrap-around: each partition that was packed has cost less than a
MiB more than its length, so that there is room for the next.  `PlacedInv` says where the
packed ones are, `CursorInv` that the cursor never leaves the usable space.

`BitmapCopyProofs` proves, for volumes of any size and allocation, any sizes of clusters,
chunks, buffers and of the gap that is bridged:

| Theorem | Statement |
|---|---|
| `NothingIsLost` | `WholeCopy`: each allocated cluster, the head and the backup boot sector are in place |
| `ReadsStayWithin` | `NoShortRead`: no read ends beyond the volume |
| `NothingIsCopiedTwice` | `SpansApart`: runs lie a MiB apart and end where the allocation does; no sector is copied twice |

`ChunkInv` and `OpenInv` describe the scan: the run that is open ends at the last bit
examined and began where allocated clusters begin.  `RunsInv` says that the runs gathered hold every
allocated cluster up to there and lie apart; the chunks have disappeared from it.
`OrderInv` says that what has been copied lies before the span and the runs to come,
`CopyInv` that what is needed is copied, in the span, or in a run to come.

`TargetTableProofs` proves, for every disk that `IsSource` admits, with any number of
slots, and any sizes of the first buffer and of the table of the target:

| Theorem | Statement |
|---|---|
| `PlanIsTheSource` | `SameTable`: the plan has the partitions of the source, each once, in the order of the disk |
| `TableIsAccepted` | `TableAccepted`: the driver takes the table, but a GPT that is too long, and gives the plan back |
| `IdentityIsAsAsked` | `IdentityAsAsked` |
| `BitLockerIsRefused` | `NoBitLocker` |
| `WindowsIsFound` | `WindowsIdentified` |

They rest on lemmas about sorting: entries that begin at different places have as
many entries before them as their rank says, so that `Sorted` lists each once
(`Ranks`, `SortedFacts`), and a list that is in order is what sorting its entries gives
(`OrderIsSorted`), which is why the table reads back as the plan.
`PrimaryOnly` shows that an MBR plan has at most four partitions, which is what makes the
padding harmless; `SectorsFit` that 32 bits of hidden sectors are enough.
`WindowsInv` carries the first of the largest candidates through the loop.

In each module `Invariance` is the theorem on `IInv`, and TLC has checked each `IInv` as an
invariant of the run of its module before it was proved.

Left to TLC: liveness under fairness (`CancelledCopyAborts`, `Terminates`), and everything
with `ENABLED`, which the proof system cannot treat.  Every other property of a
passing run is a theorem.  The four runs that expect a violation are counterexamples, and
have nothing to prove.

## 5. Not modelled

* `PrintPlan`, the table of `CmdList`, usage, formatting, progress: output only.
* The bytes of an IOCTL structure, of a sector that is sniffed or of a device
  descriptor: the models start from what they mean.
* `--expand` in `TargetTable`: the offsets written are then those of `ExpandLayout`.
* The 440 bytes of the MBR bootstrap, the COM calls of VSS one by one: each is one
  call that succeeds or fails.
* The alignment check of `CopySpan`: the model counts in sectors.
* `std::bad_alloc` and other exceptions that are not `Error`: they pass by the
  handler of `CmdClone`, from any line.
* The VHD test, the build and release files.

## 6. Plan

1. A module that composes the copy: `SourceImage` says what the reads of a partition
   show, `BitmapCopy` which sectors are read.  So far they meet in the text only: a block of
   `SourceImage` is any part of a partition.
2. The copy phase of `CmdClone` refined by `SourceImage`, as `TargetLocks` and
   `SafetyGauntlet` refine the phases before it.
3. `--expand` in `TargetTable`: the entries with the offsets of `ExpandLayout`.
4. `CmdClone` with `OfflineNoteTrue`, `FinalizeNewIds` with `PrintedLettersServe` and
   `SuccessMeansReset`, and `AsAsked` without a sign, should the code come to agree with
   its documents.
