---------------------------- MODULE SourceImage -----------------------------
(***************************************************************************)
(* What instant of the source the clone shows.  The NTFS volumes known to  *)
(* the mount manager are added to one VSS snapshot set (SnapshotSet in     *)
(* vss.cpp); a volume VSS refuses is locked for its copy (copy.cpp); every *)
(* other partition is read through the disk.  Programs keep writing to the *)
(* volumes meanwhile.                                                      *)
(***************************************************************************)
EXTENDS Naturals, Sequences

CONSTANTS
  N,          \* partitions of the source, in on-disk order
  B,          \* blocks of a partition: its bitmap, its MFT, its data
  MaxWrites,  \* bound: blocks other programs write during the run
  Running     \* the process has not exited

ASSUME SizeAssumption == N \in Nat \ {0} /\ B \in Nat \ {0} /\ MaxWrites \in Nat

Vol   == 1..N
Block == 1..B
Codes == {0, 3, 4, 5, 130}
NoVol == 0
Never == MaxWrites + 1   \* the instant of a snapshot not taken

ASSUME RunningAssumption == Running \notin Codes

VARIABLES
  ntfs,       \* partitions SniffFilesystem found to be NTFS
  known,      \* partitions with a volume GUID path when the plan was built
  inUse,      \* volumes other programs have open now
  log,        \* the blocks they have written since the program started
  step, exit,
  cur,        \* loop index: the partition being added, or copied
  added,      \* volumes in the snapshot set; the other candidates are skipped
  shadowAt,   \* the instant of the snapshot: a length of the log
  locked,     \* the volume this program holds locked
  pos,        \* blocks of the current partition copied
  image,      \* what the clone holds: the write each copied block shows
  wiped       \* the target has been prepared

planVars == <<ntfs, known>>
appVars  == <<inUse, log>>
vssVars  == <<added, shadowAt>>
copyVars == <<locked, pos, image>>
vars == <<planVars, appVars, step, exit, cur, vssVars, copyVars, wiped>>

\* The volumes CmdClone asks VSS for; these are copied by their bitmap.
Candidates == ntfs \cap known

\* The last write to a block among the first t, 0 if there is none.
Latest(writes) ==
  IF writes = {} THEN 0 ELSE CHOOSE i \in writes : \A j \in writes : j <= i
StateAt(t, v, b) == Latest({i \in 1..t : log[i] = <<v, b>>})
Now == Len(log)

Init ==
  /\ ntfs \in SUBSET Vol /\ known \in SUBSET Vol
  /\ inUse \in SUBSET Vol /\ log = <<>>
  /\ step = "add" /\ exit = Running /\ cur = 1
  /\ added = {} /\ shadowAt = Never
  /\ locked = NoVol /\ pos = 0
  /\ image = [v \in Vol |-> <<>>]
  /\ wiped = FALSE
-----------------------------------------------------------------------------
Do(s) == exit = Running /\ step = s

\* A failure; unwinding closes the locked volume's handle.
Exit(codes) ==
  /\ exit' \in codes
  /\ locked' = NoVol
  /\ UNCHANGED <<planVars, appVars, step, cur, vssVars, pos, image>>

\* There are partitions left in the loop.
More == cur <= N

\* AddToSnapshotSet: a volume it refuses is only a warning.
AddToSnapshotSet ==
  /\ Do("add")
  /\ More
  /\ added' \in (IF cur \in Candidates THEN {added, added \cup {cur}} ELSE {added})
  /\ cur' = cur + 1
  /\ UNCHANGED <<planVars, appVars, step, exit, shadowAt, copyVars, wiped>>

\* DoSnapshotSet takes all volumes of the set at one instant, if there is any;
\* any other call on the VSS components may fail.
DoSnapshotSet ==
  /\ Do("add")
  /\ ~More
  /\ \/ /\ shadowAt' = IF added = {} THEN Never ELSE Now
        /\ step' = "prepare"
        /\ UNCHANGED <<planVars, appVars, exit, cur, added, copyVars>>
     \/ Candidates # {} /\ Exit({4})
  /\ UNCHANGED wiped

\* Everything from opening the target, which may fail, to the first block.
PrepareTarget ==
  /\ Do("prepare")
  /\ \/ /\ wiped' = TRUE
        /\ step' = "open" /\ cur' = 1
        /\ UNCHANGED <<planVars, appVars, exit, vssVars, copyVars>>
     \/ UNCHANGED wiped /\ Exit({3})
     \/ wiped' \in BOOLEAN /\ Exit({5})

\* A volume VSS refused is locked, which fails while it is in use.
LocksShadowed == cur \in Candidates   \* mutant: snapshotted volumes as well
MustLock == cur \in Candidates \ added
LockIfFree ==   \* mutant: a volume in use is copied without a lock
  locked' = IF cur \in inUse THEN NoVol ELSE cur
Lock == cur \notin inUse /\ locked' = cur

\* The shadow of a volume in the set; the volume itself, locked, if VSS
\* refused it; the disk handle otherwise.
OpenPartition ==
  /\ Do("open")
  /\ More
  /\ \/ /\ \/ ~MustLock /\ UNCHANGED locked
           \/ MustLock /\ Lock
        /\ step' = "read" /\ pos' = 0
        /\ UNCHANGED <<planVars, appVars, exit, cur, vssVars, image>>
     \/ Exit({5, 130})
  /\ UNCHANGED wiped

\* The instant at which a block of the current partition is read.
LiveInstant == Now   \* mutant: the shadow device is never looked up
Instant == IF cur \in added THEN shadowAt ELSE Now

\* The whole partition has been copied.
Copied == pos = B

ReadBlock ==
  /\ Do("read")
  /\ \/ /\ ~Copied
        /\ image' = [image EXCEPT ![cur] = Append(@, StateAt(Instant, cur, pos + 1))]
        /\ pos' = pos + 1
        /\ UNCHANGED <<planVars, appVars, exit, step, cur, vssVars, locked>>
     \/ ~Copied /\ Exit({5, 130})
     \/ /\ Copied
        /\ locked' = NoVol
        /\ step' = "open" /\ cur' = cur + 1
        /\ UNCHANGED <<planVars, appVars, exit, vssVars, pos, image>>
  /\ UNCHANGED wiped

\* Flush succeeded: the clone is reported complete.
Succeed ==
  /\ Do("open")
  /\ ~More
  /\ Exit({0})
  /\ UNCHANGED wiped

Proceed ==
  \/ AddToSnapshotSet \/ DoSnapshotSet \/ PrepareTarget \/ OpenPartition
  \/ ReadBlock \/ Succeed
-----------------------------------------------------------------------------
(* Other programs: a locked volume can be neither opened nor written, and a *)
(* volume in use cannot be locked.                                          *)

ToggleUse ==
  /\ exit = Running
  /\ \E v \in Vol \ {locked} :
       inUse' = IF v \in inUse THEN inUse \ {v} ELSE inUse \cup {v}
  /\ UNCHANGED <<planVars, log, step, exit, cur, vssVars, copyVars, wiped>>

Write ==
  /\ exit = Running
  /\ Len(log) < MaxWrites
  /\ \E v \in inUse, b \in Block : log' = Append(log, <<v, b>>)
  /\ UNCHANGED <<planVars, inUse, step, exit, cur, vssVars, copyVars, wiped>>

Next == Proceed \/ ToggleUse \/ Write

Spec == Init /\ [][Next]_vars
-----------------------------------------------------------------------------
(* Properties *)

\* The variables stay in their types.
TypeOK ==
  /\ ntfs \subseteq Vol /\ known \subseteq Vol /\ inUse \subseteq Vol
  /\ log \in Seq(Vol \X Block) /\ Len(log) <= MaxWrites
  /\ step \in {"add", "prepare", "open", "read"}
  /\ exit \in Codes \cup {Running}
  /\ cur \in 1..(N + 1)
  /\ added \subseteq Candidates
  /\ shadowAt \in 0..MaxWrites + 1
  /\ locked \in Vol \cup {NoVol}
  /\ pos \in 0..B
  /\ image \in [Vol -> Seq(0..MaxWrites)]

\* A clone shows the volumes vs at an instant if every copied block does.
ShowsInstant(vs, t) ==
  \A v \in vs : \A b \in 1..Len(image[v]) : image[v][b] = StateAt(t, v, b)

\* However the writes of other programs fall between the reads, everything
\* copied from volumes in the snapshot set is the source at one instant, the
\* same for all of them: what a program wrote to one volume and then to
\* another never arrives in the wrong order.
SnapshotSetConsistent == \E t \in 0..Now : ShowsInstant(added, t)

\* A volume VSS refused is copied at one instant too, or the clone fails
\* (OpenSourceVolumeForCopy: "Take an exclusive lock ... or refuse").
LockedImageConsistent ==
  \A v \in Candidates \ added : \E t \in 0..Now : ShowsInstant({v}, t)

\* No source volume stays locked after the run, whatever ended it, and none
\* is locked that VSS has snapshotted.
SourceReleased ==
  /\ exit # Running => locked = NoVol
  /\ locked # NoVol => locked \in Candidates \ added

\* Success means a whole copy of every partition.
SuccessIsWhole == exit = 0 => wiped /\ \A v \in Vol : Len(image[v]) = B

\* Every lock and every block is accounted for when the run ends.
CopyAccounted == TypeOK /\ SourceReleased /\ SuccessIsWhole
=============================================================================
