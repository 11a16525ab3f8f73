------------------------- MODULE SourceImageProofs --------------------------
(***************************************************************************)
(* Proofs about SourceImage for any number of partitions, of blocks and of *)
(* writes.                                                                 *)
(***************************************************************************)
EXTENDS SourceImage, SequenceTheorems, WellFoundedInduction, TLAPS

\* The tuples that abbreviate what an action leaves unchanged.
USE DEF vars, planVars, appVars, vssVars, copyVars

-----------------------------------------------------------------------------
(* The inductive invariant *)

\* The loop has copied the partitions below cur and pos blocks of that one; it
\* is left at its end only, with the target prepared, and so is a run that
\* succeeds.
LoopInv ==
  /\ step \in {"open", "read"} => wiped
  /\ step = "read" => cur <= N
  /\ exit = 0 => step = "open" /\ cur = N + 1
  /\ \A v \in Vol : Len(image[v]) =
       IF step \in {"add", "prepare"} \/ v > cur \/ (v = cur /\ step = "open") THEN 0
       ELSE IF v = cur THEN pos ELSE B

\* A volume is locked exactly while a candidate that VSS refused is copied, and
\* while it is locked no other program has it open.
LockInv ==
  /\ locked = IF step = "read" /\ exit = Running /\ MustLock THEN cur ELSE NoVol
  /\ locked \notin inUse

\* The snapshot of a set that is not empty lies in the past.
SnapshotInv ==
  /\ step # "add" /\ added # {} => shadowAt \in 0..Now
  /\ ShowsInstant(added, shadowAt)

\* What has been copied of the locked volume is what it holds now.
LockedInv ==
  /\ LockedImageConsistent
  /\ locked # NoVol => ShowsInstant({locked}, Now)

IInv == TypeOK /\ LoopInv /\ LockInv /\ SnapshotInv /\ LockedInv
-----------------------------------------------------------------------------
(* The last write to a block *)

\* A nonempty set of numbers up to t has a largest one.
LEMMA Largest ==
  ASSUME NEW t \in Nat, NEW hits \in SUBSET (1..t), hits # {}
  PROVE  \E i \in hits : \A j \in hits : j <= i
<1> DEFINE less == {n \in Nat : t - n \in hits}
           before == OpToRel(<, Nat)
<1>1. less \subseteq Nat
  OBVIOUS
<1>2. \A i \in hits : t - i \in less
  OBVIOUS
<1>3. IsWellFoundedOn(before, Nat)
  BY NatLessThanWellFounded
<1>4. PICK m \in less : \A n \in less : ~ (<<n, m>> \in before)
  <2> HIDE DEF less, before
  <2> QED BY <1>1, <1>2, <1>3, WFMin
<1>5. \A n \in less : m <= n
  <2> TAKE n \in less
  <2>1. n < m => <<n, m>> \in before
    BY DEF OpToRel
  <2>2. n \in Nat /\ m \in Nat
    OBVIOUS
  <2> HIDE DEF less, before
  <2> QED BY <1>4, <2>1, <2>2
<1>6. \A j \in hits : j <= t - m
  <2> TAKE j \in hits
  <2>1. m <= t - j /\ m \in Nat /\ j \in Nat
    BY <1>2, <1>5
  <2> QED BY <2>1
<1> QED BY <1>6

\* The last write is one of the first t.
LEMMA StateAtRange ==
  ASSUME NEW t \in Nat, NEW v, NEW b
  PROVE  StateAt(t, v, b) \in 0..t
<1> DEFINE hits == {i \in 1..t : log[i] = <<v, b>>}
<1>1. CASE hits = {}
  BY <1>1 DEF StateAt, Latest
<1>2. CASE hits # {}
  <2>1. \E i \in hits : \A j \in hits : j <= i
    BY <1>2, Largest
  <2>2. StateAt(t, v, b) = CHOOSE i \in hits : \A j \in hits : j <= i
    BY <1>2 DEF StateAt, Latest
  <2>3. StateAt(t, v, b) \in hits
    BY <2>1, <2>2
  <2> QED BY <2>3
<1> QED BY <1>1, <1>2

\* What was written up to an instant does not change any more.
LEMMA PastStays ==
  ASSUME log \in Seq(Vol \X Block), NEW x \in Vol \X Block, log' = Append(log, x),
         NEW t \in 0..Now, NEW v, NEW b
  PROVE  StateAt(t, v, b)' = StateAt(t, v, b)
<1>1. \A i \in 1..t : log'[i] = log[i]
  BY AppendProperties DEF Now
<1>2. {i \in 1..t : log'[i] = <<v, b>>} = {i \in 1..t : log[i] = <<v, b>>}
  BY <1>1
<1> QED BY <1>2 DEF StateAt

\* Nor does what is on a volume when another one is written.
LEMMA OthersStay ==
  ASSUME log \in Seq(Vol \X Block), NEW w \in Vol, NEW c \in Block, log' = Append(log, <<w, c>>),
         NEW v, v # w, NEW b
  PROVE  StateAt(Now, v, b)' = StateAt(Now, v, b)
<1>1. /\ Now \in Nat /\ Now' = Now + 1
      /\ \A i \in 1..Now : log'[i] = log[i]
      /\ log'[Now + 1] = <<w, c>>
  BY AppendProperties DEF Now
<1>2. {i \in 1..(Now + 1) : log'[i] = <<v, b>>} = {i \in 1..Now : log[i] = <<v, b>>}
  <2>1. \A i \in 1..(Now + 1) : i \in 1..Now \/ i = Now + 1
    BY <1>1
  <2>2. log'[Now + 1] # <<v, b>>
    <3>1. <<w, c>> # <<v, b>>
      OBVIOUS
    <3> QED BY <1>1, <3>1
  <2>3. 1..Now \subseteq 1..(Now + 1)
    BY <1>1
  <2> QED BY <1>1, <2>1, <2>2, <2>3
<1>3. StateAt(Now, v, b) = Latest({i \in 1..Now : log[i] = <<v, b>>})
  BY DEF StateAt
<1>4. StateAt(Now, v, b)' = Latest({i \in 1..Now' : log'[i] = <<v, b>>})
  BY DEF StateAt
<1> QED BY <1>1, <1>2, <1>3, <1>4
-----------------------------------------------------------------------------
(* Each step preserves the invariant. *)

\* What the actions leave alone: an exit stops everything but the lock.
LEMMA ExitFrame ==
  ASSUME NEW codes, codes \subseteq Codes, Exit(codes)
  PROVE  /\ exit' \in Codes /\ exit' \in codes /\ exit' # Running /\ locked' = NoVol
         /\ UNCHANGED <<ntfs, known, inUse, log, step, cur, added, shadowAt, pos, image>>
BY RunningAssumption DEF Exit

\* A block that is copied shows a write of the past.
LEMMA BlockRange ==
  ASSUME TypeOK, SnapshotInv, step = "read"
  PROVE  /\ Instant \in 0..Now /\ Now \in 0..MaxWrites
         /\ \A v, b : StateAt(Instant, v, b) \in 0..MaxWrites
<1>1. Now \in 0..MaxWrites /\ MaxWrites \in Nat
  BY SizeAssumption DEF TypeOK, Now
<1>2. Instant \in 0..Now
  BY <1>1 DEF Instant, SnapshotInv
<1>3. \A v, b : StateAt(Instant, v, b) \in 0..Instant
  BY <1>1, <1>2, StateAtRange
<1> QED BY <1>1, <1>2, <1>3

\* One block more of the current partition.
LEMMA BlockCopied ==
  ASSUME TypeOK, LoopInv, SnapshotInv, Do("read"), ~Copied,
         image' = [image EXCEPT ![cur] = Append(@, StateAt(Instant, cur, pos + 1))]
  PROVE  /\ cur \in Vol /\ image' \in [Vol -> Seq(0..MaxWrites)]
         /\ Len(image[cur]) = pos /\ Len(image'[cur]) = pos + 1
         /\ \A b \in 1..pos : image'[cur][b] = image[cur][b]
         /\ image'[cur][pos + 1] = StateAt(Instant, cur, pos + 1)
         /\ \A v \in Vol \ {cur} : image'[v] = image[v]
<1>1. cur \in Vol /\ Len(image[cur]) = pos /\ pos \in Nat
  BY SizeAssumption DEF TypeOK, LoopInv, Do, Vol
<1>2. image[cur] \in Seq(0..MaxWrites) /\ StateAt(Instant, cur, pos + 1) \in 0..MaxWrites
  BY <1>1, BlockRange DEF TypeOK, Do
<1>3. image'[cur] = Append(image[cur], StateAt(Instant, cur, pos + 1))
  BY <1>1 DEF TypeOK
<1>4. \A v \in Vol \ {cur} : image'[v] = image[v]
  BY <1>1 DEF TypeOK
<1>5. /\ image'[cur] \in Seq(0..MaxWrites) /\ Len(image'[cur]) = pos + 1
      /\ \A b \in 1..pos : image'[cur][b] = image[cur][b]
      /\ image'[cur][pos + 1] = StateAt(Instant, cur, pos + 1)
  <2> DEFINE shown == StateAt(Instant, cur, pos + 1)
  <2>1. shown \in 0..MaxWrites /\ image'[cur] = Append(image[cur], shown)
    BY <1>2, <1>3
  <2> HIDE DEF shown
  <2>2. /\ Append(image[cur], shown) \in Seq(0..MaxWrites)
        /\ Len(Append(image[cur], shown)) = pos + 1
        /\ \A b \in 1..pos : Append(image[cur], shown)[b] = image[cur][b]
        /\ Append(image[cur], shown)[pos + 1] = shown
    BY <1>1, <1>2, <2>1, AppendProperties
  <2> QED BY <2>1, <2>2 DEF shown
<1>6. image' \in [Vol -> Seq(0..MaxWrites)]
  <2>1. Append(image[cur], StateAt(Instant, cur, pos + 1)) \in Seq(0..MaxWrites)
    BY <1>3, <1>5
  <2> QED BY <1>1, <2>1 DEF TypeOK
<1> QED BY <1>1, <1>4, <1>5, <1>6

\* The variables stay in their types.
LEMMA TypesKeep ==
  ASSUME TypeOK, LoopInv, SnapshotInv, [Next]_vars
  PROVE  TypeOK'
<1> USE SizeAssumption
<1>1. ASSUME NEW codes, codes \subseteq Codes, Exit(codes) PROVE TypeOK'
  BY <1>1, ExitFrame DEF TypeOK, Candidates
<1>2. CASE AddToSnapshotSet
  <2>1. added' \subseteq Candidates /\ cur' \in 1..(N + 1)
    BY <1>2 DEF AddToSnapshotSet, More, TypeOK
  <2> QED BY <1>2, <2>1 DEF AddToSnapshotSet, TypeOK, Candidates
<1>3. CASE DoSnapshotSet
  <2>1. CASE Exit({4})
    BY <1>1, <2>1 DEF Codes
  <2>2. CASE ~Exit({4})
    <3>1. shadowAt' \in 0..MaxWrites + 1 /\ step' = "prepare"
      BY <1>3, <2>2 DEF DoSnapshotSet, TypeOK, Now, Never
    <3> QED BY <1>3, <2>2, <3>1 DEF DoSnapshotSet, TypeOK, Candidates
  <2> QED BY <2>1, <2>2
<1>4. CASE PrepareTarget
  <2>1. CASE Exit({3}) \/ Exit({5})
    BY <1>1, <2>1 DEF Codes
  <2>2. CASE ~Exit({3}) /\ ~Exit({5})
    BY <1>4, <2>2 DEF PrepareTarget, TypeOK, Candidates
  <2> QED BY <2>1, <2>2
<1>5. CASE OpenPartition
  <2>1. CASE Exit({5, 130})
    BY <1>1, <2>1 DEF Codes
  <2>2. CASE ~Exit({5, 130})
    <3>1. locked' \in Vol \cup {NoVol} /\ pos' \in 0..B /\ step' = "read"
      BY <1>5, <2>2 DEF OpenPartition, Lock, More, TypeOK, Vol
    <3> QED BY <1>5, <2>2, <3>1 DEF OpenPartition, TypeOK, Candidates
  <2> QED BY <2>1, <2>2
<1>6. CASE ReadBlock
  <2>1. CASE Exit({5, 130})
    BY <1>1, <2>1 DEF Codes
  <2>2. CASE ~Copied /\ ~Exit({5, 130})
    <3>1. image' \in [Vol -> Seq(0..MaxWrites)]
      BY <1>6, <2>2, BlockCopied DEF ReadBlock
    <3>2. pos' \in 0..B
      BY <1>6, <2>2 DEF ReadBlock, Copied, TypeOK
    <3> QED BY <1>6, <2>2, <3>1, <3>2 DEF ReadBlock, TypeOK, Candidates
  <2>3. CASE Copied /\ ~Exit({5, 130})
    <3>1. cur' \in 1..(N + 1)
      BY <1>6, <2>3 DEF ReadBlock, Do, TypeOK, LoopInv
    <3> QED BY <1>6, <2>3, <3>1 DEF ReadBlock, TypeOK, Candidates
  <2> QED BY <2>1, <2>2, <2>3
<1>7. CASE Succeed
  BY <1>1, <1>7 DEF Succeed, Codes
<1>8. CASE ToggleUse
  BY <1>8 DEF ToggleUse, TypeOK, Candidates
<1>9. CASE Write
  <2>1. log' \in Seq(Vol \X Block) /\ Len(log') <= MaxWrites
    <3>1. PICK v \in inUse, b \in Block : log' = Append(log, <<v, b>>)
      BY <1>9 DEF Write
    <3>2. <<v, b>> \in Vol \X Block /\ log \in Seq(Vol \X Block)
      BY DEF TypeOK
    <3>3. log' \in Seq(Vol \X Block) /\ Len(log') = Len(log) + 1
      BY <3>1, <3>2, AppendProperties
    <3> QED BY <1>9, <3>2, <3>3 DEF Write
  <2> QED BY <1>9, <2>1 DEF Write, TypeOK, Candidates
<1>10. CASE UNCHANGED vars
  BY <1>10 DEF TypeOK, Candidates
<1> QED BY <1>2, <1>3, <1>4, <1>5, <1>6, <1>7, <1>8, <1>9, <1>10 DEF Next, Proceed

\* Where the loop is and how much has been copied.
LEMMA LoopKeeps ==
  ASSUME TypeOK, LoopInv, SnapshotInv, [Next]_vars
  PROVE  LoopInv'
<1> USE SizeAssumption
<1>1. ASSUME NEW codes, codes \subseteq Codes \ {0}, Exit(codes), wiped => wiped' PROVE LoopInv'
  <2>1. exit' # 0 /\ UNCHANGED <<step, cur, pos, image>>
    BY <1>1, ExitFrame
  <2> QED BY <1>1, <2>1 DEF LoopInv
<1>2. CASE AddToSnapshotSet
  <2>1. step = "add" /\ UNCHANGED <<step, exit, pos, image, wiped>> /\ exit # 0
    BY <1>2, RunningAssumption DEF AddToSnapshotSet, Do, Codes
  <2> QED BY <2>1 DEF LoopInv
<1>3. CASE DoSnapshotSet
  <2>1. CASE Exit({4})
    BY <1>1, <1>3, <2>1 DEF Codes, DoSnapshotSet
  <2>2. CASE ~Exit({4})
    <3>1. step = "add" /\ step' = "prepare" /\ UNCHANGED <<exit, pos, image, wiped>> /\ exit # 0
      BY <1>3, <2>2, RunningAssumption DEF DoSnapshotSet, Do, Codes
    <3> QED BY <3>1 DEF LoopInv
  <2> QED BY <2>1, <2>2
<1>4. CASE PrepareTarget
  <2>1. step = "prepare" /\ exit # 0
    BY <1>4, RunningAssumption DEF PrepareTarget, Do, Codes
  <2>2. CASE Exit({3}) \/ Exit({5})
    <3>1. exit' # 0 /\ UNCHANGED <<step, cur, pos, image>>
      BY <2>2, ExitFrame DEF Codes
    <3> QED BY <2>1, <3>1 DEF LoopInv
  <2>3. CASE ~Exit({3}) /\ ~Exit({5})
    <3>1. wiped' /\ step' = "open" /\ cur' = 1 /\ UNCHANGED <<exit, pos, image>>
      BY <1>4, <2>3 DEF PrepareTarget
    <3>2. \A v \in Vol : Len(image[v]) = 0 /\ (v > 1 \/ v = 1)
      BY <2>1 DEF LoopInv, Vol
    <3> QED BY <2>1, <3>1, <3>2 DEF LoopInv
  <2> QED BY <2>2, <2>3
<1>5. CASE OpenPartition
  <2>1. CASE Exit({5, 130})
    BY <1>1, <1>5, <2>1 DEF Codes, OpenPartition
  <2>2. CASE ~Exit({5, 130})
    <3>1. /\ step = "open" /\ cur <= N /\ step' = "read" /\ pos' = 0
          /\ UNCHANGED <<exit, cur, image, wiped>> /\ exit # 0
      BY <1>5, <2>2, RunningAssumption DEF OpenPartition, Do, More, Codes
    <3> QED BY <3>1 DEF LoopInv
  <2> QED BY <2>1, <2>2
<1>6. CASE ReadBlock
  <2>1. CASE Exit({5, 130})
    BY <1>1, <1>6, <2>1 DEF Codes, ReadBlock
  <2>2. CASE ~Copied /\ ~Exit({5, 130})
    <3>1. /\ step = "read" /\ pos' = pos + 1 /\ UNCHANGED <<exit, step, cur, wiped>>
      BY <1>6, <2>2 DEF ReadBlock, Do
    <3>2. /\ Len(image'[cur]) = pos' /\ \A v \in Vol \ {cur} : Len(image'[v]) = Len(image[v])
      BY <1>6, <2>2, <3>1, BlockCopied DEF ReadBlock
    <3>3. \A v \in Vol : Len(image'[v]) = IF v > cur THEN 0 ELSE IF v = cur THEN pos' ELSE B
      <4>1. \A v \in Vol : Len(image[v]) = IF v > cur THEN 0 ELSE IF v = cur THEN pos ELSE B
        BY <3>1 DEF LoopInv
      <4>2. cur \in Nat /\ \A v \in Vol : v \in Nat
        BY DEF TypeOK, Vol
      <4> QED BY <3>2, <4>1, <4>2
    <3> QED BY <3>1, <3>3 DEF LoopInv
  <2>3. CASE Copied /\ ~Exit({5, 130})
    <3>1. /\ step = "read" /\ pos = B /\ step' = "open" /\ cur' = cur + 1
          /\ UNCHANGED <<exit, pos, image, wiped>> /\ exit # 0
      BY <1>6, <2>3, RunningAssumption DEF ReadBlock, Copied, Do, Codes
    <3>2. \A v \in Vol : v \in Nat /\ cur \in Nat
      BY DEF Vol, TypeOK
    <3> QED BY <3>1, <3>2 DEF LoopInv
  <2> QED BY <2>1, <2>2, <2>3
<1>7. CASE Succeed
  <2>1. step = "open" /\ cur = N + 1 /\ UNCHANGED <<step, cur, pos, image, wiped>>
    BY <1>7, ExitFrame DEF Succeed, Do, More, TypeOK, Codes
  <2> QED BY <2>1 DEF LoopInv
<1>8. CASE UNCHANGED <<step, exit, cur, pos, image, wiped>>
  BY <1>8 DEF LoopInv
<1> QED
  BY <1>2, <1>3, <1>4, <1>5, <1>6, <1>7, <1>8 DEF Next, Proceed, ToggleUse, Write

\* The lock lasts as long as the copy of its volume.
LEMMA LockKeeps ==
  ASSUME TypeOK, LoopInv, LockInv, [Next]_vars
  PROVE  LockInv'
<1> USE SizeAssumption
<1>1. NoVol \notin Vol
  BY DEF NoVol, Vol
<1>2. ASSUME NEW codes, codes \subseteq Codes, Exit(codes) PROVE LockInv'
  BY <1>1, <1>2, ExitFrame DEF LockInv, TypeOK
<1>3. CASE AddToSnapshotSet
  <2>1. step # "read" /\ UNCHANGED <<step, exit, locked, inUse>>
    BY <1>3 DEF AddToSnapshotSet, Do
  <2> QED BY <2>1 DEF LockInv
<1>4. CASE DoSnapshotSet
  <2>1. CASE Exit({4})
    BY <1>2, <2>1 DEF Codes
  <2>2. CASE ~Exit({4})
    <3>1. step # "read" /\ step' # "read" /\ UNCHANGED <<locked, inUse>>
      BY <1>4, <2>2 DEF DoSnapshotSet, Do
    <3> QED BY <3>1 DEF LockInv
  <2> QED BY <2>1, <2>2
<1>5. CASE PrepareTarget
  <2>1. CASE Exit({3}) \/ Exit({5})
    BY <1>2, <2>1 DEF Codes
  <2>2. CASE ~Exit({3}) /\ ~Exit({5})
    <3>1. step # "read" /\ step' # "read" /\ UNCHANGED <<locked, inUse>>
      BY <1>5, <2>2 DEF PrepareTarget, Do
    <3> QED BY <3>1 DEF LockInv
  <2> QED BY <2>1, <2>2
<1>6. CASE OpenPartition
  <2>1. CASE Exit({5, 130})
    BY <1>2, <2>1 DEF Codes
  <2>2. CASE ~Exit({5, 130})
    <3>1. /\ step = "open" /\ exit = Running /\ step' = "read"
          /\ UNCHANGED <<exit, cur, added, ntfs, known, inUse>>
          /\ (~MustLock /\ UNCHANGED locked) \/ (MustLock /\ cur \notin inUse /\ locked' = cur)
      BY <1>6, <2>2 DEF OpenPartition, Do, Lock
    <3>2. locked = NoVol /\ NoVol \notin inUse
      BY <3>1 DEF LockInv
    <3> QED BY <3>1, <3>2 DEF LockInv, MustLock, Candidates
  <2> QED BY <2>1, <2>2
<1>7. CASE ReadBlock
  <2>1. CASE Exit({5, 130})
    BY <1>2, <2>1 DEF Codes
  <2>2. CASE ~Copied /\ ~Exit({5, 130})
    <3>1. UNCHANGED <<exit, step, cur, added, ntfs, known, inUse, locked>>
      BY <1>7, <2>2 DEF ReadBlock
    <3> QED BY <3>1 DEF LockInv, MustLock, Candidates
  <2>3. CASE Copied /\ ~Exit({5, 130})
    <3>1. step' = "open" /\ locked' = NoVol /\ UNCHANGED inUse
      BY <1>7, <2>3 DEF ReadBlock
    <3> QED BY <1>1, <3>1 DEF LockInv, TypeOK
  <2> QED BY <2>1, <2>2, <2>3
<1>8. CASE Succeed
  BY <1>2, <1>8 DEF Succeed, Codes
<1>9. CASE ToggleUse
  <2>1. UNCHANGED <<exit, step, cur, added, ntfs, known, locked>>
    BY <1>9 DEF ToggleUse
  <2>2. locked \notin inUse'
    BY <1>9 DEF ToggleUse, LockInv
  <2> QED BY <2>1, <2>2 DEF LockInv, MustLock, Candidates
<1>10. CASE UNCHANGED <<exit, step, cur, added, ntfs, known, locked, inUse>>
  BY <1>10 DEF LockInv, MustLock, Candidates
<1> QED
  BY <1>3, <1>4, <1>5, <1>6, <1>7, <1>8, <1>9, <1>10 DEF Next, Proceed, Write

\* What has been copied shows the same instant whatever is written later.
LEMMA InstantStays ==
  ASSUME log \in Seq(Vol \X Block), UNCHANGED image,
         \/ UNCHANGED log
         \/ \E x \in Vol \X Block : log' = Append(log, x),
         NEW t \in 0..Now, NEW vs, ShowsInstant(vs, t)
  PROVE  ShowsInstant(vs, t)'
<1>1. \A v, b : StateAt(t, v, b)' = StateAt(t, v, b)
  <2>1. CASE UNCHANGED log
    BY <2>1 DEF StateAt
  <2>2. CASE \E x \in Vol \X Block : log' = Append(log, x)
    BY <2>2, PastStays
  <2> QED BY <2>1, <2>2
<1> QED BY <1>1 DEF ShowsInstant

\* Nothing that shows or is shown has changed.
LEMMA SnapshotFrame ==
  ASSUME SnapshotInv, UNCHANGED <<log, added, shadowAt, image>>, step' = "add" \/ step # "add"
  PROVE  SnapshotInv'
<1>1. \A v, b : StateAt(shadowAt, v, b)' = StateAt(shadowAt, v, b)
  BY DEF StateAt
<1>2. ShowsInstant(added, shadowAt)'
  BY <1>1 DEF ShowsInstant, SnapshotInv
<1> QED BY <1>2 DEF SnapshotInv, Now

\* A snapshot that was taken is kept, and every block of its volumes is read
\* from it.
LEMMA SnapshotKeeps ==
  ASSUME TypeOK, LoopInv, SnapshotInv, [Next]_vars
  PROVE  SnapshotInv'
<1> USE SizeAssumption
<1>1. log \in Seq(Vol \X Block) /\ Now \in Nat
  BY DEF TypeOK, Now
<1>2. ASSUME NEW codes, codes \subseteq Codes, Exit(codes) PROVE SnapshotInv'
  <2>1. UNCHANGED <<log, step, added, shadowAt, image>>
    BY <1>2, ExitFrame
  <2> QED BY <2>1, SnapshotFrame
<1>3. ASSUME \A v \in Vol : Len(image'[v]) = 0, added' \subseteq Vol PROVE ShowsInstant(added, shadowAt)'
  BY <1>3 DEF ShowsInstant
<1>4. CASE AddToSnapshotSet
  <2>1. step = "add" /\ step' = "add" /\ UNCHANGED image
    BY <1>4 DEF AddToSnapshotSet, Do
  <2>2. added' \subseteq Vol
    BY <1>4 DEF AddToSnapshotSet, TypeOK, Candidates
  <2> QED BY <1>3, <2>1, <2>2 DEF LoopInv, SnapshotInv
<1>5. CASE DoSnapshotSet
  <2>1. CASE Exit({4})
    BY <1>2, <2>1 DEF Codes
  <2>2. CASE ~Exit({4})
    <3>1. step = "add" /\ UNCHANGED <<image, added, log>>
          /\ shadowAt' = IF added = {} THEN Never ELSE Now
      BY <1>5, <2>2 DEF DoSnapshotSet, Do
    <3>2. added' \subseteq Vol
      BY <3>1 DEF TypeOK, Candidates
    <3>3. ShowsInstant(added, shadowAt)'
      BY <1>3, <3>1, <3>2 DEF LoopInv
    <3> QED BY <1>1, <3>1, <3>3 DEF SnapshotInv, Now
  <2> QED BY <2>1, <2>2
<1>6. CASE PrepareTarget
  <2>1. CASE Exit({3}) \/ Exit({5})
    BY <1>2, <2>1 DEF Codes
  <2>2. CASE ~Exit({3}) /\ ~Exit({5})
    <3>1. step # "add" /\ UNCHANGED <<log, added, shadowAt, image>>
      BY <1>6, <2>2 DEF PrepareTarget, Do
    <3> QED BY <3>1, SnapshotFrame
  <2> QED BY <2>1, <2>2
<1>7. CASE OpenPartition
  <2>1. CASE Exit({5, 130})
    BY <1>2, <2>1 DEF Codes
  <2>2. CASE ~Exit({5, 130})
    <3>1. step # "add" /\ UNCHANGED <<log, added, shadowAt, image>>
      BY <1>7, <2>2 DEF OpenPartition, Do
    <3> QED BY <3>1, SnapshotFrame
  <2> QED BY <2>1, <2>2
<1>8. CASE ReadBlock
  <2>1. CASE Exit({5, 130})
    BY <1>2, <2>1 DEF Codes
  <2>2. CASE Copied /\ ~Exit({5, 130})
    <3>1. step # "add" /\ UNCHANGED <<log, added, shadowAt, image>>
      BY <1>8, <2>2 DEF ReadBlock, Do
    <3> QED BY <3>1, SnapshotFrame
  <2>3. CASE ~Copied /\ ~Exit({5, 130})
    <3>1. step = "read" /\ UNCHANGED <<log, step, added, shadowAt>>
      BY <1>8, <2>3 DEF ReadBlock, Do
    <3>2. /\ cur \in Vol /\ Len(image[cur]) = pos /\ Len(image'[cur]) = pos + 1
          /\ \A b \in 1..pos : image'[cur][b] = image[cur][b]
          /\ image'[cur][pos + 1] = StateAt(Instant, cur, pos + 1)
          /\ \A v \in Vol \ {cur} : image'[v] = image[v]
      BY <1>8, <2>3, BlockCopied DEF ReadBlock
    <3>3. ASSUME NEW v \in added PROVE \A b \in 1..Len(image'[v]) : image'[v][b] = StateAt(shadowAt, v, b)
      <4>1. v \in Vol /\ \A b \in 1..Len(image[v]) : image[v][b] = StateAt(shadowAt, v, b)
        BY <3>3 DEF SnapshotInv, ShowsInstant, TypeOK, Candidates
      <4>2. CASE v # cur
        BY <3>2, <4>1, <4>2
      <4>3. CASE v = cur
        <5>1. Instant = shadowAt
          BY <4>3, <3>3 DEF Instant
        <5>2. \A b \in 1..(pos + 1) : b \in 1..pos \/ b = pos + 1
          BY DEF TypeOK
        <5>3. \A b \in 1..pos : image'[cur][b] = StateAt(shadowAt, cur, b)
          BY <3>2, <4>1, <4>3
        <5>4. image'[cur][pos + 1] = StateAt(shadowAt, cur, pos + 1)
          BY <3>2, <5>1
        <5> QED BY <3>2, <4>3, <5>2, <5>3, <5>4
      <4> QED BY <4>2, <4>3
    <3>4. \A v, b : StateAt(shadowAt, v, b)' = StateAt(shadowAt, v, b)
      BY <3>1 DEF StateAt
    <3>5. ShowsInstant(added, shadowAt)'
      BY <3>1, <3>3, <3>4 DEF ShowsInstant
    <3> QED BY <3>1, <3>5 DEF SnapshotInv, Now
  <2> QED BY <2>1, <2>2, <2>3
<1>9. CASE Succeed
  BY <1>2, <1>9 DEF Succeed, Codes
<1>10. CASE Write
  <2>1. UNCHANGED <<step, added, shadowAt, image>> /\ \E x \in Vol \X Block : log' = Append(log, x)
    BY <1>10 DEF Write, TypeOK
  <2>2. Now' = Now + 1
    BY <1>1, <2>1, AppendProperties DEF Now
  <2>3. CASE added = {}
    BY <2>1, <2>3 DEF SnapshotInv, ShowsInstant
  <2>4. CASE step = "add"
    BY <1>3, <2>1, <2>4 DEF LoopInv, SnapshotInv, TypeOK, Candidates
  <2>5. CASE added # {} /\ step # "add"
    <3>1. shadowAt \in 0..Now /\ ShowsInstant(added, shadowAt)
      BY <2>5 DEF SnapshotInv
    <3>2. \A v, b : StateAt(shadowAt, v, b)' = StateAt(shadowAt, v, b)
      <4>1. \A t \in 0..Now : \A v, b : StateAt(t, v, b)' = StateAt(t, v, b)
        BY <1>1, <2>1, PastStays
      <4>2. PICK t \in 0..Now : t = shadowAt
        BY <3>1
      <4>3. \A v, b : StateAt(t, v, b)' = StateAt(shadowAt, v, b)'
        BY <2>1, <4>2 DEF StateAt
      <4> QED BY <4>1, <4>2, <4>3
    <3>3. ShowsInstant(added, shadowAt)'
      BY <2>1, <3>1, <3>2 DEF ShowsInstant
    <3> QED BY <1>1, <2>1, <2>2, <3>1, <3>3 DEF SnapshotInv
  <2> QED BY <2>3, <2>4, <2>5
<1>11. CASE UNCHANGED <<log, step, added, shadowAt, image>>
  BY <1>11, SnapshotFrame
<1> QED
  BY <1>4, <1>5, <1>6, <1>7, <1>8, <1>9, <1>10, <1>11 DEF Next, Proceed, ToggleUse

\* Nothing has been written or copied, and nothing more is locked.
LEMMA LockedFrame ==
  ASSUME LockedInv, UNCHANGED <<log, image, ntfs, known>>, added \subseteq added',
         locked' \in {locked, NoVol}
  PROVE  LockedInv'
<1>1. \A t, v, b : StateAt(t, v, b)' = StateAt(t, v, b)
  BY DEF StateAt
<1>2. \A t, v : ShowsInstant({v}, t)' = ShowsInstant({v}, t)
  BY <1>1 DEF ShowsInstant
<1>3. UNCHANGED Now
  BY DEF Now
<1>4. LockedImageConsistent'
  BY <1>2, <1>3 DEF LockedInv, LockedImageConsistent, Candidates
<1>5. \A v, b : StateAt(Now, v, b)' = StateAt(Now, v, b)
  BY <1>3 DEF StateAt
<1>6. locked' # NoVol => ShowsInstant({locked}, Now)'
  BY <1>5 DEF ShowsInstant, LockedInv
<1> QED BY <1>4, <1>6 DEF LockedInv

\* A volume that is not snapshotted is locked while it is copied, so that what
\* has been copied of it is what it holds.
LEMMA LockedKeeps ==
  ASSUME IInv, [Next]_vars
  PROVE  LockedInv'
<1> USE SizeAssumption DEF IInv
<1>1. log \in Seq(Vol \X Block) /\ Now \in Nat
  BY DEF TypeOK, Now
<1>2. ASSUME NEW codes, codes \subseteq Codes, Exit(codes) PROVE LockedInv'
  BY <1>2, ExitFrame, LockedFrame
<1>3. CASE AddToSnapshotSet
  <2>1. UNCHANGED <<log, image, ntfs, known, locked>> /\ added \subseteq added'
    BY <1>3 DEF AddToSnapshotSet
  <2> QED BY <2>1, LockedFrame
<1>4. CASE DoSnapshotSet
  <2>1. CASE Exit({4})
    BY <1>2, <2>1 DEF Codes
  <2>2. CASE ~Exit({4})
    <3>1. UNCHANGED <<log, image, ntfs, known, locked, added>>
      BY <1>4, <2>2 DEF DoSnapshotSet
    <3> QED BY <3>1, LockedFrame
  <2> QED BY <2>1, <2>2
<1>5. CASE PrepareTarget
  <2>1. CASE Exit({3}) \/ Exit({5})
    BY <1>2, <2>1 DEF Codes
  <2>2. CASE ~Exit({3}) /\ ~Exit({5})
    <3>1. UNCHANGED <<log, image, ntfs, known, locked, added>>
      BY <1>5, <2>2 DEF PrepareTarget
    <3> QED BY <3>1, LockedFrame
  <2> QED BY <2>1, <2>2
<1>6. CASE OpenPartition
  <2>1. CASE Exit({5, 130})
    BY <1>2, <2>1 DEF Codes
  <2>2. CASE ~Exit({5, 130})
    <3>1. /\ UNCHANGED <<log, image, ntfs, known, added>> /\ step = "open" /\ cur \in Vol
          /\ UNCHANGED locked \/ locked' = cur
      BY <1>6, <2>2 DEF OpenPartition, Lock, Do, More, TypeOK, Vol
    <3>2. CASE UNCHANGED locked
      BY <3>1, <3>2, LockedFrame
    <3>3. CASE locked' = cur
      <4>1. Len(image'[cur]) = 0
        BY <3>1 DEF LoopInv
      <4>2. ShowsInstant({locked}, Now)'
        BY <3>3, <4>1 DEF ShowsInstant
      <4>3. LockedImageConsistent'
        <5>1. \A t, v, b : StateAt(t, v, b)' = StateAt(t, v, b)
          BY <3>1 DEF StateAt
        <5>2. \A t, v : ShowsInstant({v}, t)' = ShowsInstant({v}, t)
          BY <3>1, <5>1 DEF ShowsInstant
        <5> QED BY <3>1, <5>2 DEF LockedInv, LockedImageConsistent, Candidates, Now
      <4> QED BY <4>2, <4>3 DEF LockedInv
    <3> QED BY <3>1, <3>2, <3>3
  <2> QED BY <2>1, <2>2
<1>7. CASE ReadBlock
  <2>1. CASE Exit({5, 130})
    BY <1>2, <2>1 DEF Codes
  <2>2. CASE Copied /\ ~Exit({5, 130})
    <3>1. UNCHANGED <<log, image, ntfs, known, added>> /\ locked' = NoVol
      BY <1>7, <2>2 DEF ReadBlock
    <3> QED BY <3>1, LockedFrame
  <2>3. CASE ~Copied /\ ~Exit({5, 130})
    <3>1. step = "read" /\ exit = Running /\ UNCHANGED <<log, ntfs, known, added, locked>>
      BY <1>7, <2>3 DEF ReadBlock, Do
    <3>2. /\ cur \in Vol /\ Len(image[cur]) = pos /\ Len(image'[cur]) = pos + 1
          /\ \A b \in 1..pos : image'[cur][b] = image[cur][b]
          /\ image'[cur][pos + 1] = StateAt(Instant, cur, pos + 1)
          /\ \A v \in Vol \ {cur} : image'[v] = image[v]
      BY <1>7, <2>3, BlockCopied DEF ReadBlock
    <3>3. /\ \A t, v, b : StateAt(t, v, b)' = StateAt(t, v, b)
          /\ UNCHANGED Now
      BY <3>1 DEF StateAt, Now
    <3>4. MustLock => locked = cur
      BY <3>1 DEF LockInv
    <3>5. locked # NoVol => locked = cur /\ MustLock
      BY <3>1 DEF LockInv
    <3>6. MustLock => \A b \in 1..Len(image'[cur]) : image'[cur][b] = StateAt(Now, cur, b)
      <4> SUFFICES ASSUME MustLock, NEW b \in 1..(pos + 1)
                   PROVE  image'[cur][b] = StateAt(Now, cur, b)
        BY <3>2
      <4>1. Instant = Now
        BY DEF Instant, MustLock
      <4>2. cur # NoVol
        BY <3>2 DEF Vol, NoVol
      <4>3. b \in 1..pos => image[cur][b] = StateAt(Now, cur, b)
        BY <3>2, <3>4, <4>2 DEF LockedInv, ShowsInstant
      <4>4. b \in 1..pos \/ b = pos + 1
        BY DEF TypeOK
      <4> QED BY <3>2, <4>1, <4>3, <4>4
    <3>7. MustLock => ShowsInstant({cur}, Now)'
      <4>1. \A v, b : StateAt(Now, v, b)' = StateAt(Now, v, b)
        BY <3>1, <3>3 DEF StateAt
      <4>2. UNCHANGED cur
        BY <1>7, <2>3 DEF ReadBlock
      <4> QED BY <3>6, <4>1, <4>2 DEF ShowsInstant
    <3>8. UNCHANGED cur
      BY <1>7, <2>3 DEF ReadBlock
    <3>9. LockedImageConsistent'
      <4> SUFFICES ASSUME NEW v \in Candidates \ added PROVE \E t \in 0..Now : ShowsInstant({v}, t)'
        BY <3>1, <3>3 DEF LockedImageConsistent, Candidates
      <4>1. CASE v = cur
        <5>1. MustLock
          BY <4>1 DEF MustLock
        <5>2. PICK t \in 0..Now : t = Now
          BY <1>1
        <5>3. \A b \in 1..Len(image'[cur]) : image'[cur][b] = StateAt(t, cur, b)
          BY <3>6, <5>1, <5>2
        <5>4. ShowsInstant({v}, t)'
          BY <3>3, <4>1, <5>3 DEF ShowsInstant
        <5> QED BY <5>4
      <4>2. CASE v # cur
        <5>1. PICK t \in 0..Now : ShowsInstant({v}, t)
          BY DEF LockedInv, LockedImageConsistent
        <5>2. v \in Vol
          BY DEF Candidates, TypeOK
        <5>3. ShowsInstant({v}, t)'
          BY <3>2, <3>3, <4>2, <5>1, <5>2 DEF ShowsInstant
        <5> QED BY <5>3
      <4> QED BY <4>1, <4>2
    <3>10. locked' # NoVol => ShowsInstant({locked}, Now)'
      BY <3>1, <3>5, <3>7, <3>8 DEF ShowsInstant
    <3> QED BY <3>9, <3>10 DEF LockedInv
  <2> QED BY <2>1, <2>2, <2>3
<1>8. CASE Succeed
  BY <1>2, <1>8 DEF Succeed, Codes
<1>9. CASE ToggleUse
  <2>1. UNCHANGED <<log, image, ntfs, known, added, locked>>
    BY <1>9 DEF ToggleUse
  <2> QED BY <2>1, LockedFrame
<1>10. CASE Write
  <2>1. PICK w \in inUse, c \in Block : log' = Append(log, <<w, c>>)
    BY <1>10 DEF Write
  <2>2. /\ UNCHANGED <<ntfs, known, added, locked, image>> /\ w \in Vol /\ w # locked
        /\ <<w, c>> \in Vol \X Block
    BY <1>10, <2>1 DEF Write, LockInv, TypeOK
  <2>3. Now' = Now + 1
    BY <1>1, <2>1, <2>2, AppendProperties DEF Now
  <2>4. LockedImageConsistent'
    <3> SUFFICES ASSUME NEW v \in Candidates \ added
                 PROVE  \E t \in 0..Now' : ShowsInstant({v}, t)'
      BY <2>2 DEF LockedImageConsistent, Candidates
    <3>1. PICK t \in 0..Now : ShowsInstant({v}, t)
      BY DEF LockedInv, LockedImageConsistent
    <3>2. ShowsInstant({v}, t)'
      BY <1>1, <2>1, <2>2, <3>1, InstantStays
    <3> QED BY <1>1, <2>3, <3>1, <3>2
  <2>5. locked # NoVol => ShowsInstant({locked}, Now)'
    <3>1. \A v, b : v # w => StateAt(Now, v, b)' = StateAt(Now, v, b)
      BY <1>1, <2>1, <2>2, OthersStay
    <3> QED BY <2>2, <3>1 DEF LockedInv, ShowsInstant
  <2> QED BY <2>2, <2>4, <2>5 DEF LockedInv
<1>11. CASE UNCHANGED vars
  BY <1>11, LockedFrame
<1> QED
  BY <1>3, <1>4, <1>5, <1>6, <1>7, <1>8, <1>9, <1>10, <1>11 DEF Next, Proceed

\* At the start nothing has been read or written.
LEMMA InitIInv == Init => IInv
<1> SUFFICES ASSUME Init PROVE IInv
  OBVIOUS
<1> USE SizeAssumption
<1>1. image = [v \in Vol |-> <<>>] /\ \A v \in Vol : image[v] = <<>> /\ Len(image[v]) = 0
  BY DEF Init
<1>2. log = <<>> /\ Len(log) = 0 /\ Now = 0
  BY DEF Init, Now
<1>3. step = "add" /\ exit = Running /\ exit # 0 /\ locked = NoVol /\ added = {}
  BY RunningAssumption DEF Init, Codes
<1>4. TypeOK
  <2>1. log \in Seq(Vol \X Block) /\ image \in [Vol -> Seq(0..MaxWrites)]
    BY <1>1, <1>2, EmptySeq
  <2> QED BY <1>2, <1>3, <2>1 DEF Init, TypeOK, Never
<1>5. LoopInv
  BY <1>1, <1>3 DEF LoopInv
<1>6. LockInv
  BY <1>3 DEF Init, LockInv, Vol, NoVol
<1>7. SnapshotInv
  BY <1>3 DEF SnapshotInv, ShowsInstant
<1>8. LockedInv
  <2>1. \A v \in Candidates : ShowsInstant({v}, 0)
    BY <1>1 DEF ShowsInstant, Candidates, Init
  <2> QED BY <1>2, <1>3, <2>1 DEF LockedInv, LockedImageConsistent
<1> QED BY <1>4, <1>5, <1>6, <1>7, <1>8 DEF IInv

\* What every state satisfies.
THEOREM Invariance == Spec => []IInv
<1>1. IInv /\ [Next]_vars => IInv'
  BY TypesKeep, LoopKeeps, LockKeeps, SnapshotKeeps, LockedKeeps DEF IInv
<1> QED BY <1>1, InitIInv, PTL DEF Spec

\* Whatever other programs write and whenever, all that is copied from the
\* snapshot set shows one instant of the source.
THEOREM SnapshotSetIsOneInstant == Spec => []SnapshotSetConsistent
<1>1. IInv => SnapshotSetConsistent
  <2> SUFFICES ASSUME IInv PROVE SnapshotSetConsistent
    OBVIOUS
  <2>1. Now \in Nat
    BY DEF IInv, TypeOK, Now
  <2>2. CASE added = {}
    <3>1. ShowsInstant(added, 0)
      BY <2>2 DEF ShowsInstant
    <3> QED BY <2>1, <3>1 DEF SnapshotSetConsistent
  <2>3. CASE step = "add"
    <3>1. ShowsInstant(added, 0)
      BY <2>3 DEF IInv, LoopInv, TypeOK, Candidates, ShowsInstant
    <3> QED BY <2>1, <3>1 DEF SnapshotSetConsistent
  <2>4. CASE added # {} /\ step # "add"
    BY <2>4 DEF IInv, SnapshotInv, SnapshotSetConsistent
  <2> QED BY <2>2, <2>3, <2>4
<1> QED BY <1>1, Invariance, PTL

\* A volume VSS refused shows an instant as well (OpenSourceVolumeForCopy).
THEOREM LockedVolumeIsOneInstant == Spec => []LockedImageConsistent
<1>1. IInv => LockedImageConsistent
  BY DEF IInv, LockedInv
<1> QED BY <1>1, Invariance, PTL

\* However the run ends: no volume of the source stays locked, and success
\* means a whole copy of every partition.
THEOREM EverythingIsAccounted == Spec => []CopyAccounted
<1>1. IInv => SourceReleased
  BY SizeAssumption DEF IInv, LockInv, LoopInv, SourceReleased, MustLock, NoVol
<1>2. IInv => SuccessIsWhole
  <2> SUFFICES ASSUME IInv, exit = 0 PROVE wiped /\ \A v \in Vol : Len(image[v]) = B
    BY DEF SuccessIsWhole
  <2>1. step = "open" /\ cur = N + 1 /\ wiped
    BY DEF IInv, LoopInv
  <2>2. \A v \in Vol : v < cur
    BY <2>1, SizeAssumption DEF Vol
  <2> QED BY <2>1, <2>2, SizeAssumption DEF IInv, LoopInv, Vol
<1>3. IInv => TypeOK
  BY DEF IInv
<1> QED BY <1>1, <1>2, <1>3, Invariance, PTL DEF CopyAccounted
=============================================================================
