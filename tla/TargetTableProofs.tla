------------------------- MODULE TargetTableProofs --------------------------
(***************************************************************************)
(* Proofs about TargetTable for every disk that IsSource admits and any    *)
(* number of slots.                                                        *)
(***************************************************************************)
EXTENDS TargetTable, FiniteSetTheorems, FunctionTheorems, SequenceTheorems, TLAPS

-----------------------------------------------------------------------------
(* The inductive invariant *)

Written == {"write", "written", "rejected"}
Checked == {"sniff", "windows", "largest", "identity"} \cup Written

\* The partitions are those QueryLayout made of the source; once they have been
\* checked there are some, and no extended one.
PartsInv ==
  /\ step = "query" => parts = <<>>
  /\ step \in {"query", "check"} => next = 1
  /\ step \in {"check"} \cup Checked => parts = Partitions(source.style, source.slots)
  /\ step \in Checked =>
       parts # <<>> /\ (source.style = "mbr" => "extended" \notin TypesSeen)

\* What has been sniffed is not BitLocker's.
SniffInv ==
  /\ step = "sniff" => \A k \in DOMAIN parts : k < next => FsOf(parts[k]) # "bitLocker"
  /\ step \in Checked \ {"sniff"} => \A k \in DOMAIN parts : FsOf(parts[k]) # "bitLocker"

\* The first of the largest candidates below n, if there is any.
LargestBelow(n) ==
  LET ntfs == {k \in DOMAIN parts : k < n /\ Candidate(k)}
  IN  /\ windows = None => ntfs = {}
      /\ windows # None =>
           /\ windows \in ntfs
           /\ \A k \in ntfs : /\ parts[k].len <= parts[windows].len
                              /\ k < windows => parts[k].len < parts[windows].len

\* Windows is on the running volume or, if no partition is that, the largest
\* candidate the loop has seen.
WindowsInv ==
  /\ step \in {"query", "check", "sniff", "windows"} => windows = None
  /\ step = "largest" => (\A k \in DOMAIN parts : ~OnRunning(k)) /\ LargestBelow(next)
  /\ step \in {"identity"} \cup Written =>
       /\ newIds => windows # None
       /\ \/ windows \in DOMAIN parts /\ OnRunning(windows)
          \/ (\A k \in DOMAIN parts : ~OnRunning(k)) /\ LargestBelow(Len(parts) + 1)

\* The identity is chosen once, all new or all of the source.
IdentityInv ==
  /\ step \notin Written => ids = <<>>
  /\ step \in Written =>
       /\ Len(ids) = Len(parts)
       /\ newIds => /\ \A k \in DOMAIN parts : ids[k] = NewGuid(k)
                    /\ source.style = "gpt" => diskId = NewGuid(0)
                    /\ source.style = "mbr" => diskId # 0
       /\ ~newIds => /\ \A k \in DOMAIN parts : ids[k] = parts[k].id
                     /\ diskId = source.diskId

\* The table is the one that was built, unless the driver would not take it.
TableInv ==
  /\ step = "written" => table = LayoutBuffer
  /\ step = "rejected" => ~Accepts(LayoutBuffer)

IInv == TypeOK /\ PartsInv /\ SniffInv /\ WindowsInv /\ IdentityInv /\ TableInv
-----------------------------------------------------------------------------
(* What sorting by offset gives *)

\* Some entries can be told apart by where they begin.
Apart(found) ==
  /\ IsFiniteSet(found)
  /\ \A e \in found : e.off \in Nat
  /\ \A e, f \in found : e.off = f.off => e = f

\* The numbers of entries before each of n entries are the numbers below n, in
\* the order of the offsets.
LEMMA Ranks ==
  ASSUME NEW found, Apart(found)
  PROVE  /\ Cardinality(found) \in Nat
         /\ \A e, f \in found : e.off < f.off =>
              Cardinality(Before(e, found)) < Cardinality(Before(f, found))
         /\ \A k \in 1..Cardinality(found) : \E e \in found : Cardinality(Before(e, found)) = k - 1
<1> DEFINE n       == Cardinality(found)
           rank(e) == Cardinality(Before(e, found))
<1>1. n \in Nat /\ IsFiniteSet(found)
  BY FS_CardinalityType DEF Apart
<1>2. \A e \in found : IsFiniteSet(Before(e, found)) /\ rank(e) \in Nat
  <2> SUFFICES ASSUME NEW e \in found PROVE IsFiniteSet(Before(e, found)) /\ rank(e) \in Nat
    OBVIOUS
  <2>1. Before(e, found) \in SUBSET found
    BY DEF Before
  <2>2. IsFiniteSet(Before(e, found))
    BY <1>1, <2>1, FS_Subset
  <2> QED BY <2>2, FS_CardinalityType
<1>3. \A e \in found : rank(e) < n
  <2> SUFFICES ASSUME NEW e \in found PROVE rank(e) < n
    OBVIOUS
  <2>1. Before(e, found) \in SUBSET found /\ e \notin Before(e, found)
    BY DEF Before, ByOffset, Apart
  <2>2. rank(e) <= n /\ rank(e) # n
    BY <1>1, <2>1, FS_Subset
  <2> QED BY <1>1, <1>2, <2>2
<1>4. \A e, f \in found : e.off < f.off => rank(e) < rank(f)
  <2> SUFFICES ASSUME NEW e \in found, NEW f \in found, e.off < f.off PROVE rank(e) < rank(f)
    OBVIOUS
  <2>1. Before(e, found) \in SUBSET Before(f, found) /\ e \in Before(f, found)
        /\ e \notin Before(e, found)
    BY DEF Before, ByOffset, Apart
  <2>2. rank(e) <= rank(f) /\ rank(e) # rank(f)
    BY <1>2, <2>1, FS_Subset
  <2> QED BY <1>2, <2>2
<1> DEFINE place == [e \in found |-> rank(e) + 1]
<1>5. place \in Injection(found, 1..n)
  <2>1. \A e \in found : rank(e) + 1 \in 1..n
    <3> HIDE DEF rank, n
    <3> QED BY <1>1, <1>2, <1>3
  <2>2. place \in [found -> 1..n]
    BY <2>1
  <2>3. \A e, f \in found : place[e] = place[f] => e = f
    <3> SUFFICES ASSUME NEW e \in found, NEW f \in found, rank(e) + 1 = rank(f) + 1 PROVE e = f
      OBVIOUS
    <3>1. rank(e) = rank(f)
      <4> HIDE DEF rank
      <4> QED BY <1>2
    <3>2. ~(e.off < f.off) /\ ~(f.off < e.off)
      <4> HIDE DEF rank
      <4> QED BY <1>2, <1>4, <3>1
    <3> QED BY <3>2 DEF Apart
  <2> HIDE DEF place
  <2> QED BY <2>2, <2>3, Fun_IsInj
<1>6. place \in Surjection(found, 1..n)
  <2>1. IsFiniteSet(1..n) /\ Cardinality(1..n) = n
    BY <1>1, FS_Interval
  <2> HIDE DEF place
  <2> QED BY <1>1, <1>5, <2>1, FS_Injection
<1>7. \A k \in 1..n : \E e \in found : rank(e) = k - 1
  <2> SUFFICES ASSUME NEW k \in 1..n PROVE \E e \in found : rank(e) = k - 1
    OBVIOUS
  <2>1. PICK e \in found : place[e] = k
    <3> HIDE DEF place, n
    <3>1. \A t \in 1..n : \E e \in found : place[e] = t
      BY <1>6, Fun_SurjectionProperties
    <3> QED BY <3>1
  <2>2. rank(e) + 1 = k
    BY <2>1
  <2> HIDE DEF rank
  <2> QED BY <1>2, <2>2
<1> QED BY <1>1, <1>4, <1>7

\* Sorted lists every entry once, in the order of the offsets.
LEMMA SortedFacts ==
  ASSUME NEW found, Apart(found)
  PROVE  /\ Cardinality(found) \in Nat
         /\ DOMAIN Sorted(found) = 1..Cardinality(found)
         /\ Sorted(found) \in Seq(found) /\ Len(Sorted(found)) = Cardinality(found)
         /\ \A k \in 1..Cardinality(found) :
              /\ Sorted(found)[k] \in found
              /\ Cardinality(Before(Sorted(found)[k], found)) = k - 1
         /\ \A k, l \in 1..Cardinality(found) : k < l => Sorted(found)[k].off < Sorted(found)[l].off
         /\ {Sorted(found)[k] : k \in 1..Cardinality(found)} = found
<1> DEFINE n       == Cardinality(found)
           list    == Sorted(found)
           rank(e) == Cardinality(Before(e, found))
<1>1. n \in Nat
  BY Ranks
<1>2. \A k \in 1..n : list[k] \in found /\ rank(list[k]) = k - 1
  BY Ranks DEF Sorted
<1>3. DOMAIN list = 1..n /\ list = [k \in 1..n |-> list[k]]
  BY DEF Sorted
<1> HIDE DEF n, list
<1>4. list \in Seq(found) /\ Len(list) = n
  BY <1>1, <1>2, <1>3, IsASeq
<1>5. \A k, l \in 1..n : k < l => list[k].off < list[l].off
  <2> SUFFICES ASSUME NEW k \in 1..n, NEW l \in 1..n, k < l PROVE list[k].off < list[l].off
    OBVIOUS
  <2>1. rank(list[k]) = k - 1 /\ rank(list[l]) = l - 1
    BY <1>2
  <2>2. list[k].off \in Nat /\ list[l].off \in Nat
    BY <1>2 DEF Apart
  <2>3. list[k] # list[l]
    <3> HIDE DEF rank
    <3> QED BY <1>1, <2>1
  <2>4. list[k].off # list[l].off
    BY <1>2, <2>3 DEF Apart
  <2>5. list[l].off < list[k].off => rank(list[l]) < rank(list[k])
    BY <1>2, Ranks
  <2> HIDE DEF rank
  <2> QED BY <1>1, <2>1, <2>2, <2>4, <2>5
<1>6. \A e \in found : \E k \in 1..n : list[k] = e
  <2> SUFFICES ASSUME NEW e \in found PROVE \E k \in 1..n : list[k] = e
    OBVIOUS
  <2>1. IsFiniteSet(found) /\ Before(e, found) \in SUBSET found /\ e \notin Before(e, found)
    BY DEF Before, ByOffset, Apart
  <2>2. rank(e) \in Nat /\ rank(e) <= n /\ rank(e) # n
    BY <2>1, FS_Subset, FS_CardinalityType DEF n
  <2> DEFINE k == rank(e) + 1
  <2>3. k \in 1..n /\ rank(list[k]) = rank(e)
    <3>1. k \in 1..n
      <4> HIDE DEF rank
      <4> QED BY <1>1, <2>2
    <3>2. rank(list[k]) = k - 1
      BY <1>2, <3>1
    <3> HIDE DEF rank
    <3> QED BY <2>2, <3>1, <3>2
  <2>4. list[k] \in found /\ list[k].off \in Nat /\ e.off \in Nat
    BY <1>2, <2>3 DEF Apart
  <2>5. ~(list[k].off < e.off) /\ ~(e.off < list[k].off)
    <3>1. (list[k].off < e.off => rank(list[k]) < rank(e)) /\ (e.off < list[k].off => rank(e) < rank(list[k]))
      BY <2>4, Ranks
    <3> HIDE DEF rank
    <3> QED BY <2>2, <2>3, <3>1
  <2>6. list[k] = e
    BY <2>4, <2>5 DEF Apart
  <2> QED BY <2>3, <2>6
<1>7. {list[k] : k \in 1..n} = found
  BY <1>2, <1>6
<1> QED BY <1>1, <1>2, <1>3, <1>4, <1>5, <1>7 DEF n, list

\* Entries that lie in the order of their offsets are as many as their places.
LEMMA CountInOrder ==
  ASSUME NEW list, NEW n \in Nat, \A k \in 1..n : list[k].off \in Nat,
         \A k, l \in 1..n : k < l => list[k].off < list[l].off
  PROVE  LET first == {list[k] : k \in 1..n}
         IN  IsFiniteSet(first) /\ Cardinality(first) = n
<1> DEFINE first == {list[k] : k \in 1..n}
           count == [k \in 1..n |-> list[k]]
<1>1. count \in [1..n -> first] /\ \A e \in first : \E k \in 1..n : count[k] = e
  OBVIOUS
<1>2. \A k, l \in 1..n : count[k] = count[l] => k = l
  <2> SUFFICES ASSUME NEW k \in 1..n, NEW l \in 1..n, list[k] = list[l] PROVE k = l
    OBVIOUS
  <2>1. ~(k < l) /\ ~(l < k)
    OBVIOUS
  <2> QED BY <2>1
<1> HIDE DEF count, first
<1>3. count \in Bijection(1..n, first)
  BY <1>1, <1>2, Fun_IsBij
<1>4. ExistsBijection(1..n, first)
  BY <1>3 DEF ExistsBijection
<1>5. IsFiniteSet(first) /\ Cardinality(first) = n
  BY <1>4, FS_CountingElements, FS_NatBijection
<1> QED BY <1>5 DEF first

\* A list in the order of the offsets is what sorting its entries gives.
LEMMA OrderIsSorted ==
  ASSUME NEW list, NEW n \in Nat, \A k \in 1..n : list[k].off \in Nat,
         \A k, l \in 1..n : k < l => list[k].off < list[l].off,
         NEW found, found = {list[k] : k \in 1..n}
  PROVE  /\ Apart(found) /\ Cardinality(found) = n
         /\ \A k \in 1..n : Sorted(found)[k] = list[k]
<1>1. IsFiniteSet(found) /\ Cardinality(found) = n
  BY CountInOrder
<1>2. \A k, l \in 1..n : list[k].off = list[l].off => k = l
  OBVIOUS
<1>3. Apart(found)
  BY <1>1, <1>2 DEF Apart
<1>4. ASSUME NEW k \in 1..n
      PROVE  Cardinality(Before(list[k], found)) = k - 1
  <2>1. k - 1 \in Nat /\ \A j : j \in 1..(k - 1) <=> j \in 1..n /\ j < k
    OBVIOUS
  <2>2. \A j \in 1..n : list[j].off < list[k].off <=> j < k
    OBVIOUS
  <2>3. Before(list[k], found) = {list[j] : j \in 1..(k - 1)}
    BY <2>1, <2>2 DEF Before, ByOffset
  <2>4. /\ \A j \in 1..(k - 1) : list[j].off \in Nat
        /\ \A j, l \in 1..(k - 1) : j < l => list[j].off < list[l].off
    BY <2>1
  <2>5. Cardinality({list[j] : j \in 1..(k - 1)}) = k - 1
    BY <2>1, <2>4, CountInOrder, SMTT(30)
  <2> QED BY <2>3, <2>5
<1>5. \A k \in 1..n : Sorted(found)[k] = list[k]
  <2> SUFFICES ASSUME NEW k \in 1..n PROVE Sorted(found)[k] = list[k]
    OBVIOUS
  <2> DEFINE e == Sorted(found)[k]
             f == list[k]
  <2>1. e \in found /\ Cardinality(Before(e, found)) = k - 1
    <3>1. \A l \in 1..Cardinality(found) :
             /\ Sorted(found)[l] \in found
             /\ Cardinality(Before(Sorted(found)[l], found)) = l - 1
      BY <1>3, SortedFacts, ZenonT(30)
    <3> QED BY <1>1, <3>1
  <2>2. f \in found /\ Cardinality(Before(f, found)) = k - 1
    BY <1>4
  <2> HIDE DEF e, f
  <2>3. e.off \in Nat /\ f.off \in Nat
    BY <1>3, <2>1, <2>2 DEF Apart
  <2>4. k - 1 \in Int /\ ~(k - 1 < k - 1)
    OBVIOUS
  <2>5. ~(e.off < f.off) /\ ~(f.off < e.off)
    BY <1>3, <2>1, <2>2, <2>4, Ranks
  <2>6. e = f
    BY <1>3, <2>1, <2>2, <2>3, <2>5 DEF Apart
  <2> QED BY <2>6 DEF e, f
<1> QED BY <1>1, <1>3, <1>5
-----------------------------------------------------------------------------
(* What QueryLayout makes of a source *)

Slots(s) == {k \in DOMAIN s.slots : IsPartition(s.style, s.slots[k])}

\* The partitions of a source lie apart, and are no more than its slots.
LEMMA PartitionsApart ==
  ASSUME NEW s, IsSource(s)
  PROVE  LET found == PartitionsIn(s.style, s.slots)
         IN  /\ Apart(found) /\ found \subseteq Entries
             /\ found = {s.slots[k] : k \in Slots(s)}
             /\ Cardinality(found) <= Len(s.slots) /\ Len(s.slots) \in Nat
<1> DEFINE found == PartitionsIn(s.style, s.slots)
           n     == Len(s.slots)
           at    == [k \in Slots(s) |-> s.slots[k]]
<1>1. s.slots \in Seq(Entries)
  BY DEF IsSource
<1>2. n \in Nat /\ DOMAIN s.slots = 1..n /\ \A k \in 1..n : s.slots[k] \in Entries
  BY <1>1
<1>3. found = {s.slots[k] : k \in Slots(s)}
  BY DEF PartitionsIn, Slots
<1>4. found \subseteq Entries
  BY <1>2, <1>3 DEF Slots
<1>5. \A e, f \in found : e.off = f.off => e = f
  BY <1>3 DEF IsSource, Slots
<1>6. IsFiniteSet(Slots(s)) /\ Cardinality(Slots(s)) <= n /\ Cardinality(Slots(s)) \in Nat
  <2>1. Slots(s) \in SUBSET (1..n)
    BY <1>2 DEF Slots
  <2> HIDE DEF n
  <2>2. IsFiniteSet(1..n) /\ Cardinality(1..n) = n
    BY <1>2, FS_Interval
  <2>3. IsFiniteSet(Slots(s)) /\ Cardinality(Slots(s)) <= n
    BY <2>1, <2>2, FS_Subset
  <2> QED BY <2>3, FS_CardinalityType
<1>7. at \in Surjection(Slots(s), found)
  <2>1. at \in [Slots(s) -> found] /\ \A e \in found : \E k \in Slots(s) : at[k] = e
    BY <1>3
  <2> HIDE DEF at, found
  <2> QED BY <2>1, Fun_IsSurj
<1>8. IsFiniteSet(found) /\ Cardinality(found) <= Cardinality(Slots(s))
  <2> HIDE DEF at, found
  <2> QED BY <1>6, <1>7, FS_Surjection
<1>9. Cardinality(found) \in Nat
  BY <1>8, FS_CardinalityType
<1>10. Cardinality(found) <= n
  <2> HIDE DEF found, n
  <2> QED BY <1>2, <1>6, <1>8, <1>9
<1>11. \A e \in found : e.off \in Nat
  BY <1>4 DEF Entries
<1>12. Apart(found)
  BY <1>5, <1>8, <1>11 DEF Apart
<1> QED BY <1>2, <1>3, <1>4, <1>10, <1>12

\* DiskInfo.partitions lists the partitions of the source, each once, in the
\* order of the disk.
LEMMA PartitionsFacts ==
  ASSUME NEW s, IsSource(s)
  PROVE  LET list == Partitions(s.style, s.slots)
         IN  /\ list \in Seq(Entries) /\ Len(list) <= Len(s.slots) /\ Len(s.slots) \in Nat
             /\ {list[k] : k \in DOMAIN list} = {s.slots[k] : k \in Slots(s)}
             /\ \A k, l \in DOMAIN list : k < l => list[k].off < list[l].off
             /\ \A k \in DOMAIN list : IsPartition(s.style, list[k])
<1> DEFINE found == PartitionsIn(s.style, s.slots)
           list  == Partitions(s.style, s.slots)
<1>1. /\ Apart(found) /\ found \subseteq Entries
      /\ found = {s.slots[k] : k \in Slots(s)}
      /\ Cardinality(found) <= Len(s.slots) /\ Len(s.slots) \in Nat
  BY PartitionsApart
<1>2. list = Sorted(found)
  BY DEF Partitions
<1> HIDE DEF found, list
<1>3. /\ DOMAIN list = 1..Cardinality(found) /\ Cardinality(found) \in Nat
      /\ list \in Seq(found) /\ Len(list) = Cardinality(found)
      /\ \A k, l \in 1..Cardinality(found) : k < l => list[k].off < list[l].off
      /\ {list[k] : k \in 1..Cardinality(found)} = found
  <2>1. Apart(found)
    BY <1>1
  <2>2. /\ DOMAIN Sorted(found) = 1..Cardinality(found) /\ Cardinality(found) \in Nat
        /\ Sorted(found) \in Seq(found) /\ Len(Sorted(found)) = Cardinality(found)
    BY <2>1, SortedFacts
  <2>3. \A k, l \in 1..Cardinality(found) : k < l => Sorted(found)[k].off < Sorted(found)[l].off
    BY <2>1, SortedFacts
  <2>4. {Sorted(found)[k] : k \in 1..Cardinality(found)} = found
    BY <2>1, SortedFacts
  <2> QED BY <1>2, <2>2, <2>3, <2>4
<1>4. list \in Seq(Entries)
  BY <1>1, <1>3, SeqMonotonic
<1>5. \A k \in DOMAIN list : list[k] \in found
  BY <1>3
<1>6. \A e \in found : IsPartition(s.style, e)
  BY <1>1 DEF Slots
<1> QED BY <1>1, <1>3, <1>4, <1>5, <1>6 DEF list
-----------------------------------------------------------------------------
(* What the invariant says of the plan *)

\* The plan is in the order of the disk.
LEMMA PlanFacts ==
  ASSUME TypeOK
  PROVE  /\ source.style \in {"gpt", "mbr"} /\ source.slots \in Seq(Entries)
         /\ parts \in Seq(Entries) /\ Len(parts) \in Nat /\ DOMAIN parts = 1..Len(parts)
         /\ \A k \in DOMAIN parts : /\ parts[k] \in Entries /\ parts[k].off \in Nat
                                    /\ parts[k].len \in Nat /\ parts[k].id \in Nat
<1>1. source.style \in {"gpt", "mbr"} /\ source.slots \in Seq(Entries)
  BY DEF TypeOK, IsSource
<1>2. parts \in Seq(Entries)
  BY DEF TypeOK
<1>3. Len(parts) \in Nat /\ DOMAIN parts = 1..Len(parts) /\ \A k \in DOMAIN parts : parts[k] \in Entries
  BY <1>2
<1>4. \A e \in Entries : e.off \in Nat /\ e.len \in Nat /\ e.id \in Nat
  BY DEF Entries
<1> QED BY <1>1, <1>2, <1>3, <1>4

\* After the check, the source's partitions are in the plan, each once.
LEMMA CheckedFacts ==
  ASSUME IInv, step \in {"check"} \cup Checked
  PROVE  /\ {parts[k] : k \in DOMAIN parts} = {source.slots[k] : k \in Slots(source)}
         /\ \A k, l \in DOMAIN parts : k < l => parts[k].off < parts[l].off
         /\ \A k \in DOMAIN parts : IsPartition(source.style, parts[k])
         /\ Len(parts) <= Len(source.slots) /\ Len(source.slots) \in Nat
<1>1. IsSource(source) /\ parts = Partitions(source.style, source.slots)
  BY DEF IInv, TypeOK, PartsInv
<1>2. IsSource(source)
  BY <1>1
<1> DEFINE list == Partitions(source.style, source.slots)
<1>3. /\ {list[k] : k \in DOMAIN list} = {source.slots[k] : k \in Slots(source)}
      /\ Len(list) <= Len(source.slots) /\ Len(source.slots) \in Nat
  BY <1>2, PartitionsFacts
<1>4. /\ \A k, l \in DOMAIN list : k < l => list[k].off < list[l].off
      /\ \A k \in DOMAIN list : IsPartition(source.style, list[k])
  BY <1>2, PartitionsFacts
<1>5. parts = list
  BY <1>1
<1> HIDE DEF list
<1> QED BY <1>3, <1>4, <1>5
-----------------------------------------------------------------------------
(* Every action preserves the invariant *)

\* Most steps leave the plan and the table alone.
LEMMA TypeFrame ==
  ASSUME TypeOK, UNCHANGED <<source, newIds, attempt, room, parts, diskId, ids, table>>,
         step' \in {"query", "check", "sniff", "windows", "largest", "identity", "write",
                    "written", "rejected", "refused"},
         next' \in 1..(Len(parts) + 1), windows' \in DOMAIN parts \cup {None}
  PROVE  TypeOK'
BY DEF TypeOK

\* The invariant holds of every disk before it is looked at.
LEMMA InitHolds ==
  ASSUME Init
  PROVE  IInv
<1>1. /\ IsSource(source) /\ newIds \in BOOLEAN /\ step = "query" /\ attempt = 0 /\ room = Room
      /\ parts = <<>> /\ next = 1 /\ diskId = 0 /\ ids = <<>> /\ windows = None /\ table = <<>>
  BY SourceAssumption DEF Init
<1>2. TypeOK
  <2>1. attempt \in 0..(Attempts - 1) /\ room \in Nat \ {0}
    BY <1>1, BoundAssumption
  <2>2. parts \in Seq(Entries) /\ ids \in Seq(Nat) /\ table \in Seq(Entries)
    BY <1>1
  <2>3. next \in 1..(Len(parts) + 1) /\ Len(ids) \in {0, Len(parts)} /\ diskId \in Nat
    BY <1>1
  <2> QED BY <1>1, <2>1, <2>2, <2>3 DEF TypeOK
<1>3. PartsInv /\ SniffInv /\ WindowsInv /\ IdentityInv /\ TableInv
  BY <1>1 DEF PartsInv, SniffInv, WindowsInv, IdentityInv, TableInv, Checked, Written
<1> QED BY <1>2, <1>3 DEF IInv

\* The loop of QueryLayout tries a larger buffer, or has the partitions.
LEMMA QueryLayoutKeeps ==
  ASSUME IInv, QueryLayout
  PROVE  IInv'
<1>1. /\ step = "query" /\ TypeOK /\ parts = <<>> /\ next = 1 /\ windows = None /\ ids = <<>>
      /\ UNCHANGED <<source, newIds, next, diskId, ids, windows, table>>
  BY DEF QueryLayout, Do, IInv, PartsInv, WindowsInv, IdentityInv, Written
<1>2. step' \in {"query", "check", "refused"}
  BY <1>1 DEF QueryLayout, Refuse
<1>3. parts' = <<>> \/ (parts' = Partitions(source.style, source.slots) /\ step' = "check")
  BY <1>1 DEF QueryLayout
<1>4. step' = "query" => parts' = <<>>
  BY <1>3
<1>5. step' = "check" => parts' = Partitions(source.style, source.slots)
  BY <1>1 DEF QueryLayout, Refuse
<1>6. TypeOK'
  <2>1. parts' \in Seq(Entries)
    <3>1. Partitions(source.style, source.slots) \in Seq(Entries)
      BY <1>1, PartitionsFacts DEF TypeOK
    <3>2. <<>> \in Seq(Entries)
      OBVIOUS
    <3> QED BY <1>3, <3>1, <3>2
  <2>2. attempt' \in 0..(Attempts - 1) /\ room' \in Nat \ {0}
    BY <1>1, BoundAssumption DEF QueryLayout, CanRetry, TypeOK
  <2>3. next \in 1..(Len(parts') + 1) /\ Len(ids) = 0
    BY <1>1, <2>1
  <2> QED BY <1>1, <1>2, <2>1, <2>2, <2>3 DEF TypeOK
<1>7. PartsInv' /\ SniffInv' /\ WindowsInv' /\ IdentityInv' /\ TableInv'
  BY <1>1, <1>2, <1>4, <1>5
     DEF PartsInv, SniffInv, WindowsInv, IdentityInv, TableInv, Checked, Written
<1> QED BY <1>6, <1>7 DEF IInv

\* An empty table, or one with an extended partition, goes no further.
LEMMA CheckTableKeeps ==
  ASSUME IInv, CheckTable
  PROVE  IInv'
<1>1. /\ step = "check" /\ TypeOK /\ next = 1 /\ windows = None /\ ids = <<>>
      /\ parts = Partitions(source.style, source.slots)
      /\ UNCHANGED <<source, newIds, attempt, room, parts, next, diskId, ids, windows, table>>
  BY DEF CheckTable, Do, IInv, PartsInv, WindowsInv, IdentityInv, Written
<1>2. \/ step' = "refused"
      \/ step' = "sniff" /\ parts # <<>> /\ (source.style = "mbr" => "extended" \notin TypesSeen)
  BY DEF CheckTable
<1>3. TypeOK'
  <2>1. next \in 1..(Len(parts) + 1) /\ windows \in DOMAIN parts \cup {None}
    BY <1>1 DEF TypeOK
  <2> QED BY <1>1, <1>2, <2>1, TypeFrame
<1>4. PartsInv'
  BY <1>1, <1>2 DEF PartsInv, Checked, Written, TypesSeen
<1>5. SniffInv'
  BY <1>1, <1>2, PlanFacts DEF SniffInv, Checked, Written
<1>6. WindowsInv' /\ IdentityInv' /\ TableInv'
  BY <1>1, <1>2 DEF WindowsInv, IdentityInv, TableInv, Written
<1> QED BY <1>3, <1>4, <1>5, <1>6 DEF IInv

\* One more partition is sniffed, and stops the plan if it is BitLocker's.
LEMMA SniffNextKeeps ==
  ASSUME IInv, SniffNext
  PROVE  IInv'
<1>1. /\ step = "sniff" /\ TypeOK /\ windows = None /\ ids = <<>>
      /\ parts = Partitions(source.style, source.slots)
      /\ parts # <<>> /\ (source.style = "mbr" => "extended" \notin TypesSeen)
      /\ \A k \in DOMAIN parts : k < next => FsOf(parts[k]) # "bitLocker"
      /\ UNCHANGED <<source, newIds, attempt, room, parts, diskId, ids, windows, table>>
  BY DEF SniffNext, Do, IInv, PartsInv, SniffInv, WindowsInv, IdentityInv, Checked, Written
<1>2. next \in 1..(Len(parts) + 1) /\ Len(parts) \in Nat /\ DOMAIN parts = 1..Len(parts)
  BY <1>1, PlanFacts DEF TypeOK
<1>3. \/ step' = "windows" /\ next' = next /\ next > Len(parts)
      \/ step' = "refused" /\ next' = next
      \/ /\ step' = "sniff" /\ next' = next + 1 /\ next <= Len(parts)
         /\ FsOf(parts[next]) # "bitLocker"
  BY <1>1 DEF SniffNext, Refuse
<1>4. next' \in 1..(Len(parts) + 1)
  BY <1>2, <1>3
<1>5. TypeOK'
  BY <1>1, <1>3, <1>4, TypeFrame
<1>6. PartsInv'
  BY <1>1, <1>3 DEF PartsInv, Checked, Written, TypesSeen
<1>7. \A k \in DOMAIN parts :
        /\ step' = "sniff" /\ k < next' => FsOf(parts[k]) # "bitLocker"
        /\ step' = "windows" => FsOf(parts[k]) # "bitLocker"
  <2> SUFFICES ASSUME NEW k \in DOMAIN parts
               PROVE  /\ step' = "sniff" /\ k < next' => FsOf(parts[k]) # "bitLocker"
                      /\ step' = "windows" => FsOf(parts[k]) # "bitLocker"
    OBVIOUS
  <2>1. CASE step' = "sniff"
    <3>1. k < next' => k < next \/ k = next
      BY <1>2, <1>3, <2>1
    <3> QED BY <1>1, <1>3, <2>1, <3>1
  <2>2. CASE step' = "windows"
    <3>1. k < next
      BY <1>2, <1>3, <2>2
    <3> QED BY <1>1, <2>2, <3>1
  <2> QED BY <2>1, <2>2
<1>8. SniffInv'
  BY <1>1, <1>3, <1>7 DEF SniffInv, Checked, Written, FsOf, Sniff
<1>9. WindowsInv' /\ IdentityInv' /\ TableInv'
  BY <1>1, <1>3 DEF WindowsInv, IdentityInv, TableInv, Written
<1> QED BY <1>5, <1>6, <1>8, <1>9 DEF IInv

\* What an invariant says of the plan stays, once it has been sniffed.
LEMMA SniffedFrame ==
  ASSUME IInv, step \in Checked \ {"sniff"}, step' \in (Checked \cup {"refused"}) \ {"sniff"},
         UNCHANGED <<source, parts>>
  PROVE  PartsInv' /\ SniffInv'
<1>1. /\ parts = Partitions(source.style, source.slots)
      /\ parts # <<>> /\ (source.style = "mbr" => "extended" \notin TypesSeen)
      /\ \A k \in DOMAIN parts : FsOf(parts[k]) # "bitLocker"
  BY DEF IInv, PartsInv, SniffInv
<1>2. PartsInv'
  BY <1>1 DEF PartsInv, Checked, Written, TypesSeen
<1>3. SniffInv'
  BY <1>1 DEF SniffInv, Checked, Written, FsOf, Sniff
<1> QED BY <1>2, <1>3

\* Windows is where the system runs, or the loop over the candidates begins.
LEMMA IdentifyRunningKeeps ==
  ASSUME IInv, IdentifyRunning
  PROVE  IInv'
<1>1. /\ step = "windows" /\ TypeOK /\ windows = None /\ ids = <<>>
      /\ UNCHANGED <<source, newIds, attempt, room, parts, diskId, ids, table>>
  BY DEF IdentifyRunning, Do, IInv, WindowsInv, IdentityInv, Written
<1>2. DOMAIN parts = 1..Len(parts) /\ Len(parts) \in Nat /\ next \in 1..(Len(parts) + 1)
  BY <1>1, PlanFacts DEF TypeOK
<1>3. \/ windows' \in DOMAIN parts /\ OnRunning(windows') /\ step' = "identity" /\ next' = next
      \/ /\ \A k \in DOMAIN parts : ~OnRunning(k)
         /\ next' = 1 /\ step' = "largest" /\ windows' = None
  BY <1>1 DEF IdentifyRunning
<1>4. TypeOK'
  BY <1>1, <1>2, <1>3, TypeFrame
<1>5. PartsInv' /\ SniffInv'
  BY <1>1, <1>3, SniffedFrame DEF Checked, Written
<1>6. WindowsInv'
  <2>1. \A k \in DOMAIN parts : ~(k < 1) /\ k # None
    BY <1>2 DEF None
  <2> QED BY <1>1, <1>3, <2>1 DEF WindowsInv, Written, OnRunning, LargestBelow
<1>7. IdentityInv' /\ TableInv'
  BY <1>1, <1>3 DEF IdentityInv, TableInv, Written
<1> QED BY <1>4, <1>5, <1>6, <1>7 DEF IInv

\* One more partition is compared with the largest so far.
LEMMA CompareNextKeeps ==
  ASSUME IInv, CompareNext
  PROVE  IInv'
<1>1. /\ step = "largest" /\ TypeOK /\ ids = <<>>
      /\ \A k \in DOMAIN parts : ~OnRunning(k)
      /\ LargestBelow(next)
      /\ UNCHANGED <<source, newIds, attempt, room, parts, diskId, ids, table>>
  BY DEF CompareNext, Do, IInv, WindowsInv, IdentityInv, Written
<1>2. /\ DOMAIN parts = 1..Len(parts) /\ Len(parts) \in Nat /\ next \in 1..(Len(parts) + 1)
      /\ windows \in DOMAIN parts \cup {None}
      /\ \A k \in DOMAIN parts : parts[k].len \in Nat
  BY <1>1, PlanFacts DEF TypeOK
<1>3. CASE next > Len(parts)
  <2>1. /\ next' = next /\ windows' = windows /\ next = Len(parts) + 1
        /\ \/ step' = "refused"
           \/ step' = "identity" /\ (newIds => windows # None)
    BY <1>1, <1>2, <1>3 DEF CompareNext
  <2>2. TypeOK'
    BY <1>1, <1>2, <2>1, TypeFrame
  <2>3. PartsInv' /\ SniffInv'
    BY <1>1, <2>1, SniffedFrame DEF Checked, Written
  <2>4. WindowsInv'
    BY <1>1, <2>1 DEF WindowsInv, Written, OnRunning, LargestBelow, Candidate, FsOf, Sniff
  <2>5. IdentityInv' /\ TableInv'
    BY <1>1, <2>1 DEF IdentityInv, TableInv, Written
  <2> QED BY <2>2, <2>3, <2>4, <2>5 DEF IInv
<1>4. CASE ~(next > Len(parts))
  <2> DEFINE takes == Candidate(next) /\ (windows = None \/ Larger(next, windows))
  <2>1. /\ step' = "largest" /\ next' = next + 1 /\ next \in DOMAIN parts
        /\ windows' = IF takes THEN next ELSE windows
    BY <1>1, <1>2, <1>4 DEF CompareNext
  <2>2. next' \in 1..(Len(parts) + 1) /\ windows' \in DOMAIN parts \cup {None}
    BY <1>2, <2>1
  <2>3. TypeOK'
    BY <1>1, <2>1, <2>2, TypeFrame
  <2>4. PartsInv' /\ SniffInv'
    BY <1>1, <2>1, SniffedFrame DEF Checked, Written
  <2>5. \A k \in DOMAIN parts : k < next' <=> k < next \/ k = next
    BY <1>2, <2>1
  <2>6. None \notin DOMAIN parts
    BY <1>2 DEF None
  <2>7. LargestBelow(next)'
    <3> DEFINE ntfs  == {k \in DOMAIN parts : k < next /\ Candidate(k)}
               after == {k \in DOMAIN parts : k < next' /\ Candidate(k)}
    <3>1. after = IF Candidate(next) THEN ntfs \cup {next} ELSE ntfs
      BY <2>1, <2>5
    <3>2. /\ windows = None => ntfs = {}
          /\ windows # None => windows \in ntfs /\ \A k \in ntfs :
               parts[k].len <= parts[windows].len /\ (k < windows => parts[k].len < parts[windows].len)
      BY <1>1 DEF LargestBelow
    <3>3. /\ windows' = None => after = {}
          /\ windows' # None => windows' \in after /\ \A k \in after :
               parts[k].len <= parts[windows'].len /\ (k < windows' => parts[k].len < parts[windows'].len)
      <4>0. \A k \in ntfs : k \in DOMAIN parts /\ k < next
        OBVIOUS
      <4> HIDE DEF ntfs, after
      <4>1. CASE takes
        <5>1. windows' = next /\ next \in after /\ next # None /\ after = ntfs \cup {next}
          BY <2>1, <2>6, <3>1, <4>1
        <5>2. \A k \in ntfs : parts[k].len < parts[next].len
          <6>1. CASE windows = None
            BY <3>2, <6>1
          <6>2. CASE windows # None
            <7>1. parts[next].len > parts[windows].len /\ windows \in DOMAIN parts
              BY <1>2, <4>1, <6>2 DEF Larger
            <7> QED BY <1>2, <2>1, <3>2, <4>0, <6>2, <7>1
          <6> QED BY <6>1, <6>2
        <5>3. \A k \in after : parts[k].len <= parts[next].len /\ (k < next => parts[k].len < parts[next].len)
          BY <1>2, <2>1, <4>0, <5>1, <5>2
        <5> QED BY <5>1, <5>3
      <4>2. CASE ~takes /\ Candidate(next)
        <5>1. /\ windows' = windows /\ windows # None /\ after = ntfs \cup {next}
              /\ ~(parts[next].len > parts[windows].len)
          BY <2>1, <3>1, <4>2 DEF Larger
        <5>2. windows \in ntfs /\ windows \in DOMAIN parts /\ windows < next
          BY <3>2, <4>0, <5>1
        <5>3. parts[next].len <= parts[windows].len /\ ~(next < windows)
          BY <1>2, <2>1, <5>1, <5>2
        <5> QED BY <3>2, <5>1, <5>2, <5>3
      <4>3. CASE ~takes /\ ~Candidate(next)
        BY <2>1, <3>1, <3>2, <4>3
      <4> QED BY <4>1, <4>2, <4>3
    <3>4. \A k \in DOMAIN parts : Candidate(k)' <=> Candidate(k)
      BY <1>1 DEF Candidate, FsOf, Sniff
    <3> HIDE DEF takes
    <3>5. after = {k \in DOMAIN parts' : k < next' /\ Candidate(k)'}
      BY <1>1, <3>4
    <3> HIDE DEF after
    <3> QED BY <1>1, <3>3, <3>5 DEF LargestBelow
  <2>8. WindowsInv'
    BY <1>1, <2>1, <2>7 DEF WindowsInv, Written, OnRunning
  <2>9. IdentityInv' /\ TableInv'
    BY <1>1, <2>1 DEF IdentityInv, TableInv, Written
  <2> QED BY <2>3, <2>4, <2>8, <2>9 DEF IInv
<1> QED BY <1>3, <1>4

\* The source is decided on, and with it Windows.
LEMMA DecidedFrame ==
  ASSUME IInv, step \in {"identity"} \cup Written, step' \in Written,
         UNCHANGED <<source, newIds, parts, windows>>
  PROVE  PartsInv' /\ SniffInv' /\ WindowsInv'
<1>1. PartsInv' /\ SniffInv'
  BY SniffedFrame DEF Checked, Written
<1>2. WindowsInv'
  BY DEF IInv, WindowsInv, Written, OnRunning, LargestBelow, Candidate, FsOf, Sniff
<1> QED BY <1>1, <1>2

\* Without GUIDs there is no plan.
LEMMA NoIdentityKeeps ==
  ASSUME IInv, ChooseIdentity, Refuse
  PROVE  IInv'
<1>1. /\ step = "identity" /\ step' = "refused" /\ TypeOK
      /\ UNCHANGED <<source, newIds, attempt, room, parts, next, windows, table, diskId, ids>>
  BY DEF ChooseIdentity, Refuse, Do, IInv
<1>2. TypeOK'
  BY <1>1 DEF TypeOK
<1>3. PartsInv' /\ SniffInv'
  BY <1>1, SniffedFrame DEF Checked, Written
<1>4. WindowsInv' /\ IdentityInv' /\ TableInv'
  BY <1>1 DEF IInv, WindowsInv, IdentityInv, TableInv, Written
<1> QED BY <1>2, <1>3, <1>4 DEF IInv

\* The clone gets its own GUIDs or signature, or those of the source.
LEMMA ChooseIdentityKeeps ==
  ASSUME IInv, ChooseIdentity, ~Refuse
  PROVE  IInv'
<1>1. /\ step = "identity" /\ step' = "write" /\ TypeOK
      /\ UNCHANGED <<source, newIds, attempt, room, parts, next, windows, table>>
  BY DEF ChooseIdentity, Do, IInv
<1>2. /\ source.style \in {"gpt", "mbr"} /\ source.diskId \in Nat
      /\ parts \in Seq(Entries) /\ Len(parts) \in Nat /\ DOMAIN parts = 1..Len(parts)
      /\ \A k \in DOMAIN parts : parts[k].id \in Nat
  <2>1. source.diskId \in 0..(FreshGuid - 1)
    BY <1>1 DEF TypeOK, IsSource
  <2>2. source.diskId \in Nat
    BY <2>1, BoundAssumption
  <2> QED BY <1>1, <2>2, PlanFacts
<1>3. /\ newIds => /\ ids' = [k \in DOMAIN parts |-> NewGuid(k)]
                   /\ source.style = "gpt" => diskId' = NewGuid(0)
                   /\ source.style = "mbr" => \E s \in Signatures : diskId' = Signature(s)
      /\ ~newIds => ids' = [k \in DOMAIN parts |-> parts[k].id] /\ diskId' = source.diskId
  BY <1>2 DEF ChooseIdentity
<1>4. /\ \A s \in Signatures : Signature(s) \in Nat /\ Signature(s) # 0
      /\ \A k \in {0} \cup DOMAIN parts : NewGuid(k) \in Nat
  BY <1>2, BoundAssumption DEF Signature, NewGuid
<1>5. newIds \in BOOLEAN
  BY <1>1 DEF TypeOK
<1>6. ids' \in Seq(Nat) /\ Len(ids') = Len(parts)
  <2>1. CASE newIds
    <3>1. ids' = [k \in 1..Len(parts) |-> NewGuid(k)] /\ \A k \in 1..Len(parts) : NewGuid(k) \in Nat
      BY <1>2, <1>3, <1>4, <2>1
    <3>2. ids' \in [1..Len(parts) -> Nat]
      BY <3>1
    <3> QED BY <1>2, <3>2
  <2>2. CASE ~newIds
    <3>1. ids' = [k \in 1..Len(parts) |-> parts[k].id] /\ \A k \in 1..Len(parts) : parts[k].id \in Nat
      BY <1>2, <1>3, <2>2
    <3>2. ids' \in [1..Len(parts) -> Nat]
      BY <3>1
    <3> QED BY <1>2, <3>2
  <2> QED BY <2>1, <2>2
<1>7. diskId' \in Nat
  BY <1>2, <1>3, <1>4, <1>5
<1>8. TypeOK'
  BY <1>1, <1>6, <1>7 DEF TypeOK
<1>9. IdentityInv'
  <2>1. newIds => /\ \A k \in DOMAIN parts : ids'[k] = NewGuid(k)
                  /\ source.style = "gpt" => diskId' = NewGuid(0)
                  /\ source.style = "mbr" => diskId' # 0
    BY <1>3, <1>4
  <2>2. ~newIds => diskId' = source.diskId /\ \A k \in DOMAIN parts : ids'[k] = parts[k].id
    BY <1>3
  <2> QED BY <1>1, <1>6, <2>1, <2>2 DEF IdentityInv, Written, NewGuid
<1>10. PartsInv' /\ SniffInv' /\ WindowsInv'
  BY <1>1, DecidedFrame DEF Written
<1>11. TableInv'
  BY <1>1 DEF TableInv
<1> QED BY <1>8, <1>9, <1>10, <1>11 DEF IInv

\* The buffer has the partitions, and on an MBR unused entries up to a multiple
\* of four.
LEMMA BufferFacts ==
  ASSUME TypeOK, Len(ids) = Len(parts)
  PROVE  /\ LayoutBuffer \in Seq(Entries)
         /\ Emitted \in Nat /\ Len(LayoutBuffer) = Emitted /\ Len(parts) <= Emitted
         /\ source.style = "mbr" => Emitted % 4 = 0 /\ (Len(parts) <= 4 => Emitted <= 4)
         /\ source.style = "gpt" => Emitted = Len(parts)
         /\ \A k \in 1..Len(parts) :
              /\ LayoutBuffer[k] = Entry(k) /\ Entry(k) \in Entries
              /\ Entry(k).off = parts[k].off /\ Entry(k).len = parts[k].len
              /\ Entry(k).type = parts[k].type
              /\ [Entry(k) EXCEPT !.id = 0] = [parts[k] EXCEPT !.id = 0]
              /\ source.style = "gpt" => Entry(k).id = ids[k]
         /\ \A k \in 1..Emitted : k \notin 1..Len(parts) => LayoutBuffer[k] = Unused
<1>1. /\ source.style \in {"gpt", "mbr"} /\ Len(parts) \in Nat /\ DOMAIN parts = 1..Len(parts)
      /\ \A k \in DOMAIN parts : parts[k] \in Entries
  BY PlanFacts
<1>2. \A k \in 1..Len(parts) : ids[k] \in Nat
  BY <1>1 DEF TypeOK
<1>3. /\ Emitted \in Nat /\ Len(parts) <= Emitted
      /\ source.style = "mbr" => Emitted % 4 = 0 /\ (Len(parts) <= 4 => Emitted <= 4)
      /\ source.style = "gpt" => Emitted = Len(parts)
  <2> DEFINE n == Len(parts)
  <2>1. n \in Nat
    BY <1>1
  <2> HIDE DEF n
  <2>2. /\ ((n + 3) \div 4) * 4 \in Nat /\ n <= ((n + 3) \div 4) * 4
        /\ (((n + 3) \div 4) * 4) % 4 = 0
        /\ n <= 4 => ((n + 3) \div 4) * 4 <= 4
    BY <2>1
  <2>3. /\ source.style = "mbr" => Emitted = ((n + 3) \div 4) * 4
        /\ source.style = "gpt" => Emitted = n
    BY DEF Emitted, n
  <2>4. n <= n
    BY <2>1
  <2>5. /\ Emitted \in Nat /\ n <= Emitted
        /\ source.style = "mbr" => Emitted % 4 = 0 /\ (n <= 4 => Emitted <= 4)
        /\ source.style = "gpt" => Emitted = n
    <3>1. CASE source.style = "mbr"
      <4>1. Emitted = ((n + 3) \div 4) * 4
        BY <2>3, <3>1
      <4> QED BY <2>2, <3>1, <4>1
    <3>2. CASE source.style = "gpt"
      <4>1. Emitted = n
        BY <2>3, <3>2
      <4> QED BY <2>1, <2>4, <3>2, <4>1
    <3> QED BY <1>1, <3>1, <3>2
  <2> QED BY <2>5 DEF n
<1>4. ASSUME NEW k \in 1..Len(parts)
      PROVE  /\ Entry(k) \in Entries
             /\ Entry(k).off = parts[k].off /\ Entry(k).len = parts[k].len
             /\ Entry(k).type = parts[k].type
             /\ [Entry(k) EXCEPT !.id = 0] = [parts[k] EXCEPT !.id = 0]
             /\ source.style = "gpt" => Entry(k).id = ids[k]
  <2>1. parts[k] \in Entries /\ ids[k] \in Nat
    BY <1>1, <1>2
  <2> DEFINE id == IF source.style = "gpt" THEN ids[k] ELSE 0
             e  == parts[k]
  <2>2. Entry(k) = [e EXCEPT !.id = id] /\ id \in Nat
    BY <2>1 DEF Entry
  <2> HIDE DEF id, e
  <2>3. e \in Entries
    BY <2>1 DEF e
  <2>4. Entry(k) \in Entries /\ Entry(k).id = id
    BY <2>2, <2>3 DEF Entries
  <2>5. Entry(k).off = e.off /\ Entry(k).len = e.len /\ Entry(k).type = e.type
    BY <2>2, <2>3 DEF Entries
  <2>6. [Entry(k) EXCEPT !.id = 0] = [e EXCEPT !.id = 0]
    BY <2>2, <2>3 DEF Entries
  <2> QED BY <2>4, <2>5, <2>6 DEF id, e
<1>5. Unused \in Entries
  BY DEF Unused, Empty, Entries, MbrTypes
<1>6. LayoutBuffer = [k \in 1..Emitted |-> IF k \in 1..Len(parts) THEN Entry(k) ELSE Unused]
  BY <1>1 DEF LayoutBuffer
<1>7. LayoutBuffer \in [1..Emitted -> Entries]
  BY <1>4, <1>5, <1>6
<1>8. LayoutBuffer \in Seq(Entries) /\ Len(LayoutBuffer) = Emitted
  BY <1>3, <1>7
<1>9. \A k \in 1..Len(parts) : k \in 1..Emitted
  BY <1>1, <1>3
<1> QED BY <1>3, <1>4, <1>6, <1>8, <1>9

\* The table becomes the buffer, or stays as it was.
LEMMA SetDriveLayoutKeeps ==
  ASSUME IInv, SetDriveLayout
  PROVE  IInv'
<1>1. /\ step = "write" /\ TypeOK /\ Len(ids) = Len(parts)
      /\ \/ step' = "written" /\ table' = LayoutBuffer
         \/ step' = "rejected" /\ table' = table /\ ~Accepts(LayoutBuffer)
      /\ UNCHANGED <<source, newIds, attempt, room, parts, next, diskId, ids, windows>>
  BY DEF SetDriveLayout, Do, IInv, IdentityInv, Written
<1>2. TypeOK'
  <2>1. table' \in Seq(Entries)
    BY <1>1, BufferFacts DEF TypeOK
  <2> QED BY <1>1, <2>1 DEF TypeOK
<1>3. PartsInv' /\ SniffInv' /\ WindowsInv'
  BY <1>1, DecidedFrame DEF Written
<1>4. IdentityInv'
  BY <1>1 DEF IInv, IdentityInv, Written, NewGuid
<1>5. TableInv'
  BY <1>1 DEF TableInv, LayoutBuffer, Accepts, Emitted, Entry, Unused, Empty
<1> QED BY <1>2, <1>3, <1>4, <1>5 DEF IInv
-----------------------------------------------------------------------------
(* What the written table says *)

\* An MBR plan has no more partitions than the primary table has slots.
LEMMA PrimaryOnly ==
  ASSUME IInv, step \in Checked, source.style = "mbr"
  PROVE  Len(parts) <= 4
<1>1. /\ IsSource(source) /\ "extended" \notin TypesSeen
      /\ Len(parts) \in Nat /\ Len(parts) <= Len(source.slots) /\ Len(source.slots) \in Nat
      /\ {parts[k] : k \in DOMAIN parts} = {source.slots[k] : k \in Slots(source)}
  BY CheckedFacts, PlanFacts DEF IInv, TypeOK, PartsInv
<1>2. CASE Len(source.slots) <= 4
  BY <1>1, <1>2
<1>3. CASE Len(source.slots) > 4
  <2>1. PICK k \in 1..4 : source.slots[k].type = "extended" /\ source.slots[k].len > 0
    BY <1>1, <1>3 DEF IsSource
  <2>2. k \in DOMAIN source.slots
    <3>1. source.slots \in Seq(Entries)
      BY <1>1 DEF IsSource
    <3> QED BY <1>1, <1>3, <3>1
  <2>3. k \in Slots(source)
    BY <2>1, <2>2 DEF Slots, IsPartition, Occupied
  <2>4. PICK j \in DOMAIN parts : parts[j] = source.slots[k]
    BY <1>1, <2>3
  <2> QED BY <1>1, <2>1, <2>4 DEF TypesSeen
<1> QED BY <1>1, <1>2, <1>3

\* Who reads the table that was written finds the entries of the plan.
LEMMA ReadBack ==
  ASSUME IInv, step = "written"
  PROVE  LET found == Partitions(source.style, table)
         IN  /\ Len(found) = Len(parts) /\ DOMAIN found = DOMAIN parts
             /\ \A k \in DOMAIN parts : found[k] = Entry(k)
<1> DEFINE n     == Len(parts)
           list  == [k \in 1..n |-> Entry(k)]
           found == PartitionsIn(source.style, table)
<1>1. /\ TypeOK /\ Len(ids) = Len(parts) /\ table = LayoutBuffer /\ step \in Checked
      /\ n \in Nat /\ DOMAIN parts = 1..n /\ source.style \in {"gpt", "mbr"}
  BY PlanFacts DEF IInv, IdentityInv, TableInv, Written, Checked
<1>2. /\ Emitted \in Nat /\ n <= Emitted /\ DOMAIN table = 1..Emitted
      /\ source.style = "gpt" => Emitted = n
      /\ \A k \in 1..n : table[k] = Entry(k)
      /\ \A k \in 1..Emitted : k \notin 1..n => table[k] = Unused
  <2>1. /\ Emitted \in Nat /\ Len(parts) <= Emitted /\ Len(LayoutBuffer) = Emitted
        /\ LayoutBuffer \in Seq(Entries)
        /\ source.style = "gpt" => Emitted = Len(parts)
    BY <1>1, BufferFacts
  <2>2. \A k \in 1..Len(parts) : LayoutBuffer[k] = Entry(k)
    BY <1>1, BufferFacts
  <2>3. \A k \in 1..Emitted : k \notin 1..Len(parts) => LayoutBuffer[k] = Unused
    BY <1>1, BufferFacts
  <2>4. DOMAIN LayoutBuffer = 1..Emitted
    BY DEF LayoutBuffer
  <2> QED BY <1>1, <2>1, <2>2, <2>3, <2>4
<1>3. \A k \in 1..n : /\ Entry(k).off = parts[k].off /\ Entry(k).len = parts[k].len
                      /\ Entry(k).type = parts[k].type
  BY <1>1, BufferFacts
<1>4. /\ \A k, l \in 1..n : k < l => parts[k].off < parts[l].off
      /\ \A k \in 1..n : parts[k].off \in Nat /\ IsPartition(source.style, parts[k])
  BY <1>1, CheckedFacts, PlanFacts
<1> HIDE DEF n
<1>5. \A k \in 1..n : IsPartition(source.style, Entry(k))
  BY <1>3, <1>4 DEF IsPartition, Occupied
<1>6. source.style = "mbr" => ~IsPartition(source.style, Unused)
  BY DEF IsPartition, Occupied, Unused, Empty
<1>7. found = {list[k] : k \in 1..n}
  <2>1. {l \in DOMAIN table : IsPartition(source.style, table[l])} = 1..n
    <3>1. \A l \in 1..n : l \in 1..Emitted
      BY <1>1, <1>2
    <3>2. \A l \in 1..Emitted : l \notin 1..n => source.style = "mbr"
      BY <1>1, <1>2
    <3> QED BY <1>2, <1>5, <1>6, <3>1, <3>2
  <2> QED BY <1>2, <2>1 DEF PartitionsIn
<1>8. /\ \A k \in 1..n : list[k].off \in Nat
      /\ \A k, l \in 1..n : k < l => list[k].off < list[l].off
  BY <1>3, <1>4
<1> HIDE DEF list, found
<1>9. Apart(found) /\ Cardinality(found) = n /\ \A k \in 1..n : Sorted(found)[k] = list[k]
  BY <1>1, <1>7, <1>8, OrderIsSorted, SMTT(30)
<1>10. Len(Sorted(found)) = n /\ DOMAIN Sorted(found) = 1..n
  BY <1>9, SortedFacts
<1>11. Partitions(source.style, table) = Sorted(found)
  BY DEF Partitions, found
<1> QED BY <1>1, <1>9, <1>10, <1>11 DEF list, n
-----------------------------------------------------------------------------
(* Theorems *)

\* The invariant holds for every disk IsSource admits.
THEOREM Invariance == Spec => []IInv
<1>1. IInv /\ [Next]_vars => IInv'
  <2> SUFFICES ASSUME IInv, [Next]_vars PROVE IInv'
    OBVIOUS
  <2>1. CASE UNCHANGED vars
    <3> USE <2>1 DEF vars, IInv
    <3>1. TypeOK'
      BY DEF TypeOK
    <3>2. PartsInv' /\ IdentityInv'
      BY DEF PartsInv, TypesSeen, IdentityInv, NewGuid
    <3>3. SniffInv'
      BY DEF SniffInv, FsOf, Sniff
    <3>4. WindowsInv'
      BY DEF WindowsInv, LargestBelow, OnRunning, Candidate, FsOf, Sniff
    <3>5. TableInv'
      BY DEF TableInv, LayoutBuffer, Accepts, Emitted, Entry
    <3> QED BY <3>1, <3>2, <3>3, <3>4, <3>5
  <2>2. CASE Next
    BY <2>2, QueryLayoutKeeps, CheckTableKeeps, SniffNextKeeps, IdentifyRunningKeeps,
       CompareNextKeeps, ChooseIdentityKeeps, NoIdentityKeeps, SetDriveLayoutKeeps DEF Next
  <2> QED BY <2>1, <2>2
<1> QED BY <1>1, InitHolds, PTL DEF Spec

\* QueryLayout and BuildClonePlan lose no partition and put them in the order of
\* the disk, in whatever slots they were.
THEOREM PlanIsTheSource == Spec => []SameTable
<1>1. IInv => SameTable
  <2> SUFFICES ASSUME IInv PROVE SameTable
    OBVIOUS
  <2>1. ASSUME Planned PROVE NothingLost
    <3>1. step \in {"check"} \cup Checked
      BY <2>1 DEF Planned, Checked, Written
    <3>2. /\ {parts[k] : k \in DOMAIN parts} = {source.slots[k] : k \in Slots(source)}
          /\ \A k, l \in DOMAIN parts : k < l => parts[k].off < parts[l].off
      BY <3>1, CheckedFacts
    <3>3. {source.slots[k] : k \in Slots(source)} = {e \in Used(source.slots) : e.len > 0}
      BY DEF Slots, Used, IsPartition
    <3> QED BY <3>2, <3>3 DEF NothingLost
  <2> QED BY <2>1 DEF IInv, SameTable, NothingLost
<1> QED BY <1>1, Invariance, PTL

\* SniffFilesystem stops the plan at every partition of BitLocker it can read.
THEOREM BitLockerIsRefused == Spec => []NoBitLocker
<1>1. IInv => NoBitLocker
  BY DEF IInv, SniffInv, NoBitLocker, Planned, Checked, Written, FsOf, Sniff
<1> QED BY <1>1, Invariance, PTL

\* FindWindowsPartition finds the running Windows, or the first of the largest
\* candidates, and --new-ids is refused without one.
THEOREM WindowsIsFound == Spec => []WindowsIdentified
<1>1. IInv => WindowsIdentified
  <2> SUFFICES ASSUME IInv, Planned PROVE WindowsIdentified
    BY DEF WindowsIdentified
  <2> DEFINE ntfs == {k \in DOMAIN parts : Candidate(k)}
             best == {k \in ntfs : \A l \in ntfs : parts[l].len <= parts[k].len}
  <2>1. /\ step \in Checked /\ newIds => windows # None
        /\ \/ windows \in DOMAIN parts /\ OnRunning(windows)
           \/ (\A k \in DOMAIN parts : ~OnRunning(k)) /\ LargestBelow(Len(parts) + 1)
        /\ newIds => windows # None
    BY DEF IInv, WindowsInv, Planned, Written
  <2>2. /\ IsSource(source) /\ step \in Checked /\ DOMAIN parts = 1..Len(parts) /\ Len(parts) \in Nat
        /\ \A k \in DOMAIN parts : parts[k].len \in Nat
    BY PlanFacts DEF IInv, TypeOK, Planned, Checked, Written
  <2>3. source.system \in source.volumes => \E k \in DOMAIN parts : OnRunning(k)
    <3> SUFFICES ASSUME source.system \in source.volumes PROVE \E k \in DOMAIN parts : OnRunning(k)
      OBVIOUS
    <3>1. source.system # None
      <4>1. source.system \in DOMAIN source.fs
        BY <2>2 DEF IsSource
      <4>2. PICK k \in DOMAIN source.slots : source.system = source.slots[k].off
        BY <2>2, <4>1 DEF IsSource
      <4>3. source.slots[k] \in Entries
        BY <2>2, <4>2 DEF IsSource
      <4> QED BY <4>2, <4>3 DEF Entries, None
    <3>2. PICK l \in Slots(source) : source.slots[l].off = source.system
      BY <2>2, <3>1 DEF IsSource, Slots
    <3>3. {parts[k] : k \in DOMAIN parts} = {source.slots[k] : k \in Slots(source)}
      BY <2>2, CheckedFacts
    <3>4. PICK k \in DOMAIN parts : parts[k] = source.slots[l]
      BY <3>2, <3>3
    <3> QED BY <3>2, <3>4 DEF OnRunning
  <2>4. None \notin DOMAIN parts
    BY <2>2 DEF None
  <2>5. source.system \notin source.volumes => LargestBelow(Len(parts) + 1)
    BY <2>1 DEF OnRunning
  <2>6. {k \in DOMAIN parts : k < Len(parts) + 1 /\ Candidate(k)} = ntfs
    BY <2>2
  <2>7. LargestBelow(Len(parts) + 1) =>
          /\ windows = None => ntfs = {}
          /\ windows # None => windows \in ntfs /\ \A k \in ntfs :
               parts[k].len <= parts[windows].len /\ (k < windows => parts[k].len < parts[windows].len)
    BY <2>6 DEF LargestBelow
  <2>8. \A k \in ntfs : k \in DOMAIN parts
    OBVIOUS
  <2>9. \A k : k \in best <=> k \in ntfs /\ \A l \in ntfs : parts[l].len <= parts[k].len
    OBVIOUS
  <2> HIDE DEF ntfs, best
  <2>10. source.system \in source.volumes => windows # None /\ parts[windows].off = source.system
    BY <2>1, <2>3, <2>4 DEF OnRunning
  <2>11. source.system \notin source.volumes /\ windows # None =>
           windows \in best /\ \A k \in best : windows <= k
    <3> SUFFICES ASSUME source.system \notin source.volumes, windows # None
                 PROVE  windows \in best /\ \A k \in best : windows <= k
      OBVIOUS
    <3>1. windows \in best
      BY <2>5, <2>7, <2>9
    <3>2. ASSUME NEW k \in best, k < windows PROVE FALSE
      <4>1. k \in ntfs /\ windows \in ntfs
        BY <2>9, <3>1, <3>2
      <4>2. parts[windows].len <= parts[k].len /\ parts[k].len < parts[windows].len
        BY <2>5, <2>7, <2>9, <3>2, <4>1
      <4> QED BY <2>2, <2>8, <4>1, <4>2
    <3>3. \A k \in best : k \in 1..Len(parts) /\ windows \in 1..Len(parts)
      BY <2>2, <2>8, <2>9, <3>1
    <3> QED BY <2>2, <3>1, <3>2, <3>3
  <2>12. windows = None => ntfs = {}
    BY <2>1, <2>4, <2>7
  <2> QED BY <2>1, <2>10, <2>11, <2>12 DEF WindowsIdentified, ntfs, best
<1> QED BY <1>1, Invariance, PTL

\* A byte offset on a sector boundary below 2^32 sectors survives its way
\* through the 32 bits of HiddenSectors.
LEMMA SectorsFit ==
  ASSUME NEW o \in Nat, o < DWord * SectorSize, o % SectorSize = 0
  PROVE  ((o \div SectorSize) % DWord) * SectorSize = o
<1> DEFINE q == o \div SectorSize
<1>1. /\ SectorSize \in Int /\ SectorSize > 0 /\ DWord \in Int /\ DWord > 0 /\ o \in Int
      /\ DWord * SectorSize = SectorSize * DWord
  BY BoundAssumption
<1>2. q \in Int /\ o = SectorSize * q
  BY <1>1
<1> HIDE DEF q
<1>3. q >= 0 /\ q < DWord
  <2>1. CASE q < 0
    <3>1. SectorSize * q < 0
      BY <1>1, <1>2, <2>1
    <3> QED BY <1>2, <3>1
  <2>2. CASE q >= DWord
    <3>1. SectorSize * q >= SectorSize * DWord
      BY <1>1, <1>2, <2>2
    <3> QED BY <1>1, <1>2, <3>1
  <2> QED BY <1>1, <1>2, <2>1, <2>2
<1>4. q % DWord = q
  BY <1>1, <1>2, <1>3
<1>5. q * SectorSize = SectorSize * q
  BY <1>1, <1>2
<1> QED BY <1>2, <1>4, <1>5 DEF q

\* An MBR can say where each of its partitions begins.
LEMMA PlanIsAddressable ==
  ASSUME IInv, step \in Checked, source.style = "mbr"
  PROVE  \A k \in DOMAIN parts : HiddenSectors(k) * SectorSize = parts[k].off
<1> SUFFICES ASSUME NEW k \in DOMAIN parts PROVE HiddenSectors(k) * SectorSize = parts[k].off
  OBVIOUS
<1>1. {parts[j] : j \in DOMAIN parts} = {source.slots[j] : j \in Slots(source)}
  BY CheckedFacts
<1>2. PICK j \in Slots(source) : parts[k] = source.slots[j]
  BY <1>1
<1>3. IsSource(source) /\ j \in DOMAIN source.slots
  BY DEF IInv, TypeOK, Slots
<1>4. parts[k].off < DWord * SectorSize /\ parts[k].off % SectorSize = 0
  BY <1>2, <1>3 DEF IsSource
<1>5. parts[k].off \in Nat
  BY PlanFacts DEF IInv
<1> QED BY <1>4, <1>5, SectorsFit DEF HiddenSectors

\* Padding an MBR to a multiple of four adds no entry that is in use, and the
\* plan has no partition beyond the primary four: the driver takes the table of
\* every plan that BuildClonePlan makes but a GPT that is too long, and gives
\* the plan back to whoever reads it.
THEOREM TableIsAccepted == Spec => []TableAccepted
<1>1. ASSUME IInv, step = "rejected"
      PROVE  source.style = "gpt" /\ Len(parts) > MaxPartitions
  <2>1. /\ TypeOK /\ Len(ids) = Len(parts) /\ step \in Checked /\ ~Accepts(LayoutBuffer)
        /\ source.style \in {"gpt", "mbr"} /\ Len(parts) \in Nat
    BY <1>1, PlanFacts DEF IInv, IdentityInv, TableInv, Checked, Written
  <2>2. /\ Emitted \in Nat /\ Len(LayoutBuffer) = Emitted
        /\ source.style = "mbr" => Emitted % 4 = 0 /\ (Len(parts) <= 4 => Emitted <= 4)
        /\ source.style = "gpt" => Emitted = Len(parts)
    BY <2>1, BufferFacts
  <2>3. source.style = "gpt"
    <3> SUFFICES ASSUME source.style # "gpt" PROVE FALSE
      OBVIOUS
    <3>1. source.style = "mbr"
      BY <2>1
    <3>2. Emitted % 4 = 0 /\ Emitted <= 4
      BY <1>1, <2>1, <2>2, <3>1, PrimaryOnly
    <3>3. \A k \in 5..Len(LayoutBuffer) : FALSE
      BY <2>2, <3>2
    <3> QED BY <2>1, <2>2, <3>1, <3>2, <3>3 DEF Accepts
  <2>4. Len(parts) > MaxPartitions
    BY <2>1, <2>2, <2>3, BoundAssumption DEF Accepts
  <2> QED BY <2>3, <2>4
<1>2. ASSUME IInv, step = "written"
      PROVE  LET found == Partitions(source.style, table)
             IN  /\ Len(found) = Len(parts)
                 /\ \A k \in DOMAIN parts :
                      /\ [found[k] EXCEPT !.id = 0] = [parts[k] EXCEPT !.id = 0]
                      /\ source.style = "mbr" => HiddenSectors(k) * SectorSize = found[k].off
  <2> DEFINE found == Partitions(source.style, table)
  <2>1. Len(found) = Len(parts) /\ \A k \in DOMAIN parts : found[k] = Entry(k)
    BY <1>2, ReadBack
  <2> HIDE DEF found
  <2>2. /\ TypeOK /\ Len(ids) = Len(parts) /\ step \in Checked /\ DOMAIN parts = 1..Len(parts)
    BY <1>2, PlanFacts DEF IInv, IdentityInv, Checked, Written
  <2>3. \A k \in DOMAIN parts : /\ Entry(k).off = parts[k].off
                                /\ [Entry(k) EXCEPT !.id = 0] = [parts[k] EXCEPT !.id = 0]
    BY <2>2, BufferFacts
  <2>4. source.style = "mbr" => \A k \in DOMAIN parts : HiddenSectors(k) * SectorSize = parts[k].off
    BY <1>2, <2>2, PlanIsAddressable
  <2>5. \A k \in DOMAIN parts :
          /\ [found[k] EXCEPT !.id = 0] = [parts[k] EXCEPT !.id = 0]
          /\ source.style = "mbr" => HiddenSectors(k) * SectorSize = found[k].off
    BY <2>1, <2>3, <2>4
  <2> QED BY <2>1, <2>5 DEF found
<1>3. IInv => TableAccepted
  BY <1>1, <1>2 DEF TableAccepted, NeverRejected, ReadsBack
<1> QED BY <1>3, Invariance, PTL

\* With --new-ids a GPT clone shares no identity with its source and has none
\* twice, and an MBR clone has a signature; without, all is the source's.
THEOREM IdentityIsAsAsked == Spec => []IdentityAsAsked
<1>1. ASSUME IInv, step = "written" PROVE IdentityAsAsked
  <2> DEFINE found == Partitions(source.style, table)
             n     == Len(parts)
             own   == {diskId} \cup {found[k].id : k \in DOMAIN found}
             old   == {source.diskId} \cup {e.id : e \in Used(source.slots)}
  <2>1. Len(found) = n /\ DOMAIN found = 1..n /\ \A k \in 1..n : found[k] = Entry(k)
    BY <1>1, ReadBack, PlanFacts DEF IInv
  <2>2. /\ TypeOK /\ Len(ids) = n /\ DOMAIN parts = 1..n /\ n \in Nat /\ IsSource(source)
        /\ source.style \in {"gpt", "mbr"} /\ source.slots \in Seq(Entries)
    BY <1>1, PlanFacts DEF IInv, IdentityInv, Written, TypeOK
  <2>3. source.style = "gpt" => \A k \in 1..n : Entry(k).id = ids[k]
    BY <2>2, BufferFacts
  <2>4. source.style = "gpt" => \A k \in 1..n : found[k].id = ids[k]
    BY <2>1, <2>3
  <2>5. /\ newIds => /\ \A k \in 1..n : ids[k] = FreshGuid + k
                     /\ source.style = "gpt" => diskId = FreshGuid + 0
                     /\ source.style = "mbr" => diskId # 0
        /\ ~newIds => /\ \A k \in 1..n : ids[k] = parts[k].id
                      /\ diskId = source.diskId
    BY <1>1, <2>2 DEF IInv, IdentityInv, Written, NewGuid
  <2> HIDE DEF found, n
  <2>6. ASSUME newIds, source.style = "gpt"
        PROVE  own \cap old = {} /\ Cardinality(own) = n + 1
    <3>1. own = FreshGuid..(FreshGuid + n)
      <4>1. FreshGuid \in Nat /\ diskId = FreshGuid
        BY <2>5, <2>6, BoundAssumption
      <4>2. \A k \in 1..n : found[k].id = FreshGuid + k
        BY <2>4, <2>5, <2>6
      <4>3. \A x \in own : x \in FreshGuid..(FreshGuid + n)
        BY <2>1, <2>2, <4>1, <4>2
      <4>4. ASSUME NEW x \in FreshGuid..(FreshGuid + n) PROVE x \in own
        <5>1. CASE x = FreshGuid
          BY <4>1, <5>1
        <5>2. CASE x # FreshGuid
          <6>1. x - FreshGuid \in 1..n /\ x = FreshGuid + (x - FreshGuid)
            BY <2>2, <4>1, <5>2
          <6>2. found[x - FreshGuid].id = x
            BY <4>2, <6>1
          <6> QED BY <2>1, <6>1, <6>2
        <5> QED BY <5>1, <5>2
      <4> QED BY <4>3, <4>4
    <3> HIDE DEF own
    <3>2. Cardinality(own) = n + 1
      <4>1. FreshGuid \in Int /\ FreshGuid + n \in Int /\ FreshGuid <= FreshGuid + n
            /\ (FreshGuid + n) - FreshGuid + 1 = n + 1
        BY <2>2, BoundAssumption
      <4> DEFINE last == FreshGuid + n
      <4>2. FreshGuid <= last => Cardinality(FreshGuid..last) = last - FreshGuid + 1
        <5>1. FreshGuid \in Int /\ last \in Int
          BY <4>1
        <5> HIDE DEF last
        <5>2. Cardinality(FreshGuid..last) = IF FreshGuid > last THEN 0 ELSE last - FreshGuid + 1
          BY <5>1, FS_Interval
        <5> QED BY <5>1, <5>2
      <4> QED BY <3>1, <4>1, <4>2
    <3>3. \A x \in old : x < FreshGuid
      <4>1. source.diskId < FreshGuid
        BY <2>2, BoundAssumption DEF IsSource
      <4>2. \A e \in Used(source.slots) : e.id < FreshGuid
        BY <2>2 DEF Used, IsSource
      <4> QED BY <4>1, <4>2
    <3>4. \A x \in own : ~(x < FreshGuid)
      BY <2>2, <3>1, BoundAssumption
    <3> QED BY <3>2, <3>3, <3>4
  <2>7. newIds /\ source.style # "gpt" => diskId # 0
    BY <2>2, <2>5
  <2>8. ~newIds => diskId = source.diskId
    BY <2>5
  <2>9. ~newIds /\ source.style = "gpt" => \A k \in DOMAIN found : found[k].id = parts[k].id
    BY <2>1, <2>4, <2>5
  <2> HIDE DEF own, old
  <2>10. newIds /\ source.style = "gpt" => own \cap old = {} /\ Cardinality(own) = Len(found) + 1
    BY <2>1, <2>6
  <2> QED BY <2>7, <2>8, <2>9, <2>10 DEF IdentityAsAsked, found, own, old
<1>2. IInv => IdentityAsAsked
  <2>1. ASSUME step # "written" PROVE IdentityAsAsked
    BY <2>1 DEF IdentityAsAsked
  <2> QED BY <1>1, <2>1
<1> QED BY <1>2, Invariance, PTL
=============================================================================
