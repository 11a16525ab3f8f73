------------------------- MODULE ExpandLayoutProofs -------------------------
(***************************************************************************)
(* Proofs about ExpandLayout for any number of partitions, any sizes and   *)
(* any unit.                                                               *)
(***************************************************************************)
EXTENDS ExpandLayout, TLAPS

\* The tuple that abbreviates what a step leaves unchanged.
USE DEF vars

\* What keeps the unsigned cursor from wrapping around: the disk up to the end of
\* Windows is longer than a MiB for each partition behind it, as any Windows is,
\* and the partitions of an MBR disk end below 2 TiB, where the usable space does.
Roomy ==
  \A s \in Sources :
    /\ s.off[s.win] + s.len[s.win] >= (N - s.win) * MiB
    /\ s.gpt \/ s.off[N] + s.len[N] <= Cap

-----------------------------------------------------------------------------
(* The inductive invariant *)

\* The loop has dealt with the partitions above i.
Placed(k) == k > i /\ k > src.win

\* Where the plan has to end: before the GPT reserve and, if it was expanded,
\* where an MBR can still address it.
Limit == IF expand /\ ~src.gpt /\ Cap < size - Reserve THEN Cap ELSE size - Reserve

\* The target is large enough once the size was checked, and the cursor never
\* goes beyond what is usable.
CursorInv ==
  /\ step \in {"loop", "planned"} => SrcEnd(N) + Reserve <= size
  /\ step = "loop" => cursor <= Limit
  /\ step = "size" => i = N

\* The partitions that were placed lie between the cursor and the end of the
\* target, in their order and with their length; the others are where they were.
PlacedInv ==
  step \in {"size", "loop"} =>
    /\ \A k \in Parts : ~Placed(k) => off[k] = src.off[k] /\ len[k] = src.len[k]
    /\ \A k \in Parts : Placed(k) =>
         /\ len[k] = src.len[k] /\ off[k] % MiB = 0
         /\ cursor <= off[k] /\ off[k] + len[k] <= Limit
    /\ \A j, k \in Parts : Placed(j) /\ j < k => off[j] + len[j] <= off[k]

\* Each partition that was placed has cost less than a MiB more than its length,
\* so that there is room for the next one in front of it.
RoomInv ==
  step = "loop" /\ i > src.win => cursor + (N - i + 1) * MiB > SrcEnd(i)

IInv == /\ TypeOK /\ CursorInv /\ PlacedInv /\ RoomInv
        /\ NonOverlapping /\ WithinTarget /\ LengthsKept
-----------------------------------------------------------------------------
(* Rounding and subtraction *)

\* AlignDown rounds down to a multiple of a MiB, by less than one.
LEMMA AlignsDown ==
  ASSUME NEW v \in Nat
  PROVE  /\ AlignDown(v) \in Nat /\ AlignDown(v) <= v /\ v < AlignDown(v) + MiB
         /\ AlignDown(v) % MiB = 0
<1>1. MiB \in Nat \ {0}
  BY UnitAssumption
<1>2. v % MiB \in 0..(MiB - 1)
  BY <1>1
<1>3. v = MiB * (v \div MiB) + (v % MiB) /\ v \div MiB \in Nat
  BY <1>1
<1>4. v % MiB <= v
  BY <1>1, <1>3
<1>5. AlignDown(v) % MiB = 0
  BY <1>1, <1>3 DEF AlignDown
<1> QED BY <1>1, <1>2, <1>4, <1>5 DEF AlignDown

\* Subtraction does not wrap when there is enough to subtract from.
LEMMA NoWrap ==
  ASSUME NEW a \in 0..(Word - 1), NEW b \in 0..a
  PROVE  Minus(a, b) = a - b
BY UnitAssumption DEF Minus

-----------------------------------------------------------------------------
(* The source *)

\* The partitions behind Windows are those after it, and none ends later than
\* the last one.
LEMMA SourceFacts ==
  ASSUME TypeOK
  PROVE  /\ src.off \in [Parts -> Nat] /\ src.len \in [Parts -> Nat \ {0}]
         /\ src.win \in Parts /\ src.gpt \in BOOLEAN /\ N \in Parts
         /\ \A k \in Parts : src.off[k] \in Nat /\ src.len[k] \in Nat \ {0} /\ SrcEnd(k) \in Nat
         /\ \A j, k \in Parts : j < k => SrcEnd(j) <= src.off[k]
         /\ \A k \in Parts : SrcEnd(k) <= SrcEnd(N)
         /\ \A k \in Parts : Trails(k) <=> k > src.win
<1>1. IsLayout(src) /\ N \in Nat \ {0}
  BY SourceAssumption, UnitAssumption DEF TypeOK
<1>2. /\ src.off \in [Parts -> Nat] /\ src.len \in [Parts -> Nat \ {0}]
      /\ src.win \in Parts /\ src.gpt \in BOOLEAN /\ N \in Parts
  BY <1>1 DEF IsLayout, Parts
<1>3. \A k \in Parts : src.off[k] \in Nat /\ src.len[k] \in Nat \ {0} /\ SrcEnd(k) \in Nat
  BY <1>2 DEF SrcEnd
<1>4. \A j, k \in Parts : j < k => SrcEnd(j) <= src.off[k]
  BY <1>1 DEF IsLayout, SrcEnd
<1>5. \A k \in Parts : SrcEnd(k) <= SrcEnd(N)
  <2> TAKE k \in Parts
  <2>1. k = N \/ k < N
    BY <1>1 DEF Parts
  <2>2. k < N => SrcEnd(k) <= src.off[N]
    BY <1>2, <1>4
  <2>3. src.off[N] <= SrcEnd(N)
    BY <1>2, <1>3 DEF SrcEnd
  <2> QED BY <1>2, <1>3, <2>1, <2>2, <2>3
<1>6. \A k \in Parts : Trails(k) <=> k > src.win
  <2> TAKE k \in Parts
  <2> DEFINE w == src.win
  <2>1. w \in Parts /\ w \in Nat /\ k \in Nat
    BY <1>2 DEF Parts
  <2>2. w < k => SrcEnd(w) <= src.off[k]
    BY <1>4, <2>1
  <2>3. k < w => SrcEnd(k) <= src.off[w]
    BY <1>4, <2>1
  <2>4. src.off[w] < SrcEnd(w) /\ src.off[k] < SrcEnd(k)
    BY <1>3, <2>1 DEF SrcEnd
  <2>5. /\ src.off[w] \in Nat /\ src.off[k] \in Nat /\ SrcEnd(w) \in Nat /\ SrcEnd(k) \in Nat
    BY <1>3, <2>1
  <2>6. w < k => src.off[k] > src.off[w]
    BY <2>2, <2>4, <2>5
  <2>7. k < w => ~(src.off[k] > src.off[w])
    BY <2>3, <2>4, <2>5
  <2>8. k = w => ~(src.off[k] > src.off[w])
    BY <2>5
  <2>9. w < k \/ k < w \/ k = w
    BY <2>1
  <2>10. ~(w < k /\ k < w) /\ ~(w < k /\ k = w)
    BY <2>1
  <2>11. k > w <=> w < k
    BY <2>1
  <2> QED BY <2>6, <2>7, <2>8, <2>9, <2>10, <2>11 DEF Trails
<1> QED BY <1>2, <1>3, <1>4, <1>5, <1>6

\* The usable space reaches to the GPT reserve, less than a MiB short of it
\* unless an MBR cannot address it.
LEMMA Usable ==
  ASSUME TypeOK, Roomy, SrcEnd(N) + Reserve <= size
  PROVE  /\ UsableEnd \in Nat /\ UsableEnd <= Limit
         /\ UsableEnd + MiB > SrcEnd(N)
<1>1. /\ size \in Nat /\ SrcEnd(N) \in Nat /\ Reserve \in Nat /\ MiB \in Nat \ {0} /\ Cap \in Nat
      /\ src.gpt \in BOOLEAN
  BY SourceFacts, UnitAssumption, TargetAssumption DEF TypeOK, Reserve
<1>2. size - Reserve \in Nat /\ SrcEnd(N) <= size - Reserve
  BY <1>1
<1> DEFINE end == AlignDown(size - Reserve)
<1>3. end \in Nat /\ end <= size - Reserve /\ size - Reserve < end + MiB
  BY <1>2, AlignsDown
<1>4. ~src.gpt => SrcEnd(N) <= Cap
  BY SourceFacts DEF Roomy, TypeOK, SrcEnd
<1>5. UsableEnd = IF ~src.gpt /\ end > Cap THEN Cap ELSE end
  BY DEF UsableEnd
<1> HIDE DEF end
<1>6. UsableEnd \in Nat /\ UsableEnd <= size - Reserve /\ (~src.gpt => UsableEnd <= Cap)
  BY <1>1, <1>2, <1>3, <1>5
<1>7. UsableEnd <= Limit
  BY <1>6 DEF Limit
<1> QED BY <1>1, <1>2, <1>3, <1>4, <1>5, <1>6, <1>7

\* The limit is a length no greater than the space before the GPT reserve.
LEMMA LimitFacts ==
  ASSUME TypeOK
  PROVE  /\ size \in Nat /\ Reserve \in Nat /\ Limit \in Int /\ Limit <= size - Reserve
         /\ expand /\ ~src.gpt => Limit <= Cap
<1>1. size \in Nat /\ Reserve \in Nat /\ Cap \in Nat
  BY UnitAssumption, TargetAssumption DEF TypeOK, Reserve
<1>2. size - Reserve \in Int /\ size - Reserve <= size - Reserve /\ Cap <= Cap
  BY <1>1
<1>3. Cap < size - Reserve \/ size - Reserve <= Cap
  BY <1>1
<1> DEFINE room == size - Reserve
<1>4. Limit = IF expand /\ ~src.gpt /\ Cap < room THEN Cap ELSE room
  BY DEF Limit
<1> HIDE DEF room
<1>5. room \in Int /\ room <= room /\ (Cap < room \/ room <= Cap)
  BY <1>2, <1>3 DEF room
<1>6. Limit \in Int /\ Limit <= room /\ (expand /\ ~src.gpt => Limit <= Cap)
  BY <1>1, <1>4, <1>5
<1> QED BY <1>1, <1>6 DEF room

\* A layout that ends before the limit is within the target.
LEMMA LimitIsWithin ==
  TypeOK /\ (\A k \in Parts : off[k] + len[k] <= Limit) => WithinTarget
<1> SUFFICES ASSUME TypeOK, \A k \in Parts : off[k] + len[k] <= Limit, NEW k \in Parts
             PROVE  /\ off[k] + len[k] <= size - Reserve
                    /\ expand /\ ~src.gpt => off[k] + len[k] <= Cap
  BY DEF WithinTarget
<1> DEFINE end == off[k] + len[k]
<1>1. end \in Nat /\ end <= Limit
  BY DEF TypeOK
<1>2. size \in Nat /\ Reserve \in Nat /\ Limit \in Int /\ Limit <= size - Reserve
      /\ Cap \in Nat /\ (expand /\ ~src.gpt => Limit <= Cap)
  BY LimitFacts, UnitAssumption
<1> HIDE DEF end
<1>3. end <= size - Reserve /\ (expand /\ ~src.gpt => end <= Cap)
  BY <1>1, <1>2
<1> QED BY <1>3 DEF end
-----------------------------------------------------------------------------
(* Each step preserves the invariant. *)

\* Before the plan is made there is nothing to keep.
LEMMA NotPlanned ==
  TypeOK /\ step # "planned" => NonOverlapping /\ WithinTarget /\ LengthsKept
BY DEF NonOverlapping, WithinTarget, LengthsKept, DataFits, OnlyWindowsGrows, Planned

\* At the start the layout is the source's.
LEMMA InitIInv == Init => IInv
<1> SUFFICES ASSUME Init PROVE IInv
  OBVIOUS
<1>1. IsLayout(src) /\ N \in Nat \ {0}
  BY SourceAssumption, UnitAssumption DEF Init
<1>2. TypeOK
  BY <1>1 DEF Init, TypeOK, IsLayout
<1>3. CursorInv /\ RoomInv
  BY DEF Init, CursorInv, RoomInv
<1>4. \A k \in Parts : ~Placed(k)
  BY <1>1 DEF Init, Placed, Parts
<1>5. PlacedInv
  BY <1>4 DEF Init, PlacedInv
<1>6. NonOverlapping /\ WithinTarget /\ LengthsKept
  BY <1>2, NotPlanned DEF Init
<1> QED BY <1>2, <1>3, <1>5, <1>6 DEF IInv

\* The size check, after which the layout stays the source's or is expanded.
LEMMA CheckSizeKeeps ==
  ASSUME Roomy, IInv, CheckSize
  PROVE  IInv'
<1>1. /\ step = "size" /\ UNCHANGED <<src, size, expand, i, off, len>> /\ i = N
      /\ TypeOK /\ PlacedInv /\ N \in Nat \ {0}
  BY UnitAssumption DEF CheckSize, IInv, CursorInv
<1>2. \A k \in Parts : ~Placed(k) /\ off[k] = src.off[k] /\ len[k] = src.len[k]
  BY <1>1 DEF PlacedInv, Placed, Parts
<1>3. \A k \in Parts : ~Placed(k)'
  BY <1>1 DEF Placed, Parts
<1>4. \A k \in Parts : off'[k] = src'.off[k] /\ len'[k] = src'.len[k]
  BY <1>1, <1>2
<1>5. UNCHANGED <<Reserve, UsableEnd, Limit>> /\ \A k : SrcEnd(k)' = SrcEnd(k)
  BY <1>1 DEF Reserve, UsableEnd, Limit, AlignDown, SrcEnd
<1>6. PlacedInv'
  BY <1>3, <1>4 DEF PlacedInv
<1>7. CASE step' = "refused"
  <2>1. TypeOK'
    BY <1>1, <1>7 DEF CheckSize, TypeOK
  <2>2. (TypeOK /\ step # "planned" => NonOverlapping /\ WithinTarget /\ LengthsKept)'
    BY NotPlanned, PTL
  <2> QED BY <1>1, <1>6, <1>7, <2>1, <2>2 DEF IInv, CursorInv, RoomInv
<1>8. CASE step' # "refused"
  <2>1. /\ SrcEnd(N) + Reserve <= size
        /\ step' = IF expand THEN "loop" ELSE "planned"
        /\ cursor' = IF expand THEN UsableEnd ELSE cursor
    <3>1. ~(size < SrcEnd(N) + Reserve)
      BY <1>8 DEF CheckSize
    <3>2. size \in Nat /\ SrcEnd(N) \in Nat /\ Reserve \in Nat
      BY <1>1, SourceFacts, UnitAssumption, TargetAssumption DEF TypeOK, Reserve
    <3> QED BY <1>8, <3>1, <3>2 DEF CheckSize
  <2>2. /\ UsableEnd \in Nat /\ UsableEnd <= Limit /\ UsableEnd + MiB > SrcEnd(N)
    BY <1>1, <2>1, Usable
  <2>3. TypeOK'
    BY <1>1, <2>1, <2>2 DEF TypeOK
  <2>4. CursorInv'
    BY <1>1, <1>5, <2>1, <2>2 DEF CursorInv
  <2>5. CASE expand
    <3>1. RoomInv'
      <4>1. (N - N + 1) * MiB = MiB
        BY <1>1, UnitAssumption
      <4> QED BY <1>1, <1>5, <2>1, <2>2, <2>5, <4>1 DEF RoomInv
    <3>2. step' = "loop"
      BY <2>1, <2>5
    <3>3. (TypeOK /\ step # "planned" => NonOverlapping /\ WithinTarget /\ LengthsKept)'
      BY NotPlanned, PTL
    <3> QED BY <1>6, <2>3, <2>4, <3>1, <3>2, <3>3 DEF IInv
  <2>6. CASE ~expand
    <3>1. step' = "planned"
      BY <2>1, <2>6
    <3>2. /\ \A k \in Parts : off'[k] + len'[k] = SrcEnd(k) /\ SrcEnd(k) <= SrcEnd(N)
          /\ \A k \in Parts : SrcEnd(k) \in Nat
          /\ \A j, k \in Parts : j < k => SrcEnd(j) <= off'[k]
      BY <1>1, <1>2, SourceFacts DEF SrcEnd
    <3>3. NonOverlapping'
      BY <3>2 DEF NonOverlapping
    <3>4. WithinTarget'
      <4>1. size \in Nat /\ Reserve \in Nat /\ SrcEnd(N) \in Nat
        BY <1>1, SourceFacts, UnitAssumption, TargetAssumption DEF TypeOK, Reserve
      <4>2. \A k \in Parts : SrcEnd(k) <= size - Reserve
        BY <2>1, <3>2, <4>1
      <4> QED BY <1>1, <1>5, <2>6, <3>2, <4>2 DEF WithinTarget
    <3>5. LengthsKept'
      <4>1. \A k \in Parts : src'.len[k] \in Nat
        BY <1>1, SourceFacts
      <4> QED BY <1>4, <2>3, <4>1 DEF LengthsKept, DataFits, OnlyWindowsGrows
    <3>6. RoomInv'
      BY <3>1 DEF RoomInv
    <3> QED BY <1>6, <2>3, <2>4, <3>3, <3>4, <3>5, <3>6 DEF IInv
  <2> QED BY <2>5, <2>6
<1> QED BY <1>7, <1>8

\* Windows and what lies before it stay where they are.
LEMMA SkipKeeps ==
  ASSUME IInv, Skip
  PROVE  IInv'
<1>1. /\ step = "loop" /\ step' = "loop" /\ i \in Parts /\ i <= src.win /\ i' = i - 1
      /\ UNCHANGED <<src, size, expand, cursor, off, len>>
      /\ TypeOK /\ src.win \in Nat
  <2>1. i \in Parts /\ TypeOK
    BY DEF Skip, IInv, TypeOK, Parts
  <2>2. ~(i > src.win) /\ src.win \in Parts
    BY <2>1, SourceFacts DEF Skip
  <2> QED BY <2>1, <2>2 DEF Skip, Previous, Parts
<1>2. \A k \in Parts : Placed(k)' <=> Placed(k)
  BY <1>1 DEF Placed, Parts
<1>3. UNCHANGED <<Reserve, Limit>> /\ \A k : SrcEnd(k)' = SrcEnd(k)
  BY <1>1 DEF Reserve, Limit, SrcEnd
<1>4. TypeOK'
  BY <1>1, UnitAssumption DEF TypeOK, Parts
<1>5. CursorInv'
  BY <1>1, <1>3 DEF IInv, CursorInv
<1>6. PlacedInv'
  BY <1>1, <1>2, <1>3 DEF IInv, PlacedInv
<1>7. RoomInv'
  BY <1>1 DEF RoomInv, Parts
<1>8. (TypeOK /\ step # "planned" => NonOverlapping /\ WithinTarget /\ LengthsKept)'
  BY NotPlanned, PTL
<1> QED BY <1>1, <1>4, <1>5, <1>6, <1>7, <1>8 DEF IInv

\* There is room to place a partition: the cursor does not wrap, and loses less
\* than a MiB to rounding.
LEMMA RoomToPlace ==
  ASSUME Roomy, IInv, step = "loop", i \in Parts, i > src.win
  PROVE  LET start == AlignDown(Minus(cursor, src.len[i]))
         IN  /\ start \in Nat /\ start % MiB = 0 /\ start + src.len[i] <= cursor
             /\ start + (N - i + 2) * MiB > src.off[i]
<1> DEFINE L == src.len[i]
           O == src.off[i]
           K == (N - i + 1) * MiB
           W == (N - src.win) * MiB
<1>1. /\ L \in Nat /\ O \in Nat /\ SrcEnd(i) = O + L /\ src.win \in Parts /\ SrcEnd(src.win) <= O
      /\ SrcEnd(src.win) \in Nat
  BY SourceFacts DEF IInv, SrcEnd
<1>2. cursor \in Nat /\ size \in 0..(Word - 1) /\ size \in Nat /\ Reserve \in Nat
      /\ cursor <= Limit /\ Limit \in Int /\ Limit <= size - Reserve
  BY UnitAssumption, TargetAssumption, LimitFacts DEF IInv, TypeOK, CursorInv
<1>3. cursor \in 0..(Word - 1)
  BY <1>2, UnitAssumption
<1>4. MiB \in Nat \ {0} /\ N \in Nat /\ i \in Nat /\ src.win \in Nat /\ i <= N
  BY <1>1, UnitAssumption DEF Parts
<1>5. K \in Nat /\ W \in Nat /\ K <= W /\ (N - i + 2) * MiB = K + MiB
  <2> DEFINE a == N - i + 1
             c == N - src.win
  <2>1. a \in Nat /\ c \in Nat /\ a <= c /\ N - i + 2 = a + 1
    BY <1>1, <1>4 DEF Parts
  <2>2. a * MiB \in Nat /\ c * MiB \in Nat /\ a * MiB <= c * MiB /\ (a + 1) * MiB = a * MiB + MiB
    <3> HIDE DEF a, c
    <3> QED BY <1>4, <2>1
  <2> QED BY <2>1, <2>2
<1>6. cursor + K > O + L
  BY <1>1 DEF IInv, RoomInv
<1>7. W <= SrcEnd(src.win)
  BY DEF Roomy, IInv, TypeOK, SrcEnd
<1> HIDE DEF L, O, K, W
<1>8. L \in 0..cursor
  BY <1>1, <1>2, <1>5, <1>6, <1>7
<1>9. Minus(cursor, L) = cursor - L /\ cursor - L \in Nat
  BY <1>3, <1>8, NoWrap
<1>10. /\ AlignDown(cursor - L) \in Nat /\ AlignDown(cursor - L) <= cursor - L
       /\ cursor - L < AlignDown(cursor - L) + MiB /\ AlignDown(cursor - L) % MiB = 0
  BY <1>9, AlignsDown
<1> DEFINE start == AlignDown(Minus(cursor, L))
<1>11. start = AlignDown(cursor - L)
  BY <1>9
<1> HIDE DEF start
<1>12. /\ start \in Nat /\ start % MiB = 0 /\ start + L <= cursor
       /\ start + (K + MiB) > O
  BY <1>1, <1>2, <1>4, <1>5, <1>6, <1>9, <1>10, <1>11
<1> QED BY <1>5, <1>12 DEF start, L, O

\* The next partition from the end is placed in front of the others.
LEMMA RelocateKeeps ==
  ASSUME Roomy, IInv, Relocate
  PROVE  IInv'
<1> DEFINE start == AlignDown(Minus(cursor, src.len[i]))
<1>1. /\ step = "loop" /\ step' = "loop" /\ i \in Parts /\ i > src.win /\ i' = i - 1
      /\ cursor' = start /\ off' = [off EXCEPT ![i] = start]
      /\ len' = [len EXCEPT ![i] = src.len[i]]
      /\ UNCHANGED <<src, size, expand>>
      /\ TypeOK /\ src.win \in Parts
  <2>1. i \in Parts /\ TypeOK
    BY DEF Relocate, IInv, TypeOK, Parts
  <2>2. i > src.win /\ src.win \in Parts
    BY <2>1, SourceFacts DEF Relocate
  <2> QED BY <2>1, <2>2 DEF Relocate, Previous
<1>2. /\ start \in Nat /\ start % MiB = 0 /\ start + src.len[i] <= cursor
      /\ start + (N - i + 2) * MiB > src.off[i]
  BY <1>1, RoomToPlace
<1> HIDE DEF start
<1>3. /\ off'[i] = start /\ len'[i] = src.len[i]
      /\ \A k \in Parts \ {i} : off'[k] = off[k] /\ len'[k] = len[k]
  BY <1>1 DEF TypeOK
<1>4. i \in Nat /\ N \in Nat /\ src.win \in Nat /\ i <= N /\ \A k \in Parts : k \in Nat
  BY <1>1, UnitAssumption DEF Parts
<1>5. \A k \in Parts : Placed(k)' <=> Placed(k) \/ k = i
  <2> TAKE k \in Parts
  <2>1. k > i - 1 <=> k > i \/ k = i
    BY <1>4
  <2> QED BY <1>1, <2>1 DEF Placed
<1>6. ~Placed(i)
  BY <1>4 DEF Placed
<1>7. UNCHANGED <<Reserve, Limit>> /\ \A k : SrcEnd(k)' = SrcEnd(k)
  BY <1>1 DEF Reserve, Limit, SrcEnd
<1>8. \A k \in Parts : src.off[k] \in Nat /\ src.len[k] \in Nat
  BY <1>1, SourceFacts
<1>9. TypeOK'
  <2>1. off' \in [Parts -> Nat] /\ len' \in [Parts -> Nat]
    BY <1>1, <1>2, <1>8 DEF TypeOK
  <2>2. i' \in 0..N
    BY <1>1, <1>4 DEF Parts
  <2> QED BY <1>1, <1>2, <2>1, <2>2 DEF TypeOK
<1>10. cursor \in Nat /\ Limit \in Int /\ cursor <= Limit
  BY <1>1, LimitFacts DEF IInv, TypeOK, CursorInv
<1>11. start <= cursor /\ start + src.len[i] <= Limit
  BY <1>2, <1>8, <1>10, <1>1
<1>12. CursorInv'
  <2>1. start <= Limit
    BY <1>2, <1>10, <1>11
  <2> QED BY <1>1, <1>7, <2>1 DEF IInv, CursorInv
<1>13. PlacedInv'
  <2>1. \A k \in Parts : Placed(k) =>
          /\ len[k] = src.len[k] /\ off[k] % MiB = 0
          /\ cursor <= off[k] /\ off[k] + len[k] <= Limit
    BY <1>1 DEF IInv, PlacedInv
  <2>2. ASSUME NEW k \in Parts, ~Placed(k)' PROVE off'[k] = src.off[k] /\ len'[k] = src.len[k]
    BY <1>1, <1>3, <1>5, <2>2 DEF IInv, PlacedInv
  <2>3. ASSUME NEW k \in Parts, Placed(k)'
        PROVE  /\ len'[k] = src.len[k] /\ off'[k] % MiB = 0
               /\ start <= off'[k] /\ off'[k] + len'[k] <= Limit
    <3>1. CASE k = i
      BY <1>2, <1>3, <1>11, <3>1
    <3>2. CASE k # i
      <4>1. Placed(k) /\ off'[k] = off[k] /\ len'[k] = len[k] /\ off[k] \in Nat
        BY <1>1, <1>3, <1>5, <2>3, <3>2 DEF TypeOK
      <4> QED BY <1>2, <1>10, <1>11, <2>1, <4>1
    <3> QED BY <3>1, <3>2
  <2>4. ASSUME NEW j \in Parts, NEW k \in Parts, Placed(j)', j < k
        PROVE  off'[j] + len'[j] <= off'[k]
    <3>1. k # i
      <4>1. (~Placed(j) /\ j # i) \/ j = i \/ j > i
        BY <1>5, <2>4 DEF Placed
      <4> QED BY <1>4, <1>5, <2>4, <4>1 DEF Placed
    <3>2. off'[k] = off[k]
      BY <1>3, <3>1
    <3>3. CASE j = i
      <4>1. k > i /\ k > src.win
        BY <1>1, <1>4, <2>4, <3>3
      <4>2. Placed(k)
        BY <4>1 DEF Placed
      <4>3. cursor <= off[k] /\ off[k] \in Nat
        BY <1>1, <2>1, <4>2 DEF TypeOK
      <4>4. start + src.len[i] <= off[k]
        BY <1>2, <1>8, <1>1, <1>10, <4>3
      <4> QED BY <1>3, <3>2, <3>3, <4>4
    <3>4. CASE j # i
      <4>1. Placed(j)
        BY <1>5, <2>4, <3>4
      <4> QED BY <1>1, <1>3, <2>4, <3>2, <3>4, <4>1 DEF IInv, PlacedInv
    <3> QED BY <3>3, <3>4
  <2> QED BY <1>1, <1>7, <2>2, <2>3, <2>4 DEF PlacedInv
<1>14. RoomInv'
  <2> SUFFICES ASSUME i - 1 > src.win PROVE start + (N - (i - 1) + 1) * MiB > SrcEnd(i - 1)
    BY <1>1, <1>7 DEF RoomInv
  <2>1. i - 1 \in Parts /\ i - 1 < i
    BY <1>1, <1>4 DEF Parts
  <2>2. SrcEnd(i - 1) <= src.off[i] /\ SrcEnd(i - 1) \in Nat
    BY <1>1, <2>1, SourceFacts
  <2> DEFINE K == (N - i + 2) * MiB
  <2>3. K \in Int /\ (N - (i - 1) + 1) * MiB = K
    <3>1. N - (i - 1) + 1 = N - i + 2
      BY <1>4
    <3> QED BY <1>4, <3>1, UnitAssumption
  <2>4. start + K > src.off[i]
    BY <1>2
  <2> HIDE DEF K
  <2>5. start + K > SrcEnd(i - 1)
    BY <1>1, <1>2, <1>8, <2>2, <2>3, <2>4
  <2> QED BY <2>3, <2>5
<1>15. (TypeOK /\ step # "planned" => NonOverlapping /\ WithinTarget /\ LengthsKept)'
  BY NotPlanned, PTL
<1> QED BY <1>1, <1>9, <1>12, <1>13, <1>14, <1>15 DEF IInv

\* Windows takes what is left in front of the partitions that were placed, if it
\* does not have to shrink.
LEMMA GrowKeeps ==
  ASSUME IInv, GrowWindows
  PROVE  IInv'
<1>1. /\ step = "loop" /\ i = 0 /\ UNCHANGED <<src, size, expand, i, cursor, off>>
      /\ TypeOK /\ src.win \in Parts
  BY SourceFacts DEF GrowWindows, IInv
<1>2. \A k \in Parts : (Placed(k) <=> k > src.win) /\ k \in Nat
  BY <1>1 DEF Placed, Parts
<1>3. UNCHANGED <<Reserve, Limit>> /\ \A k : SrcEnd(k)' = SrcEnd(k)
  BY <1>1 DEF Reserve, Limit, SrcEnd
<1>4. (TypeOK /\ step # "planned" => NonOverlapping /\ WithinTarget /\ LengthsKept)'
  BY NotPlanned, PTL
<1>5. CASE step' = "refused"
  <2>1. TypeOK'
    BY <1>1, <1>5 DEF GrowWindows, TypeOK
  <2>2. CursorInv' /\ PlacedInv' /\ RoomInv'
    BY <1>1, <1>3, <1>5 DEF CursorInv, PlacedInv, RoomInv
  <2> QED BY <1>4, <1>5, <2>1, <2>2 DEF IInv
<1>6. CASE step' # "refused"
  <2> DEFINE w == src.win
  <2>1. step' = "planned" /\ cursor >= SrcEnd(w) /\ len' = [len EXCEPT ![w] = cursor - src.off[w]]
    BY <1>6 DEF GrowWindows, Fits, WinEnd
  <2>2. /\ w \in Parts /\ w \in Nat /\ cursor \in Nat
        /\ \A k \in Parts : src.off[k] \in Nat /\ src.len[k] \in Nat /\ SrcEnd(k) = src.off[k] + src.len[k]
        /\ \A j, k \in Parts : j < k => SrcEnd(j) <= src.off[k]
    BY <1>1, <1>2, SourceFacts DEF TypeOK, SrcEnd
  <2>3. /\ \A k \in Parts : ~(k > w) => off[k] = src.off[k] /\ len[k] = src.len[k]
        /\ \A k \in Parts : k > w =>
             /\ len[k] = src.len[k] /\ off[k] % MiB = 0
             /\ cursor <= off[k] /\ off[k] + len[k] <= Limit
        /\ \A j, k \in Parts : j > w /\ j < k => off[j] + len[j] <= off[k]
    BY <1>1, <1>2 DEF IInv, PlacedInv
  <2>4. Limit \in Int /\ cursor <= Limit
    BY <1>1, LimitFacts DEF IInv, CursorInv
  <2>5. \A k \in Parts : off[k] \in Nat /\ len[k] \in Nat
    BY <1>1 DEF TypeOK
  <2> HIDE DEF w
  <2>6. len'[w] = cursor - src.off[w] /\ \A k \in Parts \ {w} : len'[k] = len[k]
    BY <1>1, <2>1, <2>2 DEF TypeOK
  <2>7. len'[w] \in Nat /\ len'[w] >= src.len[w] /\ off[w] + len'[w] = cursor
    <3>1. off[w] = src.off[w]
      BY <2>2, <2>3
    <3> QED BY <2>1, <2>2, <2>6, <3>1
  <2>8. TypeOK'
    <3>1. len' \in [Parts -> Nat]
      BY <1>1, <2>1, <2>2, <2>6, <2>7 DEF TypeOK
    <3> QED BY <1>1, <2>1, <3>1 DEF TypeOK
  <2>9. \A k \in Parts : k < w \/ k = w \/ k > w
    BY <1>2, <2>2
  <2>10. \A k \in Parts : k < w => k # w /\ ~(k > w)
    BY <1>2, <2>2
  <2>11. NonOverlapping'
    <3> SUFFICES ASSUME NEW j \in Parts, NEW k \in Parts, j < k PROVE off[j] + len'[j] <= off[k]
      BY <1>1 DEF NonOverlapping
    <3>1. CASE j < w
      <4>1. off[j] + len'[j] = SrcEnd(j)
        BY <2>2, <2>3, <2>6, <2>10, <3>1
      <4>2. CASE ~(k > w)
        BY <2>2, <2>3, <4>1, <4>2
      <4>3. CASE k > w
        <5>1. SrcEnd(j) <= src.off[w] /\ src.off[w] <= SrcEnd(w)
          BY <2>2, <3>1
        <5>2. cursor <= off[k]
          BY <2>3, <4>3
        <5> QED BY <2>1, <2>2, <2>5, <4>1, <5>1, <5>2
      <4> QED BY <4>2, <4>3
    <3>2. CASE j = w
      BY <1>2, <2>3, <2>7, <3>2
    <3>3. CASE j > w
      <4>1. j # w
        BY <1>2, <2>2, <3>3
      <4> QED BY <2>3, <2>6, <3>3, <4>1
    <3> QED BY <2>9, <3>1, <3>2, <3>3
  <2>12. WithinTarget'
    <3> SUFFICES ASSUME NEW k \in Parts PROVE off[k] + len'[k] <= Limit
      <4> HIDE DEF w
      <4>1. (TypeOK /\ (\A k \in Parts : off[k] + len[k] <= Limit) => WithinTarget)'
        BY LimitIsWithin, PTL
      <4> QED BY <1>1, <1>3, <2>8, <4>1
    <3>1. CASE k < w
      <4>1. off[k] + len'[k] = SrcEnd(k)
        BY <2>2, <2>3, <2>6, <2>10, <3>1
      <4>2. SrcEnd(k) <= src.off[w] /\ src.off[w] <= SrcEnd(w)
        BY <2>2, <3>1
      <4>3. SrcEnd(k) \in Nat /\ SrcEnd(w) \in Nat /\ src.off[w] \in Nat
        BY <2>2, <3>1
      <4>4. SrcEnd(w) <= cursor /\ cursor \in Nat
        BY <1>3, <2>1, <2>2, <2>4
      <4>5. SrcEnd(k) <= Limit
        BY <2>4, <4>2, <4>3, <4>4
      <4> QED BY <4>1, <4>5
    <3>2. CASE k = w
      BY <2>4, <2>7, <3>2
    <3>3. CASE k > w
      <4>1. k # w
        BY <1>2, <2>2, <3>3
      <4> QED BY <2>3, <2>6, <3>3, <4>1
    <3> QED BY <2>9, <3>1, <3>2, <3>3
  <2>13. LengthsKept'
    <3>1. \A k \in Parts : len'[k] >= src.len[k]
      BY <2>2, <2>3, <2>6, <2>7
    <3>2. \A k \in Parts : k # w => len'[k] = src.len[k]
      BY <2>3, <2>6
    <3>3. \A k \in Parts : /\ k <= w => off[k] = src.off[k]
                           /\ off[k] # src.off[k] => off[k] % MiB = 0
      BY <1>2, <2>2, <2>3
    <3> QED BY <1>1, <2>8, <3>1, <3>2, <3>3 DEF LengthsKept, DataFits, OnlyWindowsGrows, w
  <2>14. CursorInv' /\ PlacedInv' /\ RoomInv'
    BY <1>1, <1>3, <2>1 DEF IInv, CursorInv, PlacedInv, RoomInv
  <2> QED BY <2>8, <2>11, <2>12, <2>13, <2>14 DEF IInv
<1> QED BY <1>5, <1>6

\* What every state satisfies.
THEOREM Invariance ==
  ASSUME Roomy
  PROVE  Spec => []IInv
<1>1. IInv /\ UNCHANGED vars => IInv'
  <2> SUFFICES ASSUME IInv, UNCHANGED vars PROVE IInv'
    OBVIOUS
  <2>1. TypeOK' /\ CursorInv' /\ PlacedInv' /\ RoomInv'
    BY DEF IInv, TypeOK, CursorInv, PlacedInv, RoomInv, Placed, SrcEnd, Reserve, Limit
  <2>2. NonOverlapping' /\ WithinTarget'
    BY DEF IInv, NonOverlapping, WithinTarget, Planned, Reserve
  <2>3. LengthsKept'
    BY <2>1 DEF IInv, LengthsKept, DataFits, OnlyWindowsGrows, Planned
  <2> QED BY <2>1, <2>2, <2>3 DEF IInv
<1>2. IInv /\ [Next]_vars => IInv'
  BY <1>1, CheckSizeKeeps, SkipKeeps, RelocateKeeps, GrowKeeps DEF Next
<1> QED BY <1>2, InitIInv, PTL DEF Spec

\* The planned partitions do not overlap, for any number of them and any lengths
\* ("AlignDown keeps every start MiB-aligned and non-overlapping", layout.cpp).
THEOREM PlanDoesNotOverlap ==
  ASSUME Roomy
  PROVE  Spec => []NonOverlapping
<1>1. IInv => NonOverlapping
  BY DEF IInv
<1> QED BY <1>1, Invariance, PTL

\* Nor does any of them end beyond the target or in its GPT reserve; on an MBR
\* disk --expand leaves none to end where it cannot be addressed.
THEOREM PlanIsWithinTarget ==
  ASSUME Roomy
  PROVE  Spec => []WithinTarget
<1>1. IInv => WithinTarget
  BY DEF IInv
<1> QED BY <1>1, Invariance, PTL

\* The data of each partition fits, only Windows grows, and only what lies
\* behind it moves, to a MiB.
THEOREM PlanKeepsLengths ==
  ASSUME Roomy
  PROVE  Spec => []LengthsKept
<1>1. IInv => LengthsKept
  BY DEF IInv
<1> QED BY <1>1, Invariance, PTL
=============================================================================
