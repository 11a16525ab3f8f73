-------------------------- MODULE BitmapCopyProofs --------------------------
(***************************************************************************)
(* Proofs about BitmapCopy for volumes of any size with any allocation and *)
(* for chunks, buffers and gaps of any length.                             *)
(***************************************************************************)
EXTENDS BitmapCopy, SequenceTheorems, TLAPS

\* The tuples that abbreviate what an action leaves unchanged.
USE DEF vars, volVars, mapVars

-----------------------------------------------------------------------------
(* The inductive invariant *)

\* The bitmap is read for an NTFS copy only and before anything is copied.  A
\* chunk begins where the driver lets it begin, and ends there or with the
\* volume.
ChunkInv ==
  /\ strategy = "Raw" => step = "copy" /\ runs = <<>>
  /\ step # "copy" => /\ result # "done" /\ next = 1 /\ span = Span(0, 0)
                      /\ \A s \in DOMAIN image : image[s] = Nothing
  /\ step = "bitmap" => lcn % Granule = 0
  /\ step = "scan" => lcn <= stop /\ (stop = Clusters \/ stop % Granule = 0)

\* The run that is open goes on to the last cluster looked at; if none is, that
\* cluster is free.
OpenInv ==
  /\ step = "copy" => open = NoRun
  /\ open # NoRun => /\ open.start + open.count = lcn
                     /\ Begins(open.start) /\ lcn - 1 \in alloc
  /\ step # "copy" /\ open = NoRun => lcn - 1 \notin alloc

\* Some runs are what there is to gather up to a cluster: they are apart, begin
\* and end where the allocation does, and hold every allocated cluster.
Holds(run, cluster) == run.offset <= SectorAt(cluster) /\ SectorAt(cluster + 1) <= End(run)
GatheredUpTo(found, cluster) ==
  /\ \A i, j \in DOMAIN found : i < j => End(found[i]) + MiB <= found[j].offset
  /\ \A i \in DOMAIN found :
       /\ \E c \in 0..Clusters : Begins(c) /\ found[i].offset = SectorAt(c)
       /\ \E c \in 0..Clusters : Ends(c) /\ End(found[i]) = SectorAt(c)
       /\ End(found[i]) <= SectorAt(cluster)
  /\ \A c \in alloc : c < cluster => \E i \in DOMAIN found : Holds(found[i], c)

\* The runs are what there is to gather before the one that is open.
Gathered == IF open = NoRun THEN lcn ELSE open.start
RunsInv ==
  strategy = "NtfsBitmap" =>
    /\ GatheredUpTo(runs, Gathered)
    /\ step = "copy" => lcn = Clusters

\* What has been copied lies before the span that is being copied, that before
\* the runs to come or within the head, and no read leaves the volume.
Within(s, piece) == piece.offset <= s /\ s < End(piece)
OrderInv ==
  /\ NoShortRead
  /\ result # "done" => \A s \in DOMAIN image : image[s] # Nothing => s < span.offset
  /\ result = "done" => span.length = 0
  /\ \A j \in DOMAIN runs : j >= next => End(span) <= runs[j].offset \/ End(span) <= MiB

\* What is needed is copied, or in the span, or beyond the head and in a run to
\* come.
Needed(s) == strategy = "NtfsBitmap" => s < MiB \/ \E c \in alloc : s \in SectorsOf(c)
Remains(s) ==
  \/ Within(s, span)
  \/ s >= MiB /\ \E j \in DOMAIN runs : j >= next /\ Within(s, runs[j])
CopyInv ==
  step = "copy" /\ result # "done" =>
    \A s \in DOMAIN image : Needed(s) => image[s] = s \/ Remains(s)

IInv == TypeOK /\ ChunkInv /\ OpenInv /\ RunsInv /\ OrderInv /\ CopyInv /\ WholeCopy
-----------------------------------------------------------------------------
(* Clusters and sectors *)

\* A volume has its head, and lies within its partition.
LEMMA VolumeFacts ==
  ASSUME TypeOK
  PROVE  /\ geo.per \in Nat \ {0} /\ geo.sectors \in Nat /\ geo.length \in Nat
         /\ MiB \in Nat \ {0} /\ MiB <= geo.sectors /\ geo.sectors <= geo.length
         /\ Clusters \in Nat
<1>1. /\ geo.per \in Nat \ {0} /\ geo.sectors \in Nat /\ geo.length \in Nat
      /\ MiB <= geo.sectors /\ geo.sectors <= geo.length
  BY GeometryAssumption DEF TypeOK
<1>2. MiB \in Nat \ {0}
  BY SizeAssumption
<1> DEFINE size == geo.sectors
           per  == geo.per
<1>3. size \div per \in Nat
  <2>1. size \in Nat /\ per \in Nat \ {0}
    BY <1>1
  <2> HIDE DEF size, per
  <2> QED BY <2>1
<1> QED BY <1>1, <1>2, <1>3 DEF Clusters

\* The sectors of a cluster follow those of the one before it, and all clusters
\* fit into the volume.
LEMMA SectorFacts ==
  ASSUME TypeOK
  PROVE  /\ \A c \in Int : SectorAt(c) \in Int /\ SectorAt(c + 1) = SectorAt(c) + geo.per
         /\ \A c \in Nat : SectorAt(c) \in Nat
         /\ \A c, d \in Int : c <= d => SectorAt(c) <= SectorAt(d)
         /\ \A c, d \in Int : c < d => SectorAt(c + 1) <= SectorAt(d)
         /\ SectorAt(Clusters) <= geo.sectors
<1>1. geo.per \in Nat \ {0} /\ geo.sectors \in Nat
  BY VolumeFacts
<1>2. \A c, d \in Int, p \in Nat : c <= d => c * p <= d * p
  OBVIOUS
<1>3. \A c \in Int, p \in Nat : c * p \in Int /\ (c + 1) * p = (c * p) + p
  OBVIOUS
<1>4. \A c \in Nat, p \in Nat : c * p \in Nat
  OBVIOUS
<1>5. \A x \in Nat, p \in Nat \ {0} : (x \div p) * p <= x
  OBVIOUS
<1>6. \A c, d \in Int : c < d => c + 1 \in Int /\ c + 1 <= d
  OBVIOUS
<1> QED BY <1>1, <1>2, <1>3, <1>4, <1>5, <1>6 DEF SectorAt, Clusters

\* Where a chunk may begin, one of the next may.
LEMMA ChunkStep ==
  ASSUME NEW base \in Nat, base % Granule = 0
  PROVE  (base + ChunkBits) % Granule = 0
<1>1. \A g \in Nat \ {0}, a, b \in Nat : a % g = 0 /\ b % g = 0 => (a + b) % g = 0
  <2> SUFFICES ASSUME NEW g \in Nat \ {0}, NEW a \in Nat, NEW b \in Nat, a % g = 0, b % g = 0
               PROVE  (a + b) % g = 0
    OBVIOUS
  <2>1. a = g * (a \div g) /\ b = g * (b \div g)
    OBVIOUS
  <2> DEFINE q == (a \div g) + (b \div g)
  <2>2. q \in Int /\ a + b = g * q
    BY <2>1
  <2> HIDE DEF q
  <2>3. \A k \in Int : (g * k) % g = 0
    OBVIOUS
  <2> QED BY <2>2, <2>3
<1> QED BY <1>1, SizeAssumption, ChunkAssumption
-----------------------------------------------------------------------------
(* Gathering runs *)

Piece == [offset : Nat, length : Nat \ {0}]

\* From one place to a later one there is a piece that ends there.
LEMMA SpanFacts ==
  ASSUME NEW from \in Nat, NEW to \in Nat, from <= to
  PROVE  /\ Span(from, to) \in [offset : Nat, length : Nat]
         /\ Span(from, to).offset = from /\ Span(from, to).length = to - from
         /\ End(Span(from, to)) = to
         /\ from < to => Span(from, to) \in Piece
BY DEF Span, End, Piece

\* A piece ends beyond its beginning.
LEMMA PieceFacts ==
  ASSUME NEW piece \in Piece
  PROVE  piece.offset \in Nat /\ End(piece) \in Nat /\ piece.offset < End(piece)
BY DEF Piece, End

\* Flushed at a free cluster, the runs are what there is to gather up to it:
\* the run that was open is a new one, or bridged to the last.
LEMMA FlushGathers ==
  ASSUME TypeOK, OpenInv, GatheredUpTo(runs, Gathered), step = "scan",
         FlushRun, lcn \notin alloc
  PROVE  runs' \in Seq(Piece) /\ GatheredUpTo(runs', lcn)
<1>1. runs \in Seq(Piece) /\ lcn \in 0..Clusters /\ lcn \in Int /\ alloc \subseteq Nat
  BY VolumeFacts DEF TypeOK, Piece
<1>2. CASE open = NoRun
  BY <1>1, <1>2 DEF FlushRun, Bridged, Gathered
<1>3. CASE open # NoRun
  <2> DEFINE first == open.start
             n     == Len(runs)
  <2>1. /\ first \in Nat /\ first < lcn /\ first + open.count = lcn
        /\ Begins(first) /\ Ends(lcn) /\ first \in 0..Clusters
        /\ Gathered = first
    <3>1. open \in [start : Nat, count : Nat \ {0}]
      BY <1>3 DEF TypeOK
    <3>2. first + open.count = lcn /\ Begins(first) /\ Ends(lcn) /\ Gathered = first
      BY <1>3 DEF OpenInv, Ends, Gathered
    <3>3. first \in Nat /\ open.count \in Nat \ {0}
      BY <3>1
    <3> HIDE DEF first
    <3>4. first < lcn /\ first \in 0..Clusters
      BY <1>1, <3>2, <3>3, VolumeFacts
    <3> QED BY <3>2, <3>3, <3>4
  <2>2. /\ SectorAt(first) \in Nat /\ SectorAt(lcn) \in Nat /\ SectorAt(first) < SectorAt(lcn)
        /\ \A c \in alloc : /\ first <= c => SectorAt(first) <= SectorAt(c)
                            /\ c < lcn => SectorAt(c + 1) <= SectorAt(lcn)
    <3>1. lcn \in Nat /\ \A c \in alloc : c \in Int
      BY <1>1
    <3>2. SectorAt(first) \in Nat /\ SectorAt(lcn) \in Nat /\ SectorAt(first + 1) <= SectorAt(lcn)
      BY <2>1, <3>1, SectorFacts
    <3>3. first \in Int /\ geo.per \in Nat \ {0}
      BY <2>1, VolumeFacts
    <3>4. SectorAt(first + 1) = SectorAt(first) + geo.per
      BY <3>3, SectorFacts
    <3>5. SectorAt(first) < SectorAt(lcn)
      BY <3>2, <3>3, <3>4
    <3>6. \A c \in alloc : /\ first <= c => SectorAt(first) <= SectorAt(c)
                           /\ c < lcn => SectorAt(c + 1) <= SectorAt(lcn)
      <4>1. lcn \in Int /\ \A c \in alloc : c \in Int
        BY <3>1
      <4>2. \A c, d \in Int : c <= d => SectorAt(c) <= SectorAt(d)
        BY SectorFacts
      <4>3. \A c, d \in Int : c < d => SectorAt(c + 1) <= SectorAt(d)
        BY SectorFacts
      <4> HIDE DEF first
      <4> QED BY <3>3, <4>1, <4>2, <4>3
    <3> QED BY <3>2, <3>5, <3>6
  <2>3. OpenRun = Span(SectorAt(first), SectorAt(lcn))
    BY <2>1 DEF OpenRun
  <2> HIDE DEF first
  <2>4. OpenRun \in Piece /\ OpenRun.offset = SectorAt(first) /\ End(OpenRun) = SectorAt(lcn)
    BY <2>2, <2>3, SpanFacts
  <2>5. /\ n \in Nat /\ DOMAIN runs = 1..n
        /\ \A i \in 1..n : /\ runs[i] \in Piece
                           /\ runs[i].offset \in Nat /\ End(runs[i]) \in Nat
                           /\ runs[i].offset < End(runs[i])
                           /\ End(runs[i]) <= SectorAt(first)
    BY <1>1, <2>1, PieceFacts DEF GatheredUpTo
  <2>6. \A c \in alloc : c < first => \E i \in 1..n : Holds(runs[i], c)
    BY <2>1, <2>5 DEF GatheredUpTo
  <2>7. \A c \in alloc : c < lcn => c < first \/ (SectorAt(first) <= SectorAt(c) /\ SectorAt(c + 1) <= SectorAt(lcn))
    BY <1>1, <2>1, <2>2
  <2>8. CASE Bridged
    <3>1. n \in 1..n
      BY <1>1, <2>5, <2>8, EmptySeq DEF Bridged
    <3> DEFINE joined == Span(runs[n].offset, SectorAt(lcn))
    <3>2. runs' = [runs EXCEPT ![n] = joined]
      BY <1>3, <2>4, <2>8 DEF FlushRun
    <3>3. joined \in Piece /\ joined.offset = runs[n].offset /\ End(joined) = SectorAt(lcn)
      <4>1. runs[n].offset \in Nat /\ SectorAt(lcn) \in Nat /\ runs[n].offset < SectorAt(lcn)
        BY <2>2, <2>5, <3>1
      <4> QED BY <4>1, SpanFacts
    <3> HIDE DEF joined
    <3>4. /\ runs' \in Seq(Piece) /\ DOMAIN runs' = 1..n
          /\ runs'[n] = joined /\ \A i \in 1..n : i # n => runs'[i] = runs[i]
      BY <1>1, <2>5, <3>1, <3>2, <3>3, ExceptSeq
    <3>5. \A i, j \in 1..n : i < j => End(runs'[i]) + MiB <= runs'[j].offset
      <4>1. \A i, j \in 1..n : i < j => End(runs[i]) + MiB <= runs[j].offset
        BY <2>5 DEF GatheredUpTo
      <4>2. \A i, j \in 1..n : i < j => i # n
        <5>1. n \in Nat
          BY <2>5
        <5> HIDE DEF n
        <5> QED BY <5>1
      <4> QED BY <3>3, <3>4, <4>1, <4>2
    <3>6. \A i \in 1..n :
            /\ \E c \in 0..Clusters : Begins(c) /\ runs'[i].offset = SectorAt(c)
            /\ \E c \in 0..Clusters : Ends(c) /\ End(runs'[i]) = SectorAt(c)
            /\ End(runs'[i]) <= SectorAt(lcn)
      <4> SUFFICES ASSUME NEW i \in 1..n
                   PROVE  /\ \E c \in 0..Clusters : Begins(c) /\ runs'[i].offset = SectorAt(c)
                          /\ \E c \in 0..Clusters : Ends(c) /\ End(runs'[i]) = SectorAt(c)
                          /\ End(runs'[i]) <= SectorAt(lcn)
        OBVIOUS
      <4>1. /\ \E c \in 0..Clusters : Begins(c) /\ runs[i].offset = SectorAt(c)
            /\ \E c \in 0..Clusters : Ends(c) /\ End(runs[i]) = SectorAt(c)
        BY <2>5 DEF GatheredUpTo
      <4>2. CASE i = n
        BY <1>1, <2>1, <2>2, <3>3, <3>4, <4>1, <4>2
      <4>3. CASE i # n
        <5>1. runs'[i] = runs[i]
          BY <3>4, <4>3
        <5>2. End(runs[i]) <= SectorAt(lcn)
          <6>1. End(runs[i]) \in Nat /\ End(runs[i]) <= SectorAt(first)
            BY <2>5
          <6> QED BY <2>2, <6>1
        <5> QED BY <4>1, <5>1, <5>2
      <4> QED BY <4>2, <4>3
    <3>7. \A c \in alloc : c < lcn => \E i \in 1..n : Holds(runs'[i], c)
      <4> SUFFICES ASSUME NEW c \in alloc, c < lcn PROVE \E i \in 1..n : Holds(runs'[i], c)
        OBVIOUS
      <4>0. SectorAt(c) \in Int /\ SectorAt(c + 1) \in Int
        BY <1>1, SectorFacts
      <4>1. CASE SectorAt(first) <= SectorAt(c) /\ SectorAt(c + 1) <= SectorAt(lcn)
        <5>1. runs[n].offset <= SectorAt(c)
          BY <2>2, <2>5, <3>1, <4>0, <4>1
        <5> QED BY <3>1, <3>3, <3>4, <4>1, <5>1 DEF Holds
      <4>2. CASE c < first
        <5>1. PICK i \in 1..n : Holds(runs[i], c)
          BY <2>6, <4>2
        <5>2. CASE i = n
          <6>1. SectorAt(c + 1) <= SectorAt(lcn)
            BY <2>2
          <6> QED BY <3>3, <3>4, <5>1, <5>2, <6>1 DEF Holds
        <5>3. CASE i # n
          BY <3>4, <5>1, <5>3
        <5> QED BY <5>2, <5>3
      <4> QED BY <2>7, <4>1, <4>2
    <3> QED BY <3>4, <3>5, <3>6, <3>7 DEF GatheredUpTo
  <2>9. CASE ~Bridged
    <3>1. runs' = Append(runs, OpenRun)
      BY <1>3, <2>9 DEF FlushRun
    <3>2. /\ runs' \in Seq(Piece) /\ DOMAIN runs' = 1..(n + 1)
          /\ runs'[n + 1] = OpenRun /\ \A i \in 1..n : runs'[i] = runs[i]
      BY <1>1, <2>4, <2>5, <3>1, AppendProperties
    <3>3. \A i \in 1..(n + 1) : i \in 1..n \/ i = n + 1
      BY <2>5
    <3>4. \A i \in 1..n : End(runs[i]) + MiB <= OpenRun.offset
      <4> SUFFICES ASSUME NEW i \in 1..n PROVE End(runs[i]) + MiB <= OpenRun.offset
        OBVIOUS
      <4>1. n \in 1..n /\ runs # <<>>
        BY <1>1, <2>5
      <4>2. End(runs[n]) + MiB <= OpenRun.offset
        <5>1. ~Bridges(OpenRun.offset - End(runs[n]))
          BY <1>3, <2>9, <4>1 DEF Bridged
        <5> QED BY <2>2, <2>4, <2>5, <4>1, <5>1, VolumeFacts DEF Bridges
      <4>3. i < n => End(runs[i]) + MiB <= runs[n].offset
        BY <2>5, <4>1 DEF GatheredUpTo
      <4>4. i < n => End(runs[i]) <= End(runs[n])
        BY <2>5, <4>1, <4>3, VolumeFacts
      <4> QED BY <2>2, <2>4, <2>5, <4>1, <4>2, <4>4, VolumeFacts
    <3>5. \A i, j \in 1..(n + 1) : i < j => End(runs'[i]) + MiB <= runs'[j].offset
      <4>1. \A i, j \in 1..n : i < j => End(runs[i]) + MiB <= runs[j].offset
        BY <2>5 DEF GatheredUpTo
      <4>2. \A i, j \in 1..(n + 1) : i < j => i \in 1..n
        BY <2>5
      <4> QED BY <3>2, <3>3, <3>4, <4>1, <4>2
    <3>6. \A i \in 1..(n + 1) :
            /\ \E c \in 0..Clusters : Begins(c) /\ runs'[i].offset = SectorAt(c)
            /\ \E c \in 0..Clusters : Ends(c) /\ End(runs'[i]) = SectorAt(c)
            /\ End(runs'[i]) <= SectorAt(lcn)
      <4> SUFFICES ASSUME NEW i \in 1..(n + 1)
                   PROVE  /\ \E c \in 0..Clusters : Begins(c) /\ runs'[i].offset = SectorAt(c)
                          /\ \E c \in 0..Clusters : Ends(c) /\ End(runs'[i]) = SectorAt(c)
                          /\ End(runs'[i]) <= SectorAt(lcn)
        OBVIOUS
      <4>1. CASE i \in 1..n
        <5>1. /\ \E c \in 0..Clusters : Begins(c) /\ runs[i].offset = SectorAt(c)
              /\ \E c \in 0..Clusters : Ends(c) /\ End(runs[i]) = SectorAt(c)
          BY <2>5, <4>1 DEF GatheredUpTo
        <5>2. runs'[i] = runs[i] /\ End(runs[i]) <= SectorAt(lcn)
          BY <2>2, <2>5, <3>2, <4>1
        <5> QED BY <5>1, <5>2
      <4>2. CASE i = n + 1
        BY <1>1, <2>1, <2>2, <2>4, <3>2, <4>2
      <4> QED BY <3>3, <4>1, <4>2
    <3>7. \A c \in alloc : c < lcn => \E i \in 1..(n + 1) : Holds(runs'[i], c)
      <4> SUFFICES ASSUME NEW c \in alloc, c < lcn PROVE \E i \in 1..(n + 1) : Holds(runs'[i], c)
        OBVIOUS
      <4>1. CASE SectorAt(first) <= SectorAt(c) /\ SectorAt(c + 1) <= SectorAt(lcn)
        <5>1. n + 1 \in 1..(n + 1)
          BY <2>5
        <5> QED BY <2>4, <3>2, <4>1, <5>1 DEF Holds
      <4>2. CASE c < first
        <5>1. PICK i \in 1..n : Holds(runs[i], c)
          BY <2>6, <4>2
        <5>2. i \in 1..(n + 1) /\ runs'[i] = runs[i]
          BY <2>5, <3>2
        <5> QED BY <5>1, <5>2
      <4> QED BY <2>7, <4>1, <4>2
    <3> QED BY <3>2, <3>5, <3>6, <3>7 DEF GatheredUpTo
  <2> QED BY <2>8, <2>9
<1> QED BY <1>2, <1>3
-----------------------------------------------------------------------------
(* Every action preserves the invariant *)

\* What is gathered up to a free cluster is gathered up to the next one.
LEMMA GatheredBeyond ==
  ASSUME TypeOK, NEW found \in Seq(Piece), GatheredUpTo(found, lcn), lcn \notin alloc
  PROVE  GatheredUpTo(found, lcn + 1)
<1>1. lcn \in Nat /\ \A c \in alloc : c \in Nat
  BY VolumeFacts DEF TypeOK
<1>2. \A c \in alloc : c < lcn + 1 => c < lcn
  BY <1>1
<1>3. SectorAt(lcn) \in Nat /\ SectorAt(lcn + 1) \in Nat /\ SectorAt(lcn) <= SectorAt(lcn + 1)
  BY <1>1, SectorFacts
<1>4. \A i \in DOMAIN found : End(found[i]) \in Nat
  BY PieceFacts
<1>5. \A i \in DOMAIN found : End(found[i]) <= SectorAt(lcn) => End(found[i]) <= SectorAt(lcn + 1)
  BY <1>3, <1>4
<1> QED BY <1>2, <1>5 DEF GatheredUpTo

\* What is gathered depends on the volume and the runs only.
LEMMA GatheredFrame ==
  ASSUME UNCHANGED <<geo, alloc>>, NEW cluster, GatheredUpTo(runs', cluster), Gathered' = cluster
  PROVE  GatheredUpTo(runs, Gathered)'
BY DEF GatheredUpTo, Holds, Begins, Ends, SectorAt, Clusters, End

\* While the bitmap is read nothing but the map changes.
LEMMA MapFrame ==
  ASSUME IInv, step # "copy", UNCHANGED <<geo, alloc, strategy, result, next, span, image>>,
         step' # "copy"
  PROVE  /\ strategy = "NtfsBitmap"
         /\ OrderInv' /\ CopyInv' /\ EverythingAllocatedCopied' /\ BackupBootInPlace'
         /\ result # "done" /\ next = 1 /\ span = Span(0, 0)
         /\ \A s \in DOMAIN image : image[s] = Nothing
<1>1. /\ strategy = "NtfsBitmap" /\ result # "done" /\ next = 1 /\ span = Span(0, 0)
      /\ \A s \in DOMAIN image : image[s] = Nothing
  BY DEF IInv, TypeOK, ChunkInv
<1>2. End(span) = 0 /\ span.offset = 0
  BY <1>1 DEF Span, End
<1>3. NoShortRead'
  BY DEF IInv, OrderInv, NoShortRead, SourceEnd, End
<1>4. \A j : End(span)' <= MiB
  BY <1>2, SizeAssumption DEF End
<1> QED BY <1>1, <1>3, <1>4
        DEF OrderInv, CopyInv, EverythingAllocatedCopied, BackupBootInPlace, Nothing

\* A failure changes nothing but the result.
LEMMA FailKeeps ==
  ASSUME IInv, result = "running", Fail
  PROVE  IInv'
<1>1. /\ UNCHANGED <<geo, alloc, strategy, step, lcn, stop, open, runs, next, span, image>>
      /\ result' = "failed"
  BY DEF Fail
<1>2. TypeOK'
  BY <1>1 DEF IInv, TypeOK, Clusters
<1>3. ChunkInv' /\ OpenInv'
  BY <1>1 DEF IInv, ChunkInv, OpenInv, Begins, Clusters
<1>4. RunsInv'
  BY <1>1 DEF IInv, RunsInv, GatheredUpTo, Gathered, Holds, Begins, Ends, SectorAt, Clusters, End
<1>5. OrderInv'
  BY <1>1 DEF IInv, OrderInv, NoShortRead, SourceEnd, End
<1>6. CopyInv'
  BY <1>1 DEF IInv, CopyInv, Needed, Remains, Within, SectorsOf, SectorAt, End
<1>7. EverythingAllocatedCopied' /\ BackupBootInPlace'
  BY <1>1 DEF EverythingAllocatedCopied, BackupBootInPlace
<1> QED BY <1>2, <1>3, <1>4, <1>5, <1>6, <1>7 DEF IInv, WholeCopy

\* A chunk begins where the last one ended.
LEMMA QueryBitmapKeeps ==
  ASSUME IInv, QueryBitmap
  PROVE  IInv'
<1>1. CASE Fail
  BY <1>1, FailKeeps DEF QueryBitmap, Do
<1>2. CASE ~Fail
  <2>1. /\ step = "bitmap" /\ step' = "scan" /\ open' = open
        /\ UNCHANGED <<geo, alloc, strategy, result, runs, next, span, image>>
        /\ lcn' = lcn - (lcn % Granule) /\ stop' = lcn' + UsableBits(lcn')
    BY <1>2 DEF QueryBitmap, Do, Carry
  <2>2. lcn' = lcn /\ lcn \in 0..Clusters /\ lcn % Granule = 0
    BY <2>1, VolumeFacts DEF IInv, ChunkInv, TypeOK
  <2>3. /\ stop' \in 0..Clusters /\ lcn <= stop'
        /\ stop' = Clusters \/ stop' = lcn + ChunkBits
    <3>1. Clusters \in Nat /\ ChunkBits \in Nat
      BY VolumeFacts, ChunkAssumption DEF IInv
    <3> HIDE DEF Clusters
    <3> QED BY <2>1, <2>2, <3>1 DEF UsableBits, Least
  <2>4. stop' = Clusters \/ stop' % Granule = 0
    BY <2>2, <2>3, ChunkStep
  <2>5. Clusters' = Clusters
    BY <2>1 DEF Clusters
  <2>6. /\ strategy = "NtfsBitmap"
        /\ OrderInv' /\ CopyInv' /\ EverythingAllocatedCopied' /\ BackupBootInPlace'
        /\ result # "done" /\ next = 1 /\ span = Span(0, 0)
        /\ \A s \in DOMAIN image : image[s] = Nothing
    BY <2>1, MapFrame
  <2>7. TypeOK'
    BY <2>1, <2>2, <2>3, <2>5 DEF IInv, TypeOK
  <2>8. ChunkInv'
    BY <2>1, <2>2, <2>3, <2>4, <2>5, <2>6 DEF ChunkInv
  <2>9. OpenInv'
    BY <2>1, <2>2 DEF IInv, OpenInv, Begins
  <2>10. RunsInv'
    BY <2>1, <2>2, <2>6
       DEF IInv, RunsInv, GatheredUpTo, Gathered, Holds, Begins, Ends, SectorAt, Clusters, End
  <2> QED BY <2>6, <2>7, <2>8, <2>9, <2>10 DEF IInv, WholeCopy
<1> QED BY <1>1, <1>2

\* A bit lengthens the run that is open, opens one, or closes it.
LEMMA ExamineBitKeeps ==
  ASSUME IInv, ExamineBit
  PROVE  IInv'
<1>1. /\ step = "scan" /\ step' = "scan" /\ lcn < stop /\ lcn' = lcn + 1
      /\ UNCHANGED <<geo, alloc, strategy, result, stop, next, span, image>>
  BY DEF ExamineBit, Do
<1>2. /\ strategy = "NtfsBitmap"
      /\ OrderInv' /\ CopyInv' /\ EverythingAllocatedCopied' /\ BackupBootInPlace'
      /\ result # "done" /\ next = 1 /\ span = Span(0, 0)
      /\ \A s \in DOMAIN image : image[s] = Nothing
  BY <1>1, MapFrame
<1>3. TypeOK /\ OpenInv /\ GatheredUpTo(runs, Gathered) /\ Clusters' = Clusters
  BY <1>1, <1>2 DEF IInv, RunsInv, Clusters
<1>4. /\ lcn \in Nat /\ stop \in 0..Clusters /\ runs \in Seq(Piece)
      /\ \A c \in alloc : c \in 0..(Clusters - 1)
  BY <1>3, VolumeFacts DEF TypeOK, Piece
<1>5. lcn' \in 0..Clusters /\ lcn' <= stop /\ lcn' - 1 = lcn
  BY <1>1, <1>3, <1>4, VolumeFacts
<1>6. open # NoRun => /\ open \in [start : Nat, count : Nat \ {0}]
                      /\ open.start + open.count = lcn /\ Continues
  BY <1>3, <1>1 DEF TypeOK, OpenInv, Continues
<1>7. /\ open' \in [start : Nat, count : Nat \ {0}] \cup {NoRun}
      /\ runs' \in Seq(Piece) /\ OpenInv' /\ GatheredUpTo(runs', Gathered')
  <2>1. CASE lcn \in alloc /\ Continues
    <3>1. open # NoRun /\ open' = [open EXCEPT !.count = @ + 1] /\ runs' = runs
      BY <2>1 DEF ExamineBit, Continues
    <3>2. /\ open' \in [start : Nat, count : Nat \ {0}]
          /\ open'.start = open.start /\ open'.start + open'.count = lcn'
      <4>1. /\ open'.start = open.start /\ open'.count = open.count + 1
            /\ open' = [start |-> open'.start, count |-> open'.count]
        BY <1>6, <3>1
      <4>2. open.start \in Nat /\ open.count \in Nat \ {0} /\ open.start + open.count = lcn
        BY <1>6, <3>1
      <4>3. lcn' = lcn + 1
        BY <1>1
      <4> QED BY <4>1, <4>2, <4>3
    <3>3. open' # NoRun
      BY <3>2 DEF NoRun
    <3>4. OpenInv'
      BY <1>1, <1>3, <1>5, <2>1, <3>1, <3>2, <3>3 DEF OpenInv, Begins
    <3>5. Gathered' = Gathered
      BY <3>1, <3>2, <3>3 DEF Gathered
    <3> QED BY <1>3, <1>4, <3>1, <3>2, <3>4, <3>5
  <2>2. CASE lcn \in alloc /\ ~Continues
    <3>1. open = NoRun /\ runs' = runs /\ open' = [start |-> lcn, count |-> 1]
      BY <1>6, <2>2 DEF ExamineBit, FlushRun, Bridged
    <3>2. open' # NoRun /\ open'.start = lcn /\ open'.start + open'.count = lcn'
      BY <1>1, <1>4, <3>1 DEF NoRun
    <3>3. Begins(lcn)
      BY <1>1, <1>3, <2>2, <3>1 DEF OpenInv, Begins
    <3>4. OpenInv'
      BY <1>1, <1>5, <2>2, <3>2, <3>3 DEF OpenInv, Begins
    <3>5. Gathered' = Gathered
      BY <3>1, <3>2 DEF Gathered
    <3> QED BY <1>3, <1>4, <3>1, <3>4, <3>5
  <2>3. CASE lcn \notin alloc
    <3>1. FlushRun /\ open' = NoRun
      BY <2>3 DEF ExamineBit
    <3>2. runs' \in Seq(Piece) /\ GatheredUpTo(runs', lcn)
      BY <1>1, <1>3, <2>3, <3>1, FlushGathers
    <3>3. GatheredUpTo(runs', lcn + 1)
      BY <1>3, <2>3, <3>2, GatheredBeyond
    <3>4. Gathered' = lcn + 1
      BY <1>1, <3>1 DEF Gathered
    <3>5. OpenInv'
      BY <1>1, <1>5, <2>3, <3>1 DEF OpenInv
    <3> QED BY <3>1, <3>2, <3>3, <3>4, <3>5
  <2> QED BY <2>1, <2>2, <2>3
<1>8. RunsInv'
  <2>1. GatheredUpTo(runs, Gathered)'
    BY <1>1, <1>7, GatheredFrame
  <2> QED BY <1>1, <2>1 DEF RunsInv
<1>9. TypeOK'
  <2>1. next \in 1..(Len(runs') + 1)
    BY <1>2, <1>7
  <2> QED BY <1>1, <1>3, <1>5, <1>7, <2>1 DEF TypeOK, Piece
<1>10. ChunkInv'
  BY <1>1, <1>2, <1>3, <1>5 DEF IInv, ChunkInv
<1> QED BY <1>2, <1>7, <1>8, <1>9, <1>10 DEF IInv, WholeCopy

\* A sector of an allocated cluster is one of the volume.
LEMMA AllocatedSectors ==
  ASSUME TypeOK, NEW c \in alloc, NEW s \in SectorsOf(c)
  PROVE  s \in 0..(geo.sectors - 1) /\ s \in Nat /\ SectorAt(c) <= s /\ s < SectorAt(c + 1)
<1>1. c \in Nat /\ c \in Int /\ c < Clusters /\ Clusters \in Int
  BY VolumeFacts DEF TypeOK
<1>2. SectorAt(c) \in Nat /\ SectorAt(c + 1) \in Int /\ SectorAt(Clusters) \in Int
  BY <1>1, SectorFacts
<1>3. SectorAt(c + 1) <= SectorAt(Clusters) /\ SectorAt(Clusters) <= geo.sectors
  BY <1>1, SectorFacts
<1>4. s \in SectorAt(c)..(SectorAt(c + 1) - 1)
  BY DEF SectorsOf
<1> QED BY <1>2, <1>3, <1>4, VolumeFacts

\* After the last chunk the head is to be copied, then the runs.
LEMMA EndChunkKeeps ==
  ASSUME IInv, EndChunk
  PROVE  IInv'
<1>1. /\ step = "scan" /\ lcn = stop /\ Clusters' = Clusters
      /\ UNCHANGED <<geo, alloc, strategy, result, lcn, stop, next, image>>
  BY DEF EndChunk, Do, Clusters
<1>2. /\ TypeOK /\ OpenInv /\ strategy = "NtfsBitmap" /\ GatheredUpTo(runs, Gathered)
      /\ result # "done" /\ next = 1 /\ span = Span(0, 0)
      /\ \A s \in DOMAIN image : image[s] = Nothing
  BY <1>1 DEF IInv, TypeOK, ChunkInv, RunsInv
<1>3. lcn \in 0..Clusters /\ Clusters \in Nat /\ runs \in Seq(Piece)
  BY <1>2, VolumeFacts DEF TypeOK, Piece
<1>4. CASE lcn < Clusters
  <2>1. step' = "bitmap" /\ UNCHANGED <<open, runs, span>>
    BY <1>3, <1>4 DEF EndChunk
  <2>2. OrderInv' /\ CopyInv' /\ EverythingAllocatedCopied' /\ BackupBootInPlace'
    BY <1>1, <2>1, MapFrame
  <2>3. TypeOK'
    BY <1>1, <1>2, <2>1 DEF TypeOK
  <2>4. lcn % Granule = 0
    BY <1>1, <1>3, <1>4 DEF IInv, ChunkInv
  <2>5. ChunkInv' /\ OpenInv'
    BY <1>1, <1>2, <2>1, <2>4 DEF ChunkInv, OpenInv, Begins
  <2>6. RunsInv'
    BY <1>1, <1>2, <2>1
       DEF RunsInv, GatheredUpTo, Gathered, Holds, Begins, Ends, SectorAt, Clusters, End
  <2> QED BY <2>2, <2>3, <2>5, <2>6 DEF IInv, WholeCopy
<1>5. CASE lcn >= Clusters
  <2>1. /\ FlushRun /\ open' = NoRun /\ step' = "copy"
        /\ span' = Span(0, Least(MiB, geo.length))
    BY <1>3, <1>5 DEF EndChunk
  <2>2. lcn = Clusters /\ lcn \notin alloc
    BY <1>2, <1>3, <1>5 DEF TypeOK
  <2>3. runs' \in Seq(Piece) /\ GatheredUpTo(runs', lcn) /\ Gathered' = lcn
    BY <1>1, <1>2, <2>1, <2>2, FlushGathers DEF Gathered
  <2>4. /\ span' \in [offset : 0..geo.length, length : 0..geo.length]
        /\ span'.offset = 0 /\ End(span') = MiB
    <3>1. Least(MiB, geo.length) = MiB /\ MiB \in 0..geo.length /\ 0 \in 0..geo.length
      BY <1>2, VolumeFacts DEF Least
    <3> QED BY <2>1, <3>1 DEF Span, End
  <2>5. TypeOK'
    <3>1. next \in 1..(Len(runs') + 1)
      BY <1>2, <2>3
    <3> QED BY <1>1, <1>2, <2>1, <2>3, <2>4, <3>1 DEF TypeOK, Piece
  <2>6. ChunkInv' /\ OpenInv'
    BY <1>1, <1>2, <2>1 DEF ChunkInv, OpenInv
  <2>7. RunsInv'
    <3>1. GatheredUpTo(runs, Gathered)'
      BY <1>1, <2>3, GatheredFrame
    <3> QED BY <1>1, <2>2, <3>1 DEF RunsInv
  <2>8. OrderInv'
    <3>1. NoShortRead' /\ End(span)' <= MiB
      BY <1>1, <1>2, <2>4, VolumeFacts DEF NoShortRead, SourceEnd, End
    <3> QED BY <1>1, <1>2, <2>4, <3>1 DEF OrderInv
  <2>9. CopyInv'
    <3> SUFFICES ASSUME NEW s \in DOMAIN image, Needed(s) PROVE Remains(s)'
      BY <1>1 DEF CopyInv, Needed, SectorsOf, SectorAt
    <3>1. s \in Nat
      BY <1>2, VolumeFacts DEF TypeOK
    <3>2. CASE s < MiB
      BY <2>4, <3>1, <3>2 DEF Remains, Within, End
    <3>3. CASE ~(s < MiB)
      <4>1. PICK c \in alloc : s \in SectorsOf(c)
        BY <1>2, <3>3 DEF Needed
      <4>2. /\ SectorAt(c) <= s /\ s < SectorAt(c + 1) /\ c < lcn
            /\ SectorAt(c) \in Int /\ SectorAt(c + 1) \in Int
        <5>1. c \in Int /\ c + 1 \in Int /\ c < lcn
          BY <1>2, <1>3, <2>2 DEF TypeOK
        <5>2. SectorAt(c) <= s /\ s < SectorAt(c + 1)
          BY <1>2, <4>1, AllocatedSectors
        <5> QED BY <1>2, <5>1, <5>2, SectorFacts
      <4>3. PICK i \in DOMAIN runs' : Holds(runs'[i], c)
        BY <2>3, <4>2 DEF GatheredUpTo
      <4>4. runs'[i].offset \in Nat /\ End(runs'[i]) \in Nat /\ i >= 1
        BY <2>3, PieceFacts
      <4>5. Within(s, runs'[i])
        BY <3>1, <4>2, <4>3, <4>4 DEF Holds, Within
      <4>6. s >= MiB
        BY <3>1, <3>3, SizeAssumption
      <4> QED BY <1>1, <1>2, <4>4, <4>5, <4>6 DEF Remains, Within, End
    <3> QED BY <3>2, <3>3
  <2>10. EverythingAllocatedCopied' /\ BackupBootInPlace'
    BY <1>1, <1>2 DEF EverythingAllocatedCopied, BackupBootInPlace
  <2> QED BY <2>5, <2>6, <2>7, <2>8, <2>9, <2>10 DEF IInv, WholeCopy
<1> QED BY <1>3, <1>4, <1>5

\* While the copy goes on the map and the runs stay.
LEMMA CopyFrame ==
  ASSUME IInv, step = "copy", UNCHANGED <<geo, alloc, strategy, step, lcn, stop, open, runs>>
  PROVE  ChunkInv' /\ OpenInv' /\ RunsInv' /\ Clusters' = Clusters
<1>1. ChunkInv' /\ OpenInv' /\ Clusters' = Clusters
  BY DEF IInv, ChunkInv, OpenInv, Begins, Clusters
<1>2. RunsInv'
  BY DEF IInv, RunsInv, GatheredUpTo, Gathered, Holds, Begins, Ends, SectorAt, Clusters, End
<1> QED BY <1>1, <1>2

\* What is left of a span in which a buffer has been copied.
LEMMA SpanOf ==
  ASSUME TypeOK
  PROVE  /\ span.offset \in Nat /\ span.length \in Nat /\ span.offset <= geo.length
         /\ End(span) \in Nat /\ End(span) = span.offset + span.length
         /\ DOMAIN image = 0..(geo.length - 1)
<1>1. span \in [offset : 0..geo.length, length : 0..geo.length] /\ DOMAIN image = 0..(geo.length - 1)
  BY DEF TypeOK
<1>2. span.offset \in 0..geo.length /\ span.length \in 0..geo.length /\ geo.length \in Nat
  BY <1>1, VolumeFacts
<1> DEFINE o == span.offset
           l == span.length
<1>3. o \in 0..geo.length /\ l \in 0..geo.length /\ geo.length \in Nat
  BY <1>2
<1> HIDE DEF o, l
<1>4. o \in Nat /\ l \in Nat /\ o <= geo.length /\ o + l \in Nat
  BY <1>3
<1> QED BY <1>1, <1>4 DEF End, o, l

\* A buffer moves from the span into the image.
LEMMA CopyChunkKeeps ==
  ASSUME IInv, CopyChunk
  PROVE  IInv'
<1>1. step = "copy" /\ result = "running" /\ span.length > 0 /\ TypeOK
  BY DEF CopyChunk, Do, IInv
<1>2. CASE Fail
  BY <1>1, <1>2, FailKeeps
<1>3. CASE ~Fail
  <2> DEFINE n     == Least(span.length, Buffer)
             chunk == span.offset..(span.offset + n - 1)
  <2>1. /\ span.offset + n <= SourceEnd
        /\ image' = [s \in DOMAIN image |-> IF s \in chunk THEN s ELSE image[s]]
        /\ span' = Rest(span, n)
        /\ UNCHANGED <<geo, alloc, strategy, step, result, lcn, stop, open, runs, next>>
    BY <1>3 DEF CopyChunk
  <2>2. n \in Nat /\ 0 < n /\ n <= span.length
    BY <1>1, SpanOf, SizeAssumption DEF Least
  <2> HIDE DEF n
  <2>3. /\ span'.offset = span.offset + n /\ span'.length = span.length - n
        /\ End(span') = End(span) /\ End(span') = span'.offset + span'.length
        /\ span' \in [offset : Nat, length : Nat]
    BY <1>1, <2>1, <2>2, SpanOf DEF Rest, Span, End
  <2>4. End(span) <= SourceEnd /\ SourceEnd \in Nat /\ SourceEnd <= geo.length /\ geo.length \in Nat
    BY <1>1, VolumeFacts DEF IInv, OrderInv, NoShortRead, SourceEnd
  <2>5. TypeOK'
    <3>1. span'.offset \in 0..geo.length /\ span'.length \in 0..geo.length
      <4>1. End(span) <= geo.length /\ End(span) \in Nat
        BY <1>1, <2>4, SpanOf
      <4>2. span'.offset \in Nat /\ span'.length \in Nat /\ span'.offset + span'.length <= geo.length
        BY <2>3, <4>1
      <4> QED BY <2>4, <4>2
    <3>2. span' \in [offset : 0..geo.length, length : 0..geo.length]
      BY <2>3, <3>1
    <3>3. image' \in [0..(geo.length - 1) -> Nothing..(geo.length - 1)]
      <4>1. \A s \in 0..(geo.length - 1) : s \in Nothing..(geo.length - 1)
        BY <2>4 DEF Nothing
      <4> QED BY <1>1, <2>1, <4>1 DEF TypeOK
    <3> QED BY <1>1, <2>1, <3>2, <3>3 DEF TypeOK, Clusters
  <2>6. OrderInv'
    <3>1. NoShortRead'
      BY <2>1, <2>3, <2>4 DEF NoShortRead, SourceEnd, End
    <3>2. \A s \in DOMAIN image' : image'[s] # Nothing => s < span'.offset
      <4> SUFFICES ASSUME NEW s \in DOMAIN image, image'[s] # Nothing PROVE s < span'.offset
        BY <2>1
      <4>1. s \in Nat
        BY <1>1, <2>4, SpanOf
      <4>2. CASE s \in chunk
        BY <1>1, <2>2, <2>3, <4>1, <4>2, SpanOf
      <4>3. CASE s \notin chunk
        <5>1. s < span.offset
          BY <1>1, <2>1, <4>3 DEF IInv, OrderInv
        <5> QED BY <1>1, <2>2, <2>3, <4>1, <5>1, SpanOf
      <4> QED BY <4>2, <4>3
    <3>3. \A j \in DOMAIN runs : j >= next => End(span') <= runs[j].offset \/ End(span') <= MiB
      BY <2>3 DEF IInv, OrderInv
    <3> QED BY <1>1, <2>1, <3>1, <3>2, <3>3 DEF OrderInv, End
  <2>7. CopyInv'
    <3> SUFFICES ASSUME NEW s \in DOMAIN image, Needed(s)
                 PROVE  image'[s] = s \/ Remains(s)'
      BY <2>1 DEF CopyInv, Needed, SectorsOf, SectorAt
    <3>1. s \in Nat
      BY <1>1, <2>4, SpanOf
    <3>2. image[s] = s \/ Remains(s)
      BY <1>1 DEF IInv, CopyInv
    <3>3. CASE s \in chunk \/ image[s] = s
      BY <2>1, <3>3
    <3>4. CASE s \notin chunk /\ Within(s, span)
      <4>1. Within(s, span')
        BY <1>1, <2>2, <2>3, <3>1, <3>4, SpanOf DEF Within
      <4> QED BY <4>1 DEF Remains, Within, End
    <3>5. CASE s >= MiB /\ \E j \in DOMAIN runs : j >= next /\ Within(s, runs[j])
      BY <2>1, <3>5 DEF Remains, Within, End
    <3> QED BY <3>2, <3>3, <3>4, <3>5 DEF Remains
  <2>8. EverythingAllocatedCopied' /\ BackupBootInPlace'
    BY <1>1, <2>1 DEF EverythingAllocatedCopied, BackupBootInPlace
  <2>9. ChunkInv' /\ OpenInv' /\ RunsInv'
    BY <1>1, <2>1, CopyFrame
  <2> QED BY <2>5, <2>6, <2>7, <2>8, <2>9 DEF IInv, WholeCopy
<1> QED BY <1>2, <1>3

\* The next run is in the copy already, or begins where the copy ends.
LEMMA NextRunKeeps ==
  ASSUME IInv, NextRun
  PROVE  IInv'
<1>1. /\ step = "copy" /\ result = "running" /\ span.length = 0 /\ next \in DOMAIN runs
      /\ next' = next + 1 /\ TypeOK
      /\ UNCHANGED <<geo, alloc, strategy, step, result, lcn, stop, open, runs, image>>
  BY DEF NextRun, Do, IInv
<1>2. runs \in Seq(Piece) /\ next \in 1..Len(runs) /\ Len(runs) \in Nat /\ DOMAIN runs = 1..Len(runs)
  BY <1>1 DEF TypeOK, Piece
<1> DEFINE run == runs[next]
<1>3. run \in Piece /\ run.offset \in Nat /\ End(run) \in Nat /\ run.offset < End(run)
  BY <1>2, PieceFacts
<1>4. strategy = "NtfsBitmap"
  <2>1. runs # <<>>
    BY <1>2
  <2> QED BY <1>1, <2>1 DEF IInv, ChunkInv, TypeOK
<1>5. End(run) <= geo.sectors /\ geo.sectors \in Nat /\ geo.sectors <= geo.length
  <2>1. End(run) <= SectorAt(Clusters) /\ SectorAt(Clusters) \in Nat
    BY <1>1, <1>2, <1>4, VolumeFacts, SectorFacts DEF IInv, RunsInv, Gathered, OpenInv, GatheredUpTo
  <2> QED BY <1>1, <1>3, <2>1, VolumeFacts, SectorFacts
<1>6. \A j \in DOMAIN runs : /\ runs[j].offset \in Nat
                             /\ j > next => End(run) <= runs[j].offset
  <2> SUFFICES ASSUME NEW j \in DOMAIN runs
               PROVE  runs[j].offset \in Nat /\ (j > next => End(run) <= runs[j].offset)
    OBVIOUS
  <2>1. runs[j].offset \in Nat
    BY <1>2, PieceFacts
  <2>2. j > next => End(run) + MiB <= runs[j].offset
    BY <1>1, <1>2, <1>4 DEF IInv, RunsInv, GatheredUpTo
  <2> QED BY <1>3, <2>1, <2>2, SizeAssumption
<1> HIDE DEF run
<1>7. MiB \in Nat /\ MiB <= geo.sectors
  BY <1>1, VolumeFacts
<1>8. End(span) = span.offset /\ span.offset \in Nat /\ DOMAIN image = 0..(geo.length - 1)
  BY <1>1, SpanOf
<1>9. /\ End(span) <= run.offset \/ End(span) <= MiB
      /\ \A j \in DOMAIN runs : j >= next => End(span) <= runs[j].offset \/ End(span) <= MiB
      /\ \A s \in DOMAIN image : image[s] # Nothing => s < span.offset
  BY <1>1, <1>2 DEF IInv, OrderInv, run
<1>10. \A j \in DOMAIN runs : j >= next + 1 <=> j >= next /\ j # next
  BY <1>2
<1>11. next + 1 \in 1..(Len(runs) + 1)
  BY <1>2
<1>12. ChunkInv' /\ OpenInv' /\ RunsInv'
  BY <1>1, CopyFrame
<1>13. EverythingAllocatedCopied' /\ BackupBootInPlace'
  BY <1>1 DEF EverythingAllocatedCopied, BackupBootInPlace
<1>14. \A s \in DOMAIN image : Needed(s) => image[s] = s \/ Remains(s)
  BY <1>1 DEF IInv, CopyInv
<1>15. \A s \in DOMAIN image : ~Within(s, span) /\ s \in Nat
  BY <1>8 DEF Within
<1>16. CASE End(run) <= MiB
  <2>1. span' = span
    BY <1>3, <1>7, <1>16 DEF NextRun, run
  <2>2. TypeOK'
    BY <1>1, <1>11, <2>1 DEF TypeOK, Clusters
  <2>3. OrderInv'
    BY <1>1, <1>9, <1>10, <2>1 DEF IInv, OrderInv, NoShortRead, SourceEnd, End
  <2>4. CopyInv'
    <3> SUFFICES ASSUME NEW s \in DOMAIN image, Needed(s)
                 PROVE  image[s] = s \/ Remains(s)'
      BY <1>1 DEF CopyInv, Needed, SectorsOf, SectorAt
    <3>1. s >= MiB => ~Within(s, run)
      BY <1>3, <1>7, <1>15, <1>16 DEF Within
    <3>2. Remains(s) => Remains(s)'
      BY <1>1, <1>10, <1>15, <2>1, <3>1 DEF Remains, Within, End, run
    <3> QED BY <1>14, <3>2
  <2> QED BY <1>12, <1>13, <2>2, <2>3, <2>4 DEF IInv, WholeCopy
<1>17. CASE End(run) > MiB
  <2>1. span' = Trim(run)
    BY <1>3, <1>7, <1>17 DEF NextRun, run
  <2>2. /\ span' \in [offset : Nat, length : Nat]
        /\ span'.offset \in Nat /\ span'.length \in Nat /\ End(span') = End(run)
        /\ span'.offset + span'.length = End(run)
        /\ run.offset <= span'.offset /\ MiB <= span'.offset
        /\ span'.offset = run.offset \/ span'.offset = MiB
    <3>1. CASE run.offset < MiB
      BY <1>3, <1>7, <1>17, <2>1, <3>1 DEF Trim, Span, End
    <3>2. CASE ~(run.offset < MiB)
      BY <1>3, <1>7, <2>1, <3>2 DEF Trim, Piece, End
    <3> QED BY <3>1, <3>2
  <2>3. TypeOK'
    <3>1. span'.offset \in 0..geo.length /\ span'.length \in 0..geo.length
      BY <1>1, <1>3, <1>5, <2>2, VolumeFacts
    <3>2. span' \in [offset : 0..geo.length, length : 0..geo.length]
      BY <2>2, <3>1
    <3> QED BY <1>1, <1>11, <3>2 DEF TypeOK, Clusters
  <2>4. OrderInv'
    <3>1. NoShortRead'
      BY <1>1, <1>4, <1>5, <2>2 DEF NoShortRead, SourceEnd, End
    <3>2. \A s \in DOMAIN image : image[s] # Nothing => s < span'.offset
      BY <1>3, <1>7, <1>8, <1>9, <1>15, <2>2
    <3>3. \A j \in DOMAIN runs : j >= next + 1 => End(span') <= runs[j].offset
      BY <1>2, <1>6, <2>2
    <3> QED BY <1>1, <3>1, <3>2, <3>3 DEF OrderInv, End
  <2>5. CopyInv'
    <3> SUFFICES ASSUME NEW s \in DOMAIN image, Needed(s)
                 PROVE  image[s] = s \/ Remains(s)'
      BY <1>1 DEF CopyInv, Needed, SectorsOf, SectorAt
    <3>1. s >= MiB /\ Within(s, run) => Within(s, span')
      BY <1>3, <1>7, <1>15, <2>2 DEF Within
    <3>2. Remains(s) => Remains(s)'
      BY <1>1, <1>10, <1>15, <3>1 DEF Remains, Within, End, run
    <3> QED BY <1>14, <3>2
  <2> QED BY <1>12, <1>13, <2>3, <2>4, <2>5 DEF IInv, WholeCopy
<1> QED BY <1>3, <1>7, <1>16, <1>17

\* With nothing left to copy everything needed is in place, and the backup
\* boot sector is no sector of the volume.
LEMMA CopyBackupBootKeeps ==
  ASSUME IInv, CopyBackupBoot
  PROVE  IInv'
<1>1. /\ step = "copy" /\ result = "running" /\ span.length = 0 /\ next \notin DOMAIN runs
      /\ TypeOK
  BY DEF CopyBackupBoot, Do, IInv
<1>2. CASE Fail
  BY <1>1, <1>2, FailKeeps
<1>3. CASE ~Fail
  <2>1. /\ image' = IF strategy = "NtfsBitmap" /\ BackupAt + 1 <= geo.length
                    THEN [image EXCEPT ![BackupAt] = 0] ELSE image
        /\ result' = "done"
        /\ UNCHANGED <<geo, alloc, strategy, step, lcn, stop, open, runs, next, span>>
    BY <1>3 DEF CopyBackupBoot
  <2>2. /\ geo.sectors \in Nat /\ geo.length \in Nat /\ geo.sectors <= geo.length
        /\ MiB \in Nat \ {0} /\ MiB <= geo.sectors
    BY <1>1, VolumeFacts
  <2>3. DOMAIN image = 0..(geo.length - 1) /\ image \in [0..(geo.length - 1) -> Nothing..(geo.length - 1)]
    BY <1>1 DEF TypeOK
  <2>4. ChunkInv' /\ OpenInv' /\ RunsInv'
    BY <1>1, <2>1, CopyFrame
  <2>5. TypeOK'
    <3>1. CASE strategy = "NtfsBitmap" /\ BackupAt + 1 <= geo.length
      <4>1. 0 \in Nothing..(geo.length - 1)
        BY <2>2 DEF Nothing
      <4>2. image' \in [0..(geo.length - 1) -> Nothing..(geo.length - 1)]
        BY <2>1, <2>3, <3>1, <4>1
      <4> QED BY <1>1, <2>1, <4>2 DEF TypeOK, Clusters
    <3>2. CASE ~(strategy = "NtfsBitmap" /\ BackupAt + 1 <= geo.length)
      BY <1>1, <2>1, <3>2 DEF TypeOK, Clusters
    <3> QED BY <3>1, <3>2
  <2>6. OrderInv'
    BY <1>1, <2>1 DEF IInv, OrderInv, NoShortRead, SourceEnd, End
  <2>7. CopyInv'
    BY <2>1 DEF CopyInv
  <2>8. \A s \in DOMAIN image : Needed(s) => image[s] = s
    <3> SUFFICES ASSUME NEW s \in DOMAIN image, Needed(s), image[s] # s PROVE FALSE
      OBVIOUS
    <3>1. Remains(s) /\ s \in Nat
      BY <1>1, <2>2, <2>3 DEF IInv, CopyInv
    <3>2. ~Within(s, span)
      BY <1>1, <3>1, SpanOf DEF Within
    <3>3. \A j \in DOMAIN runs : ~(j >= next)
      <4>1. next \in 1..(Len(runs) + 1) /\ Len(runs) \in Nat /\ DOMAIN runs = 1..Len(runs)
        BY <1>1 DEF TypeOK
      <4> QED BY <1>1, <4>1
    <3> QED BY <3>1, <3>2, <3>3 DEF Remains
  <2>9. BackupBootInPlace'
    BY <2>1, <2>2, <2>3 DEF BackupBootInPlace, BackupAt
  <2>10. EverythingAllocatedCopied'
    <3>1. CASE strategy = "Raw"
      <4>1. \A s \in DOMAIN image : image'[s] = s /\ image' = image
        BY <2>1, <2>8, <3>1 DEF Needed
      <4>2. image' = image
        BY <2>1, <3>1
      <4> QED BY <2>1, <3>1, <4>1, <4>2 DEF EverythingAllocatedCopied
    <3>2. CASE strategy # "Raw"
      <4>1. strategy = "NtfsBitmap"
        BY <1>1, <3>2 DEF TypeOK
      <4> DEFINE needed == (UNION {SectorsOf(c) : c \in alloc}) \cup 0..(MiB - 1)
      <4>2. \A s \in needed : s \in 0..(geo.sectors - 1) /\ Needed(s)
        <5> SUFFICES ASSUME NEW s \in needed PROVE s \in 0..(geo.sectors - 1) /\ Needed(s)
          OBVIOUS
        <5>1. CASE s \in 0..(MiB - 1)
          BY <2>2, <5>1 DEF Needed
        <5>2. CASE \E c \in alloc : s \in SectorsOf(c)
          BY <1>1, <5>2, AllocatedSectors DEF Needed
        <5>3. s \in UNION {SectorsOf(c) : c \in alloc} \/ s \in 0..(MiB - 1)
          OBVIOUS
        <5> HIDE DEF needed
        <5>4. s \in 0..(MiB - 1) \/ \E c \in alloc : s \in SectorsOf(c)
          BY <5>3, Zenon
        <5> QED BY <5>1, <5>2, <5>4
      <4>3. \A s \in 0..(geo.sectors - 1) : s \in DOMAIN image /\ s # BackupAt
        BY <2>2, <2>3 DEF BackupAt
      <4>4. \A s \in DOMAIN image : s # BackupAt => image'[s] = image[s]
        BY <2>1
      <4>5. \A s \in needed : image'[s] = s
        BY <2>8, <4>2, <4>3, <4>4
      <4>6. needed' = needed
        BY <2>1 DEF SectorsOf, SectorAt
      <4> HIDE DEF needed
      <4>7. \A s \in needed' : image'[s] = s
        BY <4>5, <4>6
      <4> QED BY <2>1, <3>2, <4>7 DEF EverythingAllocatedCopied, needed
    <3> QED BY <3>1, <3>2
  <2> QED BY <2>4, <2>5, <2>6, <2>7, <2>9, <2>10 DEF IInv, WholeCopy
<1> QED BY <1>2, <1>3

\* At first nothing has been looked at, and a raw copy has all before it.
LEMMA InitHolds ==
  ASSUME Init
  PROVE  IInv
<1>1. /\ geo \in Geometries /\ alloc \subseteq 0..(Clusters - 1) /\ strategy \in {"Raw", "NtfsBitmap"}
      /\ step = IF strategy = "Raw" THEN "copy" ELSE "bitmap"
      /\ result = "running" /\ lcn = 0 /\ stop = 0 /\ open = NoRun /\ runs = <<>> /\ next = 1
      /\ image = [s \in 0..(geo.length - 1) |-> Nothing]
  BY DEF Init
<1>2. /\ geo.per \in Nat \ {0} /\ geo.sectors \in Nat /\ geo.length \in Nat
      /\ MiB \in Nat /\ geo.sectors <= geo.length /\ Clusters \in Nat
  BY <1>1, GeometryAssumption, SizeAssumption DEF Clusters
<1>3. /\ span = Span(0, IF strategy = "Raw" THEN geo.length ELSE 0)
      /\ span \in [offset : 0..geo.length, length : 0..geo.length] /\ span.offset = 0
      /\ End(span) = IF strategy = "Raw" THEN geo.length ELSE 0
  BY <1>2 DEF Init, Span, End
<1>4. TypeOK
  <2>1. image \in [0..(geo.length - 1) -> Nothing..(geo.length - 1)]
    BY <1>1, <1>2 DEF Nothing
  <2>2. runs \in Seq([offset : Nat, length : Nat \ {0}]) /\ next \in 1..(Len(runs) + 1)
    BY <1>1
  <2> QED BY <1>1, <1>2, <1>3, <2>1, <2>2 DEF TypeOK
<1>5. 0 % Granule = 0
  BY SizeAssumption
<1>6. ChunkInv
  BY <1>1, <1>3, <1>5 DEF ChunkInv
<1>7. \A c \in alloc : c \in Nat
  BY <1>1
<1>8. OpenInv
  BY <1>1, <1>7 DEF OpenInv
<1>9. RunsInv
  <2>1. DOMAIN runs = {}
    BY <1>1
  <2> QED BY <1>1, <1>7, <2>1 DEF RunsInv, GatheredUpTo, Gathered
<1>10. OrderInv
  BY <1>1, <1>2, <1>3 DEF OrderInv, NoShortRead, SourceEnd
<1>11. CopyInv
  BY <1>1, <1>2, <1>3 DEF CopyInv, Remains, Within
<1>12. EverythingAllocatedCopied /\ BackupBootInPlace
  BY <1>1 DEF EverythingAllocatedCopied, BackupBootInPlace
<1> QED BY <1>4, <1>6, <1>8, <1>9, <1>10, <1>11, <1>12 DEF IInv, WholeCopy
-----------------------------------------------------------------------------
(* Theorems *)

\* The invariant holds for any volume, whatever its allocation and however the
\* bitmap is cut into chunks and the copy into buffers.
THEOREM Invariance == Spec => []IInv
<1>1. IInv /\ [Next]_vars => IInv'
  <2> SUFFICES ASSUME IInv, [Next]_vars PROVE IInv'
    OBVIOUS
  <2>1. CASE UNCHANGED vars
    <3> USE <2>1 DEF IInv
    <3>1. TypeOK' /\ ChunkInv' /\ OpenInv'
      BY DEF TypeOK, ChunkInv, OpenInv, Begins, Clusters
    <3>2. RunsInv'
      BY DEF RunsInv, GatheredUpTo, Gathered, Holds, Begins, Ends, SectorAt, Clusters, End
    <3>3. OrderInv'
      BY DEF OrderInv, NoShortRead, SourceEnd, End
    <3>4. CopyInv'
      BY DEF CopyInv, Needed, Remains, Within, SectorsOf, SectorAt, End
    <3>5. WholeCopy'
      BY <3>1 DEF WholeCopy, EverythingAllocatedCopied, BackupBootInPlace, SectorsOf, SectorAt
    <3> QED BY <3>1, <3>2, <3>3, <3>4, <3>5
  <2>2. CASE Next
    BY <2>2, QueryBitmapKeeps, ExamineBitKeeps, EndChunkKeeps, CopyChunkKeeps, NextRunKeeps,
       CopyBackupBootKeeps DEF Next
  <2> QED BY <2>1, <2>2
<1> QED BY <1>1, InitHolds, PTL DEF Spec

\* CopyNtfsBitmap and CopyRawFromDisk lose nothing: after a copy that succeeds
\* every allocated cluster, the head and the backup boot sector are in place.
THEOREM NothingIsLost == Spec => []WholeCopy
<1>1. IInv => WholeCopy
  BY DEF IInv
<1> QED BY <1>1, Invariance, PTL

\* CopySpan is never asked for a sector beyond NumberSectors, or beyond the
\* partition in a raw copy.
THEOREM ReadsStayWithin == Spec => []NoShortRead
<1>1. IInv => NoShortRead
  BY DEF IInv, OrderInv
<1> QED BY <1>1, Invariance, PTL

\* flushRun leaves runs a MiB apart that begin and end where the allocation
\* does, and no sector is copied twice.
THEOREM NothingIsCopiedTwice == Spec => []SpansApart
<1>1. IInv => SpansApart
  <2> SUFFICES ASSUME IInv PROVE SpansApart
    OBVIOUS
  <2>1. RunsApart
    <3>1. CASE strategy = "Raw"
      BY <3>1 DEF IInv, ChunkInv, RunsApart
    <3>2. CASE strategy = "NtfsBitmap"
      BY <3>2 DEF IInv, RunsInv, GatheredUpTo, RunsApart
    <3> QED BY <3>1, <3>2 DEF IInv, TypeOK
  <2>2. CopiedOnce
    <3> SUFFICES ASSUME NEW s \in DOMAIN image, span.offset <= s, s < End(span), image[s] # Nothing
                 PROVE  FALSE
      BY DEF CopiedOnce
    <3>1. TypeOK /\ s \in Nat
      BY VolumeFacts, SpanOf DEF IInv
    <3>2. span.offset \in Nat /\ End(span) = span.offset + span.length
      BY <3>1, SpanOf
    <3>3. span.length # 0
      BY <3>1, <3>2
    <3>4. s < span.offset
      BY <3>3 DEF IInv, OrderInv
    <3> QED BY <3>1, <3>2, <3>4
  <2> QED BY <2>1, <2>2 DEF SpansApart
<1> QED BY <1>1, Invariance, PTL
=============================================================================
