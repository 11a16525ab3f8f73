----------------------------- MODULE BitmapCopy -----------------------------
(***************************************************************************)
(* CopyEngine (copy.cpp): one partition is copied, raw through the disk    *)
(* handle or by the NTFS volume bitmap.  The bitmap arrives in chunks; its *)
(* allocated clusters are gathered into runs, near runs are merged, and    *)
(* the head of the volume, the runs and the backup boot sector are copied  *)
(* through a buffer of limited size.  All lengths are in sectors, all      *)
(* offsets relative to the partition.                                      *)
(***************************************************************************)
EXTENDS Integers, Sequences

CONSTANTS
  Geometries,  \* [per: sectors per cluster, sectors: NumberSectors, length: of the partition]
  MiB,         \* kMiB in sectors
  ChunkBits,   \* bits of the bitmap one FSCTL_GET_VOLUME_BITMAP returns
  Granule,     \* NTFS rounds the starting cluster down to a multiple of this
  Buffer       \* kChunk in sectors

\* NTFS keeps the backup boot sector beyond NumberSectors, and is never
\* formatted on less than a MiB.
ASSUME GeometryAssumption ==
  \A g \in Geometries :
    /\ g.per \in Nat \ {0} /\ g.sectors \in Nat /\ g.length \in Nat
    /\ MiB <= g.sectors /\ g.sectors <= g.length
ASSUME SizeAssumption ==
  MiB \in Nat \ {0} /\ Buffer \in Nat \ {0} /\ Granule \in Nat \ {0}
ASSUME ChunkAssumption == ChunkBits \in Nat \ {0} /\ ChunkBits % Granule = 0

VARIABLES
  geo, alloc,   \* the volume: its geometry and its allocated clusters
  strategy,     \* CopyStrategy of the partition
  step, result,
  lcn, stop,    \* the cluster looked at next, and the end of the chunk it is in
  open,         \* the run being gathered: first cluster and number of clusters
  runs, next,   \* the runs gathered, and which of them is copied next
  span,         \* what CopySpan has still to copy
  image         \* per sector of the clone: the source sector it shows

volVars == <<geo, alloc, strategy>>
mapVars == <<lcn, stop, open, runs>>
vars    == <<volVars, step, result, mapVars, next, span, image>>

Clusters == geo.sectors \div geo.per
NoRun    == [start |-> -1, count |-> 0]
Nothing  == -1
Span(from, to) == [offset |-> from, length |-> to - from]
End(piece) == piece.offset + piece.length
Least(a, b) == IF a < b THEN a ELSE b

Init ==
  /\ geo \in Geometries
  /\ alloc \in SUBSET (0..(Clusters - 1))
  /\ strategy \in {"Raw", "NtfsBitmap"}
  /\ step = IF strategy = "Raw" THEN "copy" ELSE "bitmap"
  /\ result = "running"
  /\ lcn = 0 /\ stop = 0 /\ open = NoRun
  /\ runs = <<>> /\ next = 1
  /\ span = Span(0, IF strategy = "Raw" THEN geo.length ELSE 0)
  /\ image = [s \in 0..(geo.length - 1) |-> Nothing]
-----------------------------------------------------------------------------
Do(s) == result = "running" /\ step = s

\* Cancelled, or an operation failed.
Fail ==
  /\ result' = "failed"
  /\ UNCHANGED <<volVars, step, mapVars, next, span, image>>

\* The run open at the end of a chunk goes on in the next one.
CarryForgotten == NoRun   \* mutant: the run is begun anew with every chunk
Carry == open

\* The bits of the chunk that starts at `base' that stand for a cluster.
UsableBits(base) == Least(Clusters - base, ChunkBits)

\* One FSCTL_GET_VOLUME_BITMAP.
QueryBitmap ==
  /\ Do("bitmap")
  /\ \/ Fail
     \/ /\ lcn' = lcn - (lcn % Granule)
        /\ stop' = lcn' + UsableBits(lcn')
        /\ open' = Carry
        /\ step' = "scan"
        /\ UNCHANGED <<volVars, result, runs, next, span, image>>

\* flushRun: the open run is appended, or merged with the last one if less
\* than a MiB lies between.
SectorAt(cluster) == cluster * geo.per
OpenRun == Span(SectorAt(open.start), SectorAt(open.start + open.count))
Bridges(gap) == gap < MiB
Bridged ==
  /\ open # NoRun
  /\ runs # <<>>
  /\ Bridges(OpenRun.offset - End(runs[Len(runs)]))
FlushRun ==
  \/ open = NoRun /\ UNCHANGED runs
  \/ Bridged /\ runs' = [runs EXCEPT ![Len(runs)] = Span(@.offset, End(OpenRun))]
  \/ open # NoRun /\ ~Bridged /\ runs' = Append(runs, OpenRun)

\* One bit of the bitmap.
Continues == open # NoRun /\ lcn = open.start + open.count
ExamineBit ==
  /\ Do("scan")
  /\ lcn < stop
  /\ lcn' = lcn + 1
  /\ \/ /\ lcn \in alloc /\ Continues
        /\ open' = [open EXCEPT !.count = @ + 1]
        /\ UNCHANGED runs
     \/ /\ lcn \in alloc /\ ~Continues
        /\ FlushRun
        /\ open' = [start |-> lcn, count |-> 1]
     \/ lcn \notin alloc /\ FlushRun /\ open' = NoRun
  /\ UNCHANGED <<volVars, step, result, stop, next, span, image>>

\* After the last chunk the open run is flushed, and the head of the volume
\* is copied.
EndChunk ==
  /\ Do("scan")
  /\ lcn = stop
  /\ \/ lcn < Clusters /\ step' = "bitmap" /\ UNCHANGED <<open, runs, span>>
     \/ /\ lcn >= Clusters
        /\ FlushRun /\ open' = NoRun
        /\ span' = Span(0, Least(MiB, geo.length))
        /\ step' = "copy"
  /\ UNCHANGED <<volVars, result, lcn, stop, next, image>>

\* A volume cannot be read beyond NumberSectors; the disk can.
SourceEnd == IF strategy = "Raw" THEN geo.length ELSE geo.sectors

\* CopySpan: what is left of a span once a buffer of it has been copied.
Rest(piece, n) == Span(piece.offset + n, End(piece))

CopyChunk ==
  /\ Do("copy")
  /\ span.length > 0
  /\ LET n     == Least(span.length, Buffer)
         chunk == span.offset..(span.offset + n - 1)
     IN  \/ Fail
         \/ /\ span.offset + n <= SourceEnd
            /\ image' = [s \in DOMAIN image |-> IF s \in chunk THEN s ELSE image[s]]
            /\ span' = Rest(span, n)
            /\ UNCHANGED <<volVars, step, result, mapVars, next>>

\* What of a run the copy of the head has not covered.
TrimUnshortened(run) ==   \* mutant: the offset moves, the length stays
  IF run.offset < MiB THEN [offset |-> MiB, length |-> run.length] ELSE run
UntrimmedRun(run) == run   \* mutant: the head is copied again
Trim(run) == IF run.offset < MiB THEN Span(MiB, End(run)) ELSE run

NextRun ==
  /\ Do("copy")
  /\ span.length = 0 /\ next \in DOMAIN runs
  /\ next' = next + 1
  /\ \/ End(runs[next]) <= MiB /\ UNCHANGED span
     \/ End(runs[next]) > MiB /\ span' = Trim(runs[next])
  /\ UNCHANGED <<volVars, step, result, mapVars, image>>

\* The backup boot sector is a copy of sector 0, if the partition has room.
BackupAt == geo.sectors
CopyBackupBoot ==
  /\ Do("copy")
  /\ span.length = 0 /\ next \notin DOMAIN runs
  /\ \/ strategy = "NtfsBitmap" /\ Fail
     \/ /\ image' = IF strategy = "NtfsBitmap" /\ BackupAt + 1 <= geo.length
                    THEN [image EXCEPT ![BackupAt] = 0] ELSE image
        /\ result' = "done"
        /\ UNCHANGED <<volVars, step, mapVars, next, span>>

Next ==
  \/ QueryBitmap \/ ExamineBit \/ EndChunk
  \/ CopyChunk \/ NextRun \/ CopyBackupBoot

Spec == Init /\ [][Next]_vars
-----------------------------------------------------------------------------
(* Properties *)

\* The variables stay in their types.
TypeOK ==
  /\ geo \in Geometries
  /\ alloc \subseteq 0..(Clusters - 1)
  /\ strategy \in {"Raw", "NtfsBitmap"}
  /\ step \in {"bitmap", "scan", "copy"}
  /\ result \in {"running", "done", "failed"}
  /\ lcn \in 0..Clusters /\ stop \in 0..Clusters
  /\ open \in [start : Nat, count : Nat \ {0}] \cup {NoRun}
  /\ runs \in Seq([offset : Nat, length : Nat \ {0}])
  /\ next \in 1..(Len(runs) + 1)
  /\ span \in [offset : 0..geo.length, length : 0..geo.length]
  /\ image \in [0..(geo.length - 1) -> Nothing..(geo.length - 1)]

SectorsOf(cluster) == SectorAt(cluster)..(SectorAt(cluster + 1) - 1)

\* However the bitmap falls into chunks and the runs into buffers, a copy that
\* succeeds holds every allocated cluster of the volume, or all of the partition.
EverythingAllocatedCopied ==
  result = "done" =>
    LET needed == IF strategy = "Raw" THEN DOMAIN image
                  ELSE (UNION {SectorsOf(c) : c \in alloc}) \cup 0..(MiB - 1)
    IN  \A s \in needed : image[s] = s

\* The sector at NumberSectors shows the primary boot sector, also when the
\* copy of the head or of the last run comes near it.
BackupBootInPlace ==
  result = "done" /\ strategy = "NtfsBitmap" /\ geo.sectors < geo.length =>
    image[geo.sectors] = 0

\* No read goes past the end of the volume, where it would fail a good copy.
NoShortRead == End(span) <= SourceEnd

\* Runs less than a MiB apart have been merged, across chunks too; they begin
\* and end where the allocation does.
Begins(cluster) == cluster \in alloc /\ cluster - 1 \notin alloc
Ends(cluster)   == cluster - 1 \in alloc /\ cluster \notin alloc
RunsApart ==
  /\ \A i, j \in DOMAIN runs : i < j => End(runs[i]) + MiB <= runs[j].offset
  /\ \A i \in DOMAIN runs :
       /\ \E c \in 0..Clusters : Begins(c) /\ runs[i].offset = SectorAt(c)
       /\ \E c \in 0..Clusters : Ends(c) /\ End(runs[i]) = SectorAt(c)

\* Nothing is copied twice, the head least of all.
CopiedOnce ==
  \A s \in DOMAIN image : span.offset <= s /\ s < End(span) => image[s] = Nothing

\* Everything the file system needs is in its place.
WholeCopy == TypeOK /\ EverythingAllocatedCopied /\ BackupBootInPlace

\* What is copied is neither split nor repeated.
SpansApart == RunsApart /\ CopiedOnce
=============================================================================
