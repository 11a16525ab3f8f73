---------------------------- MODULE ExpandLayout ----------------------------
(***************************************************************************)
(* The layout of the target (BuildClonePlan, layout.cpp): the size check   *)
(* and, with --expand, the loop that packs the trailing partitions at the  *)
(* end of the target and gives what is left to the Windows partition.      *)
(* Sizes are counted in a unit of which a MiB is a multiple; uint64_t      *)
(* subtraction wraps.                                                      *)
(***************************************************************************)
EXTENDS Integers

CONSTANTS
  N,            \* partitions of the source
  Sources,      \* layouts of the source disk
  TargetSizes,  \* sizes of the target disk
  MiB,          \* a MiB, in units
  Cap,          \* 2 TiB, the end of what an MBR can address
  Word          \* one more than the largest uint64_t

Parts == 1..N

\* Partitions are not empty, sorted by offset and do not overlap.
IsLayout(s) ==
  /\ s.off \in [Parts -> Nat] /\ s.len \in [Parts -> Nat \ {0}]
  /\ s.win \in Parts /\ s.gpt \in BOOLEAN
  /\ \A j, k \in Parts : j < k => s.off[j] + s.len[j] <= s.off[k]

ASSUME UnitAssumption ==
  /\ N \in Nat \ {0} /\ MiB \in Nat \ {0}
  /\ Cap \in Nat /\ Cap % MiB = 0
  /\ Word \in Nat /\ Word % MiB = 0
ASSUME SourceAssumption == \A s \in Sources : IsLayout(s)
ASSUME TargetAssumption == TargetSizes \subseteq 0..(Word - 1)

VARIABLES
  src,       \* the source layout, and which partition is Windows
  size,      \* size of the target
  expand,    \* --expand
  step,      \* "size", "loop", "check", then "planned" or "refused"
  i,         \* loop index, downwards
  cursor,    \* start of what is packed so far
  off, len   \* the target layout

vars == <<src, size, expand, step, i, cursor, off, len>>

AlignUp(v)   == v + ((MiB - (v % MiB)) % MiB)   \* mutant of AlignDown
AlignDown(v) == v - (v % MiB)
Minus(a, b)  == (a - b) % Word       \* uint64_t subtraction
Reserve      == IF src.gpt THEN MiB ELSE 0
SrcEnd(k)    == src.off[k] + src.len[k]
WinEnd       == SrcEnd(src.win)
Moves(k)     == src.off[k] # src.off[src.win]   \* mutant: any other partition
Trails(k)    == src.off[k] > src.off[src.win]

\* Where the target may be used to: capped on MBR disks.
UnreservedEnd ==   \* mutant: the GPT reserve is forgotten
  IF ~src.gpt /\ AlignDown(size) > Cap THEN Cap ELSE AlignDown(size)
UsableEnd ==
  LET end == AlignDown(size - Reserve)
  IN  IF ~src.gpt /\ end > Cap THEN Cap ELSE end

Init ==
  /\ src \in Sources
  /\ size \in TargetSizes
  /\ expand \in BOOLEAN
  /\ step = "size"
  /\ i = N
  /\ cursor = 0
  /\ off = src.off /\ len = src.len

\* The largest end of a partition is the last one's.
CheckSize ==
  /\ step = "size"
  /\ IF size < SrcEnd(N) + Reserve
     THEN step' = "refused" /\ UNCHANGED cursor
     ELSE /\ step' = IF expand THEN "loop" ELSE "planned"
          /\ cursor' = IF expand THEN UsableEnd ELSE cursor
  /\ UNCHANGED <<src, size, expand, i, off, len>>

\* for (i = size; i-- > 0;)
Previous == i - 1

Skip ==
  /\ step = "loop" /\ i > 0
  /\ ~Trails(i)
  /\ i' = Previous
  /\ UNCHANGED <<src, size, expand, step, cursor, off, len>>

Relocate ==
  /\ step = "loop" /\ i > 0
  /\ Trails(i)
  /\ cursor' = AlignDown(Minus(cursor, src.len[i]))
  /\ off' = [off EXCEPT ![i] = cursor']
  /\ len' = [len EXCEPT ![i] = src.len[i]]
  /\ i' = Previous
  /\ UNCHANGED <<src, size, expand, step>>

\* The Windows partition does not shrink.
Fits == cursor >= WinEnd

\* Refuse, or give the Windows partition everything up to the cursor.
GrowWindows ==
  /\ step = "loop" /\ i = 0
  /\ \/ /\ ~Fits
        /\ step' = "refused"
        /\ UNCHANGED len
     \/ /\ Fits
        /\ step' = "planned"
        /\ len' = [len EXCEPT ![src.win] = cursor - src.off[src.win]]
  /\ UNCHANGED <<src, size, expand, i, cursor, off>>

Next == CheckSize \/ Skip \/ Relocate \/ GrowWindows

Spec == Init /\ [][Next]_vars
-----------------------------------------------------------------------------
(* Properties *)

\* The variables stay in their types.
TypeOK ==
  /\ src \in Sources /\ size \in TargetSizes /\ expand \in BOOLEAN
  /\ step \in {"size", "loop", "planned", "refused"}
  /\ i \in 0..N
  /\ cursor \in Nat
  /\ off \in [Parts -> Nat] /\ len \in [Parts -> Nat]

Planned == step = "planned"

\* The planned partitions keep their order and do not overlap, although each
\* start is rounded down to a MiB and sizes need not be multiples of one
\* (layout.cpp: "AlignDown keeps every start MiB-aligned and non-overlapping").
NonOverlapping ==
  Planned => \A j, k \in Parts : j < k => off[j] + len[j] <= off[k]

\* Every partition ends on the target, before its GPT reserve, and none that
\* --expand has moved or grown ends beyond what an MBR can address.
WithinTarget ==
  Planned => \A k \in Parts :
    /\ off[k] + len[k] <= size - Reserve
    /\ expand /\ ~src.gpt => off[k] + len[k] <= Cap

\* Each partition is as long as its data needs: the copy of a partition
\* writes src.len bytes at its new offset.
DataFits == Planned => \A k \in Parts : len[k] >= src.len[k]

\* Only the Windows partition grows, and only partitions behind it move.
OnlyWindowsGrows ==
  Planned => \A k \in Parts :
    /\ k # src.win => len[k] = src.len[k]
    /\ k <= src.win => off[k] = src.off[k]
    /\ off[k] # src.off[k] => off[k] % MiB = 0

\* Lengths and places are the source's but for what --expand is to change.
LengthsKept == TypeOK /\ DataFits /\ OnlyWindowsGrows
=============================================================================
