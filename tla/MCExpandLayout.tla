--------------------------- MODULE MCExpandLayout ---------------------------
(***************************************************************************)
(* TLC instance of ExpandLayout: three partitions, the first at one MiB,   *)
(* with a unit of a third of a MiB.  A Windows partition ends beyond       *)
(* N + 1 MiB.  What an MBR can describe starts below 2 TiB and is shorter  *)
(* than 2 TiB, but may end beyond.                                         *)
(***************************************************************************)
EXTENDS ExpandLayout

MCN    == 3
MCMiB  == 3
MCCap  == 24
MCWord == 192
MCTargetSizes == {12, 20, 26, 27, 28, 33, 40}

\* Sequences of lengths, with a gap before the last partition.
Make(a, b, c, gap, w, g) ==
  [off |-> <<3, 3 + a, 3 + a + b + gap>>, len |-> <<a, b, c>>, win |-> w, gpt |-> g]
AnySources ==
  {Make(a, b, c, gap, w, g) : a \in {1, 2, 4, 7, 10}, b \in {1, 3, 5, 10, 13},
     c \in {1, 2, 4, 13, 27}, gap \in {0, 2}, w \in 1..3, g \in BOOLEAN}

LegalSources ==
  {s \in AnySources :
     /\ s.off[s.win] + s.len[s.win] >= (MCN + 1) * MCMiB
     /\ s.gpt \/ \A k \in 1..MCN : s.off[k] < MCCap /\ s.len[k] < MCCap}

\* Without the MBR disks that reach beyond 2 TiB.
RealisticSources == {s \in LegalSources : s.gpt \/ s.off[3] + s.len[3] <= MCCap}
=============================================================================
