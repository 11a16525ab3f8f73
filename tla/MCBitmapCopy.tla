---------------------------- MODULE MCBitmapCopy ----------------------------
(***************************************************************************)
(* TLC instance of BitmapCopy: every bitmap of up to eight clusters, with  *)
(* chunks of four bits, so that a run crosses a chunk and three runs keep  *)
(* or lose the gaps between them; clusters of one and two sectors; volumes *)
(* that end at the partition, short of it, and inside a cluster.           *)
(***************************************************************************)
EXTENDS BitmapCopy

MCGeometries ==
  {[per |-> 1, sectors |-> 8, length |-> 9],
   [per |-> 1, sectors |-> 7, length |-> 7],
   [per |-> 2, sectors |-> 13, length |-> 16]}
=============================================================================
