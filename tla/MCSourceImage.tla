--------------------------- MODULE MCSourceImage ----------------------------
(***************************************************************************)
(* TLC instance of SourceImage: two partitions of two blocks and two       *)
(* writes are the least with which an image can be torn, within a volume   *)
(* and across the snapshot set.                                            *)
(***************************************************************************)
EXTENDS SourceImage
=============================================================================
