-------------------------- MODULE MCFinalizeNewIds --------------------------
(***************************************************************************)
(* TLC instance of FinalizeNewIds: three drive letters are enough for two  *)
(* temporary mounts and a letter another process takes in between; with    *)
(* fewer letters the searches run out of them.                             *)
(***************************************************************************)
EXTENDS FinalizeNewIds

MCLetters == 1..3
=============================================================================
