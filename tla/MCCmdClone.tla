----------------------------- MODULE MCCmdClone -----------------------------
(***************************************************************************)
(* TLC instance of CmdClone: the approved pair of disks and a third one    *)
(* that can take either's number.                                          *)
(***************************************************************************)
EXTENDS CmdClone

CONSTANT Other

MCDev == {S, T, Other}

\* Disks are swapped while the prompt waits for the user.
DuringPrompt == {"confirm"}
=============================================================================
