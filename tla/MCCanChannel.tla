---------------------------- MODULE MCCanChannel ----------------------------
(***************************************************************************)
(* Instances of CanChannel: the .cfg files choose how many interfaces      *)
(* there are and whether the two threads interleave.                       *)
(***************************************************************************)
EXTENDS CanChannel
=============================================================================
