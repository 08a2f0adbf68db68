--------------------------- MODULE MCBlockReceiver ---------------------------
(***************************************************************************)
(* Instances of BlockReceiver for TLC.                                     *)
(***************************************************************************)
EXTENDS BlockReceiver, TLC
=============================================================================
