-------------------------------- MODULE Sums --------------------------------
(***************************************************************************)
(* Sums of numbers over finite sets.                                       *)
(***************************************************************************)
EXTENDS Integers, FiniteSets, FiniteSetsExt

\* The sum of F[x] over the elements x of S.
Sum(F, S) == MapThenSumSet(LAMBDA x : F[x], S)
=============================================================================
