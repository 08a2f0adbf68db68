------------------------------- MODULE Select -------------------------------
(***************************************************************************)
(* The elements of a sequence at some of its positions.  It is what a      *)
(* filter computes (SelectSeq), written without recursion, so that it can  *)
(* be reasoned about.                                                      *)
(***************************************************************************)
EXTENDS Integers, Sequences, FiniteSets

\* The position in I that has k - 1 others of I before it.
Place(I, k) == CHOOSE i \in I : Cardinality({j \in I : j <= i}) = k

\* The elements of s at the positions in I, in order.
Keep(s, I) == [k \in 1 .. Cardinality(I) |-> s[Place(I, k)]]
=============================================================================
