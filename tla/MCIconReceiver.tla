--------------------------- MODULE MCIconReceiver ---------------------------
(***************************************************************************)
(* Instances of IconReceiver for TLC.                                      *)
(***************************************************************************)
EXTENDS IconReceiver, TLC

\* The validators change with the block of height 4: of three one stays.
Change4 == [h \in 1 .. MaxHeight + 1 |->
               IF h < 4 THEN {"a", "b", "c"} ELSE {"b", "d", "e"}]
=============================================================================
