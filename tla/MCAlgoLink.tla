----------------------------- MODULE MCAlgoLink -----------------------------
(***************************************************************************)
(* Instances of AlgoLink for TLC.                                          *)
(***************************************************************************)
EXTENDS AlgoLink, TLC

\* A group of three calls is full.  In the first instance the second receipt
\* of ICON does not fit with the first; in the second both messages to ICON
\* are of one round; in the third there are three messages in two rounds and
\* nothing for Algorand; in the fourth a message to another BMC is in the way.
\* The last round is never looked at.
FourChains ==
    {[icon |-> <<[height |-> 1, first |-> 1, last |-> 2],
                 [height |-> 2, first |-> 3, last |-> 3]>>,
      algo |-> <<<<1>>, <<>>>>],
     [icon |-> <<[height |-> 1, first |-> 1, last |-> 2]>>,
      algo |-> <<<<1, 2>>, <<>>>>],
     [icon |-> <<>>,
      algo |-> <<<<1, 2>>, <<3>>, <<>>>>],
     [icon |-> <<>>,
      algo |-> <<<<0>>, <<1>>, <<>>>>]}
=============================================================================
