--------------------------- MODULE MCNearReceiver ---------------------------
(***************************************************************************)
(* Instances of NearReceiver for TLC.                                      *)
(***************************************************************************)
EXTENDS NearReceiver, TLC

CONSTANT none

TwoStakes == <<<<2, 1, 1>>, <<1, 1, 2>>>>

Made(prev, epoch, approvals, events) ==
    [prev |-> prev, epoch |-> epoch, approvals |-> approvals, events |-> events]

Yes == <<TRUE, TRUE, FALSE>>     \* enough in the first epoch
Two == <<FALSE, TRUE, TRUE>>     \* enough in the second epoch

\* Half of the stake of the first epoch, in a full list and in a short one,
\* which is accepted, and a short one that is not.
Altered == {<<TRUE, FALSE, FALSE>>, <<TRUE>>, <<FALSE, TRUE>>}

\* An epoch that ends at a height without a block and events behind it, and
\* an epoch that ends in the blocks that are only synchronised.
TwoChains ==
    {<<Made(0, 1, Yes, <<>>), Made(1, 1, Yes, <<1>>), none,
       Made(2, 2, Two, <<0, 2, 3>>), Made(4, 2, Two, <<>>)>>,
     <<Made(0, 1, Yes, <<>>), none, Made(1, 2, Two, <<>>),
       Made(3, 2, Two, <<1, 2>>), Made(4, 2, Two, <<3>>)>>}
=============================================================================
