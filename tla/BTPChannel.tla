----------------------------- MODULE BTPChannel -----------------------------
(***************************************************************************)
(* What one direction of a BTP link promises to the services on top of it: *)
(* a reliable first-in first-out channel.  The messages the source BMC     *)
(* emits on the link are numbered 1, 2, 3, ... by its txSeq; the           *)
(* destination BMC dispatches them in that order, each one once, several   *)
(* in one transaction if the relay batched them.                           *)
(***************************************************************************)
EXTENDS Naturals

VARIABLES
    sent,       \* how many messages the source BMC has emitted (txSeq)
    received    \* how many the destination BMC has dispatched (rxSeq)

chanVars == <<sent, received>>

ChanInit == sent = 0 /\ received = 0

\* BMC.sendMessage, on the source chain.
ChanSend == sent' = sent + 1 /\ UNCHANGED received

\* One committed BMC.handleRelayMessage, on the destination chain.
ChanReceive ==
    /\ received' \in (received + 1) .. sent
    /\ UNCHANGED sent

ChanNext == ChanSend \/ ChanReceive

\* Nothing is dispatched twice, out of order or before it was emitted ...
ChanSafety == ChanInit /\ [][ChanNext]_chanVars

\* ... and what was emitted is dispatched eventually.
ChanSpec == ChanSafety /\ WF_chanVars(ChanReceive)
=============================================================================
