------------------------------ MODULE MCBTPLink ------------------------------
(***************************************************************************)
(* Instances of BTPLink for TLC.                                           *)
(***************************************************************************)
EXTENDS BTPLink, TLC

RelaySymmetry == Permutations(Relays)

\* Without the two histories of a relay's statuses, on which no step depends.
SafetyView == <<srcVars, pc, subVars, srcMsg, txBlockHeight, tx, newMsg, retryCount,
                sentVars, crashes, pool, dstVars>>
=============================================================================
