---------------------------- MODULE MCBTSTransfer ----------------------------
(***************************************************************************)
(* Instances of BTSTransfer for TLC.                                       *)
(***************************************************************************)
EXTENDS BTSTransfer, TLC

\* ICX: native coin of ICON; BNB: native coin of the EVM chain; TOK: a token
\* of ICON.
CONSTANTS ICX, BNB, TOK

Natives     == <<BNB, ICX>>
NativeToken == <<BNB, TOK>>
OnlyBNB     == <<BNB>>
OnlyICX     == <<ICX>>
=============================================================================
