---------------------------- MODULE MCXcmTransfer ----------------------------
(* Instantiation of XcmTransfer for TLC: the relay chain and one sibling   *)
(* send transfers naming TEER in both forms, the TEER key under the        *)
(* sibling and a sibling token; the two sovereign accounts start with 2    *)
(* TEER each.                                                              *)
EXTENDS XcmTransfer

CONSTANTS selfPara, otherPara, teerKey, otherKey, accountKey
=============================================================================
