----------------------------- MODULE MCXcmAssets -----------------------------
(* Instantiation of XcmAssets for TLC: every MultiLocation with at most 2  *)
(* parents and 3 junctions drawn from this chain, a sibling, the TEER key, *)
(* another key and an account.                                             *)
EXTENDS XcmAssets

CONSTANTS selfPara, otherPara, teerKey, otherKey, accountKey
=============================================================================
