---------------------------- MODULE MCNodeStartup ----------------------------
(* Instantiation of NodeStartup for TLC: the block tree of                 *)
(* MCAuraImportQueue, an upgrade to Aura enacted in a1 and a fork without  *)
(* it.                                                                     *)
(*                                                                         *)
(*          g <- a1 <- a2 <- a3      (a1, a2, a3 have AuraApi)             *)
(*          g <- b1                                                        *)
EXTENDS NodeStartup, TLC

CONSTANTS g, a1, a2, a3, b1

MCBlocks == {g, a1, a2, a3, b1}
MCParentOf == (a1 :> g) @@ (a2 :> a1) @@ (a3 :> a2) @@ (b1 :> g)
MCAuraBlocks == {a1, a2, a3}

=============================================================================
