------------------------- MODULE MCAuraImportQueue -------------------------
(* Instantiation of AuraImportQueue for TLC: a block tree with a runtime   *)
(* upgrade to Aura enacted in a1 and a fork b1 <- b2 without it.           *)
(*                                                                         *)
(*          g <- a1 <- a2 <- a3      (a1, a2, a3 have AuraApi)             *)
(*          g <- b1 <- b2                                                  *)
EXTENDS AuraImportQueue, TLC

CONSTANTS g, a1, a2, a3, b1, b2

MCBlocks == {g, a1, a2, a3, b1, b2}
MCParentOf == (a1 :> g) @@ (a2 :> a1) @@ (a3 :> a2) @@ (b1 :> g) @@ (b2 :> b1)
MCAuraBlocks == {a1, a2, a3}

=============================================================================
