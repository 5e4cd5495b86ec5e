----------------------- MODULE MCWaitForAuraConsensus -----------------------
(* Instantiation of WaitForAuraConsensus for TLC: three concurrent         *)
(* produce_candidate calls, one parent before and one after the runtime    *)
(* upgrade that brings AuraApi.                                            *)
EXTENDS WaitForAuraConsensus

CONSTANTS t1, t2, t3, shellParent, auraParent

MCTasks == {t1, t2, t3}
MCParents == {shellParent, auraParent}
MCAuraParents == {auraParent}
=============================================================================
