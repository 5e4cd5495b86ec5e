--------------------------- MODULE AuraImportQueue ---------------------------
(***************************************************************************)
(* The block-verification half of the consensus-mode selector of          *)
(* src/polkadot-parachains/src/service.rs: Verifier::verify (lines         *)
(* 491-520) in the import queue built by aura_build_import_queue (lines    *)
(* 525-588), whose Aura verifier is a BuildOnAccess (lines 418-434) built  *)
(* on first use by a closure that reads the slot duration at the client's  *)
(* best block (line 550) and unwraps it.                                   *)
(*                                                                         *)
(* The verifier is owned by the BasicQueue and called with &mut self, so   *)
(* blocks are verified one at a time.  A panic in verify ends the import   *)
(* task, an essential task, so the node stops; a restart keeps the         *)
(* database (imported blocks, best block) and rebuilds the verifier.       *)
(***************************************************************************)
EXTENDS Naturals

CONSTANTS
  Blocks,        \* block hashes of the parachain's block tree
  Genesis,       \* the genesis block, imported from the start
  ParentOf,      \* [Blocks \ {Genesis} -> Blocks]
  AuraBlocks,    \* blocks whose runtime state exposes AuraApi
  ProbeMayFail   \* has_api may return Err (state at the parent unavailable)

ASSUME Genesis \in Blocks
ASSUME ParentOf \in [Blocks \ {Genesis} -> Blocks]
ASSUME AuraBlocks \subseteq Blocks
ASSUME ProbeMayFail \in BOOLEAN

VARIABLES
  imported,       \* blocks in the database
  best,           \* the client's best block
  running,        \* the node process is up
  auraVerifier,   \* the BuildOnAccess holding the Aura verifier
  panicked,       \* history: the import task has panicked
  relayVerified   \* history: blocks on an Aura parent the relay verifier took

vars == <<imported, best, running, auraVerifier, panicked, relayVerified>>

BuildOnAccessStates == {"Uninitialized", "Taken", "Initialized"}

TypeOK ==
  /\ imported \subseteq Blocks
  /\ best \in imported
  /\ running \in BOOLEAN
  /\ auraVerifier \in BuildOnAccessStates
  /\ panicked \in BOOLEAN
  /\ relayVerified \subseteq imported

Init ==
  /\ imported = {Genesis}
  /\ best = Genesis
  /\ running = TRUE
  /\ auraVerifier = "Uninitialized"
  /\ panicked = FALSE
  /\ relayVerified = {}

(* has_api::<dyn AuraApi<..>>(parent_hash).unwrap_or(false) (lines       *)
(* 509-513): the outcomes of the probe; an Err reads as false.             *)
HasAuraApi(p) ==
  IF ProbeMayFail THEN {p \in AuraBlocks, FALSE} ELSE {p \in AuraBlocks}

(* slot_duration(&*client2) reads AuraApi at the best block; the builder   *)
(* unwraps the result, so it returns only when the best block has Aura.    *)
SlotDurationOk == best \in AuraBlocks

(* BasicQueue imports the verified block.  The block becomes the best     *)
(* block when imported in initial sync (fork choice Custom(true)); else    *)
(* the best block stays until the relay chain moves it.                    *)
ImportBlock(b) ==
  /\ imported' = imported \cup {b}
  /\ best' \in {best, b}

(* Verifier::verify(b) and the import that follows it.  Without Aura at   *)
(* the parent the relay-chain verifier accepts the block.  With Aura,      *)
(* aura_verifier.get_mut() either returns the built verifier, or takes     *)
(* the closure and runs it: with the slot duration it builds the verifier, *)
(* without it the unwrap panics and the node stops, leaving                *)
(* Uninitialized(None) behind; on Uninitialized(None) the unwrap of the    *)
(* taken closure panics.                                                   *)
Verify(b) ==
  /\ running
  /\ b \notin imported
  /\ ParentOf[b] \in imported
  /\ \E hasApi \in HasAuraApi(ParentOf[b]) :
       \/ /\ ~hasApi
          /\ ImportBlock(b)
          /\ relayVerified' = IF ParentOf[b] \in AuraBlocks
                              THEN relayVerified \cup {b} ELSE relayVerified
          /\ UNCHANGED <<running, auraVerifier, panicked>>
       \/ /\ hasApi
          /\ auraVerifier = "Initialized"
          /\ ImportBlock(b)
          /\ UNCHANGED <<running, auraVerifier, panicked, relayVerified>>
       \/ /\ hasApi
          /\ auraVerifier = "Uninitialized"
          /\ SlotDurationOk
          /\ auraVerifier' = "Initialized"
          /\ ImportBlock(b)
          /\ UNCHANGED <<running, panicked, relayVerified>>
       \/ /\ hasApi
          /\ \/ auraVerifier = "Uninitialized" /\ ~SlotDurationOk
             \/ auraVerifier = "Taken"
          /\ auraVerifier' = "Taken"
          /\ running' = FALSE
          /\ panicked' = TRUE
          /\ UNCHANGED <<imported, best, relayVerified>>

(* A follower that set any reported head as best, imported or not.        *)
FollowRelayBestUnchecked(b) ==
  /\ running
  /\ best' = b
  /\ UNCHANGED <<imported, running, auraVerifier, panicked, relayVerified>>

(* The relay-chain follower sets the best block to the head the relay     *)
(* chain reports; that may be any imported block, also one on another     *)
(* fork or behind the blocks being imported.                               *)
FollowRelayBest(b) ==
  /\ running
  /\ b \in imported
  /\ best' = b
  /\ UNCHANGED <<imported, running, auraVerifier, panicked, relayVerified>>

(* The stopped node is started again: the database survives, the import   *)
(* queue and its verifier are built anew by aura_build_import_queue.       *)
Restart ==
  /\ ~running
  /\ running' = TRUE
  /\ auraVerifier' = "Uninitialized"
  /\ UNCHANGED <<imported, best, panicked, relayVerified>>

Next ==
  \/ \E b \in Blocks \ {Genesis} : Verify(b)
  \/ \E b \in Blocks : FollowRelayBest(b)
  \/ Restart

(* The network and the sync service deliver every block whose parent is   *)
(* known, and a stopped node is restarted by its supervisor.               *)
Fairness ==
  /\ \A b \in Blocks \ {Genesis} : WF_vars(Verify(b))
  /\ WF_vars(Restart)

Spec == Init /\ [][Next]_vars /\ Fairness

-----------------------------------------------------------------------------
(* The import task never panics: building the Aura verifier on the first  *)
(* block whose parent has Aura fails, if at all, for that block only       *)
(* (spec 4.5, 7), never for the node.                                      *)
ImportNeverPanics == ~panicked

(* A panic of the verifier builder is transient: once the relay chain     *)
(* keeps a post-upgrade block as best, the restarted node imports every    *)
(* block of the tree.                                                      *)
RecoversOnceBestHasAura ==
  (<>[](best \in AuraBlocks)) => \A b \in Blocks : <>(b \in imported)

(* Every block built on a post-upgrade parent is checked by the Aura      *)
(* verifier (author and slot); none is imported through the relay-chain    *)
(* verifier, which accepts any block, when has_api fails at its parent     *)
(* (spec 4.5: a probe failure fails the verification of that block).       *)
AuraEraBlocksAuraVerified == relayVerified = {}

=============================================================================
