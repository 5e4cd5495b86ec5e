----------------------------- MODULE NodeStartup -----------------------------
(***************************************************************************)
(* The life of the node process of src/polkadot-parachains/src/service.rs: *)
(* start_node_impl (lines 218-416) run by start_generic_aura_node (lines   *)
(* 592-693), composed with the import queue of AuraImportQueue.            *)
(*                                                                         *)
(* start_node_impl runs its steps in order and returns at the first error  *)
(* (the ? operators): new_partial, which builds the import queue with its  *)
(* lazily built Aura verifier; build_relay_chain_interface, build_network  *)
(* and spawn_tasks; then, on a validator (role.is_authority()), the        *)
(* build_consensus closure, which reads slot_duration at the best block    *)
(* and unwraps it before AuraConsensus::build; finally start_collator or   *)
(* start_full_node.  An error or a panic ends the process; the supervisor  *)
(* starts it again on the same database, possibly in another role.         *)
(***************************************************************************)
EXTENDS Naturals

CONSTANTS
  Blocks, Genesis, ParentOf, AuraBlocks, ProbeMayFail,
  Roles,             \* the roles the operator may start the node in
  MaxInterruptions   \* bound on startup errors and operator stops together

ASSUME Roles \subseteq BOOLEAN /\ Roles # {}
ASSUME MaxInterruptions \in Nat

VARIABLES
  imported, best, running, auraVerifier, panicked, relayVerified,   \* as in AuraImportQueue
  phase,       \* how far start_node_impl has come in this process
  validator,   \* parachain_config.role.is_authority() of this process
  errors       \* startup errors and stops so far

Queue == INSTANCE AuraImportQueue

vars == <<imported, best, running, auraVerifier, panicked, relayVerified,
          phase, validator, errors>>

Phases == {"Down", "Partial", "Spawned", "Consensus", "Running"}

TypeOK ==
  /\ Queue!TypeOK
  /\ phase \in Phases
  /\ validator \in BOOLEAN
  /\ errors \in 0..MaxInterruptions
  /\ running <=> phase = "Running"

Init ==
  /\ imported = {Genesis}
  /\ best = Genesis
  /\ running = FALSE
  /\ auraVerifier = "Uninitialized"
  /\ panicked = FALSE
  /\ relayVerified = {}
  /\ phase = "Down"
  /\ validator \in Roles
  /\ errors = 0

(* A process that kept the Aura verifier of the one before it.             *)
NewPartialKeepingVerifier ==
  /\ phase = "Down"
  /\ phase' = "Partial"
  /\ validator' \in Roles
  /\ UNCHANGED <<imported, best, running, auraVerifier, panicked, relayVerified,
                 errors>>

(* A process starts: prepare_node_config and new_partial open the database *)
(* and build the import queue, whose Aura verifier is                      *)
(* BuildOnAccess::Uninitialized(Some(..)) (aura_build_import_queue).       *)
NewPartial ==
  /\ phase = "Down"
  /\ phase' = "Partial"
  /\ validator' \in Roles
  /\ auraVerifier' = "Uninitialized"
  /\ UNCHANGED <<imported, best, running, panicked, relayVerified, errors>>

(* build_relay_chain_interface, build_network and spawn_tasks succeed.     *)
BuildServices ==
  /\ phase = "Partial"
  /\ phase' = "Spawned"
  /\ UNCHANGED <<imported, best, running, auraVerifier, panicked, relayVerified,
                 validator, errors>>

(* One of the ? of start_node_impl returns an error (relay chain           *)
(* interface, network, spawn_tasks, start_collator, start_full_node): the  *)
(* process exits with the database as it is.                               *)
StartupError ==
  /\ phase \in {"Partial", "Spawned", "Consensus"}
  /\ errors < MaxInterruptions
  /\ errors' = errors + 1
  /\ phase' = "Down"
  /\ UNCHANGED <<imported, best, running, auraVerifier, panicked, relayVerified,
                 validator>>

(* On a validator, build_consensus: slot_duration(&*client).unwrap() at    *)
(* the best block; without AuraApi there the unwrap panics and the         *)
(* process ends.                                                           *)
BuildConsensus ==
  /\ phase = "Spawned"
  /\ validator
  /\ phase' = IF best \in AuraBlocks THEN "Consensus" ELSE "Down"
  /\ UNCHANGED <<imported, best, running, auraVerifier, panicked, relayVerified,
                 validator, errors>>

(* start_collator with the built consensus, or start_full_node; then      *)
(* start_network: the import queue and the relay-chain follower run.       *)
StartCollator ==
  /\ phase = "Consensus"
  /\ phase' = "Running"
  /\ running' = TRUE
  /\ UNCHANGED <<imported, best, auraVerifier, panicked, relayVerified,
                 validator, errors>>

StartFullNode ==
  /\ phase = "Spawned"
  /\ ~validator
  /\ phase' = "Running"
  /\ running' = TRUE
  /\ UNCHANGED <<imported, best, auraVerifier, panicked, relayVerified,
                 validator, errors>>

(* The running node verifies and imports a block; a panic of the import   *)
(* task ends the process.                                                  *)
ImportBlock(b) ==
  /\ phase = "Running"
  /\ Queue!Verify(b)
  /\ phase' = IF running' THEN "Running" ELSE "Down"
  /\ UNCHANGED <<validator, errors>>

(* The operator stops the running node: start_node_impl has returned the  *)
(* TaskManager, which runs the node until it is shut down.                 *)
Stop ==
  /\ phase = "Running"
  /\ errors < MaxInterruptions
  /\ errors' = errors + 1
  /\ phase' = "Down"
  /\ running' = FALSE
  /\ UNCHANGED <<imported, best, auraVerifier, panicked, relayVerified,
                 validator>>

FollowRelayBest(b) ==
  /\ phase = "Running"
  /\ Queue!FollowRelayBest(b)
  /\ UNCHANGED <<phase, validator, errors>>

Next ==
  \/ NewPartial
  \/ BuildServices
  \/ StartupError
  \/ BuildConsensus
  \/ StartCollator
  \/ StartFullNode
  \/ \E b \in Blocks \ {Genesis} : ImportBlock(b)
  \/ \E b \in Blocks : FollowRelayBest(b)
  \/ Stop

(* start_node_impl is one sequential async fn: once started it runs to its *)
(* next step; the supervisor restarts a stopped process; sync delivers     *)
(* every block whose parent is known.  Errors and stops are bounded.     *)
Fairness ==
  /\ WF_vars(NewPartial)
  /\ WF_vars(BuildServices)
  /\ WF_vars(BuildConsensus)
  /\ WF_vars(StartCollator)
  /\ WF_vars(StartFullNode)
  /\ \A b \in Blocks \ {Genesis} : WF_vars(ImportBlock(b))

Spec == Init /\ [][Next]_vars /\ Fairness

-----------------------------------------------------------------------------
(* Once the relay chain keeps a post-upgrade block as best, the node, in   *)
(* whichever role it is restarted, stops crashing: a verifier or consensus *)
(* build that panicked on a stale best block is rebuilt by the next        *)
(* process and succeeds, and the process then stays up.                    *)
NodeSettles ==
  (<>[](best \in AuraBlocks)) => <>[](phase = "Running")

(* A verifier-builder panic on a stale best block is transient in the     *)
(* composed node too: once the relay chain keeps a post-upgrade block as   *)
(* best, the processes the supervisor restarts import every block of the  *)
(* tree, whatever role each of them runs in.                               *)
ImportsEveryBlock == Queue!RecoversOnceBestHasAura

(* A node comes up: the process started by the supervisor eventually      *)
(* reaches start_collator or start_full_node (spec 3: Bootstrap is the     *)
(* strategy available from genesis, the node runs before the upgrade).     *)
NodeComesUp == <>(phase = "Running")
=============================================================================
