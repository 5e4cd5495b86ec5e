------------------------ MODULE WaitForAuraConsensus ------------------------
(***************************************************************************)
(* The block-production half of the consensus-mode selector of            *)
(* src/polkadot-parachains/src/service.rs: WaitForAuraConsensus            *)
(* ::produce_candidate (lines 463-488) and the lazily built Aura consensus *)
(* it reaches through BuildOnAccess::get_mut (lines 418-434).              *)
(*                                                                         *)
(* A task is one produce_candidate call in flight on a clone of the        *)
(* consensus.  All clones share (Clone, lines 445-454) the two             *)
(* Arc<Mutex<..>>: the lazily built Aura consensus and the relay-chain     *)
(* consensus.  The lock of the Aura half is held across get_mut and across *)
(* the await of the inner produce_candidate.                               *)
(***************************************************************************)
EXTENDS Naturals

CONSTANTS
  Tasks,            \* concurrent produce_candidate calls
  Parents,          \* parent headers a candidate can be built on
  AuraParents,      \* parents whose runtime state exposes AuraApi
  ProbeMayFail,     \* has_api may return Err (state at the parent unavailable)
  BuilderMayPanic,  \* the boxed builder closure may panic
  NoTask            \* model value: nobody holds the mutex

ASSUME AuraParents \subseteq Parents
ASSUME ProbeMayFail \in BOOLEAN /\ BuilderMayPanic \in BOOLEAN
ASSUME NoTask \notin Tasks

VARIABLES
  aura,           \* the BuildOnAccess behind aura_consensus
  auraLock,       \* holder of the aura_consensus mutex
  relayLock,      \* holder of the relay_chain_consensus mutex
  pc,             \* where each task is in produce_candidate
  halfBuiltSeen,  \* history: a call found Uninitialized(None) and panicked
  builderPanicked \* history: a builder closure has panicked

vars == <<aura, auraLock, relayLock, pc, halfBuiltSeen, builderPanicked>>

(* The three shapes of BuildOnAccess: Uninitialized(Some(f)), the          *)
(* Uninitialized(None) left once f.take() has run, and Initialized(r).     *)
BuildOnAccessStates == {"Uninitialized", "Taken", "Initialized"}

Steps == {"Idle", "LockAura", "GetMut", "Build", "ProduceAura",
          "LockRelay", "ProduceRelay"}


TypeOK ==
  /\ aura \in BuildOnAccessStates
  /\ auraLock \in Tasks \cup {NoTask}
  /\ relayLock \in Tasks \cup {NoTask}
  /\ pc \in [Tasks -> Steps]
  /\ halfBuiltSeen \in BOOLEAN
  /\ builderPanicked \in BOOLEAN

Init ==
  /\ aura = "Uninitialized"
  /\ auraLock = NoTask
  /\ relayLock = NoTask
  /\ pc = [t \in Tasks |-> "Idle"]
  /\ halfBuiltSeen = FALSE
  /\ builderPanicked = FALSE

(* has_api::<dyn AuraApi<..>>(parent.hash()).unwrap_or(false): the outcomes *)
(* the probe can give; an Err reads as false.                              *)
HasAuraApi(p) ==
  IF ProbeMayFail THEN {p \in AuraParents, FALSE} ELSE {p \in AuraParents}

(* A call enters produce_candidate for parent p, probes the runtime at p   *)
(* and takes the Aura or the relay-chain branch (lines 469-481).           *)
ProduceCandidate(t, p) ==
  /\ pc[t] = "Idle"
  /\ \E hasApi \in HasAuraApi(p) :
       pc' = [pc EXCEPT ![t] = IF hasApi THEN "LockAura" ELSE "LockRelay"]
  /\ UNCHANGED <<aura, auraLock, relayLock, halfBuiltSeen, builderPanicked>>

(* The Aura half entered without taking its mutex.                         *)
LockAuraUnguarded(t) ==
  /\ pc[t] = "LockAura"
  /\ pc' = [pc EXCEPT ![t] = "GetMut"]
  /\ UNCHANGED <<aura, auraLock, relayLock, halfBuiltSeen, builderPanicked>>

(* self.aura_consensus.lock().await (lines 475-477).                       *)
LockAura(t) ==
  /\ pc[t] = "LockAura"
  /\ auraLock = NoTask
  /\ auraLock' = t
  /\ pc' = [pc EXCEPT ![t] = "GetMut"]
  /\ UNCHANGED <<aura, relayLock, halfBuiltSeen, builderPanicked>>

(* A panic that ends the task without dropping the guard.                   *)
UnwindHoldingLock(t) ==
  /\ auraLock' = auraLock
  /\ pc' = [pc EXCEPT ![t] = "Idle"]

(* A panic unwinds the task: dropping the MutexGuard releases the lock     *)
(* (futures::lock::Mutex is not poisoned), and the call ends.              *)
Unwind(t) ==
  /\ auraLock' = NoTask
  /\ pc' = [pc EXCEPT ![t] = "Idle"]

(* A get_mut that runs the builder again on an Initialized value.          *)
GetMutRebuilding(t) ==
  /\ pc[t] = "GetMut"
  /\ \/ /\ aura \in {"Uninitialized", "Initialized"}
        /\ aura' = "Taken"
        /\ pc' = [pc EXCEPT ![t] = "Build"]
        /\ UNCHANGED <<auraLock, halfBuiltSeen>>
     \/ /\ aura = "Taken"
        /\ Unwind(t)
        /\ halfBuiltSeen' = TRUE
        /\ UNCHANGED aura
  /\ UNCHANGED <<relayLock, builderPanicked>>

(* One turn of the loop in get_mut (lines 425-432).  Uninitialized:        *)
(* f.take() leaves Uninitialized(None) and f runs; Uninitialized(None):    *)
(* the unwrap panics; Initialized: the reference is returned.              *)
GetMut(t) ==
  /\ pc[t] = "GetMut"
  /\ \/ /\ aura = "Uninitialized"
        /\ aura' = "Taken"
        /\ pc' = [pc EXCEPT ![t] = "Build"]
        /\ UNCHANGED <<auraLock, halfBuiltSeen>>
     \/ /\ aura = "Taken"
        /\ Unwind(t)
        /\ halfBuiltSeen' = TRUE
        /\ UNCHANGED aura
     \/ /\ aura = "Initialized"
        /\ pc' = [pc EXCEPT ![t] = "ProduceAura"]
        /\ UNCHANGED <<aura, auraLock, halfBuiltSeen>>
  /\ UNCHANGED <<relayLock, builderPanicked>>

(* The builder returns and *self = Initialized(..) (line 428), and the     *)
(* loop goes round; or the builder panics after the take.                  *)
Build(t) ==
  /\ pc[t] = "Build"
  /\ \/ /\ aura' = "Initialized"
        /\ pc' = [pc EXCEPT ![t] = "GetMut"]
        /\ UNCHANGED <<auraLock, builderPanicked>>
     \/ /\ BuilderMayPanic
        /\ Unwind(t)
        /\ builderPanicked' = TRUE
        /\ UNCHANGED aura
  /\ UNCHANGED <<relayLock, halfBuiltSeen>>

(* The Aura consensus produces the candidate; the guard, a temporary of    *)
(* the expression, is dropped when the call returns (lines 478-480).       *)
ProduceAura(t) ==
  /\ pc[t] = "ProduceAura"
  /\ auraLock' = NoTask
  /\ pc' = [pc EXCEPT ![t] = "Idle"]
  /\ UNCHANGED <<aura, relayLock, halfBuiltSeen, builderPanicked>>

(* self.relay_chain_consensus.lock().await (lines 482-484).                *)
LockRelay(t) ==
  /\ pc[t] = "LockRelay"
  /\ relayLock = NoTask
  /\ relayLock' = t
  /\ pc' = [pc EXCEPT ![t] = "ProduceRelay"]
  /\ UNCHANGED <<aura, auraLock, halfBuiltSeen, builderPanicked>>

(* The relay-chain consensus produces the candidate (lines 485-486).       *)
ProduceRelay(t) ==
  /\ pc[t] = "ProduceRelay"
  /\ relayLock' = NoTask
  /\ pc' = [pc EXCEPT ![t] = "Idle"]
  /\ UNCHANGED <<aura, auraLock, halfBuiltSeen, builderPanicked>>

Next ==
  \E t \in Tasks :
    \/ \E p \in Parents : ProduceCandidate(t, p)
    \/ LockAura(t)
    \/ GetMut(t)
    \/ Build(t)
    \/ ProduceAura(t)
    \/ LockRelay(t)
    \/ ProduceRelay(t)

(* Once a call holds a guard its code runs on: the executor polls every    *)
(* runnable future, and the inner consensus returns.  Waiting for a lock   *)
(* is not assumed fair to a given task: futures::lock::Mutex lets a new    *)
(* locker take a free lock ahead of a woken waiter.                        *)
Fairness ==
  \A t \in Tasks :
    /\ WF_vars(GetMut(t))
    /\ WF_vars(Build(t))
    /\ WF_vars(ProduceAura(t))
    /\ WF_vars(ProduceRelay(t))

Spec == Init /\ [][Next]_vars /\ Fairness

-----------------------------------------------------------------------------
(* No produce_candidate call ever finds the Aura consensus half built      *)
(* (Uninitialized(None)) and panics at the unwrap in get_mut: concurrent   *)
(* clones converge on the one instance the first caller builds.            *)
NoHalfBuiltObserved == ~halfBuiltSeen

(* A call finds the Aura consensus half built only after a builder has     *)
(* panicked: the f.take() of one call is never seen by another while the  *)
(* builder runs, because the take, the builder and the store of           *)
(* Initialized all happen under the aura_consensus guard.                  *)
HalfBuiltOnlyAfterPanic == halfBuiltSeen => builderPanicked

(* The aura_consensus mutex is never held forever: every call that takes   *)
(* it, through the builder and the inner produce_candidate or through a    *)
(* panic, eventually drops the guard.                                      *)
AuraLockReleased == \A t \in Tasks : auraLock = t ~> auraLock # t

(* The refinement mapping to LazyStrategy: Uninitialized(None) is unbuilt, *)
(* a call is inside the guard from get_mut to the return of the inner     *)
(* produce_candidate, and the relay-chain branch is invisible.             *)
Lazy == INSTANCE LazyStrategy WITH
  Callers <- Tasks,
  Nobody <- NoTask,
  strategy <- IF aura = "Initialized" THEN "Built" ELSE "Unbuilt",
  holder <- auraLock,
  phase <- [t \in Tasks |->
              CASE pc[t] \in {"GetMut", "Build"} -> "In"
                [] pc[t] = "ProduceAura" -> "Using"
                [] OTHER -> "Out"]

(* produce_candidate implements the lazy strategy: the Aura consensus is   *)
(* built at most once and never torn down, only by the holder of the       *)
(* guard, used only once built, and a panic gives the guard back with the  *)
(* consensus still unbuilt.                                                *)
ImplementsLazyStrategy == Lazy!Spec
=============================================================================
