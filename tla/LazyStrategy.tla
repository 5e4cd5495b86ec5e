---------------------------- MODULE LazyStrategy ----------------------------
(***************************************************************************)
(* What the lazily built, mutex-guarded strategy promises its callers      *)
(* (spec 4.5 and 6: "lazy, exactly-once, mutex-guarded construction").     *)
(* A caller acquires the guard atomically; inside it either builds the     *)
(* strategy, once, or fails and leaves it unbuilt; it uses the strategy    *)
(* only once built; and it gives the guard back when it leaves.            *)
(***************************************************************************)
CONSTANTS
  Callers,   \* the callers sharing the strategy
  Nobody     \* no caller holds the guard

VARIABLES
  strategy,  \* "Unbuilt" or "Built"
  holder,    \* the caller holding the guard, or Nobody
  phase      \* per caller: "Out", "In" (holds the guard), "Using"

vars == <<strategy, holder, phase>>

TypeOK ==
  /\ strategy \in {"Unbuilt", "Built"}
  /\ holder \in Callers \cup {Nobody}
  /\ phase \in [Callers -> {"Out", "In", "Using"}]

Init ==
  /\ strategy = "Unbuilt"
  /\ holder = Nobody
  /\ phase = [c \in Callers |-> "Out"]

Acquire(c) ==
  /\ phase[c] = "Out"
  /\ holder = Nobody
  /\ holder' = c
  /\ phase' = [phase EXCEPT ![c] = "In"]
  /\ UNCHANGED strategy

Build(c) ==
  /\ phase[c] = "In"
  /\ strategy = "Unbuilt"
  /\ strategy' = "Built"
  /\ UNCHANGED <<holder, phase>>

(* A failed attempt: the guard is given back and the strategy stays       *)
(* unbuilt.                                                                *)
Fail(c) ==
  /\ phase[c] = "In"
  /\ strategy = "Unbuilt"
  /\ holder' = Nobody
  /\ phase' = [phase EXCEPT ![c] = "Out"]
  /\ UNCHANGED strategy

Use(c) ==
  /\ phase[c] = "In"
  /\ strategy = "Built"
  /\ phase' = [phase EXCEPT ![c] = "Using"]
  /\ UNCHANGED <<strategy, holder>>

Release(c) ==
  /\ phase[c] = "Using"
  /\ holder' = Nobody
  /\ phase' = [phase EXCEPT ![c] = "Out"]
  /\ UNCHANGED strategy

Next ==
  \E c \in Callers :
    Acquire(c) \/ Build(c) \/ Fail(c) \/ Use(c) \/ Release(c)

Spec == Init /\ [][Next]_vars
=============================================================================
