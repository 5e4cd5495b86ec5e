----------------------------- MODULE XcmBarrier -----------------------------
(***************************************************************************)
(* The admission pipeline of                                               *)
(* src/polkadot-parachains/shell-runtime/src/xcm_config.rs, lines 234-244: *)
(*                                                                         *)
(*   Barrier = DenyThenTry<DenyReserveTransferToRelayChain,                *)
(*     (TakeWeightCredit, AllowTopLevelPaidExecutionFrom<Everything>,      *)
(*      AllowKnownQueryResponses<PolkadotXcm>,                             *)
(*      AllowSubscriptionsFrom<Everything>)>                               *)
(*                                                                         *)
(* with the message weight of FixedWeightBounds (line 270: one unit per    *)
(* instruction, nested ones included) and the pending queries of           *)
(* PolkadotXcm (line 272) that AllowKnownQueryResponses consults and the   *)
(* executor's response handling clears.  The stages themselves live in     *)
(* xcm-builder and parachains-common and are modelled from spec 4.4.       *)
(*                                                                         *)
(* The weight credit is the argument of one execution: zero for messages   *)
(* from the XCMP and DMP queues, the message's own weight for the local    *)
(* execution pallet_xcm performs for a reserve transfer (line 305).        *)
(***************************************************************************)
EXTENDS Naturals, Sequences

CONSTANTS
  RemoteOrigins,   \* origins of inbound XCMP / DMP messages
  LocalOrigin,     \* a signed account of this chain executing via pallet_xcm
  Parent,          \* the relay chain, MultiLocation { parents: 1, Here }
  RemoteMessages,  \* instruction sequences other chains may send
  LocalMessages,   \* instruction sequences pallet_xcm executes locally
  QueryIds,        \* query ids PolkadotXcm may hand out
  Responders       \* locations a query may expect its response from

ASSUME Parent \in RemoteOrigins

VARIABLES
  queries,    \* pending queries of PolkadotXcm: <<id, responder>>
  issued,     \* ids handed out so far (QueryCounter never reuses one)
  last        \* history: the last barrier evaluation

vars == <<queries, issued, last>>

Stages == {"TakeWeightCredit", "AllowTopLevelPaidExecutionFrom",
           "AllowKnownQueryResponses", "AllowSubscriptionsFrom"}

NoStage == "Denied"

(* An instruction is a record: op, its argument (a location, or Limited / *)
(* Unlimited for BuyExecution), the limit of BuyExecution, and the message *)
(* nested in SetAppendix (empty for every other instruction).              *)

(* FixedWeightBounds::weight in units of UnitWeightCost: one per           *)
(* instruction, plus the weight of the message nested in SetAppendix.      *)
RECURSIVE Weight(_)
Weight(msg) ==
  IF msg = <<>> THEN 0
  ELSE 1 + Weight(Head(msg).inner)
         + Weight(Tail(msg))

(* The instructions DenyReserveTransferToRelayChain rejects.               *)
IsReserveTransferToParent(inst) ==
  /\ inst.op \in {"InitiateReserveWithdraw", "DepositReserveAsset",
                  "TransferReserveAsset"}
  /\ inst.arg = Parent

(* DenyReserveTransferToRelayChain: scans the top-level instructions.      *)
DenyReserveTransferToRelayChain(msg) ==
  \E i \in 1..Len(msg) : IsReserveTransferToParent(msg[i])

(* TakeWeightCredit: admits when the credit covers the weight and debits  *)
(* it (checked_sub, so nothing is debited when it does not).               *)
TakeWeightCredit(weight, credit) == credit >= weight

(* AllowTopLevelPaidExecutionFrom<Everything>: among the first five       *)
(* instructions, one that brings assets into holding, any ClearOrigin,     *)
(* then a BuyExecution whose limit covers the message's weight.            *)
AllowTopLevelPaidExecutionFrom(msg, weight) ==
  LET end == IF Len(msg) < 5 THEN Len(msg) ELSE 5
      buy == CHOOSE k \in 2..(end + 1) :
               /\ \A j \in 2..(k - 1) : msg[j].op = "ClearOrigin"
               /\ k > end \/ msg[k].op # "ClearOrigin"
  IN /\ end >= 2
     /\ msg[1].op \in {"ReceiveTeleportedAsset", "ReserveAssetDeposited",
                       "WithdrawAsset", "ClaimAsset"}
     /\ buy <= end
     /\ msg[buy].op = "BuyExecution"
     /\ msg[buy].arg = "Unlimited" \/ msg[buy].limit >= weight

(* The response stage without the check that the query is pending.         *)
AllowAnyQueryResponse(origin, msg) ==
  Len(msg) = 1 /\ msg[1].op = "QueryResponse"

(* AllowKnownQueryResponses<PolkadotXcm>: a lone QueryResponse whose      *)
(* query is pending with this origin as its responder.                     *)
AllowKnownQueryResponses(origin, msg) ==
  /\ Len(msg) = 1
  /\ msg[1].op = "QueryResponse"
  /\ <<msg[1].arg, origin>> \in queries

(* AllowSubscriptionsFrom<Everything>: a lone (Un)SubscribeVersion.        *)
AllowSubscriptionsFrom(msg) ==
  Len(msg) = 1 /\ msg[1].op \in {"SubscribeVersion", "UnsubscribeVersion"}

(* The allow tuple: the first stage that admits the message.              *)
AllowingStage(origin, msg, credit) ==
  LET w == Weight(msg)
  IN CASE TakeWeightCredit(w, credit) -> "TakeWeightCredit"
       [] AllowTopLevelPaidExecutionFrom(msg, w) -> "AllowTopLevelPaidExecutionFrom"
       [] AllowKnownQueryResponses(origin, msg) -> "AllowKnownQueryResponses"
       [] AllowSubscriptionsFrom(msg) -> "AllowSubscriptionsFrom"
       [] OTHER -> NoStage

Barrier(origin, msg, credit) ==
  IF DenyReserveTransferToRelayChain(msg) THEN NoStage
  ELSE AllowingStage(origin, msg, credit)

Init ==
  /\ queries = {}
  /\ issued = {}
  /\ last = [origin |-> LocalOrigin, msg |-> <<>>, stage |-> NoStage,
             credit |-> 0, answers |-> FALSE]

(* PolkadotXcm::new_query: a query to responder r gets a fresh id.         *)
NewQuery(q, r) ==
  /\ q \notin issued
  /\ issued' = issued \cup {q}
  /\ queries' = queries \cup {<<q, r>>}
  /\ UNCHANGED last

(* The executor runs the barrier on a message from origin with the given   *)
(* credit; an admitted QueryResponse is handed to PolkadotXcm, whose       *)
(* on_response marks the query of that responder Ready (no longer          *)
(* pending) and ignores a response to any other.                           *)
Execute(origin, msg, credit) ==
  LET stage == Barrier(origin, msg, credit)
      isResponse == Len(msg) = 1 /\ msg[1].op = "QueryResponse"
      done == IF stage # NoStage /\ isResponse
              THEN {p \in queries : p[1] = msg[1].arg /\ p[2] = origin}
              ELSE {}
  IN /\ queries' = queries \ done
     /\ last' = [origin |-> origin, msg |-> msg, stage |-> stage,
                 credit |-> credit, answers |-> done # {}]
     /\ UNCHANGED issued

(* A message from another chain arrives through XCMP or DMP: no credit.    *)
ReceiveRemote(origin, msg) == Execute(origin, msg, 0)

(* pallet_xcm executes a reserve transfer locally: execute_xcm_in_credit   *)
(* with the message's weight as its credit.                                *)
ExecuteLocal(msg) == Execute(LocalOrigin, msg, Weight(msg))

Next ==
  \/ \E q \in QueryIds, r \in Responders : NewQuery(q, r)
  \/ \E o \in RemoteOrigins, m \in RemoteMessages : ReceiveRemote(o, m)
  \/ \E m \in LocalMessages : ExecuteLocal(m)

Spec == Init /\ [][Next]_vars

-----------------------------------------------------------------------------
TypeOK ==
  /\ queries \subseteq QueryIds \X Responders
  /\ issued \subseteq QueryIds
  /\ last.stage \in Stages \cup {NoStage}
  /\ last.credit \in Nat
  /\ last.answers \in BOOLEAN

(* Every instruction of a message, those nested in SetAppendix included.  *)
RECURSIVE Flatten(_)
Flatten(msg) ==
  IF msg = <<>> THEN {}
  ELSE {Head(msg)}
       \cup Flatten(Head(msg).inner)
       \cup Flatten(Tail(msg))

(* The barrier admits a QueryResponse only as the answer to a pending     *)
(* query of that very responder, and PolkadotXcm's on_response consumes    *)
(* it in the same execution: a response sent by another chain is refused, *)
(* and one delivered twice finds its query no longer pending.  An          *)
(* execution is a step that issues no query.                               *)
AdmittedResponsesArePending ==
  [][ (/\ issued' = issued
       /\ Len(last'.msg) = 1 /\ last'.msg[1].op = "QueryResponse"
       /\ last'.stage # NoStage)
      => <<last'.msg[1].arg, last'.origin>> \in queries \ queries' ]_vars

(* No message that would make this chain send a reserve transfer to the   *)
(* relay chain is admitted, wherever in the message the instruction sits   *)
(* (spec 4.4: such a transfer is always rejected).                         *)
NoReserveTransferToRelayAdmitted ==
  (\E inst \in Flatten(last.msg) : IsReserveTransferToParent(inst))
    => last.stage = NoStage
=============================================================================
