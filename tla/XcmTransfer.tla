----------------------------- MODULE XcmTransfer -----------------------------
(***************************************************************************)
(* One inbound XCM transfer executed against this chain's configuration   *)
(* (src/polkadot-parachains/shell-runtime/src/xcm_config.rs, XcmExecutor-  *)
(* Config, lines 260-287): the Barrier of XcmBarrier, the IsReserve filter *)
(* and the transactor's matcher of XcmAssets, the accounts of              *)
(* LocationToAccountId (lines 158-165), the balances moved by              *)
(* LocalAssetTransactor (lines 168-179), IsTeleporter = () (line 267),     *)
(* the Trader UsingComponents<.., SelfReserve, ..> (line 271) and the      *)
(* AssetTrap of PolkadotXcm (line 274).                                    *)
(*                                                                         *)
(* The other direction is pallet_xcm::reserve_transfer_assets, open to any *)
(* local account (XcmReserveTransferFilter = Everything, line 305): it      *)
(* executes TransferReserveAsset here, which moves the TEER into the       *)
(* destination's sovereign account (SovereignAccountOf, line 315) and      *)
(* sends the message crediting it there through the XcmRouter (lines       *)
(* 146-153).  The sibling, reserve-backed by that account, is kept as the  *)
(* amount of TEER its holders have and the messages on the way to it.     *)
(*                                                                         *)
(* The executor itself lives in xcm-executor; its instruction semantics    *)
(* are modelled from the asset transactor interface of spec 6: it runs     *)
(* the instructions in order on a holding register and stops at the       *)
(* first error, whose remaining holding is trapped.  Each asset amount is  *)
(* in units of the execution fee the message's weight costs; the state is *)
(* the TEER balance of each account and the last execution.                *)
(***************************************************************************)
EXTENDS Naturals, Sequences, Bags, FiniteSetsExt

CONSTANTS
  SelfParaId, OtherParaId, TeerKey, OtherKey, AccountKey,
  MaxParents, MaxInterior,   \* as in XcmAssets
  MaxBalance,                \* bound on any account's balance
  MaxInFlight                \* bound on messages queued to the sibling

VARIABLES
  balance,      \* TEER balance (pallet_balances) of each account
  derivative,   \* TEER the sibling's holders have there (reserve-backed)
  toSibling,    \* the XCMP channel to the sibling: amounts being credited
  last          \* history: the outcome of the last execution

vars == <<balance, derivative, toSibling, last>>

A == INSTANCE XcmAssets WITH asset <- [id |-> "Abstract"]

ParentLocation == A!MultiLocation(1, <<>>)
SiblingLocation == A!MultiLocation(1, <<A!Parachain(OtherParaId)>>)
BeneficiaryLocation == A!MultiLocation(0, <<A!AccountId32(AccountKey)>>)

(* The senders of inbound messages: the relay chain (DMP) and a sibling   *)
(* parachain (XCMP).                                                       *)
Origins == {ParentLocation, SiblingLocation}

B == INSTANCE XcmBarrier
       WITH queries <- {}, issued <- {}, last <- <<>>,
            RemoteOrigins <- Origins, LocalOrigin <- BeneficiaryLocation,
            Parent <- ParentLocation, RemoteMessages <- {}, LocalMessages <- {},
            QueryIds <- {}, Responders <- {}

ParentAccount == <<"ParentIsPreset", "relay">>
SiblingAccount == <<"Sibling", OtherParaId>>
BeneficiaryAccount == <<"AccountId32", AccountKey>>
Accounts == {ParentAccount, SiblingAccount, BeneficiaryAccount}

(* LocationToAccountId = (ParentIsPreset, SiblingParachainConvertsVia,     *)
(* AccountId32Aliases): the account a location owns, as a set holding the  *)
(* Some value, or empty for a location that converts to none.              *)
LocationToAccountId(l) ==
  CASE l = ParentLocation -> {ParentAccount}
    [] l = SiblingLocation -> {SiblingAccount}
    [] l = BeneficiaryLocation -> {BeneficiaryAccount}
    [] OTHER -> {}

(* The assets the instructions name: TEER in the relative form of         *)
(* SelfReserve and in the absolute form CurrencyIdConvert produces, the    *)
(* TEER key under the sibling, and a token of the sibling.                 *)
Concrete(l) == [id |-> "Concrete", loc |-> l]
TransferAssets ==
  {Concrete(A!SelfReserve), Concrete(A!CurrencyIdToLocation("TEER")),
   Concrete(A!MultiLocation(1, <<A!Parachain(OtherParaId), A!TEER_GENERAL_KEY>>)),
   Concrete(A!MultiLocation(1, <<A!Parachain(OtherParaId), A!GeneralKey(OtherKey)>>))}

Amounts == 1..2

(* An instruction: the fields XcmBarrier reads (op, arg, limit, inner) and *)
(* the asset, amount and beneficiary the executor reads.                   *)
Instruction(op, a, n) ==
  [op |-> op, arg |-> "None", limit |-> 0, inner |-> <<>>,
   asset |-> a, amount |-> n, beneficiary |-> A!Here]

(* BuyExecution { fees, weight_limit: Unlimited }: one unit of fees.       *)
BuyExecution(fee) == [Instruction("BuyExecution", fee, 1) EXCEPT !.arg = "Unlimited"]

(* DepositAsset { assets: All, beneficiary }.                              *)
DepositAsset ==
  [Instruction("DepositAsset", Concrete(A!Here), 0)
     EXCEPT !.beneficiary = BeneficiaryLocation]

Loads == {"WithdrawAsset", "ReserveAssetDeposited", "ReceiveTeleportedAsset"}

LoadInstructions == {Instruction(op, a, n) : op \in Loads, a \in TransferAssets, n \in Amounts}

(* The messages a chain sends to transfer assets here (xtokens, pallet_xcm *)
(* reserve transfers): load, pay, possibly load more, deposit; and a       *)
(* message that does not pay for its execution.                            *)
Messages ==
  {<<l, BuyExecution(f), DepositAsset>> : l \in LoadInstructions, f \in TransferAssets}
  \cup {<<l, BuyExecution(f), Instruction(op, a, 2), DepositAsset>> :
          l \in LoadInstructions, f \in TransferAssets, op \in Loads,
          a \in TransferAssets}
  \cup {<<l, DepositAsset>> : l \in LoadInstructions}

-----------------------------------------------------------------------------
(* The executor's state during one execution: balances, holding register  *)
(* (a bag of assets) and the error that stopped it.                        *)
NoError == "None"

Failed(s, e) == [s EXCEPT !.error = e]

(* CurrencyAdapter::withdraw_asset: the matcher must take the asset, the   *)
(* location must own an account and the account must hold the amount.      *)
WithdrawAsset(s, origin, a, n) ==
  LET who == LocationToAccountId(origin)
  IN IF ~A!MatchesFungible(a) THEN Failed(s, "AssetNotFound")
     ELSE IF who = {} THEN Failed(s, "FailedToTransactAsset")
     ELSE LET acc == CHOOSE x \in who : TRUE
          IN IF s.bal[acc] < n THEN Failed(s, "FailedToTransactAsset")
             ELSE [s EXCEPT !.bal[acc] = @ - n, !.holding = @ (+) (a :> n)]

(* ReserveAssetDeposited: IsReserve = MultiNativeAsset<AbsoluteAnd-        *)
(* RelativeReserve<SelfLocationAbsolute>> must accept the origin as the    *)
(* asset's reserve; the asset is then minted into holding.                 *)
ReserveAssetDeposited(s, origin, a, n) ==
  IF A!IsReserve(a, origin) THEN [s EXCEPT !.holding = @ (+) (a :> n)]
  ELSE Failed(s, "UntrustedReserveLocation")

(* UsingComponents<IdentityFee<Balance>, SelfReserve, ..>::buy_weight:     *)
(* the payment must contain Concrete(SelfReserve) to cover the fee.        *)
TraderAccepts(fee) == fee = Concrete(A!SelfReserve)

(* BuyExecution: the fees are taken from holding (NotHoldingFees if they   *)
(* are not there) and handed to the Trader, which charges them or fails    *)
(* with TooExpensive; what it does not charge goes back to holding.        *)
Buy(s, fee) ==
  IF CopiesIn(fee, s.holding) = 0 THEN Failed(s, "NotHoldingFees")
  ELSE IF ~TraderAccepts(fee)
       THEN [s EXCEPT !.holding = @ (-) (fee :> 1), !.error = "TooExpensive"]
  ELSE [s EXCEPT !.holding = @ (-) (fee :> 1)]

(* DepositAsset { All, beneficiary }: the holding is taken and every asset *)
(* is handed to CurrencyAdapter::deposit_asset, which credits the          *)
(* beneficiary's account for the assets the matcher takes and fails on any *)
(* other.                                                                  *)
Deposit(s, beneficiary) ==
  LET who == LocationToAccountId(beneficiary)
      matched == {x \in BagToSet(s.holding) : A!MatchesFungible(x)}
      amount == MapThenSumSet(LAMBDA x : s.holding[x], matched)
  IN IF who = {} THEN Failed(s, "FailedToTransactAsset")
     ELSE LET acc == CHOOSE x \in who : TRUE
          IN [s EXCEPT !.bal[acc] = @ + amount, !.holding = EmptyBag,
                       !.error = IF matched = BagToSet(s.holding)
                                 THEN NoError ELSE "AssetNotFound"]

(* XcmRouter = (ParentAsUmp, XcmpQueue): the message to the sibling is    *)
(* queued on XCMP, or the router fails (no channel to the sibling, or its  *)
(* queue is full) and the executor stops with the error; routed says which *)
(* outcome this execution meets.                                           *)
SendXcm(s, n) ==
  IF s.routed THEN [s EXCEPT !.sent = n] ELSE Failed(s, "Transport")

(* TransferReserveAsset with the message sent before the assets move.     *)
TransferReserveAssetSendFirst(s, origin, dest, a, n) ==
  LET from == CHOOSE x \in LocationToAccountId(origin) : TRUE
      to == CHOOSE x \in LocationToAccountId(dest) : TRUE
      r == SendXcm(s, n)
  IN IF r.error # NoError THEN r
     ELSE IF ~A!MatchesFungible(a) THEN Failed(r, "AssetNotFound")
     ELSE IF r.bal[from] < n THEN Failed(r, "FailedToTransactAsset")
     ELSE [r EXCEPT !.bal[from] = @ - n, !.bal[to] = @ + n]

(* TransferReserveAsset: CurrencyAdapter's transfer_asset withdraws the   *)
(* asset from the origin's account and deposits it into the sovereign     *)
(* account of dest (both locations it is used with own one); then the      *)
(* ReserveAssetDeposited message is sent.  A send that fails leaves the    *)
(* transfer done: nothing is rolled back.                                  *)
TransferReserveAsset(s, origin, dest, a, n) ==
  LET from == CHOOSE x \in LocationToAccountId(origin) : TRUE
      to == CHOOSE x \in LocationToAccountId(dest) : TRUE
  IN IF ~A!MatchesFungible(a) THEN Failed(s, "AssetNotFound")
     ELSE IF s.bal[from] < n THEN Failed(s, "FailedToTransactAsset")
     ELSE SendXcm([s EXCEPT !.bal[from] = @ - n, !.bal[to] = @ + n], n)

(* One instruction of XcmExecutor::process_instruction.                   *)
Step(s, origin, i) ==
  CASE i.op = "WithdrawAsset" -> WithdrawAsset(s, origin, i.asset, i.amount)
    [] i.op = "ReserveAssetDeposited" -> ReserveAssetDeposited(s, origin, i.asset, i.amount)
    [] i.op = "ReceiveTeleportedAsset" -> Failed(s, "UntrustedTeleportLocation")
    [] i.op = "BuyExecution" -> Buy(s, i.asset)
    [] i.op = "DepositAsset" -> Deposit(s, i.beneficiary)
    [] i.op = "TransferReserveAsset" ->
         TransferReserveAsset(s, origin, i.arg, i.asset, i.amount)

(* XcmExecutor::execute: the instructions in order, up to the first error. *)
RECURSIVE Run(_, _, _)
Run(s, origin, msg) ==
  IF msg = <<>> \/ s.error # NoError THEN s
  ELSE Run(Step(s, origin, Head(msg)), origin, Tail(msg))

(* TransferReserveAsset { assets, dest, xcm }, as reserve_transfer_assets *)
(* builds it for TEER (fee_asset_item 0, the whole amount).               *)
TransferReserveAssetTo(dest, n) ==
  [Instruction("TransferReserveAsset", Concrete(A!SelfReserve), n) EXCEPT !.arg = dest]

(* The asset a message offers in BuyExecution (Here when it pays none).   *)
FeeOf(msg) == IF Len(msg) > 2 THEN msg[2].asset ELSE Concrete(A!Here)

(* The forms of this chain's TEER the sibling burns its holders' TEER for  *)
(* when it sends them back here in a WithdrawAsset.                        *)
TeerForms == {Concrete(A!SelfReserve), Concrete(A!CurrencyIdToLocation("TEER"))}

(* The TEER the sibling burns on its side to send msg: the sibling sends   *)
(* any message, but withdraws here no more TEER than its holders have.     *)
SiblingBurns(origin, msg) ==
  IF origin # SiblingLocation THEN 0
  ELSE LET w == {i \in 1..Len(msg) : msg[i].op = "WithdrawAsset" /\ msg[i].asset \in TeerForms}
       IN MapThenSumSet(LAMBDA i : msg[i].amount, w)

Init ==
  /\ balance = [acc \in Accounts |-> IF acc = BeneficiaryAccount THEN 0 ELSE 2]
  /\ derivative = balance[SiblingAccount]
  /\ toSibling = <<>>
  /\ last = [error |-> NoError, fee |-> Concrete(A!Here), trapped |-> FALSE]

(* A message the Barrier admits, given the weight credit, is executed;    *)
(* what is left in holding after an error is handed to                     *)
(* PolkadotXcm::drop_assets and trapped.  A sent message joins the queue.  *)
Execute(origin, msg, credit, routed) ==
  /\ B!Barrier(origin, msg, credit) # B!NoStage
  /\ SiblingBurns(origin, msg) <= derivative
  /\ LET r == Run([bal |-> balance, holding |-> EmptyBag, error |-> NoError,
                   routed |-> routed, sent |-> 0], origin, msg)
     IN /\ \A acc \in Accounts : r.bal[acc] <= MaxBalance
        /\ balance' = r.bal
        /\ derivative' = derivative - SiblingBurns(origin, msg)
        /\ toSibling' = IF r.sent > 0 THEN Append(toSibling, r.sent) ELSE toSibling
        /\ last' = [error |-> r.error, fee |-> FeeOf(msg),
                    trapped |-> r.error # NoError /\ r.holding # EmptyBag]

(* A message the Barrier refuses is dropped (spec 7: admission denial);   *)
(* the TEER the sibling burned to send it stays burned.                    *)
Reject(origin, msg, credit) ==
  /\ B!Barrier(origin, msg, credit) = B!NoStage
  /\ SiblingBurns(origin, msg) <= derivative
  /\ derivative' = derivative - SiblingBurns(origin, msg)
  /\ last' = [error |-> "Barrier", fee |-> FeeOf(msg), trapped |-> FALSE]
  /\ UNCHANGED <<balance, toSibling>>

(* An inbound message from the relay chain or the sibling: no credit.     *)
Receive(origin, msg) ==
  Execute(origin, msg, 0, TRUE) \/ Reject(origin, msg, 0)

(* pallet_xcm::reserve_transfer_assets by the local account: the signed   *)
(* origin becomes its AccountId32 location (LocalOriginToLocation, line   *)
(* 292) and the message is executed with the weight as credit, so          *)
(* TakeWeightCredit admits it unless the deny-list refuses it first.  The  *)
(* extrinsic returns Ok whatever the outcome (it emits Attempted).         *)
ReserveTransferAssets(dest, n, routed) ==
  LET msg == <<TransferReserveAssetTo(dest, n)>>
  IN /\ Len(toSibling) < MaxInFlight
     /\ \/ Execute(BeneficiaryLocation, msg, B!Weight(msg), routed)
        \/ Reject(BeneficiaryLocation, msg, B!Weight(msg))

(* The sibling executes ReserveAssetDeposited, ClearOrigin, BuyExecution   *)
(* and DepositAsset from the channel in order and mints the TEER it was    *)
(* sent to its holders (its fee stays in its own fee account).             *)
SiblingReceive ==
  /\ toSibling # <<>>
  /\ derivative' = derivative + Head(toSibling)
  /\ toSibling' = Tail(toSibling)
  /\ UNCHANGED <<balance, last>>

Next ==
  \/ \E origin \in Origins, msg \in Messages : Receive(origin, msg)
  \/ \E dest \in Origins, n \in Amounts, routed \in BOOLEAN :
       ReserveTransferAssets(dest, n, routed)
  \/ SiblingReceive

Spec == Init /\ [][Next]_vars

-----------------------------------------------------------------------------
(* The TEER issuance: the sum of the balances of every account.            *)
TeerIssuance == MapThenSumSet(LAMBDA acc : balance[acc], Accounts)

(* No inbound message, from any origin and in any form it names TEER,     *)
(* raises the TEER issuance of this chain: TEER is reserved here, so the   *)
(* IsReserve filter admits no other chain's ReserveAssetDeposited of it,   *)
(* and the transactor credits no asset it does not take for TEER; a        *)
(* deposit is always paid for by a withdrawal, less the fees.              *)
NoInboundMint == [][TeerIssuance' <= TeerIssuance]_vars

(* Every form CurrencyIdConvert takes for TEER pays for execution: a       *)
(* message whose BuyExecution offers TEER is never stopped with            *)
(* TooExpensive (spec, AssetId: the relative and the absolute form of the *)
(* native token resolve to the same asset).                                *)
TeerFeesAccepted ==
  last.error = "TooExpensive" => A!AssetToCurrencyId(last.fee) # "TEER"

(* TEER held on the sibling or on its way there is backed: with the       *)
(* holders' TEER burned on the sibling for every withdrawal it sends back, *)
(* the sibling's sovereign account here holds at least what its holders    *)
(* have plus what reserve_transfer_assets has queued to them, however      *)
(* transfers out, their failures, deliveries and returns interleave.       *)
ReserveBacked ==
  derivative + MapThenSumSet(LAMBDA i : toSibling[i], DOMAIN toSibling)
    <= balance[SiblingAccount]

SovereignCreditsSent ==
  [][balance'[SiblingAccount] > balance[SiblingAccount] =>
       toSibling' = Append(toSibling, balance'[SiblingAccount] - balance[SiblingAccount])]_vars
=============================================================================
