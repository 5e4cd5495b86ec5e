---------------------------- MODULE MCXcmBarrier ----------------------------
(* Instantiation of XcmBarrier for TLC: the relay chain and a sibling as   *)
(* senders, two query ids, and representative messages: paid transfers    *)
(* with enough and too little BuyExecution limit, reserve transfers to the *)
(* relay chain at top level and nested in SetAppendix, a query response,   *)
(* a version subscription and an unpaid Transact; locally, pallet_xcm's    *)
(* reserve transfers to the relay chain and to the sibling.                *)
EXTENDS XcmBarrier

Inst(op, arg) == [op |-> op, arg |-> arg, limit |-> 0, inner |-> <<>>]
Buy(arg, limit) == [op |-> "BuyExecution", arg |-> arg, limit |-> limit, inner |-> <<>>]
Appendix(msg) == [op |-> "SetAppendix", arg |-> "", limit |-> 0, inner |-> msg]

MCRemoteOrigins == {"Parent", "Sibling"}
MCResponders == {"Parent", "Sibling"}
MCQueryIds == {"q1", "q2"}

MCRemoteMessages ==
  { <<Inst("WithdrawAsset", ""), Buy("Unlimited", 0), Inst("DepositAsset", "")>>,
    <<Inst("ReserveAssetDeposited", ""), Inst("ClearOrigin", ""), Buy("Limited", 1),
      Inst("DepositAsset", "")>>,
    <<Inst("ReserveAssetDeposited", ""), Inst("ClearOrigin", ""), Buy("Limited", 4),
      Inst("DepositAsset", "")>>,
    <<Inst("WithdrawAsset", ""), Buy("Unlimited", 0), Inst("DepositReserveAsset", "Parent")>>,
    <<Inst("WithdrawAsset", ""), Buy("Unlimited", 0),
      Appendix(<<Inst("DepositReserveAsset", "Parent")>>)>>,
    <<Inst("QueryResponse", "q1")>>,
    <<Inst("SubscribeVersion", "")>>,
    <<Inst("Transact", "")>> }

MCLocalMessages ==
  { <<Inst("SetFeesMode", ""), Inst("TransferReserveAsset", "Parent")>>,
    <<Inst("SetFeesMode", ""), Inst("TransferReserveAsset", "Sibling")>> }
=============================================================================
