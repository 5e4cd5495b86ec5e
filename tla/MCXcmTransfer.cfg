\* Transfers in from the relay chain and a sibling, every form of TEER, and
\* reserve transfers out to the sibling and the relay chain.
CONSTANTS
  selfPara = selfPara
  otherPara = otherPara
  teerKey = teerKey
  otherKey = otherKey
  accountKey = accountKey
  SelfParaId = selfPara
  OtherParaId = otherPara
  TeerKey = teerKey
  OtherKey = otherKey
  AccountKey = accountKey
  MaxParents = 2
  MaxInterior = 3
  MaxBalance = 4
  MaxInFlight = 2
SPECIFICATION Spec
INVARIANT ReserveBacked
 
PROPERTY NoInboundMint
