\* A reserve transfer out to the sibling whose message the router cannot send.
CONSTANTS
  selfPara = selfPara
  otherPara = otherPara
  teerKey = teerKey
  otherKey = otherKey
  accountKey = accountKey
  SelfParaId = selfPara
  OtherParaId = otherPara
  TeerKey = teerKey
  OtherKey = otherKey
  AccountKey = accountKey
  MaxParents = 2
  MaxInterior = 3
  MaxBalance = 4
  MaxInFlight = 2
SPECIFICATION Spec
PROPERTY SovereignCreditsSent
