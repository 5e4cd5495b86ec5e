\* All assets of the bounded domain, with TEER in both its forms.
CONSTANTS
  selfPara = selfPara
  otherPara = otherPara
  teerKey = teerKey
  otherKey = otherKey
  accountKey = accountKey
  SelfParaId = selfPara
  OtherParaId = otherPara
  TeerKey = teerKey
  OtherKey = otherKey
  AccountKey = accountKey
  MaxParents = 2
  MaxInterior = 3
SPECIFICATION Spec
INVARIANT TeerRecognisedExactly
INVARIANT ReserveAgreesAcrossForms
