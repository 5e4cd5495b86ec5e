\* A reserve transfer to the relay chain nested in SetAppendix.
CONSTANTS
  RemoteOrigins <- MCRemoteOrigins
  LocalOrigin = "LocalAccount"
  Parent = "Parent"
  RemoteMessages <- MCRemoteMessages
  LocalMessages <- MCLocalMessages
  QueryIds <- MCQueryIds
  Responders <- MCResponders
SPECIFICATION Spec
INVARIANT NoReserveTransferToRelayAdmitted
