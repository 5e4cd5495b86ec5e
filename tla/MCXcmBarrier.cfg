\* Inbound and local messages against the barrier and PolkadotXcm's queries.
CONSTANTS
  RemoteOrigins <- MCRemoteOrigins
  LocalOrigin = "LocalAccount"
  Parent = "Parent"
  RemoteMessages <- MCRemoteMessages
  LocalMessages <- MCLocalMessages
  QueryIds <- MCQueryIds
  Responders <- MCResponders
SPECIFICATION Spec
PROPERTY AdmittedResponsesArePending
