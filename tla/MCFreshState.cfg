\* What malloc() returns holds any state.
CONSTANTS
  Client = {c1}
  NULL = NULL
  MaxClients = 1
  QueueMax = 1
  ReqSize = 3
  HeaderMin = 1
  HeaderLen = 1
  Bodies <- SmallBodies
  FreshStates <- ClientState
  MaxInbox = 1
  SndBuf = 2
SPECIFICATION Spec
PROPERTY AcceptedClientWaits
CHECK_DEADLOCK FALSE
