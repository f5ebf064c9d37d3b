\* One slot, two connections.
CONSTANTS
  Client = {c1, c2}
  NULL = NULL
  MaxClients = 1
  QueueMax = 2
  ReqSize = 3
  HeaderMin = 1
  HeaderLen = 1
  Bodies <- SmallBodies
  FreshStates = {"waiting"}
  MaxInbox = 1
  SndBuf = 2
SPECIFICATION Spec
INVARIANT FullTableIsSurvived
CHECK_DEADLOCK FALSE
