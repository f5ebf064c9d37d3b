\* One slot, two connections: all that a connection can go through, and a full table.
CONSTANTS
  Client = {c1, c2}
  NULL = NULL
  MaxClients = 1
  QueueMax = 2
  ReqSize = 5
  HeaderMin = 2
  HeaderLen = 2
  Bodies <- AllBodies
  FreshStates <- ClientState
  MaxInbox = 3
  SndBuf = 3
SPECIFICATION Spec
SYMMETRY Symmetry
INVARIANTS TypeOK TableAgrees ReadFitsBuffer
CHECK_DEADLOCK FALSE
