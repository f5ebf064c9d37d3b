\* Three clients, the least for a removal before, at and after another visit.
\* Requests and answers are as short as they can be.
CONSTANTS
  Client = {c1, c2, c3}
  NULL = NULL
  MaxClients = 3
  QueueMax = 1
  ReqSize = 2
  HeaderMin = 1
  HeaderLen = 1
  Bodies = {}
  FreshStates = {"waiting", "unknown"}
  MaxInbox = 1
  SndBuf = 1
SPECIFICATION Spec
SYMMETRY Symmetry
INVARIANTS NoDanglingClient SlotMatchesClient NoReadySocketSkipped TableAgrees
CHECK_DEADLOCK FALSE
