\* One client with a body in memory.
CONSTANTS
  Client = {c1}
  NULL = NULL
  MaxClients = 1
  QueueMax = 1
  ReqSize = 3
  HeaderMin = 1
  HeaderLen = 1
  Bodies <- SmallBodies
  FreshStates = {"waiting"}
  MaxInbox = 1
  SndBuf = 2
SPECIFICATION Spec
PROPERTY SentAnswerEndsAnswering
CHECK_DEADLOCK FALSE
