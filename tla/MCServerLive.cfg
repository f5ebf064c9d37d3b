\* Two clients, one busy answer buffer each.
CONSTANTS
  Client = {c1, c2}
  NULL = NULL
  MaxClients = 2
  QueueMax = 1
  ReqSize = 2
  HeaderMin = 1
  HeaderLen = 1
  Bodies <- SmallBodies
  FreshStates = {"waiting"}
  MaxInbox = 1
  SndBuf = 1
SPECIFICATION FairSpec
PROPERTIES HangupIsNoticed EndOfStreamIsNoticed InputIsRead HeaderIsSent ConnectionIsAccepted ImplementsRounds
CHECK_DEADLOCK FALSE
