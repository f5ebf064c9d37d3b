\* Room for two requests.
CONSTANTS
  Size = 20
  HeaderMin = 5
  Letters = {"x"}
  Requests <- MCRequests
  Leftovers <- OldMemory
SPECIFICATION Spec
INVARIANT SplitRequestIsJoined
CHECK_DEADLOCK FALSE
