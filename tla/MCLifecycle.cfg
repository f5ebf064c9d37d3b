\* Two commands run at the start, three clients; a pipe smaller than the buffer,
\* outputs below, at and above the buffer's size and above what buffer and pipe
\* hold together.
CONSTANTS
  BufferLen = 4
  PipeMax = 2
  Outputs = {0, 3, 4, 8}
  MessagesLen = 5
  Client = {c1, c2, c3}
  NULL = NULL
  NbCalls = 2
SPECIFICATION LifeSpec
INVARIANTS NothingIsLost NothingIsLeft CleaningIsSafe UninitialisedOnlyEarly CleaningIsComplete
PROPERTIES CallReturns ChildEnds StartEnds
CHECK_DEADLOCK FALSE
