\* Room for two requests and a piece of a third, in any pieces.
CONSTANTS
  Size = 22
  HeaderMin = 9
  Letters <- MCLetters
  Requests <- MCRequests
  Leftovers <- MCLeftovers
  accepted_methods <- MCMethods
  accepted_versions <- MCVersions
  MaxPath = 3
  NULL = NULL
  Site <- MCSite
  AnswerBufferSize = 411
  MaxInt = 2147483647
SPECIFICATION HttpSpec
INVARIANTS HeaderTellsBody ParserStaysInside HeaderIsWhole
PROPERTIES BufferIsSafe WholeRequestIsRecognised LeftoverIsNoRequest AnswerIsForTheRequest
CHECK_DEADLOCK FALSE
