SPECIFICATION Spec
CONSTANTS
  Flows = {"chat", "responses", "messages"}
  Calls = {0, 1}
  Items = {0, 1}
  Parts = {0, 1}
  MaxWhitespace = 1
  MaxChunks = 6
INVARIANTS
  RelayInvariant
  EachPieceOnce
PROPERTIES
  ImplementsStream
  LoopComesBack
CHECK_DEADLOCK FALSE
