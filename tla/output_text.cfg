SPECIFICATION Spec
CONSTANTS
  Byte <- ByteClass
  Limit = 4
  MaxChunk = 3
  MaxOffered = 6
INVARIANTS RetainsPrefix OutputWithinTwice
CHECK_DEADLOCK FALSE
