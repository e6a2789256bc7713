SPECIFICATION Spec
CONSTANTS
  Turns = 2
  MaxConns = 2
  MaxParts = 1
  Buffer = 1
INVARIANTS
  Answers
  OneReader
PROPERTIES
  AllEnd
CHECK_DEADLOCK FALSE
