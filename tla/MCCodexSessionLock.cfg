SPECIFICATION Spec
CONSTANTS
  Turns = 2
  MaxConns = 2
  MaxParts = 1
  Buffer = 1
PROPERTIES
  UpgradeFallback
CHECK_DEADLOCK FALSE
