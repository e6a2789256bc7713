SPECIFICATION RefreshSpec
CONSTANTS
  Auths = {a1}
  Workers = {w1}
  Operators = {o1}
  Results = {}
  Slots = 1
  Life = 3
  Lead = 1
  PendingBackoff = 2
  FailureBackoff = 3
  Patience = 1
PROPERTIES
  DisabledStays
