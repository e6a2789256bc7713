SPECIFICATION AllSpec
CONSTANTS
  Requests = {r1}
  Buffer = 2
  MaxParts = 3
  Publishers = {"p1", "p2"}
  Records = {"r1", "r2"}
  Plugins = {"g1", "g2"}
  MaxRecords = 3
  Auths = {a1}
  Workers = {w1, w2}
  Operators = {o1}
  Results = {"quota"}
  Slots = 1
  Life = 3
  Lead = 1
  PendingBackoff = 1
  FailureBackoff = 2
  Patience = 2
INVARIANTS
  NoOrphan
  WholeUnlessLost
  NothingLost
  PluginsComplete
  RefreshedOnce
PROPERTIES
  Returns
  Implements
  DueIsTried
CHECK_DEADLOCK FALSE
