SPECIFICATION JointSpec
CONSTANTS
  Pairs <- MCPairs
  MaxBlocks = 3
  MaxPieces = 1
  Quirks = {"two calls"}
  Subjects = {"translation"}
  Writers = {w1}
  Readers = {r1, r2}
  Texts = {t1}
  Signatures = {s1, s2}
  SignatureCacheTTL = 1
  Buckets = {1, 2}
  MaxNow = 2
  Executors <- MCExecutors
  RequestRetry = 1
  MaxEvents = 1
  PerMinute = 1
  Window = 1
  MaxClock = 1
  RequestPairs <- MCRequestPairs
  Functions = {f}
  MaxParts = 1
  Habits = {}
INVARIANTS
  CallsAdded
CHECK_DEADLOCK FALSE
