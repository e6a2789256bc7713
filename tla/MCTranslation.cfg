SPECIFICATION JointSpec
SYMMETRY Symmetry
CONSTANTS
  Pairs <- MCPairs
  MaxBlocks = 3
  MaxPieces = 2
  Quirks = {}
  Subjects = {"translation", "cache", "executor", "request"}
  Writers = {w1}
  Readers = {r1}
  Texts = {t1}
  Signatures = {s1, s2}
  SignatureCacheTTL = 1
  Buckets = {1, 2}
  MaxNow = 3
  Executors <- MCExecutors
  RequestRetry = 1
  MaxEvents = 3
  PerMinute = 2
  Window = 3
  MaxClock = 7
  RequestPairs <- MCRequestPairs
  Functions = {f, g}
  MaxParts = 6
  Habits = {"unanswered"}
INVARIANTS
  Answered
  Executed
  Paired
  Understood
PROPERTIES
  LookupsTrue
CHECK_DEADLOCK FALSE
