SPECIFICATION Spec
CONSTANTS
  a1 = a1
  a2 = a2
  Auths <- MCAuths
  PoolSize <- MCPoolSize
  RequestRetry <- MCRetry
  MaxCredentials = 0
  MaxWait = 1
  MaxBootstrap = 1
  Kinds = {"completions", "responses"}
  Modes = {"stream", "plain", "count"}
  Errors = {"hinted", "invalid", "network"}
  MaxPayloads = 2
  Horizon = 1
  Disturbances = 1
INVARIANTS
  OneWholeStream
PROPERTIES
  Credited
  AllReleased
CHECK_DEADLOCK FALSE
