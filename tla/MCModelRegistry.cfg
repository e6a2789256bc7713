SPECIFICATION JointSpec
CONSTANTS
  c1 = c1
  c2 = c2
  c3 = c3
  m1 = m1
  m2 = m2
  p1 = p1
  p2 = p2
  Clients = {c1, c2}
  Models = {m1, m2}
  Providers = {p1, p2}
  Lists <- Repeated
  Reasons = {"quota", "unauthorized"}
  LateResults = TRUE
  Window = 2
  MaxNow = 3
  Subjects = {"registry", "thinking", "config", "socket"}
  Routes <- MCRoutes
  WishedLevels = {"none", "auto", "minimal", "low", "medium", "high", "xhigh", "max", "ultra"}
  WishedBudgets <- MCBudgets
  WishedTokens = {1000, 32000}
  Families = {"api-keys", "gemini-api-key", "claude-api-key", "codex-api-key", "vertex-api-key",
              "openai-compatibility", "model-mappings", "upstream-api-keys",
              "oauth-excluded-models", "oauth-model-alias"}
  MaxEdits = 2
  SocketAuths = {a1, a2}
  SocketTurns = 3
SYMMETRY Symmetry
INVARIANTS
  ListsTrue
  Carried
  Heard
  ConfigKept
PROPERTIES
  NothingStale
  OnlyNamed
CHECK_DEADLOCK FALSE
