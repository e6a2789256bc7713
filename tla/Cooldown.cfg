SPECIFICATION Spec
CONSTANTS
  Models = {m1, m2}
  QuotaBase = 1
  QuotaMax = 4
  TransientCooldown = 1
  DeniedCooldown = 2
  NotFoundCooldown = 3
  IntWidth = 5
  MaxLevel = 2
  Hints = {2}
  NoCooling = FALSE
  Horizon = 2
  MaxNow = 6
INVARIANTS
  LevelBounded
  AggregateAgrees
PROPERTIES
  BackoffKept
  Recovers
