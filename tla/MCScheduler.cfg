SPECIFICATION Spec
CONSTANTS
  p1 = p1
  p2 = p2
  base = base
  suffixed = suffixed
  Auths = {1, 2, 3}
  Providers = {p1, p2}
  Models = {base}
  Canon <- Plain
  Metas <- Mixed
  Blocks = {"free", "cooldown", "other"}
  Durations = {1}
  ProviderLists <- Both
  Requests <- TriedOrPin
  MaxNow = 2
INVARIANTS
  PicksAsSelector
PROPERTIES
  RotationKept
