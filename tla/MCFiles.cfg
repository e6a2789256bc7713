SPECIFICATION AllSpec
CONSTANTS
  Subjects = {"watcher", "dispatcher", "lifecycle"}
  Files = {f1}
  Keys = {k}
  Runtimes = {w}
  Contents = {v1, v2}
  c1 = c1
  c2 = c2
  Configs <- MCConfigs
  None = None
  Blank = Blank
  Reloaders = {r1}
  Main = r1
  Capacity = 1
  MaxEdits = 3
  Overlap = FALSE
  Hurried = FALSE
  Confs = {"c1", "c2"}
  MaxChanges = 3
  MaxCatalogs = 3
INVARIANTS
  FollowsFiles
  LatestWins
  TablesFollow
PROPERTIES
  Settles
CHECK_DEADLOCK FALSE
