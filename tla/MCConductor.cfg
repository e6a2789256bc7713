SPECIFICATION JointSpec
CONSTANTS
  Auths = {a1, a2}
  Models = {m1}
  Requests = {r1, r2}
  Operators = {o1}
  Outcomes = {"success", "quota"}
  MaxCredentials = 2
  Arrivals = 1
  Changes = 1
  f1 = f1
  f2 = f2
  MaxVisits = 1
  StartBy = 1
  LoginEnd = 5
  Projects = {"p1", "p2", "g1"}
  Generated = {"g1"}
  Backends = {"b1", "b2"}
CHECK_DEADLOCK FALSE
INVARIANTS
  TablesInStep
  RefusalJustified
  LoginsTrue
PROPERTIES
  RequestsEnd
  LoginsEnd
