SPECIFICATION PartsSpec
CONSTANTS
  Sessions = {1, 2, 3}
  NodeIds = {"relay", "leaf"}
  Idents = {i1, i2}
  Relays = {"relay"}
  MaxSeq = 1
  Nobody = Nobody
  Replicas = {a, b}
  NoHolder = NoHolder
  TTL = 6
  Renew = 2
  Rehydrate = 2
  MaxBehind = 2
  Startup = 1
  Requests = {"r1", "r2"}
  Endpoints = {"e1", "e2"}
  RetryBudget = 1
  MaxRetries = 3
  Clients = {"c1", "c2"}
  SessionLimit = 2
  MaxDatagrams = 5
  Partitions = {"g1", "g2", "i1"}
  TableOf <- MCTableOf
  CellKeys = {"tcp", "tls"}
  CellOf <- MCCellOf
  EndpointIds = {"e"}
  Forms <- MCForms
  Missing = Missing
  RouteNames = {"ra", "rb"}
  RouteSpecs <- MCRouteSpecs
  Fronts = {"g1", "g2"}
  FrontSpecs <- MCFrontSpecs
  CutOvers = {"g1"}
  Targets = {"t"}
  FirstRev <- MCFirstRev
  FirstSpec <- MCFirstSpec
  MaxRev = 9
INVARIANTS RowsAccounted ClaimsExact StaleLeaderBounded
  InUseExact ErrorsBacked BudgetUntilStale SessionsAccounted CellsFollowCache DeltaAsGoodAsFull RebuildFresh
PROPERTIES DirectRowEndsByOwnExit NeverEvictsAnother
CHECK_DEADLOCK FALSE
