SPECIFICATION PlaneSpec
CONSTANTS
  Keys = {"route", "ep"}
  Vals = {"a"}
  Absent = "absent"
  Keep = "keep"
  Nil = Nil
  Bad <- Dangling
  MaxRebuilds = 2
  MaxSessions = 2
  g1 = g1
  g2 = g2
  l1 = l1
  c1 = c1
  c2 = c2
  RelayGateways = {g1, g2}
  Serves <- SmallFleet
  RelayCells = {c1, c2}
  Leaves = {l1}
  LeafGateway <- OneLeaf
  Tiers = {"shared", "namespace"}
  MaxPublishes = 2
  MaxMishaps = 1
INVARIANTS BaselineKept CreditHonest SharedAckHonest
PROPERTIES KeepsPromise Converges NoBlackout NamespaceSettles
CHECK_DEADLOCK FALSE
