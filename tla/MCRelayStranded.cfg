SPECIFICATION RelaySpec
CONSTANTS
  g1 = g1
  g2 = g2
  l1 = l1
  c1 = c1
  c2 = c2
  RelayGateways = {g1}
  Serves <- SmallFleet
  RelayCells = {c1}
  Leaves = {l1}
  LeafGateway <- OneLeaf
  Tiers = {"shared"}
  MaxPublishes = 2
  MaxMishaps = 0
PROPERTIES StampsReached
CHECK_DEADLOCK FALSE
