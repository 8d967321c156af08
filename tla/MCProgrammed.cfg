SPECIFICATION ProgrammedSpec
CONSTANTS
  Gateways = {"gw"}
  SharedCells = {"routes"}
  Tables = {"routes"}
  Dedicated = "dedicated"
  Tasks = {t1, t2}
  Subscriptions <- SameScope
  MaxRev = 1
  MaxRebuilds = 2
  Fingerprints = {1}
  Ports = {80}
  Ips = {"ip1", "bad"}
  OutOfRange = {"bad"}
  Specs <- MCRepinSpecs
  MaxGen = 2
  MaxFaults = 1
  None = None
  Nodes = {n1}
SYMMETRY Symmetry
INVARIANTS FenceHonest TrailingTickFresh ProgrammedHonest
