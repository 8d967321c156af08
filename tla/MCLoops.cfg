SPECIFICATION LoopSpec
CONSTANTS
  Ports = {80, 443}
  Ips = {"ip1", "ip2", "bad"}
  OutOfRange = {"bad"}
  Specs <- MCSpecs
  MaxGen = 3
  MaxFaults = 2
  None = None
  p1 = p1
  Proxies = {p1}
  Thresholds = {1, 2}
  Capacity = 2
  MaxEdits = 2
  MaxTroubles = 1
  MaxLeaderships = 1
  Addrs = {"p80"}
  Modes = {"http", "tls"}
  ConnLimit = 2
  MaxDesired = 3
  MaxBindErrors = 1
  ClassNames = {"a"}
  MaxCutEvents = 2
  MaxCutMishaps = 1
INVARIANTS ListenersAccounted DirectivesSound
PROPERTIES StaysProvisioned VipSettles RelayDrains RelaySettles ListenersSettle CutoverRests DedicatedHonest
CHECK_DEADLOCK FALSE
