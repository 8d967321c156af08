SPECIFICATION GateSpec
CONSTANTS
  Ports = {80, 443}
  Ips = {"ip1", "bad"}
  OutOfRange = {"bad"}
  Specs <- MCListenerSpecs
  MaxGen = 2
  MaxFaults = 0
  None = None
  Nodes = {n1}
INVARIANT PortsProgrammed
