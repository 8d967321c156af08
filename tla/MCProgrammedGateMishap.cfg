SPECIFICATION MishapSpec
CONSTANTS
  Ports = {80}
  Ips = {"ip1", "bad"}
  OutOfRange = {"bad"}
  Specs <- MCPinnedSpec
  MaxGen = 1
  MaxFaults = 1
  None = None
  Nodes = {n1}
PROPERTIES NoFlap Settles
