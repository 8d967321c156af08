SPECIFICATION SessionsSpec
CONSTANTS
  Sessions = {s1, s2, s3}
  NodeIds = {"leaf"}
  Idents = {i1, i2}
  Relays = {}
  MaxSeq = 1
  Nobody = Nobody
SYMMETRY Symmetry
INVARIANT LiveSessionHasRow
CHECK_DEADLOCK FALSE
