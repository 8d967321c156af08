SPECIFICATION LifeSpec
CONSTANTS
  Proxies = {p1}
  Thresholds = {1, 2}
  Capacity = 2
  MaxEdits = 0
  MaxTroubles = 1
  MaxLeaderships = 0
PROPERTY LeavesSettle
CHECK_DEADLOCK FALSE
