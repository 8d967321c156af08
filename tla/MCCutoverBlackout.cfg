SPECIFICATION CutSpec
CONSTANTS
  ClassNames = {"a", "b"}
  MaxCutEvents = 1
  MaxCutMishaps = 0
PROPERTIES HandoffBridged
CHECK_DEADLOCK FALSE
