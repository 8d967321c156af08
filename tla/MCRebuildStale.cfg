SPECIFICATION RebuildSpec
CONSTANTS
  RouteNames = {"ra", "rb"}
  RouteSpecs <- MCRouteSpecs
  Fronts = {"g1", "g2"}
  FrontSpecs <- MCFrontSpecs
  CutOvers = {}
  Targets = {"t"}
  FirstRev <- MCFirstRev
  FirstSpec <- MCFirstSpec
  MaxRev = 8
INVARIANT NeverStale
CHECK_DEADLOCK FALSE
