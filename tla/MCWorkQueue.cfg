SPECIFICATION PartSpec
CONSTANTS
  gw = gw
  rt = rt
  Keys = {gw, rt}
  Gateways = {gw}
  Permits = 1
  MaxChanges = 2
  None = None
  Delays = {0, 1}
  Base = 1
  Cap = 3
  MaxAttempts = 1
  MaxDelayed = 2
  MaxOwed = 1
INVARIANTS QueueShape NoLostWakeup ChangeNotLost WorkerOwnsProcessing
PROPERTIES Guarantees QueueServes StatusSettles
