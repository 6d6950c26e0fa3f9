SPECIFICATION FairSpec
CONSTANTS
  a = a
  b = b
  c = c
  d = d
  NoNode = NoNode
  Node <- JoinNodes
  DependsOn <- JoinDeps
  Orders <- BothOrders
  CoreActivities = FALSE
  MaxSignals = 3
  MaxFaults = 1
INVARIANTS
  InFlightIsRunning
  DependenciesFirst
  WaitsOnlyOutOfOrder
PROPERTIES
  SkipTakesEffect
  Ends
CHECK_DEADLOCK FALSE
