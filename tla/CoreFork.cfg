SPECIFICATION FairSpec
CONSTANTS
  a = a
  b = b
  c = c
  d = d
  t = t
  NoGraph = NoGraph
  NoNode = NoNode
  Node <- ForkNodes
  DependsOn <- ForkDeps
  Order <- ForkOrder
  MaxRetries <- ForkRetries
  Checkpoint <- ForkGate
  Tester <- None
  Interactive = FALSE
  Request <- Resuming
  MaxRequests = 1
  MaxCrashes = 1
  MaxFaults = 0
CHECK_DEADLOCK FALSE
PROPERTY
  RunEnds
