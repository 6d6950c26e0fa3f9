SPECIFICATION Spec
CONSTANTS
  a = a
  b = b
  c = c
  d = d
  t = t
  NoGraph = NoGraph
  NoNode = NoNode
  Node <- GateNodes
  DependsOn <- GateDeps
  Order <- GateOrder
  MaxRetries <- GateRetries
  Checkpoint <- OneGate
  Tester <- OneTester
  Interactive = TRUE
  Request <- Everything
  MaxRequests = 2
  MaxCrashes = 1
  MaxFaults = 1
INVARIANTS
  InFlightIsRunning
  SavedWhileWaiting
  GateConfirmed
  CheckpointOffered
  NothingRunnableLeft
  AttemptsBounded
CHECK_DEADLOCK FALSE
PROPERTY
  ImplementsDagRun
