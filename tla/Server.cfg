SPECIFICATION Spec
CONSTANTS
  a = a
  b = b
  c = c
  NoGraph = NoGraph
  Session = {s1}
  Node <- MCNode
  Checkpoint = {c}
  Tester = {}
  DependsOn <- MCDependsOn
  Order <- MCOrder
  MaxRetries <- MCMaxRetries
  MaxRuns = 2
  MaxRequests = 2
  MaxCrashes = 1
  MaxFaults = 1
INVARIANTS
  OneWriter
  PausedCanResume
  ReplayExplained
CHECK_DEADLOCK FALSE
