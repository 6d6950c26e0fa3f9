SPECIFICATION StreamSpec
CONSTANTS
  a = a
  c = c
  NoNode = NoNode
  NoGraph = NoGraph
  Node <- MCNode
  Checkpoint <- MCCheckpoint
  DependsOn <- MCDependsOn
  MaxRetries <- MCMaxRetries
  ClientCommand <- MCCommands
  QueueCap = 1
  MaxCommands = 1
  MaxCrashes = 1
  MaxFaults = 0
  ReplayCap = 1
  FeedCap = 2
  MaxConnects = 2
  MaxFetches = 1
INVARIANTS
  NothingElseLost
  FinishedIsShown
CHECK_DEADLOCK FALSE
