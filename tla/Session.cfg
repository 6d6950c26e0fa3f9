SPECIFICATION FairSpec
CONSTANTS
  a = a
  b = b
  c = c
  NoNode = NoNode
  NoGraph = NoGraph
  Node <- MCNode
  Checkpoint <- MCCheckpoint
  DependsOn <- MCDependsOn
  MaxRetries <- MCMaxRetries
  ClientCommand <- AllCommands
  QueueCap = 1
  MaxCommands = 2
  MaxCrashes = 1
  MaxFaults = 1
INVARIANTS
  SavedWhenIdle
  PausedOffersCheckpoint
  NoIdleWhileRunnable
  CompletionLogged
  RetryAccounting
PROPERTIES
  ImplementsDagRun
  RerunOnlyOnRequest
  Settles
  CommandsServed
CHECK_DEADLOCK FALSE
