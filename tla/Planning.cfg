SPECIFICATION Spec
CONSTANTS
  a = a
  b = b
  c = c
  u = u
  na = na
  nb = nb
  nc = nc
  ra = ra
  tx = tx
  out = out
  NoPlan = NoPlan
  NoGraph = NoGraph
  Id <- MCId
  Name <- MCName
  Normalize <- MCNormalize
  InOutput <- MCInOutput
  InRepo <- MCInRepo
  Typed <- MCTyped
  Typescript <- MCTypescript
  Plan <- MCPlan
  MaxAttempts = 2
INVARIANTS
  AcceptedCanFinish
  CycleIsThere
  OneNameEach
CHECK_DEADLOCK FALSE
