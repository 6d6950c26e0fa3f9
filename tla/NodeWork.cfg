SPECIFICATION Spec
CONSTANTS
  a = a
  b = b
  t = t
  fa = fa
  fb = fb
  ta = ta
  NoFile = NoFile
  NoNode = NoNode
  Node <- MCNode
  Tester = {t}
  Tested <- MCTested
  DependsOn <- MCDependsOn
  MaxRetries <- MCMaxRetries
  File = {fa, fb, ta}
  Output <- MCOutput
  TestFile <- MCTestFile
  Compiled = {fa, fb, ta}
  Integrated = {fa, fb}
  Demanding = {b}
  MaxTurns = 2
  Writes <- MCWrites
  MaxWrites = 2
  MaxRuns = 2
  MaxFaults = 1
INVARIANTS
  IntrudersFail
  ReportedIsVerified
  DoneRunCompiles
CHECK_DEADLOCK FALSE
