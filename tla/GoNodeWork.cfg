SPECIFICATION FairSpec
CONSTANTS
  s1 = s1
  s2 = s2
  a = a
  b = b
  x = x
  fa = fa
  fb = fb
  pkg = pkg
  NoNode = NoNode
  Session = {s1, s2}
  Scripted = {s2}
  Node = {a, b, x}
  SessionOf <- MCSessionOf
  DependsOn <- MCDependsOn
  Outputs <- MCOutputs
  MaxRetries <- MCMaxRetries
  File = {fa, fb, pkg}
  Manifest = pkg
  full = full
  lax = lax
  text = text
  Kind = {full, lax, text}
  Unread = text
  Scripts <- MCScripts
  LooksAt <- MCLooksAt
  Above = TRUE
  Compiled = {fa}
  Linted = {fb}
  Reviewed = TRUE
  MaxSteps = 3
  Writes <- MCWrites
  MaxWrites = 2
INVARIANTS
  CompletedIsChecked
CHECK_DEADLOCK FALSE
PROPERTY
  SessionsSettle
