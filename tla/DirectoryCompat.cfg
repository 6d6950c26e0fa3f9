\* One session, whose actor works while a verification of a node runs.
SPECIFICATION Spec
CONSTANTS
  s1 = s1
  s2 = s2
  Session = {s1}
  NoSession = NoSession
  NoGraph = NoGraph
  MaxVersion = 2
  MaxWakes = 0
  MaxCrashes = 0
  MaxFaults = 0
CHECK_DEADLOCK FALSE
INVARIANT SnapshotIsEnough
