\* Two sessions; no symmetry, which StopsGetThrough does not allow.
SPECIFICATION FairSpec
CONSTANTS
  s1 = s1
  s2 = s2
  Session = {s1, s2}
  NoSession = NoSession
  NoGraph = NoGraph
  MaxVersion = 1
  MaxWakes = 1
  MaxCrashes = 1
  MaxFaults = 1
CHECK_DEADLOCK FALSE
INVARIANT ShownIsServed
PROPERTIES  StopsGetThrough
