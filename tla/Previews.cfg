SPECIFICATION PreviewSpec
CONSTANTS
  k1 = k1
  k2 = k2
  Key = {k1, k2}
  Port = {p1, p2}
  Written <- MCWritten
  Launch = {l1, l2}
  MaxCalls <- MCMaxCalls
  NoPort = NoPort
  NoLaunch = NoLaunch
SYMMETRY Symmetry
INVARIANTS
  NoneLeftRunning
  ShownIsOwn
