SPECIFICATION Spec
CONSTANTS
  Clients = {c1, c2, c3}
  Servers = {s1, s2}
  Limit = 2
  Window = 8
  CleanupInterval = 8
  MaxEntries = 2
  MaxStep = 1
  MaxTime = 11
  MaxConcurrent = 1
SYMMETRY TrafficSymmetry
INVARIANTS
  TypeOK
  WindowKept
  TwiceAtMost
  SlotsKept
  GaugeTracks
PROPERTIES
  IsSlidingWindow
  RejectJustified
