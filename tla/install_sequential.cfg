SPECIFICATION FairSpec
CONSTANTS
  None = None
  Requests = {r1, r2, r3}
  Payloads = {p1, p2}
  BadVoice = {}
  padded = p2
  trimmed = k
  Keys <- MCKeys
  Trim <- MCTrim
  Concurrent = FALSE
  Contention = FALSE
  IOErrors = FALSE
  MaxCrashes = 2
  MaxDamage = 1
INVARIANTS
  AckedIsStored
  AdminReachable
  ServesStored
  NothingStranded
PROPERTIES
  RestartsIntoNormal
  HealsUnlessKilled
  SetupClosed
  KeepsContract
