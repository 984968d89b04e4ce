SPECIFICATION Spec
CONSTANTS
  None = None
  Requests = {r1, r2}
  Payloads = {p1, p2}
  BadVoice = {p2}
  padded = p2
  trimmed = k
  Keys <- MCKeys
  Trim <- MCTrim
  Concurrent = TRUE
  Contention = TRUE
  IOErrors = TRUE
  MaxCrashes = 1
  MaxDamage = 1
SYMMETRY RequestSymmetry
INVARIANTS
  TypeOK
  CommittedBeforeLock
  NormalIsInstalled
  AuthNeverOpen
