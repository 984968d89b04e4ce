SPECIFICATION Spec
CONSTANTS
  None = None
  Requests = {r1, r2}
  Payloads = {p1, p2}
  BadVoice = {}
  padded = p2
  trimmed = k
  Keys <- MCKeys
  Trim <- MCTrim
  Concurrent = TRUE
  Contention = FALSE
  IOErrors = FALSE
  MaxCrashes = 0
  MaxDamage = 0
PROPERTIES
  SetupClosed
