SPECIFICATION FairSpec
CONSTANTS
  None = None
  Requests = {r1}
  Payloads = {p1}
  BadVoice = {}
  padded = p1
  trimmed = k
  Keys <- MCKeys
  Trim <- MCTrim
  Concurrent = FALSE
  Contention = FALSE
  IOErrors = FALSE
  MaxCrashes = 1
  MaxDamage = 1
PROPERTIES
  Heals
