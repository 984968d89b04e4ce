SPECIFICATION Spec
CONSTANTS
  None = None
  Requests = {r1}
  Payloads = {p1}
  BadVoice = {}
  padded = p1
  trimmed = k
  Keys <- MCKeys
  Trim <- MCTrim
  Concurrent = FALSE
  Contention = TRUE
  IOErrors = FALSE
  MaxCrashes = 1
  MaxDamage = 0
PROPERTIES
  BackupOnlyDamaged
