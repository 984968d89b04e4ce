SPECIFICATION StartSpec
CONSTANTS
  None = None
  Handlers = {h1}
  Values = {v1, v2}
  Names = {n1, n2}
  Keys = {k1, k2}
  Origins = {o1}
  EnvKey = None
  EnvAll = FALSE
  EnvOrigins = {o1}
  Dangling = FALSE
  Clients <- AdminJobs
  Asks <- FewAsks
  Concurrent = FALSE
  IOErrors = TRUE
  MaxRequests = 2
  MaxRows = 4
  MaxSwitches = 1
  Requests = {s1}
  Togglers = {t1}
  OwnModel = {1}
SYMMETRY SpeechSymmetry
INVARIANTS
  SpeechTypeOK
  Fresh
  CorsAsStored
  SwitchedOff
