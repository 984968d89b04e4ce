SPECIFICATION FairSpec
CONSTANTS
  None = None
  Handlers = {h1}
  Values = {v1, v2}
  Names = {n1, n2}
  Keys = {k1, k2}
  Origins = {}
  EnvKey = k1
  EnvAll = FALSE
  EnvOrigins = {}
  Dangling = FALSE
  Clients <- AllJobs
  Concurrent = FALSE
  IOErrors = FALSE
  MaxRequests = 4
  MaxRows = 5
INVARIANTS
  DefaultExists
PROPERTIES
  ChangesAreLive
