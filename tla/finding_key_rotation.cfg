SPECIFICATION Spec
CONSTANTS
  None = None
  Handlers = {h1}
  Values = {v1}
  Names = {n1}
  Keys = {k1, k2}
  Origins = {o1}
  EnvKey = None
  EnvAll = FALSE
  EnvOrigins = {}
  Dangling = FALSE
  Clients <- AllJobs
  Concurrent = FALSE
  IOErrors = FALSE
  MaxRequests = 2
  MaxRows = 3
INVARIANTS
  AdminFollowsAuth
