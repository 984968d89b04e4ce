SPECIFICATION Spec
CONSTANTS
  None = None
  Handlers = {h1, h2}
  Values = {v1, v2}
  Names = {n1, n2}
  Keys = {k1, k2}
  Origins = {o1}
  EnvKey = k1
  EnvAll = FALSE
  EnvOrigins = {o1}
  Dangling = TRUE
  Clients <- FewJobs
  Concurrent = TRUE
  IOErrors = TRUE
  MaxRequests = 2
  MaxRows = 5
SYMMETRY ConfigSymmetry
INVARIANTS
  TypeOK
  AuthNeverOpen
  AdminNeverLockedOut
  TakesEffect
