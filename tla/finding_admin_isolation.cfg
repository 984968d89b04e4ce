SPECIFICATION Spec
CONSTANTS
  None = None
  Handlers = {h1, h2}
  Values = {v1}
  Names = {n1}
  Keys = {k1, k2}
  Origins = {}
  EnvKey = None
  EnvAll = FALSE
  EnvOrigins = {}
  Dangling = FALSE
  Clients <- UpdateAndAdminKey
  Concurrent = TRUE
  IOErrors = FALSE
  MaxRequests = 2
  MaxRows = 4
INVARIANTS
  AdminIsolated
