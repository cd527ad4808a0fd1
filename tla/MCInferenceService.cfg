SPECIFICATION Spec
CONSTANTS
  port = port
  dim = dim
  url = url
  v1 = v1
  v2 = v2
  q1 = q1
  q2 = q2
  d1 = d1
  d2 = d2
  a1 = a1
  a2 = a2
  a3 = a3
  b1 = b1
  default = default
  acme = acme
  Unset = Unset
  NoTenant = NoTenant
  NoBody = NoBody
  Variables = {port, dim, url}
  Values = {v1, v2}
  Required = {port, dim}
  Parsed = {dim}
  Unparsable = {v2}
  Default <- Defaults
  Environments <- AllEnvironments
  Files <- AllFiles
  Queries = {q1, q2}
  Bodies <- AllBodies
  Docs = {d1, d2}
  Chunks = {a1, a2, a3, b1}
  DocOf <- OfDoc
  Similarity <- Percent
  Tenant <- Tenants
INVARIANTS
  TypeOK
  FirstAssignmentWins
  NothingBetterLeftOut
  DocumentsWhole
  DrainedInTime
PROPERTIES
  EveryQueryEnds
CHECK_DEADLOCK FALSE
