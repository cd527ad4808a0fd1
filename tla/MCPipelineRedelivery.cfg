SPECIFICATION Spec
CONSTANTS
  h1 = h1
  h2 = h2
  h3 = h3
  part = part
  blank = blank
  p1 = p1
  p2 = p2
  w1 = w1
  w2 = w2
  d1 = d1
  d2 = d2
  None = None
  NoDoc = NoDoc
  EmptyHash = blank
  Hashes = {h1, h2, h3, part, blank}
  VectorIDs <- IDs
  Pods = {p1, p2}
  Workers = {w1, w2}
  PodOf <- TwoPods
  Docs = {d1}
  DocChunks <- PoorAndBlank
  CutChunks <- CutPoorAndBlank
  LowQuality = {h2}
  Capacity = 1
  WarmupLimit = 0
  BatchSize = 1
  MaxAttempts = 2
  MaxVectors = 8
INVARIANTS
  TypeOK
  SuccessMeansStored
  RowsOfOneAttempt
  RefusedMeansStored
  BindingsVouched
CHECK_DEADLOCK FALSE
