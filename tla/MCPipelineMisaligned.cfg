SPECIFICATION Spec
CONSTANTS
  h1 = h1
  h2 = h2
  h3 = h3
  part = part
  blank = blank
  p1 = p1
  p2 = p2
  w1 = w1
  w2 = w2
  d1 = d1
  d2 = d2
  None = None
  NoDoc = NoDoc
  EmptyHash = blank
  Hashes = {h1, h2}
  VectorIDs <- IDs
  Pods = {p1}
  Workers = {w1}
  PodOf <- SingleWorker
  Docs = {d1}
  DocChunks <- TwoChunks
  CutChunks <- CutTwoChunks
  LowQuality = {h1}
  Capacity = 1
  WarmupLimit = 0
  BatchSize = 2
  MaxAttempts = 1
  MaxVectors = 2
INVARIANTS
  VectorMatchesContent
CHECK_DEADLOCK FALSE
