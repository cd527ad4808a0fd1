SPECIFICATION Spec
CONSTANTS
  h1 = h1
  h2 = h2
  h3 = h3
  part = part
  blank = blank
  p1 = p1
  p2 = p2
  w1 = w1
  w2 = w2
  d1 = d1
  d2 = d2
  None = None
  NoDoc = NoDoc
  EmptyHash = blank
  Hashes = {h1, h2, blank}
  VectorIDs <- IDs
  Pods = {p1}
  Workers = {w1, w2}
  PodOf <- OnePod
  Docs = {d1, d2}
  DocChunks <- Overlapping
  CutChunks <- CutOverlapping
  LowQuality = {}
  Capacity = 1
  WarmupLimit = 2
  BatchSize = 2
  MaxAttempts = 1
  MaxVectors = 5
INVARIANTS
  VectorMatchesContent
  NoMissedDuplicate
  CacheBookkeeping
PROPERTIES
  DanglingComesFromCache
  CachedBindingKept
  ImplementsService
CHECK_DEADLOCK FALSE
