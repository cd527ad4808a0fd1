SPECIFICATION FairSpec
CONSTANTS
  u1 = u1
  u2 = u2
  u3 = u3
  c1 = c1
  c2 = c2
  p1 = p1
  p2 = p2
  None = None
  Uploads = {u1, u2, u3}
  Checksums = {c1, c2}
  ContentOf <- TwoAndOne
  Pods = {p1, p2}
  PodOf <- Spread
  MaxFaults = 1
INVARIANTS
  TypeOK
  NothingDangling
  CreatedIsStored
  SecondCopyOnlyIfConcurrent
PROPERTIES
  EveryUploadEnds
CHECK_DEADLOCK FALSE
