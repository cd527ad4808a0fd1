SPECIFICATION Spec
CONSTANTS
  u1 = u1
  u2 = u2
  u3 = u3
  c1 = c1
  c2 = c2
  p1 = p1
  p2 = p2
  None = None
  Uploads = {u1, u2}
  Checksums = {c1}
  ContentOf <- SameFile
  Pods = {p1}
  PodOf <- OnOnePod
  MaxFaults = 0
INVARIANTS
  CreatedIsPublished
CHECK_DEADLOCK FALSE
