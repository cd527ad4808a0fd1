SPECIFICATION FairSpec
CONSTANTS
  e1 = e1
  i1 = i1
  i2 = i2
  w1 = w1
  w2 = w2
  None = None
  Events = {e1}
  Instances = {i1, i2}
  Workers = {w1, w2}
  PodOf <- OneEach
  MaxDeliveries = 2
  DLQStream = TRUE
  ScaleDown = FALSE
  MaxFaults = 2
  MaxShutdowns = 1
INVARIANTS
  TypeOK
  AckedMeansDecided
  CopiesAccountedFor
  GivenUpOnlyAfterRetries
PROPERTIES
  DecidedIfServed
CHECK_DEADLOCK FALSE
