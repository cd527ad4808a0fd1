SPECIFICATION Spec
CONSTANTS
  c1 = c1
  c2 = c2
  h1 = h1
  h2 = h2
  h3 = h3
  poor = poor
  NilID = NilID
  Calls = {c1, c2}
  Chunks <- AllChunks
  Batch <- Batches
  SubBatchSize = 1
  MaxConcurrentCalls = 2
  MaxRetries = 2
  Rejected = {poor}
  Bands = {1, 2}
  Signature <- Signatures
INVARIANTS
  SchedTypeOK
  FailureMeansRetried
  EmbedIsOneStep
PROPERTIES
  ImplementsEmbeddingCall
  StageEnds
CHECK_DEADLOCK FALSE
