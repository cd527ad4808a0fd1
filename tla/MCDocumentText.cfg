SPECIFICATION Spec
CONSTANTS
  body = body
  header = header
  blank = blank
  junk = junk
  Blank = blank
  Texts <- AllTexts
  Tokens <- TokensOfText
  Sentences <- SentencesOfText
  Budget = 4
  Overlap = 2
  HeaderSized = {header}
  Garbage = {junk}
  Outputs <- AllOutputs
  ChanCap = 1
  MaxLines = 3
INVARIANTS
  TypeOK
  LinesInOrder
  HeadersRecur
  NothingLost
  ChunksAdvance
  ChunksFit
PROPERTIES
  TextEnds
CHECK_DEADLOCK FALSE
