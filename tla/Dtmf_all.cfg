SPECIFICATION Spec
CONSTANTS
  Tokens <- MCTokens
  MaxArgs = 7
  Lines <- MCLines
  MaxLines = 3
  Streams <- MCStreams
  Rows = {12}
  Cols = {1, 3}
  MinSamples = 20
  IdxRange = 48
  MaxBlocks = 5
INVARIANTS
  
  SamplesInPlace
  LengthWritten
  EventsReported
  HeaderChecked
PROPERTY ProgramEnds
CHECK_DEADLOCK FALSE
