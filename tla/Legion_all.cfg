SPECIFICATION OneOldSpec
CONSTANTS
  d1 = d1
  d2 = d2
  Names <- TwoNames
  MaxProcs = 2
  MaxSignals = 1
  LOG_VERSIONS = 3
INVARIANTS
  StatusMatchesProcess
  ActiveHasSynced
PROPERTIES
  RotationKeepsLogs
  ImplementsLife
  CommandsFinish
CHECK_DEADLOCK FALSE
