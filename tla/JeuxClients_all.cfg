SPECIFICATION FairSpec
CONSTANTS
  c1 = c1
  c2 = c2
  c3 = c3
  Conns <- ThreeConns
  MAX_CLIENTS = 2
  MaxInvites = 1
INVARIANT CountExact
 
INVARIANT NotEmptySignals
PROPERTY TerminatesWhenSettled
CHECK_DEADLOCK FALSE
