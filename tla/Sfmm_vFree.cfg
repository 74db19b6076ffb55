CONSTANTS
  Sizes = {200}
  Resizes = {}
  Filled = {}
  QUICK_LIST_MAX = 2
  MaxPages = 2
  MaxCalls = 7
SPECIFICATION Spec
INVARIANT FreeAccepted
CONSTRAINT NoTrouble
CHECK_DEADLOCK FALSE
