CONSTANTS
  Sizes <- MCSizes
  Resizes <- MCResizes
  Filled <- MCFilled
  QUICK_LIST_MAX = 2
  MaxPages = 2
  MaxCalls = 7
SPECIFICATION Spec
INVARIANT BlocksTile ListsAgree
 
CONSTRAINT NoTrouble
CHECK_DEADLOCK FALSE
