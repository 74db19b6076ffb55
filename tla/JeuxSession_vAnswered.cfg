\* A leaked invLock or a dereferenced NULL game stops the threads for good.
SPECIFICATION FairSpec
CONSTANTS
  Cells <- ThreeCells
  Lines <- TwoLines
  Requests = {"INVITE", "REVOKE", "DECLINE"}
  InviteRoles = {1}
  Suffixes = {"none"}
  NullMoves = FALSE
PROPERTIES
  EveryRequestAnswered
CHECK_DEADLOCK FALSE
