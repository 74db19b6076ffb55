\* A leaked invLock or a dereferenced NULL game stops the threads for good.
SPECIFICATION Spec
CONSTANTS
  Cells <- FourCells
  Lines <- RowsOfFour
  Requests = {"INVITE", "REVOKE", "DECLINE", "ACCEPT", "MOVE", "RESIGN"}
  InviteRoles = {0, 1, 2}
  Suffixes = {"none", "X", "O"}
  NullMoves = TRUE
INVARIANTS
  RefCountExact
  ClosedIsFreed
  MoverHasTheTurn
  PostOnlyEndedGames
  WinnerHasLine
  AtMostOnePostEach
PROPERTIES
  Lifecycle
CHECK_DEADLOCK FALSE
