SPECIFICATION FairSpec
CONSTANTS
  Cells <- FourCells
  Lines <- RowsOfFour
  Requests = {"INVITE", "REVOKE", "ACCEPT", "MOVE"}
  InviteRoles = {1, 2}
  Suffixes = {"none"}
  NullMoves = FALSE
INVARIANTS
  LineEndsGame
PROPERTIES
  EveryRequestAnswered
  EndedGamePosted
