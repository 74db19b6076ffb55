SPECIFICATION Spec
CONSTANTS
  Players <- FourPlayers
  Threads <- TwoThreads
  Games <- TwoTables
  MaxPosts <- TablePosts
INVARIANTS
  TotalPreserved
  WinnerNeverLoses
\* Results stop being posted at the bound.
CHECK_DEADLOCK FALSE
