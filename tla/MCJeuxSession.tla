--------------------------- MODULE MCJeuxSession ---------------------------
(***************************************************************************)
(* Values for the constants of JeuxSession.                                *)
(***************************************************************************)
EXTENDS JeuxSession

\* The board of game.c, its lines in the order game_is_over tests them.
NineCells  == 1..9
EightLines == << {1, 2, 3}, {4, 5, 6}, {7, 8, 9},
                 {1, 4, 7}, {2, 5, 8}, {3, 6, 9},
                 {1, 5, 9}, {3, 5, 7} >>

\* A small board with the same rules: a win, a full board and a full board
\* with a win on the last move are all possible.
ThreeCells == 1..3
TwoLines   == << {1, 2}, {2, 3} >>

FourCells  == 1..4
RowsOfFour == << {1, 2}, {3, 4}, {1, 3} >>
=============================================================================
