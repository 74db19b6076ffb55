------------------------------ MODULE JeuxGame ------------------------------
(***************************************************************************)
(* The GAME object of the Jeux server (hw5/src/game.c): a tic-tac-toe      *)
(* position, the role on the move, the verdict and a reference count.      *)
(* Every function of game.c runs entirely inside the game's own semaphore  *)
(* gameLock and takes no other lock inside it, so each one is an operator  *)
(* from the old value of the object to the new one; the threads that call  *)
(* them, and the interleavings of those calls, are in JeuxSession.         *)
(*                                                                         *)
(* game.c fixes nine squares and eight lines.  Here they are parameters:   *)
(* Cells is 1..9 and Lines the eight lines in the order in which           *)
(* game_is_over tests them in the runs that check the real board, and a    *)
(* smaller board with the same rules where the interleavings matter.       *)
(***************************************************************************)
EXTENDS Integers, FiniteSets, Sequences

CONSTANTS
  Cells,   \* the squares of the board, numbered from 1 as in a move string
  Lines    \* sequence of the lines that win, in the order they are tested

ASSUME BoardAssumption ==
  /\ Cells \subseteq Nat \ {0}
  /\ IsFiniteSet(Cells)
  /\ Cells # {}
  /\ Lines \in Seq(SUBSET Cells)
  /\ \A i \in DOMAIN Lines : Lines[i] # {}

\* enum game_role
NULL_ROLE          == 0
FIRST_PLAYER_ROLE  == 1
SECOND_PLAYER_ROLE == 2

PlayerRoles == {FIRST_PLAYER_ROLE, SECOND_PLAYER_ROLE}
GAME_ROLE   == PlayerRoles \cup {NULL_ROLE}

\* The role that wins when `role' resigns, and moves after `role' has moved.
Opponent(role) == IF role = FIRST_PLAYER_ROLE THEN SECOND_PLAYER_ROLE
                                              ELSE FIRST_PLAYER_ROLE

Blank   == " "
Letters == {"X", "O"}

\* The letter game_apply_move writes for the player of a move.
Letter(role) == IF role = FIRST_PLAYER_ROLE THEN "X" ELSE "O"

\* struct game.  gameDraw is initialised and never read or written again, so
\* it is left out; gameLock is the atomicity of the operators.
Games == [gameWinner : GAME_ROLE,
          curRole    : PlayerRoles,
          refCount   : Int,
          terminated : BOOLEAN,
          gameBoard  : [Cells -> Letters \cup {Blank}],
          movesMade  : Nat]

\* struct game_move; boardIndex 0 is the NULL pointer of a failed parse.
Moves  == [boardIndex : Cells \cup {0}, curPlayer : GAME_ROLE]
NoMove == [boardIndex |-> 0, curPlayer |-> NULL_ROLE]

-----------------------------------------------------------------------------
(***************************************************************************)
(* Construction and reference count.                                       *)
(***************************************************************************)

\* A new game is counted twice although inv_accept stores one pointer: the
\* second count is the one game_resign gives back.
game_create ==
  [gameWinner |-> NULL_ROLE,
   curRole    |-> FIRST_PLAYER_ROLE,
   refCount   |-> 2,
   terminated |-> FALSE,
   gameBoard  |-> [c \in Cells |-> Blank],
   movesMade  |-> 0]

\* The object is freed when the count becomes 0; a count of 0 or less in a
\* Games record therefore stands for freed memory.
game_unref(g) == [g EXCEPT !.refCount = @ - 1]

-----------------------------------------------------------------------------
(***************************************************************************)
(* Moves.  A move string is abstracted to what game_parse_move looks at:   *)
(* the digit it starts with, and the letter in fourth place if the string  *)
(* has four characters ("5<-X").  The payload of a MOVE packet is not      *)
(* terminated by a null character, so what follows the digit may also be   *)
(* whatever the buffer held: the letter is a free choice of the input.     *)
(***************************************************************************)
NoLetter == "none"
MoveStrings == [index : Cells \cup {0}, letter : Letters \cup {NoLetter}]

WrongTurn(g, role) == role # NULL_ROLE /\ g.curRole # role

ParseAnyTurn(g, role, str) ==
  IF str.index \notin Cells
  THEN NoMove
  ELSE [boardIndex |-> str.index,
        curPlayer  |-> CASE str.letter = "X" -> FIRST_PLAYER_ROLE
                         [] str.letter = "O" -> SECOND_PLAYER_ROLE
                         [] OTHER            -> g.curRole]

\* The role on the move must agree with the caller's role, but the letter
\* of the string overrides it in the move that is returned.
game_parse_move(g, role, str) ==
  IF WrongTurn(g, role) \/ str.index \notin Cells
  THEN NoMove
  ELSE [boardIndex |-> str.index,
        curPlayer  |-> CASE str.letter = "X" -> FIRST_PLAYER_ROLE
                         [] str.letter = "O" -> SECOND_PLAYER_ROLE
                         [] OTHER            -> g.curRole]

\* The test at the head of game_apply_move; the game may already be over.
MoveApplies(g, mv) ==
  /\ mv.boardIndex \in Cells
  /\ g.gameBoard[mv.boardIndex] = Blank

game_apply_move(g, mv) ==
  [g EXCEPT !.curRole                  = Opponent(mv.curPlayer),
            !.gameBoard[mv.boardIndex] = Letter(mv.curPlayer),
            !.movesMade                = @ + 1]

-----------------------------------------------------------------------------
(***************************************************************************)
(* End of the game.                                                        *)
(***************************************************************************)
FilledWith(board, i, letter) == \A c \in Lines[i] : board[c] = letter

LineWon(board, i) == \E l \in Letters : FilledWith(board, i, l)

\* The chain of else-ifs stops at the first line that one letter fills: no
\* line before it is filled by the other letter.
WinsFirst(board, l) ==
  \E i \in DOMAIN Lines :
     /\ FilledWith(board, i, l)
     /\ \A j \in 1..(i - 1), k \in Letters \ {l} : ~FilledWith(board, j, k)

WinningLetter(board) == CASE WinsFirst(board, "X") -> "X"
                          [] WinsFirst(board, "O") -> "O"
                          [] OTHER                 -> Blank

BoardFull(g) == g.movesMade = Cardinality(Cells)

OverUnlessFull(g) == ~BoardFull(g)

\* What game_is_over returns.
IsOver(g) == BoardFull(g) \/ WinningLetter(g.gameBoard) # Blank

OverIgnoringLines(g) ==
  IF BoardFull(g) THEN [g EXCEPT !.gameWinner = NULL_ROLE, !.terminated = TRUE]
                  ELSE g

OverCreditsTurn(g) ==
  IF ~BoardFull(g) /\ WinningLetter(g.gameBoard) # Blank
  THEN [g EXCEPT !.gameWinner = g.curRole, !.terminated = TRUE]
  ELSE g

\* What game_is_over does to the object it tests: a full board is recorded
\* as a draw before the lines are looked at.
game_is_over(g) ==
  CASE BoardFull(g) ->
         [g EXCEPT !.gameWinner = NULL_ROLE, !.terminated = TRUE]
    [] ~BoardFull(g) /\ WinningLetter(g.gameBoard) = "X" ->
         [g EXCEPT !.gameWinner = FIRST_PLAYER_ROLE, !.terminated = TRUE]
    [] ~BoardFull(g) /\ WinningLetter(g.gameBoard) = "O" ->
         [g EXCEPT !.gameWinner = SECOND_PLAYER_ROLE, !.terminated = TRUE]
    [] OTHER -> g

\* A resignation names the winner and drops a reference; it does not set
\* terminated.
game_resign(g, role) ==
  IF g.terminated
  THEN g
  ELSE game_unref([g EXCEPT !.gameWinner = Opponent(role)])

game_get_winner(g) == g.gameWinner

\* Squares that carry a letter.
Filled(g) == {c \in Cells : g.gameBoard[c] # Blank}
=============================================================================
