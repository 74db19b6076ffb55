------------------------- MODULE JeuxSessionProofs -------------------------
(***************************************************************************)
(* Proofs about JeuxSession, for every board, every set of requests, every *)
(* set of roles in INVITE headers and every form of move string.           *)
(***************************************************************************)
EXTENDS JeuxSession, FiniteSetTheorems, NaturalsInduction, WellFoundedInduction, TLAPS

-----------------------------------------------------------------------------
(***************************************************************************)
(* The operators of game.c keep the type of a game.                        *)
(***************************************************************************)

\* game_create returns a game.
LEMMA CreateType == game_create \in Games
  BY DEF game_create, Games, GAME_ROLE, PlayerRoles, NULL_ROLE,
         FIRST_PLAYER_ROLE, Blank

\* game_parse_move returns a move, or NULL.
LEMMA ParseType ==
  ASSUME NEW g \in Games, NEW r \in GAME_ROLE, NEW str \in MoveStrings
  PROVE  /\ game_parse_move(g, r, str) \in Moves
         /\ game_parse_move(g, r, str) # NoMove =>
              /\ game_parse_move(g, r, str).boardIndex \in Cells
              /\ game_parse_move(g, r, str).curPlayer \in PlayerRoles
              /\ r # NULL_ROLE => g.curRole = r
  BY DEF game_parse_move, WrongTurn, Games, Moves, NoMove, MoveStrings, GAME_ROLE,
         PlayerRoles, NULL_ROLE, FIRST_PLAYER_ROLE, SECOND_PLAYER_ROLE

\* game_apply_move returns a game in which the mover's opponent is to move.
LEMMA ApplyType ==
  ASSUME NEW g \in Games, NEW mv \in Moves, MoveApplies(g, mv)
  PROVE  /\ game_apply_move(g, mv) \in Games
         /\ game_apply_move(g, mv).refCount = g.refCount
         /\ game_apply_move(g, mv).terminated = g.terminated
         /\ game_apply_move(g, mv).gameWinner = g.gameWinner
         /\ game_apply_move(g, mv).curRole = Opponent(mv.curPlayer)
         /\ game_apply_move(g, mv).movesMade = g.movesMade + 1
         /\ game_apply_move(g, mv).gameBoard =
              [g.gameBoard EXCEPT ![mv.boardIndex] = Letter(mv.curPlayer)]
  <1> DEFINE board == [g.gameBoard EXCEPT ![mv.boardIndex] = Letter(mv.curPlayer)]
             n     == g.movesMade + 1
             r     == Opponent(mv.curPlayer)
  <1>1. r \in PlayerRoles /\ n \in Nat
    BY DEF Opponent, PlayerRoles, Games
  <1>2. board \in [Cells -> Letters \cup {Blank}]
    BY DEF Games, Letter, Letters
  <1>3. game_apply_move(g, mv) =
          [g EXCEPT !.curRole = r, !.gameBoard = board, !.movesMade = n]
    BY Zenon DEF game_apply_move
  <1> HIDE DEF board, n, r
  <1>4. /\ game_apply_move(g, mv) \in Games
        /\ game_apply_move(g, mv).refCount = g.refCount
        /\ game_apply_move(g, mv).terminated = g.terminated
        /\ game_apply_move(g, mv).gameWinner = g.gameWinner
        /\ game_apply_move(g, mv).curRole = r
        /\ game_apply_move(g, mv).movesMade = n
        /\ game_apply_move(g, mv).gameBoard = board
    BY <1>1, <1>2, <1>3 DEF Games
  <1> QED BY <1>4 DEF board, n, r

\* game_is_over changes the verdict and nothing else.
LEMMA OverType ==
  ASSUME NEW g \in Games
  PROVE  /\ game_is_over(g) \in Games
         /\ game_is_over(g).refCount = g.refCount
         /\ game_is_over(g).curRole = g.curRole
         /\ game_is_over(g).movesMade = g.movesMade
         /\ game_is_over(g).gameBoard = g.gameBoard
         /\ g.terminated => game_is_over(g).terminated
  <1> DEFINE new(w) == [g EXCEPT !.gameWinner = w, !.terminated = TRUE]
  <1>1. ASSUME NEW w \in GAME_ROLE
        PROVE  /\ new(w) \in Games
               /\ new(w).refCount = g.refCount
               /\ new(w).curRole = g.curRole
               /\ new(w).movesMade = g.movesMade
               /\ new(w).gameBoard = g.gameBoard
               /\ new(w).terminated
    BY DEF Games
  <1>2. NULL_ROLE \in GAME_ROLE /\ FIRST_PLAYER_ROLE \in GAME_ROLE
        /\ SECOND_PLAYER_ROLE \in GAME_ROLE
    BY DEF GAME_ROLE, PlayerRoles
  <1>3. \/ game_is_over(g) = g
        \/ \E w \in GAME_ROLE : game_is_over(g) = new(w)
    BY <1>2 DEF game_is_over
  <1>4. CASE game_is_over(g) = g
    BY <1>4
  <1>5. CASE \E w \in GAME_ROLE : game_is_over(g) = new(w)
    <2> HIDE DEF new
    <2> QED BY <1>1, <1>5
  <1> QED BY <1>3, <1>4, <1>5

\* When game_is_over returns 1 it has recorded the end of the game.
LEMMA OverTerminates ==
  ASSUME NEW g \in Games, IsOver(g)
  PROVE  game_is_over(g).terminated
  BY DEF game_is_over, IsOver, WinningLetter, Games, Letters

\* game_resign drops at most one reference and leaves the position alone.
LEMMA ResignType ==
  ASSUME NEW g \in Games, NEW r \in GAME_ROLE
  PROVE  /\ game_resign(g, r) \in Games
         /\ game_resign(g, r).refCount \in {g.refCount, g.refCount - 1}
         /\ game_resign(g, r).curRole = g.curRole
         /\ game_resign(g, r).movesMade = g.movesMade
         /\ game_resign(g, r).gameBoard = g.gameBoard
         /\ game_resign(g, r).terminated = g.terminated
  <1> DEFINE h == [g EXCEPT !.gameWinner = Opponent(r)]
  <1>1. Opponent(r) \in GAME_ROLE
    BY DEF Opponent, GAME_ROLE, PlayerRoles
  <1>2. /\ h \in Games /\ h.refCount = g.refCount /\ h.curRole = g.curRole
        /\ h.movesMade = g.movesMade /\ h.gameBoard = g.gameBoard
        /\ h.terminated = g.terminated
    BY <1>1 DEF Games
  <1>3. ASSUME NEW k \in Games
        PROVE  /\ game_unref(k) \in Games /\ game_unref(k).refCount = k.refCount - 1
               /\ game_unref(k).curRole = k.curRole
               /\ game_unref(k).movesMade = k.movesMade
               /\ game_unref(k).gameBoard = k.gameBoard
               /\ game_unref(k).terminated = k.terminated
    BY DEF game_unref, Games
  <1>4. game_resign(g, r) = IF g.terminated THEN g ELSE game_unref(h)
    BY DEF game_resign
  <1> HIDE DEF h
  <1> QED BY <1>2, <1>3, <1>4

-----------------------------------------------------------------------------
(***************************************************************************)
(* Type correctness.                                                       *)
(***************************************************************************)

\* The label of every step, and where each of them leads.
LEMMA LabelsType ==
  /\ "idle" \in Labels /\ "addSource" \in Labels /\ "addTarget" \in Labels
  /\ "ref" \in Labels /\ "check" \in Labels /\ "close" \in Labels
  /\ "resign" \in Labels /\ "accept" \in Labels /\ "parse" \in Labels
  /\ "apply" \in Labels /\ "over" \in Labels /\ "rmSource" \in Labels
  /\ "unrefSource" \in Labels /\ "rmTarget" \in Labels
  /\ "unrefTarget" \in Labels /\ "post" \in Labels /\ "finish" \in Labels
  /\ \A r : FirstStep(r) \in Labels
  /\ \A s : AfterRemoval(s) \in Labels
  BY DEF Labels, FirstStep, AfterRemoval

\* NULL is a move pointer.
LEMMA NoMoveType == NoMove \in Moves
  BY DEF NoMove, Moves, GAME_ROLE

\* Every state reached has the declared types.
THEOREM TypeCorrect == Spec => []TypeOK
  <1> USE DEF Sides, None
  <1>1. Init => TypeOK
    <2> SUFFICES ASSUME Init PROVE TypeOK
      OBVIOUS
    <2>1. game \in Games /\ posts \in Seq(Sides \X GAME_ROLE)
          /\ roles \in [Sides -> GAME_ROLE]
      BY CreateType DEF Init, GAME_ROLE
    <2>2. pc \in [Sides -> Labels] /\ move \in [Sides -> Moves]
      BY LabelsType, NoMoveType DEF Init
    <2>3. ok \in [Sides -> BOOLEAN] /\ req \in [Sides -> AllRequests \cup {None}]
          /\ mutex \in [Sides -> Sides \cup {None}]
      BY DEF Init
    <2>4. invGame \in BOOLEAN /\ crashed \in BOOLEAN
      BY Zenon DEF Init
    <2>5. /\ refCount \in Int
          /\ invState \in {"NONE", "OPEN", "ACCEPTED", "CLOSED"}
          /\ invLock \in Sides \cup {None} /\ listed \subseteq Sides
      BY DEF Init
    <2> QED BY <2>1, <2>2, <2>3, <2>4, <2>5 DEF TypeOK
  <1>2. TypeOK /\ [Next]_vars => TypeOK'
    <2> SUFFICES ASSUME TypeOK, [Next]_vars PROVE TypeOK'
      OBVIOUS
    <2> USE LabelsType, NoMoveType DEF TypeOK, At, Goto, Fail, inv, locks, thread
    <2>1. CASE inv_create
      <3>1. roles' \in [Sides -> GAME_ROLE]
        BY <2>1, SessionAssumption DEF inv_create, SourceRole, GAME_ROLE, PlayerRoles
      <3> QED BY <2>1, <3>1 DEF inv_create, AllRequests
    <2>2. CASE AddSource \/ AddTarget
      <3>1. CASE AddSource
        BY <3>1 DEF AddSource, AddToList
      <3>2. CASE AddTarget
        BY <3>2 DEF AddTarget, AddToList
      <3> QED BY <2>2, <3>1, <3>2
    <2>3. ASSUME NEW s \in Sides, Lookup(s) PROVE TypeOK'
      BY <2>3, SessionAssumption DEF Lookup
    <2>4. ASSUME NEW s \in Sides, LookupFails(s) PROVE TypeOK'
      BY <2>4 DEF LookupFails
    <2>5. ASSUME NEW s \in Sides, inv_ref(s) PROVE TypeOK'
      BY <2>5 DEF inv_ref
    <2>6. ASSUME NEW s \in Sides, Check(s) PROVE TypeOK'
      <3>1. CASE Entitled(s)
        <4>1. FirstStep(req[s]) \in Labels
          BY LabelsType
        <4> QED BY <2>6, <3>1, <4>1 DEF Check
      <3>2. CASE ~Entitled(s)
        <4>1. Goto(s, "finish") /\ Fail(s)
          BY <2>6, <3>2, Zenon DEF Check
        <4> QED BY <2>6, <4>1 DEF Check
      <3> QED BY <3>1, <3>2
    <2>7. ASSUME NEW s \in Sides, inv_accept(s) PROVE TypeOK'
      BY <2>7, CreateType DEF inv_accept
    <2>8. ASSUME NEW s \in Sides, inv_close(s) PROVE TypeOK'
      <3>1. CASE CloseTwice(s)
        BY <3>1 DEF CloseTwice
      <3>2. CASE CloseWithNullRole(s)
        BY <3>2 DEF CloseWithNullRole
      <3>3. CASE CloseWithoutGame(s)
        BY <3>3 DEF CloseWithoutGame
      <3>4. CASE CloseWithGame(s)
        BY <3>4, OverType DEF CloseWithGame
      <3>5. CASE Resign(s)
        <4>1. game_resign(game, roles[s]) \in Games
          BY ResignType
        <4> QED BY <3>5, <4>1 DEF Resign
      <3> QED BY <2>8, <3>1, <3>2, <3>3, <3>4, <3>5 DEF inv_close
    <2>9. ASSUME NEW s \in Sides, Parse(s) PROVE TypeOK'
      <3>1. PICK str \in MoveStrings :
              LET mv == game_parse_move(game, roles[s], str) IN
                \/ /\ move' = [move EXCEPT ![s] = mv] /\ Goto(s, "apply")
                   /\ UNCHANGED ok
                \/ /\ Goto(s, "finish") /\ Fail(s)
                   /\ UNCHANGED move
        BY <2>9 DEF Parse
      <3>2. game_parse_move(game, roles[s], str) \in Moves
        BY ParseType
      <3>3. UNCHANGED <<inv, refCount, locks, listed, req, posts, crashed>>
        BY <2>9 DEF Parse
      <3>4. CASE Goto(s, "apply") /\ UNCHANGED ok
        BY <3>1, <3>2, <3>3, <3>4
      <3>5. CASE Goto(s, "finish") /\ Fail(s) /\ UNCHANGED move
        BY <3>3, <3>5
      <3> QED BY <3>1, <3>2, <3>3, <3>4, <3>5
    <2>17. ASSUME NEW s \in Sides, ParseNull(s) PROVE TypeOK'
      <3>1. \/ Goto(s, "finish") /\ Fail(s) /\ UNCHANGED crashed
            \/ crashed' = TRUE /\ UNCHANGED <<pc, ok>>
        BY <2>17, Zenon DEF ParseNull
      <3>2. UNCHANGED <<inv, refCount, locks, listed, req, move, posts>>
        BY <2>17 DEF ParseNull
      <3>3. CASE Goto(s, "finish") /\ Fail(s) /\ UNCHANGED crashed
        BY <3>2, <3>3
      <3>4. CASE crashed' = TRUE /\ UNCHANGED <<pc, ok>>
        BY <3>2, <3>4
      <3> QED BY <3>1, <3>3, <3>4
    <2>10. ASSUME NEW s \in Sides, Apply(s) PROVE TypeOK'
      <3>1. move[s] \in Moves
        OBVIOUS
      <3>2. MoveApplies(game, move[s]) => game_apply_move(game, move[s]) \in Games
        BY <3>1, ApplyType
      <3>3. CASE MoveApplies(game, move[s])
        BY <2>10, <3>2, <3>3 DEF Apply
      <3>4. CASE ~MoveApplies(game, move[s])
        <4>1. Goto(s, "finish") /\ Fail(s) /\ UNCHANGED game
          BY <2>10, <3>4, Zenon DEF Apply
        <4> QED BY <2>10, <4>1 DEF Apply
      <3> QED BY <3>3, <3>4
    <2>11. ASSUME NEW s \in Sides, Over(s) PROVE TypeOK'
      BY <2>11, OverType DEF Over
    <2>12. ASSUME NEW s \in Sides, RemoveSource(s) \/ RemoveTarget(s) PROVE TypeOK'
      <3>1. CASE RemoveSource(s)
        BY <3>1 DEF RemoveSource, Remove
      <3>2. CASE RemoveTarget(s)
        BY <3>2 DEF RemoveTarget, Remove
      <3> QED BY <2>12, <3>1, <3>2
    <2>13. ASSUME NEW s \in Sides, UnlistSource(s) \/ UnlistTarget(s) PROVE TypeOK'
      <3>1. CASE UnlistSource(s)
        BY <3>1 DEF UnlistSource, Unlist
      <3>2. CASE UnlistTarget(s)
        BY <3>2 DEF UnlistTarget, Unlist
      <3> QED BY <2>13, <3>1, <3>2
    <2>14. ASSUME NEW s \in Sides, Post(s) PROVE TypeOK'
      <3>1. <<s, game_get_winner(game)>> \in Sides \X GAME_ROLE
        BY DEF game_get_winner, Games
      <3>2. posts' \in Seq(Sides \X GAME_ROLE)
        BY <2>14, <3>1 DEF Post
      <3> QED BY <2>14, <3>2 DEF Post
    <2>15. ASSUME NEW s \in Sides, inv_unref(s) PROVE TypeOK'
      BY <2>15 DEF inv_unref
    <2>16. CASE UNCHANGED vars
      BY <2>16 DEF vars
    <2> QED
      BY <2>1, <2>2, <2>3, <2>4, <2>5, <2>6, <2>7, <2>8, <2>9, <2>10, <2>11,
         <2>12, <2>13, <2>14, <2>15, <2>16, <2>17 DEF Next, Serve
  <1> QED BY <1>1, <1>2, PTL DEF Spec

-----------------------------------------------------------------------------
(***************************************************************************)
(* The reference count of the invitation.  The count is right after a step *)
(* only if the entry that a removal drops is still there, which the mutex  *)
(* of the client guarantees, and if no other thread knows the invitation   *)
(* while it is being put on the two lists.                                 *)
(***************************************************************************)
ListInv ==
  /\ \A t \in Sides : pc[t] = "ref" => mutex[t] = t /\ t \in listed
  /\ \A t \in Sides : pc[t] = "unrefSource" => mutex["source"] = t /\ "source" \in listed
  /\ \A t \in Sides : pc[t] = "unrefTarget" => mutex["target"] = t /\ "target" \in listed
  /\ invState = "NONE" => listed = {} /\ \A t \in Sides : pc[t] = "idle"
  /\ pc["target"] \notin {"addSource", "addTarget"}
  /\ pc["source"] \in {"addSource", "addTarget"} =>
       invState = "OPEN" /\ "target" \notin listed /\ pc["target"] = "idle"
  /\ pc["source"] = "addSource" => "source" \notin listed

RefInv == ListInv /\ RefCountExact

\* No step of a thread leads back to the labels of INVITE or of Lookup.
LEMMA StepTargets ==
  /\ \A r : FirstStep(r) \in {"close", "accept", "parse"}
  /\ \A s : AfterRemoval(s) \in {"post", "finish"}
  BY DEF FirstStep, AfterRemoval

\* Every step of the two threads keeps the count equal to the references
\* that exist.
LEMMA RefInvStep ==
  ASSUME TypeOK, RefInv, [Next]_vars
  PROVE  RefInv'
  <1> USE DEF Sides, None, At, Goto, Fail, inv, locks, thread, RefInv, ListInv,
              RefCountExact, Held, Entry, Unlocked
  <1> USE StepTargets
  <1>0. /\ pc \in [Sides -> Labels] /\ mutex \in [Sides -> Sides \cup {None}]
        /\ refCount \in Int /\ listed \subseteq Sides
    BY DEF TypeOK
  <1>1. CASE inv_create
    BY <1>0, <1>1 DEF inv_create
  <1>2. CASE AddSource
    BY <1>0, <1>2 DEF AddSource, AddToList
  <1>3. CASE AddTarget
    BY <1>0, <1>3 DEF AddTarget, AddToList
  <1>4. ASSUME NEW s \in Sides, Lookup(s) PROVE RefInv'
    BY <1>0, <1>4 DEF Lookup
  <1>5. ASSUME NEW s \in Sides, LookupFails(s) PROVE RefInv'
    BY <1>0, <1>5 DEF LookupFails
  <1>6. ASSUME NEW s \in Sides, inv_ref(s) PROVE RefInv'
    BY <1>0, <1>6 DEF inv_ref
  <1>7. ASSUME NEW s \in Sides, Check(s) PROVE RefInv'
    BY <1>0, <1>7 DEF Check
  <1>8. ASSUME NEW s \in Sides, inv_accept(s) PROVE RefInv'
    BY <1>0, <1>8 DEF inv_accept
  <1>9. ASSUME NEW s \in Sides, inv_close(s) PROVE RefInv'
    <2>1. CASE CloseTwice(s)
      BY <1>0, <2>1 DEF CloseTwice
    <2>2. CASE CloseWithNullRole(s)
      BY <1>0, <2>2 DEF CloseWithNullRole
    <2>3. CASE CloseWithoutGame(s)
      BY <1>0, <2>3 DEF CloseWithoutGame
    <2>4. CASE CloseWithGame(s)
      BY <1>0, <2>4 DEF CloseWithGame
    <2>5. CASE Resign(s)
      BY <1>0, <2>5 DEF Resign
    <2> QED BY <1>9, <2>1, <2>2, <2>3, <2>4, <2>5 DEF inv_close
  <1>10. ASSUME NEW s \in Sides, Parse(s) PROVE RefInv'
    BY <1>0, <1>10 DEF Parse
  <1>20. ASSUME NEW s \in Sides, ParseNull(s) PROVE RefInv'
    BY <1>0, <1>20 DEF ParseNull
  <1>11. ASSUME NEW s \in Sides, Apply(s) PROVE RefInv'
    BY <1>0, <1>11 DEF Apply
  <1>12. ASSUME NEW s \in Sides, Over(s) PROVE RefInv'
    BY <1>0, <1>12 DEF Over
  <1>13. ASSUME NEW s \in Sides, RemoveSource(s) PROVE RefInv'
    BY <1>0, <1>13 DEF RemoveSource, Remove
  <1>14. ASSUME NEW s \in Sides, RemoveTarget(s) PROVE RefInv'
    BY <1>0, <1>14 DEF RemoveTarget, Remove
  <1>15. ASSUME NEW s \in Sides, UnlistSource(s) PROVE RefInv'
    BY <1>0, <1>15 DEF UnlistSource, Unlist
  <1>16. ASSUME NEW s \in Sides, UnlistTarget(s) PROVE RefInv'
    BY <1>0, <1>16 DEF UnlistTarget, Unlist
  <1>17. ASSUME NEW s \in Sides, Post(s) PROVE RefInv'
    BY <1>0, <1>17 DEF Post
  <1>18. ASSUME NEW s \in Sides, inv_unref(s) PROVE RefInv'
    BY <1>0, <1>18 DEF inv_unref
  <1>19. CASE UNCHANGED vars
    BY <1>19 DEF vars
  <1> QED
    BY <1>1, <1>2, <1>3, <1>4, <1>5, <1>6, <1>7, <1>8, <1>9, <1>10, <1>11,
       <1>12, <1>13, <1>14, <1>15, <1>16, <1>17, <1>18, <1>19,
       <1>20 DEF Next, Serve

\* The lists, the mutexes and the count of the invitation fit together.
THEOREM RefInvCorrect == Spec => []RefInv
  <1>1. Init => RefInv
    BY DEF Init, RefInv, ListInv, RefCountExact, Held, Entry, Sides
  <1>2. TypeOK /\ RefInv /\ [Next]_vars => RefInv'
    BY RefInvStep
  <1> QED BY <1>1, <1>2, TypeCorrect, PTL DEF Spec

\* The count in an INVITATION is always the number of references to it.
THEOREM RefCountCorrect == Spec => []RefCountExact
  <1>1. RefInv => RefCountExact
    BY DEF RefInv
  <1> QED BY <1>1, RefInvCorrect, PTL

-----------------------------------------------------------------------------
(***************************************************************************)
(* Play.  The turn checked by game_parse_move cannot pass to the opponent  *)
(* before the move is applied, because only an applied move passes it and  *)
(* the opponent has none that was parsed.  The reference that game_resign  *)
(* gives back is given back once, because inv_close gets there only by     *)
(* closing the invitation and still holds invLock.                         *)
(***************************************************************************)
Ending(t) ==
  /\ pc[t] \in {"rmSource", "unrefSource", "rmTarget", "unrefTarget", "post"}
  /\ EndsGame(t)

GameInv ==
  /\ invState \in {"NONE", "OPEN"} => ~invGame
  /\ game.terminated => invGame
  /\ \A t \in Sides : pc[t] \in {"parse", "apply", "over", "resign"} => invGame
  /\ \A t \in Sides : pc[t] \in {"ref", "check"} =>
       req[t] \in {"REVOKE", "DECLINE", "ACCEPT", "MOVE", "RESIGN"}
  /\ roles["target"] \in PlayerRoles => roles["source"] # roles["target"]

ResignInv ==
  /\ \A t \in Sides : pc[t] = "resign" => invLock = t /\ invState = "CLOSED"
  /\ game.refCount >= 1
  /\ game.refCount = 1 =>
       invState = "CLOSED" /\ \A t \in Sides : pc[t] # "resign"

EndInv ==
  /\ \A t \in Sides : pc[t] = "post" => EndsGame(t)
  /\ \A t \in Sides : Ending(t) => invState = "CLOSED" \/ game.terminated
  /\ PostOnlyEndedGames

PlayInv == GameInv /\ ResignInv /\ EndInv /\ MoverHasTheTurn

\* Every step of the two threads preserves these facts.
LEMMA PlayInvStep ==
  ASSUME TypeOK, ListInv, PlayInv, [Next]_vars
  PROVE  PlayInv'
  <1> USE DEF Sides, None, At, Goto, Fail, inv, locks, thread, PlayInv, GameInv,
              ResignInv, EndInv, MoverHasTheTurn, PostOnlyEndedGames, Ending,
              EndsGame, Unlocked
  <1> USE StepTargets
  <1>0. /\ pc \in [Sides -> Labels] /\ roles \in [Sides -> GAME_ROLE]
        /\ req \in [Sides -> AllRequests \cup {None}] /\ game \in Games
        /\ move \in [Sides -> Moves] /\ posts \in Seq(Sides \X GAME_ROLE)
        /\ invGame \in BOOLEAN /\ invLock \in Sides \cup {None}
    BY DEF TypeOK
  <1>1. CASE inv_create
    BY <1>0, <1>1 DEF inv_create, ListInv, SourceRole, PlayerRoles,
       FIRST_PLAYER_ROLE, SECOND_PLAYER_ROLE
  <1>2. CASE AddSource
    BY <1>0, <1>2 DEF AddSource, AddToList
  <1>3. CASE AddTarget
    BY <1>0, <1>3 DEF AddTarget, AddToList
  <1>4. ASSUME NEW s \in Sides, Lookup(s) PROVE PlayInv'
    BY <1>0, <1>4, SessionAssumption DEF Lookup, AllRequests
  <1>5. ASSUME NEW s \in Sides, LookupFails(s) PROVE PlayInv'
    BY <1>0, <1>5 DEF LookupFails
  <1>6. ASSUME NEW s \in Sides, inv_ref(s) PROVE PlayInv'
    BY <1>0, <1>6 DEF inv_ref
  <1>7. ASSUME NEW s \in Sides, Check(s) PROVE PlayInv'
    <2>1. pc[s] = "check" /\ req[s] \in {"REVOKE", "DECLINE", "ACCEPT", "MOVE", "RESIGN"}
      BY <1>7 DEF Check
    <2>2. (Entitled(s) /\ FirstStep(req[s]) = "parse") => invGame
      BY <2>1 DEF Entitled, FirstStep
    <2>3. \/ pc' = [pc EXCEPT ![s] = "finish"]
          \/ Entitled(s) /\ pc' = [pc EXCEPT ![s] = FirstStep(req[s])]
      BY <1>7, Zenon DEF Check
    <2> QED BY <1>0, <1>7, <2>2, <2>3 DEF Check
  <1>8. ASSUME NEW s \in Sides, inv_accept(s) PROVE PlayInv'
    BY <1>0, <1>8 DEF inv_accept, game_create
  <1>9. ASSUME NEW s \in Sides, inv_close(s) PROVE PlayInv'
    <2>1. CASE CloseTwice(s)
      BY <1>0, <2>1 DEF CloseTwice
    <2>2. CASE CloseWithNullRole(s)
      BY <1>0, <2>2 DEF CloseWithNullRole
    <2>3. CASE CloseWithoutGame(s)
      BY <1>0, <2>3 DEF CloseWithoutGame
    <2>4. CASE CloseWithGame(s)
      BY <1>0, <2>4, OverType DEF CloseWithGame, Closable
    <2>5. CASE Resign(s)
      <3>1. /\ game'.refCount \in {game.refCount, game.refCount - 1}
            /\ game'.curRole = game.curRole /\ game'.terminated = game.terminated
            /\ game.refCount \in Int
        BY <1>0, <2>5, ResignType DEF Resign, Games
      <3>2. /\ pc[s] = "resign" /\ invState = "CLOSED" /\ invLock = s
            /\ invState' = "CLOSED" /\ pc' = [pc EXCEPT ![s] = "rmSource"]
            /\ invGame /\ invGame' = invGame
            /\ UNCHANGED <<roles, req, posts, move>>
        BY <2>5 DEF Resign
      <3>3. \A t \in Sides : pc'[t] # "resign"
        BY <1>0, <3>2
      <3>4. game.refCount >= 2
        BY <3>1, <3>2
      <3>5. ResignInv'
        BY <3>1, <3>2, <3>3, <3>4
      <3> QED BY <1>0, <3>1, <3>2, <3>5
    <2> QED BY <1>9, <2>1, <2>2, <2>3, <2>4, <2>5 DEF inv_close
  <1>10. ASSUME NEW s \in Sides, Parse(s) PROVE PlayInv'
    <2>1. \/ pc' = [pc EXCEPT ![s] = "finish"]
          \/ /\ pc' = [pc EXCEPT ![s] = "apply"]
             /\ roles[s] # NULL_ROLE => game.curRole = roles[s]
      <3>1. PICK str \in MoveStrings :
              \/ /\ game_parse_move(game, roles[s], str) # NoMove
                 /\ pc' = [pc EXCEPT ![s] = "apply"]
              \/ pc' = [pc EXCEPT ![s] = "finish"]
        BY <1>10 DEF Parse
      <3> QED BY <1>0, <3>1, ParseType
    <2>2. NULL_ROLE \notin PlayerRoles
      BY DEF PlayerRoles, NULL_ROLE, FIRST_PLAYER_ROLE, SECOND_PLAYER_ROLE
    <2>3. pc[s] = "parse" /\ UNCHANGED <<inv, invLock, req, posts>>
      BY <1>10 DEF Parse
    <2> QED BY <1>0, <2>1, <2>2, <2>3
  <1>20. ASSUME NEW s \in Sides, ParseNull(s) PROVE PlayInv'
    BY <1>0, <1>20 DEF ParseNull
  <1>11. ASSUME NEW s \in Sides, Apply(s) PROVE PlayInv'
    <2>1. /\ pc[s] = "apply" /\ move[s] \in Moves
          /\ UNCHANGED <<invState, invGame, roles, invLock, req, posts>>
      BY <1>0, <1>11 DEF Apply
    <2>2. CASE MoveApplies(game, move[s])
      <3>1. game' = game_apply_move(game, move[s]) /\ pc' = [pc EXCEPT ![s] = "over"]
        BY <1>11, <2>2, Zenon DEF Apply
      <3>2. /\ game'.refCount = game.refCount
            /\ game'.terminated = game.terminated
        BY <1>0, <2>1, <2>2, <3>1, ApplyType
      <3>3. MoverHasTheTurn'
        BY <1>0, <2>1, <3>1
      <3> QED BY <1>0, <2>1, <3>1, <3>2, <3>3
    <2>3. CASE ~MoveApplies(game, move[s])
      <3>1. game' = game /\ pc' = [pc EXCEPT ![s] = "finish"]
        BY <1>11, <2>3, Zenon DEF Apply
      <3> QED BY <1>0, <2>1, <3>1
    <2> QED BY <2>2, <2>3
  <1>12. ASSUME NEW s \in Sides, Over(s) PROVE PlayInv'
    BY <1>0, <1>12, OverType, OverTerminates DEF Over
  <1>13. ASSUME NEW s \in Sides, RemoveSource(s) PROVE PlayInv'
    BY <1>0, <1>13 DEF RemoveSource, Remove
  <1>14. ASSUME NEW s \in Sides, RemoveTarget(s) PROVE PlayInv'
    BY <1>0, <1>14 DEF RemoveTarget, Remove, AfterRemoval
  <1>15. ASSUME NEW s \in Sides, UnlistSource(s) PROVE PlayInv'
    BY <1>0, <1>15 DEF UnlistSource, Unlist
  <1>16. ASSUME NEW s \in Sides, UnlistTarget(s) PROVE PlayInv'
    BY <1>0, <1>16 DEF UnlistTarget, Unlist, AfterRemoval
  <1>17. ASSUME NEW s \in Sides, Post(s) PROVE PlayInv'
    BY <1>0, <1>17 DEF Post
  <1>18. ASSUME NEW s \in Sides, inv_unref(s) PROVE PlayInv'
    BY <1>0, <1>18 DEF inv_unref
  <1>19. CASE UNCHANGED vars
    BY <1>19 DEF vars
  <1> QED
    BY <1>1, <1>2, <1>3, <1>4, <1>5, <1>6, <1>7, <1>8, <1>9, <1>10, <1>11,
       <1>12, <1>13, <1>14, <1>15, <1>16, <1>17, <1>18, <1>19,
       <1>20 DEF Next, Serve

\* The game, the roles and the ends of games fit together.
THEOREM PlayInvCorrect == Spec => []PlayInv
  <1>1. Init => PlayInv
    BY DEF Init, PlayInv, GameInv, ResignInv, EndInv, MoverHasTheTurn,
           PostOnlyEndedGames, Ending, game_create, Sides, PlayerRoles,
           NULL_ROLE, FIRST_PLAYER_ROLE, SECOND_PLAYER_ROLE, None
  <1>2. TypeOK /\ RefInv /\ PlayInv /\ [Next]_vars => PlayInv'
    BY PlayInvStep DEF RefInv
  <1> QED BY <1>1, <1>2, TypeCorrect, RefInvCorrect, PTL DEF Spec

\* A move is applied only while the turn is its player's.
THEOREM TurnCorrect == Spec => []MoverHasTheTurn
  <1>1. PlayInv => MoverHasTheTurn
    BY DEF PlayInv
  <1> QED BY <1>1, PlayInvCorrect, PTL

\* The GAME of an invitation is never freed under the feet of a thread.
THEOREM GameNotFreedCorrect == Spec => []GameNotFreed
  <1>1. PlayInv => GameNotFreed
    BY DEF PlayInv, ResignInv, GameNotFreed
  <1> QED BY <1>1, PlayInvCorrect, PTL

\* Only a game that has ended is posted.
THEOREM PostCorrect == Spec => []PostOnlyEndedGames
  <1>1. PlayInv => PostOnlyEndedGames
    BY DEF PlayInv, EndInv
  <1> QED BY <1>1, PlayInvCorrect, PTL

-----------------------------------------------------------------------------
(***************************************************************************)
(* A closed invitation goes away: as long as a closed invitation is on a   *)
(* list, the thread that closed it is still on its way to take it off.     *)
(***************************************************************************)
RemovalInv ==
  /\ crashed => \E t \in Sides : pc[t] \in {"close", "parse"}
  /\ (invState = "CLOSED" /\ ~crashed) =>
       /\ "source" \in listed =>
            \E t \in Sides : pc[t] \in {"resign", "rmSource", "unrefSource"}
       /\ "target" \in listed =>
            \E t \in Sides : pc[t] \in {"resign", "rmSource", "unrefSource",
                                         "rmTarget", "unrefTarget"}

\* Every step of the two threads preserves it.
LEMMA RemovalInvStep ==
  ASSUME TypeOK, ListInv, RemovalInv, [Next]_vars
  PROVE  RemovalInv'
  <1> USE StepTargets
      DEF Sides, None, At, Goto, Fail, inv, locks, thread, RemovalInv
  <1>0. pc \in [Sides -> Labels] /\ listed \subseteq Sides /\ crashed \in BOOLEAN
    BY DEF TypeOK
  <1>1. CASE inv_create
    BY <1>0, <1>1 DEF inv_create
  <1>2. CASE AddSource
    BY <1>0, <1>2 DEF AddSource, AddToList, ListInv
  <1>3. CASE AddTarget
    BY <1>0, <1>3 DEF AddTarget, AddToList, ListInv
  <1>4. ASSUME NEW s \in Sides, Lookup(s) \/ LookupFails(s) \/ inv_ref(s) PROVE RemovalInv'
    BY <1>0, <1>4 DEF Lookup, LookupFails, inv_ref
  <1>5. ASSUME NEW s \in Sides, Check(s) \/ inv_accept(s) PROVE RemovalInv'
    BY <1>0, <1>5 DEF Check, inv_accept
  <1>6. ASSUME NEW s \in Sides, inv_close(s) PROVE RemovalInv'
    <2>1. CASE CloseTwice(s)
      BY <1>0, <2>1 DEF CloseTwice
    <2>2. CASE CloseWithNullRole(s)
      BY <1>0, <2>2 DEF CloseWithNullRole
    <2>3. CASE CloseWithoutGame(s)
      BY <1>0, <2>3 DEF CloseWithoutGame
    <2>4. CASE CloseWithGame(s)
      BY <1>0, <2>4 DEF CloseWithGame
    <2>5. CASE Resign(s)
      BY <1>0, <2>5 DEF Resign
    <2> QED BY <1>6, <2>1, <2>2, <2>3, <2>4, <2>5 DEF inv_close
  <1>7. ASSUME NEW s \in Sides, Parse(s) \/ ParseNull(s) \/ Apply(s) \/ Over(s)
        PROVE  RemovalInv'
    BY <1>0, <1>7 DEF Parse, ParseNull, Apply, Over
  <1>8. ASSUME NEW s \in Sides, RemoveSource(s) PROVE RemovalInv'
    BY <1>0, <1>8 DEF RemoveSource, Remove
  <1>9. ASSUME NEW s \in Sides, RemoveTarget(s) PROVE RemovalInv'
    BY <1>0, <1>9 DEF RemoveTarget, Remove
  <1>10. ASSUME NEW s \in Sides, UnlistSource(s) PROVE RemovalInv'
    BY <1>0, <1>10 DEF UnlistSource, Unlist
  <1>11. ASSUME NEW s \in Sides, UnlistTarget(s) PROVE RemovalInv'
    BY <1>0, <1>11 DEF UnlistTarget, Unlist
  <1>12. ASSUME NEW s \in Sides, Post(s) \/ inv_unref(s) PROVE RemovalInv'
    BY <1>0, <1>12 DEF Post, inv_unref
  <1>13. CASE UNCHANGED vars
    BY <1>13 DEF vars
  <1> QED
    BY <1>1, <1>2, <1>3, <1>4, <1>5, <1>6, <1>7, <1>8, <1>9, <1>10, <1>11,
       <1>12, <1>13 DEF Next, Serve

\* A closed invitation that nobody uses has left the lists and is freed.
THEOREM ClosedIsFreedCorrect == Spec => []ClosedIsFreed
  <1>1. Init => RemovalInv
    BY DEF Init, RemovalInv
  <1>2. TypeOK /\ RefInv /\ RemovalInv /\ [Next]_vars => RemovalInv'
    BY RemovalInvStep DEF RefInv
  <1>3. TypeOK /\ RefInv /\ RemovalInv => ClosedIsFreed
    <2> SUFFICES ASSUME TypeOK, RefInv, RemovalInv, invState = "CLOSED",
                        \A s \in Sides : pc[s] = "idle"
                 PROVE  listed = {} /\ refCount = 0
      BY DEF ClosedIsFreed
    <2>1. ~crashed
      BY DEF RemovalInv, Sides
    <2>2. listed = {}
      BY <2>1 DEF RemovalInv, TypeOK, Sides
    <2> QED BY <2>2 DEF RefInv, RefCountExact, Held, Entry, Sides
  <1> QED BY <1>1, <1>2, <1>3, TypeCorrect, RefInvCorrect, PTL DEF Spec

-----------------------------------------------------------------------------
(***************************************************************************)
(* The counter of moves.                                                   *)
(***************************************************************************)

\* A legal move fills one more square.
LEMMA ApplyFillsOne ==
  ASSUME NEW g \in Games, NEW mv \in Moves, MoveApplies(g, mv)
  PROVE  /\ Filled(game_apply_move(g, mv)) = Filled(g) \cup {mv.boardIndex}
         /\ mv.boardIndex \notin Filled(g)
  <1>1. g.gameBoard \in [Cells -> Letters \cup {Blank}] /\ mv.boardIndex \in Cells
    BY DEF Games, MoveApplies
  <1>2. Letter(mv.curPlayer) # Blank
    BY DEF Letter, Blank
  <1>3. game_apply_move(g, mv).gameBoard =
          [g.gameBoard EXCEPT ![mv.boardIndex] = Letter(mv.curPlayer)]
    BY ApplyType
  <1> QED BY <1>1, <1>2, <1>3 DEF Filled, MoveApplies

\* A new board is empty.
LEMMA CreateFillsNone == Filled(game_create) = {}
  BY DEF Filled, game_create

\* movesMade is the number of marks on the board, whatever the two threads do.
THEOREM MovesMadeCorrect == Spec => []MovesMadeCounts
  <1>1. Init => MovesMadeCounts
    <2>1. game_create.movesMade = 0
      BY DEF game_create
    <2> QED BY <2>1, CreateFillsNone, FS_EmptySet DEF Init, MovesMadeCounts
  <1>2. TypeOK /\ MovesMadeCounts /\ [Next]_vars => MovesMadeCounts'
    <2> SUFFICES ASSUME TypeOK, MovesMadeCounts, [Next]_vars
                 PROVE  MovesMadeCounts'
      OBVIOUS
    <2> USE DEF inv, locks, thread
    <2>0. game \in Games /\ roles \in [Sides -> GAME_ROLE] /\ move \in [Sides -> Moves]
      BY DEF TypeOK
    <2>1. ASSUME game'.movesMade = game.movesMade, game'.gameBoard = game.gameBoard
          PROVE  MovesMadeCounts'
      BY <2>1 DEF MovesMadeCounts, Filled
    <2>2. ASSUME NEW s \in Sides, inv_accept(s) PROVE MovesMadeCounts'
      <3>1. game' = game \/ game' = game_create
        BY <2>2 DEF inv_accept
      <3>2. CASE game' = game_create
        <4>1. Filled(game') = {} /\ game'.movesMade = 0
          BY <3>2, CreateFillsNone DEF game_create
        <4> QED BY <4>1, FS_EmptySet DEF MovesMadeCounts
      <3> QED BY <2>1, <3>1, <3>2
    <2>3. ASSUME NEW s \in Sides, inv_close(s) PROVE MovesMadeCounts'
      <3>1. \/ game' = game \/ game' = game_is_over(game)
            \/ game' = game_resign(game, roles[s])
        BY <2>3 DEF inv_close, CloseTwice, CloseWithNullRole, CloseWithoutGame,
                    CloseWithGame, Resign
      <3> QED BY <2>0, <2>1, <3>1, OverType, ResignType
    <2>4. ASSUME NEW s \in Sides, Over(s) PROVE MovesMadeCounts'
      BY <2>0, <2>1, <2>4, OverType DEF Over
    <2>5. ASSUME NEW s \in Sides, Apply(s) PROVE MovesMadeCounts'
      <3>1. CASE MoveApplies(game, move[s])
        <4>1. game' = game_apply_move(game, move[s])
          BY <2>5, <3>1, Zenon DEF Apply
        <4>2. /\ Filled(game') = Filled(game) \cup {move[s].boardIndex}
              /\ move[s].boardIndex \notin Filled(game)
              /\ game'.movesMade = game.movesMade + 1
          BY <2>0, <3>1, <4>1, ApplyFillsOne, ApplyType
        <4>3. IsFiniteSet(Filled(game))
          <5>1. Filled(game) \subseteq Cells /\ IsFiniteSet(Cells)
            BY BoardAssumption DEF Filled
          <5> QED BY <5>1, FS_Subset
        <4>4. Cardinality(Filled(game')) = Cardinality(Filled(game)) + 1
          BY <4>2, <4>3, FS_AddElement
        <4> QED BY <4>2, <4>4 DEF MovesMadeCounts
      <3>2. CASE ~MoveApplies(game, move[s])
        <4>1. game' = game
          BY <2>5, <3>2, Zenon DEF Apply
        <4> QED BY <2>1, <4>1
      <3> QED BY <3>1, <3>2
    <2>6. CASE \/ inv_create \/ AddSource \/ AddTarget \/ UNCHANGED vars
               \/ \E s \in Sides : \/ Lookup(s) \/ LookupFails(s) \/ inv_ref(s)
                                   \/ Check(s) \/ Parse(s) \/ ParseNull(s) \/ Post(s)
                                   \/ inv_unref(s)
      <3>1. game' = game
        BY <2>6 DEF inv_create, AddSource, AddTarget, AddToList, vars, Lookup,
                    LookupFails, inv_ref, Check, Parse, ParseNull, Post, inv_unref
      <3> QED BY <2>1, <3>1
    <2>7. ASSUME NEW s \in Sides, \/ RemoveSource(s) \/ RemoveTarget(s)
                                  \/ UnlistSource(s) \/ UnlistTarget(s)
          PROVE  MovesMadeCounts'
      <3>1. game' = game
        BY <2>7 DEF RemoveSource, RemoveTarget, Remove, UnlistSource,
                    UnlistTarget, Unlist
      <3> QED BY <2>1, <3>1
    <2> QED BY <2>2, <2>3, <2>4, <2>5, <2>6, <2>7 DEF Next, Serve
  <1> QED BY <1>1, <1>2, TypeCorrect, PTL DEF Spec
-----------------------------------------------------------------------------
(***************************************************************************)
(* The life of the invitation.                                             *)
(***************************************************************************)

\* invState only goes forward and the game comes with the acceptance.
THEOREM LifecycleCorrect == Spec => Lifecycle
  <1> DEFINE Forward ==
        /\ invState = "ACCEPTED" => invState' \in {"ACCEPTED", "CLOSED"}
        /\ invState = "CLOSED" => invState' = "CLOSED"
        /\ invGame => invGame'
        /\ (invGame' /\ ~invGame) => invState = "OPEN" /\ invState' = "ACCEPTED"
  <1>1. TypeOK /\ PlayInv /\ [Next]_vars => [Forward]_<<invState, invGame>>
    <2> SUFFICES ASSUME TypeOK, PlayInv, [Next]_vars
                 PROVE  Forward \/ UNCHANGED <<invState, invGame>>
      OBVIOUS
    <2> USE DEF inv, locks, thread
    <2>0. invState \in {"NONE", "OPEN", "ACCEPTED", "CLOSED"} /\ invGame \in BOOLEAN
          /\ (invState \in {"NONE", "OPEN"} => ~invGame)
      BY DEF TypeOK, PlayInv, GameInv
    <2>1. CASE inv_create
      BY <2>0, <2>1 DEF inv_create
    <2>2. ASSUME NEW s \in Sides, inv_accept(s) PROVE Forward \/ UNCHANGED <<invState, invGame>>
      BY <2>0, <2>2 DEF inv_accept
    <2>3. ASSUME NEW s \in Sides, inv_close(s) PROVE Forward \/ UNCHANGED <<invState, invGame>>
      BY <2>0, <2>3 DEF inv_close, CloseTwice, CloseWithNullRole, CloseWithoutGame,
                        CloseWithGame, Resign
    <2>4. CASE \/ AddSource \/ AddTarget \/ UNCHANGED vars
               \/ \E s \in Sides : \/ Lookup(s) \/ LookupFails(s) \/ inv_ref(s) \/ Check(s)
                                   \/ Parse(s) \/ ParseNull(s) \/ Apply(s) \/ Over(s)
                                   \/ Post(s)
                                   \/ inv_unref(s)
      BY <2>4 DEF AddSource, AddTarget, AddToList, vars, Lookup, LookupFails, inv_ref,
                  Check, Parse, ParseNull, Apply, Over, Post, inv_unref
    <2>5. ASSUME NEW s \in Sides, \/ RemoveSource(s) \/ RemoveTarget(s)
                                  \/ UnlistSource(s) \/ UnlistTarget(s)
          PROVE  UNCHANGED <<invState, invGame>>
      BY <2>5 DEF RemoveSource, RemoveTarget, Remove, UnlistSource, UnlistTarget, Unlist
    <2> QED BY <2>1, <2>2, <2>3, <2>4, <2>5 DEF Next, Serve
  <1> QED BY <1>1, TypeCorrect, PlayInvCorrect, PTL DEF Spec, Lifecycle

-----------------------------------------------------------------------------
(***************************************************************************)
(* Lines.  game_is_over looks for the first line that one letter fills, so *)
(* that there is a first one has to be shown.                              *)
(***************************************************************************)

\* A nonempty set of natural numbers has a least element.
LEMMA LeastNat ==
  ASSUME NEW T \in SUBSET Nat, T # {}
  PROVE  \E x \in T : \A y \in T : x <= y
  <1>1. \E x \in T : \A y \in T : ~ (<<y, x>> \in OpToRel(<, Nat))
    BY NatLessThanWellFounded, WFMin
  <1>2. \A x, y \in Nat : <<y, x>> \in OpToRel(<, Nat) <=> y < x
    BY DEF OpToRel
  <1>3. \A x, y \in T : ~(y < x) => x <= y
    OBVIOUS
  <1> QED BY <1>1, <1>2, <1>3

\* game_is_over finds a winner if any line is filled.
LEMMA LineFound ==
  ASSUME NEW board, NEW i \in DOMAIN Lines, LineWon(board, i)
  PROVE  WinningLetter(board) # Blank
  <1> DEFINE T == {j \in DOMAIN Lines : LineWon(board, j)}
  <1>1. DOMAIN Lines = 1..Len(Lines) /\ Len(Lines) \in Nat
    BY BoardAssumption
  <1>2. T \in SUBSET Nat /\ T # {}
    BY <1>1
  <1>3. PICK k \in T : \A j \in T : k <= j
    BY <1>2, LeastNat
  <1>4. PICK l \in Letters : FilledWith(board, k, l)
    BY <1>3 DEF LineWon
  <1>5. WinsFirst(board, l)
    <2>1. k \in DOMAIN Lines /\ k \in Nat
      BY <1>2, <1>3
    <2>2. ASSUME NEW j \in 1..(k - 1), NEW m \in Letters \ {l}, FilledWith(board, j, m)
          PROVE  FALSE
      <3>1. j \in DOMAIN Lines /\ ~(k <= j)
        BY <1>1, <2>1
      <3>2. j \in T
        BY <2>2, <3>1 DEF LineWon
      <3> QED BY <1>3, <3>1, <3>2
    <2> QED BY <1>4, <2>1, <2>2 DEF WinsFirst
  <1> QED BY <1>5 DEF WinningLetter, Letters, Blank

\* A winner that game_is_over names fills a line.
LEMMA WinnerFills ==
  ASSUME NEW g \in Games
  PROVE  \/ game_is_over(g) = g
         \/ game_is_over(g).gameWinner = NULL_ROLE
         \/ \E i \in DOMAIN Lines :
              FilledWith(g.gameBoard, i, Letter(game_is_over(g).gameWinner))
  <1> DEFINE new(w) == [g EXCEPT !.gameWinner = w, !.terminated = TRUE]
  <1>1. ASSUME NEW w PROVE new(w).gameWinner = w
    BY DEF Games
  <1>2. \/ game_is_over(g) = g
        \/ game_is_over(g) = new(NULL_ROLE)
        \/ WinningLetter(g.gameBoard) = "X" /\ game_is_over(g) = new(FIRST_PLAYER_ROLE)
        \/ WinningLetter(g.gameBoard) = "O" /\ game_is_over(g) = new(SECOND_PLAYER_ROLE)
    BY DEF game_is_over
  <1> HIDE DEF new
  <1>3. WinningLetter(g.gameBoard) = "X" => WinsFirst(g.gameBoard, "X")
    BY DEF WinningLetter, Blank
  <1>4. WinningLetter(g.gameBoard) = "O" => WinsFirst(g.gameBoard, "O")
    BY DEF WinningLetter, Blank
  <1>5. Letter(FIRST_PLAYER_ROLE) = "X" /\ Letter(SECOND_PLAYER_ROLE) = "O"
    BY DEF Letter, FIRST_PLAYER_ROLE, SECOND_PLAYER_ROLE
  <1> QED BY <1>1, <1>2, <1>3, <1>4, <1>5 DEF WinsFirst

\* The only ways in which a step changes the game.
LEMMA GameSteps ==
  ASSUME TypeOK, [Next]_vars
  PROVE  \/ game' = game
         \/ game' = game_create
         \/ game' = game_is_over(game)
         \/ \E s \in Sides : game' = game_resign(game, roles[s])
         \/ \E s \in Sides : /\ MoveApplies(game, move[s])
                             /\ game' = game_apply_move(game, move[s])
                             /\ pc' = [pc EXCEPT ![s] = "over"]
  <1> USE DEF inv, locks, thread
  <1>1. CASE \/ inv_create \/ AddSource \/ AddTarget \/ UNCHANGED vars
             \/ \E s \in Sides : \/ Lookup(s) \/ LookupFails(s) \/ inv_ref(s)
                                 \/ Check(s) \/ Parse(s) \/ ParseNull(s) \/ Post(s)
                                 \/ inv_unref(s)
    BY <1>1 DEF inv_create, AddSource, AddTarget, AddToList, vars, Lookup,
                LookupFails, inv_ref, Check, Parse, ParseNull, Post, inv_unref
  <1>2. ASSUME NEW s \in Sides, \/ RemoveSource(s) \/ RemoveTarget(s)
                                \/ UnlistSource(s) \/ UnlistTarget(s)
        PROVE  game' = game
    BY <1>2 DEF RemoveSource, RemoveTarget, Remove, UnlistSource, UnlistTarget, Unlist
  <1>3. ASSUME NEW s \in Sides, inv_accept(s) PROVE game' = game \/ game' = game_create
    BY <1>3 DEF inv_accept
  <1>4. ASSUME NEW s \in Sides, inv_close(s)
        PROVE  \/ game' = game \/ game' = game_is_over(game)
               \/ game' = game_resign(game, roles[s])
    BY <1>4 DEF inv_close, CloseTwice, CloseWithNullRole, CloseWithoutGame,
                CloseWithGame, Resign
  <1>5. ASSUME NEW s \in Sides, Over(s) PROVE game' = game_is_over(game)
    BY <1>5 DEF Over
  <1>6. ASSUME NEW s \in Sides, Apply(s)
        PROVE  \/ game' = game
               \/ /\ MoveApplies(game, move[s])
                  /\ game' = game_apply_move(game, move[s])
                  /\ pc' = [pc EXCEPT ![s] = "over"]
    BY <1>6, Zenon DEF Apply, Goto
  <1> QED BY <1>1, <1>2, <1>3, <1>4, <1>5, <1>6 DEF Next, Serve

\* A move leaves a line that a letter fills filled: it writes on a blank
\* square only.
LEMMA LineStaysFilled ==
  ASSUME NEW g \in Games, NEW mv \in Moves, MoveApplies(g, mv),
         NEW i \in DOMAIN Lines, NEW l \in Letters, FilledWith(g.gameBoard, i, l)
  PROVE  FilledWith(game_apply_move(g, mv).gameBoard, i, l)
  <1>1. g.gameBoard \in [Cells -> Letters \cup {Blank}] /\ Lines[i] \subseteq Cells
    BY BoardAssumption DEF Games
  <1>2. game_apply_move(g, mv).gameBoard =
          [g.gameBoard EXCEPT ![mv.boardIndex] = Letter(mv.curPlayer)]
    BY ApplyType
  <1>3. g.gameBoard[mv.boardIndex] = Blank /\ Blank \notin Letters
    BY DEF MoveApplies, Blank, Letters
  <1>4. \A c \in Lines[i] : c # mv.boardIndex
    BY <1>3 DEF FilledWith
  <1> QED BY <1>1, <1>2, <1>4 DEF FilledWith

\* A resignation leaves a finished game as it is and finishes no other.
LEMMA ResignKeepsVerdict ==
  ASSUME NEW g \in Games, NEW r \in GAME_ROLE
  PROVE  game_resign(g, r) = g \/ ~game_resign(g, r).terminated
  <1>1. CASE g.terminated
    BY <1>1 DEF game_resign
  <1>2. CASE ~g.terminated
    BY <1>2, ResignType
  <1> QED BY <1>1, <1>2

\* A winner named by game_is_over has filled a line, whatever the other
\* thread did between the winning move and the test, and keeps it.
THEOREM WinnerHasLineCorrect == Spec => []WinnerHasLine
  <1>1. Init => WinnerHasLine
    BY DEF Init, WinnerHasLine, game_create
  <1>2. TypeOK /\ WinnerHasLine /\ [Next]_vars => WinnerHasLine'
    <2> SUFFICES ASSUME TypeOK, WinnerHasLine, [Next]_vars PROVE WinnerHasLine'
      OBVIOUS
    <2>0. game \in Games /\ roles \in [Sides -> GAME_ROLE] /\ move \in [Sides -> Moves]
      BY DEF TypeOK
    <2>1. CASE game' = game
      BY <2>1 DEF WinnerHasLine
    <2>2. CASE game' = game_create
      BY <2>2 DEF WinnerHasLine, game_create
    <2>3. CASE game' = game_is_over(game)
      <3>1. game'.gameBoard = game.gameBoard
        BY <2>0, <2>3, OverType
      <3> QED BY <2>0, <2>1, <2>3, <3>1, WinnerFills DEF WinnerHasLine
    <2>4. ASSUME NEW s \in Sides, game' = game_resign(game, roles[s]) PROVE WinnerHasLine'
      <3>1. game' = game \/ ~game'.terminated
        BY <2>0, <2>4, ResignKeepsVerdict
      <3> QED BY <2>1, <3>1 DEF WinnerHasLine
    <2>5. ASSUME NEW s \in Sides, MoveApplies(game, move[s]),
                 game' = game_apply_move(game, move[s])
          PROVE  WinnerHasLine'
      <3>1. game'.gameWinner = game.gameWinner /\ game'.terminated = game.terminated
        BY <2>0, <2>5, ApplyType
      <3>2. \A r : Letter(r) \in Letters
        BY DEF Letter, Letters
      <3>3. \A i \in DOMAIN Lines, l \in Letters :
              FilledWith(game.gameBoard, i, l) => FilledWith(game'.gameBoard, i, l)
        BY <2>0, <2>5, LineStaysFilled
      <3> QED BY <3>1, <3>2, <3>3 DEF WinnerHasLine
    <2> QED BY <2>1, <2>2, <2>3, <2>4, <2>5, GameSteps
  <1> QED BY <1>1, <1>2, TypeCorrect, PTL DEF Spec

-----------------------------------------------------------------------------
(***************************************************************************)
(* A completed line ends the game.  Between the move that completes it and *)
(* the test the game goes on, but then the thread that made the move is on *)
(* its way to the test.                                                    *)
(***************************************************************************)
LineInv ==
  (\E i \in DOMAIN Lines : LineWon(game.gameBoard, i)) =>
     game.terminated \/ \E t \in Sides : pc[t] = "over"

\* There is no completed line on a new board.
LEMMA CreateHasNoLine ==
  ASSUME NEW i \in DOMAIN Lines
  PROVE  ~LineWon(game_create.gameBoard, i)
  <1>1. PICK c \in Lines[i] : c \in Cells
    BY BoardAssumption
  <1>2. game_create.gameBoard[c] = Blank
    BY <1>1 DEF game_create
  <1> QED BY <1>1, <1>2 DEF LineWon, FilledWith, Letters, Blank

\* A thread leaves the label "over" only by the test.
LEMMA OverLeft ==
  ASSUME TypeOK, [Next]_vars, NEW t \in Sides, pc[t] = "over", pc'[t] # "over"
  PROVE  Over(t)
  <1> USE DEF At, Goto, inv, locks, thread, Sides
  <1>0. pc \in [Sides -> Labels]
    BY DEF TypeOK
  <1>1. CASE \/ inv_create \/ AddSource \/ AddTarget \/ UNCHANGED vars
             \/ \E s \in Sides : Lookup(s) \/ LookupFails(s)
    BY <1>0, <1>1 DEF inv_create, AddSource, AddTarget, AddToList, vars, Lookup,
                      LookupFails
  <1>2. ASSUME NEW s \in Sides, inv_ref(s) \/ Check(s) \/ inv_accept(s) PROVE FALSE
    BY <1>0, <1>2 DEF inv_ref, Check, inv_accept
  <1>3. ASSUME NEW s \in Sides, inv_close(s) PROVE FALSE
    BY <1>0, <1>3 DEF inv_close, CloseTwice, CloseWithNullRole, CloseWithoutGame,
                      CloseWithGame, Resign
  <1>4. ASSUME NEW s \in Sides, Parse(s) \/ ParseNull(s) \/ Apply(s) PROVE FALSE
    BY <1>0, <1>4 DEF Parse, ParseNull, Apply
  <1>5. ASSUME NEW s \in Sides, Over(s) PROVE Over(t)
    BY <1>0, <1>5 DEF Over
  <1>6. ASSUME NEW s \in Sides, \/ RemoveSource(s) \/ RemoveTarget(s)
                                \/ UnlistSource(s) \/ UnlistTarget(s)
        PROVE  FALSE
    BY <1>0, <1>6 DEF RemoveSource, RemoveTarget, Remove, UnlistSource, UnlistTarget,
                      Unlist
  <1>7. ASSUME NEW s \in Sides, Post(s) \/ inv_unref(s) PROVE FALSE
    BY <1>0, <1>7 DEF Post, inv_unref
  <1> QED BY <1>1, <1>2, <1>3, <1>4, <1>5, <1>6, <1>7 DEF Next, Serve

\* When both threads are back at their clients no completed line is left
\* unnoticed.
THEOREM LineEndsGameCorrect == Spec => []LineEndsGame
  <1>1. Init => LineInv
    BY CreateHasNoLine DEF Init, LineInv
  <1>2. TypeOK /\ LineInv /\ [Next]_vars => LineInv'
    <2> SUFFICES ASSUME TypeOK, LineInv, [Next]_vars,
                        NEW i \in DOMAIN Lines, LineWon(game'.gameBoard, i)
                 PROVE  game'.terminated \/ \E t \in Sides : pc'[t] = "over"
      BY DEF LineInv
    <2>0. game \in Games /\ roles \in [Sides -> GAME_ROLE] /\ move \in [Sides -> Moves]
          /\ pc \in [Sides -> Labels]
      BY DEF TypeOK
    <2>1. ASSUME game'.gameBoard = game.gameBoard,
                 game.terminated => game'.terminated
          PROVE  game'.terminated \/ \E t \in Sides : pc'[t] = "over"
      <3>1. CASE game.terminated
        BY <2>1, <3>1
      <3>2. CASE ~game.terminated
        <4>1. PICK t \in Sides : pc[t] = "over"
          BY <2>1, <3>2 DEF LineInv
        <4>2. CASE pc'[t] # "over"
          <5>1. Over(t)
            BY <4>1, <4>2, OverLeft
          <5>2. IsOver(game)
            BY <2>1, LineFound DEF IsOver
          <5> QED BY <2>0, <5>1, <5>2, OverTerminates DEF Over
        <4> QED BY <4>2
      <3> QED BY <3>1, <3>2
    <2>2. CASE game' = game
      BY <2>1, <2>2
    <2>3. CASE game' = game_create
      BY <2>3, CreateHasNoLine
    <2>4. CASE game' = game_is_over(game)
      BY <2>0, <2>1, <2>4, OverType
    <2>5. ASSUME NEW s \in Sides, game' = game_resign(game, roles[s])
          PROVE  game'.terminated \/ \E t \in Sides : pc'[t] = "over"
      BY <2>0, <2>1, <2>5, ResignType
    <2>6. ASSUME NEW s \in Sides, pc' = [pc EXCEPT ![s] = "over"]
          PROVE  \E t \in Sides : pc'[t] = "over"
      BY <2>0, <2>6
    <2> QED BY <2>2, <2>3, <2>4, <2>5, <2>6, GameSteps
  <1>3. LineInv => LineEndsGame
    BY DEF LineInv, LineEndsGame, Sides
  <1> QED BY <1>1, <1>2, <1>3, TypeCorrect, PTL DEF Spec

-----------------------------------------------------------------------------
(***************************************************************************)
(* Posts.  Once a result has been posted nobody can find the invitation    *)
(* any more, so a thread that has posted can only go back to its client.   *)
(***************************************************************************)
Posted(t) == \E i \in DOMAIN posts : posts[i][1] = t

UnlistedInv ==
  /\ \A t \in Sides : pc[t] \in {"rmTarget", "unrefTarget"} => "source" \notin listed
  /\ \A t \in Sides : pc[t] = "post" => listed = {}
  /\ posts # <<>> => listed = {}

PostInv ==
  /\ UnlistedInv
  /\ \A t \in Sides : Posted(t) => pc[t] \in {"idle", "finish"}
  /\ AtMostOnePostEach

\* Every step of the two threads preserves it.
LEMMA PostInvStep ==
  ASSUME TypeOK, ListInv, GameInv, PostOnlyEndedGames, PostInv, [Next]_vars
  PROVE  PostInv'
  <1> USE StepTargets
      DEF Sides, None, At, Goto, Fail, inv, locks, thread, PostInv, UnlistedInv
  <1>0. /\ pc \in [Sides -> Labels] /\ listed \subseteq Sides /\ Len(posts) \in Nat
        /\ posts \in Seq(Sides \X GAME_ROLE)
    BY DEF TypeOK
  <1>1. invState \in {"NONE", "OPEN"} => posts = <<>>
    BY DEF GameInv, PostOnlyEndedGames
  <1>a. ASSUME posts' = posts
        PROVE  /\ \A t \in Sides : Posted(t)' <=> Posted(t)
               /\ AtMostOnePostEach'
    BY <1>a DEF Posted, AtMostOnePostEach
  <1>b. \A t \in Sides : Posted(t) => posts # <<>>
    BY <1>0 DEF Posted
  <1>2. CASE inv_create
    BY <1>0, <1>1, <1>a, <1>b, <1>2 DEF inv_create
  <1>3. CASE AddSource
    BY <1>0, <1>1, <1>a, <1>b, <1>3 DEF AddSource, AddToList, ListInv
  <1>4. CASE AddTarget
    BY <1>0, <1>1, <1>a, <1>b, <1>4 DEF AddTarget, AddToList, ListInv
  <1>5. ASSUME NEW s \in Sides, Lookup(s) PROVE PostInv'
    <2>1. /\ pc' = [pc EXCEPT ![s] = "ref"] /\ s \in listed
          /\ listed' = listed /\ posts' = posts
      BY <1>5 DEF Lookup
    <2>2. posts = <<>>
      BY <2>1
    <2> QED BY <1>0, <1>a, <1>b, <2>1, <2>2
  <1>6. ASSUME NEW s \in Sides, LookupFails(s) PROVE PostInv'
    <2>1. pc' = pc /\ listed' = listed /\ posts' = posts
      BY <1>6 DEF LookupFails
    <2> QED BY <1>0, <1>a, <2>1
  <1>7. ASSUME NEW s \in Sides, NEW l \in Labels,
               pc[s] # "idle", pc[s] = "finish" => l = "idle",
               pc' = [pc EXCEPT ![s] = l], listed' \subseteq listed, posts' = posts,
               l \in {"rmTarget", "unrefTarget"} => "source" \notin listed',
               l = "post" => listed' = {}
        PROVE  PostInv'
    <2>1. UnlistedInv'
      BY <1>0, <1>7
    <2>2. ASSUME NEW t \in Sides, Posted(t)' PROVE pc'[t] \in {"idle", "finish"}
      <3>1. pc[t] \in {"idle", "finish"}
        BY <1>7, <1>a, <2>2
      <3>2. pc'[t] = IF t = s THEN l ELSE pc[t]
        BY <1>0, <1>7
      <3> QED BY <1>7, <3>1, <3>2
    <2>3. AtMostOnePostEach'
      BY <1>7, <1>a
    <2> QED BY <2>1, <2>2, <2>3
  <1> USE LabelsType
  <1>8. ASSUME NEW s \in Sides, inv_ref(s) \/ inv_unref(s) PROVE PostInv'
    BY <1>7, <1>8 DEF inv_ref, inv_unref
  <1>9. ASSUME NEW s \in Sides, Check(s) \/ inv_accept(s) PROVE PostInv'
    <2>1. /\ pc[s] \in {"check", "accept"} /\ listed' = listed /\ posts' = posts
          /\ \E l \in {"close", "accept", "parse", "finish"} : pc' = [pc EXCEPT ![s] = l]
      BY <1>9 DEF Check, inv_accept
    <2> QED BY <1>7, <2>1
  <1>10. ASSUME NEW s \in Sides, inv_close(s) PROVE PostInv'
    <2>1. CASE CloseWithoutGame(s)
      <3>1. pc' = pc /\ listed' = listed /\ posts' = posts
        BY <2>1 DEF CloseWithoutGame
      <3> QED BY <1>0, <1>a, <3>1
    <2>2. CASE CloseTwice(s) \/ CloseWithNullRole(s) \/ CloseWithGame(s) \/ Resign(s)
      <3>1. /\ pc[s] \in {"close", "resign"} /\ listed' = listed /\ posts' = posts
            /\ \E l \in {"resign", "rmSource", "finish"} : pc' = [pc EXCEPT ![s] = l]
        BY <2>2 DEF CloseTwice, CloseWithNullRole, CloseWithGame, Resign
      <3> QED BY <1>7, <3>1
    <2> QED BY <1>10, <2>1, <2>2 DEF inv_close
  <1>16. ASSUME NEW s \in Sides, ParseNull(s) PROVE PostInv'
    <2>1. CASE pc' = pc
      <3>1. listed' = listed /\ posts' = posts
        BY <1>16 DEF ParseNull
      <3> QED BY <1>0, <1>a, <2>1, <3>1
    <2>2. CASE pc' = [pc EXCEPT ![s] = "finish"]
      <3>1. pc[s] = "parse" /\ listed' = listed /\ posts' = posts
        BY <1>16 DEF ParseNull
      <3> QED BY <1>7, <2>2, <3>1
    <2> QED BY <1>16, <2>1, <2>2, Zenon DEF ParseNull
  <1>11. ASSUME NEW s \in Sides, Parse(s) \/ Apply(s) \/ Over(s) PROVE PostInv'
    <2>1. /\ pc[s] \in {"parse", "apply", "over"} /\ listed' = listed /\ posts' = posts
          /\ \E l \in {"apply", "over", "rmSource", "finish"} : pc' = [pc EXCEPT ![s] = l]
      BY <1>11 DEF Parse, Apply, Over
    <2> QED BY <1>7, <2>1
  <1>12. ASSUME NEW s \in Sides, RemoveSource(s) \/ UnlistSource(s) PROVE PostInv'
    <2>1. CASE RemoveSource(s)
      BY <1>7, <2>1 DEF RemoveSource, Remove
    <2>2. CASE UnlistSource(s)
      BY <1>7, <2>2 DEF UnlistSource, Unlist
    <2> QED BY <1>12, <2>1, <2>2
  <1>13. ASSUME NEW s \in Sides, RemoveTarget(s) \/ UnlistTarget(s) PROVE PostInv'
    <2>1. "source" \notin listed
      BY <1>13 DEF RemoveTarget, UnlistTarget, Remove, Unlist
    <2>2. CASE RemoveTarget(s)
      <3>1. /\ pc[s] = "rmTarget" /\ listed' = listed /\ posts' = posts
            /\ \/ pc' = [pc EXCEPT ![s] = "unrefTarget"]
               \/ "target" \notin listed /\ pc' = [pc EXCEPT ![s] = AfterRemoval(s)]
        BY <2>2, Zenon DEF RemoveTarget, Remove
      <3>2. CASE pc' = [pc EXCEPT ![s] = "unrefTarget"]
        BY <1>7, <2>1, <3>1, <3>2
      <3>3. CASE "target" \notin listed /\ pc' = [pc EXCEPT ![s] = AfterRemoval(s)]
        <4>1. listed' = {}
          BY <1>0, <2>1, <3>1, <3>3
        <4> QED BY <1>7, <3>1, <3>3, <4>1
      <3> QED BY <3>1, <3>2, <3>3
    <2>3. CASE UnlistTarget(s)
      <3>1. /\ pc[s] = "unrefTarget" /\ listed' = {} /\ posts' = posts
            /\ pc' = [pc EXCEPT ![s] = AfterRemoval(s)]
        BY <1>0, <2>1, <2>3 DEF UnlistTarget, Unlist
      <3> QED BY <1>7, <3>1
    <2> QED BY <1>13, <2>2, <2>3
  <1>14. ASSUME NEW s \in Sides, Post(s) PROVE PostInv'
    <2> DEFINE p == <<s, game_get_winner(game)>>
    <2>1. /\ pc[s] = "post" /\ pc' = [pc EXCEPT ![s] = "finish"]
          /\ posts' = Append(posts, p) /\ listed' = listed /\ listed = {}
      BY <1>14 DEF Post
    <2>2. p[1] = s
      OBVIOUS
    <2> HIDE DEF p
    <2>3. /\ DOMAIN posts = 1..Len(posts) /\ DOMAIN posts' = 1..(Len(posts) + 1)
          /\ \A i \in 1..Len(posts) : posts'[i] = posts[i]
          /\ posts'[Len(posts) + 1] = p
      BY <1>0, <2>1
    <2>4. \A i \in 1..Len(posts) : posts[i][1] # s
      BY <2>1, <2>3 DEF Posted
    <2>5. AtMostOnePostEach'
      <3> SUFFICES ASSUME NEW i \in 1..(Len(posts) + 1), NEW j \in 1..(Len(posts) + 1),
                          posts'[i][1] = posts'[j][1]
                   PROVE  i = j
        BY <2>3 DEF AtMostOnePostEach
      <3>1. (i \in 1..Len(posts) \/ i = Len(posts) + 1)
            /\ (j \in 1..Len(posts) \/ j = Len(posts) + 1)
        BY <1>0
      <3>2. CASE i \in 1..Len(posts) /\ j \in 1..Len(posts)
        BY <2>3, <3>2 DEF AtMostOnePostEach
      <3>3. CASE i = Len(posts) + 1 \/ j = Len(posts) + 1
        BY <2>2, <2>3, <2>4, <3>1, <3>3
      <3> QED BY <3>1, <3>2, <3>3
    <2>6. ASSUME NEW t \in Sides, Posted(t)' PROVE pc'[t] \in {"idle", "finish"}
      <3>1. CASE t = s
        BY <1>0, <2>1, <3>1
      <3>2. CASE t # s
        <4>1. PICK i \in 1..(Len(posts) + 1) : posts'[i][1] = t
          BY <2>3, <2>6 DEF Posted
        <4>2. i \in 1..Len(posts)
          BY <1>0, <2>2, <2>3, <3>2, <4>1
        <4>3. Posted(t)
          BY <2>3, <4>1, <4>2 DEF Posted
        <4> QED BY <1>0, <2>1, <3>2, <4>3
      <3> QED BY <3>1, <3>2
    <2>7. UnlistedInv'
      BY <1>0, <2>1
    <2> QED BY <2>5, <2>6, <2>7
  <1>15. CASE UNCHANGED vars
    <2>1. pc' = pc /\ listed' = listed /\ posts' = posts
      BY <1>15 DEF vars
    <2> QED BY <1>0, <1>a, <2>1
  <1> QED
    BY <1>2, <1>3, <1>4, <1>5, <1>6, <1>8, <1>9, <1>10, <1>11, <1>12, <1>13,
       <1>14, <1>15, <1>16 DEF Next, Serve

\* Neither of the two threads calls player_post_result twice for one game.
THEOREM AtMostOnePostEachCorrect == Spec => []AtMostOnePostEach
  <1>1. Init => PostInv
    BY DEF Init, PostInv, UnlistedInv, AtMostOnePostEach, Posted, Sides
  <1>2. TypeOK /\ RefInv /\ PlayInv /\ PostInv /\ [Next]_vars => PostInv'
    BY PostInvStep DEF RefInv, PlayInv, EndInv
  <1>3. PostInv => AtMostOnePostEach
    BY DEF PostInv
  <1> QED BY <1>1, <1>2, <1>3, TypeCorrect, RefInvCorrect, PlayInvCorrect, PTL DEF Spec
=============================================================================
