---------------------------- MODULE JeuxSession ----------------------------
(***************************************************************************)
(* The life of one INVITATION of the Jeux server, from the INVITE packet   *)
(* to the end of its game: the object itself (hw5/src/invitation.c), the   *)
(* game in it (JeuxGame), and the two service threads (hw5/src/server.c)   *)
(* whose clients are its source and its target.                            *)
(*                                                                         *)
(* server.c reaches invitation.c and game.c through the client module      *)
(* (hw5/include/client.h), which the repository contains only as object    *)
(* code.  Its calls are modelled as external: which function of src/ is    *)
(* called, in which order, under which client's mutex, as client.h says    *)
(* and the calls made to src/ show.                                        *)
(*                                                                         *)
(* Granularity.  A function of invitation.c holds the invitation's         *)
(* semaphore invLock from its first statement to its last and is one       *)
(* action, enabled when invLock is free.  There are two exceptions, and    *)
(* both keep invLock across actions: inv_close calls game_is_over and then *)
(* game_resign, each under gameLock only, so the opponent's game calls can *)
(* come in between; and inv_close returns without V(&invLock) when the     *)
(* invitation is already closed.  A client's mutex is held while its list  *)
(* of invitations is read or changed and the reference count adjusted.     *)
(*                                                                         *)
(* Invitations share nothing but the two clients' mutexes, so one is       *)
(* enough to see every interleaving of two threads on it.                  *)
(***************************************************************************)
EXTENDS JeuxGame

CONSTANTS
  Requests,     \* the packet types the clients send, a subset of AllRequests
  InviteRoles,  \* roles in the header of INVITE: what the target is to play.
                \* server.c does not reject NULL_ROLE there.
  Suffixes,     \* letters (or NoLetter) that may end a move string
  NullMoves     \* whether a MOVE packet may come without a payload

AllRequests == {"INVITE", "REVOKE", "DECLINE", "ACCEPT", "MOVE", "RESIGN"}

ASSUME SessionAssumption ==
  /\ Requests \subseteq AllRequests
  /\ InviteRoles \subseteq GAME_ROLE
  /\ Suffixes \subseteq Letters \cup {NoLetter}
  /\ NullMoves \in BOOLEAN

Sides == {"source", "target"}
None  == "none"
Other(s) == IF s = "source" THEN "target" ELSE "source"

VARIABLES
  \* the INVITATION
  invState,   \* "NONE" before inv_create, then OPEN, ACCEPTED, CLOSED
  invGame,    \* invGame is not NULL
  game,       \* the GAME it points to
  roles,      \* roles[s]: invSourceGameRole and invTargetGameRole
  refCount,
  invLock,    \* None, or the side whose thread holds it
  \* the two CLIENTs
  listed,     \* sides whose list of invitations contains it
  mutex,      \* mutex[s]: side whose thread holds the mutex of client s
  \* the two service threads
  pc,         \* what the thread of each side does next
  req,        \* the request it is serving
  ok,         \* no error so far; when idle, whether the last reply was ACK
  move,       \* the GAME_MOVE it has parsed
  \* the rest
  posts,      \* calls of player_post_result: whose thread made it, and the
              \* winning role
  crashed     \* the process has died of a null dereference

inv    == <<invState, invGame, game, roles>>
locks  == <<invLock, mutex>>
thread == <<pc, req, ok, move>>
vars   == <<invState, invGame, game, roles, refCount, invLock, listed, mutex,
            pc, req, ok, move, posts, crashed>>

Labels == {"idle", "addSource", "addTarget", "ref", "check", "close",
           "resign", "accept", "parse", "apply", "over", "rmSource",
           "unrefSource", "rmTarget", "unrefTarget", "post", "finish"}

Init ==
  /\ invState = "NONE" /\ invGame = FALSE /\ game = game_create
  /\ roles = [s \in Sides |-> NULL_ROLE]
  /\ refCount = 0
  /\ invLock = None
  /\ listed = {}
  /\ mutex = [s \in Sides |-> None]
  /\ pc = [s \in Sides |-> "idle"]
  /\ req = [s \in Sides |-> None]
  /\ ok = [s \in Sides |-> TRUE]
  /\ move = [s \in Sides |-> NoMove]
  /\ posts = <<>>
  /\ crashed = FALSE

-----------------------------------------------------------------------------
\* P(&invLock) returns at once.
Unlocked == invLock = None

\* client_send_packet by the thread of s to client c.
CanSend(s, c) == mutex[c] \in {None, s}

At(s, l)   == ~crashed /\ pc[s] = l
Goto(s, l) == pc' = [pc EXCEPT ![s] = l]
Fail(s)    == ok' = [ok EXCEPT ![s] = FALSE]

(***************************************************************************)
(* INVITE: client_make_invitation, called by the source's thread.          *)
(***************************************************************************)

\* The header's role is the target's; the source gets the other one.
SourceRole(targetRole) ==
  IF targetRole = SECOND_PLAYER_ROLE THEN FIRST_PLAYER_ROLE
                                     ELSE SECOND_PLAYER_ROLE

inv_create ==
  /\ At("source", "idle") /\ invState = "NONE" /\ "INVITE" \in Requests
  /\ \E r \in InviteRoles :
        roles' = [s \in Sides |-> IF s = "target" THEN r ELSE SourceRole(r)]
  /\ invState' = "OPEN"
  /\ refCount' = 1
  /\ Goto("source", "addSource")
  /\ req' = [req EXCEPT !["source"] = "INVITE"]
  /\ ok' = [ok EXCEPT !["source"] = TRUE]
  /\ UNCHANGED <<invGame, game, locks, listed, move, posts, crashed>>

\* client_add_invitation: inv_ref under the client's mutex.
AddToList(side, here, next) ==
  /\ At("source", here) /\ Unlocked /\ mutex[side] = None
  /\ listed' = listed \cup {side}
  /\ refCount' = refCount + 1
  /\ Goto("source", next)
  /\ UNCHANGED <<inv, locks, req, ok, move, posts, crashed>>

AddSource == AddToList("source", "addSource", "addTarget")
AddTarget == AddToList("target", "addTarget", "finish")

(***************************************************************************)
(* Every other request starts by looking the invitation up in the list of  *)
(* the client that sends it, and taking a reference under its mutex.       *)
(***************************************************************************)
Lookup(s) ==
  /\ At(s, "idle") /\ mutex[s] = None /\ s \in listed
  /\ \E r \in Requests \ {"INVITE"} : req' = [req EXCEPT ![s] = r]
  /\ ok' = [ok EXCEPT ![s] = TRUE]
  /\ mutex' = [mutex EXCEPT ![s] = s]
  /\ Goto(s, "ref")
  /\ UNCHANGED <<inv, refCount, invLock, listed, move, posts, crashed>>

\* No invitation with that ID: NACK.
LookupFails(s) ==
  /\ At(s, "idle") /\ mutex[s] = None /\ s \notin listed
  /\ Requests \ {"INVITE"} # {}
  /\ Fail(s)
  /\ UNCHANGED <<inv, refCount, locks, listed, pc, req, move, posts, crashed>>

RefWithoutCount(s) ==
  /\ At(s, "ref") /\ Unlocked
  /\ mutex' = [mutex EXCEPT ![s] = None]
  /\ Goto(s, "check")
  /\ UNCHANGED <<inv, refCount, invLock, listed, req, ok, move, posts, crashed>>

inv_ref(s) ==
  /\ At(s, "ref") /\ Unlocked
  /\ refCount' = refCount + 1
  /\ mutex' = [mutex EXCEPT ![s] = None]
  /\ Goto(s, "check")
  /\ UNCHANGED <<inv, invLock, listed, req, ok, move, posts, crashed>>

\* inv_get_source, inv_get_target and inv_get_game: a REVOKE must come from
\* the source, a DECLINE or ACCEPT from the target, a MOVE needs a game.
Entitled(s) ==
  CASE req[s] = "REVOKE"               -> s = "source"
    [] req[s] \in {"DECLINE", "ACCEPT"} -> s = "target"
    [] req[s] = "MOVE"                 -> invGame
    [] OTHER                           -> TRUE

FirstStep(r) == CASE r \in {"REVOKE", "DECLINE", "RESIGN"} -> "close"
                  [] r = "ACCEPT" -> "accept"
                  [] OTHER        -> "parse"

Check(s) ==
  /\ At(s, "check") /\ Unlocked
  /\ \/ Entitled(s) /\ Goto(s, FirstStep(req[s])) /\ UNCHANGED ok
     \/ ~Entitled(s) /\ Goto(s, "finish") /\ Fail(s)
  /\ UNCHANGED <<inv, refCount, locks, listed, req, move, posts, crashed>>

-----------------------------------------------------------------------------
(***************************************************************************)
(* ACCEPT.                                                                 *)
(***************************************************************************)
AcceptAnyState(s) ==
  /\ At(s, "accept") /\ Unlocked
  /\ invState' = "ACCEPTED" /\ invGame' = TRUE /\ game' = game_create
  /\ Goto(s, "finish")
  /\ UNCHANGED <<roles, refCount, locks, listed, req, ok, move, posts, crashed>>

AcceptKeepsLock(s) ==
  /\ At(s, "accept") /\ Unlocked
  /\ \/ /\ invState = "OPEN"
        /\ invState' = "ACCEPTED" /\ invGame' = TRUE /\ game' = game_create
        /\ UNCHANGED <<ok, invLock>>
     \/ /\ invState # "OPEN"
        /\ Fail(s) /\ invLock' = s
        /\ UNCHANGED <<invState, invGame, game>>
  /\ Goto(s, "finish")
  /\ UNCHANGED <<roles, refCount, mutex, listed, req, move, posts, crashed>>

inv_accept(s) ==
  /\ At(s, "accept") /\ Unlocked
  /\ \/ /\ invState = "OPEN"
        /\ invState' = "ACCEPTED" /\ invGame' = TRUE /\ game' = game_create
        /\ UNCHANGED ok
     \/ /\ invState # "OPEN"
        /\ Fail(s)
        /\ UNCHANGED <<invState, invGame, game>>
  /\ Goto(s, "finish")
  /\ UNCHANGED <<roles, refCount, locks, listed, req, move, posts, crashed>>

(***************************************************************************)
(* inv_close, for REVOKE and DECLINE with NULL_ROLE, for RESIGN with the   *)
(* role of the client that resigns.                                        *)
(***************************************************************************)
Closable == invState \in {"OPEN", "ACCEPTED"}

CloseRole(s) == IF req[s] = "RESIGN" THEN roles[s] ELSE NULL_ROLE

\* The error path returns -1 and leaves invLock taken.
CloseTwice(s) ==
  /\ At(s, "close") /\ Unlocked /\ ~Closable
  /\ invLock' = s
  /\ Fail(s) /\ Goto(s, "finish")
  /\ UNCHANGED <<inv, refCount, mutex, listed, req, move, posts, crashed>>

CloseWithNullRole(s) ==
  /\ At(s, "close") /\ Unlocked /\ Closable /\ CloseRole(s) = NULL_ROLE
  /\ invState' = "CLOSED"
  /\ Goto(s, "rmSource")
  /\ UNCHANGED <<invGame, game, roles, refCount, locks, listed, req, ok, move,
                 posts, crashed>>

\* game_is_over(NULL): an open invitation has no game to resign.
CloseWithoutGame(s) ==
  /\ At(s, "close") /\ Unlocked /\ Closable
  /\ CloseRole(s) # NULL_ROLE /\ ~invGame
  /\ invState' = "CLOSED" /\ crashed' = TRUE
  /\ UNCHANGED <<invGame, game, roles, refCount, locks, listed, thread, posts>>

\* game_is_over; if it returns 0 then game_resign is next, invLock still held.
CloseWithGame(s) ==
  /\ At(s, "close") /\ Unlocked /\ Closable
  /\ CloseRole(s) # NULL_ROLE /\ invGame
  /\ invState' = "CLOSED" /\ game' = game_is_over(game)
  /\ \/ IsOver(game) /\ Goto(s, "rmSource") /\ UNCHANGED invLock
     \/ ~IsOver(game) /\ Goto(s, "resign") /\ invLock' = s
  /\ UNCHANGED <<invGame, roles, refCount, mutex, listed, req, ok, move,
                 posts, crashed>>

Resign(s) ==
  /\ At(s, "resign")
  /\ game' = game_resign(game, roles[s])
  /\ invLock' = None
  /\ Goto(s, "rmSource")
  /\ UNCHANGED <<invState, invGame, roles, refCount, mutex, listed, req, ok,
                 move, posts, crashed>>

inv_close(s) == \/ CloseTwice(s) \/ CloseWithNullRole(s)
                \/ CloseWithoutGame(s) \/ CloseWithGame(s) \/ Resign(s)

-----------------------------------------------------------------------------
(***************************************************************************)
(* MOVE: parse, apply, send MOVED to the opponent, test for the end.       *)
(***************************************************************************)
Parse(s) ==
  /\ At(s, "parse")
  /\ \E str \in {m \in MoveStrings : m.letter \in Suffixes} :
       LET mv == game_parse_move(game, roles[s], str) IN
         \/ /\ mv # NoMove
            /\ move' = [move EXCEPT ![s] = mv] /\ Goto(s, "apply")
            /\ UNCHANGED ok
         \/ /\ mv = NoMove
            /\ Goto(s, "finish") /\ Fail(s)
            /\ UNCHANGED move
  /\ UNCHANGED <<inv, refCount, locks, listed, req, posts, crashed>>

\* server.c hands the client module a NULL string then.  It is read once the
\* turn is found right.
ParseNull(s) ==
  /\ At(s, "parse") /\ NullMoves
  /\ \/ /\ WrongTurn(game, roles[s])
        /\ Goto(s, "finish") /\ Fail(s) /\ UNCHANGED crashed
     \/ /\ ~WrongTurn(game, roles[s])
        /\ crashed' = TRUE /\ UNCHANGED <<pc, ok>>
  /\ UNCHANGED <<inv, refCount, locks, listed, req, move, posts>>

Apply(s) ==
  /\ At(s, "apply")
  /\ \/ /\ MoveApplies(game, move[s])
        /\ game' = game_apply_move(game, move[s])
        /\ Goto(s, "over") /\ UNCHANGED ok
     \/ /\ ~MoveApplies(game, move[s])
        /\ Goto(s, "finish") /\ Fail(s) /\ UNCHANGED game
  /\ move' = [move EXCEPT ![s] = NoMove]
  /\ UNCHANGED <<invState, invGame, roles, refCount, locks, listed, req, posts,
                 crashed>>

Over(s) ==
  /\ At(s, "over") /\ CanSend(s, Other(s))
  /\ game' = game_is_over(game)
  /\ Goto(s, IF IsOver(game) THEN "rmSource" ELSE "finish")
  /\ UNCHANGED <<invState, invGame, roles, refCount, locks, listed, req, ok,
                 move, posts, crashed>>

-----------------------------------------------------------------------------
(***************************************************************************)
(* Removal from the two lists, source first.  After a game (RESIGN, MOVE)  *)
(* an ENDED packet goes to both clients before it and the result is posted *)
(* after it.                                                               *)
(***************************************************************************)
EndsGame(s) == req[s] \in {"RESIGN", "MOVE"}

AfterRemoval(s) == IF EndsGame(s) THEN "post" ELSE "finish"

\* client_remove_invitation takes the mutex of client `side'.
Remove(s, side, here, unref, next) ==
  /\ At(s, here) /\ mutex[side] = None
  /\ (here = "rmSource" /\ EndsGame(s)) => \A c \in Sides : CanSend(s, c)
  /\ \/ /\ side \in listed
        /\ mutex' = [mutex EXCEPT ![side] = s] /\ Goto(s, unref)
     \/ /\ side \notin listed
        /\ Goto(s, next) /\ UNCHANGED mutex
  /\ UNCHANGED <<inv, refCount, invLock, listed, req, ok, move, posts, crashed>>

RemoveSource(s) == Remove(s, "source", "rmSource", "unrefSource", "rmTarget")
RemoveTarget(s) == Remove(s, "target", "rmTarget", "unrefTarget", AfterRemoval(s))

UnlistKeepsEntry(s, side, here, next) ==
  /\ At(s, here) /\ Unlocked
  /\ refCount' = refCount - 1
  /\ mutex' = [mutex EXCEPT ![side] = None]
  /\ Goto(s, next)
  /\ UNCHANGED <<inv, listed, invLock, req, ok, move, posts, crashed>>

\* inv_unref under that mutex.
Unlist(s, side, here, next) ==
  /\ At(s, here) /\ Unlocked
  /\ listed' = listed \ {side}
  /\ refCount' = refCount - 1
  /\ mutex' = [mutex EXCEPT ![side] = None]
  /\ Goto(s, next)
  /\ UNCHANGED <<inv, invLock, req, ok, move, posts, crashed>>

UnlistSource(s) == Unlist(s, "source", "unrefSource", "rmTarget")
UnlistTarget(s) == Unlist(s, "target", "unrefTarget", AfterRemoval(s))

SkipPost(s) ==
  /\ At(s, "post")
  /\ Goto(s, "finish")
  /\ UNCHANGED <<inv, refCount, locks, listed, req, ok, move, posts, crashed>>

Post(s) ==
  /\ At(s, "post")
  /\ posts' = Append(posts, <<s, game_get_winner(game)>>)
  /\ Goto(s, "finish")
  /\ UNCHANGED <<inv, refCount, locks, listed, req, ok, move, crashed>>

\* Drop the thread's reference (the object is freed when none is left) and
\* reply ACK or NACK.  A successful INVITE, REVOKE, DECLINE or ACCEPT is
\* announced to the other client first.
Announces(s) == ok[s] /\ ~EndsGame(s)

UnrefWithoutCount(s) ==
  /\ At(s, "finish") /\ Unlocked /\ CanSend(s, s)
  /\ Announces(s) => CanSend(s, Other(s))
  /\ Goto(s, "idle")
  /\ req' = [req EXCEPT ![s] = None]
  /\ UNCHANGED <<inv, refCount, locks, listed, ok, move, posts, crashed>>

inv_unref(s) ==
  /\ At(s, "finish") /\ Unlocked /\ CanSend(s, s)
  /\ Announces(s) => CanSend(s, Other(s))
  /\ refCount' = refCount - 1
  /\ Goto(s, "idle")
  /\ req' = [req EXCEPT ![s] = None]
  /\ UNCHANGED <<inv, locks, listed, ok, move, posts, crashed>>

-----------------------------------------------------------------------------
\* The steps of a thread that is serving a request.
Serve(s) ==
  \/ inv_ref(s) \/ Check(s) \/ inv_accept(s) \/ inv_close(s)
  \/ Parse(s) \/ ParseNull(s) \/ Apply(s) \/ Over(s)
  \/ RemoveSource(s) \/ UnlistSource(s) \/ RemoveTarget(s) \/ UnlistTarget(s)
  \/ Post(s) \/ inv_unref(s)

Next == \/ inv_create \/ AddSource \/ AddTarget
        \/ \E s \in Sides : Lookup(s) \/ LookupFails(s) \/ Serve(s)

Spec == Init /\ [][Next]_vars

\* The threads are scheduled, so a thread whose next step stays possible
\* takes it; nobody has to send a request.
FairSpec == Spec /\ WF_vars(AddSource) /\ WF_vars(AddTarget)
                 /\ \A s \in Sides : WF_vars(Serve(s))

-----------------------------------------------------------------------------
(***************************************************************************)
(* Type invariant.                                                         *)
(***************************************************************************)

\* Every field keeps the type its declaration gives it.
TypeOK ==
  /\ invState \in {"NONE", "OPEN", "ACCEPTED", "CLOSED"}
  /\ invGame \in BOOLEAN
  /\ game \in Games
  /\ roles \in [Sides -> GAME_ROLE]
  /\ refCount \in Int
  /\ invLock \in Sides \cup {None}
  /\ listed \subseteq Sides
  /\ mutex \in [Sides -> Sides \cup {None}]
  /\ pc \in [Sides -> Labels]
  /\ req \in [Sides -> AllRequests \cup {None}]
  /\ ok \in [Sides -> BOOLEAN]
  /\ move \in [Sides -> Moves]
  /\ posts \in Seq(Sides \X GAME_ROLE)
  /\ crashed \in BOOLEAN

(***************************************************************************)
(* Reference counting (inv_ref and inv_unref around every use).            *)
(***************************************************************************)
Held(s) == IF pc[s] \in {"idle", "ref"} THEN 0 ELSE 1
Entry(s) == IF s \in listed THEN 1 ELSE 0

\* invitation.c's refCount is exactly the number of clients that list the
\* invitation plus the number of threads that are using it, whatever the
\* order in which the two threads take and drop their references: never too
\* small (use after free), never too large (leak).
RefCountExact ==
  refCount = Held("source") + Held("target") + Entry("source") + Entry("target")

\* A closed invitation that no thread is using any more has left both lists
\* and has been freed by the inv_unref that dropped the last reference.
ClosedIsFreed ==
  (invState = "CLOSED" /\ \A s \in Sides : pc[s] = "idle")
    => listed = {} /\ refCount = 0

\* The game of an invitation outlives it: the one reference that game_resign
\* gives back is never the last one, so no thread reads a freed GAME.
GameNotFreed == invGame => game.refCount >= 1

(***************************************************************************)
(* The life of an invitation.                                              *)
(***************************************************************************)

\* An invitation goes from open to accepted to closed and never back, and
\* the GAME it points to is created once, by the step that accepts it.
Lifecycle ==
  [][/\ invState = "ACCEPTED" => invState' \in {"ACCEPTED", "CLOSED"}
     /\ invState = "CLOSED" => invState' = "CLOSED"
     /\ invGame => invGame'
     /\ (invGame' /\ ~invGame) => invState = "OPEN" /\ invState' = "ACCEPTED"
    ]_<<invState, invGame>>

(***************************************************************************)
(* Play.                                                                   *)
(***************************************************************************)

\* game_parse_move checks whose turn it is and game_apply_move, in a later
\* lock section, does not check again.  The turn is still the mover's when
\* the move is applied, so two parsed moves never wait at the same time.
MoverHasTheTurn ==
  (\A s \in Sides : roles[s] \in PlayerRoles) =>
     \A s \in Sides : pc[s] = "apply" => game.curRole = roles[s]

\* movesMade, which decides when the board is full, is the number of marks.
MovesMadeCounts == game.movesMade = Cardinality(Filled(game))

\* A winner named by game_is_over is a role whose letter fills a line, also
\* when the opponent's move or resignation came between the winning move and
\* the test: the verdict never credits the wrong player.
WinnerHasLine ==
  (game.gameWinner # NULL_ROLE /\ game.terminated) =>
     \E i \in DOMAIN Lines : FilledWith(game.gameBoard, i, Letter(game.gameWinner))

\* No thread goes back to its client leaving a completed line unnoticed.
LineEndsGame ==
  (/\ invGame
   /\ \A s \in Sides : pc[s] = "idle"
   /\ \E i \in DOMAIN Lines : LineWon(game.gameBoard, i)) => game.terminated

\* Ratings change only for a game that was played: a result is posted after
\* game_is_over has said so or after the invitation was closed.
PostOnlyEndedGames ==
  posts # <<>> => invState = "CLOSED" \/ game.terminated

\* A thread that ends a game empties both lists before it posts, so neither
\* thread finds the game again and posts its result a second time.  That both
\* threads post it, once each, does happen (client.h:297-302 has it posted by
\* the thread whose move ends the game).
AtMostOnePostEach ==
  \A i, j \in DOMAIN posts : posts[i][1] = posts[j][1] => i = j

(***************************************************************************)
(* Progress, once the clients send nothing new.                            *)
(***************************************************************************)
ClientsFallSilent == <>[][\A s \in Sides : ~Lookup(s)]_vars

\* A request that was received is answered with ACK or NACK.
EveryRequestAnswered ==
  ClientsFallSilent => \A s \in Sides : (pc[s] # "idle") ~> (pc[s] = "idle")

\* The result of a game that has ended reaches player_post_result.
EndedGamePosted ==
  ClientsFallSilent => (game.terminated ~> posts # <<>>)

=============================================================================
