---------------------------- MODULE JeuxRatings ----------------------------
(***************************************************************************)
(* Ratings of the players of the Jeux server: player_post_result           *)
(* (hw5/src/player.c), called by the service thread that ends a game.      *)
(*                                                                         *)
(* The function locks one player at a time: it reads one rating, then the  *)
(* other, computes both new ratings, and writes one, then the other.  Each *)
(* lock section is an action, and posts of other games come in between.    *)
(***************************************************************************)
EXTENDS Integers, FiniteSets, FiniteSetsExt

CONSTANTS
  Players,
  Threads,
  Games,     \* Games[t]: pairs <<p1, p2>> whose games thread t may end
  MaxPosts   \* bound: MaxPosts[t] results posted by thread t

ASSUME RatingsAssumption ==
  /\ IsFiniteSet(Players) /\ IsFiniteSet(Threads)
  /\ MaxPosts \in [Threads -> Nat]
  /\ Games \in [Threads -> SUBSET (Players \X Players)]
  /\ \A t \in Threads : \A g \in Games[t] : g[1] # g[2]

PLAYER_INITIAL_RATING == 1500

VARIABLES
  rating,   \* rating[p]
  pc,       \* next step of each thread
  player1, player2, result,   \* arguments of its call
  R1, R2,   \* the ratings it has read
  posted,   \* number of calls of each thread so far
  raced,    \* history: a call began while another with one of its players ran
  sunk      \* history: a call has read two ratings whose sum was negative

args == <<player1, player2, result>>
vars == <<rating, pc, player1, player2, result, R1, R2, posted, raced, sunk>>

-----------------------------------------------------------------------------
(***************************************************************************)
(* The new rating, in exact arithmetic.  Scores are doubled (0, 1, 2).     *)
(* The quotient (R2 - R1)/400 is an integer division in C: it truncates    *)
(* towards zero.  With q its value, the expected score is 1/(1 + 10^q).    *)
(* The result is converted to int, which truncates too.                    *)
(***************************************************************************)
Quotient(n, d) == IF n >= 0 THEN n \div d ELSE -((-n) \div d)

ScoreOfLoser(r) == CASE r = 0 -> 1 [] r = 1 -> 0 [] OTHER -> 2

\* Doubled scores S1 and S2: 0 is a draw, 1 a win of player1.
Score1(r) == CASE r = 0 -> 1 [] r = 1 -> 2 [] OTHER -> 0
Score2(r) == 2 - Score1(r)

\* pow(10, q)
Pow10(q) == LET p[k \in 0..q] == IF k = 0 THEN 1 ELSE 10 * p[k - 1] IN p[q]

\* Numerator and denominator of 1/(1 + 10^q).
ExpectedNum(q) == IF q >= 0 THEN 1 ELSE Pow10(-q)
ExpectedDen(q) == IF q >= 0 THEN 1 + Pow10(q) ELSE 1 + Pow10(-q)

\* (R2-R1)/400, seen from the player whose rating is `own'.
Gap(own, other) == Quotient(other - own, 400)

\* R + 32*(S - E), truncated.
NewRating(own, other, score) ==
  LET q == Gap(own, other)
      d == ExpectedDen(q)
      n == ExpectedNum(q)
  IN  Quotient(own * d + 16 * score * d - 32 * n, d)

-----------------------------------------------------------------------------
Init ==
  /\ rating = [p \in Players |-> PLAYER_INITIAL_RATING]
  /\ pc = [t \in Threads |-> "idle"]
  /\ player1 = [t \in Threads |-> CHOOSE p \in Players : TRUE]
  /\ player2 = player1
  /\ result = [t \in Threads |-> 0]
  /\ R1 = [t \in Threads |-> 0]
  /\ R2 = R1
  /\ posted = [t \in Threads |-> 0] /\ raced = FALSE /\ sunk = FALSE

Goto(t, l) == pc' = [pc EXCEPT ![t] = l]

\* A game ends and its result is posted: the first lock section reads R1.
Read1(t) ==
  /\ pc[t] = "idle" /\ posted[t] < MaxPosts[t]
  /\ \E g \in Games[t], r \in 0..2 :
       /\ player1' = [player1 EXCEPT ![t] = g[1]]
       /\ player2' = [player2 EXCEPT ![t] = g[2]]
       /\ result' = [result EXCEPT ![t] = r]
       /\ R1' = [R1 EXCEPT ![t] = rating[g[1]]]
       /\ raced' = (raced \/ \E u \in Threads \ {t} :
                      pc[u] # "idle" /\ {player1[u], player2[u]} \cap {g[1], g[2]} # {})
  /\ posted' = [posted EXCEPT ![t] = @ + 1]
  /\ Goto(t, "read2")
  /\ UNCHANGED <<rating, R2, sunk>>

Read2(t) ==
  /\ pc[t] = "read2"
  /\ R2' = [R2 EXCEPT ![t] = rating[player2[t]]]
  /\ sunk' = (sunk \/ R1[t] + rating[player2[t]] < 0)
  /\ Goto(t, "write1")
  /\ UNCHANGED <<rating, args, R1, posted, raced>>

newR1(t) == NewRating(R1[t], R2[t], Score1(result[t]))
newR2(t) == NewRating(R2[t], R1[t], Score2(result[t]))

Write1(t) ==
  /\ pc[t] = "write1"
  /\ rating' = [rating EXCEPT ![player1[t]] = newR1(t)]
  /\ Goto(t, "write2")
  /\ UNCHANGED <<args, R1, R2, posted, raced, sunk>>

WriteFirstAgain(t) ==
  /\ pc[t] = "write2"
  /\ rating' = [rating EXCEPT ![player1[t]] = newR2(t)]
  /\ Goto(t, "idle")
  /\ UNCHANGED <<args, R1, R2, posted, raced, sunk>>

Write2(t) ==
  /\ pc[t] = "write2"
  /\ rating' = [rating EXCEPT ![player2[t]] = newR2(t)]
  /\ Goto(t, "idle")
  /\ UNCHANGED <<args, R1, R2, posted, raced, sunk>>

Next == \E t \in Threads : Read1(t) \/ Read2(t) \/ Write1(t) \/ Write2(t)

Spec == Init /\ [][Next]_vars

-----------------------------------------------------------------------------
Total == MapThenSumSet(LAMBDA p : rating[p], Players)
Results == MapThenSumSet(LAMBDA t : posted[t], Threads)

InitialTotal == PLAYER_INITIAL_RATING * Cardinality(Players)

\* What one game gives to the winner it takes from the loser, up to the point
\* that the conversions to int may cost: between posts the sum of all ratings
\* is the initial one, less at most one for every result.  Truncation makes a
\* negative rating greater, and only then a result can add a point.  Results of
\* disjoint pairs may be posted at the same time; a call that overlaps another
\* of one of its players loses an update, and nothing is claimed after that.
TotalPreserved ==
  ~raced /\ (\A t \in Threads : pc[t] = "idle") =>
     /\ Total >= InitialTotal - Results
     /\ Total <= IF sunk THEN InitialTotal + Results ELSE InitialTotal

\* A player never loses points by winning or gains any by losing, however far
\* the ratings have drifted apart.
WinnerNeverLoses ==
  \A t \in Threads : pc[t] = "write1" =>
    /\ result[t] = 1 => newR1(t) >= R1[t] /\ newR2(t) <= R2[t]
    /\ result[t] = 2 => newR1(t) <= R1[t] /\ newR2(t) >= R2[t]

=============================================================================
