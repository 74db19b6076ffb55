--------------------------- MODULE MCJeuxRatings ---------------------------
(***************************************************************************)
(* Values for the constants of JeuxRatings.                                *)
(***************************************************************************)
EXTENDS JeuxRatings

\* Games at the same time: t1 ends games of ann and bob, t2 games of eve with
\* dan and with ann.
FourPlayers == {"ann", "bob", "eve", "dan"}
TwoThreads  == {"t1", "t2"}
TwoTables   == [t \in TwoThreads |->
                  IF t = "t1" THEN {<<"ann", "bob">>}
                  ELSE {<<"eve", "dan">>, <<"eve", "ann">>}]

\* Enough results of ann and bob to take them more than 400 points apart.
TablePosts == [t \in TwoThreads |-> IF t = "t1" THEN 14 ELSE 1]
=============================================================================
