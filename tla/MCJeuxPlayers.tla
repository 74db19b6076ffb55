--------------------------- MODULE MCJeuxPlayers ---------------------------
(***************************************************************************)
(* Values for the constants of JeuxPlayers.                                *)
(***************************************************************************)
EXTENDS JeuxPlayers, TLC

CONSTANTS c1, c2, c3, c4, ann, bob, eve

FourClients == {c1, c2, c3, c4}
ThreeNames  == {ann, bob, eve}

\* Clients and names are only ever compared.
FourClientsThreeNames == Permutations(FourClients) \cup Permutations(ThreeNames)
=============================================================================
