--------------------------- MODULE MCJeuxClients ---------------------------
(***************************************************************************)
(* JeuxClients for TLC: three connections and a registry with room for two *)
(* (or three), so that a connection can be refused, register late, or find *)
(* the place of a departed one taken.                                      *)
(***************************************************************************)
EXTENDS JeuxClients, TLC

CONSTANTS c1, c2, c3

ThreeConns == {c1, c2, c3}
TwoConns == {c1, c2}

=============================================================================
