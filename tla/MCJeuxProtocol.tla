--------------------------- MODULE MCJeuxProtocol ----------------------------
(* Three packets of three threads: with no payload, and with payloads that    *)
(* do and do not fit into the socket together with a header.                *)
EXTENDS JeuxProtocol

CONSTANTS p1, p2, p3

MCPayloadSize == p1 :> 2 @@ p2 :> 0 @@ p3 :> 3

=============================================================================
