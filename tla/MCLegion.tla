------------------------------ MODULE MCLegion ------------------------------
(***************************************************************************)
(* Legion for TLC: two daemons, a few processes and three log versions.    *)
(* An earlier session has left any files of one daemon and none of the     *)
(* other.                                                                  *)
(***************************************************************************)
EXTENDS Legion, TLC

CONSTANTS d1, d2

TwoNames == {d1, d2}

OneOld == Init /\ logs[d2] = {}
OneOldSpec == OneOld /\ [][Next]_vars /\ Fairness

=============================================================================
