------------------------------ MODULE MCSfmm -------------------------------
(* Requests for TLC: a quick block, a block for the free lists and one     *)
(* that fills most of a page.                                              *)
EXTENDS Sfmm

MCSizes == {1, 200, 3800}
MCResizes == {0, 184}
MCFilled == {1, 184}

(* After trouble nothing is claimed, and no further call is explored. *)
NoTrouble == h.trouble = {}
=============================================================================
