----------------------------- MODULE MCFinddup ------------------------------
(***************************************************************************)
(* Finddup for TLC: three contents of two bytes and one that is shorter    *)
(* and no text.  The checksum of the first two is the same.  In three bits *)
(* the checksums 0 and 4, both of text files, are each less than the       *)
(* other, so that qsort may put two equal files on either side of a third  *)
(* one.                                                                    *)
(***************************************************************************)
EXTENDS Finddup

ThreeInodes == {1, 2, 3}

FourContents == {<<97, 98>>, <<98, 97>>, <<97, 97>>, <<200>>}

Checksums ==
  [c \in FourContents |-> CASE c = <<97, 98>> -> 0
                           [] c = <<98, 97>> -> 0
                           [] c = <<97, 97>> -> 4
                           [] c = <<200>>    -> 6]

=============================================================================
