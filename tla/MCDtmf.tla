------------------------------- MODULE MCDtmf --------------------------------
(* Values for the constants of Dtmf: every kind of argument, event lines    *)
(* on both sides of the duration, and headers that are whole, cut short or  *)
(* damaged in one byte.                                                     *)
EXTENDS Dtmf

MCTokens ==
  {<<"-", c>> : c \in {"h", "g", "d", "t", "l", "n", "b"}}
  \union {<<"1">>, <<"-", "1">>, <<"1", "0">>, <<"-">>, <<>>, <<"x">>, <<"-", "g", "g">>,
          <<"2", "6", "8", "4", "3", "5", "4", "5", "5">>,
          <<"2", "6", "8", "4", "3", "5", "4", "5", "6">>, <<"n", ".", "a", "u">>}

MCLines ==
  {<<NUMERALS[s + 1], "\t", NUMERALS[e + 1], "\t", c, "\n">> :
     s \in {0, 2, 8}, e \in {0, 2, 5, 9}, c \in {"5", "?"}}
  \union {<<"2", "\t", "1", "0", "\t", "D", "\n">>, <<"x", "\n">>, <<"9", "\n">>, <<"9">>}

MCHeader == audio_write_header(Word(16))

MCStreams ==
  {SubSeq(MCHeader, 1, k) : k \in 0..24}
  \union {[MCHeader EXCEPT ![k] = b] : k \in 1..24, b \in {0, 23, 32, 255}}

=============================================================================
