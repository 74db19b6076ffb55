------------------------------ MODULE DtmfAudio ------------------------------
(***************************************************************************)
(* The Sun audio format of the DTMF program (hw1, audio.c).                *)
(*                                                                         *)
(* A stream is the sequence of the bytes that fgetc has still to return;   *)
(* past its end fgetc returns EOF.  A 32-bit word of the header is the     *)
(* sequence of its four bytes, the most significant one first.             *)
(***************************************************************************)
EXTENDS Integers, Sequences, SequencesExt

AUDIO_MAGIC == <<46, 115, 110, 100>>
AUDIO_DATA_OFFSET == 24
PCM16_ENCODING == 3
AUDIO_FRAME_RATE == 8000
AUDIO_CHANNELS == 1

EOF == -1

(* A small number as a header word. *)
Word(n) == <<n \div 16777216, (n \div 65536) % 256, (n \div 256) % 256, n % 256>>

(* The value of a header word, for words below 2^24. *)
Value(w) == w[2] * 65536 + w[3] * 256 + w[4]

-----------------------------------------------------------------------------
(* traverse_audio_file_header.  Each of the four calls of fgetc is XORed   *)
(* into the word, which is shifted between them.  EOF is not tested: as an *)
(* unsigned word it has every bit set, so it inverts all that was read.    *)

XorInto(w, c) == IF c = EOF THEN [i \in 1..4 |-> 255 - w[i]] ELSE [w EXCEPT ![4] = c]

ShiftLeft8(w) == <<w[2], w[3], w[4], 0>>

fgetc(s, i) == IF i <= Len(s) THEN s[i] ELSE EOF

traverse_audio_file_header(s, i) ==
  LET w1 == ShiftLeft8(XorInto(<<0, 0, 0, 0>>, fgetc(s, i)))
      w2 == ShiftLeft8(XorInto(w1, fgetc(s, i + 1)))
      w3 == ShiftLeft8(XorInto(w2, fgetc(s, i + 2)))
  IN  XorInto(w3, fgetc(s, i + 3))

check_audio_headerWithoutChannels(w) ==
  /\ w[1] = AUDIO_MAGIC
  /\ w[2][1] > 0 \/ Value(w[2]) >= AUDIO_DATA_OFFSET
  /\ w[4] = Word(PCM16_ENCODING)
  /\ w[5] = Word(AUDIO_FRAME_RATE)

(* The six fields are read in order whatever they hold, and the size of    *)
(* the data is not looked at.                                              *)
check_audio_header(w) ==
  /\ w[1] = AUDIO_MAGIC
  /\ w[2][1] > 0 \/ Value(w[2]) >= AUDIO_DATA_OFFSET
  /\ w[4] = Word(PCM16_ENCODING)
  /\ w[5] = Word(AUDIO_FRAME_RATE)
  /\ w[6] = Word(AUDIO_CHANNELS)

(* What is left of the stream after the annotation is skipped, for an      *)
(* annotation that does not reach 2^24 bytes.                              *)
audio_read_header(s) ==
  LET w == [k \in 1..6 |-> traverse_audio_file_header(s, 4 * k - 3)]
  IN  IF check_audio_header(w)
      THEN [ret |-> 0, rest |-> SubSeq(s, Value(w[2]) + 1, Len(s))]
      ELSE [ret |-> EOF, rest |-> SubSeq(s, 25, Len(s))]

(* audio_write_header, with the header that dtmf_generate fills in.        *)
audio_write_header(data_size) ==
  AUDIO_MAGIC \o Word(AUDIO_DATA_OFFSET) \o data_size
  \o Word(PCM16_ENCODING) \o Word(AUDIO_FRAME_RATE) \o Word(AUDIO_CHANNELS)

-----------------------------------------------------------------------------
(* A sample is a signed 16-bit value, the most significant byte first.     *)

Signed16(n) == ((n + 32768) % 65536) - 32768

audio_write_sample(sample) ==
  <<(sample % 65536) \div 256, (sample % 65536) % 256>>

audio_read_sampleKeepsSample(s, sample) ==
  IF Len(s) < 2 THEN [ret |-> EOF, sample |-> sample, rest |-> <<>>]
  ELSE [ret |-> 0, sample |-> Signed16(s[1] * 256 + s[2]), rest |-> SubSeq(s, 3, Len(s))]

(* At the end of the stream the sample becomes -1; a stream that ends      *)
(* after the first byte leaves it as it was.                               *)
audio_read_sample(s, sample) ==
  CASE s = <<>>   -> [ret |-> EOF, sample |-> -1, rest |-> <<>>]
    [] Len(s) = 1 -> [ret |-> EOF, sample |-> sample, rest |-> <<>>]
    [] OTHER      -> [ret |-> 0, sample |-> Signed16(s[1] * 256 + s[2]),
                      rest |-> SubSeq(s, 3, Len(s))]

=============================================================================
