----------------------------- MODULE DtmfDetect ------------------------------
(***************************************************************************)
(* The detector of the DTMF program (hw1, dtmf_detect in dtmf.c).          *)
(*                                                                         *)
(* The Goertzel filters are floating-point computations and are left out:  *)
(* what they find in a block is an outcome, the row and the column whose   *)
(* strength stands out by 6 dB from the others of its group (or None), and *)
(* whether the block passes the test for a DTMF tone, which takes both.    *)
(***************************************************************************)
EXTENDS DtmfAudio, FiniteSets, FiniteSetsExt

CONSTANTS
  Streams,    \* the beginnings of audio files, as sequences of bytes
  Rows, Cols, \* the row and column tones that occur, as dtmf_detect numbers them
  MinSamples, \* MIN_DTMF_DURATION in samples: 240
  IdxRange,   \* number of values of an int16_t: 65536
  MaxBlocks   \* bound: blocks of an audio file

Bytes == 0..255

ASSUME DetectAssumption ==
  Streams \subseteq Seq(Bytes) /\ IdxRange \in Nat \ {0} /\ MinSamples \in Nat \ {0}

None == -1
NoTone == <<None, None>>

VARIABLES
  dat,        \* "idle", "blocks" or "returned"
  N,          \* block_size
  stream,     \* the bytes at which the stream was last looked at: the header's, then a sample's
  curBlockSize, EOF_NOT_FOUND,
  curIdx, startIdx, endIdx,
  prevTone,   \* prevRowTone and prevColTone
  curRowTone, curColTone,
  lines,      \* the lines printed when a tone gave way to another
  last,       \* the line printed at the end, if any
  heard,      \* the tone of each block processed, or NoTone
  total,      \* samples read that the stream held
  dret        \* what dtmf_detect returned

detVars == <<dat, N, stream, curBlockSize, EOF_NOT_FOUND, curIdx, startIdx, endIdx,
             prevTone, curRowTone, curColTone, lines, last, heard, total, dret>>

DetInit ==
  /\ dat = "idle" /\ N = 0 /\ stream = <<>>
  /\ curBlockSize = 0 /\ EOF_NOT_FOUND = TRUE
  /\ curIdx = 0 /\ startIdx = 0 /\ endIdx = 0
  /\ prevTone = NoTone /\ curRowTone = -1 /\ curColTone = -1
  /\ lines = <<>> /\ last = <<>> /\ heard = <<>> /\ total = 0 /\ dret = 0

(* Conversion to int16_t. *)
Idx(n) == ((n + IdxRange \div 2) % IdxRange) - IdxRange \div 2

Outcomes ==
  {o \in [row : Rows \union {None}, col : Cols \union {None}, dtmf : BOOLEAN] :
     o.dtmf => o.row # None /\ o.col # None}

-----------------------------------------------------------------------------
(* The call: the header is read, and refused or skipped. *)
Detect(blockSize, s) ==
  /\ dat = "idle"
  /\ N' = blockSize /\ stream' = s
  /\ IF audio_read_header(s).ret = EOF THEN dat' = "returned" /\ dret' = EOF
     ELSE dat' = "blocks" /\ UNCHANGED dret
  /\ UNCHANGED <<curBlockSize, EOF_NOT_FOUND, curIdx, startIdx, endIdx, prevTone,
                 curRowTone, curColTone, lines, last, heard, total>>

(* The first N - 1 samples of a block are read up to the first that is -1, *)
(* the last one in any case.  "cut" is the index of the sample at which    *)
(* reading stops, and "tail" is what the stream held there:                *)
(* audio_read_sample leaves -1 at the end of the file, and for the bytes   *)
(* of a sample that is -1.  A block that begins at the end of the file is  *)
(* cut at once.                                                            *)
Reads ==
  IF Len(heard) = MaxBlocks \/ Len(stream) < 2 THEN {<<0, <<>>>>}
  ELSE {0, 1, N - 4, N - 3, N - 2, N - 1} \X {<<>>, <<0>>, <<0, 255>>, <<255, 255>>}

ReadBlock(cut, tail) ==
  /\ dat = "blocks"
  /\ cut < N - 1 => audio_read_sample(tail, 0).sample = -1
  /\ EOF_NOT_FOUND' = (cut = N - 1)
  /\ stream' = tail
  /\ total' = total + cut + IF Len(tail) < 2 THEN 0 ELSE 1
  /\ UNCHANGED N

SizeAfter(cut) == curBlockSize + IF cut < N - 1 THEN cut + 1 ELSE N - 1

(* After the loop: an event that is not over is printed if its end is      *)
(* positive, with the tone that stood out last in each group.              *)
Finish(end, row, col) ==
  /\ dat' = "returned" /\ dret' = 0
  /\ last' = IF end > 0 THEN <<[start |-> startIdx', end |-> end, sym |-> row + col]>>
             ELSE <<>>

(* A block that ends too early leaves the loop.  The count of the first    *)
(* block starts from 0 and that of the others from 1.                      *)
ShortBlock(cut, tail) ==
  /\ ReadBlock(cut, tail)
  /\ SizeAfter(cut) < N - 1
  /\ curBlockSize' = SizeAfter(cut)
  /\ UNCHANGED <<curIdx, startIdx, endIdx, prevTone, curRowTone, curColTone, lines, heard>>
  /\ Finish(endIdx, curRowTone, curColTone)

(* What a tone in the block that ends at idx does to the current event. *)
FirstTone(tone) ==
  /\ prevTone = NoTone
  /\ prevTone' = tone
  /\ UNCHANGED <<startIdx, endIdx, lines>>

SameTone(tone, idx) ==
  /\ prevTone = tone
  /\ endIdx' = idx
  /\ UNCHANGED <<startIdx, prevTone, lines>>

OtherToneFromNextBlock(tone, idx) ==
  /\ prevTone \notin {NoTone, tone}
  /\ lines' = IF endIdx - startIdx >= MinSamples
              THEN Append(lines, [start |-> startIdx, end |-> endIdx,
                                  sym |-> prevTone[1] + prevTone[2]])
              ELSE lines
  /\ prevTone' = tone
  /\ startIdx' = idx /\ endIdx' = idx

OtherTone(tone, idx) ==
  /\ prevTone \notin {NoTone, tone}
  /\ lines' = IF endIdx - startIdx >= MinSamples
              THEN Append(lines, [start |-> startIdx, end |-> endIdx,
                                  sym |-> prevTone[1] + prevTone[2]])
              ELSE lines
  /\ prevTone' = tone
  /\ startIdx' = Idx(idx - N) /\ endIdx' = idx

(* A block long enough to be analysed, one more sample being read for it.  *)
(* A block without a tone does not touch the event, but may still change   *)
(* the row or the column that is printed at the end.                       *)
Block(cut, tail, o) ==
  LET idx == Idx(curIdx + N)
      tone == IF o.dtmf THEN <<o.row, o.col>> ELSE NoTone IN
  /\ ReadBlock(cut, tail)
  /\ SizeAfter(cut) >= N - 1
  /\ curBlockSize' = 1
  /\ curIdx' = idx
  /\ curRowTone' = IF o.row = None THEN curRowTone ELSE o.row
  /\ curColTone' = IF o.col = None THEN curColTone ELSE o.col
  /\ heard' = Append(heard, tone)
  /\ IF tone = NoTone THEN UNCHANGED <<startIdx, endIdx, prevTone, lines>>
     ELSE FirstTone(tone) \/ SameTone(tone, idx) \/ OtherTone(tone, idx)
  /\ IF EOF_NOT_FOUND' THEN UNCHANGED <<dat, dret, last>>
     ELSE Finish(endIdx', curRowTone', curColTone')

dtmf_detect ==
  \E r \in Reads :
    ShortBlock(r[1], r[2]) \/ \E o \in Outcomes : Block(r[1], r[2], o)

-----------------------------------------------------------------------------
(* The events of the audio by the comment of dtmf_detect: a tone heard in  *)
(* successive blocks, from the beginning of the first of them to that of   *)
(* the block in which it is not heard, or to the end of the audio.  An     *)
(* event is named by its first block.                                      *)
Starts == {k \in DOMAIN heard : heard[k] # NoTone /\ (k > 1 => heard[k - 1] # heard[k])}

LastBlock(k) == Max({m \in k..Len(heard) : \A j \in k..m : heard[j] = heard[k]})

Event(k) ==
  [start |-> (k - 1) * N,
   end   |-> IF LastBlock(k) = Len(heard) THEN total ELSE LastBlock(k) * N,
   sym   |-> heard[k][1] + heard[k][2]]

Duration(k) == Event(k).end - Event(k).start
LongEvents == {k \in Starts : Duration(k) >= MinSamples}

(* The audio in which the code keeps what the comment says.  It takes a    *)
(* first block with a tone, since the index of the first event starts at   *)
(* 0, and gives that event no end if it has only one block; no tone that   *)
(* comes back after silence, which does not end an event; no long event    *)
(* with a wrap-around of the indices inside; a last event that is long     *)
(* and ends above 0, since the last line is printed whenever its end is;   *)
(* and a last block that is whole, if the last event reaches it.           *)
AsDescribed ==
  /\ Starts # {} =>
       /\ 1 \in Starts /\ (LastBlock(1) = 1 => 1 \notin LongEvents)
       /\ Max(Starts) \in LongEvents /\ Idx(Event(Max(Starts)).end) > 0
       /\ heard[Len(heard)] # NoTone => total = Len(heard) * N
  /\ \A j, k \in Starts : j < k /\ heard[j] = heard[k] =>
       \E i \in j..k : heard[i] \notin {NoTone, heard[k]}
  /\ \A k \in LongEvents : Idx(Event(k).end) - Idx(Event(k).start) = Duration(k)

(* What dtmf_detect has printed when it has read such audio to its end is  *)
(* the events that last MIN_DTMF_DURATION, in order, each with its indices *)
(* (as far as 16 bits tell them) and its symbol; the last one's symbol can *)
(* be wrong if silence follows it.  This holds through the wrap-around of  *)
(* the indices and silence between different tones.                        *)
EventsReported ==
  (dat = "returned" /\ dret = 0 /\ stream = <<>> /\ AsDescribed) =>
    LET printed == lines \o last IN
    /\ Len(printed) = Cardinality(LongEvents)
    /\ \A k \in LongEvents :
         LET line == printed[Cardinality({j \in LongEvents : j <= k})] IN
         /\ Idx(line.start) = Idx(Event(k).start) /\ Idx(line.end) = Idx(Event(k).end)
         /\ k # Max(Starts) \/ heard[Len(heard)] # NoTone => line.sym = Event(k).sym

(* A whole header, field by field. *)
ValidHeader(s) ==
  /\ Len(s) >= 24
  /\ SubSeq(s, 1, 4) = AUDIO_MAGIC
  /\ s[5] > 0 \/ Value(SubSeq(s, 5, 8)) >= AUDIO_DATA_OFFSET
  /\ SubSeq(s, 13, 16) = Word(PCM16_ENCODING)
  /\ SubSeq(s, 17, 20) = Word(AUDIO_FRAME_RATE)
  /\ SubSeq(s, 21, 24) = Word(AUDIO_CHANNELS)

(* audio_read_header accepts exactly the streams that begin with a whole   *)
(* valid header: one that ends early is refused although the end of the    *)
(* file is never tested for, since EOF inverts the word it falls in.       *)
HeaderChecked ==
  /\ dat = "blocks" /\ curBlockSize = 0 => ValidHeader(stream)
  /\ dret = EOF => ~ValidHeader(stream)

=============================================================================
