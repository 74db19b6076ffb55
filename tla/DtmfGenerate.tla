---------------------------- MODULE DtmfGenerate -----------------------------
(***************************************************************************)
(* The generator of the DTMF program (hw1, dtmf_generate in dtmf.c).       *)
(*                                                                         *)
(* A line of the event file is a sequence of characters.  The samples are  *)
(* not computed: the output is the list of the loops that wrote them, each *)
(* with the indices it ran over, the pair of frequencies it synthesised,   *)
(* and the position in the output at which it began.                       *)
(***************************************************************************)
EXTENDS DtmfAudio

CONSTANTS
  Lines,      \* the lines an event file is made of
  MaxLines    \* bound: lines of an event file

VARIABLES
  gat,        \* "idle", "lines" or "returned"
  length,     \* the parameter: samples to be written
  noise,      \* whether a noise file is mixed in
  prevStrIdx, prevEndIdx, prevValChangeOnce,
  out,        \* the loops that wrote samples
  written,    \* samples in the output
  events,     \* the events taken from the lines
  gret        \* what dtmf_generate returned

genVars == <<gat, length, noise, prevStrIdx, prevEndIdx, prevValChangeOnce,
             out, written, events, gret>>

GenInit ==
  /\ gat = "idle" /\ length = 0 /\ noise = FALSE
  /\ prevStrIdx = -1 /\ prevEndIdx = -1 /\ prevValChangeOnce = TRUE
  /\ out = <<>> /\ written = 0 /\ events = <<>> /\ gret = 0

-----------------------------------------------------------------------------
NUMERALS == <<"0", "1", "2", "3", "4", "5", "6", "7", "8", "9">>

(* Characters from position i up to the first that is no digit. *)
DigitsFrom(line, i) ==
  LET stop == CHOOSE j \in i..(Len(line) + 1) :
                /\ j > Len(line) \/ line[j] \notin ToSet(NUMERALS)
                /\ \A k \in i..(j - 1) : k <= Len(line) /\ line[k] \in ToSet(NUMERALS)
  IN  SubSeq(line, i, stop - 1)

(* get_txt_idx: the number that starts at position i, zero if none does,   *)
(* and the number of its digits.                                           *)
get_txt_idx(line, i) ==
  LET ds == IF i > Len(line) THEN <<>> ELSE DigitsFrom(line, i) IN
  [val   |-> FoldLeft(LAMBDA acc, c : acc * 10 + CHOOSE d \in 0..9 : NUMERALS[d + 1] = c,
                      0, ds),
   count |-> Len(ds)]

Silence == <<>>

(* getCurFreqColRow: the row and the column frequency of a symbol.  Any    *)
(* other character gets <<0, 0>>, which is a constant and not silence.     *)
getCurFreqColRow(c) ==
  LET keypad == << <<"1", "2", "3", "A">>, <<"4", "5", "6", "B">>,
                   <<"7", "8", "9", "C">>, <<"*", "0", "#", "D">> >>
      rows == <<697, 770, 852, 941>>
      cols == <<1209, 1336, 1477, 1633>>
      keys == {rc \in (1..4) \X (1..4) : keypad[rc[1]][rc[2]] = c}
  IN  IF keys = {} THEN <<0, 0>>
      ELSE LET rc == CHOOSE k \in keys : TRUE IN <<rows[rc[1]], cols[rc[2]]>>

NUL == "NUL"

(* line_buf after fgets: the line, NUL, and what an earlier line left      *)
(* behind that, or zeros at first.                                         *)
LineBuf(line, old) == line \o <<NUL>> \o SubSeq(old, Len(line) + 2, Len(old))

(* The two indices and the symbol of a line: each field starts one         *)
(* character after the digits before it, whatever that character is.  The  *)
(* fields missing on a short line come from behind the NUL.                *)
ParseLine(buf) ==
  LET s == get_txt_idx(buf, 1)
      e == get_txt_idx(buf, s.count + 2)
      at == s.count + e.count + 3
  IN  [start |-> s.val, end |-> e.val,
       tone |-> getCurFreqColRow(IF at <= Len(buf) THEN buf[at] ELSE NUL)]

(* What the lines of an event file can be taken for, the first one and the *)
(* ones that follow another; which of the lines before it is not recorded. *)
FirstEvents == {ParseLine(LineBuf(line, <<>>)) : line \in Lines}
NextEvents == {ParseLine(LineBuf(line, old)) : line \in Lines, old \in Lines \union {<<>>}}

(* The numbers on the lines fit in an int. *)
ASSUME LinesAssumption == \A ev \in NextEvents : ev.start \in Nat /\ ev.end \in Nat

-----------------------------------------------------------------------------
(* The loop for(i = from; i < to; i++) that writes one sample a turn.      *)
Loop(pos, from, to, tone, mixed) ==
  IF from < to
  THEN <<[pos |-> pos, from |-> from, to |-> to, tone |-> tone, noise |-> mixed]>>
  ELSE <<>>

Turns(from, to) == IF from < to THEN to - from ELSE 0

(* The call: a noise file that cannot be opened ends it before anything is *)
(* written; otherwise the header is written.                               *)
Generate(len, file) ==
  /\ gat = "idle"
  /\ length' = len
  /\ \/ /\ file
        /\ gat' = "returned" /\ gret' = EOF
        /\ UNCHANGED noise
     \/ gat' = "lines" /\ noise' = file /\ UNCHANGED gret
  /\ UNCHANGED <<prevStrIdx, prevEndIdx, prevValChangeOnce, out, written, events>>

Fail == gat' = "returned" /\ gret' = EOF

(* An event that is refused, with what was written before it left behind:  *)
(* it ends before it starts, or it starts before the one before it ended.  *)
RefuseEvent(ev) ==
  /\ gat = "lines"
  /\ \/ ev.end < ev.start
     \/ prevStrIdx # -1 /\ prevEndIdx # -1 /\ ev.start < prevEndIdx
  /\ Fail
  /\ UNCHANGED <<length, noise, prevStrIdx, prevEndIdx, prevValChangeOnce, out, written, events>>

TakeEventWithoutFirstGap(ev) ==
  LET known == prevStrIdx # -1 /\ prevEndIdx # -1
      gapFrom == IF known THEN prevEndIdx ELSE ev.start
      toneAt == written + Turns(gapFrom, ev.start) IN
  /\ gat = "lines"
  /\ ev.start <= ev.end
  /\ known => prevEndIdx <= ev.start
  /\ out' = out \o Loop(written, gapFrom, ev.start, Silence, noise)
                \o Loop(toneAt, ev.start, ev.end, ev.tone, noise)
  /\ written' = toneAt + Turns(ev.start, ev.end)
  /\ prevStrIdx' = ev.start /\ prevEndIdx' = ev.end
  /\ events' = Append(events, ev)
  /\ UNCHANGED <<gat, length, noise, prevValChangeOnce, gret>>

(* An event that is taken: the gap before it and then its tone.  Before    *)
(* the first event the two indices are -1, and are set to 0 only when the  *)
(* event does not start at once; otherwise there is no gap to fill.        *)
TakeEvent(ev) ==
  LET known == prevStrIdx # -1 /\ prevEndIdx # -1
      first == ~known /\ prevValChangeOnce /\ ev.start > 0
      gapFrom == IF known THEN prevEndIdx ELSE IF first THEN 0 ELSE ev.start
      toneAt == written + Turns(gapFrom, ev.start) IN
  /\ gat = "lines"
  /\ ev.start <= ev.end
  /\ known => prevEndIdx <= ev.start
  /\ prevValChangeOnce' = (prevValChangeOnce /\ ~first)
  /\ out' = out \o Loop(written, gapFrom, ev.start, Silence, noise)
                \o Loop(toneAt, ev.start, ev.end, ev.tone, noise)
  /\ written' = toneAt + Turns(ev.start, ev.end)
  /\ prevStrIdx' = ev.start /\ prevEndIdx' = ev.end
  /\ events' = Append(events, ev)
  /\ UNCHANGED <<gat, length, noise, gret>>

SamplesDueInBytes(len) ==
  2 * (IF len < 1073741824 THEN len ELSE (len - 1073741824) - 1073741824)

(* curDataSz: the size of the data, 2 * length as an unsigned word, kept   *)
(* in an int and halved; from 2^30 samples on it is negative.              *)
SamplesDue(len) == IF len < 1073741824 THEN len ELSE (len - 1073741824) - 1073741824

(* The end of the event file: silence, without noise, up to the length. *)
EndOfEvents ==
  /\ gat = "lines"
  /\ out' = out \o Loop(written, prevEndIdx, SamplesDue(length), Silence, FALSE)
  /\ written' = written + Turns(prevEndIdx, SamplesDue(length))
  /\ gat' = "returned" /\ gret' = 0
  /\ UNCHANGED <<length, noise, prevStrIdx, prevEndIdx, prevValChangeOnce, events>>

dtmf_generate ==
  \/ EndOfEvents
  \/ /\ Len(events) < MaxLines
     /\ \E ev \in IF events = <<>> THEN FirstEvents ELSE NextEvents :
          TakeEvent(ev) \/ RefuseEvent(ev)

-----------------------------------------------------------------------------
(* Whatever events are read, a sample is where its index says: every loop  *)
(* begins at the position of its first index, so no gap, overlap or shift  *)
(* arises between the loops.  Every event that is not empty has the loop   *)
(* that synthesises it, and silence is written over no event.  (With no    *)
(* event at all the last loop of dtmf_generate begins at -1.)              *)
SamplesInPlace ==
  events # <<>> =>
    /\ \A loop \in ToSet(out) :
         /\ loop.pos = loop.from
         /\ loop.tone = Silence =>
              \A ev \in ToSet(events) : ev.start = ev.end \/ ev.end <= loop.from \/ loop.to <= ev.start
    /\ \A ev \in ToSet(events) : ev.start < ev.end =>
         \E loop \in ToSet(out) :
           [start |-> loop.from, end |-> loop.to, tone |-> loop.tone] = ev

(* dtmf_generate returns 0 with exactly the samples asked for, whatever    *)
(* gaps and empty events there are, if there is an event and all end in    *)
(* time.  Nothing is said of 2^30 samples and more, where curDataSz turns  *)
(* negative, and of events that end late, which the code does not refuse.  *)
LengthWritten ==
  gat = "returned" /\ gret = 0 /\ events # <<>> /\ length < 1073741824
    /\ (\A ev \in ToSet(events) : ev.end <= length)
  => written = length

=============================================================================
