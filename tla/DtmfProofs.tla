----------------------------- MODULE DtmfProofs ------------------------------
(***************************************************************************)
(* Proofs about Dtmf, for command lines of any tokens, event files of any  *)
(* length with any lines, any duration and audio files of any length.      *)
(*                                                                         *)
(* The generator: between two lines the output ends where the last event   *)
(* ends, written = prevEndIdx.  The indices -1 that stand for "no event    *)
(* yet" are the case in which this fails.                                  *)
(*                                                                         *)
(* The header: each byte is XORed into a word whose last byte is zero, so  *)
(* EOF, which is -1, leaves 255 there, and no field accepts such a word.   *)
(*                                                                         *)
(* validargs: a character left over from the argument before is the mode   *)
(* or a flag that was given already, so it is never accepted.              *)
(*                                                                         *)
(* The detector: the variables describe the last run of the tones heard,   *)
(* and the lines are the events of the runs before it.  Runs are what the  *)
(* code tracks; where no tone comes back after silence they begin and end  *)
(* where the events of the comment do.                                     *)
(***************************************************************************)
EXTENDS Dtmf, FiniteSetTheorems, NaturalsInduction, WellFoundedInduction, TLAPS

EventSet == NextEvents

LoopSet == [pos : Int, from : Int, to : Int, tone : {Silence} \union {ev.tone : ev \in EventSet},
            noise : BOOLEAN]

GenTypeOK ==
  /\ gat \in {"idle", "lines", "returned"}
  /\ length \in Int /\ noise \in BOOLEAN
  /\ prevStrIdx \in Int /\ prevEndIdx \in Int /\ written \in Int
  /\ events \in Seq(EventSet) /\ out \in Seq(LoopSet)

\* The output ends where the last event ends.
OutputAtEvent ==
  /\ gat = "idle" \/ (gat = "lines" /\ events = <<>>) =>
       /\ events = <<>> /\ out = <<>> /\ written = 0
       /\ prevStrIdx = -1 /\ prevEndIdx = -1 /\ prevValChangeOnce = TRUE
  /\ gat = "lines" /\ events # <<>> =>
       prevStrIdx >= 0 /\ prevEndIdx >= 0 /\ written = prevEndIdx

\* That is where some event ends.
LastEventEnds ==
  events # <<>> => \E ev \in ToSet(events) : ev.end = prevEndIdx

\* Nothing reaches beyond it.
NothingBeyond ==
  /\ \A ev \in ToSet(events) : ev.end <= prevEndIdx
  /\ \A loop \in ToSet(out) : loop.to <= written

\* The duration of the command line is a number.
ArgsTyped ==
  /\ "t" \in DOMAIN par /\ par.t \in Int
  /\ "audio_samples" \in DOMAIN opts /\ opts.audio_samples \in Int

GenInv == GenTypeOK /\ OutputAtEvent /\ LastEventEnds /\ NothingBeyond /\ SamplesInPlace /\ LengthWritten

-----------------------------------------------------------------------------
\* The elements of a sequence that grows.
LEMMA ToSetConcat ==
  ASSUME NEW S, NEW s \in Seq(S), NEW t \in Seq(S)
  PROVE  ToSet(s \o t) = ToSet(s) \union ToSet(t)
  <1>1. DOMAIN s = 1..Len(s) /\ DOMAIN t = 1..Len(t) /\ Len(s) \in Nat /\ Len(t) \in Nat
    OBVIOUS
  <1>2. DOMAIN (s \o t) = 1..(Len(s) + Len(t))
    OBVIOUS
  <1>3. \A i \in 1..(Len(s) + Len(t)) :
          (s \o t)[i] = IF i <= Len(s) THEN s[i] ELSE t[i - Len(s)]
    OBVIOUS
  <1>4. ASSUME NEW x \in ToSet(s \o t) PROVE x \in ToSet(s) \union ToSet(t)
    <2>1. PICK i \in 1..(Len(s) + Len(t)) : x = (s \o t)[i]
      BY <1>2 DEF ToSet
    <2>2. CASE i <= Len(s)
      BY <1>1, <1>3, <2>1, <2>2 DEF ToSet
    <2>3. CASE i > Len(s)
      <3>1. x = t[i - Len(s)] /\ i - Len(s) \in DOMAIN t
        BY <1>1, <1>3, <2>1, <2>3
      <3> QED BY <3>1 DEF ToSet
    <2> QED BY <1>1, <2>2, <2>3
  <1>5. ASSUME NEW x \in ToSet(s) PROVE x \in ToSet(s \o t)
    <2>1. PICK i \in DOMAIN s : x = s[i]
      BY DEF ToSet
    <2>2. i \in DOMAIN (s \o t) /\ (s \o t)[i] = x
      BY <1>1, <1>2, <1>3, <2>1
    <2> QED BY <2>2 DEF ToSet
  <1>6. ASSUME NEW x \in ToSet(t) PROVE x \in ToSet(s \o t)
    <2>1. PICK i \in DOMAIN t : x = t[i]
      BY DEF ToSet
    <2>2. i + Len(s) \in DOMAIN (s \o t) /\ (s \o t)[i + Len(s)] = x
      BY <1>1, <1>2, <1>3, <2>1
    <2> QED BY <2>2 DEF ToSet
  <1> QED BY <1>4, <1>5, <1>6

\* The element of a sequence of one element.
LEMMA ToSetSingle == ASSUME NEW x PROVE ToSet(<<x>>) = {x}
  BY DEF ToSet

\* As above, for the empty sequence.
LEMMA ToSetEmpty == ToSet(<<>>) = {}
  BY DEF ToSet

\* As above, for Append.
LEMMA ToSetAppend ==
  ASSUME NEW S, NEW s \in Seq(S), NEW x \in S
  PROVE  ToSet(Append(s, x)) = ToSet(s) \union {x}
  <1>1. Append(s, x) = s \o <<x>>
    OBVIOUS
  <1>2. <<x>> \in Seq(S)
    OBVIOUS
  <1>3. ToSet(s \o <<x>>) = ToSet(s) \union ToSet(<<x>>)
    BY <1>2, ToSetConcat
  <1> QED BY <1>1, <1>3, ToSetSingle

\* A tone is a pair of frequencies, and never silence.
LEMMA TonesSound == \A ev \in EventSet : ev.tone # Silence
  <1> SUFFICES ASSUME NEW buf PROVE ParseLine(buf).tone # Silence
    BY DEF EventSet, NextEvents
  <1>1. \A c : getCurFreqColRow(c) # <<>>
    BY DEF getCurFreqColRow
  <1> QED BY <1>1 DEF ParseLine, Silence

\* The first line is one of those that may follow another.
LEMMA FirstIsNext == FirstEvents \subseteq NextEvents
  BY DEF FirstEvents, NextEvents

\* An event has two indices.
LEMMA EventsTyped ==
  \A ev \in EventSet : /\ ev.start \in Nat /\ ev.end \in Nat
                       /\ ev = [start |-> ev.start, end |-> ev.end, tone |-> ev.tone]
  <1> SUFFICES ASSUME NEW ev \in NextEvents
               PROVE  /\ ev.start \in Nat /\ ev.end \in Nat
                      /\ ev = [start |-> ev.start, end |-> ev.end, tone |-> ev.tone]
    BY DEF EventSet
  <1>1. ev.start \in Nat /\ ev.end \in Nat
    BY LinesAssumption
  <1>2. PICK a, b, c : ev = [start |-> a, end |-> b, tone |-> c]
    BY DEF NextEvents, ParseLine
  <1> QED BY <1>1, <1>2

\* A loop of dtmf_generate writes nothing, or the one run it stands for.
LEMMA LoopTyped ==
  ASSUME NEW pos \in Int, NEW from \in Int, NEW to \in Int,
         NEW tone \in {Silence} \union {ev.tone : ev \in EventSet}, NEW mixed \in BOOLEAN
  PROVE  /\ Loop(pos, from, to, tone, mixed) \in Seq(LoopSet)
         /\ ToSet(Loop(pos, from, to, tone, mixed)) =
              IF from < to
              THEN {[pos |-> pos, from |-> from, to |-> to, tone |-> tone, noise |-> mixed]}
              ELSE {}
  <1> DEFINE r == [pos |-> pos, from |-> from, to |-> to, tone |-> tone, noise |-> mixed]
  <1>1. r \in LoopSet
    BY DEF LoopSet
  <1>2. Loop(pos, from, to, tone, mixed) = IF from < to THEN <<r>> ELSE <<>>
    BY DEF Loop
  <1> HIDE DEF r
  <1>3. <<r>> \in Seq(LoopSet) /\ <<>> \in Seq(LoopSet)
    BY <1>1
  <1>4. ToSet(<<r>>) = {r} /\ ToSet(<<>>) = {}
    BY ToSetSingle, ToSetEmpty
  <1>5. ToSet(Loop(pos, from, to, tone, mixed)) = IF from < to THEN {r} ELSE {}
    BY <1>2, <1>4
  <1> QED BY <1>2, <1>3, <1>5 DEF r

-----------------------------------------------------------------------------
\* An event that is taken: its gap starts where the output ends.
LEMMA TakeEventStep ==
  ASSUME GenInv, NEW ev \in EventSet, TakeEvent(ev)
  PROVE  GenInv'
  <1> DEFINE known == prevStrIdx # -1 /\ prevEndIdx # -1
             first == ~known /\ prevValChangeOnce /\ ev.start > 0
             gapFrom == IF known THEN prevEndIdx ELSE IF first THEN 0 ELSE ev.start
             gap == Loop(written, written, ev.start, Silence, noise)
             tone == Loop(ev.start, ev.start, ev.end, ev.tone, noise)
             g == [pos |-> written, from |-> written, to |-> ev.start, tone |-> Silence,
                   noise |-> noise]
             t == [pos |-> ev.start, from |-> ev.start, to |-> ev.end, tone |-> ev.tone,
                   noise |-> noise]
  <1>0. GenTypeOK /\ OutputAtEvent /\ NothingBeyond /\ SamplesInPlace /\ gat = "lines"
    BY DEF GenInv, TakeEvent
  <1>1. /\ ev.start \in Nat /\ ev.end \in Nat /\ ev.start <= ev.end
        /\ ev = [start |-> ev.start, end |-> ev.end, tone |-> ev.tone]
        /\ ev.tone # Silence
    BY EventsTyped, TonesSound DEF TakeEvent
  <1>2. gapFrom = written /\ written >= 0 /\ written <= ev.start
    <2>1. known => prevEndIdx <= ev.start
      BY DEF TakeEvent
    <2>2. CASE events = <<>>
      BY <1>0, <1>1, <2>2 DEF OutputAtEvent
    <2>3. CASE events # <<>>
      BY <1>0, <2>1, <2>3 DEF OutputAtEvent, GenTypeOK
    <2> QED BY <2>2, <2>3
  <1>3. written + Turns(gapFrom, ev.start) = ev.start
    BY <1>0, <1>1, <1>2 DEF Turns, GenTypeOK
  <1>4. ev.start + Turns(ev.start, ev.end) = ev.end
    BY <1>1 DEF Turns
  <1>5. out' = out \o gap \o tone
    BY <1>2, <1>3 DEF TakeEvent
  <1>6. /\ written' = ev.end /\ prevStrIdx' = ev.start /\ prevEndIdx' = ev.end
        /\ events' = Append(events, ev)
        /\ gat' = gat /\ length' = length /\ noise' = noise /\ gret' = gret
    BY <1>3, <1>4 DEF TakeEvent
  <1>7. /\ gap \in Seq(LoopSet) /\ ToSet(gap) = IF written < ev.start THEN {g} ELSE {}
        /\ tone \in Seq(LoopSet) /\ ToSet(tone) = IF ev.start < ev.end THEN {t} ELSE {}
    <2>1. /\ written \in Int /\ ev.start \in Int /\ ev.end \in Int /\ noise \in BOOLEAN
          /\ Silence \in {Silence} \union {e.tone : e \in EventSet}
          /\ ev.tone \in {Silence} \union {e.tone : e \in EventSet}
      BY <1>0, <1>1 DEF GenTypeOK
    <2>2. gap \in Seq(LoopSet) /\ ToSet(gap) = IF written < ev.start THEN {g} ELSE {}
      BY <2>1, LoopTyped
    <2>3. tone \in Seq(LoopSet) /\ ToSet(tone) = IF ev.start < ev.end THEN {t} ELSE {}
      BY <2>1, LoopTyped
    <2> QED BY <2>2, <2>3
  <1> HIDE DEF gap, tone
  <1>8. out' \in Seq(LoopSet) /\ ToSet(out') = ToSet(out) \union ToSet(gap) \union ToSet(tone)
    <2>1. out \in Seq(LoopSet) /\ out \o gap \in Seq(LoopSet)
      BY <1>0, <1>7 DEF GenTypeOK
    <2>2. ToSet(out \o gap) = ToSet(out) \union ToSet(gap)
      BY <1>7, <2>1, ToSetConcat
    <2>3. ToSet((out \o gap) \o tone) = ToSet(out \o gap) \union ToSet(tone)
      <3> DEFINE og == out \o gap
      <3>1. og \in Seq(LoopSet)
        BY <2>1
      <3> HIDE DEF og
      <3>2. ToSet(og \o tone) = ToSet(og) \union ToSet(tone)
        BY <1>7, <3>1, ToSetConcat
      <3> QED BY <3>2 DEF og
    <2>4. (out \o gap) \o tone \in Seq(LoopSet)
      BY <1>7, <2>1
    <2> QED BY <1>5, <2>2, <2>3, <2>4
  <1>9. events' \in Seq(EventSet) /\ ToSet(events') = ToSet(events) \union {ev} /\ events' # <<>>
    <2>1. events \in Seq(EventSet)
      BY <1>0 DEF GenTypeOK
    <2>2. ToSet(Append(events, ev)) = ToSet(events) \union {ev}
      BY <2>1, ToSetAppend
    <2>3. Append(events, ev) \in Seq(EventSet)
      BY <2>1
    <2>4. Append(events, ev) # <<>>
      BY <2>2, ToSetEmpty
    <2> QED BY <1>6, <2>2, <2>3, <2>4
  <1>10. \A e \in ToSet(events) : e \in EventSet /\ e.start \in Nat /\ e.end \in Nat /\ e.end <= written
    <2>1. \A e \in ToSet(events) : e \in EventSet /\ e.start \in Nat /\ e.end \in Nat
      BY <1>0, EventsTyped DEF GenTypeOK, ToSet
    <2>2. CASE events = <<>>
      BY <2>2, ToSetEmpty
    <2>3. CASE events # <<>>
      BY <1>0, <2>1, <2>3 DEF OutputAtEvent, NothingBeyond
    <2> QED BY <2>2, <2>3
  <1>11. \A loop \in ToSet(out) : loop \in LoopSet /\ loop.to <= written /\ events # <<>>
    <2>1. \A loop \in ToSet(out) : loop \in LoopSet
      BY <1>0 DEF GenTypeOK, ToSet
    <2>2. events = <<>> => ToSet(out) = {}
      BY <1>0, ToSetEmpty DEF OutputAtEvent
    <2> QED BY <1>0, <2>1, <2>2 DEF NothingBeyond
  <1>12. GenTypeOK'
    BY <1>0, <1>1, <1>6, <1>8, <1>9 DEF GenTypeOK
  <1>13. OutputAtEvent'
    BY <1>0, <1>1, <1>6, <1>9 DEF OutputAtEvent
  <1>14. NothingBeyond'
    <2>1. \A e \in ToSet(events') : e.end <= ev.end
      BY <1>0, <1>1, <1>2, <1>9, <1>10 DEF GenTypeOK
    <2>2. \A loop \in ToSet(out') : loop.to <= ev.end
      BY <1>0, <1>1, <1>2, <1>7, <1>8, <1>11 DEF GenTypeOK, LoopSet
    <2> QED BY <1>6, <2>1, <2>2 DEF NothingBeyond
  <1>15. SamplesInPlace'
    <2>1. ASSUME NEW loop \in ToSet(out') PROVE loop.pos = loop.from
      <3>1. CASE loop \in ToSet(out)
        BY <1>0, <1>11, <3>1 DEF SamplesInPlace
      <3>2. CASE loop \in {g, t}
        BY <3>2
      <3> QED BY <1>7, <1>8, <3>1, <3>2
    <2>2. ASSUME NEW loop \in ToSet(out'), loop.tone = Silence, NEW e \in ToSet(events')
          PROVE  e.start = e.end \/ e.end <= loop.from \/ loop.to <= e.start
      <3>1. CASE loop \in ToSet(out) /\ e \in ToSet(events)
        BY <1>0, <1>11, <2>2, <3>1 DEF SamplesInPlace
      <3>2. CASE loop \in ToSet(out) /\ e = ev
        BY <1>0, <1>1, <1>2, <1>11, <3>2 DEF LoopSet, GenTypeOK
      <3>3. CASE loop = g /\ e \in ToSet(events)
        BY <1>10, <3>3
      <3>4. CASE loop = g /\ e = ev
        BY <1>1, <3>4
      <3>5. CASE loop = t
        BY <1>1, <2>2, <3>5
      <3> QED BY <1>7, <1>8, <1>9, <3>1, <3>2, <3>3, <3>4, <3>5
    <2>3. ASSUME NEW e \in ToSet(events'), e.start < e.end
          PROVE  \E loop \in ToSet(out') :
                   [start |-> loop.from, end |-> loop.to, tone |-> loop.tone] = e
      <3>1. CASE e \in ToSet(events)
        <4>1. events # <<>>
          BY <3>1, ToSetEmpty
        <4>2. PICK loop \in ToSet(out) :
                [start |-> loop.from, end |-> loop.to, tone |-> loop.tone] = e
          BY <1>0, <2>3, <3>1, <4>1 DEF SamplesInPlace
        <4> QED BY <1>8, <4>2
      <3>2. CASE e = ev
        <4>1. t \in ToSet(out')
          BY <1>7, <1>8, <2>3, <3>2
        <4>2. [start |-> t.from, end |-> t.to, tone |-> t.tone] = ev
          BY <1>1
        <4> QED BY <3>2, <4>1, <4>2
      <3> QED BY <1>9, <3>1, <3>2
    <2> QED BY <2>1, <2>2, <2>3 DEF SamplesInPlace
  <1>16. LengthWritten'
    BY <1>0, <1>6 DEF LengthWritten
  <1>17. LastEventEnds'
    BY <1>6, <1>9 DEF LastEventEnds
  <1> QED BY <1>12, <1>13, <1>14, <1>15, <1>16, <1>17 DEF GenInv

\* An event that is refused leaves everything but the result as it was.
LEMMA RefuseEventStep ==
  ASSUME GenInv, NEW ev \in EventSet, RefuseEvent(ev)
  PROVE  GenInv'
  <1>1. /\ gat' = "returned" /\ gret' = EOF
        /\ UNCHANGED <<length, noise, prevStrIdx, prevEndIdx, prevValChangeOnce, out, written, events>>
    BY DEF RefuseEvent, Fail
  <1>2. GenTypeOK' /\ OutputAtEvent' /\ LastEventEnds' /\ NothingBeyond' /\ SamplesInPlace'
    BY <1>1 DEF GenInv, GenTypeOK, OutputAtEvent, LastEventEnds, NothingBeyond, SamplesInPlace
  <1>3. LengthWritten'
    BY <1>1 DEF LengthWritten, EOF
  <1> QED BY <1>2, <1>3 DEF GenInv

\* The call writes the header, or nothing.
LEMMA GenerateStep ==
  ASSUME GenInv, NEW len \in Int, NEW file \in BOOLEAN, Generate(len, file)
  PROVE  GenInv'
  <1>1. /\ gat = "idle" /\ length' = len /\ gat' \in {"lines", "returned"}
        /\ noise' \in {noise, file}
        /\ UNCHANGED <<prevStrIdx, prevEndIdx, prevValChangeOnce, out, written, events>>
    BY DEF Generate
  <1>2. events = <<>> /\ out = <<>>
    BY <1>1 DEF GenInv, OutputAtEvent
  <1>3. GenTypeOK' /\ OutputAtEvent' /\ LastEventEnds' /\ NothingBeyond' /\ SamplesInPlace'
    BY <1>1, <1>2 DEF GenInv, GenTypeOK, OutputAtEvent, LastEventEnds, NothingBeyond, SamplesInPlace
  <1>4. LengthWritten'
    BY <1>1, <1>2 DEF LengthWritten
  <1> QED BY <1>3, <1>4 DEF GenInv

\* The end of the event file: the silence starts where the last event ends.
LEMMA EndOfEventsStep ==
  ASSUME GenInv, EndOfEvents
  PROVE  GenInv'
  <1> DEFINE due == SamplesDue(length)
             pad == Loop(written, prevEndIdx, due, Silence, FALSE)
             p == [pos |-> written, from |-> prevEndIdx, to |-> due, tone |-> Silence,
                   noise |-> FALSE]
  <1>0. GenTypeOK /\ OutputAtEvent /\ LastEventEnds /\ NothingBeyond /\ SamplesInPlace
        /\ gat = "lines"
    BY DEF GenInv, EndOfEvents
  <1>1. /\ out' = out \o pad /\ written' = written + Turns(prevEndIdx, due)
        /\ gat' = "returned" /\ gret' = 0
        /\ UNCHANGED <<length, noise, prevStrIdx, prevEndIdx, prevValChangeOnce, events>>
    BY DEF EndOfEvents
  <1>2. due \in Int /\ written \in Int /\ prevEndIdx \in Int /\ length \in Int
    BY <1>0 DEF SamplesDue, GenTypeOK
  <1>3. written' \in Int /\ written' >= written /\ (prevEndIdx < due => due <= written')
    <2>1. written >= prevEndIdx
      BY <1>0 DEF OutputAtEvent, GenTypeOK
    <2> HIDE DEF due
    <2> QED BY <1>1, <1>2, <2>1 DEF Turns
  <1>4. pad \in Seq(LoopSet) /\ ToSet(pad) = IF prevEndIdx < due THEN {p} ELSE {}
    <2> HIDE DEF due
    <2>1. Silence \in {Silence} \union {e.tone : e \in EventSet} /\ FALSE \in BOOLEAN
      OBVIOUS
    <2> QED BY <1>2, <2>1, LoopTyped
  <1> HIDE DEF pad
  <1>5. out' \in Seq(LoopSet) /\ ToSet(out') = ToSet(out) \union ToSet(pad)
    <2>1. out \in Seq(LoopSet)
      BY <1>0 DEF GenTypeOK
    <2>2. ToSet(out \o pad) = ToSet(out) \union ToSet(pad) /\ out \o pad \in Seq(LoopSet)
      BY <1>4, <2>1, ToSetConcat
    <2> QED BY <1>1, <2>2
  <1>6. \A loop \in ToSet(out) : loop \in LoopSet /\ loop.to <= written
    BY <1>0 DEF GenTypeOK, NothingBeyond, ToSet
  <1>7. GenTypeOK' /\ OutputAtEvent'
    BY <1>0, <1>1, <1>3, <1>5 DEF GenTypeOK, OutputAtEvent
  <1>8. NothingBeyond'
    <2>1. \A loop \in ToSet(out') : loop.to <= written'
      <3> HIDE DEF due
      <3> QED BY <1>2, <1>3, <1>4, <1>5, <1>6 DEF LoopSet
    <2> QED BY <1>0, <1>1, <2>1 DEF NothingBeyond
  <1>9. SamplesInPlace'
    <2> SUFFICES ASSUME events # <<>>
                 PROVE  SamplesInPlace'
      BY <1>1 DEF SamplesInPlace
    <2>1. written = prevEndIdx
      BY <1>0 DEF OutputAtEvent
    <2>2. \A loop \in ToSet(out') : loop \in ToSet(out) \/ loop = p
      BY <1>4, <1>5
    <2>3. p.pos = p.from /\ \A ev \in ToSet(events) : ev.end <= p.from
      BY <1>0, <2>1 DEF NothingBeyond
    <2>4. ToSet(out) \subseteq ToSet(out')
      BY <1>5
    <2> HIDE DEF p
    <2> QED BY <1>0, <1>1, <2>2, <2>3, <2>4 DEF SamplesInPlace
  <1>10. LengthWritten'
    <2> SUFFICES ASSUME events # <<>>, length < 1073741824,
                        \A ev \in ToSet(events) : ev.end <= length
                 PROVE  written' = length
      BY <1>1 DEF LengthWritten
    <2>1. due = length
      BY DEF SamplesDue
    <2>2. written = prevEndIdx
      BY <1>0 DEF OutputAtEvent
    <2>3. prevEndIdx <= length
      BY <1>0 DEF LastEventEnds
    <2> HIDE DEF due
    <2> QED BY <1>1, <1>2, <2>1, <2>2, <2>3 DEF Turns
  <1>11. LastEventEnds'
    BY <1>0, <1>1 DEF LastEventEnds
  <1> QED BY <1>7, <1>8, <1>9, <1>10, <1>11 DEF GenInv

\* What validargs does keeps the duration a number.
LEMMA ArgsStep ==
  ASSUME ArgsTyped, validargs
  PROVE  ArgsTyped'
  <1>1. CASE EndOfArgs
    BY <1>1 DEF ArgsTyped, EndOfArgs, Or, Return
  <1>2. ASSUME NEW tok \in Tokens, ReadMode(tok) PROVE ArgsTyped'
    BY <1>2 DEF ArgsTyped, ReadMode, Return
  <1>3. ASSUME NEW tok \in Tokens, ReadFlag(tok) PROVE ArgsTyped'
    BY <1>3 DEF ArgsTyped, ReadFlag, Return
  <1>4. ASSUME NEW tok \in Tokens, ReadNumber(tok) PROVE ArgsTyped'
    <2> DEFINE v == get_current_value(tok)
               c == par.scnd
               ok == IsValue(tok) /\ InRange(c, v)
    <2>1. /\ par' = IF ok THEN [par EXCEPT !.at = "flag", ![c] = v] ELSE par
          /\ opts' = opts
      BY <1>4, SMT DEF ReadNumber
    <2>2. ok /\ c = "t" => v \in Int
      <3>1. ASSUME NEW x, InRange("t", x) PROVE x \in 0..MaxDuration
        BY <3>1 DEF InRange
      <3> HIDE DEF v, c
      <3>2. ok /\ c = "t" => InRange("t", v)
        BY Zenon
      <3> QED BY <3>1, <3>2
    <2> HIDE DEF v, c, ok
    <2>3. DOMAIN par' = DOMAIN par /\ par'["t"] = IF ok /\ c = "t" THEN v ELSE par["t"]
      BY <2>1, SMT DEF ArgsTyped
    <2> QED BY <2>1, <2>2, <2>3, SMT DEF ArgsTyped
  <1>5. ASSUME NEW tok \in Tokens, ReadFile(tok) PROVE ArgsTyped'
    BY <1>5 DEF ArgsTyped, ReadFile, Return
  <1> QED BY <1>1, <1>2, <1>3, <1>4, <1>5 DEF validargs

\* Before the first call nothing is written and nothing is claimed of it.
LEMMA GenInvInit == Init => ArgsTyped /\ GenInv
  <1> SUFFICES ASSUME Init PROVE ArgsTyped /\ GenInv
    OBVIOUS
  <1>1. ArgsTyped
    BY DEF Init, ArgsInit, ArgsTyped
  <1> GenInit
    BY DEF Init
  <1>2. GenTypeOK
    <2>1. /\ gat = "idle" /\ length = 0 /\ prevStrIdx = -1 /\ prevEndIdx = -1 /\ written = 0
          /\ events = <<>> /\ out = <<>>
      BY DEF GenInit
    <2>2. noise \in BOOLEAN
      BY DEF GenInit
    <2> QED BY <2>1, <2>2 DEF GenTypeOK
  <1>3. OutputAtEvent
    BY DEF GenInit, OutputAtEvent
  <1>4. out = <<>> /\ events = <<>> /\ gat = "idle"
    BY DEF GenInit
  <1>5. NothingBeyond
    BY <1>4, ToSetEmpty DEF NothingBeyond
  <1>6. SamplesInPlace
    BY <1>4 DEF SamplesInPlace
  <1>7. LengthWritten
    BY <1>4 DEF LengthWritten
  <1>8. LastEventEnds
    BY <1>4 DEF LastEventEnds
  <1> QED BY <1>1, <1>2, <1>3, <1>5, <1>6, <1>7, <1>8 DEF GenInv

\* A step of the other parts of the program leaves the generator alone.
LEMMA GenInvUnchanged == ASSUME GenInv, UNCHANGED genVars PROVE GenInv'
  BY DEF GenInv, genVars, GenTypeOK, OutputAtEvent, LastEventEnds, NothingBeyond, SamplesInPlace,
         LengthWritten

\* Every step of main, validargs, the generator and the detector preserves
\* the invariant.
LEMMA GenInvStep == ASSUME ArgsTyped, GenInv, [Next]_vars PROVE ArgsTyped' /\ GenInv'
  <1>1. CASE phase = "validargs" /\ validargs /\ UNCHANGED <<genVars, detVars, phase, status>>
    BY <1>1, ArgsStep, GenInvUnchanged
  <1>2. CASE Dispatch
    <2>1. ArgsTyped'
      BY <1>2 DEF Dispatch, ArgsTyped
    <2>2. opts.audio_samples * 8 \in Int /\ (opts.noise_file # NoFile) \in BOOLEAN
      BY DEF ArgsTyped
    <2>3. UNCHANGED genVars \/ Generate(opts.audio_samples * 8, opts.noise_file # NoFile)
      BY <1>2 DEF Dispatch
    <2> QED BY <2>1, <2>2, <2>3, GenerateStep, GenInvUnchanged
  <1>3. CASE phase = "generate" /\ dtmf_generate /\ UNCHANGED <<argsVars, detVars, phase, status>>
    <2>1. ArgsTyped'
      BY <1>3 DEF ArgsTyped, argsVars
    <2>2. EndOfEvents \/ \E ev \in EventSet : TakeEvent(ev) \/ RefuseEvent(ev)
      BY <1>3, FirstIsNext DEF dtmf_generate, EventSet
    <2> QED BY <2>1, <2>2, EndOfEventsStep, TakeEventStep, RefuseEventStep
  <1>4. CASE \/ phase = "detect" /\ dtmf_detect /\ UNCHANGED <<argsVars, genVars, phase, status>>
             \/ Leave
             \/ UNCHANGED vars
    <2>1. UNCHANGED argsVars /\ UNCHANGED genVars
      BY <1>4 DEF Leave, vars
    <2>2. ArgsTyped'
      BY <2>1 DEF ArgsTyped, argsVars
    <2> QED BY <2>1, <2>2, GenInvUnchanged
  <1> QED BY <1>1, <1>2, <1>3, <1>4 DEF Next

(* The inductive invariant of dtmf_generate holds of the whole program.     *)
THEOREM GenInvariant == Spec => []GenInv
  <1>1. Spec => [](ArgsTyped /\ GenInv)
    <2>1. (ArgsTyped /\ GenInv) /\ [Next]_vars => (ArgsTyped /\ GenInv)'
      BY GenInvStep
    <2> QED BY <2>1, GenInvInit, PTL DEF Spec
  <1> QED BY <1>1, PTL

(* For every event file and every duration, the samples dtmf_generate      *)
(* writes are where their indices say: each event is synthesised exactly   *)
(* over its indices, and the gaps before, between and after are silence.   *)
THEOREM SamplesAlwaysInPlace == Spec => []SamplesInPlace
  <1>1. GenInv => SamplesInPlace
    BY DEF GenInv
  <1> QED BY <1>1, GenInvariant, PTL

(* For every event file with an event, all of them within the duration,    *)
(* and every duration below 2^30 samples, dtmf_generate that returns 0 has *)
(* written exactly the number of samples asked for.                        *)
THEOREM LengthAlwaysWritten == Spec => []LengthWritten
  <1>1. GenInv => LengthWritten
    BY DEF GenInv
  <1> QED BY <1>1, GenInvariant, PTL

(* A sample that audio_write_sample writes is the sample audio_read_sample *)
(* reads back, for all values of an int16_t.                               *)
THEOREM SampleRoundTrip ==
  ASSUME NEW n \in Int, -32768 <= n, n <= 32767, NEW old
  PROVE  audio_read_sample(audio_write_sample(n), old).sample = n
  <1> DEFINE u == n % 65536
             hi == u \div 256
             lo == u % 256
  <1>1. u \in Int /\ 0 <= u /\ u < 65536
    BY SMT
  <1>2. (u + 32768) % 65536 = n + 32768
    BY SMT
  <1> HIDE DEF u
  <1>3. hi * 256 + lo = u
    BY <1>1, SMT
  <1>4. audio_write_sample(n) = <<hi, lo>>
    BY DEF audio_write_sample, u
  <1> HIDE DEF hi, lo
  <1>5. <<hi, lo>> # <<>> /\ Len(<<hi, lo>>) = 2 /\ <<hi, lo>>[1] = hi /\ <<hi, lo>>[2] = lo
    OBVIOUS
  <1>6. audio_read_sample(<<hi, lo>>, old).sample = Signed16(hi * 256 + lo)
    BY <1>5, SMT DEF audio_read_sample
  <1>7. Signed16(u) = n
    BY <1>2, SMT DEF Signed16
  <1> QED BY <1>3, <1>4, <1>6, <1>7

-----------------------------------------------------------------------------
Words == [1..4 -> Bytes]

\* A byte that is read from a stream.
LEMMA ByteRead ==
  ASSUME NEW s \in Seq(Bytes), NEW j \in Nat \ {0}
  PROVE  /\ fgetc(s, j) = EOF \/ fgetc(s, j) \in Bytes
         /\ j <= Len(s) => fgetc(s, j) = s[j] /\ fgetc(s, j) # EOF
         /\ j > Len(s) => fgetc(s, j) = EOF
  <1>1. Len(s) \in Nat /\ \A k \in 1..Len(s) : s[k] \in Bytes
    OBVIOUS
  <1>2. \A x \in Bytes : x # EOF
    BY DEF Bytes, EOF
  <1> QED BY <1>1, <1>2 DEF fgetc

\* A part of a stream.
LEMMA PartOf ==
  ASSUME NEW s \in Seq(Bytes), NEW a \in Nat \ {0}, NEW n \in Nat, a + n - 1 <= Len(s)
  PROVE  SubSeq(s, a, a + n - 1) = [k \in 1..n |-> s[a + k - 1]]
  OBVIOUS

\* One byte XORed into a word whose last byte is still zero.
LEMMA XorIntoShifted ==
  ASSUME NEW w \in Words, w[4] = 0, NEW x, x = EOF \/ x \in Bytes
  PROVE  /\ XorInto(w, x) \in Words
         /\ x = EOF => XorInto(w, x)[4] = 255
         /\ x # EOF => /\ XorInto(w, x)[4] = x
                       /\ \A k \in 1..3 : XorInto(w, x)[k] = w[k]
  <1>1. CASE x = EOF
    <2>1. XorInto(w, x) = [i \in 1..4 |-> 255 - w[i]]
      BY <1>1 DEF XorInto
    <2>2. \A i \in 1..4 : 255 - w[i] \in Bytes /\ 255 - w[4] = 255
      BY DEF Words, Bytes
    <2> QED BY <1>1, <2>1, <2>2 DEF Words
  <1>2. CASE x # EOF
    <2>1. XorInto(w, x) = [w EXCEPT ![4] = x]
      BY <1>2 DEF XorInto
    <2> QED BY <1>2, <2>1 DEF Words
  <1> QED BY <1>1, <1>2

\* The bytes of a word move up by one.
LEMMA Shifted ==
  ASSUME NEW w \in Words
  PROVE  /\ ShiftLeft8(w) \in Words /\ ShiftLeft8(w)[4] = 0
         /\ \A k \in 1..3 : ShiftLeft8(w)[k] = w[k + 1]
  <1> DEFINE v == <<w[2], w[3], w[4], 0>>
  <1>1. v = [k \in 1..4 |-> IF k = 4 THEN 0 ELSE w[k + 1]]
    OBVIOUS
  <1>2. ShiftLeft8(w) = v
    BY DEF ShiftLeft8
  <1> HIDE DEF v
  <1>3. 0 \in Bytes
    BY DEF Bytes
  <1> QED BY <1>1, <1>2, <1>3 DEF Words

\* The word of no bytes.
LEMMA ZeroWord == <<0, 0, 0, 0>> \in Words /\ <<0, 0, 0, 0>>[4] = 0
  <1>1. <<0, 0, 0, 0>> = [k \in 1..4 |-> 0]
    OBVIOUS
  <1> QED BY <1>1 DEF Words, Bytes

\* A word of the header is the four bytes of the stream, and when the stream
\* ends before its fourth byte, the last byte of the word is inverted.
LEMMA HeaderWord ==
  ASSUME NEW s \in Seq(Bytes), NEW i \in Nat \ {0}
  PROVE  /\ traverse_audio_file_header(s, i) \in Words
         /\ i + 3 <= Len(s) =>
              \A k \in 1..4 : traverse_audio_file_header(s, i)[k] = s[i + k - 1]
         /\ i + 3 > Len(s) => traverse_audio_file_header(s, i)[4] = 255
  <1> DEFINE c1 == fgetc(s, i)
             c2 == fgetc(s, i + 1)
             c3 == fgetc(s, i + 2)
             c4 == fgetc(s, i + 3)
             x1 == XorInto(<<0, 0, 0, 0>>, c1)
             x2 == XorInto(ShiftLeft8(x1), c2)
             x3 == XorInto(ShiftLeft8(x2), c3)
             x4 == XorInto(ShiftLeft8(x3), c4)
  <1>1. traverse_audio_file_header(s, i) = x4
    BY DEF traverse_audio_file_header
  <1>3. /\ c1 = EOF \/ c1 \in Bytes
        /\ c2 = EOF \/ c2 \in Bytes
        /\ c3 = EOF \/ c3 \in Bytes
        /\ c4 = EOF \/ c4 \in Bytes
        /\ i + 3 > Len(s) => c4 = EOF
        /\ i + 3 <= Len(s) => /\ c1 = s[i] /\ c2 = s[i + 1] /\ c3 = s[i + 2] /\ c4 = s[i + 3]
                              /\ c1 # EOF /\ c2 # EOF /\ c3 # EOF /\ c4 # EOF
    BY ByteRead
  <1> HIDE DEF c1, c2, c3, c4
  <1>4. x1 \in Words /\ (c1 # EOF => x1[4] = c1)
    BY <1>3, ZeroWord, XorIntoShifted
  <1> HIDE DEF x1
  <1>5. /\ x2 \in Words
        /\ c2 # EOF => x2[4] = c2 /\ x2[3] = x1[4]
    BY <1>3, <1>4, Shifted, XorIntoShifted
  <1> HIDE DEF x2
  <1>6. /\ x3 \in Words
        /\ c3 # EOF => x3[4] = c3 /\ x3[3] = x2[4] /\ x3[2] = x2[3]
    BY <1>3, <1>5, Shifted, XorIntoShifted
  <1> HIDE DEF x3
  <1>7. /\ x4 \in Words
        /\ c4 # EOF => x4[4] = c4 /\ x4[3] = x3[4] /\ x4[2] = x3[3] /\ x4[1] = x3[2]
        /\ c4 = EOF => x4[4] = 255
    BY <1>3, <1>6, Shifted, XorIntoShifted
  <1> HIDE DEF x4
  <1>8. ASSUME i + 3 <= Len(s), NEW k \in 1..4 PROVE x4[k] = s[i + k - 1]
    BY <1>3, <1>4, <1>5, <1>6, <1>7, <1>8
  <1> QED BY <1>1, <1>3, <1>7, <1>8

\* audio_read_header accepts the streams that begin with a valid header.
LEMMA HeaderAccepted ==
  ASSUME NEW s \in Seq(Bytes)
  PROVE  audio_read_header(s).ret = (IF ValidHeader(s) THEN 0 ELSE EOF)
  <1> DEFINE W(k) == traverse_audio_file_header(s, 4 * k - 3)
             w == [k \in 1..6 |-> W(k)]
  <1>1. audio_read_header(s).ret = IF check_audio_header(w) THEN 0 ELSE EOF
    BY DEF audio_read_header
  <1>2. /\ w[1] = traverse_audio_file_header(s, 1) /\ w[2] = traverse_audio_file_header(s, 5)
        /\ w[4] = traverse_audio_file_header(s, 13) /\ w[5] = traverse_audio_file_header(s, 17)
        /\ w[6] = traverse_audio_file_header(s, 21)
    <2>1. 4 * 1 - 3 = 1 /\ 4 * 2 - 3 = 5 /\ 4 * 4 - 3 = 13 /\ 4 * 5 - 3 = 17 /\ 4 * 6 - 3 = 21
      OBVIOUS
    <2>2. w[1] = W(1) /\ w[2] = W(2) /\ w[4] = W(4) /\ w[5] = W(5) /\ w[6] = W(6)
      <3> HIDE DEF W
      <3> QED OBVIOUS
    <2> HIDE DEF w
    <2> QED BY <2>1, <2>2
  <1> HIDE DEF w
  <1>3. CASE Len(s) < 24
    <2>1. w[6][4] = 255
      <3>1. 21 \in Nat \ {0} /\ 21 + 3 > Len(s)
        BY <1>3
      <3> QED BY <1>2, <3>1, HeaderWord
    <2>2. Word(AUDIO_CHANNELS)[4] = 1
      BY SMT DEF Word, AUDIO_CHANNELS
    <2>3. ~check_audio_header(w)
      BY <2>1, <2>2 DEF check_audio_header
    <2> QED BY <1>1, <1>3, <2>3 DEF ValidHeader
  <1>4. CASE Len(s) >= 24
    <2> DEFINE Is(x, i) == /\ x \in Words /\ x[1] = s[i] /\ x[2] = s[i + 1]
                           /\ x[3] = s[i + 2] /\ x[4] = s[i + 3]
    <2>1. ASSUME NEW i \in Nat \ {0}, i <= 21 PROVE Is(traverse_audio_file_header(s, i), i)
      <3> DEFINE x == traverse_audio_file_header(s, i)
      <3>1. i + 3 <= Len(s)
        BY <1>4, <2>1
      <3>2. x \in Words /\ \A k \in 1..4 : x[k] = s[i + k - 1]
        BY <3>1, HeaderWord
      <3>3. i + 1 - 1 = i /\ i + 2 - 1 = i + 1 /\ i + 3 - 1 = i + 2 /\ i + 4 - 1 = i + 3
        OBVIOUS
      <3> HIDE DEF x
      <3>4. x[1] = s[i + 1 - 1] /\ x[2] = s[i + 2 - 1] /\ x[3] = s[i + 3 - 1] /\ x[4] = s[i + 4 - 1]
        BY <3>2
      <3> QED BY <3>2, <3>3, <3>4 DEF x
    <2>2. Is(w[1], 1) /\ Is(w[2], 5) /\ Is(w[4], 13) /\ Is(w[5], 17) /\ Is(w[6], 21)
      <3> HIDE DEF Is
      <3>1. /\ Is(traverse_audio_file_header(s, 1), 1) /\ Is(traverse_audio_file_header(s, 5), 5)
            /\ Is(traverse_audio_file_header(s, 13), 13) /\ Is(traverse_audio_file_header(s, 17), 17)
            /\ Is(traverse_audio_file_header(s, 21), 21)
        BY <2>1
      <3> QED BY <1>2, <3>1
    <2>3. ASSUME NEW x, NEW i \in Nat \ {0}, i <= 21, Is(x, i)
          PROVE  x = SubSeq(s, i, i + 3) /\ x[1] = s[i]
      <3> DEFINE u == SubSeq(s, i, i + 3)
      <3>1. u = [k \in 1..4 |-> s[i + k - 1]]
        BY <1>4, <2>3, PartOf
      <3>2. x \in [1..4 -> Bytes] /\ \A k \in 1..4 : x[k] = s[i + k - 1]
        BY <2>3 DEF Words
      <3> HIDE DEF u
      <3>3. x = u
        BY <3>1, <3>2
      <3> QED BY <2>3, <3>3 DEF u
    <2> HIDE DEF Is
    <2>4. /\ w[1] = SubSeq(s, 1, 1 + 3) /\ w[2] = SubSeq(s, 5, 5 + 3) /\ w[2][1] = s[5]
          /\ w[4] = SubSeq(s, 13, 13 + 3) /\ w[5] = SubSeq(s, 17, 17 + 3)
          /\ w[6] = SubSeq(s, 21, 21 + 3)
      BY <2>2, <2>3
    <2>5. 1 + 3 = 4 /\ 5 + 3 = 8 /\ 13 + 3 = 16 /\ 17 + 3 = 20 /\ 21 + 3 = 24
      OBVIOUS
    <2>6. check_audio_header(w) <=> ValidHeader(s)
      BY <1>4, <2>4, <2>5, Zenon DEF check_audio_header, ValidHeader
    <2> QED BY <1>1, <2>6
  <1> QED BY <1>3, <1>4

\* Before the first block the stream is still the one whose header was read,
\* and after a refusal it stays so.
HeadInv ==
  /\ dat \in {"idle", "blocks", "returned"}
  /\ dret = EOF => dat = "returned"
  /\ HeaderChecked

\* Every step of the program preserves it.
LEMMA HeadInvStep == ASSUME HeadInv, [Next]_vars PROVE HeadInv'
  <1>1. CASE UNCHANGED detVars
    BY <1>1 DEF HeadInv, HeaderChecked, detVars
  <1>2. ASSUME NEW s \in Streams, NEW n, Detect(n, s) PROVE HeadInv'
    <2>1. s \in Seq(Bytes)
      BY DetectAssumption
    <2>2. audio_read_header(s).ret = (IF ValidHeader(s) THEN 0 ELSE EOF)
      BY <2>1, HeaderAccepted
    <2> QED BY <1>2, <2>2 DEF HeadInv, HeaderChecked, Detect, EOF
  <1>3. ASSUME NEW r \in Reads, ShortBlock(r[1], r[2]) PROVE HeadInv'
    BY <1>3 DEF HeadInv, HeaderChecked, ShortBlock, ReadBlock, Finish, EOF
  <1>4. ASSUME NEW r \in Reads, NEW o \in Outcomes, Block(r[1], r[2], o) PROVE HeadInv'
    BY <1>4 DEF HeadInv, HeaderChecked, Block, ReadBlock, Finish, EOF
  <1> QED BY <1>1, <1>2, <1>3, <1>4 DEF Next, Dispatch, dtmf_detect, Leave, vars

(* audio_read_header accepts exactly the streams that begin with a whole    *)
(* valid header, of any length and with any bytes.                          *)
THEOREM HeaderAlwaysChecked == Spec => []HeaderChecked
  <1>1. Init => HeadInv
    BY DEF Init, DetInit, HeadInv, HeaderChecked, EOF
  <1>2. HeadInv /\ [Next]_vars => HeadInv'
    BY HeadInvStep
  <1>3. HeadInv => HeaderChecked
    BY DEF HeadInv
  <1> QED BY <1>1, <1>2, <1>3, PTL DEF Spec

-----------------------------------------------------------------------------
ParFields == {"at", "mode", "frst", "scnd", "seen", "t", "l", "b", "noiseFileLen"}
Numbers == {"t", "l", "b"}

\* The first n pairs of a command line: no flag c, a flag and a good value in
\* each, the flags among them, and the values that were stored.
NoFlag(a, n, c) == \A k \in 1..n : a[2 * k] # FlagToken(c)

Pairs(mode, a, n) ==
  \A k \in 1..n : \E c \in FlagsOf(mode) :
    /\ a[2 * k] = FlagToken(c) /\ GoodValue(c, a[2 * k + 1])
    /\ \A j \in 1..(k - 1) : a[2 * j] # a[2 * k]

SeenFlags(a, n) == {c \in {"t", "l", "n", "b"} : ~NoFlag(a, n, c)}

Stored(p, a, n) ==
  \A c \in Numbers :
    /\ NoFlag(a, n, c) => p[c] = -1
    /\ \A k \in 1..n : a[2 * k] = FlagToken(c) => p[c] = get_current_value(a[2 * k + 1])

\* What validargs knows after n pairs.
AfterPairs(a, p, n) ==
  /\ p.mode \in {"g", "d"} /\ a[1] = FlagToken(p.mode)
  /\ Pairs(p.mode, a, n) /\ Stored(p, a, n)
  /\ NoFlag(a, n, "n") => p.noiseFileLen = 0

BeforeFlag(a, p, n) ==
  /\ p.at = "flag" /\ Len(a) = 2 * n + 1 /\ AfterPairs(a, p, n)
  /\ p.seen = SeenFlags(a, n) /\ p.scnd \in p.seen \union {p.mode}

BeforeValue(a, p, n) ==
  /\ p.at = "value" /\ Len(a) = 2 * n + 2 /\ AfterPairs(a, p, n)
  /\ p.scnd \in FlagsOf(p.mode) /\ a[2 * n + 2] = FlagToken(p.scnd) /\ NoFlag(a, n, p.scnd)
  /\ p.seen = SeenFlags(a, n + 1)

BeforeMode(a, p) ==
  /\ p.at = "mode" /\ a = <<>> /\ p.frst = "0" /\ p.scnd = "0" /\ p.seen = {}
  /\ p.noiseFileLen = 0 /\ \A c \in Numbers : p[c] = -1

\* The meaning of a command line, as CommandLineMeaning states it.
Meaning(a, o, r, at) ==
  /\ r = "valid" =>
       \/ a[1] = FlagToken("h") /\ o.global_options = HELP_OPTION
       \/ Command("g", a) /\ o.global_options = GENERATE_OPTION
       \/ Command("d", a) /\ o.global_options = DETECT_OPTION
  /\ r \in {"invalid", "crash"} /\ a # <<>> =>
       /\ a[1] # FlagToken("h")
       /\ \A mode \in {"g", "d"} : IF at = "end" THEN ~Command(mode, a)
                                   ELSE ~CommandBegins(mode, a)
  /\ r = "valid" /\ o.global_options # HELP_OPTION =>
       /\ o.audio_samples = ValueOf("t", a, 1000)
       /\ o.block_size = ValueOf("b", a, 100)
       /\ o.noise_level = IF ValueOf("l", a, 0) = -1 THEN 0 ELSE ValueOf("l", a, 0)

CmdInv ==
  /\ argv \in Seq(Tokens) /\ DOMAIN par = ParFields
  /\ "global_options" \in DOMAIN opts
  /\ vret \in {"running", "valid", "invalid", "crash"}
  /\ phase = "validargs" =>
       /\ Meaning(argv, opts, vret, par.at)
       /\ vret = "running" =>
            \/ BeforeMode(argv, par)
            \/ \E n \in Nat : BeforeFlag(argv, par, n) \/ BeforeValue(argv, par, n)

-----------------------------------------------------------------------------
\* A flag is its character.
LEMMA FlagTokens ==
  ASSUME NEW c, NEW d PROVE FlagToken(c) = FlagToken(d) <=> c = d
  BY DEF FlagToken

\* get_current_flag finds the flag of an argument that is one, and what the
\* argument before left over never makes a new one.
LEMMA FlagFound ==
  ASSUME NEW tok \in Seq(STRING), NEW f, NEW s
  PROVE  LET g == get_current_flag(tok, f, s) IN
         /\ g.ret <= 3 /\ g.frst = "-" /\ g.scnd # s => tok = FlagToken(g.scnd)
         /\ \A c : tok = FlagToken(c) => g.ret <= 3 /\ g.frst = "-" /\ g.scnd = c
  <1> DEFINE g == get_current_flag(tok, f, s)
  <1>1. /\ g.ret = IF tok = <<>> THEN 0 ELSE 3 * ((Len(tok) - 1) \div 2) + 1
        /\ g.frst = IF tok = <<>> THEN f ELSE tok[2 * ((Len(tok) - 1) \div 2) + 1]
        /\ g.scnd = IF Len(tok) < 2 THEN s ELSE tok[2 * (Len(tok) \div 2)]
    BY DEF get_current_flag
  <1> HIDE DEF g
  <1>2. ASSUME g.ret <= 3, g.frst = "-", g.scnd # s PROVE tok = FlagToken(g.scnd)
    <2>1. Len(tok) \in Nat /\ Len(tok) >= 2 /\ tok # <<>>
      BY <1>1, <1>2
    <2>2. Len(tok) = 2
      <3> DEFINE m == Len(tok)
                 x == (m - 1) \div 2
      <3>1. m \in Nat /\ m >= 2
        BY <2>1
      <3>2. 3 * x + 1 <= 3
        BY <1>1, <1>2, <2>1
      <3> HIDE DEF m
      <3>3. x \in Int /\ (m >= 3 => x >= 1)
        BY <3>1
      <3> HIDE DEF x
      <3>4. x <= 0
        BY <3>2, <3>3
      <3>5. m = 2
        BY <3>1, <3>3, <3>4
      <3> QED BY <3>5 DEF m
    <2>3. 2 * ((2 - 1) \div 2) + 1 = 1 /\ 2 * (2 \div 2) = 2
      OBVIOUS
    <2>4. tok[1] = "-" /\ tok[2] = g.scnd
      BY <1>1, <1>2, <2>1, <2>2, <2>3
    <2>5. tok = <<tok[1], tok[2]>>
      BY <2>2
    <2> QED BY <2>4, <2>5 DEF FlagToken
  <1>3. ASSUME NEW c, tok = FlagToken(c) PROVE g.ret <= 3 /\ g.frst = "-" /\ g.scnd = c
    <2>1. Len(tok) = 2 /\ tok[1] = "-" /\ tok[2] = c /\ tok # <<>>
      BY <1>3 DEF FlagToken
    <2>2. (2 - 1) \div 2 = 0 /\ 2 \div 2 = 1
      OBVIOUS
    <2> QED BY <1>1, <2>1, <2>2
  <1> QED BY <1>2, <1>3 DEF g

\* The pairs of a command line do not change when it grows.
LEMMA PairsKept ==
  ASSUME NEW a \in Seq(Tokens), NEW tok \in Tokens, NEW n \in Nat, 2 * n + 1 <= Len(a)
  PROVE  LET b == Append(a, tok) IN
         /\ b \in Seq(Tokens) /\ Len(b) = Len(a) + 1 /\ b[Len(a) + 1] = tok /\ b[1] = a[1]
         /\ \A k \in 1..n : b[2 * k] = a[2 * k] /\ b[2 * k + 1] = a[2 * k + 1]
         /\ \A c : NoFlag(b, n, c) <=> NoFlag(a, n, c)
         /\ \A mode : Pairs(mode, b, n) <=> Pairs(mode, a, n)
         /\ SeenFlags(b, n) = SeenFlags(a, n)
         /\ \A p : Stored(p, b, n) <=> Stored(p, a, n)
  <1> DEFINE b == Append(a, tok)
  <1>1. b \in Seq(Tokens) /\ Len(b) = Len(a) + 1 /\ b[Len(a) + 1] = tok
        /\ \A i \in 1..Len(a) : b[i] = a[i]
    OBVIOUS
  <1>2. Len(a) \in Nat /\ b[1] = a[1]
    BY <1>1
  <1> HIDE DEF b
  <1>3. \A k \in 1..n : b[2 * k] = a[2 * k] /\ b[2 * k + 1] = a[2 * k + 1]
    BY <1>1, <1>2
  <1>4. \A c : NoFlag(b, n, c) <=> NoFlag(a, n, c)
    BY <1>3 DEF NoFlag
  <1>5. \A mode : Pairs(mode, b, n) <=> Pairs(mode, a, n)
    <2>1. \A k \in 1..n : \A j \in 1..(k - 1) : j \in 1..n
      OBVIOUS
    <2>2. \A k \in 1..n : \A j \in 1..(k - 1) : b[2 * j] = a[2 * j]
      BY <1>3, <2>1
    <2> QED BY <1>3, <2>2, Zenon DEF Pairs
  <1>6. SeenFlags(b, n) = SeenFlags(a, n)
    BY <1>4 DEF SeenFlags
  <1>7. \A p : Stored(p, b, n) <=> Stored(p, a, n)
    BY <1>3, <1>4 DEF Stored
  <1> QED BY <1>1, <1>2, <1>3, <1>4, <1>5, <1>6, <1>7 DEF b

\* One more flag among the pairs.
LEMMA OneMore ==
  ASSUME NEW a, NEW n \in Nat, NEW c
  PROVE  NoFlag(a, n + 1, c) <=> NoFlag(a, n, c) /\ a[2 * (n + 1)] # FlagToken(c)
  <1>1. 1..(n + 1) = 1..n \union {n + 1}
    OBVIOUS
  <1> QED BY <1>1 DEF NoFlag

\* A value is in range for validargs if it is by the usage text.
InRangeOf(c) == \A v : InRange(c, v) <=> v \in UsageRange(c)

\* The flags and the ranges of validargs are those of the usage text.
LEMMA UsageFollowed ==
  /\ \A mode \in {"g", "d"} : FlagsOf(mode) = UsageFlags[mode]
  /\ \A c \in Numbers : \A v : InRange(c, v) <=> v \in UsageRange(c)
  <1>1. \A mode \in {"g", "d"} : FlagsOf(mode) = UsageFlags[mode]
    BY DEF FlagsOf, UsageFlags
  <1>2. ASSUME NEW v PROVE InRange("t", v) <=> v \in UsageRange("t")
    <2>1. v \in UsageRange("t") <=> v \in 0..MaxDuration
      BY DEF UsageRange
    <2>2. InRange("t", v) <=> v \in 0..MaxDuration
      BY Zenon DEF InRange
    <2> QED BY <2>1, <2>2, Zenon
  <1>3. ASSUME NEW v PROVE InRange("l", v) <=> v \in UsageRange("l")
    <2>1. v \in UsageRange("l") <=> v \in -30..30
      BY DEF UsageRange
    <2>2. InRange("l", v) <=> v \in -30..30
      BY Zenon DEF InRange
    <2> QED BY <2>1, <2>2, Zenon
  <1>4. ASSUME NEW v PROVE InRange("b", v) <=> v \in UsageRange("b")
    <2>1. v \in UsageRange("b") <=> v \in 10..1000
      BY DEF UsageRange
    <2>2. InRange("b", v) <=> v \in 10..1000
      BY Zenon DEF InRange
    <2> QED BY <2>1, <2>2, Zenon
  <1>6. InRangeOf("t") /\ InRangeOf("l") /\ InRangeOf("b")
    BY <1>2, <1>3, <1>4, Zenon DEF InRangeOf
  <1>7. \A c \in Numbers : InRangeOf(c)
    BY <1>6 DEF Numbers
  <1> QED BY <1>1, <1>7, Zenon DEF InRangeOf

\* A command line that stops after whole pairs is a command if it is the
\* beginning of one.
LEMMA CommandIs ==
  ASSUME NEW a, NEW n \in Nat, NEW mode \in {"g", "d"}, Len(a) = 2 * n + 1
  PROVE  /\ Command(mode, a) <=> a[1] = FlagToken(mode) /\ Pairs(mode, a, n)
         /\ CommandBegins(mode, a) <=> a[1] = FlagToken(mode) /\ Pairs(mode, a, n)
  <1>1. Len(a) % 2 = 1 /\ Len(a) \div 2 = n
    OBVIOUS
  <1>2. \A k \in 1..n : 2 * k < Len(a)
    OBVIOUS
  <1>3. FlagsOf(mode) = UsageFlags[mode]
    BY UsageFollowed
  <1>4. CommandBegins(mode, a) <=> a[1] = FlagToken(mode) /\ Pairs(mode, a, n)
    BY <1>1, <1>2, <1>3, Zenon DEF CommandBegins, Pairs
  <1> QED BY <1>1, <1>4 DEF Command

\* One that stops after a flag is none, and no beginning of one unless that
\* flag is new and one of the mode's.
LEMMA NoCommand ==
  ASSUME NEW a, NEW n \in Nat, NEW mode \in {"g", "d"}, Len(a) = 2 * n + 2
  PROVE  /\ ~Command(mode, a)
         /\ CommandBegins(mode, a) =>
              /\ a[1] = FlagToken(mode)
              /\ \E c \in FlagsOf(mode) : a[2 * n + 2] = FlagToken(c) /\ NoFlag(a, n, c)
  <1>1. Len(a) % 2 = 0 /\ Len(a) \div 2 = n + 1 /\ 2 * (n + 1) = 2 * n + 2
    OBVIOUS
  <1>2. FlagsOf(mode) = UsageFlags[mode]
    BY UsageFollowed
  <1>3. n + 1 \in 1..(n + 1) /\ 1..((n + 1) - 1) = 1..n
    OBVIOUS
  <1>4. ASSUME CommandBegins(mode, a)
        PROVE  \E c \in FlagsOf(mode) : a[2 * n + 2] = FlagToken(c) /\ NoFlag(a, n, c)
    <2>1. PICK c \in FlagsOf(mode) :
            a[2 * (n + 1)] = FlagToken(c) /\ \A j \in 1..((n + 1) - 1) : a[2 * j] # a[2 * (n + 1)]
      BY <1>1, <1>2, <1>3, <1>4 DEF CommandBegins
    <2> QED BY <1>1, <1>3, <2>1 DEF NoFlag
  <1> QED BY <1>1, <1>4 DEF Command, CommandBegins

\* The tests of a mode, of a flag and of a value.
ModeOk(g) == g.ret <= 3 /\ g.frst = "-" /\ g.scnd \in {"g", "d"}
FlagOk(g, p) == g.ret <= 3 /\ g.frst = "-" /\ g.scnd \in FlagsOf(p.mode) \ p.seen
ValueOk(tok, p) == IsValue(tok) /\ InRange(p.scnd, get_current_value(tok))

\* The locals of validargs after an argument.
LEMMA ModeLocals ==
  ASSUME NEW p, DOMAIN p = ParFields, NEW g
  PROVE  LET q == [p EXCEPT !.frst = g.frst, !.scnd = g.scnd, !.at = "flag", !.mode = g.scnd] IN
         /\ DOMAIN q = ParFields /\ q.at = "flag" /\ q.mode = g.scnd /\ q.scnd = g.scnd
         /\ q.seen = p.seen /\ q.noiseFileLen = p.noiseFileLen
         /\ q.t = p.t /\ q.l = p.l /\ q.b = p.b
  BY DEF ParFields

\* Those after a flag.
LEMMA FlagLocals ==
  ASSUME NEW p, DOMAIN p = ParFields, NEW g
  PROVE  LET q == [p EXCEPT !.frst = g.frst, !.scnd = g.scnd, !.at = "value",
                            !.seen = @ \union {g.scnd}] IN
         /\ DOMAIN q = ParFields /\ q.at = "value" /\ q.mode = p.mode /\ q.scnd = g.scnd
         /\ q.seen = p.seen \union {g.scnd} /\ q.noiseFileLen = p.noiseFileLen
         /\ q.t = p.t /\ q.l = p.l /\ q.b = p.b
  BY DEF ParFields

\* Those after a number.
LEMMA NumberLocals ==
  ASSUME NEW p, DOMAIN p = ParFields, NEW c \in Numbers, NEW v
  PROVE  LET q == [p EXCEPT !.at = "flag", ![c] = v] IN
         /\ DOMAIN q = ParFields /\ q.at = "flag" /\ q.mode = p.mode /\ q.scnd = p.scnd
         /\ q.seen = p.seen /\ q.noiseFileLen = p.noiseFileLen
         /\ \A d \in Numbers : q[d] = IF d = c THEN v ELSE p[d]
  BY DEF ParFields, Numbers

\* Those after the name of a noise file.
LEMMA FileLocals ==
  ASSUME NEW p, DOMAIN p = ParFields, NEW n
  PROVE  LET q == [p EXCEPT !.at = "flag", !.noiseFileLen = n] IN
         /\ DOMAIN q = ParFields /\ q.at = "flag" /\ q.mode = p.mode /\ q.scnd = p.scnd
         /\ q.seen = p.seen /\ q.noiseFileLen = n
         /\ q.t = p.t /\ q.l = p.l /\ q.b = p.b
  BY DEF ParFields

\* The first argument.
LEMMA ModeStep ==
  ASSUME CmdInv, phase = "validargs", phase' = phase, vret = "running",
         NEW tok \in Tokens, ReadMode(tok)
  PROVE  CmdInv'
  <1> DEFINE g == get_current_flag(tok, par.frst, par.scnd)
             q == [par EXCEPT !.frst = g.frst, !.scnd = g.scnd, !.at = "flag", !.mode = g.scnd]
  <1>0. tok \in Seq(STRING)
    BY TokensAssumption
  <1>1. BeforeMode(argv, par)
    BY DEF CmdInv, ReadMode, BeforeFlag, BeforeValue
  <1>2. /\ g.ret <= 3 /\ g.frst = "-" /\ g.scnd # "0" => tok = FlagToken(g.scnd)
        /\ \A c : tok = FlagToken(c) => g.ret <= 3 /\ g.frst = "-" /\ g.scnd = c
    BY <1>0, <1>1, FlagFound DEF BeforeMode
  <1>3. /\ argv' = <<tok>> /\ par' = q
        /\ IF g.ret <= 3 /\ g.frst = "-" /\ g.scnd = "h"
           THEN vret' = "valid" /\ opts' = [opts EXCEPT !.global_options = HELP_OPTION]
           ELSE vret' = (IF ModeOk(g) THEN "running" ELSE "invalid") /\ opts' = opts
    BY <1>1 DEF ReadMode, BeforeMode, Return, ModeOk
  <1>4. /\ DOMAIN par' = ParFields /\ par'.at = "flag" /\ par'.mode = g.scnd /\ par'.scnd = g.scnd
        /\ par'.seen = {} /\ par'.noiseFileLen = 0 /\ \A c \in Numbers : par'[c] = -1
    <2>1. DOMAIN par = ParFields
      BY DEF CmdInv
    <2> HIDE DEF g
    <2>2. /\ DOMAIN par' = ParFields /\ par'.at = "flag" /\ par'.mode = g.scnd /\ par'.scnd = g.scnd
          /\ par'.seen = par.seen /\ par'.noiseFileLen = par.noiseFileLen
          /\ par'.t = par.t /\ par'.l = par.l /\ par'.b = par.b
      BY <1>3, <2>1, ModeLocals
    <2> QED BY <1>1, <2>2 DEF BeforeMode, Numbers
  <1> HIDE DEF g, q
  <1>5. argv' \in Seq(Tokens) /\ Len(argv') = 1 /\ argv'[1] = tok /\ argv' # <<>>
    BY <1>3
  <1>6. "global_options" \in DOMAIN opts' /\ vret' \in {"running", "valid", "invalid", "crash"}
    BY <1>3 DEF CmdInv
  <1>7. CASE g.ret <= 3 /\ g.frst = "-" /\ g.scnd = "h"
    <2>1. argv'[1] = FlagToken("h")
      BY <1>2, <1>5, <1>7
    <2>2. vret' = "valid" /\ opts'.global_options = HELP_OPTION
      BY <1>3, <1>7 DEF CmdInv
    <2>3. Meaning(argv', opts', vret', par'.at)
      BY <2>1, <2>2 DEF Meaning
    <2> QED BY <1>4, <1>5, <1>6, <2>2, <2>3 DEF CmdInv
  <1>8. CASE ModeOk(g)
    <2>1. vret' = "running" /\ tok = FlagToken(g.scnd)
      BY <1>2, <1>3, <1>8 DEF ModeOk
    <2>2. Meaning(argv', opts', vret', par'.at)
      BY <2>1 DEF Meaning
    <2>3. BeforeFlag(argv', par', 0)
      <3>1. Len(argv') = 2 * 0 + 1
        BY <1>5
      <3>2. SeenFlags(argv', 0) = {} /\ \A c : NoFlag(argv', 0, c)
        BY DEF SeenFlags, NoFlag
      <3>3. Pairs(par'.mode, argv', 0)
        BY DEF Pairs
      <3>4. Stored(par', argv', 0)
        BY <1>4 DEF Stored
      <3>5. AfterPairs(argv', par', 0)
        BY <1>4, <1>5, <1>8, <2>1, <3>3, <3>4 DEF AfterPairs, ModeOk
      <3> QED BY <1>4, <3>1, <3>2, <3>5 DEF BeforeFlag
    <2> QED BY <1>4, <1>5, <1>6, <2>2, <2>3 DEF CmdInv
  <1>9. CASE ~ModeOk(g) /\ ~(g.ret <= 3 /\ g.frst = "-" /\ g.scnd = "h")
    <2>1. vret' = "invalid"
      BY <1>3, <1>9
    <2>2. tok # FlagToken("h") /\ tok # FlagToken("g") /\ tok # FlagToken("d")
      BY <1>2, <1>9 DEF ModeOk
    <2>3. Meaning(argv', opts', vret', par'.at)
      BY <1>4, <1>5, <2>1, <2>2 DEF Meaning, CommandBegins
    <2> QED BY <1>4, <1>5, <1>6, <2>1, <2>3 DEF CmdInv
  <1> QED BY <1>7, <1>8, <1>9

\* A flag.
LEMMA FlagStep ==
  ASSUME CmdInv, phase = "validargs", phase' = phase, vret = "running",
         NEW tok \in Tokens, ReadFlag(tok)
  PROVE  CmdInv'
  <1> DEFINE g == get_current_flag(tok, par.frst, par.scnd)
             q == [par EXCEPT !.frst = g.frst, !.scnd = g.scnd, !.at = "value",
                              !.seen = @ \union {g.scnd}]
  <1>0. tok \in Seq(STRING)
    BY TokensAssumption
  <1>1. PICK n \in Nat : BeforeFlag(argv, par, n)
    BY DEF CmdInv, ReadFlag, BeforeMode, BeforeValue
  <1>2. /\ g.ret <= 3 /\ g.frst = "-" /\ g.scnd # par.scnd => tok = FlagToken(g.scnd)
        /\ \A c : tok = FlagToken(c) => g.ret <= 3 /\ g.frst = "-" /\ g.scnd = c
    BY <1>0, FlagFound
  <1>3. /\ argv' = Append(argv, tok) /\ par' = q /\ opts' = opts
        /\ vret' = IF FlagOk(g, par) THEN "running" ELSE "invalid"
    BY DEF ReadFlag, Return, FlagOk
  <1>4. /\ DOMAIN par' = ParFields /\ par'.at = "value" /\ par'.mode = par.mode /\ par'.scnd = g.scnd
        /\ par'.seen = par.seen \union {g.scnd} /\ par'.noiseFileLen = par.noiseFileLen
        /\ \A c \in Numbers : par'[c] = par[c]
    <2>1. DOMAIN par = ParFields
      BY DEF CmdInv
    <2> HIDE DEF g
    <2> QED BY <1>3, <2>1, FlagLocals DEF Numbers
  <1> HIDE DEF g, q
  <1>5. argv \in Seq(Tokens) /\ Len(argv) = 2 * n + 1 /\ AfterPairs(argv, par, n)
        /\ par.seen = SeenFlags(argv, n) /\ par.scnd \in par.seen \union {par.mode}
    BY <1>1 DEF CmdInv, BeforeFlag
  <1>6. /\ argv' \in Seq(Tokens) /\ Len(argv') = 2 * n + 2 /\ argv'[2 * n + 2] = tok
        /\ argv'[1] = argv[1] /\ argv' # <<>>
        /\ \A c : NoFlag(argv', n, c) <=> NoFlag(argv, n, c)
        /\ \A mode : Pairs(mode, argv', n) <=> Pairs(mode, argv, n)
        /\ \A p : Stored(p, argv', n) <=> Stored(p, argv, n)
    <2>1. 2 * n + 1 <= Len(argv) /\ 2 * n + 1 + 1 = 2 * n + 2
      BY <1>5
    <2>2. Append(argv, tok) # <<>>
      BY <1>5
    <2> QED BY <1>3, <1>5, <2>1, <2>2, PairsKept
  <1>7. AfterPairs(argv', par', n)
    <2>1. Stored(par', argv, n)
      BY <1>4, <1>5 DEF AfterPairs, Stored
    <2> QED BY <1>4, <1>5, <1>6, <2>1 DEF AfterPairs
  <1>8. CASE FlagOk(g, par)
    <2>1. g.scnd \in FlagsOf(par.mode) /\ g.scnd \notin par.seen /\ g.scnd # par.mode
      BY <1>5, <1>8 DEF FlagOk, FlagsOf, AfterPairs
    <2>2. tok = FlagToken(g.scnd) /\ vret' = "running"
      BY <1>2, <1>3, <1>5, <1>8, <2>1 DEF FlagOk
    <2>3. g.scnd \in {"t", "l", "n", "b"} /\ NoFlag(argv', n, g.scnd)
      BY <1>5, <1>6, <2>1 DEF FlagsOf, SeenFlags
    <2>4. par'.seen = SeenFlags(argv', n + 1)
      <3>1. \A c : NoFlag(argv', n + 1, c) <=> NoFlag(argv', n, c) /\ argv'[2 * (n + 1)] # FlagToken(c)
        BY OneMore
      <3>2. 2 * (n + 1) = 2 * n + 2
        OBVIOUS
      <3>3. \A c : argv'[2 * (n + 1)] # FlagToken(c) <=> c # g.scnd
        BY <1>6, <2>2, <3>2, FlagTokens
      <3>4. \A c : ~NoFlag(argv', n + 1, c) <=> ~NoFlag(argv, n, c) \/ c = g.scnd
        BY <1>6, <3>1, <3>3
      <3> QED BY <1>4, <1>5, <2>3, <3>4 DEF SeenFlags
    <2>5. BeforeValue(argv', par', n)
      BY <1>4, <1>6, <1>7, <2>1, <2>2, <2>3, <2>4 DEF BeforeValue
    <2>6. Meaning(argv', opts', vret', par'.at)
      BY <2>2 DEF Meaning
    <2> QED BY <1>3, <1>4, <1>6, <2>2, <2>5, <2>6 DEF CmdInv
  <1>9. CASE ~FlagOk(g, par)
    <2>1. vret' = "invalid"
      BY <1>3, <1>9
    <2>2. ASSUME NEW mode \in {"g", "d"}, CommandBegins(mode, argv') PROVE FALSE
      <3>1. argv'[1] = FlagToken(mode)
        BY <1>6, <2>2, NoCommand
      <3>2. PICK c \in FlagsOf(mode) : argv'[2 * n + 2] = FlagToken(c) /\ NoFlag(argv', n, c)
        BY <1>6, <2>2, NoCommand
      <3>3. mode = par.mode
        BY <1>5, <1>6, <3>1, FlagTokens DEF AfterPairs
      <3>4. c \notin par.seen
        BY <1>5, <1>6, <3>2 DEF SeenFlags
      <3>5. g.ret <= 3 /\ g.frst = "-" /\ g.scnd = c
        BY <1>2, <1>6, <3>2
      <3> QED BY <1>9, <3>2, <3>3, <3>4, <3>5 DEF FlagOk
    <2>3. argv'[1] # FlagToken("h")
      BY <1>5, <1>6, FlagTokens DEF AfterPairs
    <2>4. Meaning(argv', opts', vret', par'.at)
      BY <1>4, <2>1, <2>2, <2>3 DEF Meaning
    <2> QED BY <1>3, <1>4, <1>6, <2>1, <2>4 DEF CmdInv
  <1> QED BY <1>8, <1>9

\* What is known of the arguments a once the value tok follows them.
WithValue(b, a, p, n, tok) ==
  /\ b \in Seq(Tokens) /\ b # <<>> /\ Len(b) = 2 * (n + 1) + 1 /\ b[1] = a[1]
  /\ GoodValue(p.scnd, tok) => Pairs(p.mode, b, n + 1)
  /\ ~GoodValue(p.scnd, tok) =>
       b[1] # FlagToken("h") /\ ~CommandBegins("g", b) /\ ~CommandBegins("d", b)
  /\ \A c : NoFlag(b, n + 1, c) <=> NoFlag(a, n, c) /\ c # p.scnd
  /\ SeenFlags(b, n + 1) = p.seen
  /\ \A k \in 1..n : b[2 * k] = a[2 * k] /\ b[2 * k + 1] = a[2 * k + 1]
  /\ b[2 * (n + 1)] = FlagToken(p.scnd) /\ b[2 * (n + 1) + 1] = tok

\* After a good value there is one more pair, and after a bad one the command
\* line is no command, whatever follows.
LEMMA ValueRead ==
  ASSUME NEW a \in Seq(Tokens), NEW p, NEW n \in Nat, BeforeValue(a, p, n), NEW tok \in Tokens
  PROVE  WithValue(Append(a, tok), a, p, n, tok)
  <1> DEFINE b == Append(a, tok)
  <1>1. /\ Len(a) = 2 * n + 2 /\ AfterPairs(a, p, n)
        /\ p.scnd \in FlagsOf(p.mode) /\ a[2 * n + 2] = FlagToken(p.scnd) /\ NoFlag(a, n, p.scnd)
        /\ p.seen = SeenFlags(a, n + 1)
    BY DEF BeforeValue
  <1>2. /\ b \in Seq(Tokens) /\ b # <<>> /\ Len(b) = 2 * n + 3 /\ b[1] = a[1]
        /\ b[2 * n + 3] = tok /\ b[2 * n + 2] = a[2 * n + 2]
        /\ \A k \in 1..n : b[2 * k] = a[2 * k] /\ b[2 * k + 1] = a[2 * k + 1]
        /\ \A c : NoFlag(b, n, c) <=> NoFlag(a, n, c)
        /\ \A mode : Pairs(mode, b, n) <=> Pairs(mode, a, n)
    <2>1. 2 * n + 1 <= Len(a) /\ 2 * n + 2 + 1 = 2 * n + 3
      BY <1>1
    <2>2. b # <<>> /\ b[2 * n + 2] = a[2 * n + 2] /\ b[2 * n + 3] = tok
      BY <1>1
    <2> QED BY <1>1, <2>1, <2>2, PairsKept
  <1> HIDE DEF b
  <1>3. 2 * (n + 1) = 2 * n + 2 /\ 2 * (n + 1) + 1 = 2 * n + 3
    OBVIOUS
  <1>4. b[2 * (n + 1)] = FlagToken(p.scnd) /\ b[2 * (n + 1) + 1] = tok
    BY <1>1, <1>2, <1>3
  <1>5. \A c : NoFlag(b, n + 1, c) <=> NoFlag(a, n, c) /\ c # p.scnd
    <2>1. \A c : NoFlag(b, n + 1, c) <=> NoFlag(b, n, c) /\ b[2 * (n + 1)] # FlagToken(c)
      BY OneMore
    <2>2. \A c : FlagToken(p.scnd) # FlagToken(c) <=> c # p.scnd
      BY FlagTokens
    <2> QED BY <1>2, <1>4, <2>1, <2>2
  <1>6. \A c : NoFlag(a, n + 1, c) <=> NoFlag(a, n, c) /\ c # p.scnd
    <2>1. \A c : NoFlag(a, n + 1, c) <=> NoFlag(a, n, c) /\ a[2 * (n + 1)] # FlagToken(c)
      BY OneMore
    <2>2. \A c : FlagToken(p.scnd) # FlagToken(c) <=> c # p.scnd
      BY FlagTokens
    <2> QED BY <1>1, <1>3, <2>1, <2>2
  <1>7. SeenFlags(b, n + 1) = p.seen
    BY <1>1, <1>5, <1>6 DEF SeenFlags
  <1>8. ASSUME GoodValue(p.scnd, tok) PROVE Pairs(p.mode, b, n + 1)
    <2>1. ASSUME NEW k \in 1..(n + 1)
          PROVE  \E c \in FlagsOf(p.mode) :
                   /\ b[2 * k] = FlagToken(c) /\ GoodValue(c, b[2 * k + 1])
                   /\ \A j \in 1..(k - 1) : b[2 * j] # b[2 * k]
      <3>1. CASE k \in 1..n
        BY <1>1, <1>2, <3>1 DEF Pairs, AfterPairs
      <3>2. CASE k = n + 1
        <4>1. \A j \in 1..((n + 1) - 1) : b[2 * j] # FlagToken(p.scnd)
          <5>1. 1..((n + 1) - 1) = 1..n
            OBVIOUS
          <5> QED BY <1>1, <1>2, <5>1 DEF NoFlag
        <4> QED BY <1>1, <1>4, <1>8, <3>2, <4>1
      <3> QED BY <3>1, <3>2
    <2> QED BY <2>1 DEF Pairs
  <1>9. ASSUME ~GoodValue(p.scnd, tok)
        PROVE  b[1] # FlagToken("h") /\ ~CommandBegins("g", b) /\ ~CommandBegins("d", b)
    <2>1. p.mode \in {"g", "d"} /\ b[1] = FlagToken(p.mode)
      BY <1>1, <1>2 DEF AfterPairs
    <2>2. ASSUME NEW mode, Pairs(mode, b, n + 1) PROVE FALSE
      <3>1. PICK c \in FlagsOf(mode) : b[2 * (n + 1)] = FlagToken(c) /\ GoodValue(c, b[2 * (n + 1) + 1])
        <4>1. n + 1 \in 1..(n + 1)
          OBVIOUS
        <4> QED BY <2>2, <4>1 DEF Pairs
      <3>2. c = p.scnd
        BY <1>4, <3>1, FlagTokens
      <3> QED BY <1>4, <1>9, <3>1, <3>2
    <2>3. \A mode \in {"g", "d"} : CommandBegins(mode, b) => Pairs(mode, b, n + 1)
      BY <1>2, <1>3, CommandIs
    <2> QED BY <2>1, <2>2, <2>3, FlagTokens
  <1>10. Len(b) = 2 * (n + 1) + 1
    BY <1>2, <1>3
  <1>11. WithValue(b, a, p, n, tok)
    BY <1>2, <1>4, <1>5, <1>7, <1>8, <1>9, <1>10, Zenon DEF WithValue
  <1> QED BY <1>11 DEF b

\* The value of -t, -l or -b.
LEMMA NumberStep ==
  ASSUME CmdInv, phase = "validargs", phase' = phase, vret = "running",
         NEW tok \in Tokens, ReadNumber(tok)
  PROVE  CmdInv'
  <1> DEFINE v == get_current_value(tok)
             b == Append(argv, tok)
  <1>1. PICK n \in Nat : BeforeValue(argv, par, n)
    BY DEF CmdInv, ReadNumber, BeforeMode, BeforeFlag
  <1>2. /\ argv' = b /\ opts' = opts
        /\ par' = IF ValueOk(tok, par) THEN [par EXCEPT !.at = "flag", ![par.scnd] = v] ELSE par
        /\ vret' = IF ValueOk(tok, par) THEN "running" ELSE "invalid"
    BY DEF ReadNumber, Return, ValueOk
  <1>3. /\ argv \in Seq(Tokens) /\ DOMAIN par = ParFields /\ AfterPairs(argv, par, n)
        /\ par.scnd \in FlagsOf(par.mode) /\ par.scnd # "n"
    BY <1>1 DEF CmdInv, BeforeValue, ReadNumber
  <1>4. par.scnd \in Numbers
    BY <1>3 DEF FlagsOf, Numbers
  <1>5. ValueOk(tok, par) <=> GoodValue(par.scnd, tok)
    BY <1>3, <1>4, UsageFollowed DEF ValueOk, GoodValue
  <1>6. /\ b \in Seq(Tokens) /\ b # <<>> /\ Len(b) = 2 * (n + 1) + 1 /\ b[1] = argv[1]
        /\ GoodValue(par.scnd, tok) => Pairs(par.mode, b, n + 1)
        /\ ~GoodValue(par.scnd, tok) =>
             b[1] # FlagToken("h") /\ ~CommandBegins("g", b) /\ ~CommandBegins("d", b)
        /\ \A d : NoFlag(b, n + 1, d) <=> NoFlag(argv, n, d) /\ d # par.scnd
        /\ SeenFlags(b, n + 1) = par.seen
        /\ \A k \in 1..n : b[2 * k] = argv[2 * k] /\ b[2 * k + 1] = argv[2 * k + 1]
        /\ b[2 * (n + 1)] = FlagToken(par.scnd) /\ b[2 * (n + 1) + 1] = tok
    <2>1. WithValue(b, argv, par, n, tok)
      BY <1>1, <1>3, ValueRead
    <2> HIDE DEF b
    <2> QED BY <2>1, Zenon DEF WithValue
  <1> HIDE DEF b
  <1>7. CASE ValueOk(tok, par)
    <2>1. /\ DOMAIN par' = ParFields /\ par'.at = "flag" /\ par'.mode = par.mode /\ par'.scnd = par.scnd
          /\ par'.seen = par.seen /\ par'.noiseFileLen = par.noiseFileLen
          /\ \A d \in Numbers : par'[d] = IF d = par.scnd THEN v ELSE par[d]
      <3>1. par' = [par EXCEPT !.at = "flag", ![par.scnd] = v]
        BY <1>2, <1>7
      <3>2. DOMAIN par = ParFields
        BY <1>3
      <3> HIDE DEF v
      <3>3. /\ DOMAIN par' = ParFields /\ par'.at = "flag" /\ par'.mode = par.mode
            /\ par'.scnd = par.scnd /\ par'.seen = par.seen
            /\ par'.noiseFileLen = par.noiseFileLen
            /\ \A d \in Numbers : par'[d] = IF d = par.scnd THEN v ELSE par[d]
        BY <1>4, <3>1, <3>2, NumberLocals
      <3> QED BY <3>3
    <2>2. Stored(par', b, n + 1)
      <3> SUFFICES ASSUME NEW d \in Numbers
                   PROVE  /\ NoFlag(b, n + 1, d) => par'[d] = -1
                          /\ \A k \in 1..(n + 1) : b[2 * k] = FlagToken(d) =>
                               par'[d] = get_current_value(b[2 * k + 1])
        BY DEF Stored
      <3>1. NoFlag(b, n + 1, d) => par'[d] = -1
        BY <1>3, <1>6, <2>1 DEF AfterPairs, Stored
      <3>2. ASSUME NEW k \in 1..(n + 1), b[2 * k] = FlagToken(d)
            PROVE  par'[d] = get_current_value(b[2 * k + 1])
        <4>1. CASE k = n + 1
          <5>1. d = par.scnd
            BY <1>6, <3>2, <4>1, FlagTokens
          <5> QED BY <1>6, <2>1, <4>1, <5>1
        <4>2. CASE k \in 1..n
          <5>1. argv[2 * k] = FlagToken(d) /\ b[2 * k + 1] = argv[2 * k + 1]
            BY <1>6, <3>2, <4>2
          <5>2. d # par.scnd
            BY <1>1, <4>2, <5>1 DEF BeforeValue, NoFlag
          <5> QED BY <1>3, <2>1, <4>2, <5>1, <5>2 DEF AfterPairs, Stored
        <4> QED BY <4>1, <4>2
      <3> QED BY <3>1, <3>2
    <2>3. AfterPairs(b, par', n + 1)
      BY <1>3, <1>5, <1>6, <1>7, <2>1, <2>2 DEF AfterPairs
    <2>4. par.scnd \in SeenFlags(b, n + 1)
      BY <1>4, <1>6 DEF SeenFlags, Numbers
    <2>5. BeforeFlag(b, par', n + 1)
      BY <1>6, <2>1, <2>3, <2>4 DEF BeforeFlag
    <2>6. n + 1 \in Nat /\ vret' = "running"
      BY <1>2, <1>7
    <2>7. Meaning(argv', opts', vret', par'.at)
      BY <2>6 DEF Meaning
    <2> QED BY <1>2, <1>6, <2>1, <2>5, <2>6, <2>7 DEF CmdInv
  <1>8. CASE ~ValueOk(tok, par)
    <2>1. vret' = "invalid" /\ par' = par
      BY <1>2, <1>8
    <2>2. Meaning(argv', opts', vret', par'.at)
      BY <1>1, <1>2, <1>5, <1>6, <1>8, <2>1 DEF Meaning, BeforeValue
    <2> QED BY <1>2, <1>3, <1>6, <2>1, <2>2 DEF CmdInv
  <1> QED BY <1>7, <1>8

\* The value of -n.
LEMMA FileStep ==
  ASSUME CmdInv, phase = "validargs", phase' = phase, vret = "running",
         NEW tok \in Tokens, ReadFile(tok)
  PROVE  CmdInv'
  <1> DEFINE b == Append(argv, tok)
  <1>1. PICK n \in Nat : BeforeValue(argv, par, n)
    BY DEF CmdInv, ReadFile, BeforeMode, BeforeFlag
  <1>2. /\ argv \in Seq(Tokens) /\ DOMAIN par = ParFields /\ AfterPairs(argv, par, n)
        /\ par.scnd = "n" /\ NoFlag(argv, n, "n") /\ par.noiseFileLen = 0
    BY <1>1 DEF CmdInv, BeforeValue, ReadFile, AfterPairs
  <1>3. Len(tok) \in Nat
    BY TokensAssumption
  <1>4. /\ argv' = b /\ par' = [par EXCEPT !.at = "flag", !.noiseFileLen = Len(tok)]
        /\ vret' = IF GoodValue("n", tok) THEN "running" ELSE "invalid"
        /\ opts' = [opts EXCEPT !.noise_file = tok]
    BY <1>2, <1>3 DEF ReadFile, Return, GoodValue
  <1>5. /\ b \in Seq(Tokens) /\ b # <<>> /\ Len(b) = 2 * (n + 1) + 1 /\ b[1] = argv[1]
        /\ GoodValue("n", tok) => Pairs(par.mode, b, n + 1)
        /\ ~GoodValue("n", tok) =>
             b[1] # FlagToken("h") /\ ~CommandBegins("g", b) /\ ~CommandBegins("d", b)
        /\ \A d : NoFlag(b, n + 1, d) <=> NoFlag(argv, n, d) /\ d # "n"
        /\ SeenFlags(b, n + 1) = par.seen
        /\ \A k \in 1..n : b[2 * k] = argv[2 * k] /\ b[2 * k + 1] = argv[2 * k + 1]
        /\ b[2 * (n + 1)] = FlagToken("n") /\ b[2 * (n + 1) + 1] = tok
    <2>1. WithValue(b, argv, par, n, tok)
      BY <1>1, <1>2, ValueRead
    <2> HIDE DEF b
    <2> QED BY <1>2, <2>1, Zenon DEF WithValue
  <1> HIDE DEF b
  <1>6. /\ DOMAIN par' = ParFields /\ par'.at = "flag" /\ par'.mode = par.mode /\ par'.scnd = "n"
        /\ par'.seen = par.seen /\ \A d \in Numbers : par'[d] = par[d]
    BY <1>2, <1>4, FileLocals DEF Numbers
  <1>7. "global_options" \in DOMAIN opts'
    BY <1>4 DEF CmdInv
  <1>8. CASE GoodValue("n", tok)
    <2>1. Stored(par', b, n + 1)
      <3> SUFFICES ASSUME NEW d \in Numbers
                   PROVE  /\ NoFlag(b, n + 1, d) => par'[d] = -1
                          /\ \A k \in 1..(n + 1) : b[2 * k] = FlagToken(d) =>
                               par'[d] = get_current_value(b[2 * k + 1])
        BY DEF Stored
      <3>1. d # "n" /\ b[2 * (n + 1)] # FlagToken(d)
        BY <1>5, FlagTokens DEF Numbers
      <3>2. NoFlag(b, n + 1, d) => par'[d] = -1
        BY <1>2, <1>5, <1>6 DEF AfterPairs, Stored
      <3>3. ASSUME NEW k \in 1..(n + 1), b[2 * k] = FlagToken(d)
            PROVE  par'[d] = get_current_value(b[2 * k + 1])
        <4>1. k \in 1..n
          BY <3>1, <3>3
        <4>2. argv[2 * k] = FlagToken(d) /\ b[2 * k + 1] = argv[2 * k + 1]
          BY <1>5, <3>3, <4>1
        <4> QED BY <1>2, <1>6, <4>1, <4>2 DEF AfterPairs, Stored
      <3> QED BY <3>2, <3>3
    <2>2. ~NoFlag(b, n + 1, "n")
      BY <1>5
    <2>3. AfterPairs(b, par', n + 1)
      BY <1>2, <1>5, <1>6, <1>8, <2>1, <2>2 DEF AfterPairs
    <2>4. "n" \in SeenFlags(b, n + 1)
      BY <2>2 DEF SeenFlags
    <2>5. BeforeFlag(b, par', n + 1)
      BY <1>5, <1>6, <2>3, <2>4 DEF BeforeFlag
    <2>6. n + 1 \in Nat /\ vret' = "running"
      BY <1>4, <1>8
    <2>7. Meaning(argv', opts', vret', par'.at)
      BY <2>6 DEF Meaning
    <2> QED BY <1>4, <1>5, <1>6, <1>7, <2>5, <2>6, <2>7 DEF CmdInv
  <1>9. CASE ~GoodValue("n", tok)
    <2>1. vret' = "invalid"
      BY <1>4, <1>9
    <2>2. Meaning(argv', opts', vret', par'.at)
      BY <1>4, <1>5, <1>9, <2>1 DEF Meaning
    <2> QED BY <1>4, <1>5, <1>6, <1>7, <2>1, <2>2 DEF CmdInv
  <1> QED BY <1>8, <1>9

\* What a whole command line says of a number is what was stored for it.
LEMMA ValueStored ==
  ASSUME NEW a, NEW p, NEW n \in Nat, Len(a) = 2 * n + 1, AfterPairs(a, p, n),
         NEW c \in Numbers, NEW default
  PROVE  /\ c = "l" => ValueOf(c, a, 0) = -1 \/ ValueOf(c, a, 0) = Or(p[c], 0)
         /\ c = "l" => (IF ValueOf(c, a, 0) = -1 THEN 0 ELSE ValueOf(c, a, 0)) = Or(p[c], 0)
         /\ c # "l" => ValueOf(c, a, default) = Or(p[c], default)
  <1> DEFINE ks == {k \in 1..(Len(a) \div 2) : a[2 * k] = FlagToken(c)}
             k == CHOOSE k \in ks : TRUE
  <1>1. Len(a) \div 2 = n
    OBVIOUS
  <1>2. \A d : ValueOf(c, a, d) = IF ks = {} THEN d ELSE get_current_value(a[2 * k + 1])
    BY DEF ValueOf
  <1>3. ks = {} => p[c] = -1
    BY <1>1 DEF AfterPairs, Stored, NoFlag
  <1>4. ASSUME ks # {}
        PROVE  /\ p[c] = get_current_value(a[2 * k + 1])
               /\ c # "l" => p[c] # -1
    <2>1. k \in 1..n /\ a[2 * k] = FlagToken(c)
      BY <1>1, <1>4
    <2> HIDE DEF k, ks
    <2>2. p[c] = get_current_value(a[2 * k + 1])
      BY <2>1 DEF AfterPairs, Stored
    <2>3. PICK d \in FlagsOf(p.mode) : a[2 * k] = FlagToken(d) /\ GoodValue(d, a[2 * k + 1])
      BY <2>1 DEF AfterPairs, Pairs
    <2>4. d = c /\ c # "n"
      BY <2>1, <2>3, FlagTokens DEF Numbers
    <2>5. p[c] \in UsageRange(c)
      BY <2>2, <2>3, <2>4 DEF GoodValue
    <2>6. c # "l" => p[c] # -1
      <3>1. c \in {"t", "l", "b"}
        BY DEF Numbers
      <3>2. ASSUME NEW v, v \in UsageRange("t") PROVE v # -1
        <4>1. v \in UsageRange("t") <=> v \in 0..MaxDuration
          BY DEF UsageRange
        <4> QED BY <3>2, <4>1
      <3>3. ASSUME NEW v, v \in UsageRange("b") PROVE v # -1
        <4>1. v \in UsageRange("b") <=> v \in 10..1000
          BY DEF UsageRange
        <4>2. v \in 10..1000
          BY <3>3, <4>1, Zenon
        <4> QED BY <4>2
      <3>4. CASE c = "t"
        <4>1. p[c] \in UsageRange("t")
          BY <2>5, <3>4, Zenon
        <4> QED BY <3>2, <4>1, Zenon
      <3>5. CASE c = "b"
        <4>1. p[c] \in UsageRange("b")
          BY <2>5, <3>5, Zenon
        <4> QED BY <3>3, <4>1, Zenon
      <3> QED BY <3>1, <3>4, <3>5
    <2> QED BY <2>2, <2>6
  <1> HIDE DEF k, ks
  <1> QED BY <1>2, <1>3, <1>4 DEF Or

\* The end of the command line.
LEMMA EndStep ==
  ASSUME CmdInv, phase = "validargs", phase' = phase, vret = "running", EndOfArgs
  PROVE  CmdInv'
  <1>1. argv' = argv /\ argv \in Seq(Tokens) /\ DOMAIN par = ParFields
    BY DEF CmdInv, EndOfArgs
  <1>2. CASE BeforeMode(argv, par)
    <2>1. vret' = "invalid" /\ argv = <<>> /\ par' = par /\ opts' = opts
      BY <1>2 DEF EndOfArgs, BeforeMode, Return
    <2>2. Meaning(argv', opts', vret', par'.at)
      BY <1>1, <2>1 DEF Meaning
    <2> QED BY <1>1, <2>1, <2>2 DEF CmdInv
  <1>3. ASSUME NEW n \in Nat, BeforeValue(argv, par, n) PROVE CmdInv'
    <2>1. /\ vret' \in {"invalid", "crash"} /\ opts' = opts /\ par' = [par EXCEPT !.at = "end"]
      BY <1>3 DEF EndOfArgs, BeforeValue, Return
    <2>2. ~Command("g", argv) /\ ~Command("d", argv)
      BY <1>3, NoCommand DEF BeforeValue
    <2>3. argv[1] # FlagToken("h")
      BY <1>3, FlagTokens DEF BeforeValue, AfterPairs
    <2>5. DOMAIN par' = ParFields /\ par'.at = "end"
      BY <1>1, <2>1 DEF ParFields
    <2>4. Meaning(argv', opts', vret', par'.at)
      BY <1>1, <2>1, <2>2, <2>3, <2>5 DEF Meaning
    <2> QED BY <1>1, <2>1, <2>4, <2>5 DEF CmdInv
  <1>4. ASSUME NEW n \in Nat, BeforeFlag(argv, par, n) PROVE CmdInv'
    <2>1. /\ vret' = "valid" /\ par' = [par EXCEPT !.at = "end"]
          /\ opts' = [global_options |-> IF par.mode = "g" THEN GENERATE_OPTION ELSE DETECT_OPTION,
                      audio_samples  |-> Or(par.t, 1000),
                      block_size     |-> Or(par.b, 100),
                      noise_level    |-> Or(par.l, 0),
                      noise_file     |-> IF par.noiseFileLen = 0 THEN NoFile ELSE opts.noise_file]
      BY <1>4 DEF EndOfArgs, BeforeFlag, Return
    <2>2. /\ opts'.global_options = IF par.mode = "g" THEN GENERATE_OPTION ELSE DETECT_OPTION
          /\ opts'.audio_samples = Or(par.t, 1000) /\ opts'.block_size = Or(par.b, 100)
          /\ opts'.noise_level = Or(par.l, 0) /\ "global_options" \in DOMAIN opts'
      BY <2>1
    <2>3. Len(argv) = 2 * n + 1 /\ AfterPairs(argv, par, n) /\ par.mode \in {"g", "d"}
      BY <1>4 DEF BeforeFlag, AfterPairs
    <2>4. Command(par.mode, argv)
      BY <2>3, CommandIs DEF AfterPairs
    <2>5. /\ ValueOf("t", argv, 1000) = Or(par.t, 1000)
          /\ ValueOf("b", argv, 100) = Or(par.b, 100)
          /\ (IF ValueOf("l", argv, 0) = -1 THEN 0 ELSE ValueOf("l", argv, 0)) = Or(par.l, 0)
      <3>1. \A d : \A c \in Numbers :
              /\ c = "l" => (IF ValueOf(c, argv, 0) = -1 THEN 0 ELSE ValueOf(c, argv, 0)) = Or(par[c], 0)
              /\ c # "l" => ValueOf(c, argv, d) = Or(par[c], d)
        BY <2>3, ValueStored
      <3> QED BY <3>1 DEF Numbers
    <2>6. Meaning(argv', opts', vret', par'.at)
      BY <1>1, <2>1, <2>2, <2>3, <2>4, <2>5 DEF Meaning
    <2>7. DOMAIN par' = ParFields
      BY <1>1, <2>1
    <2> QED BY <1>1, <2>1, <2>2, <2>6, <2>7 DEF CmdInv
  <1> QED BY <1>2, <1>3, <1>4 DEF CmdInv

\* Every step of the program preserves the invariant.
LEMMA CmdInvStep == ASSUME CmdInv, [Next]_vars PROVE CmdInv'
  <1>1. CASE phase = "validargs" /\ validargs /\ UNCHANGED <<genVars, detVars, phase, status>>
    <2>1. vret = "running" /\ phase = "validargs" /\ phase' = phase
      BY <1>1 DEF validargs
    <2>2. \/ EndOfArgs
          \/ \E tok \in Tokens : ReadMode(tok) \/ ReadFlag(tok) \/ ReadNumber(tok) \/ ReadFile(tok)
      BY <1>1 DEF validargs
    <2> QED BY <2>1, <2>2, EndStep, ModeStep, FlagStep, NumberStep, FileStep
  <1>2. CASE Dispatch
    <2>1. phase' \in {"exit", "generate", "detect"} /\ argv' = <<>> /\ UNCHANGED <<opts, vret>>
      BY <1>2 DEF Dispatch, Exit
    <2>2. DOMAIN par' = ParFields
      BY <1>2 DEF Dispatch, CmdInv
    <2> QED BY <2>1, <2>2 DEF CmdInv
  <1>3. CASE \/ phase = "generate" /\ dtmf_generate /\ UNCHANGED <<argsVars, detVars, phase, status>>
             \/ phase = "detect" /\ dtmf_detect /\ UNCHANGED <<argsVars, genVars, phase, status>>
    BY <1>3 DEF CmdInv, argsVars
  <1>4. CASE Leave
    <2>1. phase' = "exit" /\ UNCHANGED argsVars
      BY <1>4 DEF Leave, Exit
    <2> QED BY <2>1 DEF CmdInv, argsVars
  <1>5. CASE UNCHANGED vars
    BY <1>5 DEF CmdInv, vars, argsVars
  <1> QED BY <1>1, <1>2, <1>3, <1>4, <1>5 DEF Next

(* validargs accepts only command lines that are -h or a mode with its own  *)
(* flags, each once and with a good value, and sets what they say; and it   *)
(* refuses an argument only if no such command line begins with what it has *)
(* read by then.  This holds for arguments of any length and characters.    *)
THEOREM CommandLineAlwaysMeant == Spec => []CommandLineMeaning
  <1>1. Init => CmdInv
    <2> SUFFICES ASSUME Init PROVE CmdInv
      OBVIOUS
    <2>1. /\ argv = <<>> /\ vret = "running" /\ "global_options" \in DOMAIN opts
          /\ par = [at |-> "mode", mode |-> "none", frst |-> "0", scnd |-> "0", seen |-> {},
                    t |-> -1, l |-> -1, b |-> -1, noiseFileLen |-> 0]
      BY DEF Init, ArgsInit
    <2>2. DOMAIN par = ParFields /\ BeforeMode(argv, par)
      BY <2>1 DEF ParFields, BeforeMode, Numbers
    <2>3. Meaning(argv, opts, vret, par.at)
      BY <2>1 DEF Meaning
    <2> QED BY <2>1, <2>2, <2>3 DEF CmdInv
  <1>2. CmdInv /\ [Next]_vars => CmdInv'
    BY CmdInvStep
  <1>3. CmdInv => CommandLineMeaning
    BY DEF CmdInv, Meaning, CommandLineMeaning
  <1> QED BY <1>1, <1>2, <1>3, PTL DEF Spec

-----------------------------------------------------------------------------
\* The largest number of a set.
LEMMA MaxIs ==
  ASSUME NEW S, S \subseteq Int, NEW x \in S, \A y \in S : y <= x
  PROVE  Max(S) = x
  <1>0. \A y \in S : y \in Int
    OBVIOUS
  <1>1. \A y \in S : (\A z \in S : y >= z) => y = x
    BY <1>0
  <1>2. \A y \in S : x >= y
    BY <1>0
  <1>3. Max(S) = CHOOSE y \in S : \A z \in S : y >= z
    BY DEF Max
  <1> QED BY <1>1, <1>2, <1>3

\* A nonempty set of numbers up to n has a greatest element, its maximum.
LEMMA MaxExists ==
  ASSUME NEW n \in Nat, NEW S \in SUBSET (0..n), S # {}
  PROVE  Max(S) \in S /\ \A y \in S : y <= Max(S)
  <1> DEFINE T == {n - y : y \in S}
  <1>1. T \in SUBSET Nat /\ T # {}
    <2>1. \A y \in S : y \in 0..n /\ n - y \in Nat
      OBVIOUS
    <2> QED BY <2>1
  <1>2. \E a \in T : \A b \in T : ~(<<b, a>> \in OpToRel(<, Nat))
    <2> HIDE DEF T
    <2> QED BY <1>1, NatLessThanWellFounded, WFMin
  <1>3. \A a, b \in Nat : <<b, a>> \in OpToRel(<, Nat) <=> b < a
    BY DEF OpToRel
  <1>4. PICK a \in T : \A b \in T : ~(b < a)
    <2> HIDE DEF T
    <2> QED BY <1>1, <1>2, <1>3
  <1>5. PICK x \in S : a = n - x
    OBVIOUS
  <1>6. \A y \in S : y <= x
    <2> SUFFICES ASSUME NEW y \in S PROVE y <= x
      OBVIOUS
    <2>1. n - y \in T
      OBVIOUS
    <2>2. ~(n - y < n - x)
      BY <1>4, <1>5, <2>1
    <2>3. x \in Int /\ y \in Int
      OBVIOUS
    <2> QED BY <2>2, <2>3
  <1>7. S \subseteq Int
    OBVIOUS
  <1>8. Max(S) = x
    BY <1>6, <1>7, MaxIs
  <1> QED BY <1>6, <1>8

\* The sum of a number and a remainder.
LEMMA SameRemainder ==
  ASSUME NEW m \in Nat \ {0}, NEW q \in Int, NEW p \in Int, NEW r \in 0..(m - 1), NEW s \in 0..(m - 1),
         m * q + r = m * p + s
  PROVE  r = s
  <1>1. CASE q >= p + 1
    <2>1. m * q >= m * (p + 1)
      BY <1>1
    <2>2. m * (p + 1) = m * p + m
      OBVIOUS
    <2> QED BY <2>1, <2>2
  <1>2. CASE p >= q + 1
    <2>1. m * p >= m * (q + 1)
      BY <1>2
    <2>2. m * (q + 1) = m * q + m
      OBVIOUS
    <2> QED BY <2>1, <2>2
  <1>3. CASE p = q
    BY <1>3
  <1> QED BY <1>1, <1>2, <1>3

\* A remainder may be taken before an addition.
LEMMA RemainderPlus ==
  ASSUME NEW m \in Nat \ {0}, NEW x \in Int, NEW b \in Int
  PROVE  ((x % m) + b) % m = (x + b) % m
  <1>1. ASSUME NEW z \in Int
        PROVE  z = m * (z \div m) + (z % m) /\ z % m \in 0..(m - 1) /\ z \div m \in Int
    OBVIOUS
  <1> DEFINE y == (x % m) + b
  <1>2. x % m \in 0..(m - 1) /\ x \div m \in Int /\ x = m * (x \div m) + (x % m)
    BY <1>1
  <1>3. y \in Int /\ y % m \in 0..(m - 1) /\ y \div m \in Int /\ y = m * (y \div m) + (y % m)
    <2>1. y \in Int
      BY <1>2
    <2> HIDE DEF y
    <2> QED BY <1>1, <2>1
  <1>4. (x + b) % m \in 0..(m - 1) /\ (x + b) \div m \in Int
        /\ x + b = m * ((x + b) \div m) + ((x + b) % m)
    <2>1. x + b \in Int
      OBVIOUS
    <2> QED BY <1>1, <2>1
  <1>5. x + b = m * (x \div m) + y
    BY <1>2
  <1> HIDE DEF y
  <1> DEFINE d == x \div m
             e == y \div m
             f == (x + b) \div m
             u == y % m
             v == (x + b) % m
  <1>6. /\ d \in Int /\ e \in Int /\ f \in Int /\ u \in 0..(m - 1) /\ v \in 0..(m - 1)
        /\ m * d + (m * e + u) = m * f + v
    BY <1>2, <1>3, <1>4, <1>5
  <1> HIDE DEF d, e, f, u, v
  <1>7. m * (d + e) = m * d + m * e /\ d + e \in Int /\ m * d \in Int /\ m * e \in Int
    BY <1>6
  <1>8. m * (d + e) + u = m * f + v
    BY <1>6, <1>7
  <1>9. u = v
    BY <1>6, <1>7, <1>8, SameRemainder
  <1> QED BY <1>9 DEF u, v, y

\* The conversion to int16_t may be made before an addition, and of 0 it is 0.
LEMMA IdxPlus ==
  ASSUME NEW a \in Int, NEW b \in Int
  PROVE  Idx(a) \in Int /\ Idx(Idx(a) + b) = Idx(a + b) /\ Idx(0) = 0
  <1> DEFINE m == IdxRange
             half == IdxRange \div 2
  <1>1. m \in Nat \ {0} /\ half \in Int /\ 0 <= half /\ half < m
    BY DetectAssumption
  <1>2. \A z \in Int : Idx(z) = ((z + half) % m) - half /\ (z + half) % m \in Int
    BY <1>1 DEF Idx
  <1>3. Idx(a) \in Int
    BY <1>1, <1>2
  <1> HIDE DEF m, half
  <1>4. Idx(a) + b + half = ((a + half) % m) + b /\ (a + half) % m \in Int
    BY <1>1, <1>2
  <1>5. (((a + half) % m) + b) % m = (a + half + b) % m
    <2>1. a + half \in Int /\ m \in Nat \ {0}
      BY <1>1
    <2> QED BY <2>1, RemainderPlus
  <1>6. a + half + b = a + b + half /\ a + b \in Int /\ Idx(a) + b \in Int
    BY <1>1, <1>3
  <1>7. Idx(Idx(a) + b) = Idx(a + b)
    BY <1>2, <1>4, <1>5, <1>6
  <1>8. half % m = half
    BY <1>1
  <1> QED BY <1>1, <1>2, <1>3, <1>7, <1>8

-----------------------------------------------------------------------------
Tones == (Rows \union {None}) \X (Cols \union {None})

\* The runs that the code tracks: it skips blocks without a tone, and begins
\* the first run at index 0.  They are the events only of some audio.
ToneBlocks == {k \in DOMAIN heard : heard[k] # NoTone}
ToneBefore(k) == Max({0} \union {j \in ToneBlocks : j < k})
Runs == {k \in ToneBlocks : ToneBefore(k) = 0 \/ heard[ToneBefore(k)] # heard[k]}
RunEnd(k) == Max({j \in ToneBlocks : j >= k /\ ~\E m \in Runs : k < m /\ m <= j})
EventOf(k) == [start |-> IF ToneBefore(k) = 0 THEN 0 ELSE Idx((k - 1) * N),
               end   |-> IF ToneBefore(k) = 0 /\ RunEnd(k) = k THEN 0 ELSE Idx(RunEnd(k) * N),
               sym   |-> heard[k][1] + heard[k][2]]

\* The blocks with a tone, and before them 0.
LEMMA BlocksTyped ==
  ASSUME heard \in Seq(Tones)
  PROVE  /\ Len(heard) \in Nat
         /\ ToneBlocks \in SUBSET (1..Len(heard)) /\ Runs \in SUBSET ToneBlocks
         /\ \A k \in Int : /\ ToneBefore(k) \in ToneBlocks \union {0}
                           /\ ToneBefore(k) # 0 => ToneBefore(k) < k
                           /\ \A j \in ToneBlocks : j < k => j <= ToneBefore(k)
  <1>1. Len(heard) \in Nat /\ DOMAIN heard = 1..Len(heard)
    OBVIOUS
  <1>2. ToneBlocks \in SUBSET (1..Len(heard)) /\ Runs \in SUBSET ToneBlocks
    BY <1>1 DEF ToneBlocks, Runs
  <1> DEFINE n == Len(heard)
  <1>3. ASSUME NEW k \in Int
        PROVE  /\ ToneBefore(k) \in ToneBlocks \union {0}
               /\ ToneBefore(k) # 0 => ToneBefore(k) < k
               /\ \A j \in ToneBlocks : j < k => j <= ToneBefore(k)
    <2> DEFINE S == {0} \union {j \in ToneBlocks : j < k}
    <2>1. S \in SUBSET (0..n) /\ S # {} /\ n \in Nat
      <3>1. \A j \in 1..n : j \in 0..n
        BY <1>1
      <3>2. 0 \in 0..n
        BY <1>1
      <3> HIDE DEF n
      <3>3. n \in Nat /\ ToneBlocks \in SUBSET (1..n)
        BY <1>1, <1>2 DEF n
      <3> QED BY <3>1, <3>2, <3>3
    <2>2. ToneBefore(k) = Max(S)
      BY DEF ToneBefore
    <2>3. Max(S) \in S /\ \A y \in S : y <= Max(S)
      <3> HIDE DEF S, n
      <3> QED BY <2>1, MaxExists
    <2> HIDE DEF n
    <2> QED BY <2>2, <2>3
  <1> QED BY <1>1, <1>2, <1>3

\* The end of a run among the blocks with a tone and the runs.
EndIn(blocks, runs, k) ==
  Max({j \in blocks : j >= k /\ ~\E m \in runs : k < m /\ m <= j})

\* The last run reaches the last tone.
LEMMA LastEnd ==
  ASSUME NEW blocks, blocks \subseteq Int, NEW t \in blocks, \A j \in blocks : j <= t,
         NEW runs, runs \subseteq blocks, NEW r \in runs, \A k \in runs : k <= r
  PROVE  EndIn(blocks, runs, r) = t
  <1> DEFINE S == {j \in blocks : j >= r /\ ~\E m \in runs : r < m /\ m <= j}
  <1>2. S \subseteq Int
    OBVIOUS
  <1>3. t \in S
    <2>1. r <= t /\ ~\E m \in runs : r < m
      OBVIOUS
    <2> QED BY <2>1
  <1>4. \A y \in S : y <= t
    OBVIOUS
  <1>5. Max(S) = t
    <2> HIDE DEF S
    <2> QED BY <1>2, <1>3, <1>4, MaxIs
  <1> QED BY <1>5 DEF EndIn

\* A block without a tone changes no run.
LEMMA SilentBlock ==
  ASSUME heard \in Seq(Tones), heard' = Append(heard, NoTone)
  PROVE  /\ ToneBlocks' = ToneBlocks /\ Runs' = Runs
         /\ \A k \in ToneBlocks : heard'[k] = heard[k]
         /\ \A k \in Runs : ToneBefore(k)' = ToneBefore(k) /\ RunEnd(k)' = RunEnd(k)
  <1>1. /\ Len(heard) \in Nat /\ DOMAIN heard = 1..Len(heard) /\ DOMAIN heard' = 1..(Len(heard) + 1)
        /\ heard'[Len(heard) + 1] = NoTone
        /\ \A k \in 1..Len(heard) : heard'[k] = heard[k]
    OBVIOUS
  <1>2. ToneBlocks' = ToneBlocks
    <2>1. ToneBlocks' = {k \in DOMAIN heard' : heard'[k] # NoTone}
      BY DEF ToneBlocks
    <2> QED BY <1>1, <2>1 DEF ToneBlocks
  <1>3. \A k \in Int : ToneBefore(k)' = ToneBefore(k)
    <2> SUFFICES ASSUME NEW k \in Int PROVE ToneBefore(k)' = ToneBefore(k)
      OBVIOUS
    <2>1. ToneBefore(k)' = Max({0} \union {j \in ToneBlocks' : j < k})
      BY DEF ToneBefore
    <2> QED BY <1>2, <2>1 DEF ToneBefore
  <1>4. ToneBlocks \in SUBSET (1..Len(heard)) /\ Runs \in SUBSET ToneBlocks
        /\ \A k \in ToneBlocks : ToneBefore(k) \in ToneBlocks \union {0}
    BY BlocksTyped
  <1>5. Runs' = Runs
    <2>1. Runs' = {k \in ToneBlocks' : ToneBefore(k)' = 0 \/ heard'[ToneBefore(k)'] # heard'[k]}
      BY DEF Runs
    <2>2. \A k \in ToneBlocks : (ToneBefore(k) = 0 \/ heard'[ToneBefore(k)] # heard'[k])
                                <=> (ToneBefore(k) = 0 \/ heard[ToneBefore(k)] # heard[k])
      BY <1>1, <1>4
    <2>3. \A k \in ToneBlocks : ToneBefore(k)' = ToneBefore(k)
      BY <1>3, <1>4
    <2> QED BY <1>2, <2>1, <2>2, <2>3 DEF Runs
  <1>6. \A k \in Runs : RunEnd(k)' = RunEnd(k)
    <2> SUFFICES ASSUME NEW k \in Runs PROVE RunEnd(k)' = RunEnd(k)
      OBVIOUS
    <2>1. RunEnd(k)' = Max({j \in ToneBlocks' : j >= k /\ ~\E m \in Runs' : k < m /\ m <= j})
      BY DEF RunEnd
    <2> QED BY <1>2, <1>5, <2>1 DEF RunEnd
  <1>7. \A k \in ToneBlocks : heard'[k] = heard[k]
    BY <1>1, <1>4
  <1>8. \A k \in Runs : ToneBefore(k)' = ToneBefore(k)
    BY <1>3, <1>4
  <1> QED BY <1>2, <1>5, <1>6, <1>7, <1>8

\* A block with a tone: it joins the run of the same tone, or begins one.
LEMMA ToneHeard ==
  ASSUME heard \in Seq(Tones), NEW x, x # NoTone, heard' = Append(heard, x)
  PROVE  /\ ToneBlocks' = ToneBlocks \union {Len(heard) + 1}
         /\ \A k \in ToneBlocks : heard'[k] = heard[k]
         /\ heard'[Len(heard) + 1] = x
         /\ \A k \in ToneBlocks \union {Len(heard) + 1} : ToneBefore(k)' = ToneBefore(k)
         /\ Runs' = Runs \union
              IF ToneBefore(Len(heard) + 1) = 0 \/ heard[ToneBefore(Len(heard) + 1)] # x
              THEN {Len(heard) + 1} ELSE {}
  <1> DEFINE n == Len(heard) + 1
  <1>1. /\ Len(heard) \in Nat /\ DOMAIN heard = 1..Len(heard) /\ DOMAIN heard' = 1..n
        /\ heard'[n] = x
        /\ \A k \in 1..Len(heard) : heard'[k] = heard[k]
    OBVIOUS
  <1>2. ToneBlocks' = ToneBlocks \union {n}
    <2>1. ToneBlocks' = {k \in DOMAIN heard' : heard'[k] # NoTone}
      BY DEF ToneBlocks
    <2>2. DOMAIN heard' = DOMAIN heard \union {n}
      BY <1>1
    <2> QED BY <1>1, <2>1, <2>2 DEF ToneBlocks
  <1>3. ToneBlocks \in SUBSET (1..Len(heard)) /\ Runs \in SUBSET ToneBlocks
        /\ \A k \in Int : ToneBefore(k) \in ToneBlocks \union {0}
    BY BlocksTyped
  <1>4. n \in Int /\ ToneBlocks \subseteq Int /\ \A k \in ToneBlocks \union {n} : k <= n /\ k \in Int
    BY <1>1, <1>3
  <1>5. \A k \in ToneBlocks \union {n} : ToneBefore(k)' = ToneBefore(k)
    <2> SUFFICES ASSUME NEW k \in ToneBlocks \union {n} PROVE ToneBefore(k)' = ToneBefore(k)
      OBVIOUS
    <2>1. ToneBefore(k)' = Max({0} \union {j \in ToneBlocks' : j < k})
      BY DEF ToneBefore
    <2>2. {j \in ToneBlocks' : j < k} = {j \in ToneBlocks : j < k}
      <3>1. ~(n < k)
        BY <1>4
      <3> HIDE DEF n
      <3> QED BY <1>2, <3>1
    <2> QED BY <2>1, <2>2 DEF ToneBefore
  <1>6. Runs' = Runs \union (IF ToneBefore(n) = 0 \/ heard[ToneBefore(n)] # x THEN {n} ELSE {})
    <2>1. Runs' = {k \in ToneBlocks' : ToneBefore(k)' = 0 \/ heard'[ToneBefore(k)'] # heard'[k]}
      BY DEF Runs
    <2>2. \A k \in ToneBlocks : (ToneBefore(k) = 0 \/ heard'[ToneBefore(k)] # heard'[k])
                                <=> (ToneBefore(k) = 0 \/ heard[ToneBefore(k)] # heard[k])
      BY <1>1, <1>3, <1>4
    <2>3. ToneBefore(n) # 0 => heard'[ToneBefore(n)] = heard[ToneBefore(n)]
      BY <1>1, <1>3, <1>4
    <2> HIDE DEF n
    <2>4. n \notin ToneBlocks
      BY <1>1, <1>3 DEF n
    <2>5. \A k \in ToneBlocks : k \in Runs' <=> k \in Runs
      <3>1. \A k \in ToneBlocks : k \in Runs <=> (ToneBefore(k) = 0 \/ heard[ToneBefore(k)] # heard[k])
        BY DEF Runs
      <3>2. \A k \in ToneBlocks : k \in Runs' <=> (ToneBefore(k) = 0 \/ heard'[ToneBefore(k)] # heard'[k])
        BY <1>2, <1>5, <2>1
      <3> QED BY <2>2, <3>1, <3>2
    <2>6. n \in Runs' <=> (ToneBefore(n) = 0 \/ heard[ToneBefore(n)] # x)
      <3>1. n \in Runs' <=> (ToneBefore(n) = 0 \/ heard'[ToneBefore(n)] # heard'[n])
        BY <1>2, <1>5, <2>1
      <3> QED BY <1>1, <2>3, <3>1
    <2>7. Runs' \subseteq ToneBlocks \union {n} /\ Runs \subseteq ToneBlocks
      BY <1>2, <1>3, <2>1
    <2> QED BY <2>4, <2>5, <2>6, <2>7
  <1> HIDE DEF n
  <1> QED BY <1>1, <1>2, <1>3, <1>5, <1>6 DEF n

\* What describes a run of those before the last one stays as it was.
LEMMA EventKept ==
  ASSUME heard \in Seq(Tones), N' = N, NEW x, x # NoTone, heard' = Append(heard, x),
         NEW k \in Runs, NEW m \in Runs', k < m
  PROVE  EventOf(k)' = EventOf(k)
  <1> DEFINE n == Len(heard) + 1
  <1>1. /\ Len(heard) \in Nat /\ ToneBlocks \in SUBSET (1..Len(heard)) /\ Runs \in SUBSET ToneBlocks
    BY BlocksTyped
  <1>2. /\ ToneBlocks' = ToneBlocks \union {n} /\ heard'[k] = heard[k]
        /\ ToneBefore(k)' = ToneBefore(k)
        /\ Runs \subseteq Runs' /\ Runs' \subseteq Runs \union {n}
    BY <1>1, ToneHeard
  <1>3. RunEnd(k)' = EndIn(ToneBlocks', Runs', k) /\ RunEnd(k) = EndIn(ToneBlocks, Runs, k)
    BY DEF RunEnd, EndIn
  <1>4. ToneBlocks \subseteq Int /\ n \in Int /\ \A j \in ToneBlocks : j < n
    BY <1>1
  <1>5. RunEnd(k)' = RunEnd(k)
    <2> HIDE DEF n
    <2>1. m <= n /\ m \in Int /\ k \in Int
      BY <1>1, <1>2, <1>4
    <2>2. \E i \in Runs' : k < i /\ i <= n
      BY <2>1
    <2>3. \A j \in ToneBlocks : (\E i \in Runs' : k < i /\ i <= j) <=> (\E i \in Runs : k < i /\ i <= j)
      BY <1>1, <1>2, <1>4
    <2>4. {j \in ToneBlocks' : j >= k /\ ~\E i \in Runs' : k < i /\ i <= j}
          = {j \in ToneBlocks : j >= k /\ ~\E i \in Runs : k < i /\ i <= j}
      BY <1>2, <2>2, <2>3
    <2> QED BY <1>3, <2>4 DEF EndIn
  <1> HIDE DEF n
  <1> QED BY <1>2, <1>5 DEF EventOf

\* The elements of a sequence are those of a function, in the order of its
\* arguments in a set of numbers.
InOrder(L, S, e) ==
  /\ Len(L) = Cardinality(S)
  /\ \A k \in S : L[Cardinality({j \in S : j <= k})] = e[k]

\* One more argument, after the others, is one more element.
LEMMA OneMoreLine ==
  ASSUME NEW S, NEW E, NEW L \in Seq(E), NEW e, NEW r \in Int,
         IsFiniteSet(S), S \subseteq Int, \A k \in S : k < r, e[r] \in E, InOrder(L, S, e)
  PROVE  InOrder(Append(L, e[r]), S \union {r}, e)
  <1> DEFINE z == e[r]
  <1>0. z \in E
    OBVIOUS
  <1> HIDE DEF z
  <1>1. /\ Len(L) \in Nat /\ Len(Append(L, z)) = Len(L) + 1 /\ Append(L, z)[Len(L) + 1] = z
        /\ \A i \in 1..Len(L) : Append(L, z)[i] = L[i]
    BY <1>0
  <1>2. r \notin S /\ \A k \in S : k \in Int
    OBVIOUS
  <1>3. Cardinality(S \union {r}) = Len(L) + 1
    BY <1>2, FS_AddElement DEF InOrder
  <1>4. {j \in S \union {r} : j <= r} = S \union {r}
    <2>1. \A j \in S \union {r} : j <= r
      BY <1>2
    <2> QED BY <2>1
  <1>5. ASSUME NEW k \in S
        PROVE  Append(L, z)[Cardinality({j \in S \union {r} : j <= k})] = e[k]
    <2> DEFINE T == {j \in S : j <= k}
    <2>1. {j \in S \union {r} : j <= k} = T
      <3>1. ~(r <= k)
        BY <1>2
      <3> QED BY <3>1
    <2>2. T \subseteq S /\ k \in T
      BY <1>2
    <2>3. L[Cardinality(T)] = e[k] /\ Len(L) = Cardinality(S)
      BY DEF InOrder
    <2> HIDE DEF T
    <2>4. IsFiniteSet(T) /\ Cardinality(T) <= Cardinality(S)
      BY <2>2, FS_Subset
    <2>5. Cardinality(T) \in Nat /\ Cardinality(T) # 0
      BY <2>2, <2>4, FS_CardinalityType, FS_EmptySet
    <2>6. Cardinality(T) \in 1..Len(L)
      BY <1>1, <2>3, <2>4, <2>5
    <2> QED BY <1>1, <2>1, <2>3, <2>6
  <1>6. ASSUME NEW k \in S \union {r}
        PROVE  Append(L, z)[Cardinality({j \in S \union {r} : j <= k})] = e[k]
    <2>1. CASE k \in S
      BY <1>5, <2>1
    <2>2. CASE k = r
      BY <1>1, <1>3, <1>4, <2>2 DEF z
    <2> QED BY <2>1, <2>2
  <1> QED BY <1>1, <1>3, <1>6 DEF InOrder, z

-----------------------------------------------------------------------------
Events == [start : Int, end : Int, sym : {tone[1] + tone[2] : tone \in Tones}]

LongBut(r) == {k \in Runs \ {r} : EventOf(k).end - EventOf(k).start >= MinSamples}

LinesUpTo(r) ==
  /\ Len(lines) = Cardinality(LongBut(r))
  /\ \A k \in LongBut(r) : lines[Cardinality({j \in LongBut(r) : j <= k})] = EventOf(k)

\* The last tone t and the last run r, which the variables describe.
InProgress(t, r) ==
  /\ t \in ToneBlocks /\ \A j \in ToneBlocks : j <= t
  /\ r \in Runs /\ \A k \in Runs : k <= r
  /\ heard[t] = prevTone /\ heard[r] = prevTone
  /\ startIdx = EventOf(r).start /\ endIdx = EventOf(r).end
  /\ LinesUpTo(r)

TrackType ==
  /\ N \in Nat /\ heard \in Seq(Tones) /\ lines \in Seq(Events)
  /\ dat = "idle" => heard = <<>>
  /\ curIdx = Idx(Len(heard) * N)

TrackInv ==
  /\ TrackType
  /\ ToneBlocks = {} => startIdx = 0 /\ endIdx = 0 /\ lines = <<>> /\ prevTone = NoTone
  /\ ToneBlocks # {} => \E t \in ToneBlocks, r \in Runs : InProgress(t, r)

\* The event of a run, as a record.
LEMMA EventTyped ==
  ASSUME TrackType, NEW k \in Runs
  PROVE  EventOf(k) \in Events
  <1>1. heard \in Seq(Tones) /\ N \in Int
    BY DEF TrackType
  <1>2. ToneBlocks \in SUBSET (1..Len(heard)) /\ Runs \in SUBSET ToneBlocks
    BY <1>1, BlocksTyped
  <1>3. k \in 1..Len(heard) /\ k \in ToneBlocks
    BY <1>2
  <1>4. heard[k] \in Tones
    BY <1>1, <1>3
  <1>5. RunEnd(k) \in Int
    <2> DEFINE S == {j \in ToneBlocks : j >= k /\ ~\E m \in Runs : k < m /\ m <= j}
    <2>1. k \in S
      BY <1>2, <1>3
    <2>2. S \in SUBSET (0..Len(heard)) /\ Len(heard) \in Nat
      <3>1. Len(heard) \in Nat /\ \A j \in 1..Len(heard) : j \in 0..Len(heard)
        BY <1>1
      <3>2. S \subseteq 1..Len(heard)
        BY <1>2
      <3> HIDE DEF S
      <3> QED BY <3>1, <3>2
    <2>3. RunEnd(k) = Max(S)
      BY DEF RunEnd
    <2> HIDE DEF S
    <2>4. Max(S) \in S
      BY <2>1, <2>2, MaxExists
    <2>5. Max(S) \in 0..Len(heard)
      BY <2>2, <2>4
    <2> QED BY <2>2, <2>3, <2>5
  <1>6. (k - 1) * N \in Int /\ RunEnd(k) * N \in Int
    BY <1>1, <1>3, <1>5
  <1>7. Idx((k - 1) * N) \in Int /\ Idx(RunEnd(k) * N) \in Int
    BY <1>6, IdxPlus
  <1>8. heard[k][1] + heard[k][2] \in {tone[1] + tone[2] : tone \in Tones}
    BY <1>4
  <1> DEFINE e == EventOf(k)
             a == IF ToneBefore(k) = 0 THEN 0 ELSE Idx((k - 1) * N)
             b == IF ToneBefore(k) = 0 /\ RunEnd(k) = k THEN 0 ELSE Idx(RunEnd(k) * N)
             c == heard[k][1] + heard[k][2]
  <1>9. e = [start |-> a, end |-> b, sym |-> c]
    BY DEF EventOf
  <1>10. a \in Int /\ b \in Int
    BY <1>7
  <1> HIDE DEF e, a, b, c
  <1>11. c \in {tone[1] + tone[2] : tone \in Tones}
    BY <1>8 DEF c
  <1>12. e \in Events
    BY <1>9, <1>10, <1>11 DEF Events
  <1> QED BY <1>12 DEF e

\* The runs before run r keep their events, and so their lines.
LEMMA LinesKept ==
  ASSUME NEW r, LinesUpTo(r), lines' = lines, Runs' \ {r} = Runs \ {r},
         \A k \in Runs \ {r} : EventOf(k)' = EventOf(k)
  PROVE  LinesUpTo(r)'
  <1>1. LongBut(r)' = LongBut(r)
    <2>1. LongBut(r)' = {k \in Runs' \ {r} : EventOf(k)'.end - EventOf(k)'.start >= MinSamples}
      BY DEF LongBut
    <2>2. \A k \in Runs \ {r} : (EventOf(k)'.end - EventOf(k)'.start >= MinSamples)
                                <=> (EventOf(k).end - EventOf(k).start >= MinSamples)
      OBVIOUS
    <2> QED BY <2>1, <2>2 DEF LongBut
  <1>2. LongBut(r) \subseteq Runs \ {r}
    BY DEF LongBut
  <1>3. /\ Len(lines') = Cardinality(LongBut(r)')
        /\ \A k \in LongBut(r)' : lines'[Cardinality({j \in LongBut(r)' : j <= k})] = EventOf(k)'
    BY <1>1, <1>2 DEF LinesUpTo
  <1> QED BY <1>3 DEF LinesUpTo

\* A block without a tone.
LEMMA TrackSilent ==
  ASSUME TrackInv, TrackType', heard' = Append(heard, NoTone),
         UNCHANGED <<N, startIdx, endIdx, prevTone, lines>>
  PROVE  TrackInv'
  <1>1. heard \in Seq(Tones) /\ TrackType
    BY DEF TrackInv, TrackType
  <1>2. /\ ToneBlocks' = ToneBlocks /\ Runs' = Runs
        /\ \A k \in ToneBlocks : heard'[k] = heard[k]
        /\ \A k \in Runs : ToneBefore(k)' = ToneBefore(k) /\ RunEnd(k)' = RunEnd(k)
    BY <1>1, SilentBlock
  <1>3. Runs \subseteq ToneBlocks
    BY DEF Runs
  <1>4. \A k \in Runs : EventOf(k)' = EventOf(k)
    <2> SUFFICES ASSUME NEW k \in Runs PROVE EventOf(k)' = EventOf(k)
      OBVIOUS
    <2>1. heard'[k] = heard[k] /\ ToneBefore(k)' = ToneBefore(k) /\ RunEnd(k)' = RunEnd(k)
      BY <1>2, <1>3
    <2> QED BY <2>1 DEF EventOf
  <1>5. ASSUME NEW t \in ToneBlocks, NEW r \in Runs, InProgress(t, r)
        PROVE  InProgress(t, r)'
    <2>1. LinesUpTo(r)'
      BY <1>2, <1>4, <1>5, LinesKept DEF InProgress
    <2>2. EventOf(r)' = EventOf(r) /\ heard'[t] = heard[t] /\ heard'[r] = heard[r]
      BY <1>2, <1>3, <1>4
    <2> QED BY <1>2, <1>5, <2>1, <2>2 DEF InProgress
  <1>6. ToneBlocks # {} => \E t \in ToneBlocks, r \in Runs : InProgress(t, r)'
    BY <1>5 DEF TrackInv
  <1>7. ToneBlocks = {} => startIdx = 0 /\ endIdx = 0 /\ lines = <<>> /\ prevTone = NoTone
    BY DEF TrackInv
  <1> QED BY <1>2, <1>6, <1>7 DEF TrackInv

\* The first block with a tone begins the first run.
LEMMA TrackFirst ==
  ASSUME TrackInv, TrackType', NEW n, n = Len(heard) + 1,
         NEW x, x # NoTone, heard' = Append(heard, x), N' = N, FirstTone(x)
  PROVE  TrackInv'
  <1>1. heard \in Seq(Tones) /\ TrackType
    BY DEF TrackInv, TrackType
  <1>2. ToneBlocks = {}
    <2>1. ASSUME NEW t \in ToneBlocks, NEW r \in Runs, InProgress(t, r) PROVE FALSE
      BY <2>1 DEF InProgress, ToneBlocks, FirstTone
    <2> QED BY <2>1 DEF TrackInv
  <1>3. startIdx = 0 /\ endIdx = 0 /\ lines = <<>>
    BY <1>2 DEF TrackInv
  <1>4. Len(heard) \in Nat /\ ToneBefore(n) = 0 /\ Runs = {}
    BY <1>1, <1>2, BlocksTyped
  <1>5. /\ ToneBlocks' = {n} /\ Runs' = {n} /\ ToneBefore(n)' = 0 /\ heard'[n] = x
    BY <1>1, <1>2, <1>4, ToneHeard
  <1> n \in Int
    BY <1>4
  <1>6. RunEnd(n)' = n
    <2>1. RunEnd(n)' = EndIn(ToneBlocks', Runs', n)
      BY DEF RunEnd, EndIn
    <2>2. EndIn({n}, {n}, n) = n
      <3>1. {j \in {n} : j >= n /\ ~\E m \in {n} : n < m /\ m <= j} = {n}
        OBVIOUS
      <3>2. Max({n}) = n
        BY MaxIs
      <3> QED BY <3>1, <3>2 DEF EndIn
    <2> QED BY <1>5, <2>1, <2>2
  <1>7. EventOf(n)' = [start |-> 0, end |-> 0, sym |-> x[1] + x[2]]
    BY <1>5, <1>6 DEF EventOf
  <1>8. LinesUpTo(n)'
    <2>1. LongBut(n)' = {}
      BY <1>5 DEF LongBut
    <2>2. lines' = <<>> /\ Len(lines') = 0
      BY <1>3 DEF FirstTone
    <2> QED BY <2>1, <2>2, FS_EmptySet DEF LinesUpTo
  <1>9. InProgress(n, n)'
    BY <1>3, <1>5, <1>7, <1>8 DEF InProgress, FirstTone
  <1> QED BY <1>5, <1>9 DEF TrackInv

\* What is known of the run in progress when a block with a tone follows.
LEMMA TrackNext ==
  ASSUME TrackInv, NEW n, n = Len(heard) + 1,
         NEW x, x # NoTone, heard' = Append(heard, x), prevTone # NoTone
  PROVE  \E t \in ToneBlocks, r \in Runs :
           /\ InProgress(t, r) /\ r <= t /\ t <= Len(heard)
           /\ ToneBlocks' = ToneBlocks \union {n}
           /\ Runs' = Runs \union (IF prevTone # x THEN {n} ELSE {})
           /\ \A k \in ToneBlocks : heard'[k] = heard[k] /\ ToneBefore(k)' = ToneBefore(k)
           /\ heard'[n] = x /\ ToneBefore(n)' = t
  <1>1. heard \in Seq(Tones)
    BY DEF TrackInv, TrackType
  <1>2. PICK t \in ToneBlocks, r \in Runs : InProgress(t, r)
    BY DEF TrackInv
  <1>3. /\ Len(heard) \in Nat /\ ToneBlocks \in SUBSET (1..Len(heard)) /\ Runs \in SUBSET ToneBlocks
        /\ \A k \in Int : /\ ToneBefore(k) \in ToneBlocks \union {0}
                          /\ ToneBefore(k) # 0 => ToneBefore(k) < k
                          /\ \A j \in ToneBlocks : j < k => j <= ToneBefore(k)
    BY <1>1, BlocksTyped
  <1>4. r <= t /\ t <= Len(heard) /\ t > 0 /\ t \in Int /\ n \in Int /\ t < n
    BY <1>2, <1>3 DEF InProgress
  <1>5. ToneBefore(n) = t
    <2>1. t <= ToneBefore(n) /\ ToneBefore(n) \in ToneBlocks \union {0}
      BY <1>3, <1>4
    <2>2. ToneBefore(n) \in ToneBlocks /\ ToneBefore(n) \in Int
      <3>1. ToneBefore(n) # 0
        BY <1>4, <2>1
      <3>2. ToneBlocks \subseteq Int
        BY <1>3
      <3> QED BY <2>1, <3>1, <3>2
    <2>3. ToneBefore(n) <= t
      BY <1>2, <2>2 DEF InProgress
    <2> QED BY <1>4, <2>1, <2>2, <2>3
  <1>6. heard[t] = prevTone
    BY <1>2 DEF InProgress
  <1>7. /\ ToneBlocks' = ToneBlocks \union {n}
        /\ \A k \in ToneBlocks : heard'[k] = heard[k]
        /\ heard'[n] = x
        /\ \A k \in ToneBlocks \union {n} : ToneBefore(k)' = ToneBefore(k)
        /\ Runs' = Runs \union IF ToneBefore(n) = 0 \/ heard[ToneBefore(n)] # x THEN {n} ELSE {}
    BY <1>1, ToneHeard
  <1>8. t # 0
    BY <1>4
  <1>9. Runs' = Runs \union (IF prevTone # x THEN {n} ELSE {})
    BY <1>5, <1>6, <1>7, <1>8
  <1>10. ToneBefore(n)' = t /\ \A k \in ToneBlocks : heard'[k] = heard[k] /\ ToneBefore(k)' = ToneBefore(k)
    BY <1>5, <1>7
  <1> QED BY <1>2, <1>4, <1>7, <1>9, <1>10

\* The indices of the blocks, whatever wraps around.
LEMMA BlockIndex ==
  ASSUME TrackType, NEW n, n = Len(heard) + 1
  PROVE  /\ n \in Nat \ {0} /\ Idx(curIdx + N) = Idx(n * N)
         /\ Idx(Idx(curIdx + N) - N) = Idx((n - 1) * N)
  <1>1. heard \in Seq(Tones) /\ Len(heard) \in Nat /\ N \in Int
    BY DEF TrackType
  <1> DEFINE m == (n - 1) * N
  <1>2. n * N = m + N /\ m \in Int /\ curIdx = Idx(m) /\ n \in Nat \ {0}
    BY <1>1 DEF TrackType
  <1> HIDE DEF m
  <1>3. Idx(curIdx + N) = Idx(m + N)
    BY <1>1, <1>2, IdxPlus
  <1>4. Idx(Idx(m + N) + (-N)) = Idx((m + N) + (-N))
    <2>1. m + N \in Int /\ -N \in Int
      BY <1>1, <1>2
    <2> QED BY <2>1, IdxPlus
  <1>5. Idx(m + N) \in Int
    <2>1. m + N \in Int
      BY <1>1, <1>2
    <2> QED BY <2>1, IdxPlus
  <1>6. Idx(m + N) + (-N) = Idx(m + N) - N /\ (m + N) + (-N) = m
    BY <1>1, <1>2, <1>5
  <1> QED BY <1>2, <1>3, <1>4, <1>6 DEF m

\* A block with the tone of the run in progress carries it on.
LEMMA TrackSame ==
  ASSUME TrackInv, TrackType', NEW n, n = Len(heard) + 1,
         NEW x, x # NoTone, heard' = Append(heard, x), N' = N, SameTone(x, Idx(curIdx + N))
  PROVE  TrackInv'
  <1>1. heard \in Seq(Tones) /\ TrackType
    BY DEF TrackInv, TrackType
  <1>2. prevTone = x /\ prevTone' = x /\ endIdx' = Idx(curIdx + N) /\ startIdx' = startIdx /\ lines' = lines
    BY DEF SameTone
  <1>3. PICK t \in ToneBlocks, r \in Runs :
          /\ InProgress(t, r) /\ r <= t /\ t <= Len(heard)
          /\ ToneBlocks' = ToneBlocks \union {n}
          /\ Runs' = Runs \union (IF prevTone # x THEN {n} ELSE {})
          /\ \A k \in ToneBlocks : heard'[k] = heard[k] /\ ToneBefore(k)' = ToneBefore(k)
          /\ heard'[n] = x /\ ToneBefore(n)' = t
    BY <1>2, TrackNext
  <1>4. Runs' = Runs
    BY <1>2, <1>3
  <1>5. /\ Len(heard) \in Nat /\ ToneBlocks \in SUBSET (1..Len(heard)) /\ Runs \in SUBSET ToneBlocks
    BY <1>1, BlocksTyped
  <1>6. /\ n \in Int /\ r \in Int /\ r # n /\ r \in ToneBlocks
        /\ ToneBlocks' \subseteq Int /\ \A j \in ToneBlocks' : j <= n
    <2>1. n \in Int /\ r \in ToneBlocks /\ ToneBlocks \subseteq Int /\ \A j \in ToneBlocks : j < n
      BY <1>5
    <2>2. r \in Int /\ r < n
      BY <2>1
    <2>3. ToneBlocks' = ToneBlocks \union {n}
      BY <1>3
    <2>4. \A j \in ToneBlocks' : j \in Int /\ j <= n
      BY <2>1, <2>3
    <2> QED BY <2>1, <2>2, <2>4
  <1>7. \A k \in Runs : k <= r
    BY <1>3 DEF InProgress
  <1>8. RunEnd(r)' = n
    <2> DEFINE S == {j \in ToneBlocks' : j >= r /\ ~\E m \in Runs' : r < m /\ m <= j}
    <2>1. ~\E m \in Runs' : r < m
      <3>1. \A k \in Runs : k \in Int
        BY <1>5
      <3>2. \A k \in Runs : ~(r < k)
        BY <1>6, <1>7, <3>1
      <3> QED BY <1>4, <3>2
    <2>2. n \in S
      BY <1>3, <1>5, <1>6, <2>1
    <2>3. S \subseteq Int /\ \A j \in S : j <= n
      BY <1>6
    <2>4. RunEnd(r)' = Max(S)
      BY DEF RunEnd
    <2> HIDE DEF S
    <2> QED BY <2>2, <2>3, <2>4, MaxIs
  <1>9. heard'[r] = heard[r] /\ heard[r] = x /\ ToneBefore(r)' = ToneBefore(r)
    BY <1>2, <1>3, <1>6 DEF InProgress
  <1>10. EventOf(r)'.start = EventOf(r).start /\ EventOf(r)'.end = Idx(n * N)
    BY <1>6, <1>8, <1>9 DEF EventOf
  <1>11. LinesUpTo(r)'
    <2>1. ASSUME NEW k \in Runs \ {r} PROVE EventOf(k)' = EventOf(k)
      <3>1. k < r /\ r \in Runs'
        BY <1>4, <1>5, <1>6, <1>7
      <3> QED BY <1>1, <3>1, EventKept
    <2> QED BY <1>2, <1>3, <1>4, <2>1, LinesKept DEF InProgress
  <1>12. Idx(curIdx + N) = Idx(n * N)
    BY <1>1, BlockIndex
  <1>13. startIdx' = EventOf(r)'.start /\ endIdx' = EventOf(r)'.end
    BY <1>2, <1>3, <1>10, <1>12 DEF InProgress
  <1>14. \A k \in Runs' : k <= r
    BY <1>4, <1>7
  <1>15. n \in ToneBlocks' /\ r \in Runs'
    BY <1>3, <1>4
  <1>16. InProgress(n, r)'
    BY <1>2, <1>3, <1>6, <1>9, <1>11, <1>13, <1>14, <1>15 DEF InProgress
  <1> QED BY <1>15, <1>16 DEF TrackInv

\* The line that is printed for the run that ends, if it is long enough.
LEMMA OtherLine ==
  ASSUME TrackType, NEW t, NEW r, InProgress(t, r), NEW x, OtherTone(x, Idx(curIdx + N))
  PROVE  lines' = IF EventOf(r).end - EventOf(r).start >= MinSamples
                  THEN Append(lines, EventOf(r)) ELSE lines
  <1>1. EventOf(r) = [start |-> startIdx, end |-> endIdx, sym |-> prevTone[1] + prevTone[2]]
    BY DEF InProgress, EventOf
  <1>2. EventOf(r).end = endIdx /\ EventOf(r).start = startIdx
    BY DEF InProgress
  <1> QED BY <1>1, <1>2 DEF OtherTone

\* The lines when run n follows run r, whose event may be one line more.
LEMMA LinesGrow ==
  ASSUME TrackType, NEW r \in Runs, LinesUpTo(r), \A k \in Runs : k <= r,
         NEW n, Runs' = Runs \union {n}, n \notin Runs,
         \A k \in Runs : EventOf(k)' = EventOf(k),
         lines' = IF EventOf(r).end - EventOf(r).start >= MinSamples
                  THEN Append(lines, EventOf(r)) ELSE lines
  PROVE  LinesUpTo(n)' /\ lines' \in Seq(Events)
  <1> DEFINE S == LongBut(r)
             long == EventOf(r).end - EventOf(r).start >= MinSamples
             e == [k \in Runs |-> EventOf(k)]
             T == LongBut(n)'
  <1>1. heard \in Seq(Tones) /\ lines \in Seq(Events) /\ Len(heard) \in Nat
    BY DEF TrackType
  <1>2. ToneBlocks \in SUBSET (1..Len(heard)) /\ Runs \in SUBSET ToneBlocks
    BY <1>1, BlocksTyped
  <1>3. \A k \in Runs : EventOf(k) \in Events
    BY EventTyped
  <1>4. S \subseteq Runs \ {r}
    BY DEF LongBut
  <1>5. IsFiniteSet(S)
    <2> HIDE DEF S
    <2>1. S \subseteq 1..Len(heard) /\ 1 \in Int
      BY <1>2, <1>4
    <2>2. IsFiniteSet(1..Len(heard))
      BY <1>1, FS_Interval
    <2> QED BY <2>1, <2>2, FS_Subset
  <1>6. S \subseteq Int /\ r \in Int /\ \A k \in S : k < r
    <2>1. Runs \subseteq Int
      BY <1>2
    <2> HIDE DEF S
    <2> QED BY <1>4, <2>1
  <1>7. T = IF long THEN S \union {r} ELSE S
    <2>1. T = {k \in Runs' \ {n} : EventOf(k)'.end - EventOf(k)'.start >= MinSamples}
      BY DEF LongBut
    <2>2. Runs' \ {n} = Runs
      OBVIOUS
    <2>3. T = {k \in Runs : EventOf(k).end - EventOf(k).start >= MinSamples}
      BY <2>1, <2>2
    <2> HIDE DEF T
    <2> QED BY <2>3 DEF LongBut
  <1>8. InOrder(lines, S, e)
    <2>1. \A k \in S : lines[Cardinality({j \in S : j <= k})] = e[k]
      BY <1>4 DEF LinesUpTo
    <2>2. Len(lines) = Cardinality(S)
      BY DEF LinesUpTo
    <2> HIDE DEF S, e
    <2> QED BY <2>1, <2>2 DEF InOrder
  <1>9. e[r] = EventOf(r) /\ e[r] \in Events
    BY <1>3
  <1>10. T \subseteq Runs /\ \A k \in Runs : EventOf(k)' = e[k]
    BY <1>4, <1>7
  <1>11. lines' = IF long THEN Append(lines, e[r]) ELSE lines
    BY <1>9
  <1>12. InOrder(lines', T, e)
    <2> HIDE DEF S, e, T, long
    <2>1. CASE long
      <3>1. lines \in Seq(Events) /\ r \in Int /\ IsFiniteSet(S) /\ S \subseteq Int /\ \A k \in S : k < r
        BY <1>1, <1>5, <1>6
      <3>2. InOrder(Append(lines, e[r]), S \union {r}, e)
        BY <1>8, <1>9, <3>1, OneMoreLine
      <3> QED BY <1>7, <1>11, <2>1, <3>2
    <2>2. CASE ~long
      BY <1>7, <1>8, <1>11, <2>2
    <2> QED BY <2>1, <2>2
  <1>13. LinesUpTo(n)'
    <2>1. Len(lines') = Cardinality(T) /\ \A k \in T : lines'[Cardinality({j \in T : j <= k})] = EventOf(k)'
      <3> HIDE DEF T, e
      <3> QED BY <1>10, <1>12 DEF InOrder
    <2> QED BY <2>1 DEF LinesUpTo
  <1>14. lines' \in Seq(Events)
    <2> DEFINE z == EventOf(r)
    <2>1. lines' = lines \/ lines' = Append(lines, z)
      OBVIOUS
    <2>2. z \in Events
      BY <1>3
    <2> HIDE DEF z
    <2> QED BY <1>1, <2>1, <2>2
  <1> QED BY <1>13, <1>14

\* A block with another tone ends the run in progress and begins the next.
LEMMA TrackOther ==
  ASSUME TrackInv, heard' \in Seq(Tones), N' \in Nat, dat' # "idle", curIdx' = Idx(Len(heard') * N'),
         NEW n, n = Len(heard) + 1,
         NEW x, x # NoTone, heard' = Append(heard, x), N' = N, OtherTone(x, Idx(curIdx + N))
  PROVE  TrackInv'
  <1>1. heard \in Seq(Tones) /\ TrackType
    BY DEF TrackInv, TrackType
  <1>2. /\ prevTone # x /\ prevTone # NoTone /\ prevTone' = x
        /\ endIdx' = Idx(curIdx + N) /\ startIdx' = Idx(Idx(curIdx + N) - N)
    BY DEF OtherTone
  <1>3. PICK t \in ToneBlocks, r \in Runs :
          /\ InProgress(t, r) /\ r <= t /\ t <= Len(heard)
          /\ ToneBlocks' = ToneBlocks \union {n}
          /\ Runs' = Runs \union (IF prevTone # x THEN {n} ELSE {})
          /\ \A k \in ToneBlocks : heard'[k] = heard[k] /\ ToneBefore(k)' = ToneBefore(k)
          /\ heard'[n] = x /\ ToneBefore(n)' = t
    BY <1>2, TrackNext
  <1>4. Runs' = Runs \union {n}
    BY <1>2, <1>3
  <1>5. /\ Len(heard) \in Nat /\ ToneBlocks \in SUBSET (1..Len(heard)) /\ Runs \in SUBSET ToneBlocks
    BY <1>1, BlocksTyped
  <1>6. /\ n \in Int /\ t # 0 /\ \A k \in ToneBlocks : k \in Int /\ k < n
    BY <1>5
  <1>7. \A k \in ToneBlocks' : k \in Int /\ k <= n
    BY <1>3, <1>6
  <1>8. \A k \in Runs' : k \in Int /\ k <= n
    <2>1. \A k \in Runs : k \in Int /\ k < n
      BY <1>5, <1>6
    <2> QED BY <1>4, <1>6, <2>1
  <1>9. RunEnd(n)' = n
    <2> DEFINE S == {j \in ToneBlocks' : j >= n /\ ~\E m \in Runs' : n < m /\ m <= j}
    <2>1. \A m \in Runs' : ~(n < m)
      BY <1>6, <1>8
    <2>2. n \in S
      BY <1>3, <1>6, <2>1
    <2>3. S \subseteq Int /\ \A j \in S : j <= n
      BY <1>7
    <2>4. RunEnd(n)' = Max(S)
      BY DEF RunEnd
    <2> HIDE DEF S
    <2> QED BY <2>2, <2>3, <2>4, MaxIs
  <1>10. EventOf(n)'.start = Idx((n - 1) * N) /\ EventOf(n)'.end = Idx(n * N)
    BY <1>3, <1>6, <1>9 DEF EventOf
  <1>11. n \notin Runs /\ n \in Runs' /\ n \in ToneBlocks'
    BY <1>3, <1>4, <1>5, <1>6
  <1>12. LinesUpTo(n)' /\ lines' \in Seq(Events)
    <2>1. ASSUME NEW k \in Runs PROVE EventOf(k)' = EventOf(k)
      <3>1. k < n /\ n \in Runs'
        BY <1>5, <1>6, <1>11
      <3> QED BY <1>1, <3>1, EventKept
    <2>2. lines' = IF EventOf(r).end - EventOf(r).start >= MinSamples
                   THEN Append(lines, EventOf(r)) ELSE lines
      BY <1>1, <1>3, OtherLine
    <2>3. LinesUpTo(r) /\ \A k \in Runs : k <= r
      BY <1>3 DEF InProgress
    <2> QED BY <1>1, <1>4, <1>11, <2>1, <2>2, <2>3, LinesGrow
  <1>13. Idx(curIdx + N) = Idx(n * N) /\ Idx(Idx(curIdx + N) - N) = Idx((n - 1) * N)
    BY <1>1, BlockIndex
  <1>14. startIdx' = EventOf(n)'.start /\ endIdx' = EventOf(n)'.end
    BY <1>2, <1>10, <1>13
  <1>15. InProgress(n, n)'
    BY <1>2, <1>3, <1>7, <1>8, <1>11, <1>12, <1>14 DEF InProgress
  <1>16. TrackType'
    BY <1>12 DEF TrackType
  <1> QED BY <1>11, <1>15, <1>16 DEF TrackInv

\* Every block that is long enough to be analysed.
LEMMA TrackBlock ==
  ASSUME TrackInv, NEW cut, NEW tail, NEW o \in Outcomes, Block(cut, tail, o)
  PROVE  TrackInv'
  <1> DEFINE x == IF o.dtmf THEN <<o.row, o.col>> ELSE NoTone
  <1>1. heard \in Seq(Tones) /\ TrackType /\ N \in Nat /\ lines \in Seq(Events)
    BY DEF TrackInv, TrackType
  <1>2. x \in Tones
    BY DEF Outcomes, Tones, NoTone
  <1>3. /\ heard' = Append(heard, x) /\ N' = N /\ curIdx' = Idx(curIdx + N)
        /\ x = NoTone => UNCHANGED <<startIdx, endIdx, prevTone, lines>>
        /\ x # NoTone => FirstTone(x) \/ SameTone(x, Idx(curIdx + N)) \/ OtherTone(x, Idx(curIdx + N))
    BY DEF Block, ReadBlock
  <1>4. dat' # "idle"
    BY DEF Block, ReadBlock, Finish
  <1> HIDE DEF x
  <1>5. PICK n : n = Len(heard) + 1
    OBVIOUS
  <1>6. heard' \in Seq(Tones) /\ Len(heard') = n
    BY <1>1, <1>2, <1>3, <1>5
  <1>7. curIdx' = Idx(Len(heard') * N')
    BY <1>1, <1>3, <1>5, <1>6, BlockIndex
  <1>8. lines' = lines => TrackType'
    BY <1>1, <1>3, <1>4, <1>6, <1>7 DEF TrackType
  <1>9. CASE x = NoTone
    BY <1>3, <1>8, <1>9, TrackSilent
  <1>10. CASE x # NoTone /\ FirstTone(x)
    BY <1>3, <1>5, <1>8, <1>10, TrackFirst DEF FirstTone
  <1>11. CASE x # NoTone /\ SameTone(x, Idx(curIdx + N))
    BY <1>3, <1>5, <1>8, <1>11, TrackSame DEF SameTone
  <1>12. CASE x # NoTone /\ OtherTone(x, Idx(curIdx + N))
    BY <1>1, <1>3, <1>4, <1>5, <1>6, <1>7, <1>12, TrackOther
  <1> QED BY <1>3, <1>9, <1>10, <1>11, <1>12

\* The variables of the detector that TrackInv speaks of.
LEMMA TrackUnchanged ==
  ASSUME TrackInv, UNCHANGED <<N, curIdx, startIdx, endIdx, prevTone, lines, heard>>,
         dat' = "idle" => dat = "idle"
  PROVE  TrackInv'
  <1>1. ToneBlocks' = ToneBlocks /\ Runs' = Runs /\ \A k : EventOf(k)' = EventOf(k)
    BY DEF ToneBlocks, Runs, ToneBefore, EventOf, RunEnd
  <1>2. TrackType'
    BY DEF TrackInv, TrackType
  <1>3. ASSUME NEW t \in ToneBlocks, NEW r \in Runs, InProgress(t, r)
        PROVE  InProgress(t, r)'
    <2>1. LinesUpTo(r)'
      BY <1>1, <1>3, LinesKept DEF InProgress
    <2>2. EventOf(r)' = EventOf(r)
      BY <1>1
    <2> QED BY <1>1, <1>3, <2>1, <2>2 DEF InProgress
  <1>4. ToneBlocks # {} => \E t \in ToneBlocks, r \in Runs : InProgress(t, r)'
    BY <1>3 DEF TrackInv
  <1>5. ToneBlocks = {} => startIdx = 0 /\ endIdx = 0 /\ lines = <<>> /\ prevTone = NoTone
    BY DEF TrackInv
  <1> QED BY <1>1, <1>2, <1>4, <1>5 DEF TrackInv

\* The call of the detector, with any block size.
LEMMA TrackDetect ==
  ASSUME TrackInv, NEW n \in Nat, NEW s, Detect(n, s)
  PROVE  TrackInv'
  <1>1. heard = <<>> /\ heard' = <<>> /\ curIdx' = curIdx /\ N \in Int
    BY DEF Detect, TrackInv, TrackType
  <1>2. ToneBlocks = {} /\ ToneBlocks' = {}
    BY <1>1 DEF ToneBlocks
  <1>3. Len(heard) = 0 /\ 0 * N = 0 /\ 0 * n = 0
    BY <1>1
  <1>4. TrackType'
    BY <1>1, <1>3 DEF Detect, TrackInv, TrackType
  <1>5. startIdx' = 0 /\ endIdx' = 0 /\ lines' = <<>> /\ prevTone' = NoTone
    BY <1>2 DEF Detect, TrackInv
  <1> QED BY <1>2, <1>4, <1>5 DEF TrackInv

\* The block size of the command line is a number.
SizeTyped ==
  /\ "b" \in DOMAIN par /\ par.b \in Nat \union {-1}
  /\ "block_size" \in DOMAIN opts /\ opts.block_size \in Nat

\* What validargs does keeps the block size a number.
LEMMA SizeStep ==
  ASSUME SizeTyped, validargs
  PROVE  SizeTyped'
  <1>1. CASE EndOfArgs
    BY <1>1 DEF SizeTyped, EndOfArgs, Or, Return
  <1>2. ASSUME NEW tok \in Tokens, ReadMode(tok) PROVE SizeTyped'
    BY <1>2 DEF SizeTyped, ReadMode, Return
  <1>3. ASSUME NEW tok \in Tokens, ReadFlag(tok) PROVE SizeTyped'
    BY <1>3 DEF SizeTyped, ReadFlag, Return
  <1>4. ASSUME NEW tok \in Tokens, ReadNumber(tok) PROVE SizeTyped'
    <2> DEFINE v == get_current_value(tok)
               c == par.scnd
               ok == IsValue(tok) /\ InRange(c, v)
    <2>1. /\ par' = IF ok THEN [par EXCEPT !.at = "flag", ![c] = v] ELSE par
          /\ opts' = opts
      BY <1>4, SMT DEF ReadNumber
    <2>2. ok /\ c = "b" => v \in Nat
      <3>1. ASSUME NEW x, InRange("b", x) PROVE x \in 10..1000
        BY <3>1 DEF InRange
      <3> HIDE DEF v, c
      <3>2. ok /\ c = "b" => InRange("b", v)
        BY Zenon
      <3> QED BY <3>1, <3>2
    <2> HIDE DEF v, c, ok
    <2>3. DOMAIN par' = DOMAIN par /\ par'["b"] = IF ok /\ c = "b" THEN v ELSE par["b"]
      BY <2>1, SMT DEF SizeTyped
    <2> QED BY <2>1, <2>2, <2>3, SMT DEF SizeTyped
  <1>5. ASSUME NEW tok \in Tokens, ReadFile(tok) PROVE SizeTyped'
    BY <1>5 DEF SizeTyped, ReadFile, Return
  <1> QED BY <1>1, <1>2, <1>3, <1>4, <1>5 DEF validargs

\* Every step of the program preserves both.
LEMMA TrackInvStep == ASSUME SizeTyped, TrackInv, [Next]_vars PROVE SizeTyped' /\ TrackInv'
  <1> DEFINE kept == <<N, curIdx, startIdx, endIdx, prevTone, lines, heard>>
  <1>1. CASE phase = "validargs" /\ validargs /\ UNCHANGED detVars
    BY <1>1, SizeStep, TrackUnchanged DEF detVars
  <1>2. CASE Dispatch
    <2>1. SizeTyped'
      BY <1>2 DEF Dispatch, SizeTyped
    <2>2. UNCHANGED detVars \/ \E s \in Streams : Detect(opts.block_size, s)
      BY <1>2 DEF Dispatch
    <2>3. opts.block_size \in Nat
      BY DEF SizeTyped
    <2>4. CASE UNCHANGED detVars
      BY <2>1, <2>4, TrackUnchanged DEF detVars
    <2>5. CASE \E s \in Streams : Detect(opts.block_size, s)
      BY <2>1, <2>3, <2>5, TrackDetect
    <2> QED BY <2>2, <2>4, <2>5
  <1>3. CASE dtmf_detect /\ UNCHANGED argsVars
    <2>1. SizeTyped'
      BY <1>3 DEF SizeTyped, argsVars
    <2>2. ASSUME NEW r \in Reads, ShortBlock(r[1], r[2]) PROVE TrackInv'
      <3>1. UNCHANGED kept /\ dat' # "idle"
        BY <2>2 DEF ShortBlock, ReadBlock, Finish
      <3> QED BY <3>1, TrackUnchanged
    <2>3. ASSUME NEW r \in Reads, NEW o \in Outcomes, Block(r[1], r[2], o) PROVE TrackInv'
      BY <2>3, TrackBlock
    <2> QED BY <1>3, <2>1, <2>2, <2>3 DEF dtmf_detect
  <1>4. CASE UNCHANGED argsVars /\ UNCHANGED detVars
    <2>1. SizeTyped'
      BY <1>4 DEF SizeTyped, argsVars
    <2> QED BY <1>4, <2>1, TrackUnchanged DEF detVars
  <1> QED BY <1>1, <1>2, <1>3, <1>4 DEF Next, Leave, vars

-----------------------------------------------------------------------------
\* The index of a difference is never more than the difference: it is less
\* by as many times the range as the index wraps around in between.
LEMMA WrapLoses ==
  ASSUME NEW a \in Int, NEW b \in Int, a <= b
  PROVE  Idx(b) - Idx(a) <= b - a
  <1> DEFINE m == IdxRange
             half == IdxRange \div 2
             x == a + half
             y == b + half
  <1>1. m \in Nat \ {0} /\ half \in Int
    BY DetectAssumption
  <1>2. ASSUME NEW z \in Int
        PROVE  z = m * (z \div m) + (z % m) /\ z % m \in 0..(m - 1) /\ z \div m \in Int
    BY <1>1
  <1>3. Idx(a) = (x % m) - half /\ Idx(b) = (y % m) - half
    BY DEF Idx
  <1>4. x \in Int /\ y \in Int /\ x <= y /\ y - x = b - a
    BY <1>1
  <1> HIDE DEF m, half, x, y
  <1> DEFINE p == x \div m
             q == y \div m
             u == x % m
             v == y % m
  <1>5. /\ p \in Int /\ q \in Int /\ u \in 0..(m - 1) /\ v \in 0..(m - 1)
        /\ x = m * p + u /\ y = m * q + v
    BY <1>2, <1>4
  <1>6. Idx(b) - Idx(a) = v - u
    <2>1. u \in Int /\ v \in Int
      BY <1>5
    <2> HIDE DEF u, v
    <2>2. Idx(a) = u - half /\ Idx(b) = v - half
      BY <1>3 DEF u, v
    <2> QED BY <1>1, <2>1, <2>2
  <1> HIDE DEF p, q, u, v
  <1>7. m * p <= m * q /\ m * p \in Int /\ m * q \in Int
    <2>1. CASE q >= p
      BY <1>1, <1>5, <2>1
    <2>2. CASE p >= q + 1
      <3>1. m * p >= m * (q + 1)
        BY <1>1, <1>5, <2>2
      <3>2. m * (q + 1) = m * q + m
        BY <1>1, <1>5
      <3>3. m * p \in Int /\ m * q \in Int
        BY <1>1, <1>5
      <3> QED BY <1>1, <1>4, <1>5, <3>1, <3>2, <3>3
    <2> QED BY <1>5, <2>1, <2>2
  <1>8. v - u <= y - x
    BY <1>1, <1>5, <1>7
  <1> QED BY <1>4, <1>6, <1>8

-----------------------------------------------------------------------------
\* Every tone heard belongs to an event that begins at it or before.
LEMMA FirstOf ==
  ASSUME heard \in Seq(Tones), NEW t \in ToneBlocks
  PROVE  \E j \in Starts : j <= t /\ \A i \in j..t : heard[i] = heard[t]
  <1>1. Len(heard) \in Nat /\ DOMAIN heard = 1..Len(heard) /\ t \in 1..Len(heard) /\ heard[t] # NoTone
    BY DEF ToneBlocks
  <1> DEFINE S == {j \in 1..t : \A i \in j..t : heard[i] = heard[t]}
  <1>2. t \in S
    <2>1. \A i \in t..t : i = t
      BY <1>1
    <2> QED BY <1>1, <2>1
  <1>3. S \in SUBSET Nat /\ S # {}
    <2>1. 1..t \subseteq Nat
      BY <1>1
    <2> QED BY <1>2, <2>1
  <1>4. \A a, b \in Nat : <<b, a>> \in OpToRel(<, Nat) <=> b < a
    BY DEF OpToRel
  <1>5. PICK j \in S : \A i \in S : ~(<<i, j>> \in OpToRel(<, Nat))
    <2> HIDE DEF S
    <2> QED BY <1>3, NatLessThanWellFounded, WFMin
  <1>6. \A i \in S : ~(i < j)
    <2> HIDE DEF S
    <2> QED BY <1>3, <1>4, <1>5
  <1>7. j \in 1..Len(heard) /\ j <= t /\ \A i \in j..t : heard[i] = heard[t]
    BY <1>1
  <1>8. heard[j] = heard[t]
    BY <1>1, <1>7
  <1>9. ASSUME j > 1, heard[j - 1] = heard[j] PROVE FALSE
    <2>1. j - 1 \in 1..t
      BY <1>1, <1>7, <1>9
    <2>2. \A i \in (j - 1)..t : i = j - 1 \/ i \in j..t
      BY <1>1, <1>7
    <2>3. \A i \in (j - 1)..t : heard[i] = heard[t]
      BY <1>7, <1>8, <1>9, <2>2
    <2>4. j - 1 \in S
      BY <2>1, <2>3
    <2>5. j - 1 < j
      BY <1>1, <1>7
    <2> QED BY <1>6, <2>4, <2>5
  <1>10. j \in Starts
    BY <1>1, <1>7, <1>8, <1>9 DEF Starts
  <1> QED BY <1>7, <1>10

\* The last block of an event: its tone is heard up to there and no further.
LEMMA LastBlockIs ==
  ASSUME heard \in Seq(Tones), NEW k \in Starts
  PROVE  /\ k \in 1..Len(heard) /\ heard[k] # NoTone
         /\ LastBlock(k) \in k..Len(heard)
         /\ \A j \in k..LastBlock(k) : heard[j] = heard[k]
         /\ \A m \in k..Len(heard) : (\A j \in k..m : heard[j] = heard[k]) => m <= LastBlock(k)
  <1>1. Len(heard) \in Nat /\ DOMAIN heard = 1..Len(heard) /\ k \in 1..Len(heard) /\ heard[k] # NoTone
    BY DEF Starts
  <1> DEFINE n == Len(heard)
             S == {m \in k..n : \A j \in k..m : heard[j] = heard[k]}
  <1>2. k \in S
    <2>1. \A j \in k..k : j = k
      BY <1>1
    <2>2. k \in k..n
      BY <1>1
    <2> QED BY <2>1, <2>2
  <1>3. S \in SUBSET (0..n) /\ n \in Nat
    <2>1. k..n \subseteq 0..n
      BY <1>1
    <2> QED BY <1>1, <2>1
  <1>4. Max(S) \in S /\ \A y \in S : y <= Max(S)
    <2> HIDE DEF S, n
    <2> QED BY <1>2, <1>3, MaxExists
  <1>5. LastBlock(k) = Max(S)
    BY DEF LastBlock
  <1> QED BY <1>1, <1>4, <1>5

\* No tone comes back after silence.
NoReturn ==
  \A j, k \in Starts : j < k /\ heard[j] = heard[k] =>
    \E i \in j..k : heard[i] \notin {NoTone, heard[k]}

\* In such audio the runs of the code begin where the events begin.
LEMMA RunsAreEvents ==
  ASSUME heard \in Seq(Tones), NoReturn
  PROVE  Runs = Starts
  <1>1. /\ Len(heard) \in Nat /\ DOMAIN heard = 1..Len(heard)
        /\ ToneBlocks \in SUBSET (1..Len(heard)) /\ Runs \in SUBSET ToneBlocks
        /\ \A k \in Int : /\ ToneBefore(k) \in ToneBlocks \union {0}
                          /\ ToneBefore(k) # 0 => ToneBefore(k) < k
                          /\ \A j \in ToneBlocks : j < k => j <= ToneBefore(k)
    BY BlocksTyped
  <1>2. ASSUME NEW k \in Runs PROVE k \in Starts
    <2>1. k \in DOMAIN heard /\ heard[k] # NoTone /\ k \in 1..Len(heard)
      BY <1>1 DEF ToneBlocks
    <2>2. ASSUME k > 1, heard[k - 1] = heard[k] PROVE FALSE
      <3>1. k - 1 \in ToneBlocks /\ k - 1 < k /\ k - 1 > 0 /\ k \in Int
        BY <1>1, <2>1, <2>2 DEF ToneBlocks
      <3>2. k - 1 <= ToneBefore(k) /\ ToneBefore(k) \in ToneBlocks \union {0}
            /\ (ToneBefore(k) # 0 => ToneBefore(k) < k)
        BY <1>1, <3>1
      <3>3. ToneBefore(k) \in Int
        <4>1. \A x \in ToneBlocks \union {0} : x \in Int
          BY <1>1
        <4>2. ToneBefore(k) \in ToneBlocks \union {0}
          BY <3>2
        <4> QED BY <4>1, <4>2, Zenon
      <3>4. ToneBefore(k) = k - 1 /\ ToneBefore(k) # 0
        BY <3>1, <3>2, <3>3
      <3> QED BY <2>2, <3>4 DEF Runs
    <2> QED BY <2>1, <2>2 DEF Starts
  <1>3. ASSUME NEW k \in Starts PROVE k \in Runs
    <2>1. k \in ToneBlocks /\ k \in 1..Len(heard) /\ heard[k] # NoTone /\ (k > 1 => heard[k - 1] # heard[k])
      BY <1>1 DEF Starts, ToneBlocks
    <2>2. ASSUME NEW t \in ToneBlocks, t = ToneBefore(k), heard[t] = heard[k] PROVE FALSE
      <3>1. t \in Int /\ k \in Int /\ t > 0 /\ t < k
        BY <1>1, <2>1, <2>2
      <3>2. PICK j \in Starts : j <= t /\ \A i \in j..t : heard[i] = heard[t]
        BY FirstOf
      <3>3. j \in 1..Len(heard)
        BY <1>1 DEF Starts
      <3>4. j < k /\ heard[j] = heard[k]
        BY <2>2, <3>1, <3>2, <3>3
      <3>5. PICK i \in j..k : heard[i] \notin {NoTone, heard[k]}
        BY <3>4 DEF NoReturn
      <3>6. CASE i <= t
        BY <2>2, <3>2, <3>5, <3>6
      <3>7. CASE i = k
        BY <3>5, <3>7
      <3>8. CASE t < i /\ i < k
        <4>1. i \in ToneBlocks
          BY <1>1, <2>1, <3>3, <3>5, <3>8 DEF ToneBlocks
        <4>2. i <= t
          BY <1>1, <2>2, <3>1, <3>8, <4>1
        <4> QED BY <3>1, <3>8, <4>2
      <3> QED BY <3>1, <3>5, <3>6, <3>7, <3>8
    <2>3. ToneBefore(k) \in ToneBlocks \union {0}
      BY <1>1, <2>1
    <2>4. ToneBefore(k) = 0 \/ heard[ToneBefore(k)] # heard[k]
      BY <2>2, <2>3
    <2> QED BY <2>1, <2>4 DEF Runs
  <1> QED BY <1>2, <1>3

\* And they end where the events end.
LEMMA RunEndIsLast ==
  ASSUME heard \in Seq(Tones), NoReturn, NEW k \in Starts
  PROVE  RunEnd(k) = LastBlock(k)
  <1>1. /\ Len(heard) \in Nat /\ DOMAIN heard = 1..Len(heard)
        /\ ToneBlocks \in SUBSET (1..Len(heard)) /\ Runs = Starts
    BY BlocksTyped, RunsAreEvents
  <1> DEFINE l == LastBlock(k)
  <1>2. /\ k \in 1..Len(heard) /\ heard[k] # NoTone /\ l \in k..Len(heard)
        /\ \A j \in k..l : heard[j] = heard[k]
        /\ \A m \in k..Len(heard) : (\A j \in k..m : heard[j] = heard[k]) => m <= l
    BY LastBlockIs
  <1> HIDE DEF l
  <1> DEFINE S == {j \in ToneBlocks : j >= k /\ ~\E m \in Runs : k < m /\ m <= j}
  <1>3. l \in S
    <2>1. l \in ToneBlocks
      <3>1. heard[l] = heard[k] /\ l \in 1..Len(heard)
        BY <1>1, <1>2
      <3> QED BY <1>1, <1>2, <3>1 DEF ToneBlocks
    <2>2. ASSUME NEW m \in Runs, k < m, m <= l PROVE FALSE
      <3>1. m \in Starts /\ m \in 1..Len(heard)
        BY <1>1 DEF Starts
      <3>2. m \in k..l /\ m - 1 \in k..l /\ m > 1
        BY <1>1, <1>2, <2>2, <3>1
      <3>3. heard[m] = heard[k] /\ heard[m - 1] = heard[k]
        BY <1>2, <3>2
      <3> QED BY <3>1, <3>2, <3>3 DEF Starts
    <2> QED BY <1>1, <1>2, <2>1, <2>2
  <1>4. ASSUME NEW j \in S PROVE j <= l
    <2>1. j \in ToneBlocks /\ j >= k /\ j \in 1..Len(heard)
      BY <1>1
    <2>2. PICK s \in Starts : s <= j /\ \A i \in s..j : heard[i] = heard[j]
      BY <2>1, FirstOf
    <2>3. s \in 1..Len(heard)
      BY <1>1 DEF Starts
    <2>4. ~(k < s)
      BY <1>1, <2>2
    <2>5. \A i \in k..j : heard[i] = heard[j]
      BY <1>2, <2>1, <2>2, <2>3, <2>4
    <2>6. heard[k] = heard[j] /\ j \in k..Len(heard)
      BY <1>2, <2>1, <2>5
    <2>7. \A i \in k..j : heard[i] = heard[k]
      BY <2>5, <2>6
    <2> QED BY <1>2, <2>6, <2>7
  <1>5. S \subseteq Int
    <2>1. S \subseteq ToneBlocks /\ ToneBlocks \subseteq Int
      BY <1>1
    <2> HIDE DEF S
    <2> QED BY <2>1
  <1>6. Max(S) = l
    <2> HIDE DEF S
    <2> QED BY <1>3, <1>4, <1>5, MaxIs
  <1> QED BY <1>6 DEF RunEnd, l

\* So the indices of a run are those of its event, as far as 16 bits tell,
\* except that a first event of one block has no end.
LEMMA IndicesOfEvent ==
  ASSUME TrackType, AsDescribed, NEW k \in Starts
  PROVE  /\ Event(k).start \in Int /\ Event(k).end \in Int /\ Event(k).start <= Event(k).end
         /\ EventOf(k).start = Idx(Event(k).start) /\ EventOf(k).sym = Event(k).sym
         /\ EventOf(k).end = IF k = 1 /\ LastBlock(k) = 1 THEN 0 ELSE Idx(Event(k).end)
  <1>1. heard \in Seq(Tones) /\ N \in Nat /\ Len(heard) \in Nat /\ NoReturn
    BY DEF TrackType, AsDescribed, NoReturn
  <1> DEFINE l == LastBlock(k)
             a == (k - 1) * N
             b == l * N
             z == Event(k)
  <1>2. /\ k \in 1..Len(heard) /\ heard[k] # NoTone /\ l \in k..Len(heard)
        /\ \A j \in k..l : heard[j] = heard[k]
    BY <1>1, LastBlockIs
  <1>3. RunEnd(k) = l
    BY <1>1, RunEndIsLast
  <1>4. z.end = b
    <2>1. CASE l = Len(heard)
      <3>1. heard[Len(heard)] # NoTone
        BY <1>2, <2>1
      <3>2. total = Len(heard) * N
        BY <3>1 DEF AsDescribed
      <3> QED BY <2>1, <3>2 DEF Event
    <2>2. CASE l # Len(heard)
      BY <2>2 DEF Event
    <2> QED BY <2>1, <2>2
  <1>5. z.start = a /\ z.sym = heard[k][1] + heard[k][2]
    BY DEF Event
  <1>6. ToneBefore(k) = 0 <=> k = 1
    <2>1. /\ ToneBlocks \in SUBSET (1..Len(heard)) /\ ToneBefore(k) \in ToneBlocks \union {0}
          /\ ToneBefore(k) # 0 => ToneBefore(k) < k
          /\ \A j \in ToneBlocks : j < k => j <= ToneBefore(k)
      BY <1>1, <1>2, BlocksTyped
    <2>2. CASE k = 1
      <3>1. \A j \in ToneBlocks : j \in Int /\ j > 0
        BY <2>1
      <3>2. ~(ToneBefore(k) < 1 /\ ToneBefore(k) \in ToneBlocks)
        BY <3>1
      <3> QED BY <2>1, <2>2, <3>2
    <2>3. CASE k # 1
      <3>1. 1 \in Starts
        BY DEF AsDescribed
      <3>2. 1 \in ToneBlocks /\ 1 < k
        BY <1>1, <1>2, <2>3, <3>1 DEF Starts, ToneBlocks
      <3>3. 1 <= ToneBefore(k)
        BY <2>1, <3>2
      <3> QED BY <2>3, <3>3
    <2> QED BY <2>2, <2>3
  <1> HIDE DEF z
  <1>7. /\ EventOf(k).start = IF k = 1 THEN 0 ELSE Idx(a)
        /\ EventOf(k).end = IF k = 1 /\ l = 1 THEN 0 ELSE Idx(b)
        /\ EventOf(k).sym = heard[k][1] + heard[k][2]
    <2>1. EventOf(k).end = IF ToneBefore(k) = 0 /\ RunEnd(k) = k THEN 0 ELSE Idx(RunEnd(k) * N)
      BY DEF EventOf
    <2>2. EventOf(k).start = IF ToneBefore(k) = 0 THEN 0 ELSE Idx(a)
      BY DEF EventOf
    <2>3. (ToneBefore(k) = 0 /\ RunEnd(k) = k) <=> (k = 1 /\ l = 1)
      BY <1>3, <1>6
    <2> QED BY <1>3, <1>6, <2>1, <2>2, <2>3 DEF EventOf
  <1>8. a \in Int /\ b \in Int /\ a <= b
    <2>1. k - 1 \in Nat /\ l \in Nat /\ k - 1 <= l
      BY <1>1, <1>2
    <2> HIDE DEF l
    <2>2. PICK d \in Nat : l = (k - 1) + d
      <3>1. l - (k - 1) \in Nat /\ l = (k - 1) + (l - (k - 1))
        BY <2>1
      <3> QED BY <3>1
    <2>3. l * N = (k - 1) * N + d * N
      BY <1>1, <2>1, <2>2
    <2>4. d * N \in Nat /\ (k - 1) * N \in Int
      BY <1>1, <2>1, <2>2
    <2> QED BY <2>3, <2>4
  <1>9. k = 1 => Idx(a) = 0
    <2>1. 0 * N = 0 /\ Idx(0) = 0
      BY <1>1, IdxPlus
    <2> QED BY <2>1
  <1> QED BY <1>4, <1>5, <1>7, <1>8, <1>9 DEF z

\* The runs before the last that are long enough are the long events before
\* the last, whatever wraps around in the short ones.
LEMMA LongRunsAre ==
  ASSUME TrackType, AsDescribed, Starts # {}, NEW r, r = Max(Starts)
  PROVE  LongEvents = LongBut(r) \union {r} /\ r \notin LongBut(r)
  <1>1. heard \in Seq(Tones) /\ NoReturn /\ r \in LongEvents /\ MinSamples \in Nat \ {0}
    BY DetectAssumption DEF TrackType, AsDescribed, NoReturn
  <1>2. Runs = Starts
    BY <1>1, RunsAreEvents
  <1>3. ASSUME NEW k \in Starts, k # r
        PROVE  k \in LongEvents <=> EventOf(k).end - EventOf(k).start >= MinSamples
    <2> DEFINE a == Event(k).start
               b == Event(k).end
               c == EventOf(k).start
               d == EventOf(k).end
    <2>1. /\ a \in Int /\ b \in Int /\ a <= b /\ c = Idx(a)
          /\ d = IF k = 1 /\ LastBlock(k) = 1 THEN 0 ELSE Idx(b)
      BY IndicesOfEvent
    <2>2. k \in LongEvents <=> b - a >= MinSamples
      BY DEF LongEvents, Duration
    <2>3. k \in LongEvents => Idx(b) - Idx(a) = b - a
      BY DEF AsDescribed, Duration
    <2>4. k = 1 /\ LastBlock(k) = 1 => k \notin LongEvents /\ a = 0
      <3>1. ASSUME k = 1, LastBlock(k) = 1 PROVE k \notin LongEvents
        BY <3>1 DEF AsDescribed
      <3>2. ASSUME k = 1 PROVE a = 0
        <4>1. 0 * N = 0 /\ N \in Nat
          BY DEF TrackType
        <4> QED BY <3>2, <4>1 DEF Event
      <3> QED BY <3>1, <3>2
    <2> HIDE DEF a, b, c, d
    <2>5. Idx(b) - Idx(a) <= b - a /\ Idx(a) \in Int /\ Idx(b) \in Int /\ Idx(0) = 0
      <3>1. 0 \in Int
        OBVIOUS
      <3> QED BY <2>1, <3>1, WrapLoses, IdxPlus
    <2>6. CASE k = 1 /\ LastBlock(k) = 1
      BY <1>1, <2>1, <2>4, <2>5, <2>6 DEF c, d
    <2>7. CASE ~(k = 1 /\ LastBlock(k) = 1)
      <3>1. c = Idx(a) /\ d = Idx(b)
        BY <2>1, <2>7
      <3>2. d - c >= MinSamples <=> b - a >= MinSamples
        BY <1>1, <2>1, <2>2, <2>3, <2>5, <3>1
      <3> QED BY <2>2, <3>2 DEF c, d
    <2> QED BY <2>6, <2>7
  <1>4. LongEvents \subseteq Starts /\ LongBut(r) = {k \in Starts \ {r} : EventOf(k).end - EventOf(k).start >= MinSamples}
    BY <1>2 DEF LongEvents, LongBut
  <1>5. \A k \in Starts \ {r} : k \in LongEvents <=> k \in LongBut(r)
    BY <1>3, <1>4
  <1>6. LongBut(r) \subseteq Starts \ {r}
    BY <1>4
  <1> QED BY <1>1, <1>4, <1>5, <1>6

\* What follows the loop: the tone that is printed last, and its line.
EndInv ==
  /\ heard # <<>> /\ heard[Len(heard)] # NoTone => <<curRowTone, curColTone>> = heard[Len(heard)]
  /\ dat = "returned" /\ dret = 0 =>
       last = IF endIdx > 0
              THEN <<[start |-> startIdx, end |-> endIdx, sym |-> curRowTone + curColTone]>>
              ELSE <<>>

\* The lines, with the last, are the long events, if the audio is such as
\* the comment describes.
LEMMA ReportedThen ==
  ASSUME TrackInv, EndInv, dat = "returned", dret = 0, AsDescribed
  PROVE  EventsReported
  <1>1. TrackType /\ heard \in Seq(Tones) /\ Len(heard) \in Nat /\ DOMAIN heard = 1..Len(heard)
        /\ lines \in Seq(Events) /\ NoReturn
    BY DEF TrackInv, TrackType, AsDescribed, NoReturn
  <1>2. CASE Starts = {}
    <2>1. ToneBlocks = {}
      BY <1>1, <1>2, FirstOf
    <2>2. lines = <<>> /\ last = <<>>
      BY <2>1 DEF TrackInv, EndInv
    <2>3. LongEvents = {}
      BY <1>2 DEF LongEvents
    <2>4. lines \o last = <<>> /\ Len(<<>>) = 0 /\ Cardinality({}) = 0
      BY <2>2, FS_EmptySet
    <2> QED BY <2>3, <2>4 DEF EventsReported
  <1>3. CASE Starts # {}
    <2>1. Starts \in SUBSET (1..Len(heard)) /\ Runs = Starts /\ Starts \subseteq ToneBlocks
      BY <1>1, RunsAreEvents DEF Starts, ToneBlocks
    <2>2. PICK t \in ToneBlocks, r \in Runs : InProgress(t, r)
      BY <1>3, <2>1 DEF TrackInv
    <2>3. Max(Starts) = r /\ r \in Int
      <3>1. Starts \subseteq Int /\ \A k \in Starts : k <= r
        BY <2>1, <2>2 DEF InProgress
      <3> QED BY <2>1, <3>1, MaxIs
    <2>4. LongEvents = LongBut(r) \union {r} /\ r \notin LongBut(r)
      BY <1>1, <1>3, <2>3, LongRunsAre
    <2>5. LongBut(r) \subseteq Starts /\ IsFiniteSet(LongBut(r)) /\ LongBut(r) \subseteq Int
          /\ \A k \in LongBut(r) : k < r
      <3>1. LongBut(r) \subseteq Starts \ {r}
        BY <2>1 DEF LongBut
      <3>2. IsFiniteSet(1..Len(heard)) /\ 1 \in Int
        BY <1>1, FS_Interval
      <3>3. IsFiniteSet(LongBut(r))
        <4>1. LongBut(r) \subseteq 1..Len(heard)
          BY <2>1, <3>1
        <4> QED BY <3>2, <4>1, FS_Subset
      <3>4. \A k \in Starts : k \in Int /\ k <= r
        BY <2>1, <2>2 DEF InProgress
      <3> QED BY <2>3, <3>1, <3>3, <3>4
    <2> DEFINE z == [start |-> startIdx, end |-> endIdx, sym |-> curRowTone + curColTone]
               e == [k \in Starts |-> IF k = r THEN z ELSE EventOf(k)]
               E == Events \union {z}
               S == LongBut(r)
    <2>6. last = <<z>>
      <3>1. r \in LongEvents /\ Idx(Event(r).end) > 0
        BY <1>3, <2>3 DEF AsDescribed
      <3>2. ~(r = 1 /\ LastBlock(r) = 1)
        BY <1>3, <3>1 DEF AsDescribed
      <3>3. EventOf(r).end = Idx(Event(r).end)
        BY <1>1, <2>1, <2>2, <3>2, IndicesOfEvent
      <3>4. endIdx = EventOf(r).end
        BY <2>2 DEF InProgress
      <3>5. endIdx > 0
        BY <3>1, <3>3, <3>4
      <3> HIDE DEF z
      <3> QED BY <3>5 DEF EndInv, z
    <2>7. e[r] = z /\ e[r] \in E /\ \A k \in S : e[k] = EventOf(k)
      BY <2>1, <2>2, <2>4, <2>5
    <2>8. lines \in Seq(E)
      <3>1. Events \subseteq E
        OBVIOUS
      <3> HIDE DEF E
      <3> QED BY <1>1, <3>1
    <2>9. InOrder(lines, S, e)
      <3>1. LinesUpTo(r)
        BY <2>2 DEF InProgress
      <3> HIDE DEF e
      <3> QED BY <2>7, <3>1 DEF InOrder, LinesUpTo
    <2>10. lines \o last = Append(lines, z)
      BY <1>1, <2>6
    <2>11. InOrder(lines \o last, LongEvents, e)
      <3> HIDE DEF e, E, S, z
      <3>1. IsFiniteSet(S) /\ S \subseteq Int /\ \A k \in S : k < r
        BY <2>5 DEF S
      <3>2. InOrder(Append(lines, e[r]), S \union {r}, e)
        BY <2>3, <2>7, <2>8, <2>9, <3>1, OneMoreLine
      <3> QED BY <2>4, <2>7, <2>10, <3>2 DEF S
    <2>12. ASSUME NEW k \in LongEvents
           PROVE  /\ Idx(e[k].start) = Idx(Event(k).start) /\ Idx(e[k].end) = Idx(Event(k).end)
                  /\ k # r \/ heard[Len(heard)] # NoTone => e[k].sym = Event(k).sym
      <3>1. k \in Starts /\ ~(k = 1 /\ LastBlock(k) = 1)
        BY <1>3 DEF LongEvents, AsDescribed
      <3>2. /\ Event(k).start \in Int /\ Event(k).end \in Int
            /\ EventOf(k).start = Idx(Event(k).start) /\ EventOf(k).sym = Event(k).sym
            /\ EventOf(k).end = Idx(Event(k).end)
        BY <1>1, <3>1, IndicesOfEvent
      <3>3. e[k].start = EventOf(k).start /\ e[k].end = EventOf(k).end
        <4>1. startIdx = EventOf(r).start /\ endIdx = EventOf(r).end
          BY <2>2 DEF InProgress
        <4>2. CASE k = r
          BY <2>7, <4>1, <4>2
        <4>3. CASE k # r
          BY <3>1, <4>3
        <4> QED BY <4>2, <4>3
      <3>4. \A x \in Int : Idx(Idx(x)) = Idx(x)
        <4> SUFFICES ASSUME NEW x \in Int PROVE Idx(Idx(x)) = Idx(x)
          OBVIOUS
        <4>1. 0 \in Int /\ x + 0 = x
          OBVIOUS
        <4>2. Idx(x) \in Int /\ Idx(Idx(x) + 0) = Idx(x + 0)
          BY <4>1, IdxPlus
        <4>3. Idx(x) + 0 = Idx(x)
          BY <4>2
        <4> QED BY <4>1, <4>2, <4>3
      <3>5. CASE k # r
        <4>1. e[k] = EventOf(k)
          BY <3>1, <3>5
        <4> QED BY <3>2, <3>3, <3>4, <4>1
      <3>6. CASE k = r
        <4>1. ASSUME heard[Len(heard)] # NoTone PROVE e[k].sym = Event(k).sym
          <5>1. Len(heard) \in ToneBlocks
            <6>1. Len(heard) \in DOMAIN heard
              BY <1>1, <2>1, <3>1
            <6> QED BY <4>1, <6>1 DEF ToneBlocks
          <5>2. t = Len(heard)
            <6>1. ToneBlocks \in SUBSET (1..Len(heard)) /\ Len(heard) <= t
              BY <1>1, <2>2, <5>1, BlocksTyped DEF InProgress
            <6>2. t \in 1..Len(heard)
              BY <6>1
            <6>3. \A n \in Nat : t \in 1..n /\ n <= t => t = n
              OBVIOUS
            <6> QED BY <1>1, <6>1, <6>2, <6>3
          <5>3. heard[t] = heard[r] /\ <<curRowTone, curColTone>> = heard[t]
            <6>1. heard # <<>>
              BY <1>1, <2>1, <3>1
            <6> QED BY <2>2, <4>1, <5>2, <6>1 DEF InProgress, EndInv
          <5>4. curRowTone = heard[r][1] /\ curColTone = heard[r][2]
            BY <5>3
          <5>5. Event(r).sym = heard[r][1] + heard[r][2]
            BY DEF Event
          <5>6. e[k].sym = curRowTone + curColTone
            BY <2>7, <3>6
          <5> QED BY <3>6, <5>4, <5>5, <5>6
        <4> QED BY <3>2, <3>3, <3>4, <3>6, <4>1
      <3> QED BY <3>5, <3>6
    <2> HIDE DEF e
    <2>13. /\ Len(lines \o last) = Cardinality(LongEvents)
           /\ \A k \in LongEvents : (lines \o last)[Cardinality({j \in LongEvents : j <= k})] = e[k]
      BY <2>11 DEF InOrder
    <2> QED BY <2>3, <2>12, <2>13 DEF EventsReported
  <1> QED BY <1>2, <1>3

\* Every step of the program keeps what the end of the detector relies on.
LEMMA EndInvStep == ASSUME TrackInv, EndInv, [Next]_vars PROVE EndInv'
  <1>1. ASSUME UNCHANGED detVars PROVE EndInv'
    BY <1>1 DEF EndInv, detVars
  <1>2. ASSUME NEW n, NEW s, Detect(n, s) PROVE EndInv'
    <2>1. heard = <<>> /\ heard' = <<>> /\ dat = "idle"
      BY <1>2 DEF Detect, TrackInv, TrackType
    <2>2. ~(dat' = "returned" /\ dret' = 0)
      BY <1>2 DEF Detect, EOF
    <2> QED BY <2>1, <2>2 DEF EndInv
  <1>3. ASSUME NEW c, NEW tail, ShortBlock(c, tail) PROVE EndInv'
    BY <1>3 DEF ShortBlock, ReadBlock, Finish, EndInv
  <1>4. ASSUME NEW c, NEW tail, NEW o \in Outcomes, Block(c, tail, o) PROVE EndInv'
    <2> DEFINE x == IF o.dtmf THEN <<o.row, o.col>> ELSE NoTone
    <2>1. /\ dat = "blocks" /\ heard \in Seq(Tones) /\ heard' = Append(heard, x)
          /\ curRowTone' = IF o.row = None THEN curRowTone ELSE o.row
          /\ curColTone' = IF o.col = None THEN curColTone ELSE o.col
      BY <1>4 DEF Block, ReadBlock, TrackInv, TrackType
    <2>2. x \in Tones
      BY DEF Outcomes, Tones, NoTone
    <2>3. x # NoTone => <<curRowTone', curColTone'>> = x
      <3>1. o.dtmf => o.row # None /\ o.col # None
        BY DEF Outcomes
      <3> QED BY <2>1, <3>1
    <2>4. dat' = "returned" /\ dret' = 0 =>
            last' = IF endIdx' > 0
                    THEN <<[start |-> startIdx', end |-> endIdx', sym |-> curRowTone' + curColTone']>>
                    ELSE <<>>
      BY <1>4, <2>1 DEF Block, Finish
    <2> HIDE DEF x
    <2>5. heard'[Len(heard')] = x
      BY <2>1, <2>2
    <2> QED BY <2>3, <2>4, <2>5 DEF EndInv
  <1>5. CASE phase = "validargs" /\ validargs /\ UNCHANGED detVars
    BY <1>1, <1>5
  <1>6. CASE Dispatch
    BY <1>1, <1>2, <1>6 DEF Dispatch
  <1>7. CASE dtmf_detect /\ UNCHANGED argsVars
    BY <1>3, <1>4, <1>7 DEF dtmf_detect
  <1>8. CASE UNCHANGED argsVars /\ UNCHANGED detVars
    BY <1>1, <1>8
  <1> QED BY <1>5, <1>6, <1>7, <1>8 DEF Next, Leave, vars

(* For every audio file of any number of blocks in which AsDescribed holds, *)
(* what dtmf_detect has printed when it has read the file to its end is the *)
(* events of its comment that last MIN_DTMF_DURATION, in order, with their  *)
(* indices as far as 16 bits tell them and, but for a last one followed by  *)
(* silence, their symbols.                                                  *)
THEOREM EventsAlwaysReported == Spec => []EventsReported
  <1>1. Init => SizeTyped /\ TrackInv /\ EndInv
    <2> SUFFICES ASSUME Init PROVE SizeTyped /\ TrackInv /\ EndInv
      OBVIOUS
    <2>1. SizeTyped
      BY DEF Init, ArgsInit, SizeTyped
    <2>2. heard = <<>> /\ N = 0 /\ lines = <<>> /\ curIdx = 0 /\ startIdx = 0 /\ endIdx = 0
          /\ prevTone = NoTone /\ dat = "idle"
      BY DEF Init, DetInit
    <2>3. ToneBlocks = {}
      BY <2>2 DEF ToneBlocks
    <2>4. Len(heard) * N = 0 /\ Idx(0) = 0
      BY <2>2, IdxPlus
    <2>5. TrackType
      BY <2>2, <2>4 DEF TrackType
    <2>6. TrackInv
      BY <2>2, <2>3, <2>5 DEF TrackInv
    <2> QED BY <2>1, <2>2, <2>6 DEF EndInv
  <1>2. SizeTyped /\ TrackInv /\ EndInv /\ [Next]_vars => (SizeTyped /\ TrackInv /\ EndInv)'
    BY TrackInvStep, EndInvStep
  <1>3. TrackInv /\ EndInv => EventsReported
    <2>1. ASSUME TrackInv, EndInv, dat = "returned", dret = 0, AsDescribed PROVE EventsReported
      BY <2>1, ReportedThen
    <2>2. ~(dat = "returned" /\ dret = 0 /\ AsDescribed) => EventsReported
      BY DEF EventsReported
    <2> QED BY <2>1, <2>2
  <1> QED BY <1>1, <1>2, <1>3, PTL DEF Spec

=============================================================================
