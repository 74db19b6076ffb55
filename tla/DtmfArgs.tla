------------------------------ MODULE DtmfArgs -------------------------------
(***************************************************************************)
(* The command line of the DTMF program (hw1, validargs in dtmf.c).        *)
(*                                                                         *)
(* An argument is a sequence of characters.  The arguments are chosen as   *)
(* validargs comes to them, so a run of this module covers every command   *)
(* line over Tokens with at most MaxArgs arguments.                        *)
(***************************************************************************)
EXTENDS Integers, Sequences, SequencesExt

CONSTANTS
  Tokens,   \* the arguments a command line is made of
  MaxArgs   \* bound: arguments after the name of the program

ASSUME TokensAssumption == Tokens \subseteq Seq(STRING)

VARIABLES
  argv,     \* the arguments read so far
  par,      \* the locals of validargs
  opts,     \* the global variables it sets
  vret      \* "running", or what it returned: "valid" (0), "invalid" (-1); or "crash"

argsVars == <<argv, par, opts, vret>>

HELP_OPTION == 1
GENERATE_OPTION == 2
DETECT_OPTION == 4

NoFile == <<>>

(* "at" is where validargs is: before the mode, before a flag, or before   *)
(* the value of the flag it has read.                                      *)
ArgsInit ==
  /\ argv = <<>>
  /\ par = [at |-> "mode", mode |-> "none", frst |-> "0", scnd |-> "0", seen |-> {},
            t |-> -1, l |-> -1, b |-> -1, noiseFileLen |-> 0]
  /\ opts = [global_options |-> 0, audio_samples |-> 0, noise_level |-> 0,
             block_size |-> 0, noise_file |-> NoFile]
  /\ vret = "running"

-----------------------------------------------------------------------------
(* get_current_flag stores every odd character in frst and every even one  *)
(* in scnd, so a token of one character keeps the second character of the  *)
(* token before it, and an empty one keeps both.  The number it returns is *)
(* above 3 exactly for tokens of three characters or more.                 *)
get_current_flag(tok, f, s) ==
  [ret  |-> IF tok = <<>> THEN 0 ELSE 3 * ((Len(tok) - 1) \div 2) + 1,
   frst |-> IF tok = <<>> THEN f ELSE tok[2 * ((Len(tok) - 1) \div 2) + 1],
   scnd |-> IF Len(tok) < 2 THEN s ELSE tok[2 * (Len(tok) \div 2)]]

DIGITS == <<"0", "1", "2", "3", "4", "5", "6", "7", "8", "9">>

(* get_current_value: decimal digits, with a minus sign anywhere. *)
IsValue(tok) == \A i \in DOMAIN tok : tok[i] = "-" \/ tok[i] \in ToSet(DIGITS)

get_current_value(tok) ==
  (IF Contains(tok, "-") THEN -1 ELSE 1)
  * FoldLeft(LAMBDA acc, c : IF c = "-" THEN acc
                             ELSE acc * 10 + CHOOSE d \in 0..9 : DIGITS[d + 1] = c, 0, tok)

-----------------------------------------------------------------------------
Return(r) == vret' = r

(* The first argument: the mode. *)
ReadMode(tok) ==
  LET g == get_current_flag(tok, par.frst, par.scnd) IN
  /\ par.at = "mode"
  /\ argv' = Append(argv, tok)
  /\ par' = [par EXCEPT !.frst = g.frst, !.scnd = g.scnd, !.at = "flag", !.mode = g.scnd]
  /\ IF g.ret <= 3 /\ g.frst = "-" /\ g.scnd = "h"
     THEN Return("valid") /\ opts' = [opts EXCEPT !.global_options = HELP_OPTION]
     ELSE /\ Return(IF g.ret <= 3 /\ g.frst = "-" /\ g.scnd \in {"g", "d"} THEN "running" ELSE "invalid")
          /\ UNCHANGED opts

FlagsOf(mode) == IF mode = "g" THEN {"t", "l", "n"} ELSE {"b"}

ReadFlagAgain(tok) ==
  LET g == get_current_flag(tok, par.frst, par.scnd)
      ok == g.ret <= 3 /\ g.frst = "-" /\ g.scnd \in FlagsOf(par.mode) IN
  /\ par.at = "flag"
  /\ argv' = Append(argv, tok)
  /\ par' = [par EXCEPT !.frst = g.frst, !.scnd = g.scnd, !.at = "value",
                        !.seen = @ \union {g.scnd}]
  /\ Return(IF ok THEN "running" ELSE "invalid")
  /\ UNCHANGED opts

(* A flag: it must be one of the mode's, and new. *)
ReadFlag(tok) ==
  LET g == get_current_flag(tok, par.frst, par.scnd)
      ok == g.ret <= 3 /\ g.frst = "-" /\ g.scnd \in FlagsOf(par.mode) \ par.seen IN
  /\ par.at = "flag"
  /\ argv' = Append(argv, tok)
  /\ par' = [par EXCEPT !.frst = g.frst, !.scnd = g.scnd, !.at = "value",
                        !.seen = @ \union {g.scnd}]
  /\ Return(IF ok THEN "running" ELSE "invalid")
  /\ UNCHANGED opts

MaxDuration == 268435455

InRange(flag, v) ==
  \/ flag = "t" /\ v \in 0..MaxDuration
  \/ flag = "l" /\ v \in -30..30
  \/ flag = "b" /\ v \in 10..1000

(* The value of -t, -l or -b. *)
ReadNumber(tok) ==
  LET v == get_current_value(tok) IN
  /\ par.at = "value" /\ par.scnd # "n"
  /\ argv' = Append(argv, tok)
  /\ par' = IF IsValue(tok) /\ InRange(par.scnd, v)
            THEN [par EXCEPT !.at = "flag", ![par.scnd] = v] ELSE par
  /\ Return(IF IsValue(tok) /\ InRange(par.scnd, v) THEN "running" ELSE "invalid")
  /\ UNCHANGED opts

(* The value of -n; the global is set before the length is looked at. *)
ReadFile(tok) ==
  /\ par.at = "value" /\ par.scnd = "n"
  /\ argv' = Append(argv, tok)
  /\ par' = [par EXCEPT !.at = "flag", !.noiseFileLen = @ + Len(tok)]
  /\ opts' = [opts EXCEPT !.noise_file = tok]
  /\ Return(IF par.noiseFileLen + Len(tok) < 4 THEN "invalid" ELSE "running")

Or(value, default) == IF value # -1 THEN value ELSE default

(* The end of argv: no mode, a flag without its value (a NULL argument,    *)
(* which -n dereferences), or the globals are set from what was given.     *)
EndOfArgs ==
  /\ UNCHANGED argv
  /\ \/ /\ par.at = "mode" /\ Return("invalid") /\ UNCHANGED <<par, opts>>
     \/ /\ par.at = "value"
        /\ Return(IF par.scnd = "n" THEN "crash" ELSE "invalid")
        /\ par' = [par EXCEPT !.at = "end"]
        /\ UNCHANGED opts
     \/ /\ par.at = "flag"
        /\ Return("valid")
        /\ opts' = [global_options |-> IF par.mode = "g" THEN GENERATE_OPTION ELSE DETECT_OPTION,
                    audio_samples  |-> Or(par.t, 1000),
                    block_size     |-> Or(par.b, 100),
                    noise_level    |-> Or(par.l, 0),
                    noise_file     |-> IF par.noiseFileLen = 0 THEN NoFile ELSE opts.noise_file]
        /\ par' = [par EXCEPT !.at = "end"]

validargs ==
  /\ vret = "running"
  /\ \/ EndOfArgs
     \/ /\ Len(argv) < MaxArgs
        /\ \E tok \in Tokens : ReadMode(tok) \/ ReadFlag(tok) \/ ReadNumber(tok) \/ ReadFile(tok)

=============================================================================
