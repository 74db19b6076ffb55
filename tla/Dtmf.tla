-------------------------------- MODULE Dtmf ---------------------------------
(***************************************************************************)
(* The DTMF program (hw1, main.c): the command line is validated, and the  *)
(* mode it names is run with the options it set.                           *)
(***************************************************************************)
EXTENDS DtmfArgs, DtmfGenerate, DtmfDetect

VARIABLES
  phase,   \* the function main is in
  status   \* the exit status

vars == <<argsVars, genVars, detVars, phase, status>>

Init ==
  /\ ArgsInit /\ GenInit /\ DetInit
  /\ phase = "validargs" /\ status = "none"

Exit(s) == phase' = "exit" /\ status' = s

(* main after validargs has returned.  The command line is done with. *)
Dispatch ==
  /\ phase = "validargs" /\ vret \in {"valid", "invalid"}
  /\ argv' = <<>> /\ par' = [par EXCEPT !.at = "end", !.seen = {}, !.frst = "0", !.scnd = "0"]
  /\ UNCHANGED <<opts, vret>>
  /\ \/ /\ \/ vret = "invalid" /\ opts.global_options = 0 /\ Exit("failure")
           \/ opts.global_options = HELP_OPTION /\ Exit("success")
        /\ UNCHANGED <<genVars, detVars>>
     \/ /\ opts.global_options = GENERATE_OPTION
        /\ phase' = "generate"
        /\ Generate(opts.audio_samples * 8, opts.noise_file # NoFile)
        /\ UNCHANGED <<status, detVars>>
     \/ /\ opts.global_options = DETECT_OPTION
        /\ phase' = "detect"
        /\ \E s \in Streams : Detect(opts.block_size, s)
        /\ UNCHANGED <<status, genVars>>

(* main returns what the mode came to. *)
Leave ==
  /\ \/ phase = "generate" /\ gat = "returned" /\ Exit(IF gret = EOF THEN "failure" ELSE "success")
     \/ phase = "detect" /\ dat = "returned" /\ Exit(IF dret = EOF THEN "failure" ELSE "success")
     \/ vret = "crash" /\ phase = "validargs" /\ Exit("crash")
  /\ UNCHANGED <<argsVars, genVars, detVars>>

Next ==
  \/ phase = "validargs" /\ validargs /\ UNCHANGED <<genVars, detVars, phase, status>>
  \/ Dispatch
  \/ phase = "generate" /\ dtmf_generate /\ UNCHANGED <<argsVars, detVars, phase, status>>
  \/ phase = "detect" /\ dtmf_detect /\ UNCHANGED <<argsVars, genVars, phase, status>>
  \/ Leave

(* The program is one thread and its input is finite. *)
Spec == Init /\ [][Next]_vars /\ WF_vars(Next)

-----------------------------------------------------------------------------
(* What a command line says, read as pairs of a flag and a value, by the   *)
(* usage text and the ranges that the comments in validargs give.          *)
FlagToken(c) == <<"-", c>>

UsageFlags == [g |-> {"t", "n", "l"}, d |-> {"b"}]
UsageRange(c) == CASE c = "t" -> 0..MaxDuration [] c = "l" -> -30..30 [] c = "b" -> 10..1000

GoodValue(c, tok) ==
  IF c = "n" THEN Len(tok) >= 4 ELSE IsValue(tok) /\ get_current_value(tok) \in UsageRange(c)

(* a is the beginning of a command line of this mode: what it lacks may    *)
(* still come.                                                             *)
CommandBegins(mode, a) ==
  /\ a[1] = FlagToken(mode)
  /\ \A k \in 1..(Len(a) \div 2) :
       \E c \in UsageFlags[mode] :
         /\ a[2 * k] = FlagToken(c) /\ (2 * k < Len(a) => GoodValue(c, a[2 * k + 1]))
         /\ \A j \in 1..(k - 1) : a[2 * j] # a[2 * k]

(* No flag lacks its value. *)
Command(mode, a) == Len(a) % 2 = 1 /\ CommandBegins(mode, a)

ValueOf(c, a, default) ==
  LET ks == {k \in 1..(Len(a) \div 2) : a[2 * k] = FlagToken(c)}
  IN  IF ks = {} THEN default ELSE get_current_value(a[2 * (CHOOSE k \in ks : TRUE) + 1])

(* validargs accepts a finished command line only if it is -h, or a mode   *)
(* followed by its own flags, each at most once and with a value in range: *)
(* the characters get_current_flag leaves over from the argument before    *)
(* never make a flag of an argument that is too short.  An argument it     *)
(* refuses is one that no command line goes on with, and an end it refuses *)
(* leaves a flag without its value.  What it sets is what the command line *)
(* says, or the default; the one exception is -l -1, which is the mark for *)
(* "no -l" and gives level 0.                                              *)
CommandLineMeaning ==
  phase = "validargs" =>
    /\ vret = "valid" =>
         \/ argv[1] = FlagToken("h") /\ opts.global_options = HELP_OPTION
         \/ Command("g", argv) /\ opts.global_options = GENERATE_OPTION
         \/ Command("d", argv) /\ opts.global_options = DETECT_OPTION
    /\ vret \in {"invalid", "crash"} /\ argv # <<>> =>
         /\ argv[1] # FlagToken("h")
         /\ \A mode \in {"g", "d"} : IF par.at = "end" THEN ~Command(mode, argv)
                                     ELSE ~CommandBegins(mode, argv)
    /\ vret = "valid" /\ opts.global_options # HELP_OPTION =>
         /\ opts.audio_samples = ValueOf("t", argv, 1000)
         /\ opts.block_size = ValueOf("b", argv, 100)
         /\ opts.noise_level = IF ValueOf("l", argv, 0) = -1 THEN 0 ELSE ValueOf("l", argv, 0)

(* Every run of the program ends: the end of the audio is not seen when it *)
(* falls on the last sample of a block, but then the next block sees it.   *)
ProgramEnds == <>(phase = "exit")

=============================================================================
