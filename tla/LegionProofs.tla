---------------------------- MODULE LegionProofs ----------------------------
(***************************************************************************)
(* Proofs about Legion, for any set of names, any number of processes and  *)
(* of log versions.                                                        *)
(***************************************************************************)
EXTENDS Legion, FiniteSetTheorems, TLAPS

-----------------------------------------------------------------------------
(***************************************************************************)
(* The inductive invariant.                                                *)
(***************************************************************************)
Busy == {"renaming", "start", "forked", "reading", "read", "started", "stop", "suspended",
         "woken", "waitpid"}
Starting == {"forked", "reading", "read"}
Stopping == {"suspended", "woken", "waitpid"}

\* The locals of a call of legion_start, legion_stop or legion_quit.
ControlInv ==
  /\ pc \in Busy => cur \in Names
  /\ pc = "quit" => place >= 1
  /\ version = -1 => pc = "renaming"
  /\ pc = "renaming" => version <= LOG_VERSIONS - 2

\* The process of a legion_start that has not yet set daemonProcessID is a
\* new one, and is declared active only with its byte or with the alarm flag.
StartInv ==
  /\ \A n \in Names : pid[n] <= forked
  /\ pc \in Starting => /\ status[cur] = "starting"
                        /\ forked \in Procs /\ Unreaped(forked)
                        /\ \A n \in Names : pid[n] < forked
  /\ pc = "read" => forked \in wrote \/ sigalrm_flag
  /\ pc = "started" => status[cur] \in {"starting", "active"}
  /\ pc = "started" /\ status[cur] = "active" => pid[cur] \in wrote \/ sigalrm_flag

StopInv == pc \in Stopping => status[cur] = "stopping"

\* A child that has not yet opened its log file knows which one.
ChildInv == \A p \in Procs : proc[p] = "forked" => logOf[p] \in Names \X Versions

LegionInv == /\ TypeOK /\ ChildInv /\ ControlInv /\ StartInv /\ StopInv
             /\ StatusMatchesProcess /\ ActiveHasSynced

-----------------------------------------------------------------------------
\* The invariant holds when the command loop starts.
LEMMA LegionInit == Init => LegionInv
  <1> SUFFICES ASSUME Init PROVE LegionInv
    OBVIOUS
  <1>1. logs \in [Names -> SUBSET Versions] /\ late \subseteq Versions
    BY DEF Init
  <1>3. 0 \in Versions /\ 0 \in 0..MaxProcs /\ 0 \in 0..MaxSignals
    BY LegionAssumption DEF Versions
  <1>4. /\ nodes \in Seq(Names) /\ todo \in Seq({"stop", "start"})
        /\ status \in [Names -> Statuses] /\ pid \in [Names -> 0..MaxProcs]
    BY <1>3 DEF Init, Statuses
  <1>5. /\ proc \in [Procs -> {"none", "forked", "daemon", "zombie", "gone"}]
        /\ wrote \subseteq Procs /\ logOf \in [Procs -> (Names \X Versions) \cup {NoLog}]
    BY DEF Init
  <1>2. TypeOK
    BY <1>1, <1>3, <1>4, <1>5 DEF Init, TypeOK, Labels
  <1> QED
    BY <1>2 DEF Init, LegionInv, ChildInv, ControlInv, StartInv, StopInv, StatusMatchesProcess,
       ActiveHasSynced, Held, Busy, Starting, Stopping

\* What Return does to the control state.
LEMMA ReturnType ==
  ASSUME TypeOK, version \in Versions, Return
  PROVE  /\ pc' \in {"quit", "start", "stop", "prompt"}
         /\ pc' \in {"start", "stop"} => cur' = cur
         /\ pc' = "quit" => place' >= 1
         /\ cur' \in {cur, None} /\ version' \in Versions
         /\ todo' \in Seq({"stop", "start"}) /\ place' = place
  <1>0. place \in Nat /\ version \in Versions /\ todo \in Seq({"stop", "start"})
    BY DEF TypeOK
  <1>1. todo # <<>> => Head(todo) \in {"stop", "start"} /\ Tail(todo) \in Seq({"stop", "start"})
    BY <1>0
  <1>2. 0 \in Versions BY LegionAssumption DEF Versions
  <1>3. CASE place > 0
    <2>1. /\ pc' = "quit" /\ cur' = None /\ version' = version /\ todo' = todo
          /\ place' = place
      BY <1>3, <1>0 DEF Return
    <2>2. place >= 1 BY <1>3, <1>0
    <2> QED BY <1>0, <2>1, <2>2
  <1>4. CASE place = 0 /\ todo # <<>> BY <1>0, <1>1, <1>4 DEF Return
  <1>5. CASE place = 0 /\ todo = <<>> BY <1>0, <1>2, <1>5 DEF Return
  <1> QED BY <1>0, <1>3, <1>4, <1>5

\* Steps that leave the table alone.
LEMMA QuietStep ==
  ASSUME LegionInv, TypeOK', ChildInv', ControlInv',
         UNCHANGED <<table, forked>>, wrote \subseteq wrote',
         \A p \in Procs : Unreaped(p) => Unreaped(p)',
         \A p \in Procs : proc[p] = "gone" => proc'[p] = "gone",
         place' = 0 => place = 0,
         pc' \in Starting => pc \in Starting /\ cur' = cur,
         pc' = "read" => forked \in wrote' \/ sigalrm_flag',
         pc' = "started" => /\ pc \in {"started", "reading"} /\ cur' = cur
                            /\ sigalrm_flag => sigalrm_flag',
         pc' \in Stopping => pc \in Stopping /\ cur' = cur,
         pc = "started" => \/ pc' = "started"
                           \/ ~sigalrm_flag \/ place' # 0
  PROVE  LegionInv'
  <1> USE DEF table, Starting, Stopping
  <1>1. StartInv'
    <2>1. CASE pc' \in Starting
      BY <2>1 DEF LegionInv, StartInv
    <2>2. CASE pc' = "started"
      <3>1. status'[cur'] \in {"starting", "active"}
        BY <2>2 DEF LegionInv, StartInv
      <3>2. ASSUME status'[cur'] = "active" PROVE pid'[cur'] \in wrote' \/ sigalrm_flag'
        BY <2>2, <3>2 DEF LegionInv, StartInv
      <3> QED BY <2>2, <3>1, <3>2 DEF LegionInv, StartInv
    <2>3. CASE pc' \notin Starting /\ pc' # "started"
      BY <2>3 DEF LegionInv, StartInv
    <2> QED BY <2>1, <2>2, <2>3
  <1>2. StopInv' BY DEF LegionInv, StopInv
  <1>3. StatusMatchesProcess'
    BY DEF LegionInv, StatusMatchesProcess, Held
  <1>4. ActiveHasSynced'
    <2> SUFFICES ASSUME NEW n \in Names, status[n] = "active", place = 0, place' = 0,
                        ~(pc' = "started" /\ cur' = n)
                 PROVE  pid[n] \in wrote'
      BY DEF ActiveHasSynced
    <2>1. CASE ~(pc = "started" /\ cur = n)
      BY <2>1 DEF LegionInv, ActiveHasSynced
    <2>2. CASE pc = "started" /\ cur = n
      BY <2>2 DEF LegionInv, StartInv
    <2> QED BY <2>1, <2>2
  <1> QED BY <1>1, <1>2, <1>3, <1>4 DEF LegionInv

\* Types after a step that changes only the signals and the control state.
LEMMA TypeControl ==
  ASSUME TypeOK, UNCHANGED <<table, procs>>, signals' \in 0..MaxSignals,
         blocked' \in BOOLEAN, pending' \in BOOLEAN, alarm' \in BOOLEAN,
         sigchld_flag' \in BOOLEAN, sigalrm_flag' \in BOOLEAN,
         pc' \in Labels, cur' \in Names \cup {None}, version' \in Versions \cup {-1},
         todo' \in Seq({"stop", "start"}), place' \in Nat
  PROVE  TypeOK'
  BY DEF TypeOK, table, procs

\* A step inside a call, and a return, keep the invariant when they change
\* only signals and control.
LEMMA GotoStep ==
  ASSUME LegionInv, NEW l \in Labels, Goto(l), UNCHANGED <<table, procs, signals>>,
         blocked' \in BOOLEAN, pending' \in BOOLEAN, alarm' \in BOOLEAN,
         sigchld_flag' \in BOOLEAN, sigalrm_flag' \in BOOLEAN,
         sigalrm_flag => sigalrm_flag',
         pc \notin {"started", "renaming"}, l # "renaming",
         l \in Busy => pc \in Busy,
         l # "quit",
         l \in Starting => pc \in Starting,
         l = "read" => forked \in wrote \/ sigalrm_flag',
         l = "started" => pc = "reading",
         l \in Stopping => pc \in Stopping
  PROVE  LegionInv'
  <1>1. TypeOK'
    BY TypeControl DEF LegionInv, TypeOK, Goto
  <1>2. ControlInv' BY DEF LegionInv, ControlInv, Goto
  <1> QED BY <1>1, <1>2, QuietStep
          DEF LegionInv, ChildInv, Goto, table, procs, Unreaped, Alive

LEMMA ReturnStep ==
  ASSUME LegionInv, Return, UNCHANGED <<table, procs, signals, sigs>>,
         pc \in Busy, version # -1, pc = "started" => ~sigalrm_flag
  PROVE  LegionInv'
  <1>1. cur \in Names /\ TypeOK /\ version \in Versions
    BY DEF LegionInv, ControlInv, TypeOK
  <1>2. /\ pc' \in {"quit", "start", "stop", "prompt"}
        /\ pc' \in {"start", "stop"} => cur' = cur
        /\ pc' = "quit" => place' >= 1
        /\ cur' \in {cur, None} /\ version' \in Versions
        /\ todo' \in Seq({"stop", "start"}) /\ place' = place
    BY <1>1, ReturnType
  <1>3. TypeOK'
    BY <1>1, <1>2, TypeControl DEF TypeOK, Labels, sigs
  <1>4. ControlInv' BY <1>1, <1>2, LegionAssumption DEF ControlInv, Busy, Versions
  <1> QED BY <1>2, <1>3, <1>4, QuietStep
          DEF LegionInv, ChildInv, table, procs, Unreaped, Alive, Starting, Stopping

-----------------------------------------------------------------------------
\* The steps of the processes keep the invariant.
LEMMA ChildStep ==
  ASSUME LegionInv, NEW p \in Procs, ChildExec(p) \/ ChildSync(p) \/ ChildDies(p)
  PROVE  LegionInv'
  <1>0. TypeOK /\ ChildInv BY DEF LegionInv
  <1>1. /\ UNCHANGED <<table, forked, control, signals, blocked, alarm, sigalrm_flag>>
        /\ wrote \subseteq wrote'
    BY DEF ChildExec, ChildSync, ChildDies, sigs
  <1>2. logs' \in [Names -> SUBSET Versions] /\ late' \subseteq Versions
    <2>1. CASE ChildExec(p)
      <3> DEFINE n == logOf[p][1]
                 v == logOf[p][2]
      <3>1. n \in Names /\ v \in Versions BY <1>0, <2>1 DEF ChildInv, ChildExec
      <3>2. logs' = [logs EXCEPT ![n] = logs[n] \cup {v}] BY <2>1 DEF ChildExec
      <3>3. logs \in [Names -> SUBSET Versions] /\ late \subseteq Versions
        BY <1>0 DEF TypeOK
      <3>4. late' \in {late, late \cup {v}} BY <2>1 DEF ChildExec
      <3> HIDE DEF n, v
      <3> QED BY <3>1, <3>2, <3>3, <3>4
    <2> QED BY <2>1, <1>0 DEF ChildSync, ChildDies, TypeOK
  <1>3. /\ proc' \in [Procs -> {"none", "forked", "daemon", "zombie", "gone"}]
        /\ wrote' \subseteq Procs
        /\ logOf' \in [Procs -> (Names \X Versions) \cup {NoLog}]
    BY <1>0 DEF TypeOK, ChildExec, ChildSync, ChildDies
  <1>4. pending' \in BOOLEAN /\ sigchld_flag' \in BOOLEAN
    BY <1>0, Zenon DEF TypeOK, ChildExec, ChildSync, ChildDies, RaiseSigchld, sigs
  <1>5. TypeOK' BY <1>0, <1>1, <1>2, <1>3, <1>4 DEF TypeOK, table, control
  <1>6. ChildInv' BY <1>0 DEF TypeOK, ChildInv, ChildExec, ChildSync, ChildDies
  <1>7. ControlInv' BY <1>1 DEF LegionInv, ControlInv, control
  <1>8. \A q \in Procs : /\ Unreaped(q) => Unreaped(q)'
                         /\ proc[q] = "gone" => proc'[q] = "gone"
    BY <1>0 DEF TypeOK, ChildExec, ChildSync, ChildDies, Unreaped, Alive
  <1>9. pc = "read" => forked \in wrote \/ sigalrm_flag BY DEF LegionInv, StartInv
  <1> QED BY <1>1, <1>5, <1>6, <1>7, <1>8, <1>9, QuietStep DEF control

\* The commands that only begin a call or end the program.
LEMMA CommandStep ==
  ASSUME LegionInv,
         \/ QuitCommand \/ EndOfInput
         \/ \E n \in Names : StartCommand(n) \/ StopCommand(n) \/ legion_logrotate(n)
  PROVE  LegionInv'
  <1>0. TypeOK /\ ChildInv /\ 0 \in Versions /\ Versions \subseteq Int
    BY LegionAssumption DEF LegionInv, Versions
  <1>1. /\ pc = "prompt"
        /\ UNCHANGED <<table, proc, wrote, logOf, forked, sigs, signals>>
    BY DEF QuitCommand, EndOfInput, StartCommand, StopCommand, legion_logrotate, At, procs
  <1>2. logs' \in [Names -> SUBSET Versions] /\ late' \subseteq Versions
    <2>1. CASE UNCHANGED <<logs, late>> BY <1>0, <2>1 DEF TypeOK
    <2>2. CASE /\ late' = {}
               /\ \E n \in Names : logs' = [logs EXCEPT ![n] = @ \ {LOG_VERSIONS - 1}]
      BY <1>0, <2>2 DEF TypeOK
    <2> QED BY <2>1, <2>2 DEF QuitCommand, EndOfInput, StartCommand, StopCommand,
                              legion_logrotate, procs
  <1>3. /\ pc' \in {"quit", "exit", "start", "stop", "renaming"}
        /\ pc' \in {"start", "stop", "renaming"} => cur' \in Names
        /\ pc' = "quit" => place' = 1
        /\ cur' \in Names \cup {None} /\ version' \in Versions \cup {-1}
        /\ IF pc' = "renaming" THEN version' = LOG_VERSIONS - 2 ELSE version' \in Versions
        /\ place' \in {place, 1}
        /\ todo' \in {todo, <<>>, <<"stop", "start">>}
    <2>1. version \in Versions BY <1>0, <1>1 DEF LegionInv, ControlInv, TypeOK
    <2>2. LOG_VERSIONS - 2 \in Versions \cup {-1} BY LegionAssumption DEF Versions
    <2> QED
      BY <1>0, <1>1, <2>1, <2>2
         DEF QuitCommand, EndOfInput, StartCommand, StopCommand, legion_logrotate,
             BeginQuit, Goto, Call, Restart, TypeOK
  <1>4. todo' \in Seq({"stop", "start"})
    <2>1. todo \in Seq({"stop", "start"}) BY <1>0 DEF TypeOK
    <2>2. <<"stop", "start">> \in Seq({"stop", "start"}) /\ <<>> \in Seq({"stop", "start"})
      OBVIOUS
    <2> QED BY <1>3, <2>1, <2>2, Zenon
  <1>5. TypeOK'
    <2>1. place' \in Nat BY <1>0, <1>3 DEF TypeOK
    <2> QED BY <1>0, <1>1, <1>2, <1>3, <1>4, <2>1 DEF TypeOK, Labels, table, sigs
  <1>6. ChildInv' BY <1>0, <1>1 DEF ChildInv
  <1>7. ControlInv'
    <2>1. -1 \notin Versions /\ LOG_VERSIONS \in Int BY LegionAssumption DEF Versions
    <2>2. version' = -1 => pc' = "renaming" BY <1>3, <2>1
    <2>3. pc' = "renaming" => version' <= LOG_VERSIONS - 2 BY <1>3, <2>1
    <2> QED BY <1>3, <2>2, <2>3 DEF ControlInv, Busy
  <1> QED BY <1>0, <1>1, <1>3, <1>5, <1>6, <1>7, QuietStep
          DEF Unreaped, Alive, Starting, Stopping, TypeOK

\* A turn of the rename loop.
LEMMA RenameStep == ASSUME LegionInv, Rename PROVE LegionInv'
  <1>0. /\ TypeOK /\ ChildInv /\ cur \in Names /\ version \in Versions \cup {-1}
        /\ version <= LOG_VERSIONS - 2 /\ LOG_VERSIONS \in Nat \ {0}
    BY LegionAssumption DEF LegionInv, ControlInv, Rename, At, Busy, TypeOK
  <1>1. /\ pc = "renaming"
        /\ UNCHANGED <<table, proc, wrote, logOf, late, forked, sigs, signals>>
    BY DEF Rename, At
  <1>2. /\ logs' \in [Names -> SUBSET Versions]
        /\ pc' \in {"renaming", "quit", "start", "stop", "prompt"}
        /\ pc' \in {"renaming", "start", "stop"} => cur' = cur
        /\ pc' = "quit" => place' >= 1
        /\ cur' \in {cur, None} /\ version' \in Versions \cup {-1}
        /\ version' = -1 => pc' = "renaming"
        /\ pc' = "renaming" => version' <= LOG_VERSIONS - 2
        /\ todo' \in Seq({"stop", "start"}) /\ place' = place
    <2>0. logs \in [Names -> SUBSET Versions] /\ todo \in Seq({"stop", "start"})
      BY <1>0 DEF TypeOK
    <2>1. CASE /\ version >= 0 /\ UNCHANGED <<pc, cur, todo, place>> /\ version' = version - 1
               /\ logs' = [logs EXCEPT ![cur] = (@ \ {version}) \cup {version + 1}]
      <3>1. version + 1 \in Versions /\ version - 1 \in Versions \cup {-1}
            /\ version - 1 <= LOG_VERSIONS - 2
        BY <1>0, <2>1 DEF Versions
      <3>2. logs' \in [Names -> SUBSET Versions] BY <1>0, <2>0, <2>1, <3>1
      <3> QED BY <1>1, <2>0, <2>1, <3>1, <3>2
    <2>2. CASE version >= 0 /\ Return /\ UNCHANGED logs
      <3>1. version \in Versions BY <1>0, <2>2
      <3>2. -1 \notin Versions BY <1>0 DEF Versions
      <3> QED BY <1>0, <2>0, <2>2, <3>1, <3>2, ReturnType
    <2>3. CASE Restart(cur, 0) /\ UNCHANGED logs
      <3>1. 0 \in Versions BY <1>0 DEF Versions
      <3>2. <<"stop", "start">> \in Seq({"stop", "start"}) OBVIOUS
      <3>3. /\ pc' = "stop" /\ cur' = cur /\ version' = 0 /\ place' = place
            /\ todo' = <<"stop", "start">>
        BY <2>3 DEF Restart, Call
      <3> QED BY <2>0, <2>3, <3>1, <3>2, <3>3
    <2> QED BY <2>1, <2>2, <2>3 DEF Rename
  <1>3. TypeOK' BY <1>0, <1>1, <1>2 DEF TypeOK, Labels, table, sigs
  <1>4. ChildInv' BY <1>0, <1>1 DEF ChildInv
  <1>5. ControlInv' BY <1>0, <1>2 DEF ControlInv, Busy
  <1> QED BY <1>0, <1>1, <1>2, <1>3, <1>4, <1>5, QuietStep
          DEF Unreaped, Alive, Starting, Stopping, sigs

\* Steps of legion_start that leave the table alone.
LEMMA StartQuietStep ==
  ASSUME LegionInv, \/ StartRefused \/ StartFails \/ BlockSigchld \/ ReadByte \/ ReadEof
                    \/ Started
  PROVE  LegionInv'
  <1>0. TypeOK BY DEF LegionInv
  <1> USE DEF At
  <1>1. CASE StartRefused \/ StartFails \/ Started
    BY <1>1, ReturnStep DEF StartRefused, StartFails, Started, Busy, LegionInv, ControlInv
  <1>2. CASE BlockSigchld
    BY <1>0, <1>2, GotoStep DEF BlockSigchld, Busy, Starting, Stopping, Labels, TypeOK
  <1>3. CASE ReadByte
    BY <1>0, <1>3, GotoStep DEF ReadByte, Busy, Starting, Stopping, Labels, TypeOK, sigs
  <1>4. CASE ReadEof
    BY <1>0, <1>4, GotoStep DEF ReadEof, Busy, Starting, Stopping, Labels, TypeOK, sigs
  <1> QED BY <1>1, <1>2, <1>3, <1>4

\* Steps of legion_stop that leave the table alone.
LEMMA StopQuietStep ==
  ASSUME LegionInv, \/ StopUnregistered \/ StopRefused \/ DeliverSigchld \/ SeeSigchld
                    \/ Kill
  PROVE  LegionInv'
  <1>0. TypeOK /\ ChildInv BY DEF LegionInv
  <1> USE DEF At
  <1>1. CASE StopRefused
    BY <1>1, ReturnStep DEF StopRefused, Busy, LegionInv, ControlInv
  <1>2. CASE StopUnregistered
    BY <1>0, <1>2, GotoStep DEF StopUnregistered, Busy, Starting, Stopping, Labels, TypeOK, sigs
  <1>3. CASE DeliverSigchld
    BY <1>0, <1>3, GotoStep DEF DeliverSigchld, Busy, Starting, Stopping, Labels, TypeOK
  <1>4. CASE SeeSigchld
    BY <1>0, <1>4, GotoStep DEF SeeSigchld, Busy, Starting, Stopping, Labels, TypeOK
  <1>5. CASE Kill
    <2> DEFINE p == pid[cur]
    <2>1. cur \in Names /\ p \in Procs /\ Unreaped(p)
      BY <1>5 DEF Kill, LegionInv, ControlInv, StopInv, StatusMatchesProcess, Held, Busy,
                  Stopping
    <2>2. /\ pc = "woken" /\ Return /\ version \in Versions
          /\ proc' = [proc EXCEPT ![p] = "zombie"] /\ logOf' = [logOf EXCEPT ![p] = NoLog]
          /\ sigalrm_flag' = FALSE
          /\ UNCHANGED <<table, wrote, logs, late, forked, blocked, alarm, signals>>
      BY <1>0, <1>5 DEF Kill, LegionInv, ControlInv, TypeOK
    <2>3. pending' \in BOOLEAN /\ sigchld_flag' \in BOOLEAN
      BY <1>0, <1>5 DEF Kill, RaiseSigchld, TypeOK
    <2>4. /\ pc' \in {"quit", "start", "stop", "prompt"}
          /\ pc' \in {"start", "stop"} => cur' = cur
          /\ pc' = "quit" => place' >= 1
          /\ cur' \in {cur, None} /\ version' \in Versions
          /\ todo' \in Seq({"stop", "start"}) /\ place' = place
      BY <1>0, <2>2, ReturnType
    <2> HIDE DEF p
    <2>5. TypeOK' BY <1>0, <2>1, <2>2, <2>3, <2>4 DEF TypeOK, table, Labels
    <2>6. ChildInv' BY <1>0, <2>1, <2>2 DEF ChildInv, TypeOK
    <2>7. ControlInv' BY <2>1, <2>4, LegionAssumption DEF ControlInv, Busy, Versions
    <2>8. \A q \in Procs : /\ Unreaped(q) => Unreaped(q)'
                           /\ proc[q] = "gone" => proc'[q] = "gone"
      BY <1>0, <2>1, <2>2 DEF TypeOK, Unreaped, Alive
    <2> QED BY <2>2, <2>4, <2>5, <2>6, <2>7, <2>8, QuietStep DEF Starting, Stopping
  <1> QED BY <1>1, <1>2, <1>3, <1>4, <1>5

\* Signals and legion_quit.
LEMMA SignalStep ==
  ASSUME LegionInv, sigint_handler \/ sigalrm_handler \/ QuitStep
  PROVE  LegionInv'
  <1>0. TypeOK /\ ChildInv /\ 0 \in Versions
    BY LegionAssumption DEF LegionInv, Versions
  <1> USE DEF At
  <1>1. CASE sigint_handler
    <2>1. /\ pc' = "quit" /\ place' = 1 /\ todo' = <<>> /\ cur' = None /\ version' = 0
          /\ signals' \in 0..MaxSignals /\ UNCHANGED <<table, procs, sigalrm_flag, alarm>>
      BY <1>0, <1>1, LegionAssumption DEF sigint_handler, BeginQuit, TypeOK
    <2>a. blocked' \in BOOLEAN /\ pending' \in BOOLEAN /\ sigchld_flag' \in BOOLEAN
      <3>1. CASE blocked' = FALSE /\ pending' = FALSE
                 /\ sigchld_flag' = (sigchld_flag \/ pending)
        BY <3>1
      <3>2. CASE UNCHANGED <<blocked, pending, sigchld_flag>>
        BY <1>0, <3>2 DEF TypeOK
      <3> QED BY <1>1, <3>1, <3>2 DEF sigint_handler
    <2>2. TypeOK' BY <1>0, <2>1, <2>a, TypeControl DEF TypeOK, Labels
    <2>3. ControlInv' BY <2>1 DEF ControlInv, Busy
    <2> QED BY <1>0, <2>1, <2>2, <2>3, QuietStep
            DEF table, procs, Unreaped, Alive, ChildInv, Starting, Stopping
  <1>2. CASE sigalrm_handler
    <2>0. /\ sigalrm_flag' = TRUE /\ alarm' = FALSE
          /\ UNCHANGED <<table, procs, blocked, pending, sigchld_flag, signals>>
      BY <1>2 DEF sigalrm_handler
    <2>1. CASE At("reading") /\ Goto("read")
      BY <1>0, <2>0, <2>1, GotoStep DEF Busy, Starting, Stopping, Labels, TypeOK
    <2>2. CASE At("suspended") /\ Goto("woken")
      BY <1>0, <2>0, <2>2, GotoStep DEF Busy, Starting, Stopping, Labels, TypeOK
    <2>3. CASE At("prompt") /\ Goto("exit")
      BY <1>0, <2>0, <2>3, GotoStep DEF Busy, Starting, Stopping, Labels, TypeOK
    <2>4. CASE UNCHANGED control
      <3>1. TypeOK' BY <1>0, <2>0, <2>4, TypeControl DEF TypeOK, control
      <3>2. ControlInv' BY <2>4 DEF LegionInv, ControlInv, control
      <3> QED BY <1>0, <2>0, <2>4, <3>1, <3>2, QuietStep
              DEF table, procs, Unreaped, Alive, ChildInv, control
    <2> QED BY <1>2, <2>1, <2>2, <2>3, <2>4 DEF sigalrm_handler
  <1>3. CASE QuitStep
    <2>0. UNCHANGED <<table, procs, sigs, signals>> /\ pc = "quit" /\ place >= 1
      BY <1>3 DEF QuitStep, LegionInv, ControlInv
    <2>1. CASE Goto("exit")
      BY <1>0, <2>0, <2>1, GotoStep DEF Busy, Starting, Stopping, Labels, TypeOK, sigs
    <2>2. CASE place' = place + 1 /\ UNCHANGED <<pc, cur, version, todo>>
      <3>1. TypeOK' BY <1>0, <2>0, <2>2, TypeControl DEF TypeOK, sigs
      <3>2. ControlInv' BY <1>0, <2>0, <2>2 DEF LegionInv, ControlInv, Busy, TypeOK
      <3> QED BY <1>0, <2>0, <2>2, <3>1, <3>2, QuietStep
              DEF table, procs, Unreaped, Alive, ChildInv, Starting, Stopping, TypeOK
    <2>3. CASE /\ place <= Len(nodes) /\ pc' = "stop" /\ cur' = nodes[place]
               /\ place' = place + 1 /\ UNCHANGED <<version, todo>>
      <3>0. nodes[place] \in Names BY <1>0, <2>0, <2>3 DEF TypeOK
      <3>a. /\ pc' \in Labels /\ cur' \in Names \cup {None} /\ version' \in Versions
            /\ place' \in Nat
        BY <1>0, <2>0, <2>3, <3>0 DEF LegionInv, ControlInv, TypeOK, Labels
      <3>1. TypeOK' BY <1>0, <2>0, <2>3, <3>a, TypeControl DEF TypeOK, sigs
      <3>2. ControlInv' BY <2>3, <3>0, <3>a, LegionAssumption DEF ControlInv, Versions
      <3> QED BY <1>0, <2>0, <2>3, <3>1, <3>2, QuietStep
              DEF table, procs, Unreaped, Alive, ChildInv, Starting, Stopping, TypeOK
    <2> QED BY <1>3, <2>1, <2>2, <2>3 DEF QuitStep
  <1> QED BY <1>1, <1>2, <1>3

-----------------------------------------------------------------------------
(***************************************************************************)
(* The steps that write the table.                                         *)
(***************************************************************************)

\* register and unregister.
LEMMA RegisterStep ==
  ASSUME LegionInv, NEW n \in Names, legion_register(n) \/ legion_unregister(n)
  PROVE  LegionInv'
  <1>0. TypeOK /\ ChildInv BY DEF LegionInv
  <1>1. /\ pc = "prompt" /\ UNCHANGED <<procs, sigs, signals, control>>
        /\ status[n] \in {"unregistered", "inactive"}
        /\ \E s \in {"inactive", "unregistered"} : status' = [status EXCEPT ![n] = s]
        /\ pid' = [pid EXCEPT ![n] = 0] \/ pid' = pid
    BY DEF legion_register, legion_unregister, At
  <1>2. nodes' \in Seq(Names)
    <2>1. nodes \in Seq(Names) BY <1>0 DEF TypeOK
    <2>2. CASE legion_register(n)
      <3>1. nodes' = <<n>> \o nodes BY <2>2 DEF legion_register
      <3> QED BY <2>1, <3>1
    <2>3. CASE legion_unregister(n)
      <3>1. PICK i \in 1..Len(nodes) : Unlink(i) BY <2>3 DEF legion_unregister
      <3>2. /\ SubSeq(nodes, 1, i - 1) \in Seq(Names)
            /\ SubSeq(nodes, i + 1, Len(nodes)) \in Seq(Names)
        BY <2>1
      <3> QED BY <3>1, <3>2 DEF Unlink
    <2> QED BY <2>2, <2>3
  <1>3. /\ status' \in [Names -> Statuses] /\ pid' \in [Names -> 0..MaxProcs]
        /\ \A m \in Names : m # n => status'[m] = status[m] /\ pid'[m] = pid[m]
        /\ status'[n] \in {"inactive", "unregistered"} /\ pid'[n] <= pid[n]
    <2>1. PICK s \in {"inactive", "unregistered"} : status' = [status EXCEPT ![n] = s]
      BY <1>1
    <2>2. /\ status \in [Names -> Statuses] /\ pid \in [Names -> 0..MaxProcs]
          /\ 0 \in 0..MaxProcs /\ s \in Statuses
      BY <1>0, LegionAssumption DEF TypeOK, Statuses
    <2>3. /\ pid' \in [Names -> 0..MaxProcs] /\ pid'[n] <= pid[n]
          /\ \A m \in Names : m # n => pid'[m] = pid[m]
      BY <1>1, <2>2
    <2> QED BY <2>1, <2>2, <2>3
  <1>4. TypeOK' BY <1>0, <1>1, <1>2, <1>3 DEF TypeOK, procs, sigs, control
  <1>5. ChildInv' /\ ControlInv' /\ StopInv'
    BY <1>0, <1>1 DEF LegionInv, ChildInv, ControlInv, StopInv, Busy, Stopping, procs, control
  <1>6. StartInv'
    <2>1. ASSUME NEW m \in Names PROVE pid'[m] <= forked
      <3>1. pid[m] <= forked BY DEF LegionInv, StartInv
      <3>2. pid[m] \in Int /\ pid'[m] \in Int /\ forked \in Int BY <1>0, <1>3 DEF TypeOK
      <3> QED BY <1>3, <3>1, <3>2
    <2> QED BY <1>1, <2>1 DEF StartInv, Starting, procs, control
  <1>7. StatusMatchesProcess'
    BY <1>1, <1>3 DEF LegionInv, StatusMatchesProcess, Held, Unreaped, Alive, procs
  <1>8. ActiveHasSynced'
    BY <1>1, <1>3 DEF LegionInv, ActiveHasSynced, procs, control
  <1> QED BY <1>4, <1>5, <1>6, <1>7, <1>8 DEF LegionInv

\* fork: the new process has a number that no node has.
LEMMA ForkStep == ASSUME LegionInv, Fork PROVE LegionInv'
  <1>0. TypeOK /\ ChildInv /\ cur \in Names
    BY DEF LegionInv, ControlInv, Fork, At, Busy
  <1>1. /\ pc = "start" /\ pc' = "forked" /\ forked' = forked + 1 /\ forked < MaxProcs
        /\ status[cur] = "inactive" /\ status' = [status EXCEPT ![cur] = "starting"]
        /\ proc' = [proc EXCEPT ![forked + 1] = "forked"]
        /\ logOf' = [logOf EXCEPT ![forked + 1] = <<cur, version>>]
        /\ UNCHANGED <<nodes, pid, wrote, logs, late, sigs, signals, cur, version, todo, place>>
    BY DEF Fork, At, SetStatus, Goto
  <1>2. /\ forked \in Nat /\ forked + 1 \in Procs /\ forked' \in 0..MaxProcs
        /\ \A n \in Names : pid[n] \in Int /\ pid[n] < forked + 1
    <2>1. forked \in 0..MaxProcs /\ \A n \in Names : pid[n] \in 0..MaxProcs /\ pid[n] <= forked
      BY <1>0 DEF TypeOK, LegionInv, StartInv
    <2> QED BY <1>1, <2>1, LegionAssumption DEF Procs
  <1>3. <<cur, version>> \in Names \X Versions
    BY <1>0, <1>1 DEF TypeOK, LegionInv, ControlInv
  <1>4. TypeOK'
    <2>1. status' \in [Names -> Statuses] BY <1>0, <1>1 DEF TypeOK, Statuses
    <2>2. proc' \in [Procs -> {"none", "forked", "daemon", "zombie", "gone"}]
      BY <1>0, <1>1, <1>2 DEF TypeOK
    <2>3. logOf' \in [Procs -> (Names \X Versions) \cup {NoLog}]
      BY <1>0, <1>1, <1>2, <1>3 DEF TypeOK
    <2> QED BY <1>0, <1>1, <1>2, <2>1, <2>2, <2>3 DEF TypeOK, Labels, sigs
  <1>5. ChildInv' BY <1>0, <1>1, <1>2, <1>3 DEF ChildInv, TypeOK
  <1>6. ControlInv' /\ StopInv'
    BY <1>0, <1>1 DEF LegionInv, ControlInv, StopInv, Stopping
  <1>7. status'[cur] = "starting" /\ proc'[forked'] = "forked" /\ Unreaped(forked)'
    BY <1>0, <1>1, <1>2 DEF TypeOK, Unreaped, Alive
  <1>8. StartInv'
    <2>1. \A n \in Names : pid'[n] < forked' /\ pid'[n] <= forked' BY <1>1, <1>2
    <2>2. forked' \in Procs BY <1>1, <1>2
    <2> QED BY <1>1, <1>7, <2>1, <2>2 DEF StartInv
  <1>9. \A n \in Names : /\ status'[n] \in {"active", "stopping", "exited"}
                            => status'[n] = status[n]
                         /\ pid[n] # forked + 1
    BY <1>0, <1>1, <1>2 DEF TypeOK
  <1>10. \A q \in Procs : q # forked + 1 => proc'[q] = proc[q]
    BY <1>0, <1>1 DEF TypeOK
  <1>11. StatusMatchesProcess'
    BY <1>1, <1>9, <1>10 DEF LegionInv, StatusMatchesProcess, Held, Unreaped, Alive
  <1>12. ActiveHasSynced' BY <1>1, <1>9 DEF LegionInv, ActiveHasSynced
  <1> QED BY <1>4, <1>5, <1>6, <1>8, <1>11, <1>12 DEF LegionInv

\* alarm(0), and the daemon of the finished read is active.
LEMMA ActivateStep == ASSUME LegionInv, Activate PROVE LegionInv'
  <1>0. TypeOK /\ ChildInv /\ cur \in Names
    BY DEF LegionInv, ControlInv, Activate, At, Busy
  <1>1. /\ pc = "read" /\ pc' = "started" /\ alarm' = FALSE
        /\ status' = [status EXCEPT ![cur] = "active"]
        /\ pid' = [pid EXCEPT ![cur] = forked]
        /\ UNCHANGED <<nodes, procs, blocked, pending, sigchld_flag, sigalrm_flag, signals,
                       cur, version, todo, place>>
    BY DEF Activate, At, SetStatus, Goto
  <1>2. /\ forked \in Procs /\ Unreaped(forked) /\ \A n \in Names : pid[n] < forked
        /\ forked \in wrote \/ sigalrm_flag
    BY <1>1 DEF LegionInv, StartInv, Starting
  <1>3. /\ status' \in [Names -> Statuses] /\ pid' \in [Names -> 0..MaxProcs]
        /\ status'[cur] = "active" /\ pid'[cur] = forked
        /\ \A n \in Names : n # cur => status'[n] = status[n] /\ pid'[n] = pid[n]
    BY <1>0, <1>1, <1>2 DEF TypeOK, Statuses, Procs
  <1>4. TypeOK' BY <1>0, <1>1, <1>3 DEF TypeOK, Labels, procs
  <1>5. ChildInv' /\ ControlInv' /\ StopInv'
    BY <1>0, <1>1 DEF LegionInv, ChildInv, ControlInv, StopInv, Stopping, procs
  <1>6. StartInv'
    <2>1. ASSUME NEW n \in Names PROVE pid'[n] <= forked
      <3>1. pid[n] \in Int /\ forked \in Int BY <1>0 DEF TypeOK
      <3> QED BY <1>2, <1>3, <3>1
    <2> QED BY <1>1, <1>2, <1>3, <2>1 DEF StartInv, Starting, procs
  <1>7. \A n \in Names : pid[n] # forked
    <2>1. \A n \in Names : pid[n] \in Int /\ forked \in Int BY <1>0 DEF TypeOK
    <2> QED BY <1>2, <2>1
  <1>8. StatusMatchesProcess'
    BY <1>1, <1>2, <1>3, <1>7 DEF LegionInv, StatusMatchesProcess, Held, Unreaped, Alive, procs
  <1>9. ActiveHasSynced'
    BY <1>1, <1>3 DEF LegionInv, ActiveHasSynced, procs
  <1> QED BY <1>4, <1>5, <1>6, <1>8, <1>9 DEF LegionInv

\* Steps that end the current call, or make it wait, with a new status of its
\* daemon.
LEMMA StatusStep ==
  ASSUME LegionInv, NEW s \in Statuses, s # "active",
         cur \in Names, pc \notin Starting,
         status' = [status EXCEPT ![cur] = s], UNCHANGED <<nodes, pid, wrote, forked>>,
         TypeOK', ChildInv', ControlInv', place' = place,
         pc' \notin Starting /\ pc' # "started",
         pc' \in Stopping => s = "stopping" /\ cur' = cur,
         pc = "started" => status[cur] # "active" \/ s = "crashed",
         s = "stopping" => status[cur] \in {"active", "stopping"} /\ UNCHANGED proc,
         s = "exited" => /\ status[cur] = "stopping"
                         /\ proc' = [proc EXCEPT ![pid[cur]] = "gone"],
         s \notin {"stopping", "exited"} => UNCHANGED proc
  PROVE  LegionInv'
  <1>0. TypeOK BY DEF LegionInv
  <1>1. status'[cur] = s /\ \A n \in Names : n # cur => status'[n] = status[n]
    BY <1>0 DEF TypeOK
  <1>2. StartInv' BY <1>0 DEF LegionInv, StartInv, Starting
  <1>3. StopInv' BY <1>1 DEF StopInv, Stopping
  <1>4. StatusMatchesProcess'
    <2>1. CASE s # "exited"
      BY <1>1, <2>1 DEF LegionInv, StatusMatchesProcess, Held, Unreaped, Alive
    <2>2. CASE s = "exited"
      <3> DEFINE p == pid[cur]
      <3>1. /\ cur \in Held /\ p \in Procs /\ Unreaped(p)
            /\ \A n \in Held : pid[n] = p => n = cur
        BY <2>2 DEF LegionInv, StatusMatchesProcess, Held
      <3>2. proc'[p] = "gone" /\ \A q \in Procs : q # p => proc'[q] = proc[q]
        BY <1>0, <2>2, <3>1 DEF TypeOK
      <3>3. Held' = Held \ {cur} BY <1>1, <2>2 DEF Held
      <3>4. \A n \in Held' : (pid[n] \in Procs /\ Unreaped(pid[n]))'
        <4> SUFFICES ASSUME NEW n \in Held, n # cur
                     PROVE  pid[n] \in Procs /\ Unreaped(pid[n])'
          BY <3>3
        <4>1. pid[n] \in Procs /\ Unreaped(pid[n]) /\ pid[n] # p
          BY <3>1 DEF LegionInv, StatusMatchesProcess
        <4> QED BY <3>2, <4>1 DEF Unreaped, Alive
      <3>5. \A m, n \in Held' : pid'[m] = pid'[n] => m = n
        BY <3>3 DEF LegionInv, StatusMatchesProcess
      <3>6. \A n \in Names : status'[n] = "exited" => pid'[n] \in Procs /\ proc'[pid'[n]] = "gone"
        BY <1>1, <2>2, <3>1, <3>2 DEF LegionInv, StatusMatchesProcess
      <3> QED BY <3>4, <3>5, <3>6 DEF StatusMatchesProcess
    <2> QED BY <2>1, <2>2
  <1>5. ActiveHasSynced'
    BY <1>1 DEF LegionInv, ActiveHasSynced
  <1> QED BY <1>2, <1>3, <1>4, <1>5 DEF LegionInv

\* The end of a start that timed out, and the steps of legion_stop that write
\* the status.
LEMMA TableStep ==
  ASSUME LegionInv, TimedOut \/ Reset \/ Terminate \/ Wait
  PROVE  LegionInv'
  <1>0. TypeOK /\ ChildInv BY DEF LegionInv
  <1>1. /\ cur \in Names /\ pc \in {"started", "stop", "waitpid"} /\ version \in Versions
    BY <1>0 DEF TypeOK, LegionInv, ControlInv, TimedOut, Reset, Terminate, Wait, At, Busy
  <1>2. ASSUME Return
        PROVE  /\ pc' \in {"quit", "start", "stop", "prompt"}
               /\ pc' \in Busy => cur' = cur
               /\ pc' = "quit" => place' >= 1
               /\ cur' \in Names \cup {None} /\ version' \in Versions
               /\ todo' \in Seq({"stop", "start"}) /\ place' = place
               /\ version' # -1
    BY <1>0, <1>1, <1>2, ReturnType, LegionAssumption DEF Busy, Versions
  <1>3. ASSUME NEW s \in Statuses, status' = [status EXCEPT ![cur] = s],
               UNCHANGED <<nodes, pid, procs, blocked, pending, sigchld_flag, signals>>,
               alarm' \in BOOLEAN, sigalrm_flag' \in BOOLEAN, Return
        PROVE  TypeOK' /\ ChildInv' /\ ControlInv'
    <2>1. status' \in [Names -> Statuses] BY <1>0, <1>1, <1>3 DEF TypeOK
    <2>2. TypeOK' BY <1>0, <1>2, <1>3, <2>1 DEF TypeOK, Labels, procs
    <2>3. ChildInv' BY <1>0, <1>3 DEF ChildInv, procs
    <2>4. ControlInv' BY <1>1, <1>2, <1>3 DEF ControlInv
    <2> QED BY <2>2, <2>3, <2>4
  <1>4. CASE TimedOut
    <2>1. /\ pc = "started" /\ Return /\ status' = [status EXCEPT ![cur] = "crashed"]
          /\ sigalrm_flag' = FALSE
          /\ UNCHANGED <<nodes, pid, procs, blocked, pending, sigchld_flag, signals, alarm>>
      BY <1>4 DEF TimedOut, At, SetStatus
    <2>2. TypeOK' /\ ChildInv' /\ ControlInv'
      BY <1>0, <1>3, <2>1 DEF TypeOK, Statuses
    <2> QED BY <1>1, <1>2, <2>1, <2>2, StatusStep DEF Statuses, Starting, Stopping, procs
  <1>5. CASE Reset
    <2>1. /\ pc = "stop" /\ Return /\ status' = [status EXCEPT ![cur] = "inactive"]
          /\ UNCHANGED <<nodes, pid, procs, blocked, pending, sigchld_flag, sigalrm_flag,
                         signals, alarm>>
      BY <1>5 DEF Reset, At, SetStatus, sigs
    <2>2. TypeOK' /\ ChildInv' /\ ControlInv'
      BY <1>0, <1>3, <2>1 DEF TypeOK, Statuses
    <2> QED BY <1>1, <1>2, <2>1, <2>2, StatusStep DEF Statuses, Starting, Stopping, procs
  <1>6. CASE Terminate
    <2>1. /\ pc = "stop" /\ status[cur] = "active"
          /\ status' = [status EXCEPT ![cur] = "stopping"]
          /\ UNCHANGED <<nodes, pid, procs, blocked, pending, sigchld_flag, sigalrm_flag, signals>>
      BY <1>6 DEF Terminate, At, SetStatus
    <2>2. alarm' = TRUE /\ Goto("suspended")
      <3>1. Unreaped(pid[cur])
        BY <1>1, <2>1 DEF LegionInv, StatusMatchesProcess, Held
      <3> QED BY <1>6, <3>1 DEF Terminate
    <2>3. status' \in [Names -> Statuses] BY <1>0, <1>1, <2>1 DEF TypeOK, Statuses
    <2>4. TypeOK' BY <1>0, <1>1, <2>1, <2>2, <2>3 DEF TypeOK, Labels, procs, Goto
    <2>5. ChildInv' /\ ControlInv'
      BY <1>0, <1>1, <2>1, <2>2, LegionAssumption
         DEF ChildInv, ControlInv, procs, Goto, Versions
    <2> QED BY <1>1, <2>1, <2>2, <2>4, <2>5, StatusStep
            DEF Statuses, Starting, Stopping, procs, Goto
  <1>7. CASE Wait
    <2> DEFINE p == pid[cur]
    <2>1. /\ pc = "waitpid" /\ Return /\ status' = [status EXCEPT ![cur] = "exited"]
          /\ proc' = [proc EXCEPT ![p] = "gone"] /\ sigchld_flag' = FALSE
          /\ UNCHANGED <<nodes, pid, wrote, logOf, logs, late, forked, blocked, pending,
                         sigalrm_flag, alarm, signals>>
      BY <1>7 DEF Wait, At, SetStatus
    <2>2. status[cur] = "stopping" /\ p \in Procs
      BY <1>1, <2>1 DEF LegionInv, StopInv, Stopping, StatusMatchesProcess, Held
    <2>3. /\ status' \in [Names -> Statuses]
          /\ proc' \in [Procs -> {"none", "forked", "daemon", "zombie", "gone"}]
      BY <1>0, <1>1, <2>1, <2>2 DEF TypeOK, Statuses
    <2>4. TypeOK' BY <1>0, <1>2, <2>1, <2>3 DEF TypeOK, Labels
    <2>5. ChildInv' BY <1>0, <2>1, <2>2 DEF ChildInv, TypeOK
    <2>6. ControlInv' BY <1>1, <1>2, <2>1 DEF ControlInv
    <2> QED BY <1>1, <1>2, <2>1, <2>2, <2>4, <2>5, <2>6, StatusStep
            DEF Statuses, Starting, Stopping
  <1> QED BY <1>4, <1>5, <1>6, <1>7

-----------------------------------------------------------------------------
\* The invariant holds in every reachable state.
THEOREM LegionInvCorrect == Spec => []LegionInv
  <1>1. LegionInv /\ [Next]_vars => LegionInv'
    <2> SUFFICES ASSUME LegionInv, [Next]_vars PROVE LegionInv'
      OBVIOUS
    <2>1. CASE Next
      BY <2>1, ChildStep, CommandStep, RenameStep, StartQuietStep, StopQuietStep, SignalStep,
         RegisterStep, ForkStep, ActivateStep, TableStep
         DEF Next, Command, legion_start, legion_stop, Child
    <2>2. CASE UNCHANGED vars
      <3>1. TypeOK' /\ ChildInv' /\ ControlInv'
        BY <2>2 DEF LegionInv, TypeOK, ChildInv, ControlInv, vars
      <3> QED BY <2>2, <3>1 DEF LegionInv, vars, StartInv, StopInv, StatusMatchesProcess,
                                ActiveHasSynced, Held, Unreaped, Alive
    <2> QED BY <2>1, <2>2
  <1> QED BY LegionInit, <1>1, PTL DEF Spec

\* Table, processes, signals and control state keep their types.
THEOREM LegionTypeCorrect == Spec => []TypeOK
  <1>1. LegionInv => TypeOK BY DEF LegionInv
  <1> QED BY LegionInvCorrect, <1>1, PTL

\* legion_stop never signals or waits for a process that is not the daemon's
\* own unreaped child.
THEOREM StatusMatchesCorrect == Spec => []StatusMatchesProcess
  <1>1. LegionInv => StatusMatchesProcess BY DEF LegionInv
  <1> QED BY LegionInvCorrect, <1>1, PTL

\* legion_start leaves a daemon active only if it has synchronised.
THEOREM ActiveHasSyncedCorrect == Spec => []ActiveHasSynced
  <1>1. LegionInv => ActiveHasSynced BY DEF LegionInv
  <1> QED BY LegionInvCorrect, <1>1, PTL

-----------------------------------------------------------------------------
(***************************************************************************)
(* Legion implements DaemonLife.                                           *)
(***************************************************************************)

\* No two daemons ever have the same process.
PidsDistinct == \A m, n \in Names : pid[m] = pid[n] /\ pid[m] # 0 => m = n

\* What every step does to daemonProcessID.
LEMMA PidStep ==
  ASSUME Next
  PROVE  \/ UNCHANGED pid
         \/ \E n \in Names : pid' = [pid EXCEPT ![n] = 0]
         \/ Activate
  BY DEF Next, Command, legion_register, legion_unregister, StartCommand, StopCommand,
         legion_logrotate, Rename, QuitCommand, EndOfInput, legion_start, StartRefused, StartFails,
         Fork, BlockSigchld, ReadByte, ReadEof, Started, TimedOut, legion_stop,
         StopUnregistered, Reset, StopRefused, Terminate, DeliverSigchld, SeeSigchld, Kill,
         Wait, QuitStep, sigint_handler, sigalrm_handler, Child, ChildExec, ChildSync,
         ChildDies, table

\* legion_start gives a daemon a process that no other daemon has had.
THEOREM PidsDistinctCorrect == Spec => []PidsDistinct
  <1>1. Init => PidsDistinct BY DEF Init, PidsDistinct
  <1>2. LegionInv /\ PidsDistinct /\ [Next]_vars => PidsDistinct'
    <2> SUFFICES ASSUME LegionInv, PidsDistinct, [Next]_vars PROVE PidsDistinct'
      OBVIOUS
    <2>0. pid \in [Names -> 0..MaxProcs] BY DEF LegionInv, TypeOK
    <2>1. CASE UNCHANGED pid BY <2>1 DEF PidsDistinct
    <2>2. CASE \E n \in Names : pid' = [pid EXCEPT ![n] = 0]
      BY <2>0, <2>2 DEF PidsDistinct
    <2>3. CASE Activate
      <3>1. /\ cur \in Names /\ \A n \in Names : pid[n] < forked
        BY <2>3 DEF Activate, At, LegionInv, ControlInv, StartInv, Busy, Starting
      <3>2. \A n \in Names : pid[n] \in Int /\ forked \in Int
        BY DEF LegionInv, TypeOK
      <3>3. \A n \in Names : pid[n] # forked BY <3>1, <3>2
      <3>4. pid' = [pid EXCEPT ![cur] = forked] BY <2>3 DEF Activate
      <3> QED BY <2>0, <3>1, <3>3, <3>4 DEF PidsDistinct
    <2> QED BY <2>1, <2>2, <2>3, PidStep DEF vars
  <1> QED BY LegionInvCorrect, <1>1, <1>2, PTL DEF Spec

\* Steps that the life of the daemons does not see.
LEMMA StutterStep ==
  ASSUME LegionInv,
         \/ \E p \in Procs : ChildExec(p) \/ ChildSync(p) \/ ChildDies(p)
         \/ QuitCommand \/ EndOfInput \/ Rename
         \/ \E n \in Names : StartCommand(n) \/ StopCommand(n) \/ legion_logrotate(n)
         \/ StartRefused \/ StartFails \/ BlockSigchld \/ ReadByte \/ ReadEof \/ Started
         \/ StopUnregistered \/ StopRefused \/ DeliverSigchld \/ SeeSigchld \/ Kill
         \/ sigint_handler \/ sigalrm_handler \/ QuitStep
  PROVE  UNCHANGED <<status, Reaped>>
  <1>0. TypeOK BY DEF LegionInv
  <1>1. CASE \E p \in Procs : ChildExec(p) \/ ChildSync(p) \/ ChildDies(p)
    BY <1>0, <1>1 DEF ChildExec, ChildSync, ChildDies, TypeOK, Alive, Reaped, table
  <1>2. CASE Kill
    <2>1. cur \in Names /\ pid[cur] \in Procs /\ Unreaped(pid[cur])
      BY <1>2 DEF Kill, At, LegionInv, ControlInv, StopInv, StatusMatchesProcess, Held, Busy,
                  Stopping
    <2> QED BY <1>0, <1>2, <2>1 DEF Kill, TypeOK, Unreaped, Alive, Reaped, table
  <1>3. CASE UNCHANGED <<table, proc>> BY <1>3 DEF Reaped, table
  <1> QED
    BY <1>1, <1>2, <1>3
       DEF QuitCommand, EndOfInput, Rename, StartCommand, StopCommand, legion_logrotate,
           StartRefused, StartFails, BlockSigchld, ReadByte, ReadEof, Started,
           StopUnregistered, StopRefused, DeliverSigchld, SeeSigchld, sigint_handler,
           sigalrm_handler, QuitStep, procs

\* Steps that are steps in the life of a daemon.
LEMMA LifeStep ==
  ASSUME LegionInv, PidsDistinct,
         \/ \E n \in Names : legion_register(n) \/ legion_unregister(n)
         \/ Fork \/ Activate \/ TimedOut \/ Reset \/ Terminate \/ Wait
  PROVE  Life!Next
  <1>0. TypeOK /\ pid \in [Names -> 0..MaxProcs] BY DEF LegionInv, TypeOK
  <1> USE DEF At, SetStatus, Life!Move
  <1>1. ASSUME NEW n \in Names, legion_register(n) PROVE Life!Register(n)
    BY <1>0, <1>1, LegionAssumption DEF legion_register, Life!Register, Reaped, Procs, procs
  <1>2. ASSUME NEW n \in Names, legion_unregister(n) PROVE Life!Unregister(n)
    BY <1>2 DEF legion_unregister, Life!Unregister, Reaped, procs
  <1>3. cur \in Names \/ \E n \in Names : legion_register(n) \/ legion_unregister(n)
    BY DEF LegionInv, ControlInv, Fork, Activate, TimedOut, Reset, Terminate, Wait, Busy
  <1>4. CASE Fork /\ cur \in Names
    <2>1. \A n \in Names : pid[n] # forked + 1
      <3>1. \A n \in Names : pid[n] \in Int /\ forked \in Int /\ pid[n] <= forked
        BY DEF LegionInv, TypeOK, StartInv
      <3> QED BY <3>1
    <2>2. UNCHANGED Reaped BY <1>0, <1>4, <2>1 DEF Fork, Reaped, TypeOK
    <2> QED BY <1>4, <2>2 DEF Fork, Life!Start, Life!Next
  <1>5. CASE Activate /\ cur \in Names
    <2>1. status[cur] = "starting" /\ forked \in Procs /\ Unreaped(forked)
      BY <1>5 DEF Activate, LegionInv, StartInv, Starting
    <2>2. pid' = [pid EXCEPT ![cur] = forked] /\ UNCHANGED proc
      BY <1>5 DEF Activate, procs
    <2>3. Reaped' = Reaped \ {cur}
      BY <1>0, <1>5, <2>1, <2>2 DEF Reaped, Unreaped, Alive
    <2> QED BY <1>5, <2>1, <2>3 DEF Activate, Life!Activate, Life!Next
  <1>6. CASE TimedOut /\ cur \in Names
    <2>1. status[cur] \in {"starting", "active"}
      BY <1>6 DEF TimedOut, LegionInv, StartInv
    <2>2. UNCHANGED Reaped BY <1>6 DEF TimedOut, Reaped, procs
    <2> QED BY <1>6, <2>1, <2>2 DEF TimedOut, Life!Crashed, Life!Next
  <1>7. CASE Reset /\ cur \in Names
    <2>1. UNCHANGED Reaped BY <1>7 DEF Reset, Reaped, procs
    <2> QED BY <1>7, <2>1 DEF Reset, Life!Reset, Life!Next
  <1>8. CASE Terminate /\ cur \in Names
    <2>1. UNCHANGED Reaped BY <1>8 DEF Terminate, Reaped, procs
    <2> QED BY <1>8, <2>1 DEF Terminate, Life!Stop, Life!Next
  <1>9. CASE Wait /\ cur \in Names
    <2>1. status[cur] = "stopping" /\ pid[cur] \in Procs
      BY <1>9 DEF Wait, LegionInv, StopInv, Stopping, StatusMatchesProcess, Held
    <2>2. \A n \in Names : pid[n] = pid[cur] => n = cur
      <3>1. pid[cur] # 0 BY <2>1 DEF Procs
      <3> QED BY <1>9, <3>1 DEF PidsDistinct
    <2>3. UNCHANGED pid /\ proc' = [proc EXCEPT ![pid[cur]] = "gone"]
      BY <1>9 DEF Wait
    <2>4. Reaped' = Reaped \cup {cur}
      BY <1>0, <1>9, <2>1, <2>2, <2>3 DEF Reaped, TypeOK
    <2> QED BY <1>9, <2>1, <2>4 DEF Wait, Life!Exited, Life!Next
  <1> QED BY <1>1, <1>2, <1>3, <1>4, <1>5, <1>6, <1>7, <1>8, <1>9 DEF Life!Next

\* The table of legion goes through the life of a daemon in DaemonLife.
THEOREM LegionImplementsLife == Spec => ImplementsLife
  <1>1. Init => Life!Init
    BY DEF Init, Life!Init, Reaped, Procs
  <1>2. LegionInv /\ PidsDistinct /\ [Next]_vars => [Life!Next]_<<status, Reaped>>
    <2> SUFFICES ASSUME LegionInv, PidsDistinct, [Next]_vars
                 PROVE  Life!Next \/ UNCHANGED <<status, Reaped>>
      OBVIOUS
    <2>1. CASE Next
      BY <2>1, StutterStep, LifeStep DEF Next, Command, legion_start, legion_stop, Child
    <2>2. CASE UNCHANGED vars BY <2>2 DEF vars, Reaped
    <2> QED BY <2>1, <2>2
  <1> QED BY LegionInvCorrect, PidsDistinctCorrect, <1>1, <1>2, PTL
          DEF Spec, ImplementsLife, Life!Spec

-----------------------------------------------------------------------------
(***************************************************************************)
(* The log files.  The version that the next rename would replace has been *)
(* renamed or deleted before; only a child can have opened it again.       *)
(***************************************************************************)
RenameInv == (pc = "renaming" /\ version + 1 \in logs[cur]) => version + 1 \in late

\* A step that keeps the command loop where it is and opens no file leaves
\* the next rename alone; so does one that is not followed by a rename.
LEMMA RenameQuiet ==
  ASSUME RenameInv,
         \/ pc' # "renaming"
         \/ UNCHANGED <<pc, cur, version, logs, late>>
  PROVE  RenameInv'
  BY DEF RenameInv

\* Every step keeps RenameInv.
LEMMA RenameInvStep ==
  ASSUME LegionInv, RenameInv, [Next]_vars
  PROVE  RenameInv'
  <1>0. TypeOK /\ ChildInv /\ logs \in [Names -> SUBSET Versions] BY DEF LegionInv, TypeOK
  <1>1. ASSUME NEW n \in Names, legion_logrotate(n) PROVE RenameInv'
    <2>1. CASE pc' = "renaming"
      <3>1. /\ logs' = [logs EXCEPT ![n] = @ \ {LOG_VERSIONS - 1}] /\ cur' = n
            /\ version' = LOG_VERSIONS - 2
        BY <1>1, <2>1 DEF legion_logrotate, Call, Restart
      <3>2. version' + 1 \notin logs'[cur'] BY <1>0, <3>1, LegionAssumption
      <3> QED BY <3>2 DEF RenameInv
    <2> QED BY <2>1, RenameQuiet
  <1>2. CASE Rename
    <2>1. CASE /\ version >= 0 /\ UNCHANGED <<pc, cur, late>> /\ version' = version - 1
               /\ logs' = [logs EXCEPT ![cur] = (@ \ {version}) \cup {version + 1}]
      <3>1. cur \in Names /\ version \in Int
        BY <1>2, LegionAssumption
           DEF Rename, At, LegionInv, ControlInv, Busy, TypeOK, Versions
      <3>2. version' + 1 = version BY <2>1, <3>1
      <3>3. logs'[cur] = (logs[cur] \ {version}) \cup {version + 1} BY <1>0, <2>1, <3>1
      <3>4. version # version + 1 BY <3>1
      <3>5. version' + 1 \notin logs'[cur'] BY <2>1, <3>2, <3>3, <3>4
      <3> QED BY <3>5 DEF RenameInv
    <2>2. CASE Return
      <3>1. version \in Versions \cup {-1} /\ todo \in Seq({"stop", "start"})
        BY <1>0 DEF TypeOK
      <3>2. todo # <<>> => Head(todo) \in {"stop", "start"} BY <3>1
      <3>3. pc' # "renaming" BY <2>2, <3>2 DEF Return
      <3> QED BY <3>3, RenameQuiet
    <2>3. CASE Restart(cur, 0) BY <2>3, RenameQuiet DEF Restart, Call
    <2> QED BY <1>2, <2>1, <2>2, <2>3 DEF Rename
  <1>3. ASSUME NEW p \in Procs, ChildExec(p) PROVE RenameInv'
    <2> DEFINE m == logOf[p][1]
               v == logOf[p][2]
    <2>1. /\ UNCHANGED <<pc, cur, version>> /\ m \in Names
          /\ logs' = [logs EXCEPT ![m] = logs[m] \cup {v}]
          /\ late' = IF pc = "renaming" /\ m = cur THEN late \cup {v} ELSE late
      BY <1>0, <1>3 DEF ChildExec, control, At, ChildInv
    <2> HIDE DEF m, v
    <2>2. ASSUME pc = "renaming" PROVE cur \in Names
      BY <2>2 DEF LegionInv, ControlInv, Busy
    <2> QED BY <1>0, <2>1, <2>2 DEF RenameInv
  <1>4. ASSUME NEW p \in Procs, ChildSync(p) \/ ChildDies(p) PROVE RenameInv'
    BY <1>4, RenameQuiet DEF ChildSync, ChildDies, control
  <1>5. CASE \/ QuitCommand \/ EndOfInput \/ QuitStep \/ sigint_handler
             \/ \E n \in Names : \/ legion_register(n) \/ legion_unregister(n)
                                 \/ StartCommand(n) \/ StopCommand(n)
    BY <1>5, RenameQuiet DEF QuitCommand, EndOfInput, QuitStep, sigint_handler, StartCommand,
       StopCommand, legion_register, legion_unregister, BeginQuit, Goto, Call, At, control
  <1>6. CASE sigalrm_handler
    <2>1. pc' # "renaming" \/ UNCHANGED <<pc, cur, version, logs, late>>
      BY <1>6 DEF sigalrm_handler, Goto, At, control, procs
    <2> QED BY <2>1, RenameQuiet
  <1>7. CASE legion_start \/ legion_stop
    <2>1. todo # <<>> => Head(todo) \in {"stop", "start"}
      <3>1. todo \in Seq({"stop", "start"}) BY <1>0 DEF TypeOK
      <3> QED BY <3>1
    <2>2. Return => pc' # "renaming" BY <2>1 DEF Return
    <2>3. pc' # "renaming"
      BY <1>7, <2>2 DEF legion_start, legion_stop, StartRefused, StartFails, Fork,
         BlockSigchld, ReadByte, ReadEof, Activate, Started, TimedOut, StopUnregistered,
         Reset, StopRefused, Terminate, DeliverSigchld, SeeSigchld, Kill, Wait, Goto
    <2> QED BY <2>3, RenameQuiet
  <1>8. CASE UNCHANGED vars BY <1>8, RenameQuiet DEF vars
  <1> QED BY <1>1, <1>2, <1>3, <1>4, <1>5, <1>6, <1>7, <1>8 DEF Next, Command, Child

\* A file is replaced by another: no log is lost.
LEMMA RenameKeepsCount ==
  ASSUME NEW S \in SUBSET Versions, NEW i \in S, NEW j, j \notin S
  PROVE  Cardinality((S \ {i}) \cup {j}) = Cardinality(S) /\ Cardinality(S) \in Nat
  <1>1. IsFiniteSet(Versions)
    BY FS_Interval, LegionAssumption DEF Versions
  <1>2. IsFiniteSet(S) /\ Cardinality(S) \in Nat
    BY <1>1, FS_Subset, FS_CardinalityType
  <1>3. IsFiniteSet(S \ {i}) /\ Cardinality(S \ {i}) = Cardinality(S) - 1
    BY <1>2, FS_RemoveElement
  <1>4. Cardinality((S \ {i}) \cup {j}) = Cardinality(S \ {i}) + 1
    BY <1>3, FS_AddElement
  <1> QED BY <1>2, <1>3, <1>4

\* What a step that loses a log does to the files.
LEMMA LogsStep ==
  ASSUME LegionInv, [Next]_vars
  PROVE  \/ UNCHANGED logs
         \/ \E n \in Names : logs' = [logs EXCEPT ![n] = @ \ {LOG_VERSIONS - 1}]
         \/ \E n \in Names, v \in Versions : logs' = [logs EXCEPT ![n] = @ \cup {v}]
         \/ /\ pc = "renaming" /\ version \in logs[cur]
            /\ logs' = [logs EXCEPT ![cur] = (@ \ {version}) \cup {version + 1}]
  <1>1. ASSUME NEW p \in Procs, ChildExec(p)
        PROVE  \E n \in Names, v \in Versions : logs' = [logs EXCEPT ![n] = @ \cup {v}]
    <2>1. logOf[p] \in Names \X Versions BY <1>1 DEF ChildExec, LegionInv, ChildInv
    <2>2. logOf[p][1] \in Names /\ logOf[p][2] \in Versions BY <2>1
    <2>3. logs' = [logs EXCEPT ![logOf[p][1]] = @ \cup {logOf[p][2]}] BY <1>1 DEF ChildExec
    <2> QED BY <2>2, <2>3
  <1>2. CASE Rename BY <1>2 DEF Rename, At
  <1>3. ASSUME NEW n \in Names, legion_logrotate(n)
        PROVE  UNCHANGED logs \/ logs' = [logs EXCEPT ![n] = @ \ {LOG_VERSIONS - 1}]
    BY <1>3 DEF legion_logrotate
  <1>4. CASE \/ UNCHANGED vars \/ legion_start \/ legion_stop
             \/ QuitCommand \/ EndOfInput \/ QuitStep \/ sigint_handler \/ sigalrm_handler
             \/ \E p \in Procs : ChildSync(p) \/ ChildDies(p)
             \/ \E n \in Names : \/ legion_register(n) \/ legion_unregister(n)
                                 \/ StartCommand(n) \/ StopCommand(n)
    BY <1>4 DEF vars, procs, legion_start, legion_stop, StartRefused, StartFails, Fork,
       BlockSigchld, ReadByte, ReadEof, Activate, Started, TimedOut, StopUnregistered,
       Reset, StopRefused, Terminate, DeliverSigchld, SeeSigchld, Kill, Wait, QuitCommand,
       EndOfInput, QuitStep, sigint_handler, sigalrm_handler, ChildSync, ChildDies,
       legion_register, legion_unregister, StartCommand, StopCommand
  <1> QED BY <1>1, <1>2, <1>3, <1>4 DEF Next, Command, Child

\* A rotation loses no log but the last version, which it deletes, wherever
\* it is interrupted or fails and whatever gaps there are.
THEOREM RotationKeepsLogsCorrect == Spec => RotationKeepsLogs
  <1>1. Init => RenameInv BY DEF Init, RenameInv
  <1>2. LegionInv /\ RenameInv /\ [Next]_vars => RenameInv' BY RenameInvStep
  <1>3. LegionInv /\ RenameInv /\ [Next]_vars
        => [\A n \in Names : Cardinality(logs'[n]) < Cardinality(logs[n])
              => \/ logs'[n] = logs[n] \ {LOG_VERSIONS - 1}
                 \/ version + 1 \in late]_vars
    <2> SUFFICES ASSUME LegionInv, RenameInv, [Next]_vars, NEW n \in Names,
                        Cardinality(logs'[n]) < Cardinality(logs[n])
                 PROVE  \/ logs'[n] = logs[n] \ {LOG_VERSIONS - 1}
                        \/ version + 1 \in late
      OBVIOUS
    <2>0. logs \in [Names -> SUBSET Versions] BY DEF LegionInv, TypeOK
    <2>1. IsFiniteSet(Versions) BY FS_Interval, LegionAssumption DEF Versions
    <2>2. \A S \in SUBSET Versions : IsFiniteSet(S) /\ Cardinality(S) \in Nat
      BY <2>1, FS_Subset, FS_CardinalityType
    <2>3. logs[n] \in SUBSET Versions /\ Cardinality(logs[n]) \in Nat BY <2>0, <2>2
    <2>4. CASE logs'[n] = logs[n] BY <2>3, <2>4
    <2>5. CASE logs'[n] = logs[n] \ {LOG_VERSIONS - 1} BY <2>5
    <2>6. ASSUME NEW v \in Versions, logs'[n] = logs[n] \cup {v} PROVE FALSE
      <3>1. logs'[n] \in SUBSET Versions BY <2>3, <2>6
      <3>2. IsFiniteSet(logs'[n]) /\ Cardinality(logs'[n]) \in Nat BY <2>2, <3>1
      <3>3. Cardinality(logs[n]) <= Cardinality(logs'[n]) BY <2>6, <3>2, FS_Subset
      <3> QED BY <2>3, <3>2, <3>3
    <2>7. CASE /\ pc = "renaming" /\ n = cur /\ version \in logs[n]
               /\ logs'[n] = (logs[n] \ {version}) \cup {version + 1}
      <3>1. CASE version + 1 \in logs[cur] BY <2>7, <3>1 DEF RenameInv
      <3>2. CASE version + 1 \notin logs[n]
        <4>1. Cardinality(logs'[n]) = Cardinality(logs[n])
          BY <2>3, <2>7, <3>2, RenameKeepsCount
        <4> QED BY <2>3, <4>1
      <3> QED BY <2>7, <3>1, <3>2
    <2>8. \A m \in Names : \A S : logs' = [logs EXCEPT ![m] = S]
                                   => logs'[n] = logs[n] \/ (m = n /\ logs'[n] = S)
      BY <2>0
    <2>9. PICK m \in Names \cup {cur} :
            \/ UNCHANGED logs
            \/ m \in Names /\ logs' = [logs EXCEPT ![m] = logs[m] \ {LOG_VERSIONS - 1}]
            \/ m \in Names /\ \E v \in Versions : logs' = [logs EXCEPT ![m] = logs[m] \cup {v}]
            \/ /\ pc = "renaming" /\ version \in logs[m] /\ m = cur
               /\ logs' = [logs EXCEPT ![m] = (logs[m] \ {version}) \cup {version + 1}]
      BY LogsStep
    <2>10. pc = "renaming" => cur \in Names BY DEF LegionInv, ControlInv, Busy
    <2>11. \/ logs'[n] = logs[n]
           \/ logs'[n] = logs[n] \ {LOG_VERSIONS - 1}
           \/ \E v \in Versions : logs'[n] = logs[n] \cup {v}
           \/ /\ pc = "renaming" /\ n = cur /\ version \in logs[n]
              /\ logs'[n] = (logs[n] \ {version}) \cup {version + 1}
      BY <2>8, <2>9, <2>10
    <2> QED BY <2>4, <2>5, <2>6, <2>7, <2>11
  <1> QED BY LegionInvCorrect, <1>1, <1>2, <1>3, PTL DEF Spec, RotationKeepsLogs
=============================================================================
