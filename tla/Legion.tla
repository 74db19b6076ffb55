------------------------------- MODULE Legion -------------------------------
(***************************************************************************)
(* Legion, the daemon manager of hw4 (src/cli.c): the command loop with    *)
(* its table of daemons, the processes it starts, and the signals SIGCHLD, *)
(* SIGALRM, SIGINT and SIGTSTP.                                            *)
(*                                                                         *)
(* The command loop is one process; `pc' says where it is.  Between two    *)
(* labels it makes only system calls that neither wait nor can be told     *)
(* apart by a signal.  A signal handler that only sets a flag is part of   *)
(* the step that delivers the signal; the handlers of SIGINT and SIGTSTP   *)
(* call legion_quit, which does not return.                                *)
(*                                                                         *)
(* SIGCHLD is blocked by the first legion_start and stays so except inside *)
(* sigsuspend, and in a legion_quit that a signal runs inside sigsuspend.  *)
(* Blocked, it is pending at most once.  SIGALRM interrupts system calls   *)
(* (its handler is installed without SA_RESTART); SIGCHLD does not.  An    *)
(* alarm does not expire before the call that immediately follows          *)
(* alarm(CHILD_TIMEOUT) waits; apart from that it may at any time.         *)
(*                                                                         *)
(* A child whose exec fails returns into a command loop of its own.  For   *)
(* the parent it is a process that never synchronises.                     *)
(***************************************************************************)
EXTENDS Integers, Sequences, FiniteSets

CONSTANTS
  Names,         \* names of daemons
  MaxProcs,      \* bound on the number of processes started
  MaxSignals,    \* bound on the number of SIGINT and SIGTSTP
  LOG_VERSIONS

ASSUME LegionAssumption ==
  MaxProcs \in Nat /\ MaxSignals \in Nat /\ LOG_VERSIONS \in Nat \ {0}

VARIABLES
  nodes,         \* names in the table, most recently registered first
  status,        \* daemonStatus of each name
  pid,           \* daemonProcessID of each name
  proc,          \* state of each process
  wrote,         \* processes that have written the synchronisation byte
  logOf,         \* log file that a forked child will open, <<name, version>>
  logs,          \* versions of the log file of each name that exist
  late,          \* history: versions that children have opened for the daemon
                 \* of the current legion_logrotate since it began to rename
  forked,        \* number of processes started, the last process
  blocked,       \* SIGCHLD is blocked
  pending,       \* SIGCHLD is pending
  sigchld_flag, sigalrm_flag,
  alarm,         \* an alarm is set
  signals,       \* number of SIGINT and SIGTSTP so far
  pc,            \* where the command loop is
  cur,           \* the daemon of the current legion_start or legion_stop, or None
  version,       \* logFileVersion; i in the rename loop of legion_logrotate
  todo,          \* calls that legion_logrotate still has to make
  place          \* node legion_quit has reached, 0 outside legion_quit

table   == <<nodes, status, pid>>
procs   == <<proc, wrote, logOf, logs, late, forked>>
sigs    == <<blocked, pending, sigchld_flag, sigalrm_flag, alarm>>
control == <<pc, cur, version, todo, place>>
vars    == <<nodes, status, pid, proc, wrote, logOf, logs, late, forked, blocked, pending,
             sigchld_flag, sigalrm_flag, alarm, signals, pc, cur, version, todo, place>>

Procs == 1..MaxProcs
Versions == 0..(LOG_VERSIONS - 1)
NoLog == <<>>
None == "none"
ASSUME NoneIsNoName == None \notin Names

\* The log directory may hold any files of earlier sessions, which may have
\* ended in the middle of a rotation.
Init ==
  /\ nodes = <<>>
  /\ status = [n \in Names |-> "unregistered"] /\ pid = [n \in Names |-> 0]
  /\ proc = [p \in Procs |-> "none"] /\ wrote = {}
  /\ logOf = [p \in Procs |-> NoLog]
  /\ logs \in [Names -> SUBSET Versions] /\ late = {}
  /\ forked = 0
  /\ blocked = FALSE /\ pending = FALSE
  /\ sigchld_flag = FALSE /\ sigalrm_flag = FALSE /\ alarm = FALSE
  /\ signals = 0
  /\ pc = "prompt" /\ cur = None /\ version = 0 /\ todo = <<>> /\ place = 0

-----------------------------------------------------------------------------
(***************************************************************************)
(* The processes.  Nothing is assumed of a daemon: it may not synchronise, *)
(* may die at any time and may ignore SIGTERM.                             *)
(***************************************************************************)
Alive(p) == proc[p] \in {"forked", "daemon"}
Unreaped(p) == Alive(p) \/ proc[p] = "zombie"
Ended == pc \in {"exit", "segv"}

At(l) == pc = l

\* The kernel's SIGCHLD, and sigchld_handler when the signal is not blocked.
\* Then it may also have come just before sigsuspend, which it does not wake.
RaiseSigchld ==
  \/ (blocked \/ At("suspended")) /\ pending' = TRUE /\ UNCHANGED sigchld_flag
  \/ ~blocked /\ sigchld_flag' = TRUE /\ UNCHANGED pending

\* The child opens its log file and becomes the daemon.
ChildExec(p) ==
  /\ ~Ended /\ proc[p] = "forked"
  /\ proc' = [proc EXCEPT ![p] = "daemon"]
  /\ logs' = [logs EXCEPT ![logOf[p][1]] = @ \cup {logOf[p][2]}]
  /\ late' = IF At("renaming") /\ logOf[p][1] = cur THEN late \cup {logOf[p][2]} ELSE late
  /\ logOf' = [logOf EXCEPT ![p] = NoLog]
  /\ UNCHANGED <<table, wrote, forked, sigs, signals, control>>

ChildSync(p) ==
  /\ ~Ended /\ proc[p] = "daemon" /\ p \notin wrote
  /\ wrote' = wrote \cup {p}
  /\ UNCHANGED <<table, proc, logOf, logs, late, forked, sigs, signals, control>>

ChildDies(p) ==
  /\ ~Ended /\ Alive(p)
  /\ proc' = [proc EXCEPT ![p] = "zombie"]
  /\ logOf' = [logOf EXCEPT ![p] = NoLog]
  /\ RaiseSigchld
  /\ UNCHANGED <<table, wrote, logs, late, forked, blocked, sigalrm_flag, alarm, signals,
                 control>>

-----------------------------------------------------------------------------
\* A call of legion_start or legion_stop returns: to legion_quit, to
\* legion_logrotate, or to the command loop.
Return ==
  /\ \/ place > 0 /\ pc' = "quit" /\ cur' = None /\ UNCHANGED <<version, todo>>
     \/ place = 0 /\ todo # <<>> /\ pc' = Head(todo) /\ todo' = Tail(todo)
        /\ UNCHANGED <<cur, version>>
     \/ place = 0 /\ todo = <<>> /\ pc' = "prompt" /\ cur' = None /\ version' = 0
        /\ UNCHANGED todo
  /\ UNCHANGED place

Goto(l) == pc' = l /\ UNCHANGED <<cur, version, todo, place>>

Call(f, n, v, after) ==
  /\ pc' = f /\ cur' = n /\ version' = v /\ todo' = after
  /\ UNCHANGED place

SetStatus(s) == status' = [status EXCEPT ![cur] = s] /\ UNCHANGED nodes

-----------------------------------------------------------------------------
(***************************************************************************)
(* Commands, each with its arguments.  help, status and status-all change  *)
(* nothing, and neither does a command with too many arguments.            *)
(***************************************************************************)
legion_register(n) ==
  /\ At("prompt") /\ status[n] = "unregistered"
  /\ nodes' = <<n>> \o nodes
  /\ status' = [status EXCEPT ![n] = "inactive"]
  /\ pid' = [pid EXCEPT ![n] = 0]
  /\ UNCHANGED <<procs, sigs, signals, control>>

Unlink(i) == nodes' = SubSeq(nodes, 1, i - 1) \o SubSeq(nodes, i + 1, Len(nodes))

UnregisterAny(n) ==
  /\ At("prompt") /\ status[n] # "unregistered"
  /\ \E i \in 1..Len(nodes) : nodes[i] = n /\ Unlink(i)
  /\ status' = [status EXCEPT ![n] = "unregistered"]
  /\ UNCHANGED <<pid, procs, sigs, signals, control>>

legion_unregister(n) ==
  /\ At("prompt") /\ status[n] = "inactive"
  /\ \E i \in 1..Len(nodes) : nodes[i] = n /\ Unlink(i)
  /\ status' = [status EXCEPT ![n] = "unregistered"]
  /\ UNCHANGED <<pid, procs, sigs, signals, control>>

StartCommand(n) ==
  /\ At("prompt")
  /\ Call("start", n, 0, <<>>)
  /\ UNCHANGED <<table, procs, sigs, signals>>

StopCommand(n) ==
  /\ At("prompt")
  /\ Call("stop", n, 0, <<>>)
  /\ UNCHANGED <<table, procs, sigs, signals>>

IsFirstFree(n, k) == k \notin logs[n] /\ \A j \in 0..(k - 1) : j \in logs[n]

\* legion_logrotate goes on with two calls of legion_stop, the second of
\* which resets the daemon, and one of legion_start, whatever they return.
Restart(n, v) == Call("stop", n, v, <<"stop", "start">>)

\* The last version is there and deleted, or the first free one is taken.
legion_logrotate(n) ==
  /\ At("prompt") /\ status[n] = "active"
  /\ \/ /\ LOG_VERSIONS - 1 \in logs[n]
        /\ logs' = [logs EXCEPT ![n] = @ \ {LOG_VERSIONS - 1}] /\ late' = {}
        /\ Call("renaming", n, LOG_VERSIONS - 2, <<>>)
     \/ /\ LOG_VERSIONS - 1 \notin logs[n]
        /\ \E k \in Versions : IsFirstFree(n, k) /\ Restart(n, k)
        /\ UNCHANGED <<logs, late>>
  /\ UNCHANGED <<table, proc, wrote, logOf, forked, sigs, signals>>

RenameUpwards ==
  /\ At("renaming")
  /\ \/ /\ version >= 0 /\ LOG_VERSIONS - 2 - version \in logs[cur]
        /\ logs' = [logs EXCEPT ![cur] = (@ \ {LOG_VERSIONS - 2 - version})
                                         \cup {LOG_VERSIONS - 1 - version}]
        /\ version' = version - 1 /\ UNCHANGED <<pc, cur, todo, place>>
     \/ /\ version >= 0 /\ LOG_VERSIONS - 2 - version \notin logs[cur]
        /\ Return /\ UNCHANGED logs
     \/ version < 0 /\ Restart(cur, 0) /\ UNCHANGED logs
  /\ UNCHANGED <<table, proc, wrote, logOf, late, forked, sigs, signals>>

\* One turn of the loop that renames version i to i + 1, from the highest
\* down.  A signal may end the program before any of the renames, and a
\* rename of a version that is not there ends the rotation.
Rename ==
  /\ At("renaming")
  /\ \/ /\ version >= 0 /\ version \in logs[cur]
        /\ logs' = [logs EXCEPT ![cur] = (@ \ {version}) \cup {version + 1}]
        /\ version' = version - 1 /\ UNCHANGED <<pc, cur, todo, place>>
     \/ /\ version >= 0 /\ version \notin logs[cur]
        /\ Return /\ UNCHANGED logs
     \/ version < 0 /\ Restart(cur, 0) /\ UNCHANGED logs
  /\ UNCHANGED <<table, proc, wrote, logOf, late, forked, sigs, signals>>

-----------------------------------------------------------------------------
(***************************************************************************)
(* legion_start.                                                           *)
(***************************************************************************)
StartRefused ==
  /\ At("start") /\ status[cur] # "inactive"
  /\ Return
  /\ UNCHANGED <<table, procs, sigs, signals>>

\* pipe or fork fails: the status is set and set back.
StartFails ==
  /\ At("start") /\ status[cur] = "inactive"
  /\ Return
  /\ UNCHANGED <<table, procs, sigs, signals>>

Fork ==
  /\ At("start") /\ status[cur] = "inactive" /\ forked < MaxProcs
  /\ SetStatus("starting") /\ UNCHANGED pid
  /\ forked' = forked + 1
  /\ proc' = [proc EXCEPT ![forked + 1] = "forked"]
  /\ logOf' = [logOf EXCEPT ![forked + 1] = <<cur, version>>]
  /\ Goto("forked")
  /\ UNCHANGED <<wrote, logs, late, sigs, signals>>

\* sigprocmask blocks SIGCHLD and nothing unblocks it; alarm(CHILD_TIMEOUT).
BlockSigchld ==
  /\ At("forked")
  /\ blocked' = TRUE /\ alarm' = TRUE
  /\ Goto("reading")
  /\ UNCHANGED <<table, procs, pending, sigchld_flag, sigalrm_flag, signals>>

ReadByte ==
  /\ At("reading") /\ forked \in wrote
  /\ Goto("read")
  /\ UNCHANGED <<table, procs, sigs, signals>>

\* The process has died without a byte.  The alarm is left set.
ReadEof ==
  /\ At("reading") /\ forked \notin wrote /\ ~Alive(forked)
  /\ Goto("started")
  /\ UNCHANGED <<table, procs, sigs, signals>>

\* read has not returned 0: alarm(0), and the daemon is active, also when read
\* was interrupted by the alarm.
Activate ==
  /\ At("read")
  /\ alarm' = FALSE
  /\ SetStatus("active") /\ pid' = [pid EXCEPT ![cur] = forked]
  /\ Goto("started")
  /\ UNCHANGED <<procs, blocked, pending, sigchld_flag, sigalrm_flag, signals>>

Started ==
  /\ At("started") /\ ~sigalrm_flag
  /\ Return
  /\ UNCHANGED <<table, procs, sigs, signals>>

StartTimeoutIgnored ==
  /\ At("started") /\ sigalrm_flag
  /\ sigalrm_flag' = FALSE
  /\ Return
  /\ UNCHANGED <<table, procs, blocked, pending, sigchld_flag, alarm, signals>>

TimedOut ==
  /\ At("started") /\ sigalrm_flag
  /\ SetStatus("crashed") /\ sigalrm_flag' = FALSE
  /\ Return
  /\ UNCHANGED <<pid, procs, blocked, pending, sigchld_flag, alarm, signals>>

-----------------------------------------------------------------------------
(***************************************************************************)
(* legion_stop.                                                            *)
(***************************************************************************)

\* The status of the node that was not found is read.
StopUnregistered ==
  /\ At("stop") /\ status[cur] = "unregistered"
  /\ Goto("segv")
  /\ UNCHANGED <<table, procs, sigs, signals>>

Reset ==
  /\ At("stop") /\ status[cur] \in {"exited", "crashed"}
  /\ SetStatus("inactive")
  /\ Return
  /\ UNCHANGED <<pid, procs, sigs, signals>>

StopRefused ==
  /\ At("stop") /\ status[cur] \in {"inactive", "starting", "stopping"}
  /\ Return
  /\ UNCHANGED <<table, procs, sigs, signals>>

TerminateWithoutAlarm ==
  /\ At("stop") /\ status[cur] = "active"
  /\ SetStatus("stopping")
  /\ IF Unreaped(pid[cur]) THEN Goto("suspended") ELSE Return
  /\ UNCHANGED <<pid, procs, sigs, signals>>

\* kill(SIGTERM), alarm(CHILD_TIMEOUT) and the beginning of sigsuspend.
\* kill fails when there is no such process.
Terminate ==
  /\ At("stop") /\ status[cur] = "active"
  /\ SetStatus("stopping")
  /\ IF Unreaped(pid[cur]) THEN alarm' = TRUE /\ Goto("suspended")
                           ELSE Return /\ UNCHANGED alarm
  /\ UNCHANGED <<pid, procs, blocked, pending, sigchld_flag, sigalrm_flag, signals>>

\* sigsuspend returns after sigchld_handler.
DeliverSigchld ==
  /\ At("suspended") /\ pending
  /\ pending' = FALSE /\ sigchld_flag' = TRUE
  /\ Goto("woken")
  /\ UNCHANGED <<table, procs, blocked, sigalrm_flag, alarm, signals>>

\* The flag may stem from any child: alarm(0), then waitpid without a limit.
SeeSigchld ==
  /\ At("woken") /\ sigchld_flag
  /\ alarm' = FALSE
  /\ Goto("waitpid")
  /\ UNCHANGED <<table, procs, blocked, pending, sigchld_flag, sigalrm_flag, signals>>

\* SIGKILL.  The status stays "stopping" and nobody waits for the process.
Kill ==
  /\ At("woken") /\ ~sigchld_flag /\ sigalrm_flag
  /\ proc' = [proc EXCEPT ![pid[cur]] = "zombie"]
  /\ logOf' = [logOf EXCEPT ![pid[cur]] = NoLog]
  /\ IF Alive(pid[cur]) THEN RaiseSigchld ELSE UNCHANGED <<pending, sigchld_flag>>
  /\ sigalrm_flag' = FALSE
  /\ Return
  /\ UNCHANGED <<table, wrote, logs, late, forked, blocked, alarm, signals>>

WaitWithoutStatus ==
  /\ At("waitpid") /\ proc[pid[cur]] = "zombie"
  /\ proc' = [proc EXCEPT ![pid[cur]] = "gone"]
  /\ SetStatus("active") /\ sigchld_flag' = FALSE
  /\ Return
  /\ UNCHANGED <<pid, wrote, logOf, logs, late, forked, blocked, pending, sigalrm_flag, alarm,
                 signals>>

\* waitpid.  Its error branch would need a process that is already reaped.
Wait ==
  /\ At("waitpid") /\ proc[pid[cur]] = "zombie"
  /\ proc' = [proc EXCEPT ![pid[cur]] = "gone"]
  /\ SetStatus("exited") /\ sigchld_flag' = FALSE
  /\ Return
  /\ UNCHANGED <<pid, wrote, logOf, logs, late, forked, blocked, pending, sigalrm_flag, alarm,
                 signals>>

-----------------------------------------------------------------------------
(***************************************************************************)
(* legion_quit, end of input, and SIGALRM.                                 *)
(***************************************************************************)
BeginQuit == pc' = "quit" /\ place' = 1 /\ todo' = <<>>
             /\ cur' = None /\ version' = 0

QuitCommand ==
  /\ At("prompt")
  /\ BeginQuit
  /\ UNCHANGED <<table, procs, sigs, signals>>

\* SIGINT and SIGTSTP may arrive anywhere, also inside legion_quit.  In
\* sigsuspend the handler keeps the mask that unblocks SIGCHLD.
sigint_handler ==
  /\ ~Ended /\ signals < MaxSignals
  /\ signals' = signals + 1
  /\ BeginQuit
  /\ IF At("suspended")
     THEN /\ blocked' = FALSE /\ pending' = FALSE
          /\ sigchld_flag' = (sigchld_flag \/ pending)
     ELSE UNCHANGED <<blocked, pending, sigchld_flag>>
  /\ UNCHANGED <<table, procs, sigalrm_flag, alarm>>

QuitStep ==
  /\ At("quit")
  /\ \/ /\ place > Len(nodes)
        /\ Goto("exit")
     \/ /\ place <= Len(nodes) /\ status[nodes[place]] # "active"
        /\ place' = place + 1 /\ UNCHANGED <<pc, cur, version, todo>>
     \/ /\ place <= Len(nodes) /\ status[nodes[place]] = "active"
        /\ pc' = "stop" /\ cur' = nodes[place] /\ place' = place + 1
        /\ UNCHANGED <<version, todo>>
  /\ UNCHANGED <<table, procs, sigs, signals>>

\* getline fails: run_cli returns to main, which exits.
EndOfInput ==
  /\ At("prompt")
  /\ Goto("exit")
  /\ UNCHANGED <<table, procs, sigs, signals>>

\* sigalrm_handler.  A read or sigsuspend that waits is interrupted, and so
\* is getline, which then fails like at the end of input.
sigalrm_handler ==
  /\ alarm /\ ~Ended
  /\ alarm' = FALSE /\ sigalrm_flag' = TRUE
  /\ \/ At("reading") /\ Goto("read")
     \/ At("suspended") /\ Goto("woken")
     \/ At("prompt") /\ Goto("exit")
     \/ pc \notin {"reading", "suspended"} /\ UNCHANGED control
  /\ UNCHANGED <<table, procs, blocked, pending, sigchld_flag, signals>>

-----------------------------------------------------------------------------
legion_start == \/ StartRefused \/ StartFails \/ Fork \/ BlockSigchld \/ ReadByte
                \/ ReadEof \/ Activate \/ Started \/ TimedOut

legion_stop == \/ StopUnregistered \/ Reset \/ StopRefused \/ Terminate
               \/ DeliverSigchld \/ SeeSigchld \/ Kill \/ Wait

Command == \/ \E n \in Names : \/ legion_register(n) \/ legion_unregister(n)
                               \/ StartCommand(n) \/ StopCommand(n) \/ legion_logrotate(n)
           \/ Rename \/ QuitCommand \/ EndOfInput

Child == \E p \in Procs : ChildExec(p) \/ ChildSync(p) \/ ChildDies(p)

Next == Command \/ legion_start \/ legion_stop \/ QuitStep
        \/ sigint_handler \/ sigalrm_handler \/ Child

Spec == Init /\ [][Next]_vars

\* The command loop runs and the alarm goes off; nothing obliges a daemon to
\* do anything, nor the user to enter a command.
Fairness == /\ WF_vars(legion_start \/ legion_stop \/ Rename \/ QuitStep)
            /\ WF_vars(sigalrm_handler)

FairSpec == Spec /\ Fairness

-----------------------------------------------------------------------------
Statuses == {"unregistered", "inactive", "starting", "active", "stopping",
             "exited", "crashed"}
Labels == {"prompt", "renaming", "start", "forked", "reading", "read", "started", "stop",
           "suspended", "woken", "waitpid", "quit", "exit", "segv"}

\* Types of the table, the processes, the signals and the control state.
TypeOK ==
  /\ nodes \in Seq(Names)
  /\ status \in [Names -> Statuses] /\ pid \in [Names -> 0..MaxProcs]
  /\ proc \in [Procs -> {"none", "forked", "daemon", "zombie", "gone"}]
  /\ wrote \subseteq Procs
  /\ logOf \in [Procs -> (Names \X Versions) \cup {NoLog}]
  /\ logs \in [Names -> SUBSET Versions] /\ late \subseteq Versions
  /\ forked \in 0..MaxProcs
  /\ blocked \in BOOLEAN /\ pending \in BOOLEAN /\ alarm \in BOOLEAN
  /\ sigchld_flag \in BOOLEAN /\ sigalrm_flag \in BOOLEAN
  /\ signals \in 0..MaxSignals
  /\ pc \in Labels /\ cur \in Names \cup {None} /\ version \in Versions \cup {-1}
  /\ todo \in Seq({"stop", "start"}) /\ place \in Nat

Held == {n \in Names : status[n] \in {"active", "stopping"}}

\* legion_stop signals and waits for a process only while the process is a
\* child that has not been waited for, and of no other daemon; a daemon that
\* has exited has been waited for.
StatusMatchesProcess ==
  /\ \A n \in Held : pid[n] \in Procs /\ Unreaped(pid[n])
  /\ \A m, n \in Held : pid[m] = pid[n] => m = n
  /\ \A n \in Names : status[n] = "exited" => pid[n] \in Procs /\ proc[pid[n]] = "gone"

\* A daemon is left active by a command only if it has synchronised, although
\* legion_start takes an interrupted read for a byte.
ActiveHasSynced ==
  \A n \in Names : (status[n] = "active" /\ place = 0 /\ ~(pc = "started" /\ cur = n))
                   => pid[n] \in wrote

\* A log is lost only when legion_logrotate deletes the last version: no
\* rename of a rotation replaces a file, whatever gaps earlier rotations have
\* left, except one that a child of an earlier start has opened meanwhile.
RotationKeepsLogs ==
  [][\A n \in Names : Cardinality(logs'[n]) < Cardinality(logs[n])
       => \/ logs'[n] = logs[n] \ {LOG_VERSIONS - 1}
          \/ version + 1 \in late]_vars

Reaped == {n \in Names : pid[n] \in Procs /\ proc[pid[n]] = "gone"}

Life == INSTANCE DaemonLife WITH reaped <- Reaped

\* The table goes through the life of a daemon that DaemonLife describes.
ImplementsLife == Life!Spec

\* Every command ends, unless legion_stop waits for ever for a daemon that
\* does not die of SIGTERM.
CommandsFinish ==
  \/ []<>(pc = "prompt" \/ Ended)
  \/ <>[](pc = "waitpid" /\ Alive(pid[cur]))

=============================================================================
