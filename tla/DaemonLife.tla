----------------------------- MODULE DaemonLife -----------------------------
(***************************************************************************)
(* What the statuses of hw4/include/legion.h promise of a daemon: the life *)
(* of each registered name, without processes, signals or time.  Legion    *)
(* implements it.                                                          *)
(***************************************************************************)
CONSTANT Names

VARIABLES
  status,   \* of each name; "unregistered" when no node has the name
  reaped    \* names whose last active process has been waited for

Move(n, from, to) == status[n] = from /\ status' = [status EXCEPT ![n] = to]

Init == status = [n \in Names |-> "unregistered"] /\ reaped = {}

Register(n)   == Move(n, "unregistered", "inactive") /\ reaped' = reaped \ {n}
Unregister(n) == Move(n, "inactive", "unregistered") /\ UNCHANGED reaped
Start(n)      == Move(n, "inactive", "starting") /\ UNCHANGED reaped
Activate(n)   == Move(n, "starting", "active") /\ reaped' = reaped \ {n}
Stop(n)       == Move(n, "active", "stopping") /\ UNCHANGED reaped

\* A daemon has exited when its process has been waited for.
Exited(n)     == Move(n, "stopping", "exited") /\ reaped' = reaped \cup {n}

\* A daemon that does not synchronise in time has crashed.
Crashed(n)    == (Move(n, "starting", "crashed") \/ Move(n, "active", "crashed"))
                 /\ UNCHANGED reaped

Reset(n)      == (Move(n, "exited", "inactive") \/ Move(n, "crashed", "inactive"))
                 /\ UNCHANGED reaped

Next == \E n \in Names : \/ Register(n) \/ Unregister(n) \/ Start(n) \/ Activate(n)
                         \/ Stop(n) \/ Exited(n) \/ Crashed(n) \/ Reset(n)

Spec == Init /\ [][Next]_<<status, reaped>>

=============================================================================
