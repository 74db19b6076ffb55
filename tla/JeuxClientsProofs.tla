------------------------- MODULE JeuxClientsProofs -------------------------
(***************************************************************************)
(* Proofs about JeuxClients, for any number of connections and any limit   *)
(* on the clients.                                                         *)
(***************************************************************************)
EXTENDS JeuxClients, FiniteSetTheorems, TLAPS

-----------------------------------------------------------------------------
(***************************************************************************)
(* The inductive invariant.                                                *)
(***************************************************************************)

\* tempNode of creg_shutdown_all is a node of the list from ReadHead on.
CursorInv ==
  /\ cursor <= Len(nodes)
  /\ main \in {"accept", "shutdown", "head"} => cursor = 0
  /\ main \in {"unregister", "next"} => cursor >= 1

\* The registry's reference to a client that is not yet unregistered counts.
HeldInv == \A i \in (Unregistered + 1)..Len(nodes) : refs[nodes[i]] >= 1

\* Until the walk of creg_shutdown_all has begun, and if it has seen no list,
\* notEmpty is taken by the thread that registers first and by nobody else.
SemInv ==
  main \in {"accept", "shutdown", "head"} \/ (main = "wait" /\ cursor = 0)
  => notEmpty = IF nodes = <<>> THEN 1 ELSE 0

\* notEmpty is free whenever no client is registered.
FreeInv == clientCount = 0 /\ main # "waited" => notEmpty > 0

ClientsInv ==
  /\ TypeOK /\ CountExact /\ RegisteredOnce
  /\ CursorInv /\ HeldInv /\ SemInv /\ FreeInv

-----------------------------------------------------------------------------
\* The list after creg_register has linked a node at its end.
LEMMA AppendNode ==
  ASSUME NEW s \in Seq(Conns), NEW c \in Conns
  PROVE  /\ Append(s, c) \in Seq(Conns)
         /\ Len(Append(s, c)) = Len(s) + 1
         /\ \A i \in 1..Len(s) : Append(s, c)[i] = s[i]
         /\ Append(s, c)[Len(s) + 1] = c
         /\ Append(s, c) # <<>>
  OBVIOUS

\* The invariant holds before the first connection.
LEMMA ClientsInit == Init => ClientsInv
  BY NoneIsNoConn DEF Init, ClientsInv, TypeOK, CountExact, RegisteredOnce, CursorInv,
     HeldInv, SemInv, FreeInv, Unregistered,
     Registered, Labels, MainLabels, Faults, None

\* Steps that only move a thread along, or its login or lookup.
LEMMA QuietStep ==
  ASSUME ClientsInv, TypeOK',
         UNCHANGED <<registry, refs, main, cursor>>,
         \A c \in Conns : \/ pc'[c] = pc[c]
                          \/ pc[c] = "none" /\ pc'[c] = "start"
                          \/ pc[c] = "start" /\ pc'[c] = "refused"
                          \/ pc'[c] = "done"
                          \/ pc[c] = "idle" /\ pc'[c] = "make"
                          \/ pc[c] = "make" /\ pc'[c] = "idle"
  PROVE  ClientsInv'
  <1>1. CountExact' BY DEF ClientsInv, CountExact, Unregistered, registry
  <1>2. RegisteredOnce'
    <2>1. nodes' = nodes /\ Registered' = Registered
      BY DEF registry, Registered
    <2>2. ASSUME NEW c \in Conns
          PROVE  /\ pc'[c] \in {"none", "start", "refused"} => c \notin Registered
                 /\ pc'[c] \in {"idle", "make"} => c \in Registered
      BY DEF ClientsInv, RegisteredOnce
    <2> QED BY <2>1, <2>2 DEF ClientsInv, RegisteredOnce
  <1>3. CursorInv' /\ HeldInv' /\ SemInv' /\ FreeInv'
    BY DEF ClientsInv, CursorInv, HeldInv, SemInv, FreeInv, Unregistered, registry
  <1> QED BY <1>1, <1>2, <1>3 DEF ClientsInv

\* A fault changes nothing but the fact that there is one.
LEMMA DieStep ==
  ASSUME ClientsInv, NEW f \in Faults, Die(f)
  PROVE  ClientsInv'
  <1>1. TypeOK' BY DEF ClientsInv, TypeOK, Die, registry, threads
  <1> QED BY <1>1, QuietStep DEF Die, registry, threads

\* creg_register adds a client to the list.
LEMMA AddStep ==
  ASSUME ClientsInv, NEW c \in Conns, pc[c] = "start", AddNode(c),
         \/ nodes = <<>> /\ notEmpty > 0 /\ notEmpty' = notEmpty - 1
         \/ nodes # <<>> /\ UNCHANGED notEmpty,
         UNCHANGED <<loggedIn, target, invitations, main, cursor, fault>>
  PROVE  ClientsInv'
  <1> USE DEF ClientsInv
  <1>0. /\ nodes' \in Seq(Conns) /\ Len(nodes') = Len(nodes) + 1
        /\ \A i \in 1..Len(nodes) : nodes'[i] = nodes[i]
        /\ nodes'[Len(nodes) + 1] = c
        /\ nodes' # <<>>
        /\ Len(nodes) \in Nat
    <2>1. nodes \in Seq(Conns) /\ nodes' = Append(nodes, c) BY DEF AddNode, TypeOK
    <2> QED BY <2>1, AppendNode
  <1>1. TypeOK'
    BY <1>0 DEF TypeOK, AddNode, Goto, Labels
  <1>2. CountExact' /\ Unregistered' = Unregistered /\ Unregistered \in Int
    BY <1>0 DEF CountExact, AddNode, Unregistered, TypeOK
  <1>3. c \notin Registered BY DEF RegisteredOnce
  <1>4. Registered' = Registered \cup {c}
    BY <1>0 DEF Registered
  <1>5. RegisteredOnce'
    <2>1. \A i, j \in 1..Len(nodes') : nodes'[i] = nodes'[j] => i = j
      BY <1>0, <1>3 DEF RegisteredOnce, Registered
    <2>2. pc' = [pc EXCEPT ![c] = "idle"] BY DEF AddNode, Goto
    <2> QED BY <2>1, <2>2, <1>4 DEF RegisteredOnce, TypeOK
  <1>6. CursorInv' BY <1>0 DEF CursorInv, TypeOK
  <1>7. HeldInv'
    <2> SUFFICES ASSUME NEW i \in (Unregistered + 1)..Len(nodes')
                 PROVE  refs'[nodes'[i]] >= 1
      BY <1>2 DEF HeldInv
    <2>0. i >= Unregistered + 1 /\ i <= Len(nodes) + 1 /\ i \in Int
      BY <1>0, <1>2
    <2>1. CASE i = Len(nodes) + 1
      BY <2>1, <1>0 DEF AddNode, TypeOK
    <2>2. CASE i <= Len(nodes)
      <3>0. Unregistered >= 0 BY DEF CursorInv, Unregistered, TypeOK
      <3>1. i \in 1..Len(nodes) /\ i \in (Unregistered + 1)..Len(nodes)
        BY <1>0, <1>2, <2>0, <2>2, <3>0
      <3>2. nodes'[i] = nodes[i] /\ nodes[i] \in Conns /\ nodes[i] # c
        BY <3>1, <1>0, <1>3 DEF TypeOK, Registered
      <3> QED BY <3>1, <3>2 DEF HeldInv, AddNode, TypeOK
    <2> QED BY <2>0, <2>1, <2>2, <1>0
  <1>8. SemInv' /\ FreeInv'
    BY <1>0 DEF SemInv, FreeInv, AddNode, TypeOK
  <1> QED BY <1>1, <1>2, <1>5, <1>6, <1>7, <1>8

-----------------------------------------------------------------------------
\* Every step of a service thread, and Accept, keeps the invariant.
LEMMA ThreadStep ==
  ASSUME ClientsInv, NEW c \in Conns, Accept(c) \/ ServiceStep(c)
  PROVE  ClientsInv'
  <1> USE DEF At, Goto, Running
  <1>0. TypeOK BY DEF ClientsInv
  <1>1. CASE Accept(c)
    <2>1. TypeOK' BY <1>0, <1>1 DEF Accept, TypeOK, registry, Labels
    <2> QED BY <1>0, <1>1, <2>1, QuietStep DEF Accept, TypeOK, ClientsInv
  <1>2. CASE creg_register(c)
    <2>1. CASE clientCount >= MAX_CLIENTS
      <3>1. /\ UNCHANGED <<registry, refs, main, cursor, loggedIn, target, invitations, fault>>
            /\ pc' = [pc EXCEPT ![c] = "refused"] /\ pc[c] = "start"
        BY <1>0, <1>2, <2>1, ClientsAssumption DEF creg_register, TypeOK
      <3>2. TypeOK' BY <1>0, <3>1 DEF TypeOK, registry, Labels
      <3> QED BY <1>0, <3>1, <3>2, QuietStep DEF TypeOK, ClientsInv
    <2>2. CASE ~(clientCount >= MAX_CLIENTS)
      BY <1>2, <2>2, AddStep DEF creg_register
    <2> QED BY <2>1, <2>2
  <1>3. CASE RegisterTooLate(c)
    BY <1>3, DieStep DEF RegisterTooLate, Faults
  <1>4. CASE Eof(c)
    <2>1. TypeOK' BY <1>0, <1>4 DEF Eof, TypeOK, registry, Labels
    <2> QED BY <1>0, <1>4, <2>1, QuietStep DEF Eof, TypeOK, ClientsInv
  <1>5. CASE NullClient(c)
    BY <1>5, DieStep DEF NullClient, Faults
  <1>6. CASE Login(c)
    <2>1. CASE Freed(c) BY <1>6, <2>1, DieStep DEF Login, Faults
    <2>2. CASE ~Freed(c)
      <3>1. /\ UNCHANGED <<registry, refs, pc, target, invitations, main, cursor, fault>>
            /\ loggedIn' = loggedIn \cup {c}
        BY <1>6, <2>2 DEF Login
      <3>2. TypeOK' BY <1>0, <3>1 DEF TypeOK, registry
      <3> QED BY <3>1, <3>2, QuietStep DEF ClientsInv
    <2> QED BY <2>1, <2>2
  <1>7. CASE Users(c)
    BY <1>7, DieStep DEF Users
  <1>8. CASE creg_lookup(c)
    <2>1. PICK t \in Conns :
            \/ \E f \in Faults : LookupFault(t, f) /\ Die(f)
            \/ /\ target' = [target EXCEPT ![c] = IF PlaceOf(t) = 0 THEN None ELSE t]
               /\ pc' = [pc EXCEPT ![c] = "make"]
               /\ UNCHANGED <<registry, refs, loggedIn, invitations, main, cursor, fault>>
      BY <1>8 DEF creg_lookup
    <2>2. CASE \E f \in Faults : LookupFault(t, f) /\ Die(f)
      BY <2>2, DieStep
    <2>3. CASE ~ \E f \in Faults : LookupFault(t, f) /\ Die(f)
      <3>1. /\ target' = [target EXCEPT ![c] = IF PlaceOf(t) = 0 THEN None ELSE t]
            /\ pc' = [pc EXCEPT ![c] = "make"] /\ pc[c] = "idle"
            /\ UNCHANGED <<registry, refs, loggedIn, invitations, main, cursor, fault>>
        BY <1>8, <2>1, <2>3 DEF creg_lookup
      <3>2. TypeOK' BY <1>0, <3>1 DEF TypeOK, registry, Labels
      <3> QED BY <1>0, <3>1, <3>2, QuietStep DEF ClientsInv, TypeOK
    <2> QED BY <2>2, <2>3
  <1>9. CASE MakeInvitation(c)
    <2> DEFINE t == target[c]
    <2>1. CASE Die("freedClient") BY <2>1, DieStep DEF Faults
    <2>2. CASE Die("sigpipe") BY <2>2, DieStep DEF Faults
    <2>3. CASE /\ pc' = [pc EXCEPT ![c] = "idle"]
               /\ target' = [target EXCEPT ![c] = None]
               /\ UNCHANGED <<registry, refs, loggedIn, invitations, main, cursor, fault>>
      <3>1. TypeOK' BY <1>0, <2>3 DEF TypeOK, registry, Labels
      <3> QED BY <1>0, <1>9, <2>3, <3>1, QuietStep
              DEF MakeInvitation, ClientsInv, TypeOK
    <2>4. CASE /\ ~NotInvitable(c)
               /\ refs' = [refs EXCEPT ![c] = @ + 1, ![t] = @ + 1]
               /\ invitations' = invitations \cup {<<c, t>>}
               /\ pc' = [pc EXCEPT ![c] = "idle"]
               /\ target' = [target EXCEPT ![c] = None]
               /\ UNCHANGED <<registry, loggedIn, main, cursor, fault>>
      <3>1. t \in Conns /\ t # c BY <1>0, <2>4 DEF TypeOK, NotInvitable
      <3>2. refs' \in [Conns -> Nat] /\ \A d \in Conns : refs'[d] >= refs[d]
        <4>1. refs \in [Conns -> Nat] BY <1>0 DEF TypeOK
        <4>2. refs' = [refs EXCEPT ![c] = @ + 1, ![t] = @ + 1] BY <2>4
        <4> HIDE DEF t
        <4>4. refs' = [d \in Conns |-> IF d \in {c, t} THEN refs[d] + 1 ELSE refs[d]]
          BY <4>1, <4>2, <3>1
        <4>5. \A d \in Conns : refs[d] \in Nat BY <4>1
        <4> QED BY <4>4, <4>5
      <3>3. pc' \in [Conns -> Labels] /\ target' \in [Conns -> Conns \cup {None}]
        BY <1>0, <2>4 DEF TypeOK, Labels
      <3>4. invitations' \subseteq Conns \X Conns
        BY <1>0, <2>4, <3>1 DEF TypeOK
      <3>5. TypeOK' BY <1>0, <2>4, <3>2, <3>3, <3>4 DEF TypeOK, registry
      <3>6. nodes' = nodes /\ Unregistered' = Unregistered /\ Registered' = Registered
        BY <2>4 DEF registry, Unregistered, Registered
      <3>7. CountExact' /\ CursorInv' /\ SemInv' /\ FreeInv'
        BY <2>4, <3>6 DEF ClientsInv, CountExact, CursorInv, SemInv, FreeInv, registry
      <3>8. HeldInv'
        <4> SUFFICES ASSUME NEW i \in (Unregistered + 1)..Len(nodes)
                     PROVE  refs'[nodes[i]] >= 1
          BY <3>6 DEF HeldInv
        <4>1. Unregistered \in Int /\ Unregistered >= 0
          BY <1>0 DEF ClientsInv, CursorInv, Unregistered, TypeOK
        <4>2. i \in 1..Len(nodes) BY <4>1, <1>0 DEF TypeOK
        <4>3. nodes[i] \in Conns BY <4>2, <1>0 DEF TypeOK
        <4>4. refs[nodes[i]] >= 1 BY DEF ClientsInv, HeldInv
        <4> QED BY <1>0, <4>3, <4>4, <3>2 DEF TypeOK
      <3>9. RegisteredOnce'
        <4>1. pc[c] = "make" BY <1>9 DEF MakeInvitation
        <4> QED BY <1>0, <4>1, <2>4, <3>6 DEF ClientsInv, RegisteredOnce, TypeOK
      <3> QED BY <3>5, <3>7, <3>8, <3>9 DEF ClientsInv
    <2> QED BY <1>9, <2>1, <2>2, <2>3, <2>4 DEF MakeInvitation
  <1> QED BY <1>1, <1>2, <1>3, <1>4, <1>5, <1>6, <1>7, <1>8, <1>9 DEF ServiceStep

\* Every step of the main thread keeps the invariant.
LEMMA MainStep ==
  ASSUME ClientsInv, Sighup \/ terminate
  PROVE  ClientsInv'
  <1> USE DEF MainAt, MainGoto, MainOnly
  <1>0. TypeOK /\ Len(nodes) \in Nat BY DEF ClientsInv, TypeOK
  <1>1. ASSUME UNCHANGED <<registry, cursor, refs, threads, invitations, fault>>,
               \/ main = "accept" /\ main' = "shutdown"
               \/ main = "shutdown" /\ main' = "head"
               \/ main = "head" /\ main' = "wait" /\ nodes = <<>>
               \/ main = "next" /\ main' = "wait" /\ cursor >= Len(nodes)
               \/ main = "fini" /\ main' \in {"exiting", "freed"}
               \/ main \in {"exiting", "freed"} /\ main' = "exit"
        PROVE  ClientsInv'
    <2>0. nodes' = nodes /\ Unregistered' = Unregistered /\ Registered' = Registered
      BY <1>1 DEF registry, Unregistered, Registered
    <2>1. TypeOK' BY <1>0, <1>1 DEF TypeOK, registry, threads, MainLabels
    <2>2. CountExact' /\ CursorInv' /\ HeldInv'
      BY <1>1, <2>0 DEF ClientsInv, CountExact, CursorInv, HeldInv, registry
    <2>3. RegisteredOnce' BY <1>1, <2>0 DEF ClientsInv, RegisteredOnce, threads
    <2>4. SemInv' /\ FreeInv'
      BY <1>0, <1>1 DEF ClientsInv, SemInv, FreeInv, CursorInv, registry, TypeOK
    <2> QED BY <2>1, <2>2, <2>3, <2>4 DEF ClientsInv
  <1>2. CASE Sighup BY <1>1, <1>2 DEF Sighup
  <1>3. CASE ShutdownSockets BY <1>1, <1>3 DEF ShutdownSockets
  <1>4. ASSUME UNCHANGED <<registry, refs, threads, invitations, fault>>,
               \/ main = "head" /\ nodes # <<>>
               \/ main = "next" /\ cursor < Len(nodes),
               main' = "unregister", cursor' = cursor + 1
        PROVE  ClientsInv'
    <2>0. nodes' = nodes /\ Unregistered' = Unregistered /\ Registered' = Registered
      BY <1>0, <1>4 DEF registry, Unregistered, Registered, TypeOK
    <2>1. TypeOK' BY <1>0, <1>4 DEF TypeOK, registry, threads, MainLabels
    <2>2. CountExact' /\ HeldInv' /\ SemInv' /\ FreeInv'
      BY <1>4, <2>0 DEF ClientsInv, CountExact, HeldInv, SemInv, FreeInv, registry
    <2>3. RegisteredOnce' BY <1>4, <2>0 DEF ClientsInv, RegisteredOnce, threads
    <2>4. CursorInv' BY <1>0, <1>4, <2>0 DEF ClientsInv, CursorInv, TypeOK
    <2> QED BY <2>1, <2>2, <2>3, <2>4 DEF ClientsInv
  <1>5. CASE ReadHead
    BY <1>1, <1>4, <1>5, <1>0 DEF ReadHead, ClientsInv, CursorInv
  <1>6. CASE ReadNext BY <1>1, <1>4, <1>6 DEF ReadNext
  <1>7. CASE creg_unregister
    <2>0. /\ main = "unregister" /\ main' = "next" /\ UNCHANGED <<nodes, cursor, pc, loggedIn, target, invitations, fault>>
          /\ clientCount' = clientCount - 1
          /\ refs' = [refs EXCEPT ![nodes[cursor]] = @ - 1]
          /\ notEmpty' = IF clientCount = 1 THEN notEmpty + 1 ELSE notEmpty
      BY <1>7 DEF creg_unregister, threads
    <2>1. cursor \in 1..Len(nodes) /\ Unregistered = cursor - 1 /\ Unregistered' = cursor
      BY <1>0, <2>0 DEF ClientsInv, CursorInv, Unregistered, TypeOK
    <2>2. nodes[cursor] \in Conns /\ refs[nodes[cursor]] >= 1
      <3>1. cursor \in (Unregistered + 1)..Len(nodes) BY <1>0, <2>1
      <3> QED BY <1>0, <2>1, <3>1 DEF ClientsInv, HeldInv, TypeOK
    <2>3. clientCount = Len(nodes) - cursor + 1
      BY <1>0, <2>1 DEF ClientsInv, CountExact
    <2>4. refs' \in [Conns -> Nat] BY <1>0, <2>0, <2>2 DEF TypeOK
    <2>5. clientCount' \in Nat /\ notEmpty' \in Nat /\ notEmpty' >= notEmpty
      BY <1>0, <2>0, <2>1, <2>3 DEF TypeOK
    <2>6. TypeOK' BY <1>0, <2>0, <2>4, <2>5 DEF TypeOK, MainLabels
    <2>7. CountExact' BY <1>0, <2>0, <2>1, <2>3 DEF CountExact
    <2>8. RegisteredOnce'
      BY <2>0 DEF ClientsInv, RegisteredOnce, Registered
    <2>9. CursorInv' BY <2>0, <2>1, <1>0 DEF CursorInv, TypeOK
    <2>10. HeldInv'
      <3> SUFFICES ASSUME NEW i \in (cursor + 1)..Len(nodes) PROVE refs'[nodes[i]] >= 1
        BY <2>0, <2>1 DEF HeldInv
      <3>1. i \in 1..Len(nodes) /\ i # cursor /\ i \in (Unregistered + 1)..Len(nodes)
        BY <1>0, <2>1
      <3>2. nodes[i] # nodes[cursor]
        BY <3>1, <2>1 DEF ClientsInv, RegisteredOnce
      <3>3. refs[nodes[i]] >= 1 BY <3>1 DEF ClientsInv, HeldInv
      <3> QED BY <1>0, <2>0, <3>1, <3>2, <3>3 DEF TypeOK
    <2>11. SemInv' /\ FreeInv'
      BY <1>0, <2>0, <2>3 DEF SemInv, FreeInv, TypeOK
    <2> QED BY <2>6, <2>7, <2>8, <2>9, <2>10, <2>11 DEF ClientsInv
  <1>8. CASE WaitP \/ WaitV
    <2>0. /\ \/ main = "wait" /\ main' = "waited" /\ notEmpty > 0 /\ notEmpty' = notEmpty - 1
             \/ main = "waited" /\ main' = "fini" /\ notEmpty' = notEmpty + 1
          /\ UNCHANGED <<nodes, clientCount, cursor, refs, pc, loggedIn, target, invitations, fault>>
      BY <1>8 DEF WaitP, WaitV, threads
    <2>1. nodes' = nodes /\ Unregistered' = Unregistered /\ Registered' = Registered
      BY <2>0 DEF Unregistered, Registered
    <2>2. TypeOK' BY <1>0, <2>0 DEF TypeOK, MainLabels
    <2>3. CountExact' /\ CursorInv' /\ HeldInv'
      BY <2>0, <2>1 DEF ClientsInv, CountExact, CursorInv, HeldInv
    <2>4. RegisteredOnce' BY <2>0, <2>1 DEF ClientsInv, RegisteredOnce
    <2>5. SemInv' /\ FreeInv' BY <1>0, <2>0 DEF SemInv, FreeInv, TypeOK
    <2> QED BY <2>2, <2>3, <2>4, <2>5 DEF ClientsInv
  <1>9. CASE creg_fini BY <1>1, <1>9 DEF creg_fini
  <1>10. CASE Exit BY <1>1, <1>10 DEF Exit
  <1>11. CASE UnregisterFault BY <1>11, DieStep DEF UnregisterFault, Faults
  <1> QED BY <1>2, <1>3, <1>5, <1>6, <1>7, <1>8, <1>9, <1>10, <1>11 DEF terminate

-----------------------------------------------------------------------------
\* The invariant holds in every reachable state.
THEOREM ClientsInvCorrect == Spec => []ClientsInv
  <1>1. ClientsInv /\ [Next]_vars => ClientsInv'
    <2> SUFFICES ASSUME ClientsInv, [Next]_vars PROVE ClientsInv'
      OBVIOUS
    <2>1. CASE Next BY <2>1, ThreadStep, MainStep DEF Next
    <2>2. CASE UNCHANGED vars
      <3>1. TypeOK' BY <2>2 DEF ClientsInv, TypeOK, vars
      <3> QED BY <2>2, <3>1, QuietStep DEF vars, registry, ClientsInv
    <2> QED BY <2>1, <2>2
  <1> QED BY ClientsInit, <1>1, PTL DEF Spec

\* creg_register and creg_unregister keep the types of the registry.
THEOREM ClientsTypeCorrect == Spec => []TypeOK
  <1>1. ClientsInv => TypeOK BY DEF ClientsInv
  <1> QED BY ClientsInvCorrect, <1>1, PTL

\* clientCount is exact although creg_shutdown_all walks the list unlocked.
THEOREM CountCorrect == Spec => []CountExact
  <1>1. ClientsInv => CountExact BY DEF ClientsInv
  <1> QED BY ClientsInvCorrect, <1>1, PTL

\* A client is in the list once and only after creg_register accepted it.
THEOREM RegisteredOnceCorrect == Spec => []RegisteredOnce
  <1>1. ClientsInv => RegisteredOnce BY DEF ClientsInv
  <1> QED BY ClientsInvCorrect, <1>1, PTL

\* creg_wait_for_empty does not wait in vain, and ends only when no client is
\* registered, unless one registers behind the walk of creg_shutdown_all.
THEOREM NotEmptyCorrect == Spec => []NotEmptySignals
  <1>1. ASSUME ClientsInv PROVE NotEmptySignals
    <2>1. (main = "wait" /\ cursor = Len(nodes)) => clientCount = 0
      BY <1>1 DEF ClientsInv, CountExact, Unregistered, TypeOK
    <2>2. main \in {"accept", "shutdown", "head"} => cursor = 0
      BY <1>1 DEF ClientsInv, CursorInv
    <2>3. ASSUME cursor = 0, nodes = <<>>, main # "unregister" PROVE clientCount = 0
      BY <1>1, <2>3 DEF ClientsInv, CountExact, Unregistered, TypeOK
    <2>4. ASSUME main \in {"accept", "shutdown", "head"} \/ (main = "wait" /\ cursor = 0),
                 notEmpty > 0
          PROVE  clientCount = 0
      BY <1>1, <2>2, <2>3, <2>4 DEF ClientsInv, SemInv
    <2> QED BY <1>1, <2>1, <2>4 DEF ClientsInv, FreeInv, NotEmptySignals
  <1> QED BY ClientsInvCorrect, <1>1, PTL

\* No step unlinks a node: only creg_register writes the list, at its end.
THEOREM ListOnlyGrowsCorrect == Spec => ListOnlyGrows
  <1> DEFINE Grows == /\ Len(nodes') >= Len(nodes)
                     /\ \A i \in 1..Len(nodes) : nodes'[i] = nodes[i]
  <1>1. ClientsInv /\ [Next]_vars => [Grows]_vars
    <2> SUFFICES ASSUME ClientsInv, Next PROVE Grows
      OBVIOUS
    <2>0. nodes \in Seq(Conns) /\ Len(nodes) \in Nat BY DEF ClientsInv, TypeOK
    <2>1. \/ UNCHANGED nodes
          \/ \E c \in Conns : nodes' = Append(nodes, c)
      BY DEF Next, Sighup, terminate, ShutdownSockets, ReadHead, creg_unregister,
             UnregisterFault, ReadNext, WaitP, WaitV, creg_fini, Exit, Accept, ServiceStep,
             creg_register, AddNode, RegisterTooLate, Eof, NullClient, Login, Users,
             creg_lookup, MakeInvitation, Die, registry
    <2>2. CASE UNCHANGED nodes BY <2>0, <2>2
    <2>3. CASE \E c \in Conns : nodes' = Append(nodes, c)
      <3>1. PICK c \in Conns : nodes' = Append(nodes, c) BY <2>3
      <3> QED BY <2>0, <3>1, AppendNode
    <2> QED BY <2>1, <2>2, <2>3
  <1> QED BY ClientsInvCorrect, <1>1, PTL DEF Spec, ListOnlyGrows

-----------------------------------------------------------------------------
(***************************************************************************)
(* The reference counts.  creg_register sets the count of a client to one, *)
(* which is right because nobody has invited it: creg_lookup finds only    *)
(* clients of the list.  An invitation is counted once because it is new.  *)
(***************************************************************************)
InvitesInv ==
  /\ \A p \in invitations : p[1] \in Registered /\ p[2] \in Registered
  /\ \A c \in Conns : target[c] \in Registered \cup {None}
  /\ \A c \in Conns : pc[c] = "make" => <<c, target[c]>> \notin invitations

\* The invitations that a client is in.
Parts(c) == {p \in invitations : c \in {p[1], p[2]}}

FromRegistry(c) == IF HeldByRegistry(c) THEN 1 ELSE 0

CountInv == \A c \in Conns : refs[c] = FromRegistry(c) + Cardinality(Parts(c))

RefsInv == InvitesInv /\ CountInv

\* A client is in finitely many invitations.
LEMMA PartsFinite ==
  ASSUME TypeOK, NEW c
  PROVE  IsFiniteSet(Parts(c)) /\ Cardinality(Parts(c)) \in Nat
  <1>1. IsFiniteSet(Conns \X Conns)
    BY ClientsAssumption, FS_Product
  <1>2. Parts(c) \subseteq Conns \X Conns
    BY DEF TypeOK, Parts
  <1>3. IsFiniteSet(Parts(c))
    BY <1>1, <1>2, FS_Subset
  <1> QED BY <1>3, FS_CardinalityType

\* A step that leaves the list, the counts and the invitations alone, and
\* changes the target of a thread only to a client of the list.
LEMMA RefsQuietStep ==
  ASSUME TypeOK, RefsInv, UNCHANGED <<nodes, refs, invitations>>,
         Unregistered' = Unregistered,
         \A c \in Conns : target'[c] \in Registered \cup {None},
         \A c \in Conns : pc'[c] = "make" => <<c, target'[c]>> \notin invitations
  PROVE  RefsInv'
  <1>1. Registered' = Registered /\ \A c \in Conns : Parts(c)' = Parts(c)
    BY DEF Registered, Parts
  <1>2. \A c \in Conns : HeldByRegistry(c)' <=> HeldByRegistry(c)
    BY DEF HeldByRegistry
  <1>3. \A c \in Conns : FromRegistry(c)' = FromRegistry(c)
    BY <1>2 DEF FromRegistry
  <1>4. InvitesInv'
    BY <1>1 DEF RefsInv, InvitesInv
  <1>5. CountInv'
    BY <1>1, <1>3 DEF RefsInv, CountInv
  <1> QED BY <1>4, <1>5 DEF RefsInv

\* creg_register counts the registry's reference and nobody else has one.
LEMMA RefsAddStep ==
  ASSUME ClientsInv, RefsInv, NEW c \in Conns, pc[c] = "start", AddNode(c),
         UNCHANGED <<loggedIn, target, invitations, main, cursor, fault>>
  PROVE  RefsInv'
  <1>0. TypeOK /\ Len(nodes) \in Nat /\ nodes \in Seq(Conns)
    BY DEF ClientsInv, TypeOK
  <1>1. /\ nodes' = Append(nodes, c) /\ refs' = [refs EXCEPT ![c] = 1]
        /\ pc' = [pc EXCEPT ![c] = "idle"]
    BY DEF AddNode, Goto
  <1>2. /\ Len(nodes') = Len(nodes) + 1
        /\ \A i \in 1..Len(nodes) : nodes'[i] = nodes[i]
        /\ nodes'[Len(nodes) + 1] = c
    BY <1>0, <1>1, AppendNode
  <1>3. c \notin Registered
    BY DEF ClientsInv, RegisteredOnce
  <1>4. Registered' = Registered \cup {c}
    BY <1>0, <1>2 DEF Registered
  <1>5. /\ Unregistered' = Unregistered /\ Unregistered \in Nat
        /\ Unregistered <= Len(nodes)
    BY <1>0 DEF Unregistered, ClientsInv, CursorInv, TypeOK
  <1>6. InvitesInv'
    BY <1>0, <1>1, <1>4 DEF RefsInv, InvitesInv, TypeOK
  <1>7. ASSUME NEW d \in Conns
        PROVE  refs'[d] = FromRegistry(d)' + Cardinality(Parts(d)')
    <2>1. Parts(d)' = Parts(d)
      BY DEF Parts
    <2>2. CASE d = c
      <3>1. Parts(d) = {}
        BY <1>3, <2>2 DEF RefsInv, InvitesInv, Parts
      <3>2. HeldByRegistry(d)'
        <4>1. Len(nodes) + 1 \in (Unregistered + 1)..Len(nodes')
          BY <1>0, <1>2, <1>5
        <4> QED BY <1>2, <1>5, <2>2, <4>1 DEF HeldByRegistry
      <3>3. Cardinality(Parts(d)') = 0
        BY <2>1, <3>1, FS_EmptySet
      <3>4. refs'[d] = 1
        BY <1>0, <1>1, <2>2 DEF TypeOK
      <3> QED BY <3>2, <3>3, <3>4 DEF FromRegistry
    <2>3. CASE d # c
      <3>1. HeldByRegistry(d)' <=> HeldByRegistry(d)
        <4>1. ASSUME NEW i \in (Unregistered + 1)..Len(nodes'), nodes'[i] = d
              PROVE  i \in (Unregistered + 1)..Len(nodes) /\ nodes[i] = d
          <5>1. i \in Int /\ i >= Unregistered + 1 /\ i <= Len(nodes) + 1 /\ i # Len(nodes) + 1
            BY <1>0, <1>2, <1>5, <2>3, <4>1
          <5> QED BY <1>0, <1>2, <1>5, <4>1, <5>1
        <4>2. ASSUME NEW i \in (Unregistered + 1)..Len(nodes), nodes[i] = d
              PROVE  i \in (Unregistered + 1)..Len(nodes') /\ nodes'[i] = d
          <5>1. i \in 1..Len(nodes)
            BY <1>0, <1>5
          <5> QED BY <1>0, <1>2, <1>5, <4>2, <5>1
        <4> QED BY <1>5, <4>1, <4>2 DEF HeldByRegistry
      <3>2. refs'[d] = refs[d]
        BY <1>0, <1>1, <2>3 DEF TypeOK
      <3> QED BY <2>1, <3>1, <3>2 DEF RefsInv, CountInv, FromRegistry
    <2> QED BY <2>2, <2>3
  <1> QED BY <1>6, <1>7 DEF RefsInv, CountInv

\* client_make_invitation counts the new invitation for its two clients.
LEMMA RefsInviteStep ==
  ASSUME ClientsInv, RefsInv, NEW c \in Conns, NEW t \in Conns, t = target[c],
         t # c, pc[c] = "make",
         refs' = [refs EXCEPT ![c] = @ + 1, ![t] = @ + 1],
         invitations' = invitations \cup {<<c, t>>},
         pc' = [pc EXCEPT ![c] = "idle"], target' = [target EXCEPT ![c] = None],
         UNCHANGED <<registry, loggedIn, main, cursor, fault>>
  PROVE  RefsInv'
  <1>0. TypeOK BY DEF ClientsInv
  <1>1. nodes' = nodes /\ Registered' = Registered /\ Unregistered' = Unregistered
    BY DEF registry, Registered, Unregistered
  <1>2. \A d \in Conns : FromRegistry(d)' = FromRegistry(d)
    BY <1>1 DEF FromRegistry, HeldByRegistry
  <1>3. <<c, t>> \notin invitations /\ c \in Registered /\ t \in Registered
    BY NoneIsNoConn DEF RefsInv, InvitesInv, ClientsInv, RegisteredOnce
  <1>4. InvitesInv'
    <2>1. \A p \in invitations' : p[1] \in Registered /\ p[2] \in Registered
      BY <1>3 DEF RefsInv, InvitesInv
    <2>2. \A d \in Conns : target'[d] \in Registered \cup {None}
      BY <1>0 DEF RefsInv, InvitesInv, TypeOK
    <2>3. ASSUME NEW d \in Conns, pc'[d] = "make"
          PROVE  <<d, target'[d]>> \notin invitations'
      <3>1. d # c /\ pc[d] = "make" /\ target'[d] = target[d]
        BY <1>0, <2>3 DEF TypeOK
      <3> QED BY <3>1 DEF RefsInv, InvitesInv
    <2> QED BY <1>1, <2>1, <2>2, <2>3 DEF InvitesInv
  <1>5. refs' = [d \in Conns |-> IF d \in {c, t} THEN refs[d] + 1 ELSE refs[d]]
    <2>1. refs \in [Conns -> Nat]
      BY <1>0 DEF TypeOK
    <2> QED BY <2>1
  <1>6. ASSUME NEW d \in Conns
        PROVE  refs'[d] = FromRegistry(d)' + Cardinality(Parts(d)')
    <2>0. FromRegistry(d) \in Nat /\ refs[d] = FromRegistry(d) + Cardinality(Parts(d))
      BY DEF FromRegistry, RefsInv, CountInv
    <2>1. CASE d \in {c, t}
      <3>1. Parts(d)' = Parts(d) \cup {<<c, t>>} /\ <<c, t>> \notin Parts(d)
        BY <1>3, <2>1 DEF Parts
      <3>2. Cardinality(Parts(d)') = Cardinality(Parts(d)) + 1
        BY <1>0, <3>1, PartsFinite, FS_AddElement
      <3> QED BY <1>0, <1>2, <1>5, <2>0, <2>1, <3>2, PartsFinite
    <2>2. CASE d \notin {c, t}
      <3>1. Parts(d)' = Parts(d)
        BY <2>2 DEF Parts
      <3> QED BY <1>2, <1>5, <2>0, <2>2, <3>1
    <2> QED BY <2>1, <2>2
  <1> QED BY <1>4, <1>6 DEF RefsInv, CountInv

\* creg_unregister gives back the registry's reference to one client.
LEMMA RefsUnregisterStep ==
  ASSUME ClientsInv, RefsInv, creg_unregister
  PROVE  RefsInv'
  <1>0. TypeOK /\ Len(nodes) \in Nat BY DEF ClientsInv, TypeOK
  <1>1. /\ main = "unregister" /\ main' = "next"
        /\ UNCHANGED <<nodes, cursor, pc, target, invitations>>
        /\ refs' = [refs EXCEPT ![nodes[cursor]] = @ - 1]
    BY DEF creg_unregister, MainAt, MainGoto, threads
  <1>2. cursor \in 1..Len(nodes) /\ Unregistered = cursor - 1 /\ Unregistered' = cursor
    BY <1>0, <1>1 DEF ClientsInv, CursorInv, Unregistered, TypeOK
  <1>3. InvitesInv'
    BY <1>1 DEF RefsInv, InvitesInv, Registered
  <1>4. ASSUME NEW d \in Conns
        PROVE  refs'[d] = FromRegistry(d)' + Cardinality(Parts(d)')
    <2>0. /\ Parts(d)' = Parts(d) /\ Cardinality(Parts(d)) \in Nat
          /\ refs[d] = FromRegistry(d) + Cardinality(Parts(d))
      BY <1>0, <1>1, PartsFinite DEF Parts, RefsInv, CountInv
    <2>1. CASE d = nodes[cursor]
      <3>1. HeldByRegistry(d)
        <4>1. cursor \in (Unregistered + 1)..Len(nodes)
          BY <1>0, <1>2
        <4> QED BY <2>1, <4>1 DEF HeldByRegistry
      <3>2. ~HeldByRegistry(d)'
        <4> SUFFICES ASSUME NEW i \in (cursor + 1)..Len(nodes), nodes[i] = d PROVE FALSE
          BY <1>1, <1>2 DEF HeldByRegistry
        <4>1. i \in 1..Len(nodes) /\ i # cursor
          BY <1>0, <1>2
        <4> QED BY <1>2, <2>1, <4>1 DEF ClientsInv, RegisteredOnce
      <3>3. refs'[d] = refs[d] - 1
        BY <1>0, <1>1, <2>1 DEF TypeOK
      <3>4. FromRegistry(d) = 1 /\ FromRegistry(d)' = 0
        BY <3>1, <3>2 DEF FromRegistry
      <3> QED BY <2>0, <3>3, <3>4
    <2>2. CASE d # nodes[cursor]
      <3>1. HeldByRegistry(d)' <=> HeldByRegistry(d)
        <4>1. ASSUME NEW i \in (Unregistered + 1)..Len(nodes), nodes[i] = d
              PROVE  i \in (cursor + 1)..Len(nodes)
          BY <1>0, <1>2, <2>2, <4>1
        <4>2. (cursor + 1)..Len(nodes) \subseteq (Unregistered + 1)..Len(nodes)
          BY <1>0, <1>2
        <4> QED BY <1>1, <1>2, <4>1, <4>2 DEF HeldByRegistry
      <3>2. refs'[d] = refs[d]
        BY <1>0, <1>1, <2>2 DEF TypeOK
      <3> QED BY <2>0, <3>1, <3>2 DEF FromRegistry
    <2> QED BY <2>1, <2>2
  <1> QED BY <1>3, <1>4 DEF RefsInv, CountInv

\* Every step of a service thread, and Accept, keeps the counts exact.
LEMMA RefsThreadStep ==
  ASSUME ClientsInv, RefsInv, NEW c \in Conns, Accept(c) \/ ServiceStep(c)
  PROVE  RefsInv'
  <1> USE DEF At, Goto, registry, threads
  <1>0. /\ TypeOK /\ pc \in [Conns -> Labels] /\ target \in [Conns -> Conns \cup {None}]
        /\ invitations \subseteq Conns \X Conns
    BY DEF ClientsInv, TypeOK
  <1>1. ASSUME UNCHANGED <<nodes, refs, target, invitations, main, cursor>>,
               \A d \in Conns : pc'[d] = "make" => pc[d] = "make"
        PROVE  RefsInv'
    BY <1>0, <1>1, RefsQuietStep DEF Unregistered, RefsInv, InvitesInv
  <1>2. ASSUME NEW f, Die(f) PROVE RefsInv'
    BY <1>1, <1>2 DEF Die
  <1>3. CASE Accept(c) \/ Eof(c)
    BY <1>0, <1>1, <1>3 DEF Accept, Eof
  <1>4. CASE creg_register(c)
    <2>1. CASE pc' = [pc EXCEPT ![c] = "refused"] /\ UNCHANGED <<registry, refs>>
      BY <1>0, <1>1, <1>4, <2>1 DEF creg_register
    <2>2. CASE AddNode(c)
      BY <1>4, <2>2, RefsAddStep DEF creg_register
    <2> QED BY <1>4, <2>1, <2>2 DEF creg_register
  <1>5. CASE RegisterTooLate(c) \/ NullClient(c) \/ Users(c)
    BY <1>2, <1>5 DEF RegisterTooLate, NullClient, Users
  <1>6. CASE Login(c)
    BY <1>1, <1>2, <1>6 DEF Login
  <1>7. CASE creg_lookup(c)
    <2>1. PICK t \in Conns :
            /\ <<c, t>> \notin invitations
            /\ \/ \E f \in Faults : Die(f)
               \/ /\ target' = [target EXCEPT ![c] = IF PlaceOf(t) = 0 THEN None ELSE t]
                  /\ pc' = [pc EXCEPT ![c] = "make"]
                  /\ UNCHANGED <<registry, refs, loggedIn, invitations, main, cursor, fault>>
      BY <1>7 DEF creg_lookup
    <2>2. CASE target' = [target EXCEPT ![c] = IF PlaceOf(t) = 0 THEN None ELSE t]
               /\ pc' = [pc EXCEPT ![c] = "make"]
               /\ UNCHANGED <<registry, refs, loggedIn, invitations, main, cursor, fault>>
      <3>1. PlaceOf(t) # 0 => t \in Registered
        BY DEF PlaceOf
      <3>2. target'[c] \in Registered \cup {None} /\ <<c, target'[c]>> \notin invitations
        BY <1>0, <2>1, <2>2, <3>1, NoneIsNoConn
      <3>3. \A d \in Conns \ {c} : target'[d] = target[d] /\ pc'[d] = pc[d]
        BY <1>0, <2>2
      <3>4. \A d \in Conns : target'[d] \in Registered \cup {None}
        BY <3>2, <3>3 DEF RefsInv, InvitesInv
      <3>5. \A d \in Conns : pc'[d] = "make" => <<d, target'[d]>> \notin invitations
        BY <3>2, <3>3 DEF RefsInv, InvitesInv
      <3> QED BY <1>0, <2>2, <3>4, <3>5, RefsQuietStep DEF Unregistered
    <2> QED BY <1>2, <2>1, <2>2
  <1>8. CASE MakeInvitation(c)
    <2>1. CASE \E f : Die(f)
      BY <1>2, <2>1
    <2>2. CASE /\ pc' = [pc EXCEPT ![c] = "idle"]
               /\ target' = [target EXCEPT ![c] = None]
               /\ UNCHANGED <<registry, refs, loggedIn, invitations, main, cursor, fault>>
      <3>1. \A d \in Conns : target'[d] \in Registered \cup {None}
        BY <1>0, <2>2 DEF RefsInv, InvitesInv
      <3>2. \A d \in Conns : pc'[d] = "make" => <<d, target'[d]>> \notin invitations
        BY <1>0, <2>2 DEF RefsInv, InvitesInv
      <3> QED BY <1>0, <2>2, <3>1, <3>2, RefsQuietStep DEF Unregistered
    <2>3. CASE /\ ~NotInvitable(c)
               /\ refs' = [refs EXCEPT ![c] = @ + 1, ![target[c]] = @ + 1]
               /\ invitations' = invitations \cup {<<c, target[c]>>}
               /\ pc' = [pc EXCEPT ![c] = "idle"]
               /\ target' = [target EXCEPT ![c] = None]
               /\ UNCHANGED <<registry, loggedIn, main, cursor, fault>>
      <3>1. target[c] \in Conns /\ target[c] # c
        BY <1>0, <2>3 DEF NotInvitable
      <3>2. pc[c] = "make"
        BY <1>8 DEF MakeInvitation
      <3> QED BY <2>3, <3>1, <3>2, RefsInviteStep
    <2> QED BY <1>8, <2>1, <2>2, <2>3 DEF MakeInvitation
  <1> QED BY <1>3, <1>4, <1>5, <1>6, <1>7, <1>8 DEF ServiceStep

\* Every step of the main thread keeps the counts exact.
LEMMA RefsMainStep ==
  ASSUME ClientsInv, RefsInv, Sighup \/ terminate
  PROVE  RefsInv'
  <1> USE DEF MainAt, MainGoto, MainOnly, registry, threads
  <1>0. TypeOK /\ cursor \in Nat BY DEF ClientsInv, TypeOK
  <1>1. ASSUME UNCHANGED <<nodes, refs, target, pc, invitations>>,
               Unregistered' = Unregistered
        PROVE  RefsInv'
    BY <1>0, <1>1, RefsQuietStep DEF RefsInv, InvitesInv
  <1>2. CASE Sighup \/ ShutdownSockets \/ WaitP \/ WaitV \/ creg_fini \/ Exit
    BY <1>1, <1>2 DEF Sighup, ShutdownSockets, WaitP, WaitV, creg_fini, Exit, Unregistered
  <1>3. CASE ReadHead \/ ReadNext
    BY <1>0, <1>1, <1>3 DEF ReadHead, ReadNext, Unregistered, ClientsInv, CursorInv
  <1>4. CASE creg_unregister
    BY <1>4, RefsUnregisterStep
  <1>5. CASE UnregisterFault
    BY <1>1, <1>5 DEF UnregisterFault, Die, Unregistered
  <1> QED BY <1>2, <1>3, <1>4, <1>5 DEF terminate

\* No reference of the registry or of an invitation is lost, and none is left
\* over, whatever the threads and the walk of creg_shutdown_all do.
THEOREM RefsCoveredCorrect == Spec => []RefsCovered
  <1>1. Init => RefsInv
    <2> SUFFICES ASSUME Init PROVE RefsInv
      OBVIOUS
    <2>1. InvitesInv
      BY DEF Init, InvitesInv
    <2>2. \A c \in Conns : Parts(c) = {} /\ FromRegistry(c) = 0 /\ refs[c] = 0
      BY DEF Init, Parts, FromRegistry, HeldByRegistry, Unregistered
    <2>3. CountInv
      BY <2>2, FS_EmptySet DEF CountInv
    <2> QED BY <2>1, <2>3 DEF RefsInv
  <1>2. ClientsInv /\ RefsInv /\ [Next]_vars => RefsInv'
    <2> SUFFICES ASSUME ClientsInv, RefsInv, [Next]_vars PROVE RefsInv'
      OBVIOUS
    <2>1. CASE Next
      BY <2>1, RefsThreadStep, RefsMainStep DEF Next
    <2>2. CASE UNCHANGED vars
      BY <2>2, RefsQuietStep DEF vars, Unregistered, RefsInv, InvitesInv, ClientsInv
    <2> QED BY <2>1, <2>2
  <1>3. ASSUME ClientsInv, RefsInv PROVE RefsCovered
    <2>1. ASSUME NEW c \in Conns PROVE LookedUp(c) \in Nat
      <3> DEFINE S == {d \in Conns : pc[d] = "make" /\ target[d] = c}
      <3>1. IsFiniteSet(S) BY ClientsAssumption, FS_Subset
      <3> QED BY <3>1, FS_CardinalityType DEF LookedUp
    <2>2. ASSUME NEW c \in Conns PROVE refs[c] = Held(c)
      BY <1>3 DEF RefsInv, CountInv, FromRegistry, Parts, Held
    <2>3. ASSUME NEW c \in Conns PROVE Held(c) \in Nat
      <3>1. Cardinality(Parts(c)) \in Nat /\ FromRegistry(c) \in Nat
        BY <1>3, PartsFinite DEF ClientsInv, FromRegistry
      <3>2. Held(c) = FromRegistry(c) + Cardinality(Parts(c))
        BY DEF Held, FromRegistry, Parts
      <3> QED BY <3>1, <3>2
    <2> QED BY <2>1, <2>2, <2>3 DEF RefsCovered
  <1> QED BY <1>1, <1>2, <1>3, ClientsInvCorrect, PTL DEF Spec
=============================================================================
