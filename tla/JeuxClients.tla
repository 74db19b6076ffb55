---------------------------- MODULE JeuxClients ----------------------------
(***************************************************************************)
(* The connections of the Jeux server: the client registry                 *)
(* (hw5/src/client_registry.c), the life of a service thread               *)
(* (jeux_client_service in hw5/src/server.c) as far as the registry is     *)
(* concerned, the accept loop and the shutdown on SIGHUP                   *)
(* (hw5/src/main.c).                                                       *)
(*                                                                         *)
(* A section under registryLock is one action.  creg_shutdown_all walks    *)
(* the list a second time without the lock, one action per access.  The    *)
(* handler runs in the main thread, so no connection is accepted once      *)
(* SIGHUP has arrived, but a thread that was created before it may still   *)
(* be on its way to creg_register.                                         *)
(*                                                                         *)
(* creg_unregister finds a client by its descriptor.  No descriptor is     *)
(* ever closed, so they are distinct and a connection stands for its       *)
(* descriptor, its CLIENT, its thread, and the name it logs in under (what *)
(* two users of one name do is in JeuxPlayers).                            *)
(*                                                                         *)
(* Undefined behaviour and fatal signals set `fault' and end a behaviour.  *)
(***************************************************************************)
EXTENDS Integers, Sequences, FiniteSets

CONSTANTS
  Conns,        \* the connections that may arrive
  MAX_CLIENTS,
  MaxInvites    \* bound on the number of INVITE requests that find somebody

ASSUME ClientsAssumption ==
  MAX_CLIENTS \in Nat \ {0} /\ MaxInvites \in Nat /\ IsFiniteSet(Conns)

None == "none"
ASSUME NoneIsNoConn == None \notin Conns

VARIABLES
  nodes,        \* the list of the registry, head first; nodes are never removed
  clientCount,
  notEmpty,     \* value of the semaphore
  refs,         \* reference count of each CLIENT
  pc,           \* what the thread of each connection does next
  loggedIn,     \* connections whose CLIENT has a player
  target,       \* what creg_lookup returned to each thread, or None
  invitations,  \* pairs <<source, target>> of the invitations created
  main,         \* what the main thread does next
  cursor,       \* tempNode of creg_shutdown_all, as a place in nodes
  fault         \* None, or what has brought the process down

registry == <<nodes, clientCount, notEmpty>>
threads  == <<pc, loggedIn, target>>
vars     == <<nodes, clientCount, notEmpty, refs, pc, loggedIn, target,
              invitations, main, cursor, fault>>

Faults == {"nullClient", "nullName", "nullList", "freedClient",
           "freedRegistry", "overflow", "sigpipe"}

Init ==
  /\ nodes = <<>> /\ clientCount = 0 /\ notEmpty = 1
  /\ refs = [c \in Conns |-> 0]
  /\ pc = [c \in Conns |-> "none"]
  /\ loggedIn = {}
  /\ target = [c \in Conns |-> None]
  /\ invitations = {}
  /\ main = "accept" /\ cursor = 0
  /\ fault = None

-----------------------------------------------------------------------------
Registered == {nodes[i] : i \in 1..Len(nodes)}

\* client_unref frees a CLIENT whose count has come down to zero.
Freed(c) == c \in Registered /\ refs[c] = 0

\* creg_fini has freed the registry.
RegistryFreed == main = "freed"

Running == fault = None /\ main # "exit"
At(c, l) == Running /\ pc[c] = l
Goto(c, l) == pc' = [pc EXCEPT ![c] = l]

Die(f) == fault' = f /\ UNCHANGED <<registry, refs, threads, invitations, main, cursor>>

-----------------------------------------------------------------------------
(***************************************************************************)
(* Connections come and go.                                                *)
(***************************************************************************)

\* Accept and Pthread_create in the main loop.
Accept(c) ==
  /\ Running /\ main = "accept" /\ pc[c] = "none"
  /\ Goto(c, "start")
  /\ UNCHANGED <<registry, refs, loggedIn, target, invitations, main, cursor, fault>>

AddNode(c) ==
  /\ nodes' = Append(nodes, c)
  /\ clientCount' = clientCount + 1
  /\ refs' = [refs EXCEPT ![c] = 1]
  /\ Goto(c, "idle")

RegisterWithoutCount(c) ==
  /\ At(c, "start") /\ ~RegistryFreed
  /\ nodes' = Append(nodes, c)
  /\ refs' = [refs EXCEPT ![c] = 1]
  /\ Goto(c, "idle")
  /\ notEmpty' = IF nodes = <<>> THEN notEmpty - 1 ELSE notEmpty
  /\ UNCHANGED <<clientCount, loggedIn, target, invitations, main, cursor, fault>>

\* client_create gives one reference.  When the registry is full the thread
\* goes on with a NULL client.  P(&notEmpty) is called with registryLock held.
creg_register(c) ==
  /\ At(c, "start") /\ ~RegistryFreed
  /\ \/ /\ clientCount >= MAX_CLIENTS
        /\ Goto(c, "refused")
        /\ UNCHANGED <<registry, refs>>
     \/ /\ clientCount < MAX_CLIENTS /\ nodes = <<>> /\ notEmpty > 0
        /\ AddNode(c)
        /\ notEmpty' = notEmpty - 1
     \/ /\ clientCount < MAX_CLIENTS /\ nodes # <<>>
        /\ AddNode(c)
        /\ UNCHANGED notEmpty
  /\ UNCHANGED <<loggedIn, target, invitations, main, cursor, fault>>

RegisterTooLate(c) ==
  /\ At(c, "start") /\ RegistryFreed
  /\ Die("freedRegistry")

\* proto_recv_packet fails: the peer has gone, or creg_shutdown_all has shut
\* the socket.  The thread returns without unregistering its client.
Eof(c) ==
  /\ Running /\ pc[c] \in {"idle", "refused"}
  /\ Goto(c, "done")
  /\ UNCHANGED <<registry, refs, loggedIn, target, invitations, main, cursor, fault>>

\* Every packet of a refused connection reaches the client module with NULL.
NullClient(c) ==
  /\ At(c, "refused")
  /\ Die("nullClient")

-----------------------------------------------------------------------------
(***************************************************************************)
(* LOGIN, USERS and INVITE, the requests that use the registry.            *)
(***************************************************************************)
Login(c) ==
  /\ At(c, "idle") /\ c \notin loggedIn
  /\ \/ Freed(c) /\ Die("freedClient")
     \/ /\ ~Freed(c)
        /\ loggedIn' = loggedIn \cup {c}
        /\ UNCHANGED <<registry, refs, pc, target, invitations, main, cursor, fault>>

\* creg_all_players: an array of clientCount + 1 is filled from all nodes.
\* The caller reads it up to the first NULL, the entry of a client that has
\* not logged in or the terminator at clientCount.
ListLength ==
  CHOOSE n \in 0..Len(nodes) :
    /\ \A i \in 1..n : nodes[i] \in loggedIn /\ i <= clientCount
    /\ n < Len(nodes) => nodes[n + 1] \notin loggedIn \/ n = clientCount

UsersFault(f) ==
  \/ f = "freedRegistry" /\ RegistryFreed
  \/ f = "freedClient" /\ \E d \in Registered : Freed(d)
  \/ f = "overflow" /\ Len(nodes) > clientCount + 1
  \/ f = "nullList" /\ ListLength = 0

Users(c) ==
  /\ At(c, "idle") /\ c \in loggedIn
  /\ \E f \in Faults : UsersFault(f) /\ Die(f)

\* creg_lookup compares names from the head on; the name of a client that
\* has not logged in is NULL.  No reference is taken.
PlaceOf(t) == IF t \in Registered \cap loggedIn
              THEN CHOOSE i \in 1..Len(nodes) : nodes[i] = t
              ELSE 0

Compared(t) == {nodes[i] : i \in 1..(IF PlaceOf(t) = 0 THEN Len(nodes) ELSE PlaceOf(t))}

LookupFault(t, f) ==
  \/ f = "freedRegistry" /\ RegistryFreed
  \/ f = "freedClient" /\ \E d \in Compared(t) : Freed(d)
  \/ f = "nullName" /\ \E d \in Compared(t) : d \notin loggedIn

creg_lookup(c) ==
  /\ At(c, "idle") /\ c \in loggedIn
  /\ \E t \in Conns :
       /\ <<c, t>> \notin invitations
       /\ Cardinality(invitations) < MaxInvites
       /\ \/ \E f \in Faults : LookupFault(t, f) /\ Die(f)
          \/ /\ \A f \in Faults : ~LookupFault(t, f)
             /\ target' = [target EXCEPT ![c] = IF PlaceOf(t) = 0 THEN None ELSE t]
             /\ Goto(c, "make")
             /\ UNCHANGED <<registry, refs, loggedIn, invitations, main, cursor, fault>>

\* client_make_invitation: inv_create refuses NULL and the client itself, and
\* otherwise takes a reference to both clients, which inv_unref never drops.
\* The INVITED packet goes to the target, whose peer may have gone.
NotInvitable(c) == target[c] \in {None, c}

InviteWithOneReference(c) ==
  /\ At(c, "make") /\ ~NotInvitable(c) /\ ~Freed(c) /\ ~Freed(target[c])
  /\ refs' = [refs EXCEPT ![target[c]] = @ + 1]
  /\ invitations' = invitations \cup {<<c, target[c]>>}
  /\ Goto(c, "idle") /\ target' = [target EXCEPT ![c] = None]
  /\ UNCHANGED <<registry, loggedIn, main, cursor, fault>>

MakeInvitation(c) ==
  /\ At(c, "make")
  /\ LET t == target[c] IN
       \/ /\ ~NotInvitable(c) /\ (Freed(c) \/ Freed(t))
          /\ Die("freedClient")
       \/ /\ ~NotInvitable(c) /\ pc[t] = "done"
          /\ Die("sigpipe")
       \/ /\ NotInvitable(c)
          /\ Goto(c, "idle") /\ target' = [target EXCEPT ![c] = None]
          /\ UNCHANGED <<registry, refs, loggedIn, invitations, main, cursor, fault>>
       \/ /\ ~NotInvitable(c) /\ ~Freed(c) /\ ~Freed(t)
          /\ refs' = [refs EXCEPT ![c] = @ + 1, ![t] = @ + 1]
          /\ invitations' = invitations \cup {<<c, t>>}
          /\ Goto(c, "idle") /\ target' = [target EXCEPT ![c] = None]
          /\ UNCHANGED <<registry, loggedIn, main, cursor, fault>>

-----------------------------------------------------------------------------
(***************************************************************************)
(* terminate: creg_shutdown_all, creg_wait_for_empty, creg_fini, exit.     *)
(***************************************************************************)
MainAt(l) == fault = None /\ main = l
MainGoto(l) == main' = l
MainOnly == UNCHANGED <<refs, threads, invitations, fault>>

Sighup ==
  /\ MainAt("accept")
  /\ MainGoto("shutdown")
  /\ MainOnly /\ UNCHANGED <<registry, cursor>>

\* The first walk, under registryLock, shuts the sockets down; a thread that
\* waits for a packet may see the end of file from the start (Eof).
ShutdownSockets ==
  /\ MainAt("shutdown")
  /\ MainGoto("head")
  /\ MainOnly /\ UNCHANGED <<registry, cursor>>

\* tempNode = cr->head, without the lock.
ReadHead ==
  /\ MainAt("head")
  /\ \/ nodes = <<>> /\ MainGoto("wait") /\ UNCHANGED cursor
     \/ nodes # <<>> /\ MainGoto("unregister") /\ cursor' = 1
  /\ MainOnly /\ UNCHANGED registry

UnregisterWithoutSignal ==
  /\ MainAt("unregister")
  /\ clientCount' = clientCount - 1
  /\ refs' = [refs EXCEPT ![nodes[cursor]] = @ - 1]
  /\ MainGoto("next")
  /\ UNCHANGED <<nodes, notEmpty, threads, invitations, cursor, fault>>

\* The node stays in the list.  The search for the descriptor reads the
\* clients from the head on, also those that the walk has freed before; what
\* it finds there may end the process, or it goes on to the client, which it
\* always finds.
UnregisterFault ==
  /\ MainAt("unregister")
  /\ \E i \in 1..(cursor - 1) : Freed(nodes[i])
  /\ Die("freedClient")

creg_unregister ==
  /\ MainAt("unregister")
  /\ clientCount' = clientCount - 1
  /\ refs' = [refs EXCEPT ![nodes[cursor]] = @ - 1]
  /\ notEmpty' = IF clientCount = 1 THEN notEmpty + 1 ELSE notEmpty
  /\ MainGoto("next")
  /\ UNCHANGED <<nodes, threads, invitations, cursor, fault>>

\* tempNode = tempNode->nextClient.
ReadNext ==
  /\ MainAt("next")
  /\ \/ cursor < Len(nodes) /\ MainGoto("unregister") /\ cursor' = cursor + 1
     \/ cursor >= Len(nodes) /\ MainGoto("wait") /\ UNCHANGED cursor
  /\ MainOnly /\ UNCHANGED registry

\* creg_wait_for_empty: P(&notEmpty), V(&notEmpty).
WaitP ==
  /\ MainAt("wait") /\ notEmpty > 0
  /\ notEmpty' = notEmpty - 1
  /\ MainGoto("waited")
  /\ MainOnly /\ UNCHANGED <<nodes, clientCount, cursor>>

WaitV ==
  /\ MainAt("waited")
  /\ notEmpty' = notEmpty + 1
  /\ MainGoto("fini")
  /\ MainOnly /\ UNCHANGED <<nodes, clientCount, cursor>>

\* An empty list is left alone, and so is the registry then.
creg_fini ==
  /\ MainAt("fini")
  /\ MainGoto(IF nodes = <<>> THEN "exiting" ELSE "freed")
  /\ MainOnly /\ UNCHANGED <<registry, cursor>>

Exit ==
  /\ MainAt("exiting") \/ MainAt("freed")
  /\ MainGoto("exit")
  /\ MainOnly /\ UNCHANGED <<registry, cursor>>

terminate == \/ ShutdownSockets \/ ReadHead \/ creg_unregister \/ UnregisterFault
             \/ ReadNext \/ WaitP \/ WaitV \/ creg_fini \/ Exit

ServiceStep(c) == \/ creg_register(c) \/ RegisterTooLate(c) \/ Eof(c)
                  \/ NullClient(c) \/ Login(c) \/ Users(c)
                  \/ creg_lookup(c) \/ MakeInvitation(c)

Next == \/ Sighup
        \/ terminate
        \/ \E c \in Conns : Accept(c) \/ ServiceStep(c)

Spec == Init /\ [][Next]_vars

\* The main thread runs on, and so does a thread that does not wait for a
\* packet; nothing obliges a peer to send one or to go away.
FairSpec == /\ Spec
            /\ WF_vars(terminate)
            /\ \A c \in Conns : WF_vars(creg_register(c)) /\ WF_vars(MakeInvitation(c))

-----------------------------------------------------------------------------
Labels == {"none", "start", "refused", "idle", "make", "done"}
MainLabels == {"accept", "shutdown", "head", "unregister", "next", "wait",
               "waited", "fini", "exiting", "freed", "exit"}

\* Types of the variables of the registry, the threads and the main thread.
TypeOK ==
  /\ nodes \in Seq(Conns) /\ clientCount \in Nat /\ notEmpty \in Nat
  /\ refs \in [Conns -> Nat]
  /\ pc \in [Conns -> Labels]
  /\ loggedIn \subseteq Conns
  /\ target \in [Conns -> Conns \cup {None}]
  /\ invitations \subseteq Conns \X Conns
  /\ main \in MainLabels /\ cursor \in Nat
  /\ fault \in Faults \cup {None}

\* Nodes whose client creg_shutdown_all has unregistered.
Unregistered == IF main = "unregister" THEN cursor - 1 ELSE cursor

\* clientCount is the number of clients registered and not yet unregistered,
\* also while threads register during the unlocked walk of creg_shutdown_all.
CountExact == clientCount = Len(nodes) - Unregistered

\* A connection is in the list once, if its thread has got past creg_register
\* with a client, so the walk unregisters no client twice.
RegisteredOnce ==
  /\ \A i, j \in 1..Len(nodes) : nodes[i] = nodes[j] => i = j
  /\ \A c \in Conns : pc[c] \in {"none", "start", "refused"} => c \notin Registered
  /\ \A c \in Conns : pc[c] \in {"idle", "make"} => c \in Registered

HeldByRegistry(c) == \E i \in (Unregistered + 1)..Len(nodes) : nodes[i] = c

\* The references that a client must have: the registry's until the client is
\* unregistered, and one for each invitation it is in.
Held(c) == (IF HeldByRegistry(c) THEN 1 ELSE 0)
           + Cardinality({p \in invitations : c \in {p[1], p[2]}})

\* The results of creg_lookup that are in use.
LookedUp(c) == Cardinality({d \in Conns : pc[d] = "make" /\ target[d] = c})

\* No reference to a client is lost and none is left over, through unlocked
\* walk, late registration and invitations.  A creg_lookup that takes the
\* reference its header speaks of would satisfy this too; the code takes none.
RefsCovered ==
  \A c \in Conns : refs[c] >= Held(c) /\ refs[c] <= Held(c) + LookedUp(c)

\* notEmpty can be taken whenever no client is registered, but for the moment
\* in which creg_wait_for_empty has it; and it cannot be taken before the
\* clients are all unregistered.  Left out of the second part is a client that
\* registers behind the walk of creg_shutdown_all: creg_wait_for_empty does
\* not wait for it.
NotEmptySignals ==
  /\ clientCount = 0 /\ main # "waited" => notEmpty > 0
  /\ (notEmpty > 0 /\ \/ main \in {"accept", "shutdown", "head"}
                      \/ main = "wait" /\ cursor \in {0, Len(nodes)})
     => clientCount = 0

\* The list only grows, at its end: the place of a client that
\* creg_shutdown_all has reached without the lock stays valid.
ListOnlyGrows ==
  [][/\ Len(nodes') >= Len(nodes)
     /\ \A i \in 1..Len(nodes) : nodes'[i] = nodes[i]]_vars

Ended == main = "exit" \/ fault # None

\* SIGHUP leads to the end of the process, unless a thread created before it
\* registers its client as the first one after creg_shutdown_all saw no list.
Settled == main = "shutdown" /\ (nodes # <<>> \/ \A c \in Conns : pc[c] # "start")
TerminatesWhenSettled == Settled ~> Ended

=============================================================================
