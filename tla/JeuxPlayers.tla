---------------------------- MODULE JeuxPlayers ----------------------------
(***************************************************************************)
(* The players of the Jeux server: the player registry                     *)
(* (hw5/src/player_registry.c), the reference counts of PLAYER objects     *)
(* (hw5/src/player.c), and the LOGIN and USERS requests of the service     *)
(* threads (hw5/src/server.c) that use them.                               *)
(*                                                                         *)
(* A PLAYER is identified by its place in the registry's list: nodes are   *)
(* only ever added, at the end.  A lock section of registryLock is one     *)
(* action.  preg_register searches the list a second time after it has     *)
(* released the lock, and that search is an action of its own.             *)
(***************************************************************************)
EXTENDS Integers, Sequences, FiniteSets

CONSTANTS
  Clients,   \* the connections, one service thread each
  Names,     \* the user names they log in with
  MaxUsers   \* bound on the number of USERS requests

ASSUME PlayersAssumption == MaxUsers \in Nat /\ IsFiniteSet(Clients)

None == "none"

VARIABLES
  registry,  \* the list: names of the players, head first
  refs,      \* refs[i]: reference count of the i-th player
  pc,        \* what the thread of each client does next
  name,      \* the name in its LOGIN packet
  found,     \* what preg_register returns to it: a place in the list, or 0
  player,    \* the player each CLIENT is logged in as, or 0
  users      \* number of USERS requests so far

vars == <<registry, refs, pc, name, found, player, users>>

Init ==
  /\ registry = <<>>
  /\ refs = <<>>
  /\ pc = [c \in Clients |-> "idle"]
  /\ name = [c \in Clients |-> None]
  /\ found = [c \in Clients |-> 0]
  /\ player = [c \in Clients |-> 0]
  /\ users = 0

\* A player whose count has come down to 0 has been freed.
Freed(i) == refs[i] <= 0

\* The registry keeps pointing at a freed player; what happens when it is
\* used is not modelled, so behaviours end there.
Intact == \A i \in 1..Len(registry) : ~Freed(i)

-----------------------------------------------------------------------------
(***************************************************************************)
(* The search.  The head is compared first; the loop then compares a node  *)
(* only if it has a successor, so the last node is skipped unless it is    *)
(* the head.                                                               *)
(***************************************************************************)
HeadOnly(reg, n) == IF Len(reg) > 0 /\ reg[1] = n THEN 1 ELSE 0

Matches(reg, n) == {i \in 1..Len(reg) : (i = 1 \/ i < Len(reg)) /\ reg[i] = n}

preg_player_exists(reg, n) ==
  IF Matches(reg, n) = {}
  THEN 0
  ELSE CHOOSE i \in Matches(reg, n) : \A j \in Matches(reg, n) : i <= j

-----------------------------------------------------------------------------
(***************************************************************************)
(* LOGIN.                                                                  *)
(***************************************************************************)

\* The section under registryLock.  A new player has one reference.
preg_register(c) ==
  /\ Intact /\ pc[c] = "idle" /\ player[c] = 0
  /\ \E n \in Names :
       /\ name' = [name EXCEPT ![c] = n]
       /\ \/ /\ preg_player_exists(registry, n) # 0
             /\ pc' = [pc EXCEPT ![c] = "rescan"]
             /\ UNCHANGED <<registry, refs, found>>
          \/ /\ preg_player_exists(registry, n) = 0
             /\ registry' = Append(registry, n)
             /\ refs' = Append(refs, 1)
             /\ found' = [found EXCEPT ![c] = Len(registry) + 1]
             /\ pc' = [pc EXCEPT ![c] = "login"]
  /\ UNCHANGED <<player, users>>

RescanTakesLast(c) ==
  /\ Intact /\ pc[c] = "rescan"
  /\ found' = [found EXCEPT ![c] = Len(registry)]
  /\ pc' = [pc EXCEPT ![c] = "login"]
  /\ UNCHANGED <<registry, refs, name, player, users>>

\* return preg_player_exists(preg, name), after V(&registryLock).
Rescan(c) ==
  /\ Intact /\ pc[c] = "rescan"
  /\ found' = [found EXCEPT ![c] = preg_player_exists(registry, name[c])]
  /\ pc' = [pc EXCEPT ![c] = "login"]
  /\ UNCHANGED <<registry, refs, name, player, users>>

RefByOne(r, i) == [r EXCEPT ![i] = @ + 1]

\* player_ref adds two.
player_ref(r, i) == [r EXCEPT ![i] = @ + 2]

\* client_login: the CLIENT retains the player.  It fails for a client that is
\* logged in.  client.h:79-80 has it fail as well if another client is logged
\* in as the player, which the object code does not look at: both are allowed.
MayRefuse(c) == player[c] # 0 \/ \E d \in Clients : player[d] = found[c]

client_login(c) ==
  /\ Intact /\ pc[c] = "login"
  /\ pc' = [pc EXCEPT ![c] = "idle"]
  /\ \/ /\ player[c] = 0
        /\ player' = [player EXCEPT ![c] = found[c]]
        /\ refs' = player_ref(refs, found[c])
     \/ /\ MayRefuse(c)
        /\ UNCHANGED <<player, refs>>
  /\ UNCHANGED <<registry, name, found, users>>

(***************************************************************************)
(* USERS: creg_all_players drops one reference of the player of every      *)
(* client that is logged in, without having taken one.                     *)
(***************************************************************************)
creg_all_players(c) ==
  /\ Intact /\ pc[c] = "idle" /\ player[c] # 0 /\ users < MaxUsers
  /\ refs' = [i \in DOMAIN refs |->
                refs[i] - Cardinality({d \in Clients : player[d] = i})]
  /\ users' = users + 1
  /\ UNCHANGED <<registry, pc, name, found, player>>

-----------------------------------------------------------------------------
Next ==
  \E c \in Clients :
    preg_register(c) \/ Rescan(c) \/ client_login(c) \/ creg_all_players(c)

Spec == Init /\ [][Next]_vars

-----------------------------------------------------------------------------
\* Every variable keeps its type; a login always has a player to log in.
TypeOK ==
  /\ registry \in Seq(Names)
  /\ refs \in Seq(Int) /\ Len(refs) = Len(registry)
  /\ pc \in [Clients -> {"idle", "rescan", "login"}]
  /\ name \in [Clients -> Names \cup {None}]
  /\ found \in [Clients -> Nat]
  /\ player \in [Clients -> Nat]
  /\ users \in Nat

\* The search misses a player only while it is the last node, so a name is
\* registered at most twice, the second time in the node after the first,
\* and the head's name only once.
DuplicatesAdjacent ==
  \A i, j \in 1..Len(registry) :
    (i < j /\ registry[i] = registry[j]) => i >= 2 /\ j = i + 1

\* The player a thread gets from preg_register has the name it asked for,
\* although the list is searched again without the lock and may have grown.
LoginName ==
  \A c \in Clients :
    /\ pc[c] = "login" => /\ found[c] \in 1..Len(registry)
                          /\ registry[found[c]] = name[c]
    /\ player[c] # 0 => /\ player[c] \in 1..Len(registry)
                        /\ registry[player[c]] = name[c]

\* creg_all_players takes references that nobody gave it, but client_login
\* gives two for the one pointer it stores: the player of a logged-in client
\* survives two USERS requests (the third may free it).
AliveForTwoListings ==
  users <= 2 => \A c \in Clients : player[c] # 0 => ~Freed(player[c])

=============================================================================
