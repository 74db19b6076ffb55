------------------------- MODULE JeuxPlayersProofs -------------------------
(***************************************************************************)
(* Proofs about JeuxPlayers, for any number of clients and names.          *)
(*                                                                         *)
(* The inductive invariant joins the three properties: the search returns  *)
(* a node at all only because equal names are adjacent (the smallest of    *)
(* the matches exists), what it returns is what LoginName is about, and    *)
(* the second search finds something because the first one did.            *)
(***************************************************************************)
EXTENDS JeuxPlayers, SequenceTheorems, FiniteSetTheorems, TLAPS

\* What DuplicatesAdjacent says of a list.
Adjacent(reg) ==
  \A i, j \in 1..Len(reg) : (i < j /\ reg[i] = reg[j]) => i >= 2 /\ j = i + 1

\* A thread that goes on to the second search has found the name already.
RescanFinds ==
  \A c \in Clients : pc[c] = "rescan" => Matches(registry, name[c]) # {}

PlayersInv == TypeOK /\ DuplicatesAdjacent /\ LoginName /\ RescanFinds

-----------------------------------------------------------------------------
\* preg_player_exists returns the first match if there is one.
LEMMA FirstMatch ==
  ASSUME NEW reg \in Seq(Names), Adjacent(reg), NEW n, Matches(reg, n) # {}
  PROVE  /\ preg_player_exists(reg, n) \in Matches(reg, n)
         /\ \A j \in Matches(reg, n) : preg_player_exists(reg, n) <= j
  <1> DEFINE M == Matches(reg, n)
  <1>1. M \subseteq 1..Len(reg) /\ \A i \in M : reg[i] = n
    BY DEF Matches
  <1>2. PICK i \in M : TRUE
    OBVIOUS
  <1>3. \A j \in M : j \in {i - 1, i, i + 1}
    BY <1>1, <1>2 DEF Adjacent
  <1>4. \E k \in M : \A j \in M : k <= j
    <2> HIDE DEF M
    <2>0. i \in Int
      BY <1>1, <1>2
    <2>1. CASE i - 1 \in M
      <3>1. \A j \in M : i - 1 <= j
        BY <1>3, <2>0
      <3> QED BY <2>1, <3>1
    <2>2. CASE i - 1 \notin M
      <3>1. \A j \in M : i <= j
        BY <1>3, <2>0, <2>2
      <3> QED BY <1>2, <3>1
    <2> QED BY <2>1, <2>2
  <1>5. preg_player_exists(reg, n) = CHOOSE k \in M : \A j \in M : k <= j
    BY DEF preg_player_exists
  <1> HIDE DEF M
  <1>6. preg_player_exists(reg, n) \in M
        /\ \A j \in M : preg_player_exists(reg, n) <= j
    BY <1>4, <1>5
  <1> QED BY <1>6 DEF M

\* preg_player_exists returns NULL exactly if there is none.
LEMMA NoMatch ==
  ASSUME NEW reg \in Seq(Names), Adjacent(reg), NEW n
  PROVE  preg_player_exists(reg, n) = 0 <=> Matches(reg, n) = {}
  <1>1. Matches(reg, n) \subseteq 1..Len(reg)
    BY DEF Matches
  <1>2. CASE Matches(reg, n) = {}
    BY <1>2 DEF preg_player_exists
  <1>3. CASE Matches(reg, n) # {}
    BY <1>1, <1>3, FirstMatch
  <1> QED BY <1>2, <1>3

\* A name that the search does not find can only be in the last node, and not
\* there if that is the head; appending it keeps equal names adjacent.
LEMMA AppendAdjacent ==
  ASSUME NEW reg \in Seq(Names), Adjacent(reg), NEW n \in Names, Matches(reg, n) = {}
  PROVE  Adjacent(Append(reg, n))
  <1> DEFINE L == Len(reg)
  <1>1. \A i \in 1..L : reg[i] = n => i = L /\ i >= 2
    BY DEF Matches
  <1>2. Len(Append(reg, n)) = L + 1 /\ Append(reg, n)[L + 1] = n
        /\ \A i \in 1..L : Append(reg, n)[i] = reg[i]
    BY AppendProperties
  <1> QED BY <1>1, <1>2 DEF Adjacent

\* Appending a node keeps every match.
LEMMA AppendMatches ==
  ASSUME NEW reg \in Seq(Names), NEW n \in Names, NEW m
  PROVE  Matches(reg, m) \subseteq Matches(Append(reg, n), m)
  BY AppendProperties DEF Matches

-----------------------------------------------------------------------------
\* The registry and the logins stay consistent.
THEOREM PlayersInvCorrect == Spec => []PlayersInv
  <1>1. Init => PlayersInv
    BY DEF Init, PlayersInv, TypeOK, DuplicatesAdjacent, LoginName, RescanFinds
  <1>2. PlayersInv /\ [Next]_vars => PlayersInv'
    <2> SUFFICES ASSUME PlayersInv, [Next]_vars PROVE PlayersInv'
      OBVIOUS
    <2> USE DEF PlayersInv
    <2>0. /\ registry \in Seq(Names) /\ refs \in Seq(Int) /\ Len(refs) = Len(registry)
          /\ pc \in [Clients -> {"idle", "rescan", "login"}]
          /\ name \in [Clients -> Names \cup {None}]
          /\ found \in [Clients -> Nat] /\ player \in [Clients -> Nat] /\ users \in Nat
          /\ Adjacent(registry)
      BY DEF TypeOK, DuplicatesAdjacent, Adjacent
    <2>1. ASSUME NEW c \in Clients, preg_register(c) PROVE PlayersInv'
      <3>1. PICK n \in Names :
              /\ name' = [name EXCEPT ![c] = n]
              /\ \/ /\ preg_player_exists(registry, n) # 0
                    /\ pc' = [pc EXCEPT ![c] = "rescan"]
                    /\ UNCHANGED <<registry, refs, found>>
                 \/ /\ preg_player_exists(registry, n) = 0
                    /\ registry' = Append(registry, n)
                    /\ refs' = Append(refs, 1)
                    /\ found' = [found EXCEPT ![c] = Len(registry) + 1]
                    /\ pc' = [pc EXCEPT ![c] = "login"]
        BY <2>1 DEF preg_register
      <3>2. player[c] = 0 /\ player' = player /\ users' = users
        BY <2>1 DEF preg_register
      <3>3. CASE preg_player_exists(registry, n) # 0
        <4>1. Matches(registry, n) # {}
          BY <2>0, <3>3, NoMatch
        <4>2. pc' = [pc EXCEPT ![c] = "rescan"] /\ UNCHANGED <<registry, refs, found>>
          BY <3>1, <3>3
        <4>3. TypeOK'
          BY <2>0, <3>1, <3>2, <4>2 DEF TypeOK
        <4>4. LoginName'
          BY <2>0, <3>1, <3>2, <4>2 DEF LoginName
        <4>5. RescanFinds'
          BY <2>0, <3>1, <4>1, <4>2 DEF RescanFinds
        <4> QED BY <4>2, <4>3, <4>4, <4>5 DEF DuplicatesAdjacent
      <3>4. CASE preg_player_exists(registry, n) = 0
        <4>1. Matches(registry, n) = {}
          BY <2>0, <3>4, NoMatch
        <4>2. /\ registry' = Append(registry, n) /\ refs' = Append(refs, 1)
              /\ found' = [found EXCEPT ![c] = Len(registry) + 1]
              /\ pc' = [pc EXCEPT ![c] = "login"]
          BY <3>1, <3>4
        <4>3. /\ registry' \in Seq(Names) /\ Len(registry') = Len(registry) + 1
              /\ registry'[Len(registry) + 1] = n
              /\ \A i \in 1..Len(registry) : registry'[i] = registry[i]
              /\ refs' \in Seq(Int) /\ Len(refs') = Len(refs) + 1
          BY <2>0, <4>2, AppendProperties
        <4>4. TypeOK'
          BY <2>0, <3>1, <3>2, <4>2, <4>3 DEF TypeOK
        <4>5. LoginName'
          <5> SUFFICES ASSUME NEW d \in Clients
                       PROVE  /\ pc'[d] = "login" => /\ found'[d] \in 1..Len(registry')
                                                     /\ registry'[found'[d]] = name'[d]
                              /\ player'[d] # 0 => /\ player'[d] \in 1..Len(registry')
                                                   /\ registry'[player'[d]] = name'[d]
            BY DEF LoginName
          <5>1. CASE d = c
            BY <2>0, <3>1, <3>2, <4>2, <4>3, <5>1
          <5>2. CASE d # c
            BY <2>0, <3>1, <3>2, <4>2, <4>3, <5>2 DEF LoginName
          <5> QED BY <5>1, <5>2
        <4>6. RescanFinds'
          BY <2>0, <3>1, <4>2, AppendMatches DEF RescanFinds
        <4>7. DuplicatesAdjacent'
          BY <2>0, <4>1, <4>2, AppendAdjacent DEF DuplicatesAdjacent, Adjacent
        <4> QED BY <4>4, <4>5, <4>6, <4>7
      <3> QED BY <3>3, <3>4
    <2>2. ASSUME NEW c \in Clients, Rescan(c) PROVE PlayersInv'
      <3> DEFINE k == preg_player_exists(registry, name[c])
      <3>1. /\ pc[c] = "rescan" /\ found' = [found EXCEPT ![c] = k]
            /\ pc' = [pc EXCEPT ![c] = "login"]
            /\ UNCHANGED <<registry, refs, name, player, users>>
        BY <2>2 DEF Rescan
      <3>2. k \in 1..Len(registry) /\ registry[k] = name[c]
        BY <2>0, <3>1, FirstMatch DEF RescanFinds, Matches
      <3> HIDE DEF k
      <3>3. TypeOK'
        BY <2>0, <3>1, <3>2 DEF TypeOK
      <3>4. LoginName' /\ RescanFinds' /\ DuplicatesAdjacent'
        BY <2>0, <3>1, <3>2 DEF LoginName, RescanFinds, DuplicatesAdjacent
      <3> QED BY <3>3, <3>4
    <2>3. ASSUME NEW c \in Clients, client_login(c) PROVE PlayersInv'
      <3>0. /\ pc[c] = "login" /\ pc' = [pc EXCEPT ![c] = "idle"]
            /\ UNCHANGED <<registry, name, found, users>>
        BY <2>3 DEF client_login
      <3>1. CASE /\ player' = [player EXCEPT ![c] = found[c]]
                 /\ refs' = [refs EXCEPT ![found[c]] = refs[found[c]] + 2]
        <4>2. found[c] \in 1..Len(refs) /\ refs[found[c]] + 2 \in Int
          BY <2>0, <3>0 DEF LoginName
        <4>3. refs' \in Seq(Int) /\ Len(refs') = Len(refs)
          BY <2>0, <3>1, <4>2, ExceptSeq
        <4>4. TypeOK'
          BY <2>0, <3>0, <3>1, <4>3 DEF TypeOK
        <4>5. LoginName' /\ RescanFinds' /\ DuplicatesAdjacent'
          BY <2>0, <3>0, <3>1 DEF LoginName, RescanFinds, DuplicatesAdjacent
        <4> QED BY <4>4, <4>5
      <3>2. CASE UNCHANGED <<player, refs>>
        <4>1. TypeOK'
          BY <2>0, <3>0, <3>2 DEF TypeOK
        <4>2. LoginName' /\ RescanFinds' /\ DuplicatesAdjacent'
          BY <2>0, <3>0, <3>2 DEF LoginName, RescanFinds, DuplicatesAdjacent
        <4> QED BY <4>1, <4>2
      <3> QED BY <2>3, <3>1, <3>2 DEF client_login, player_ref
    <2>4. ASSUME NEW c \in Clients, creg_all_players(c) PROVE PlayersInv'
      <3> DEFINE U(i) == Cardinality({d \in Clients : player[d] = i})
      <3>1. /\ refs' = [i \in DOMAIN refs |-> refs[i] - U(i)]
            /\ users' = users + 1
            /\ UNCHANGED <<registry, pc, name, found, player>>
        BY <2>4 DEF creg_all_players
      <3>2. \A i : U(i) \in Int
        <4> TAKE i
        <4>1. {d \in Clients : player[d] = i} \subseteq Clients
          OBVIOUS
        <4>2. IsFiniteSet({d \in Clients : player[d] = i})
          BY <4>1, FS_Subset, PlayersAssumption
        <4>3. U(i) \in Nat
          BY <4>2, FS_CardinalityType
        <4> QED BY <4>3
      <3> HIDE DEF U
      <3>3. DOMAIN refs = 1..Len(refs) /\ \A i \in 1..Len(refs) : refs[i] - U(i) \in Int
        BY <2>0, <3>2
      <3>4. refs' \in Seq(Int) /\ Len(refs') = Len(refs)
        BY <2>0, <3>1, <3>3
      <3>5. TypeOK'
        BY <2>0, <3>1, <3>4 DEF TypeOK
      <3>6. LoginName' /\ RescanFinds' /\ DuplicatesAdjacent'
        BY <2>0, <3>1 DEF LoginName, RescanFinds, DuplicatesAdjacent
      <3> QED BY <3>5, <3>6
    <2>5. CASE UNCHANGED vars
      BY <2>5 DEF vars, TypeOK, LoginName, RescanFinds, DuplicatesAdjacent
    <2> QED BY <2>1, <2>2, <2>3, <2>4, <2>5 DEF Next
  <1> QED BY <1>1, <1>2, PTL DEF Spec

\* A name is registered at most twice, in neighbouring nodes.
THEOREM DuplicatesCorrect == Spec => []DuplicatesAdjacent
  <1>1. PlayersInv => DuplicatesAdjacent
    BY DEF PlayersInv
  <1> QED BY <1>1, PlayersInvCorrect, PTL

\* A client is logged in as a player with the name it gave.
THEOREM LoginNameCorrect == Spec => []LoginName
  <1>1. PlayersInv => LoginName
    BY DEF PlayersInv
  <1> QED BY <1>1, PlayersInvCorrect, PTL

-----------------------------------------------------------------------------
(***************************************************************************)
(* The references of a player.  The registry's own is never given back, a  *)
(* login adds two, and a USERS request takes one for each client that is   *)
(* logged in as the player: two requests take at most what the logins gave *)
(* and leave the registry's.                                               *)
(***************************************************************************)
LoggedInAs(i) == {d \in Clients : player[d] = i}

Logins(i) == Cardinality(LoggedInAs(i))

\* A thread serves LOGIN only for a client that is not logged in.
NotYetIn == \A c \in Clients : pc[c] \in {"rescan", "login"} => player[c] = 0

RefsLeft ==
  \A i \in 1..Len(registry) :
    /\ users = 0 => refs[i] >= 1 + 2 * Logins(i)
    /\ users = 1 => refs[i] >= 1 + Logins(i)
    /\ users = 2 => refs[i] >= 1

\* Finitely many clients are logged in as a player.
LEMMA LoginsFinite ==
  ASSUME NEW i
  PROVE  IsFiniteSet(LoggedInAs(i)) /\ Logins(i) \in Nat
  <1>1. LoggedInAs(i) \subseteq Clients
    BY DEF LoggedInAs
  <1>2. IsFiniteSet(LoggedInAs(i))
    BY <1>1, PlayersAssumption, FS_Subset
  <1> QED BY <1>2, FS_CardinalityType DEF Logins

\* Every step leaves the references that the next USERS requests will take.
LEMMA RefsLeftStep ==
  ASSUME PlayersInv, NotYetIn, RefsLeft, [Next]_vars
  PROVE  NotYetIn' /\ RefsLeft'
  <1>0. /\ registry \in Seq(Names) /\ refs \in Seq(Int) /\ Len(refs) = Len(registry)
        /\ pc \in [Clients -> {"idle", "rescan", "login"}]
        /\ found \in [Clients -> Nat] /\ player \in [Clients -> Nat] /\ users \in Nat
        /\ Len(registry) \in Nat
    BY DEF PlayersInv, TypeOK
  <1>1. ASSUME player' = player PROVE \A i : Logins(i)' = Logins(i)
    BY <1>1 DEF Logins, LoggedInAs
  <1>2. ASSUME NEW c \in Clients, preg_register(c) PROVE NotYetIn' /\ RefsLeft'
    <2>1. /\ player[c] = 0 /\ player' = player /\ users' = users
          /\ \E l \in {"rescan", "login"} : pc' = [pc EXCEPT ![c] = l]
          /\ \/ UNCHANGED <<registry, refs>>
             \/ \E n \in Names : registry' = Append(registry, n) /\ refs' = Append(refs, 1)
      BY <1>2 DEF preg_register
    <2>2. NotYetIn'
      BY <1>0, <2>1 DEF NotYetIn
    <2>3. CASE UNCHANGED <<registry, refs>>
      BY <1>1, <2>1, <2>2, <2>3 DEF RefsLeft
    <2>4. CASE \E n \in Names : registry' = Append(registry, n) /\ refs' = Append(refs, 1)
      <3>1. /\ Len(registry') = Len(registry) + 1
            /\ refs'[Len(registry) + 1] = 1
            /\ \A i \in 1..Len(registry) : refs'[i] = refs[i]
        BY <1>0, <2>4, AppendProperties
      <3>2. Logins(Len(registry) + 1) = 0
        <4>1. LoggedInAs(Len(registry) + 1) = {}
          BY <1>0 DEF PlayersInv, LoginName, LoggedInAs
        <4> QED BY <4>1, FS_EmptySet DEF Logins
      <3>3. ASSUME NEW i \in 1..Len(registry')
            PROVE  /\ users' = 0 => refs'[i] >= 1 + 2 * Logins(i)'
                   /\ users' = 1 => refs'[i] >= 1 + Logins(i)'
                   /\ users' = 2 => refs'[i] >= 1
        <4>1. CASE i = Len(registry) + 1
          BY <1>1, <2>1, <3>1, <3>2, <4>1
        <4>2. CASE i \in 1..Len(registry)
          BY <1>1, <2>1, <3>1, <4>2 DEF RefsLeft
        <4> QED BY <1>0, <3>1, <4>1, <4>2
      <3> QED BY <2>2, <3>3 DEF RefsLeft
    <2> QED BY <2>1, <2>3, <2>4
  <1>3. ASSUME NEW c \in Clients, Rescan(c) PROVE NotYetIn' /\ RefsLeft'
    <2>1. /\ pc[c] = "rescan" /\ pc' = [pc EXCEPT ![c] = "login"]
          /\ UNCHANGED <<registry, refs, player, users>>
      BY <1>3 DEF Rescan
    <2> QED BY <1>0, <1>1, <2>1 DEF NotYetIn, RefsLeft
  <1>4. ASSUME NEW c \in Clients, client_login(c) PROVE NotYetIn' /\ RefsLeft'
    <2> DEFINE k == found[c]
    <2>a. CASE UNCHANGED <<player, refs>>
      <3>1. pc' = [pc EXCEPT ![c] = "idle"] /\ UNCHANGED <<registry, users, player, refs>>
        BY <1>4, <2>a DEF client_login
      <3>2. NotYetIn'
        BY <1>0, <3>1 DEF NotYetIn
      <3> QED BY <1>1, <3>1, <3>2 DEF RefsLeft
    <2> SUFFICES ASSUME ~UNCHANGED <<player, refs>> PROVE NotYetIn' /\ RefsLeft'
      BY <2>a
    <2>1. /\ pc[c] = "login" /\ player' = [player EXCEPT ![c] = k]
          /\ pc' = [pc EXCEPT ![c] = "idle"]
          /\ UNCHANGED <<registry, users>>
          /\ refs' = [refs EXCEPT ![k] = refs[k] + 2]
      BY <1>4 DEF client_login, player_ref
    <2>2. k \in 1..Len(registry) /\ player[c] = 0
      BY <2>1 DEF PlayersInv, LoginName, NotYetIn
    <2>3. NotYetIn'
      BY <1>0, <2>1 DEF NotYetIn
    <2> HIDE DEF k
    <2>4. ASSUME NEW i \in 1..Len(registry)
          PROVE  /\ users = 0 => refs'[i] >= 1 + 2 * Logins(i)'
                 /\ users = 1 => refs'[i] >= 1 + Logins(i)'
                 /\ users = 2 => refs'[i] >= 1
      <3>0. /\ refs[i] \in Int /\ Logins(i) \in Nat
            /\ users = 0 => refs[i] >= 1 + 2 * Logins(i)
            /\ users = 1 => refs[i] >= 1 + Logins(i)
            /\ users = 2 => refs[i] >= 1
        BY <1>0, LoginsFinite DEF RefsLeft
      <3>1. CASE i = k
        <4>1. LoggedInAs(i)' = LoggedInAs(i) \cup {c} /\ c \notin LoggedInAs(i)
          BY <1>0, <2>1, <2>2, <3>1 DEF LoggedInAs
        <4>2. Logins(i)' = Logins(i) + 1
          BY <4>1, LoginsFinite, FS_AddElement DEF Logins
        <4>3. refs'[i] = refs[i] + 2
          BY <1>0, <2>1, <2>2, <3>1
        <4> QED BY <3>0, <4>2, <4>3
      <3>2. CASE i # k
        <4>1. LoggedInAs(i)' = LoggedInAs(i)
          BY <1>0, <2>1, <2>2, <3>2 DEF LoggedInAs
        <4>2. refs'[i] = refs[i]
          BY <1>0, <2>1, <2>2, <3>2
        <4> QED BY <3>0, <4>1, <4>2 DEF Logins
      <3> QED BY <3>1, <3>2
    <2> QED BY <2>1, <2>3, <2>4 DEF RefsLeft
  <1>5. ASSUME NEW c \in Clients, creg_all_players(c) PROVE NotYetIn' /\ RefsLeft'
    <2>1. /\ refs' = [i \in DOMAIN refs |-> refs[i] - Logins(i)]
          /\ users' = users + 1
          /\ UNCHANGED <<registry, pc, player>>
      BY <1>5 DEF creg_all_players, Logins, LoggedInAs
    <2>2. NotYetIn'
      BY <2>1 DEF NotYetIn
    <2>3. ASSUME NEW i \in 1..Len(registry)
          PROVE  /\ users' = 0 => refs'[i] >= 1 + 2 * Logins(i)'
                 /\ users' = 1 => refs'[i] >= 1 + Logins(i)'
                 /\ users' = 2 => refs'[i] >= 1
      <3>1. /\ refs[i] \in Int /\ Logins(i) \in Nat /\ Logins(i)' = Logins(i)
            /\ users = 0 => refs[i] >= 1 + 2 * Logins(i)
            /\ users = 1 => refs[i] >= 1 + Logins(i)
        BY <1>0, <1>1, <2>1, LoginsFinite DEF RefsLeft
      <3>2. refs'[i] = refs[i] - Logins(i)
        BY <1>0, <2>1
      <3> QED BY <1>0, <2>1, <3>1, <3>2
    <2> QED BY <2>1, <2>2, <2>3 DEF RefsLeft
  <1>6. CASE UNCHANGED vars
    BY <1>1, <1>6 DEF vars, NotYetIn, RefsLeft
  <1> QED BY <1>2, <1>3, <1>4, <1>5, <1>6 DEF Next

\* The player of a logged-in client survives two USERS requests, whatever
\* logins come before, between and after them.
THEOREM AliveCorrect == Spec => []AliveForTwoListings
  <1>1. Init => NotYetIn /\ RefsLeft
    BY DEF Init, NotYetIn, RefsLeft
  <1>2. PlayersInv /\ NotYetIn /\ RefsLeft /\ [Next]_vars => NotYetIn' /\ RefsLeft'
    BY RefsLeftStep
  <1>3. PlayersInv /\ RefsLeft => AliveForTwoListings
    <2> SUFFICES ASSUME PlayersInv, RefsLeft, users <= 2,
                        NEW c \in Clients, player[c] # 0
                 PROVE  ~Freed(player[c])
      BY DEF AliveForTwoListings
    <2>1. player[c] \in 1..Len(registry) /\ users \in {0, 1, 2}
      BY DEF PlayersInv, TypeOK, LoginName
    <2>2. refs[player[c]] \in Int /\ Logins(player[c]) \in Nat
      BY <2>1, LoginsFinite DEF PlayersInv, TypeOK
    <2>3. refs[player[c]] >= 1
      BY <2>1, <2>2 DEF RefsLeft
    <2> QED BY <2>2, <2>3 DEF Freed
  <1> QED BY <1>1, <1>2, <1>3, PlayersInvCorrect, PTL DEF Spec
=============================================================================
