--------------------------- MODULE FinddupProofs -----------------------------
(***************************************************************************)
(* NothingLost, DuplicatesAreEqual, DuplicatesAreFound and LinksAreFound   *)
(* for every number of names, every set of contents and every order in     *)
(* which qsort may leave the list.                                         *)
(*                                                                         *)
(* Every operation on the file list rearranges it: no entry disappears,    *)
(* and an entry changes in its flags and its checksum only.  For MoveInto  *)
(* this takes lastix <= ix2, which the loop over duplicates maintains.     *)
(*                                                                         *)
(* DuplicatesInv follows the list through the scans.  In the loop over     *)
(* duplicates (DupsOK) an entry flagged LNK stays behind another name of   *)
(* its inode, except at ix2, where that one may have been moved away: then *)
(* it was a match, and lnkmatch says so.  So every LNK becomes a DUP, and  *)
(* every DUP ends up behind an equal file, which is what scan3 relies on.  *)
(*                                                                         *)
(* FoundInv says that nothing is missed: the second sort puts files of one *)
(* key, and the names of one inode, together; no file that equals the one  *)
(* at ix is left behind between lastix and ix2; and scan3 has printed the  *)
(* group it is in, but for the head that is still to come.                 *)
(***************************************************************************)
EXTENDS Finddup, FiniteSetTheorems, SequenceTheorems, TLAPS

Entry == [nameloc : Nat, length : {Len(c) : c \in Contents},
          crc32 : {0} \cup {Crc[c] : c \in Contents}, inode : Inodes,
          flags : SUBSET {"CRC", "LNK", "DUP"}]

(* An entry describes the file of its name. *)
EntryOK(f) ==
  /\ f \in Entry /\ f.nameloc \in 1..Len(names)
  /\ f.inode = names[f.nameloc] /\ data[f.inode] # <<>>
  /\ f.length = Len(data[f.inode])
  /\ f.crc32 = IF "CRC" \in f.flags THEN Crc[data[f.inode]] ELSE 0

ListOK(l) ==
  /\ l \in Seq(Entry) /\ Len(l) = Cardinality(Listed)
  /\ \A i \in 1..Len(l) : EntryOK(l[i]) /\ l[i].nameloc \in Listed
  /\ \A m \in Listed : \E i \in 1..Len(l) : l[i].nameloc = m

FinddupInv ==
  /\ names \in Seq(Inodes \cup {Ignored}) /\ data \in [Inodes -> Contents \cup {<<>>}]
  /\ ix2 \in Nat /\ lastix \in Nat
  /\ pc \in {"build", "scan1"} => ix \in Nat
  /\ pc = "dups" => 1 <= lastix /\ lastix <= ix2
  /\ ListOK(filelist)

-----------------------------------------------------------------------------
(* A list that holds an acceptable entry for each entry of another one is  *)
(* as good as that one.                                                    *)
LEMMA Rearranged ==
  ASSUME NEW l, ListOK(l), NEW s \in Seq(Entry), Len(s) = Len(l),
         \A i \in 1..Len(l) : EntryOK(s[i]) /\ \E j \in 1..Len(l) : s[i].nameloc = l[j].nameloc,
         \A j \in 1..Len(l) : \E i \in 1..Len(l) : s[i].nameloc = l[j].nameloc
  PROVE  ListOK(s)
<1>1. \A i \in 1..Len(s) : EntryOK(s[i]) /\ s[i].nameloc \in Listed
  BY DEF ListOK
<1>2. \A m \in Listed : \E i \in 1..Len(s) : s[i].nameloc = m
  <2> TAKE m \in Listed
  <2>1. PICK j \in 1..Len(l) : l[j].nameloc = m
    BY DEF ListOK
  <2>2. PICK i \in 1..Len(l) : s[i].nameloc = l[j].nameloc
    OBVIOUS
  <2> QED
    BY <2>1, <2>2
<1> QED
  BY <1>1, <1>2 DEF ListOK

(* qsort returns a permutation of the list. *)
LEMMA SortRearranges ==
  ASSUME NEW l, ListOK(l), NEW s \in SORT(l)
  PROVE  ListOK(s)
<1>1. l \in Seq(Entry) /\ Len(l) \in Nat /\ DOMAIN l = 1..Len(l)
  BY LenProperties DEF ListOK
<1>2. PICK p \in Bijection(DOMAIN l, DOMAIN l) : s = [i \in DOMAIN l |-> l[p[i]]]
  BY DEF SORT
<1>3. p \in [1..Len(l) -> 1..Len(l)] /\ \A j \in 1..Len(l) : \E i \in 1..Len(l) : p[i] = j
  <2> DEFINE D == DOMAIN l
  <2>1. p \in Bijection(D, D)
    BY <1>2
  <2>2. D = 1..Len(l)
    BY <1>1
  <2> HIDE DEF D
  <2>3. p \in [D -> D] /\ \A j \in D : \E i \in D : p[i] = j
    BY <2>1 DEF Bijection, Injection, Surjection
  <2> QED
    BY <2>2, <2>3
<1> DEFINE n == Len(l)
<1>4. n \in Nat /\ s = [i \in 1..n |-> l[p[i]]]
  BY <1>1, <1>2
<1>5. \A i \in 1..n : p[i] \in 1..n /\ s[i] = l[p[i]] /\ EntryOK(s[i]) /\ s[i] \in Entry
  <2> TAKE i \in 1..n
  <2>1. p[i] \in 1..n /\ s[i] = l[p[i]]
    BY <1>3, <1>4
  <2>2. EntryOK(l[p[i]])
    BY <2>1 DEF ListOK
  <2> QED
    BY <2>1, <2>2 DEF EntryOK
<1>6. \A j \in 1..n : \E i \in 1..n : s[i] = l[j]
  <2> TAKE j \in 1..n
  <2>1. PICK i \in 1..n : p[i] = j
    BY <1>3
  <2> QED
    BY <1>5, <2>1
<1>7. s \in [1..n -> Entry]
  BY <1>4, <1>5
<1> HIDE DEF n
<1>8. s \in Seq(Entry) /\ Len(s) = n
  BY <1>4, <1>7
<1> QED
  BY <1>5, <1>6, <1>8, Rearranged DEF n

(* Moving the entry at b to the place a before it permutes the list. *)
LEMMA MoveRearranges ==
  ASSUME NEW l, ListOK(l), NEW a \in Nat, NEW b \in Nat, 1 <= a, a <= b, b <= Len(l)
  PROVE  ListOK(MoveInto(l, a, b))
<1> DEFINE n == Len(l)
           s == MoveInto(l, a, b)
<1>1. l \in Seq(Entry) /\ n \in Nat /\ DOMAIN l = 1..n
  BY LenProperties DEF ListOK
<1>2. s = [i \in 1..n |-> IF i = a THEN l[b] ELSE IF a < i /\ i <= b THEN l[i - 1] ELSE l[i]]
  BY <1>1 DEF MoveInto
<1>3. \A i \in 1..n : EntryOK(l[i]) /\ l[i] \in Entry
  BY DEF ListOK, EntryOK
<1> HIDE DEF n
<1>4. \A i \in 1..n : \E j \in 1..n : s[i] = l[j]
  <2> TAKE i \in 1..n
  <2>1. CASE i = a
    BY <1>1, <1>2, <2>1 DEF n
  <2>2. CASE a < i /\ i <= b
    <3>1. i - 1 \in 1..n /\ s[i] = l[i - 1]
      BY <1>1, <1>2, <2>2 DEF n
    <3> QED
      BY <3>1
  <2>3. CASE i # a /\ ~(a < i /\ i <= b)
    BY <1>2, <2>3
  <2> QED
    BY <2>1, <2>2, <2>3
<1>5. \A j \in 1..n : \E i \in 1..n : s[i] = l[j]
  <2> TAKE j \in 1..n
  <2>1. CASE j = b
    <3>1. a \in 1..n /\ s[a] = l[b]
      BY <1>1, <1>2 DEF n
    <3> QED
      BY <2>1, <3>1
  <2>2. CASE a <= j /\ j < b
    <3>1. j + 1 \in 1..n /\ j + 1 # a /\ a < j + 1 /\ j + 1 <= b /\ (j + 1) - 1 = j
      BY <1>1, <2>2 DEF n
    <3>2. s[j + 1] = l[j]
      BY <1>2, <3>1
    <3> QED
      BY <3>1, <3>2
  <2>3. CASE j # b /\ ~(a <= j /\ j < b)
    <3>1. j # a /\ ~(a < j /\ j <= b)
      BY <1>1, <2>3
    <3>2. s[j] = l[j]
      BY <1>2, <3>1
    <3> QED
      BY <3>2
  <2> QED
    BY <2>1, <2>2, <2>3
<1>6. \A i \in 1..n : EntryOK(s[i]) /\ s[i] \in Entry
  BY <1>3, <1>4
<1>7. s \in [1..n -> Entry]
  BY <1>2, <1>6
<1> HIDE DEF s
<1>8. s \in Seq(Entry) /\ Len(s) = n
  BY <1>1, <1>7
<1>9. ListOK(s)
  BY <1>4, <1>5, <1>6, <1>8, Rearranged DEF n
<1> QED
  BY <1>9 DEF s

(* Changing entries in place keeps the names. *)
LEMMA ChangeRearranges ==
  ASSUME NEW l, ListOK(l), NEW s, s \in [1..Len(l) -> Entry],
         \A i \in 1..Len(l) : EntryOK(s[i]) /\ s[i].nameloc = l[i].nameloc
  PROVE  ListOK(s)
<1>1. Len(l) \in Nat
  BY LenProperties DEF ListOK
<1>2. s \in Seq(Entry) /\ Len(s) = Len(l)
  BY <1>1
<1> QED
  BY <1>2, Rearranged

-----------------------------------------------------------------------------
(* get_crc leaves an acceptable entry with the same name. *)
LEMMA GetCrcOK ==
  ASSUME data \in [Inodes -> Contents \cup {<<>>}], NEW f, EntryOK(f)
  PROVE  EntryOK(get_crc(f)) /\ get_crc(f).nameloc = f.nameloc
<1> DEFINE c == data[f.inode]
           g == [f EXCEPT !.crc32 = Crc[c], !.flags = @ \cup {"CRC"}]
<1>1. f \in Entry /\ c \in Contents
  BY DEF EntryOK, Entry
<1>2. /\ g \in Entry /\ g.nameloc = f.nameloc /\ g.inode = f.inode /\ g.length = f.length
      /\ g.crc32 = Crc[c] /\ "CRC" \in g.flags
  BY <1>1 DEF Entry
<1>3. get_crc(f) = IF "CRC" \in f.flags THEN f ELSE g
  BY DEF get_crc, ContentOf
<1> HIDE DEF g, c
<1>4. EntryOK(g)
  BY <1>2 DEF EntryOK, c
<1> QED
  BY <1>2, <1>3, <1>4

(* So does setting a flag other than CRC. *)
LEMMA FlagOK ==
  ASSUME NEW f, EntryOK(f), NEW x \in {"LNK", "DUP"}
  PROVE  LET g == [f EXCEPT !.flags = @ \cup {x}] IN EntryOK(g) /\ g.nameloc = f.nameloc
<1> DEFINE g == [f EXCEPT !.flags = @ \cup {x}]
<1>1. f \in Entry
  BY DEF EntryOK
<1>2. /\ g \in Entry /\ g.nameloc = f.nameloc /\ g.inode = f.inode /\ g.length = f.length
      /\ g.crc32 = f.crc32 /\ ("CRC" \in g.flags <=> "CRC" \in f.flags)
  BY <1>1 DEF Entry
<1> HIDE DEF g
<1>3. EntryOK(g)
  BY <1>2 DEF EntryOK
<1> QED
  BY <1>2, <1>3 DEF g

(* A step that reads no name only has to keep the list. *)
LEMMA RearrangeStep ==
  ASSUME FinddupInv, UNCHANGED <<names, data>>, ListOK(filelist'),
         ix2' \in Nat, lastix' \in Nat,
         pc' \in {"build", "scan1"} => ix' \in Nat,
         pc' = "dups" => 1 <= lastix' /\ lastix' <= ix2'
  PROVE  FinddupInv'
<1>1. Listed' = Listed
  BY DEF Listed
<1>2. \A f : EntryOK(f) => EntryOK(f)'
  BY DEF EntryOK
<1>3. ListOK(filelist)'
  BY <1>1, <1>2 DEF ListOK
<1> QED
  BY <1>3 DEF FinddupInv

(* The names listed are finitely many, and a name read is one more. *)
LEMMA ListedFinite ==
  ASSUME FinddupInv
  PROVE  /\ IsFiniteSet(Listed) /\ Cardinality(Listed) \in Nat /\ Len(names) \in Nat
         /\ Len(names) + 1 \notin Listed
<1>1. Len(names) \in Nat
  BY LenProperties DEF FinddupInv
<1>2. IsFiniteSet(1..Len(names))
  BY <1>1, FS_Interval
<1>3. Listed \in SUBSET (1..Len(names))
  BY DEF Listed
<1>4. IsFiniteSet(Listed)
  BY <1>2, <1>3, FS_Subset
<1>5. Len(names) + 1 \notin Listed
  BY <1>1, <1>3
<1> QED
  BY <1>1, <1>4, <1>5, FS_CardinalityType

-----------------------------------------------------------------------------
(* A name that is left out changes no list. *)
LEMMA IgnoreNameStep ==
  ASSUME FinddupInv, IgnoreName
  PROVE  FinddupInv'
<1>1. /\ names' = Append(names, Ignored) /\ names \in Seq(Inodes \cup {Ignored})
      /\ UNCHANGED <<data, filelist, pc, ix, ix2, lastix>>
  BY DEF IgnoreName, FinddupInv
<1>2. /\ names' \in Seq(Inodes \cup {Ignored}) /\ Len(names') = Len(names) + 1
      /\ Len(names) \in Nat /\ (\A m \in 1..Len(names) : names'[m] = names[m])
      /\ names'[Len(names) + 1] = Ignored
  <2>1. Ignored \in Inodes \cup {Ignored}
    OBVIOUS
  <2> QED
    BY <1>1, <2>1, AppendProperties, LenProperties
<1>3. Listed' = Listed
  <2>1. \A m \in 1..Len(names') : m # Len(names) + 1 => m \in 1..Len(names)
    BY <1>2
  <2>2. \A m \in 1..Len(names) : m \in 1..Len(names')
    BY <1>2
  <2> QED
    BY <1>2, <2>1, <2>2 DEF Listed
<1>4. \A f : EntryOK(f) => EntryOK(f)'
  <2> TAKE f
  <2> HAVE EntryOK(f)
  <2>1. f.nameloc \in 1..Len(names') /\ names'[f.nameloc] = names[f.nameloc]
    BY <1>2 DEF EntryOK
  <2> QED
    BY <1>1, <2>1 DEF EntryOK
<1>5. ListOK(filelist)'
  BY <1>1, <1>3, <1>4 DEF ListOK, FinddupInv
<1> QED
  BY <1>1, <1>2, <1>5 DEF FinddupInv

(* A name that is read becomes the last entry. *)
LEMMA ReadNameStep ==
  ASSUME FinddupInv, NEW x \in Inodes, ReadName(x)
  PROVE  FinddupInv'
<1> DEFINE n == Len(names)
<1>1. PICK c \in IF data[x] = <<>> THEN Contents ELSE {data[x]} :
        /\ data' = [data EXCEPT ![x] = c]
        /\ filelist' = Append(filelist, [nameloc |-> n + 1, length |-> Len(c), crc32 |-> 0,
                                         inode |-> x, flags |-> {}])
  BY DEF ReadName
<1>2. /\ names' = Append(names, x) /\ UNCHANGED <<pc, ix, ix2, lastix>>
      /\ names \in Seq(Inodes \cup {Ignored}) /\ filelist \in Seq(Entry)
      /\ data \in [Inodes -> Contents \cup {<<>>}]
  BY DEF ReadName, FinddupInv, ListOK
<1>3. c \in Contents /\ c # <<>> /\ x # Ignored
  BY <1>1, <1>2, FinddupAssumption DEF Ignored
<1>4. /\ names' \in Seq(Inodes \cup {Ignored}) /\ Len(names') = n + 1
      /\ n \in Nat /\ (\A m \in 1..n : names'[m] = names[m]) /\ names'[n + 1] = x
  BY <1>2, AppendProperties, LenProperties
<1>5. /\ data' \in [Inodes -> Contents \cup {<<>>}] /\ data'[x] = c
      /\ \A y \in Inodes : data[y] # <<>> => data'[y] = data[y]
  BY <1>1, <1>2, <1>3
<1>6. Listed' = Listed \cup {n + 1}
  <2>1. Listed' = {m \in 1..(n + 1) : names'[m] # Ignored}
    BY <1>4 DEF Listed
  <2>2. \A m \in 1..(n + 1) : m = n + 1 \/ m \in 1..n
    BY <1>4
  <2>3. n + 1 \in 1..(n + 1) /\ \A m \in 1..n : m \in 1..(n + 1)
    BY <1>4
  <2> QED
    BY <1>3, <1>4, <2>1, <2>2, <2>3 DEF Listed
<1>7. /\ IsFiniteSet(Listed) /\ Cardinality(Listed) \in Nat /\ n + 1 \notin Listed
      /\ Cardinality(Listed') = Cardinality(Listed) + 1
  BY <1>6, ListedFinite, FS_AddElement
<1>8. PICK e : /\ e = [nameloc |-> n + 1, length |-> Len(c), crc32 |-> 0, inode |-> x,
                       flags |-> {}]
               /\ e \in Entry /\ e.nameloc = n + 1 /\ e.length = Len(c) /\ e.crc32 = 0
               /\ e.inode = x /\ e.flags = {}
  <2> DEFINE g == [nameloc |-> n + 1, length |-> Len(c), crc32 |-> 0, inode |-> x, flags |-> {}]
  <2>1. /\ g \in Entry /\ g.nameloc = n + 1 /\ g.length = Len(c) /\ g.crc32 = 0
        /\ g.inode = x /\ g.flags = {}
    BY <1>3, <1>4 DEF Entry
  <2>2. g = [nameloc |-> n + 1, length |-> Len(c), crc32 |-> 0, inode |-> x, flags |-> {}]
    OBVIOUS
  <2> HIDE DEF g
  <2> QED
    BY <2>1, <2>2
<1>9. filelist' = Append(filelist, e)
  BY <1>1, <1>8
<1>10. /\ filelist' \in Seq(Entry) /\ Len(filelist') = Len(filelist) + 1
       /\ Len(filelist) \in Nat /\ filelist'[Len(filelist) + 1] = e
       /\ \A i \in 1..Len(filelist) : filelist'[i] = filelist[i]
  BY <1>2, <1>8, <1>9, AppendProperties, LenProperties
<1>11. ASSUME NEW f, EntryOK(f)
       PROVE  EntryOK(f)'
  <2>1. f.nameloc \in 1..Len(names') /\ names'[f.nameloc] = names[f.nameloc]
    BY <1>4, <1>11 DEF EntryOK
  <2>2. f.inode \in Inodes /\ data'[f.inode] = data[f.inode]
    BY <1>5, <1>11 DEF EntryOK, Entry
  <2> QED
    BY <1>11, <2>1, <2>2 DEF EntryOK
<1>12. EntryOK(e)'
  <2>1. e.nameloc \in 1..Len(names') /\ names'[e.nameloc] = x
    BY <1>4, <1>8
  <2> QED
    BY <1>3, <1>5, <1>8, <2>1 DEF EntryOK
<1> DEFINE k == Len(filelist)
<1>13. ListOK(filelist)
  BY DEF FinddupInv
<1>14. \A i \in 1..(k + 1) : EntryOK(filelist[i])' /\ filelist'[i].nameloc \in Listed'
  <2> TAKE i \in 1..(k + 1)
  <2>1. CASE i \in 1..k
    <3>1. PICK f : f = filelist[i]
      OBVIOUS
    <3>2. filelist'[i] = f
      BY <1>10, <2>1, <3>1
    <3>3. EntryOK(f)' /\ f.nameloc \in Listed
      BY <1>11, <1>13, <2>1, <3>1 DEF ListOK
    <3> QED
      BY <1>6, <3>2, <3>3 DEF EntryOK
  <2>2. CASE i = k + 1
    <3>1. filelist'[i] = e
      BY <1>10, <2>2
    <3> QED
      BY <1>6, <1>8, <1>12, <3>1 DEF EntryOK
  <2> QED
    BY <1>10, <2>1, <2>2
<1>15. \A m \in Listed' : \E i \in 1..(k + 1) : filelist'[i].nameloc = m
  <2> TAKE m \in Listed'
  <2>1. CASE m = n + 1
    <3>1. k + 1 \in 1..(k + 1) /\ filelist'[k + 1].nameloc = m
      BY <1>8, <1>10, <2>1
    <3> QED
      BY <3>1
  <2>2. CASE m \in Listed
    <3>1. PICK i \in 1..k : filelist[i].nameloc = m
      BY <1>13, <2>2 DEF ListOK
    <3>2. i \in 1..(k + 1) /\ filelist'[i].nameloc = m
      BY <1>10, <3>1
    <3> QED
      BY <3>2
  <2> QED
    BY <1>6, <2>1, <2>2
<1>16. ListOK(filelist)'
  <2>1. Len(filelist') = Cardinality(Listed')
    BY <1>7, <1>10, <1>13 DEF ListOK
  <2>2. Len(filelist') = k + 1
    BY <1>10
  <2> HIDE DEF k
  <2> QED
    BY <1>10, <1>14, <1>15, <2>1, <2>2 DEF ListOK
<1> QED
  BY <1>2, <1>4, <1>5, <1>16 DEF FinddupInv

(* The list is sorted at the end of the names, and again after scan1. *)
LEMMA SortSteps ==
  ASSUME FinddupInv, EndOfNames \/ EndScan1
  PROVE  FinddupInv'
<1>1. ListOK(filelist')
  <2>1. ListOK(filelist)
    BY DEF FinddupInv
  <2>2. filelist' \in SORT(filelist) \/ filelist' = filelist
    BY DEF EndOfNames, EndScan1
  <2> QED
    BY <2>1, <2>2, SortRearranges
<1>2. UNCHANGED <<names, data, ix2, lastix>>
  BY DEF EndOfNames, EndScan1, input
<1>3. (pc' = "scan1" /\ ix' = ix /\ pc = "build") \/ pc' = "links"
  BY DEF EndOfNames, EndScan1
<1> QED
  BY <1>1, <1>2, <1>3, RearrangeStep DEF FinddupInv

(* scan1 computes the checksums of two neighbours. *)
LEMMA Scan1Step ==
  ASSUME FinddupInv, Scan1
  PROVE  FinddupInv'
<1>1. /\ pc = "scan1" /\ ix \in Nat /\ ix' = ix + 1 /\ ix' \in Nat
      /\ UNCHANGED <<names, data, pc, ix2, lastix>>
      /\ ListOK(filelist) /\ data \in [Inodes -> Contents \cup {<<>>}]
  BY DEF Scan1, FinddupInv, input
<1>2. CASE filelist' = filelist
  BY <1>1, <1>2, RearrangeStep DEF FinddupInv
<1>3. CASE filelist' = [filelist EXCEPT ![ix - 1] = get_crc(@), ![ix] = get_crc(@)]
  <2>1. filelist \in Seq(Entry) /\ filelist \in [1..Len(filelist) -> Entry]
    BY <1>1, LenProperties DEF ListOK
  <2> DEFINE D == 1..Len(filelist)
             l == filelist
             s == filelist'
  <2>2. \A i \in D : EntryOK(l[i]) /\ EntryOK(get_crc(l[i])) /\ get_crc(l[i]).nameloc = l[i].nameloc
    BY <1>1, GetCrcOK DEF ListOK
  <2>3. \A i \in D : get_crc(l[i]) \in Entry
    BY <2>2 DEF EntryOK
  <2>4. s \in [D -> Entry] /\ \A i \in D : s[i] = l[i] \/ s[i] = get_crc(l[i])
    <3> HIDE DEF D
    <3>1. l \in [D -> Entry] /\ \A i \in D : get_crc(l[i]) \in Entry
      BY <2>1, <2>3 DEF D
    <3>2. ix # ix - 1
      BY <1>1
    <3> QED
      BY <1>3, <3>1, <3>2
  <2>5. \A i \in D : EntryOK(s[i]) /\ s[i].nameloc = l[i].nameloc
    BY <2>2, <2>4
  <2>6. ListOK(s)
    BY <1>1, <2>4, <2>5, ChangeRearranges
  <2> QED
    BY <1>1, <2>6, RearrangeStep DEF FinddupInv
<1> QED
  BY <1>2, <1>3 DEF Scan1

(* The entries of a run of links are flagged. *)
LEMMA MarkLinksStep ==
  ASSUME FinddupInv, MarkLinks
  PROVE  FinddupInv'
<1>1. /\ pc = "links" /\ UNCHANGED <<names, data, pc, ix2, lastix>>
      /\ ListOK(filelist) /\ filelist \in Seq(Entry)
  BY DEF MarkLinks, FinddupInv, input, ListOK
<1> DEFINE D == 1..Len(filelist)
           R == LinkRun \ {ix}
           l == filelist
           s == filelist'
           g(i) == [l[i] EXCEPT !.flags = @ \cup {"LNK"}]
<1>2. s = [j \in D |-> IF j \in R THEN g(j) ELSE l[j]]
  BY DEF MarkLinks, n_files
<1>3. \A i \in D : EntryOK(l[i]) /\ EntryOK(g(i)) /\ g(i).nameloc = l[i].nameloc
  BY <1>1, FlagOK DEF ListOK
<1>4. \A i \in D : l[i] \in Entry /\ g(i) \in Entry
  BY <1>3 DEF EntryOK
<1> HIDE DEF R, g
<1>5. s \in [D -> Entry] /\ \A i \in D : s[i] = l[i] \/ s[i] = g(i)
  BY <1>2, <1>4
<1>6. \A i \in D : EntryOK(s[i]) /\ s[i].nameloc = l[i].nameloc
  BY <1>3, <1>5
<1>7. ListOK(s)
  BY <1>1, <1>5, <1>6, ChangeRearranges
<1> QED
  BY <1>1, <1>7, RearrangeStep DEF FinddupInv

(* A duplicate is flagged and moved behind the last one. *)
LEMMA MarkDupStep ==
  ASSUME FinddupInv, MarkDup
  PROVE  FinddupInv'
<1>1. /\ pc = "dups" /\ ix2 \in Nat /\ lastix \in Nat /\ 1 <= lastix /\ lastix <= ix2
      /\ ix2 <= Len(filelist) /\ ix2' = ix2 + 1
      /\ lastix' = (IF lastix = ix2 THEN lastix ELSE lastix + 1)
      /\ UNCHANGED <<names, data, pc>> /\ ListOK(filelist) /\ filelist \in Seq(Entry)
  BY DEF MarkDup, Candidate, FinddupInv, input, n_files, ListOK
<1> DEFINE l == filelist
           D == 1..Len(filelist)
           g == [l[ix2] EXCEPT !.flags = @ \cup {"DUP"}]
           s == [l EXCEPT ![ix2].flags = @ \cup {"DUP"}]
<1>2. ix2 \in D /\ l \in [D -> Entry]
  BY <1>1, LenProperties
<1>3. EntryOK(l[ix2]) /\ EntryOK(g) /\ g.nameloc = l[ix2].nameloc
  BY <1>1, <1>2, FlagOK DEF ListOK
<1>4. s = [l EXCEPT ![ix2] = g]
  OBVIOUS
<1>5. g \in Entry
  BY <1>3 DEF EntryOK
<1>6. s \in [D -> Entry] /\ s[ix2] = g /\ \A i \in D : i # ix2 => s[i] = l[i]
  <2> HIDE DEF g, D
  <2> QED
    BY <1>2, <1>4, <1>5
<1>7. filelist' = MoveInto(s, lastix, ix2)
  BY DEF MarkDup
<1> HIDE DEF s, g
<1>8. \A i \in D : EntryOK(s[i]) /\ s[i].nameloc = l[i].nameloc
  BY <1>1, <1>3, <1>6 DEF ListOK
<1>9. ListOK(s) /\ Len(s) = Len(l)
  <2>1. ListOK(s)
    BY <1>1, <1>6, <1>8, ChangeRearranges
  <2> QED
    BY <1>1, <2>1 DEF ListOK
<1>10. ListOK(filelist')
  BY <1>1, <1>7, <1>9, MoveRearranges
<1>11. lastix' \in Nat /\ ix2' \in Nat /\ 1 <= lastix' /\ lastix' <= ix2'
  BY <1>1
<1> QED
  BY <1>1, <1>10, <1>11, RearrangeStep

(* Every other step leaves the list as it is. *)
LEMMA OtherSteps ==
  ASSUME FinddupInv,
         \/ PastTheEnd \/ EndLinks \/ NotDup \/ NextGroup \/ EndDups
         \/ CannotRead \/ PrintDup \/ Exit \/ UNCHANGED vars
  PROVE  FinddupInv'
<1>1. UNCHANGED <<names, data, filelist>> /\ ListOK(filelist')
  BY DEF FinddupInv, PastTheEnd, EndLinks, NotDup, NextGroup, EndDups, CannotRead, PrintDup, Exit,
         vars, input
<1>2. /\ ix2' \in Nat /\ lastix' \in Nat
      /\ pc' \in {"build", "scan1"} => ix' \in Nat
      /\ pc' = "dups" => 1 <= lastix' /\ lastix' <= ix2'
  <2>1. CASE PastTheEnd \/ EndDups \/ CannotRead \/ PrintDup \/ Exit
    BY <2>1 DEF FinddupInv, PastTheEnd, EndDups, CannotRead, PrintDup, Exit
  <2>2. CASE EndLinks
    BY <2>2 DEF FinddupInv, EndLinks, BeginGroup
  <2>3. CASE NextGroup
    BY <2>3 DEF FinddupInv, NextGroup, BeginGroup
  <2>4. CASE NotDup
    BY <2>4 DEF FinddupInv, NotDup, Candidate
  <2>5. CASE UNCHANGED vars
    BY <2>5 DEF FinddupInv, vars
  <2> QED
    BY <2>1, <2>2, <2>3, <2>4, <2>5
<1> QED
  BY <1>1, <1>2, RearrangeStep

-----------------------------------------------------------------------------
(* The list starts out empty, with no names read. *)
LEMMA InitFinddup == Init => FinddupInv
<1> SUFFICES ASSUME Init
             PROVE  FinddupInv
  OBVIOUS
<1>1. names = <<>> /\ filelist = <<>> /\ Len(names) = 0 /\ Len(filelist) = 0
  BY DEF Init
<1>2. Listed = {}
  BY <1>1 DEF Listed
<1>3. /\ <<>> \in Seq(Entry) /\ <<>> \in Seq(Inodes \cup {Ignored}) /\ Cardinality({}) = 0
  BY EmptySeq, FS_EmptySet
<1>4. ListOK(filelist)
  BY <1>1, <1>2, <1>3 DEF ListOK
<1>5. data \in [Inodes -> Contents \cup {<<>>}]
  BY DEF Init
<1>6. ix2 \in Nat /\ lastix \in Nat /\ ix \in Nat /\ pc = "build"
  BY DEF Init
<1> QED
  BY <1>1, <1>3, <1>4, <1>5, <1>6 DEF FinddupInv

(* Every step keeps the invariant. *)
LEMMA NextFinddup == FinddupInv /\ [Next]_vars => FinddupInv'
BY IgnoreNameStep, ReadNameStep, SortSteps, Scan1Step, MarkLinksStep, MarkDupStep, OtherSteps
   DEF Next

(* The invariant says that nothing is lost. *)
LEMMA FinddupInvImplies == FinddupInv => NothingLost
<1> SUFFICES ASSUME FinddupInv
             PROVE  NothingLost
  OBVIOUS
<1>1. ListOK(filelist) /\ DOMAIN filelist = 1..Len(filelist) /\ n_files = Len(filelist)
  BY LenProperties DEF FinddupInv, ListOK, n_files
<1>2. NamesIn(filelist) = Listed
  BY <1>1 DEF NamesIn, ListOK
<1>3. \A i \in 1..n_files :
        LET f == filelist[i] IN
        /\ f.inode = names[f.nameloc] /\ f.length = Len(ContentOf(f))
        /\ f.crc32 = IF "CRC" \in f.flags THEN Crc[ContentOf(f)] ELSE 0
  BY <1>1 DEF ListOK, EntryOK, ContentOf
<1>4. n_files = Cardinality(Listed)
  BY <1>1 DEF ListOK
<1> QED
  BY <1>2, <1>3, <1>4 DEF NothingLost

(* Sorting and moving entries loses and repeats no file: the list always   *)
(* holds each name once, with the inode, length and checksum of its file.  *)
THEOREM NothingLostCorrect == Spec => []NothingLost
<1>1. Spec => []FinddupInv
  BY InitFinddup, NextFinddup, PTL DEF Spec
<1> QED
  BY <1>1, FinddupInvImplies, PTL

-----------------------------------------------------------------------------
Has(l, x, i) == x \in l[i].flags
At(d, l, i) == d[l[i].inode]

(* The parts of the invariant of the loop over duplicates.  d is the content *)
(* of each inode, l the list and n its length, x, b and e stand for ix,      *)
(* lastix and ix2, and m for lnkmatch.                                       *)
DupPlace(l, n, b, e) == \A j \in 1..n : Has(l, "DUP", j) => j < e /\ j <= b
LinkNext(l, n, b, e, m) ==
  \A j \in 1..n : b < j /\ (j = e => ~m) /\ Has(l, "LNK", j) => l[j].inode = l[j - 1].inode
LinkMatches(d, l, n, x, e, m) == m /\ e <= n /\ Has(l, "LNK", e) => At(d, l, e) = At(d, l, x)
GroupEqual(d, l, n, x, b) ==
  \A i \in 1..n : x <= i /\ i <= b /\ (i = b => Has(l, "DUP", i)) => At(d, l, i) = At(d, l, x)
LinkIsDup(l, i) == Has(l, "LNK", i) => Has(l, "DUP", i)
LinksDup(l, n, b, e) == \A i \in 1..n : i <= b /\ i < e => LinkIsDup(l, i)
EqualBefore(d, l, i) == Has(l, "DUP", i) => i > 1 /\ At(d, l, i) = At(d, l, i - 1)
DupsEqual(d, l, n, b) == \A i \in 1..n : i < b => EqualBefore(d, l, i)

DupsOK(d, l, n, x, b, e, m) ==
  /\ x \in Nat /\ b \in Nat /\ e \in Nat /\ 0 < x /\ x < b /\ b <= e /\ (~m => b < e)
  /\ DupPlace(l, n, b, e)
  /\ LinkNext(l, n, b, e, m)
  /\ LinkMatches(d, l, n, x, e, m)
  /\ GroupEqual(d, l, n, x, b)
  /\ LinksDup(l, n, b, e)
  /\ DupsEqual(d, l, n, b)

(* A duplicate found where the next one belongs only gets its flag. *)
LEMMA FlagKeeps ==
  ASSUME NEW d, NEW l, NEW s, NEW n \in Nat, NEW x, NEW b, NEW m \in BOOLEAN,
         DupsOK(d, l, n, x, b, b, m), b <= n, At(d, l, b) = At(d, l, x),
         \A i \in 1..n : i # b => s[i] = l[i],
         s[b].inode = l[b].inode, s[b].flags = l[b].flags \cup {"DUP"}
  PROVE  DupsOK(d, s, n, x, b, b + 1, TRUE)
<1>1. x \in Nat /\ b \in Nat /\ 0 < x /\ x < b /\ m
  BY DEF DupsOK
<1>2. \A i \in 1..n : /\ At(d, s, i) = At(d, l, i) /\ s[i].inode = l[i].inode
                      /\ Has(s, "LNK", i) <=> Has(l, "LNK", i)
                      /\ i # b => (Has(s, "DUP", i) <=> Has(l, "DUP", i))
                      /\ Has(s, "DUP", b)
  BY <1>1 DEF At, Has
<1>3. DupPlace(s, n, b, b + 1)
  BY <1>1, <1>2 DEF DupsOK, DupPlace
<1>4. LinkNext(s, n, b, b + 1, TRUE)
  <2> SUFFICES ASSUME NEW j \in 1..n, b < j, j # b + 1, Has(s, "LNK", j)
               PROVE  s[j].inode = s[j - 1].inode
    BY DEF LinkNext
  <2>1. j - 1 \in 1..n /\ j # b
    BY <1>1
  <2>2. l[j].inode = l[j - 1].inode
    BY <1>1, <1>2, <2>1 DEF DupsOK, LinkNext
  <2> QED
    BY <1>2, <2>1, <2>2
<1>5. LinkMatches(d, s, n, x, b + 1, TRUE)
  <2> SUFFICES ASSUME b + 1 <= n, Has(s, "LNK", b + 1)
               PROVE  At(d, s, b + 1) = At(d, s, x)
    BY DEF LinkMatches
  <2>1. b + 1 \in 1..n /\ b \in 1..n /\ x \in 1..n /\ (b + 1) - 1 = b /\ b < b + 1 /\ b + 1 # b
    BY <1>1
  <2>2. l[b + 1].inode = l[b].inode
    BY <1>2, <2>1 DEF DupsOK, LinkNext
  <2>3. At(d, l, b + 1) = At(d, l, x)
    BY <2>2 DEF At
  <2> QED
    BY <1>2, <2>1, <2>3
<1>6. GroupEqual(d, s, n, x, b)
  <2> SUFFICES ASSUME NEW i \in 1..n, x <= i, i <= b, i = b => Has(s, "DUP", i)
               PROVE  At(d, s, i) = At(d, s, x)
    BY DEF GroupEqual
  <2>1. x \in 1..n
    BY <1>1
  <2>2. At(d, l, i) = At(d, l, x)
    BY <1>1, <1>2 DEF DupsOK, GroupEqual
  <2> QED
    BY <1>2, <2>1, <2>2
<1>7. LinksDup(s, n, b, b + 1)
  BY <1>1, <1>2 DEF DupsOK, LinksDup, LinkIsDup
<1>8. DupsEqual(d, s, n, b)
  <2> SUFFICES ASSUME NEW i \in 1..n, i < b, Has(s, "DUP", i)
               PROVE  i > 1 /\ At(d, s, i) = At(d, s, i - 1)
    BY DEF DupsEqual, EqualBefore
  <2>1. i > 1 /\ At(d, l, i) = At(d, l, i - 1)
    BY <1>1, <1>2 DEF DupsOK, DupsEqual, EqualBefore
  <2>2. i - 1 \in 1..n
    BY <2>1
  <2> QED
    BY <1>2, <2>1, <2>2
<1>9. b + 1 \in Nat /\ b <= b + 1
  BY <1>1
<1> QED
  BY <1>1, <1>3, <1>4, <1>5, <1>6, <1>7, <1>8, <1>9 DEF DupsOK

(* A duplicate found further on is moved to where the next one belongs. *)
LEMMA MoveKeeps ==
  ASSUME NEW d, NEW l, NEW s, NEW n \in Nat, NEW x, NEW b, NEW e, NEW m \in BOOLEAN,
         DupsOK(d, l, n, x, b, e, m), b < e, e <= n, At(d, l, e) = At(d, l, x),
         \A i \in 1..n : i < b \/ e < i => s[i] = l[i],
         \A i \in 1..n : b < i /\ i <= e => s[i] = l[i - 1],
         s[b].inode = l[e].inode, s[b].flags = l[e].flags \cup {"DUP"}
  PROVE  DupsOK(d, s, n, x, b + 1, e + 1, TRUE)
<1>1. x \in Nat /\ b \in Nat /\ e \in Nat /\ 0 < x /\ x < b /\ b < e
  BY DEF DupsOK
<1>2. \A i \in 1..n : i < b \/ e < i =>
        /\ At(d, s, i) = At(d, l, i) /\ s[i].inode = l[i].inode
        /\ Has(s, "LNK", i) <=> Has(l, "LNK", i)
        /\ Has(s, "DUP", i) <=> Has(l, "DUP", i)
  BY DEF At, Has
<1>3. \A i \in 1..n : b < i /\ i <= e =>
        /\ At(d, s, i) = At(d, l, i - 1) /\ s[i].inode = l[i - 1].inode
        /\ Has(s, "LNK", i) <=> Has(l, "LNK", i - 1)
        /\ Has(s, "DUP", i) <=> Has(l, "DUP", i - 1)
  BY DEF At, Has
<1>4. At(d, s, b) = At(d, l, e) /\ Has(s, "DUP", b)
  BY DEF At, Has
<1>5. At(d, s, x) = At(d, l, x) /\ x \in 1..n /\ b \in 1..n
  BY <1>1, <1>2
<1>6. DupPlace(s, n, b + 1, e + 1)
  <2> SUFFICES ASSUME NEW j \in 1..n, Has(s, "DUP", j), ~(j <= b + 1)
               PROVE  FALSE
    BY <1>1 DEF DupPlace
  <2>1. CASE j <= e
    <3>1. j - 1 \in 1..n /\ Has(l, "DUP", j - 1) /\ ~(j - 1 <= b)
      BY <1>1, <1>3, <2>1
    <3> QED
      BY <3>1 DEF DupsOK, DupPlace
  <2>2. CASE e < j
    BY <1>1, <1>2, <2>2 DEF DupsOK, DupPlace
  <2> QED
    BY <1>1, <2>1, <2>2
<1>7. LinkNext(s, n, b + 1, e + 1, TRUE)
  <2> SUFFICES ASSUME NEW j \in 1..n, b + 1 < j, j # e + 1, Has(s, "LNK", j)
               PROVE  s[j].inode = s[j - 1].inode
    BY DEF LinkNext
  <2>1. CASE j <= e
    <3>1. /\ j - 1 \in 1..n /\ b < j - 1 /\ j - 1 <= e /\ j - 1 # e
          /\ b < j
      BY <1>1, <2>1
    <3>2. Has(l, "LNK", j - 1) /\ s[j].inode = l[j - 1].inode
      BY <1>3, <2>1, <3>1
    <3>3. l[j - 1].inode = l[(j - 1) - 1].inode
      BY <3>1, <3>2 DEF DupsOK, LinkNext
    <3>4. s[j - 1].inode = l[(j - 1) - 1].inode
      BY <1>3, <3>1
    <3> QED
      BY <3>2, <3>3, <3>4
  <2>2. CASE e + 1 < j
    <3>1. j - 1 \in 1..n /\ e < j - 1 /\ e < j /\ b < j /\ j # e
      BY <1>1, <2>2
    <3>2. Has(l, "LNK", j)
      BY <1>2, <3>1
    <3>3. l[j].inode = l[j - 1].inode
      BY <3>1, <3>2 DEF DupsOK, LinkNext
    <3> QED
      BY <1>2, <3>1, <3>3
  <2> QED
    BY <1>1, <2>1, <2>2
<1>8. LinkMatches(d, s, n, x, e + 1, TRUE)
  <2> SUFFICES ASSUME e + 1 <= n, Has(s, "LNK", e + 1)
               PROVE  At(d, s, e + 1) = At(d, s, x)
    BY DEF LinkMatches
  <2>1. e + 1 \in 1..n /\ (e + 1) - 1 = e /\ b < e + 1 /\ e + 1 # e /\ e < e + 1
    BY <1>1
  <2>2. Has(l, "LNK", e + 1)
    BY <1>2, <2>1
  <2>3. l[e + 1].inode = l[e].inode
    BY <2>1, <2>2 DEF DupsOK, LinkNext
  <2>4. At(d, l, e + 1) = At(d, l, x)
    BY <2>3 DEF At
  <2> QED
    BY <1>2, <1>5, <2>1, <2>4
<1>9. GroupEqual(d, s, n, x, b + 1)
  <2> SUFFICES ASSUME NEW i \in 1..n, x <= i, i <= b + 1, i = b + 1 => Has(s, "DUP", i)
               PROVE  At(d, s, i) = At(d, s, x)
    BY DEF GroupEqual
  <2>1. CASE i < b
    <3>1. At(d, l, i) = At(d, l, x)
      BY <1>1, <2>1 DEF DupsOK, GroupEqual
    <3> QED
      BY <1>2, <1>5, <2>1, <3>1
  <2>2. CASE i = b
    BY <1>4, <1>5, <2>2
  <2>3. CASE i = b + 1
    <3>1. i - 1 = b /\ b < i /\ i <= e /\ x <= b
      BY <1>1, <2>3
    <3>2. Has(l, "DUP", b) /\ At(d, s, i) = At(d, l, b)
      BY <1>3, <2>3, <3>1
    <3>3. At(d, l, b) = At(d, l, x)
      BY <1>1, <1>5, <3>1, <3>2 DEF DupsOK, GroupEqual
    <3> QED
      BY <1>5, <3>2, <3>3
  <2> QED
    BY <1>1, <2>1, <2>2, <2>3
<1>10. LinksDup(s, n, b + 1, e + 1)
  <2> SUFFICES ASSUME NEW i \in 1..n, i <= b + 1, Has(s, "LNK", i)
               PROVE  Has(s, "DUP", i)
    BY DEF LinksDup, LinkIsDup
  <2>1. CASE i < b
    <3>1. Has(l, "DUP", i)
      BY <1>1, <1>2, <2>1 DEF DupsOK, LinksDup, LinkIsDup
    <3> QED
      BY <1>2, <2>1, <3>1
  <2>2. CASE i = b
    BY <1>4, <2>2
  <2>3. CASE i = b + 1
    <3>1. i - 1 = b /\ b < i /\ i <= e
      BY <1>1, <2>3
    <3>2. Has(l, "LNK", b)
      BY <1>3, <3>1
    <3>3. Has(l, "DUP", b)
      BY <1>1, <1>5, <3>2 DEF DupsOK, LinksDup, LinkIsDup
    <3> QED
      BY <1>3, <3>1, <3>3
  <2> QED
    BY <1>1, <2>1, <2>2, <2>3
<1>11. DupsEqual(d, s, n, b + 1)
  <2> SUFFICES ASSUME NEW i \in 1..n, i < b + 1, Has(s, "DUP", i)
               PROVE  i > 1 /\ At(d, s, i) = At(d, s, i - 1)
    BY DEF DupsEqual, EqualBefore
  <2>1. CASE i < b
    <3>1. i > 1 /\ At(d, l, i) = At(d, l, i - 1)
      BY <1>1, <1>2, <2>1 DEF DupsOK, DupsEqual, EqualBefore
    <3>2. i - 1 \in 1..n /\ i - 1 < b
      BY <1>1, <2>1, <3>1
    <3> QED
      BY <1>2, <2>1, <3>1, <3>2
  <2>2. CASE i = b
    <3>1. b - 1 \in 1..n /\ b - 1 < b /\ x <= b - 1 /\ b - 1 <= b /\ b - 1 # b /\ b > 1
      BY <1>1, <1>5
    <3>2. At(d, l, b - 1) = At(d, l, x)
      BY <3>1 DEF DupsOK, GroupEqual
    <3>3. At(d, s, b - 1) = At(d, l, b - 1)
      BY <1>2, <3>1
    <3> QED
      BY <1>4, <2>2, <3>1, <3>2, <3>3
  <2> QED
    BY <1>1, <2>1, <2>2
<1>12. b + 1 \in Nat /\ e + 1 \in Nat /\ x < b + 1 /\ b + 1 <= e + 1
  BY <1>1
<1> QED
  BY <1>1, <1>6, <1>7, <1>8, <1>9, <1>10, <1>11, <1>12 DEF DupsOK

(* An entry that is no duplicate stays where it is. *)
LEMMA SkipKeeps ==
  ASSUME NEW d, NEW l, NEW n \in Nat, NEW x, NEW b, NEW e, NEW m \in BOOLEAN,
         DupsOK(d, l, n, x, b, e, m), e <= n, ~(m /\ Has(l, "LNK", e))
  PROVE  DupsOK(d, l, n, x, b, e + 1, FALSE)
<1>1. x \in Nat /\ b \in Nat /\ e \in Nat /\ 0 < x /\ x < b /\ b <= e /\ (~m => b < e)
  BY DEF DupsOK
<1>2. DupPlace(l, n, b, e + 1)
  BY <1>1 DEF DupsOK, DupPlace
<1>3. LinkNext(l, n, b, e + 1, FALSE)
  <2> SUFFICES ASSUME NEW j \in 1..n, b < j, Has(l, "LNK", j)
               PROVE  l[j].inode = l[j - 1].inode
    BY DEF LinkNext
  <2>1. j = e => ~m
    OBVIOUS
  <2> QED
    BY <2>1 DEF DupsOK, LinkNext
<1>4. LinkMatches(d, l, n, x, e + 1, FALSE)
  BY DEF LinkMatches
<1>5. GroupEqual(d, l, n, x, b) /\ DupsEqual(d, l, n, b)
  BY DEF DupsOK
<1>6. LinksDup(l, n, b, e + 1)
  <2> SUFFICES ASSUME NEW i \in 1..n, i <= b, i < e + 1
               PROVE  LinkIsDup(l, i)
    BY DEF LinksDup
  <2>1. CASE i < e
    BY <2>1 DEF DupsOK, LinksDup
  <2>2. CASE i = e
    BY <1>1, <2>2 DEF LinkIsDup
  <2> QED
    BY <1>1, <2>1, <2>2
<1>7. e + 1 \in Nat /\ b <= e + 1 /\ b < e + 1
  BY <1>1
<1> QED
  BY <1>1, <1>2, <1>3, <1>4, <1>5, <1>6, <1>7 DEF DupsOK

(* The next group begins at lastix, with nothing compared yet. *)
LEMMA GroupKeeps ==
  ASSUME NEW d, NEW l, NEW n \in Nat, NEW x, NEW b, NEW e, NEW m \in BOOLEAN,
         DupsOK(d, l, n, x, b, e, m), e <= n /\ Has(l, "LNK", e) => ~m
  PROVE  DupsOK(d, l, n, b, b + 1, b + 1, TRUE)
<1>1. x \in Nat /\ b \in Nat /\ e \in Nat /\ 0 < x /\ x < b /\ b <= e /\ (~m => b < e)
  BY DEF DupsOK
<1>2. DupPlace(l, n, b + 1, b + 1)
  BY <1>1 DEF DupsOK, DupPlace
<1>3. LinkNext(l, n, b + 1, b + 1, TRUE)
  <2> SUFFICES ASSUME NEW j \in 1..n, b + 1 < j, Has(l, "LNK", j)
               PROVE  l[j].inode = l[j - 1].inode
    BY DEF LinkNext
  <2>1. b < j /\ (j = e => ~m)
    BY <1>1
  <2> QED
    BY <2>1 DEF DupsOK, LinkNext
<1>4. LinkMatches(d, l, n, b, b + 1, TRUE)
  <2> SUFFICES ASSUME b + 1 <= n, Has(l, "LNK", b + 1)
               PROVE  At(d, l, b + 1) = At(d, l, b)
    BY DEF LinkMatches
  <2>1. b + 1 \in 1..n /\ (b + 1) - 1 = b /\ b < b + 1 /\ (b + 1 = e => ~m)
    BY <1>1
  <2>2. l[b + 1].inode = l[b].inode
    BY <2>1 DEF DupsOK, LinkNext
  <2> QED
    BY <2>2 DEF At
<1>5. GroupEqual(d, l, n, b, b + 1)
  <2> SUFFICES ASSUME NEW i \in 1..n, b <= i, i <= b + 1, i = b + 1 => Has(l, "DUP", i)
               PROVE  At(d, l, i) = At(d, l, b)
    BY DEF GroupEqual
  <2>1. i # b + 1
    BY <1>1 DEF DupsOK, DupPlace
  <2> QED
    BY <1>1, <2>1
<1>6. LinksDup(l, n, b + 1, b + 1)
  <2> SUFFICES ASSUME NEW i \in 1..n, i < b + 1
               PROVE  LinkIsDup(l, i)
    BY DEF LinksDup
  <2>1. CASE i < e
    BY <1>1, <2>1 DEF DupsOK, LinksDup
  <2>2. CASE i = e
    BY <1>1, <2>2 DEF LinkIsDup
  <2> QED
    BY <1>1, <2>1, <2>2
<1>7. DupsEqual(d, l, n, b + 1)
  <2> SUFFICES ASSUME NEW i \in 1..n, i < b + 1, Has(l, "DUP", i)
               PROVE  i > 1 /\ At(d, l, i) = At(d, l, i - 1)
    BY DEF DupsEqual, EqualBefore
  <2>1. CASE i < b
    BY <2>1 DEF DupsOK, DupsEqual, EqualBefore
  <2>2. CASE i = b
    <3>1. b - 1 \in 1..n /\ x <= b - 1 /\ b - 1 <= b /\ b - 1 # b /\ b > 1 /\ x <= b
      BY <1>1, <2>2
    <3>2. At(d, l, b - 1) = At(d, l, x)
      BY <3>1 DEF DupsOK, GroupEqual
    <3>3. At(d, l, b) = At(d, l, x)
      BY <2>2, <3>1 DEF DupsOK, GroupEqual
    <3> QED
      BY <2>2, <3>1, <3>2, <3>3
  <2> QED
    BY <1>1, <2>1, <2>2
<1>8. b + 1 \in Nat /\ 0 < b /\ b < b + 1 /\ b + 1 <= b + 1
  BY <1>1
<1> QED
  BY <1>1, <1>2, <1>3, <1>4, <1>5, <1>6, <1>7, <1>8 DEF DupsOK

(* What is known of the links before the first group. *)
LinksOK(l, n) ==
  \A i \in 1..n : /\ ~Has(l, "DUP", i)
                  /\ Has(l, "LNK", i) => i > 1 /\ l[i].inode = l[i - 1].inode

(* The first group begins at the first entry. *)
LEMMA FirstGroup ==
  ASSUME NEW d, NEW l, NEW n \in Nat, LinksOK(l, n)
  PROVE  DupsOK(d, l, n, 1, 2, 2, TRUE)
<1>1. DupPlace(l, n, 2, 2) /\ LinkNext(l, n, 2, 2, TRUE)
  <2>1. DupPlace(l, n, 2, 2)
    BY DEF LinksOK, DupPlace
  <2>2. LinkNext(l, n, 2, 2, TRUE)
    BY DEF LinksOK, LinkNext
  <2> QED
    BY <2>1, <2>2
<1>2. LinkMatches(d, l, n, 1, 2, TRUE)
  <2> SUFFICES ASSUME 2 <= n, Has(l, "LNK", 2)
               PROVE  At(d, l, 2) = At(d, l, 1)
    BY DEF LinkMatches
  <2>1. 2 \in 1..n /\ 2 - 1 = 1
    OBVIOUS
  <2>2. l[2].inode = l[1].inode
    BY <2>1 DEF LinksOK
  <2> QED
    BY <2>2 DEF At
<1>3. GroupEqual(d, l, n, 1, 2) /\ LinksDup(l, n, 2, 2) /\ DupsEqual(d, l, n, 2)
  BY DEF LinksOK, GroupEqual, LinksDup, LinkIsDup, DupsEqual, EqualBefore
<1>4. 1 \in Nat /\ 2 \in Nat /\ 0 < 1 /\ 1 < 2 /\ 2 <= 2
  OBVIOUS
<1> QED
  BY <1>1, <1>2, <1>3, <1>4 DEF DupsOK

-----------------------------------------------------------------------------
(* The least element of a nonempty set of naturals. *)
LEMMA LeastIndex ==
  ASSUME NEW T \in SUBSET Nat, T # {}
  PROVE  \E x \in T : \A y \in T : x <= y
<1>1. \E x \in T : \A y \in T : ~ (<<y, x>> \in OpToRel(<, Nat))
  BY NatLessThanWellFounded, WFMin
<1>2. \A x, y \in Nat : <<y, x>> \in OpToRel(<, Nat) <=> y < x
  BY DEF OpToRel
<1>3. \A x, y \in T : ~(y < x) => x <= y
  OBVIOUS
<1> QED
  BY <1>1, <1>2, <1>3

(* Text files of the same length that fullcmp finds equal are equal. *)
LEMMA FullcmpEqual ==
  ASSUME NEW a \in Seq(0..255), NEW b \in Seq(0..255), Len(a) = Len(b),
         \A i \in DOMAIN a : a[i] < 128, fullcmp(a, b)
  PROVE  a = b
<1> DEFINE n == Len(a)
<1>1. n \in Nat /\ DOMAIN a = 1..n /\ DOMAIN b = 1..n /\ a \in [1..n -> 0..255] /\ b \in [1..n -> 0..255]
  <2>1. PICK B : B = 0..255
    OBVIOUS
  <2>2. a \in Seq(B) /\ b \in Seq(B)
    BY <2>1
  <2>3. /\ Len(a) \in Nat /\ DOMAIN a = 1..Len(a) /\ a \in [1..Len(a) -> B]
        /\ DOMAIN b = 1..Len(b) /\ b \in [1..Len(b) -> B]
    BY <2>2, LenProperties
  <2> QED
    BY <2>1, <2>3
<1>2. PICK k \in 1..(n + 1) : /\ k <= n => a[k] = 255
                              /\ \A j \in 1..(k - 1) : j <= Len(b) /\ a[j] = b[j]
  BY DEF fullcmp
<1> HIDE DEF n
<1>3. ~(k <= n)
  BY <1>1, <1>2
<1>4. k - 1 = n
  BY <1>1, <1>2, <1>3
<1>5. \A j \in 1..n : a[j] = b[j]
  BY <1>2, <1>4
<1> QED
  BY <1>1, <1>5

(* A difference stored in an int. *)
LEMMA AsIntType ==
  ASSUME Contents # {}, NEW v \in Int
  PROVE  AsInt(v) \in Int
<1>1. PICK c : c \in Contents
  OBVIOUS
<1>2. Width \in Nat /\ Width - 1 \in Nat /\ Crc[c] \in 0..(2^Width - 1)
  BY <1>1, FinddupAssumption
<1>3. 2^Width \in Int /\ 2^(Width - 1) \in Int
  BY <1>2
<1>4. 2^Width > 0
  BY <1>2, <1>3
<1>5. v % 2^Width \in Int
  BY <1>3, <1>4
<1> QED
  BY <1>3, <1>5 DEF AsInt

(* Lengths that differ in an int decide the comparison. *)
LEMMA CompLengths ==
  ASSUME NEW f, NEW g, AsInt(f.length - g.length) # 0
  PROVE  comp1(f, g) = AsInt(f.length - g.length)
<1> DEFINE diff == <<AsInt(f.length - g.length), AsInt(f.crc32 - g.crc32), AsInt(f.inode - g.inode)>>
           differ == {i \in 1..3 : diff[i] # 0}
<1>1. 1 \in differ /\ \A i \in differ : 1 <= i /\ i \in Int
  BY DEF AsInt
<1>2. comp1(f, g) = IF differ = {} THEN 0 ELSE diff[Min(differ)]
  BY DEF comp1
<1>3. diff[1] = AsInt(f.length - g.length)
  OBVIOUS
<1> HIDE DEF diff, differ
<1>4. Min(differ) = 1
  <2>1. \E i \in differ : \A j \in differ : i <= j
    BY <1>1
  <2>2. Min(differ) \in differ /\ \A j \in differ : Min(differ) <= j
    BY <2>1 DEF Min
  <2> QED
    BY <1>1, <2>2
<1> QED
  BY <1>1, <1>2, <1>3, <1>4

(* The comparison looks at three fields only. *)
LEMMA CompFields ==
  ASSUME NEW f, NEW g, NEW f2, NEW g2,
         f.length = f2.length, f.crc32 = f2.crc32, f.inode = f2.inode,
         g.length = g2.length, g.crc32 = g2.crc32, g.inode = g2.inode
  PROVE  comp1(f, g) = comp1(f2, g2)
BY DEF comp1

(* In a sorted list each entry is in order with all later ones. *)
LEMMA SortedInOrder ==
  ASSUME NEW n \in Nat, NEW s,
         \A i, j, k \in 1..n : comp1(s[i], s[j]) <= 0 /\ comp1(s[j], s[k]) <= 0
                               => comp1(s[i], s[k]) <= 0,
         \A i \in 1..(n - 1) : comp1(s[i], s[i + 1]) <= 0
  PROVE  \A i, j \in 1..n : i < j => comp1(s[i], s[j]) <= 0
<1> SUFFICES ASSUME NEW i \in 1..n, NEW j \in 1..n, i < j, ~(comp1(s[i], s[j]) <= 0)
             PROVE  FALSE
  OBVIOUS
<1> DEFINE T == {k \in 1..n : i < k /\ ~(comp1(s[i], s[k]) <= 0)}
<1>1. T \in SUBSET Nat /\ T # {}
  OBVIOUS
<1>2. PICK k \in T : \A y \in T : k <= y
  BY <1>1, LeastIndex
<1>3. k \in 1..n /\ i < k /\ ~(comp1(s[i], s[k]) <= 0)
  OBVIOUS
<1>4. k - 1 \in 1..n /\ k - 1 \in 1..(n - 1) /\ (k - 1) + 1 = k /\ k - 1 \notin T /\ i <= k - 1
  BY <1>2, <1>3
<1>5. comp1(s[k - 1], s[k]) <= 0
  BY <1>4
<1>6. CASE k - 1 = i
  BY <1>3, <1>5, <1>6
<1>7. CASE i < k - 1
  <2>1. comp1(s[i], s[k - 1]) <= 0
    BY <1>4, <1>7
  <2> QED
    BY <1>3, <1>4, <1>5, <2>1
<1> QED
  BY <1>4, <1>6, <1>7

LengthsTogether(l) ==
  \A i, j, k \in 1..Len(l) :
    i < j /\ j < k /\ l[i].length = l[k].length => l[j].length = l[i].length

(* What the first sort finds at a name. *)
Named(m) == [length |-> Len(Content(m)), crc32 |-> 0, inode |-> names[m]]

(* The first sort puts files of equal length together. *)
LEMMA FirstSort ==
  ASSUME data \in [Inodes -> Contents \cup {<<>>}], FirstSortOrders,
         NEW l, ListOK(l), \A i \in 1..Len(l) : l[i].flags = {}, NEW s \in SORT(l)
  PROVE  LengthsTogether(s) /\ \A i \in 1..Len(s) : s[i].flags = {}
<1> DEFINE n == Len(l)
<1>1. l \in Seq(Entry) /\ n \in Nat /\ DOMAIN l = 1..n
  BY LenProperties DEF ListOK
<1>2. ListOK(s) /\ Len(s) = n
  <2>1. ListOK(s)
    BY SortRearranges
  <2> QED
    BY <2>1 DEF ListOK
<1>3. PICK p \in Bijection(DOMAIN l, DOMAIN l) : s = [i \in DOMAIN l |-> l[p[i]]]
  BY DEF SORT
<1>4. p \in [1..n -> 1..n]
  <2> DEFINE D == DOMAIN l
  <2>1. p \in Bijection(D, D) /\ D = 1..n
    BY <1>1, <1>3
  <2> HIDE DEF D
  <2>2. p \in [D -> D]
    BY <2>1 DEF Bijection, Injection
  <2> QED
    BY <2>1, <2>2
<1> HIDE DEF n
<1>5. \A i \in 1..n : s[i].flags = {}
  BY <1>1, <1>3, <1>4 DEF n
<1>6. \A r : ListOK(r) /\ Len(r) = n /\ (\A i \in 1..n : r[i].flags = {}) =>
        \A i \in 1..n : LET m == r[i].nameloc IN
          /\ m \in Listed /\ r[i].length = Named(m).length
          /\ r[i].crc32 = Named(m).crc32 /\ r[i].inode = Named(m).inode
  <2> SUFFICES ASSUME NEW r, ListOK(r), Len(r) = n, \A i \in 1..n : r[i].flags = {},
                      NEW i \in 1..n
               PROVE  LET m == r[i].nameloc IN
                      /\ m \in Listed /\ r[i].length = Named(m).length
                      /\ r[i].crc32 = Named(m).crc32 /\ r[i].inode = Named(m).inode
    OBVIOUS
  <2>1. EntryOK(r[i]) /\ r[i].nameloc \in Listed /\ "CRC" \notin r[i].flags
    BY DEF ListOK
  <2> QED
    BY <2>1 DEF EntryOK, Named, Content
<1> DEFINE F == [m \in Listed |-> Named(m)]
<1>7. IsOrdered(F) /\ DOMAIN F = Listed
  BY DEF FirstSortOrders, Named
<1>8. \A r : ListOK(r) /\ Len(r) = n /\ (\A i \in 1..n : r[i].flags = {}) =>
        \A i, j \in 1..n : comp1(r[i], r[j]) = comp1(F[r[i].nameloc], F[r[j].nameloc])
  <2> SUFFICES ASSUME NEW r, ListOK(r), Len(r) = n, \A i \in 1..n : r[i].flags = {},
                      NEW i \in 1..n, NEW j \in 1..n
               PROVE  comp1(r[i], r[j]) = comp1(F[r[i].nameloc], F[r[j].nameloc])
    OBVIOUS
  <2>1. \A k \in {i, j} : LET m == r[k].nameloc IN
          /\ m \in Listed /\ r[k].length = F[m].length
          /\ r[k].crc32 = F[m].crc32 /\ r[k].inode = F[m].inode
    BY <1>6
  <2> HIDE DEF F
  <2> QED
    BY <2>1, CompFields
<1> HIDE DEF F
<1>9. \A r : ListOK(r) /\ Len(r) = n /\ (\A i \in 1..n : r[i].flags = {}) =>
        \A i, j \in 1..n :
          /\ comp1(r[i], r[j]) < 0 <=> comp1(r[j], r[i]) > 0
          /\ \A k \in 1..n : comp1(r[i], r[j]) <= 0 /\ comp1(r[j], r[k]) <= 0
                             => comp1(r[i], r[k]) <= 0
  <2> SUFFICES ASSUME NEW r, ListOK(r), Len(r) = n, \A i \in 1..n : r[i].flags = {},
                      NEW i \in 1..n, NEW j \in 1..n, NEW k \in 1..n
               PROVE  /\ comp1(r[i], r[j]) < 0 <=> comp1(r[j], r[i]) > 0
                      /\ comp1(r[i], r[j]) <= 0 /\ comp1(r[j], r[k]) <= 0
                             => comp1(r[i], r[k]) <= 0
    OBVIOUS
  <2>1. r[i].nameloc \in DOMAIN F /\ r[j].nameloc \in DOMAIN F /\ r[k].nameloc \in DOMAIN F
    BY <1>6, <1>7
  <2>2. /\ comp1(r[i], r[j]) = comp1(F[r[i].nameloc], F[r[j].nameloc])
        /\ comp1(r[j], r[i]) = comp1(F[r[j].nameloc], F[r[i].nameloc])
        /\ comp1(r[j], r[k]) = comp1(F[r[j].nameloc], F[r[k].nameloc])
        /\ comp1(r[i], r[k]) = comp1(F[r[i].nameloc], F[r[k].nameloc])
    BY <1>8
  <2> QED
    BY <1>7, <2>1, <2>2 DEF IsOrdered
<1>10. \A i \in 1..n : l[i].flags = {}
  BY DEF n
<1>11. IsOrdered(l)
  BY <1>1, <1>9, <1>10 DEF IsOrdered, n
<1>12. \A i \in 1..(n - 1) : comp1(s[i], s[i + 1]) <= 0
  BY <1>11 DEF SORT, n
<1>13. \A i, j \in 1..n : i < j => comp1(s[i], s[j]) <= 0
  BY <1>1, <1>2, <1>5, <1>9, <1>12, SortedInOrder DEF n
<1>14. ASSUME NEW i \in 1..n, NEW j \in 1..n, NEW k \in 1..n, i < j, j < k,
              s[i].length = s[k].length, s[j].length # s[i].length
       PROVE  FALSE
  <2> DEFINE m(q) == s[q].nameloc
  <2>1. \A q \in {i, j, k} : m(q) \in Listed /\ s[q].length = Len(Content(m(q)))
    BY <1>2, <1>5, <1>6 DEF Named
  <2>2. PICK x, y : /\ s[i].length = x /\ s[k].length = x /\ s[j].length = y /\ x # y
                    /\ AsInt(x - y) # 0 /\ AsInt(y - x) # 0
    <3>1. m(i) \in Listed /\ m(j) \in Listed
      BY <2>1
    <3>2. s[i].length = Len(Content(m(i))) /\ s[j].length = Len(Content(m(j)))
      BY <2>1
    <3> HIDE DEF m
    <3>3. /\ AsInt(s[i].length - s[j].length) # 0
          /\ AsInt(s[j].length - s[i].length) # 0
      <4>1. \A u, v \in Listed : AsInt(Len(Content(u)) - Len(Content(v))) = 0
                                 => Len(Content(u)) = Len(Content(v))
        BY DEF FirstSortOrders
      <4> QED
        BY <1>14, <3>1, <3>2, <4>1
    <3> QED
      BY <1>14, <3>3
  <2>3. /\ comp1(s[i], s[j]) = AsInt(x - y) /\ comp1(s[k], s[j]) = AsInt(x - y)
        /\ comp1(s[j], s[k]) = AsInt(y - x)
    BY <2>2, CompLengths
  <2>4. AsInt(x - y) \in Int /\ AsInt(y - x) \in Int
    <3>1. EntryOK(s[i]) /\ EntryOK(s[j])
      BY <1>2, <1>14 DEF ListOK
    <3>2. data[s[i].inode] \in Contents /\ data[s[j].inode] \in Contents
      BY <3>1 DEF EntryOK, Entry
    <3>3. \A c \in Contents : Len(c) \in Nat
      BY FinddupAssumption, LenProperties
    <3>4. s[i].length \in Nat /\ s[j].length \in Nat
      BY <3>1, <3>2, <3>3 DEF EntryOK
    <3>5. x \in Nat /\ y \in Nat
      BY <2>2, <3>4
    <3> QED
      BY <3>2, <3>5, AsIntType
  <2>5. comp1(s[i], s[j]) <= 0 /\ comp1(s[j], s[k]) <= 0
    BY <1>13, <1>14
  <2>6. comp1(s[k], s[j]) > 0
    <3>1. comp1(s[j], s[k]) < 0
      BY <2>2, <2>3, <2>4, <2>5
    <3> QED
      BY <1>2, <1>5, <1>9, <3>1
  <2> QED
    BY <2>2, <2>3, <2>4, <2>5, <2>6
<1> QED
  BY <1>2, <1>5, <1>14 DEF LengthsTogether

(* Files that share their length with another one have a checksum. *)
Summed(l, n) ==
  \A i, j \in 1..n : i # j /\ l[i].length = l[j].length => Has(l, "CRC", i)

ScannedOK(l, n, x) ==
  /\ x \in Nat /\ 1 < x
  /\ \A i \in 1..n : l[i].flags \subseteq {"CRC"}
  /\ \A i \in 2..n : i < x /\ l[i - 1].length = l[i].length
                     => Has(l, "CRC", i - 1) /\ Has(l, "CRC", i)

(* A list whose entries are those of another one in another order, with the *)
(* checksums kept.                                                          *)
LEMMA SummedPermuted ==
  ASSUME NEW n \in Nat, NEW l, NEW s, Summed(l, n),
         NEW p \in [1..n -> 1..n], \A i, j \in 1..n : p[i] = p[j] => i = j,
         \A i \in 1..n : s[i].length = l[p[i]].length /\ (Has(l, "CRC", p[i]) => Has(s, "CRC", i))
  PROVE  Summed(s, n)
<1> SUFFICES ASSUME NEW i \in 1..n, NEW j \in 1..n, i # j, s[i].length = s[j].length
             PROVE  Has(s, "CRC", i)
  BY DEF Summed
<1>1. p[i] \in 1..n /\ p[j] \in 1..n /\ p[i] # p[j]
  OBVIOUS
<1>2. l[p[i]].length = l[p[j]].length
  OBVIOUS
<1>3. Has(l, "CRC", p[i])
  BY <1>1, <1>2 DEF Summed
<1> QED
  BY <1>3

(* After scan1 all of them have one, if it has found them together. *)
LEMMA ScannedAll ==
  ASSUME NEW l, NEW n \in Nat, n = Len(l), NEW x, ScannedOK(l, n, x), n < x, LengthsTogether(l)
  PROVE  Summed(l, n)
<1>1. ASSUME NEW i \in 1..n, NEW j \in 1..n, i < j, l[i].length = l[j].length
      PROVE  Has(l, "CRC", i) /\ Has(l, "CRC", j)
  <2>1. i + 1 \in 2..n /\ (i + 1) - 1 = i /\ i + 1 < x /\ i + 1 <= j /\ i + 1 \in 1..n
    BY <1>1 DEF ScannedOK
  <2>2. j \in 2..n /\ j < x /\ j - 1 \in 1..n /\ i <= j - 1
    BY <1>1 DEF ScannedOK
  <2>3. l[i + 1].length = l[i].length
    <3>1. CASE i + 1 = j
      BY <1>1, <3>1
    <3>2. CASE i + 1 < j
      <4>1. i < i + 1
        OBVIOUS
      <4> QED
        BY <1>1, <2>1, <3>2, <4>1 DEF LengthsTogether
    <3> QED
      BY <2>1, <3>1, <3>2
  <2>4. l[j - 1].length = l[j].length
    <3>1. CASE i = j - 1
      BY <1>1, <3>1
    <3>2. CASE i < j - 1
      <4>1. j - 1 < j
        OBVIOUS
      <4>2. l[j - 1].length = l[i].length
        BY <1>1, <2>2, <3>2, <4>1 DEF LengthsTogether
      <4> QED
        BY <1>1, <4>2
    <3> QED
      BY <2>2, <3>1, <3>2
  <2>5. Has(l, "CRC", (i + 1) - 1)
    BY <2>1, <2>3 DEF ScannedOK
  <2>6. Has(l, "CRC", j)
    BY <2>2, <2>4 DEF ScannedOK
  <2> QED
    BY <2>1, <2>5, <2>6
<1> QED
  <2> SUFFICES ASSUME NEW i \in 1..n, NEW j \in 1..n, i # j, l[i].length = l[j].length
               PROVE  Has(l, "CRC", i)
    BY DEF Summed
  <2>1. CASE i < j
    BY <1>1, <2>1
  <2>2. CASE j < i
    BY <1>1, <2>2
  <2> QED
    BY <2>1, <2>2

-----------------------------------------------------------------------------
(* The FILE line that line k of q belongs to. *)
FileLineIn(q, k) == Max({j \in 1..k : q[j][1] = "FILE"} \cup {0})

(* Every line belongs to the FILE line of a file with the same content. *)
PrintedOK(q) ==
  \A k \in 1..Len(q) : /\ FileLineIn(q, k) \in 1..k
                       /\ Content(q[k][2]) = Content(q[FileLineIn(q, k)][2])

Line == {"FILE", "DUP"} \X Nat

(* A line that is appended changes nothing about the lines before it. *)
LEMMA EarlierLines ==
  ASSUME NEW q \in Seq(Line), NEW y \in Line
  PROVE  /\ Append(q, y) \in Seq(Line) /\ Len(q) \in Nat /\ Len(Append(q, y)) = Len(q) + 1
         /\ Append(q, y)[Len(q) + 1] = y
         /\ \A k \in 1..Len(q) : /\ Append(q, y)[k] = q[k]
                                 /\ FileLineIn(Append(q, y), k) = FileLineIn(q, k)
<1> DEFINE n == Len(q)
           r == Append(q, y)
<1>1. /\ r \in Seq(Line) /\ n \in Nat /\ Len(r) = n + 1 /\ r[n + 1] = y
      /\ \A k \in 1..n : r[k] = q[k]
  BY AppendProperties, LenProperties
<1>2. \A k \in 1..n : {j \in 1..k : r[j][1] = "FILE"} = {j \in 1..k : q[j][1] = "FILE"}
  <2> HIDE DEF n, r
  <2> QED
    BY <1>1
<1> QED
  BY <1>1, <1>2 DEF FileLineIn

(* A DUP line that follows a line about the same content is right. *)
LEMMA AppendDup ==
  ASSUME NEW q \in Seq(Line), q # <<>>, PrintedOK(q), NEW m \in Nat,
         Content(m) = Content(q[FileLineIn(q, Len(q))][2])
  PROVE  LET r == Append(q, <<"DUP", m>>) IN
         /\ r \in Seq(Line) /\ r # <<>> /\ PrintedOK(r)
         /\ Content(r[FileLineIn(r, Len(r))][2]) = Content(m)
<1> DEFINE n == Len(q)
           y == <<"DUP", m>>
           r == Append(q, y)
<1>1. y \in Line /\ y[1] # "FILE" /\ y[2] = m
  BY DEF Line
<1> HIDE DEF y
<1>2. /\ r \in Seq(Line) /\ n \in Nat /\ Len(r) = n + 1 /\ r[n + 1] = y
      /\ \A k \in 1..n : r[k] = q[k] /\ FileLineIn(r, k) = FileLineIn(q, k)
  BY <1>1, EarlierLines
<1>3. n \in 1..n
  BY <1>2, EmptySeq DEF n
<1> HIDE DEF n, r
<1>4. FileLineIn(r, n + 1) = FileLineIn(q, n)
  <2>1. {j \in 1..(n + 1) : r[j][1] = "FILE"} = {j \in 1..n : q[j][1] = "FILE"}
    BY <1>1, <1>2
  <2> QED
    BY <2>1 DEF FileLineIn
<1>5. \A k \in 1..n : /\ FileLineIn(q, k) \in 1..k
                      /\ Content(q[k][2]) = Content(q[FileLineIn(q, k)][2])
  BY DEF PrintedOK, n
<1>6. PrintedOK(r)
  <2> SUFFICES ASSUME NEW k \in 1..(n + 1)
               PROVE  /\ FileLineIn(r, k) \in 1..k
                      /\ Content(r[k][2]) = Content(r[FileLineIn(r, k)][2])
    BY <1>2 DEF PrintedOK
  <2>1. CASE k \in 1..n
    <3>1. FileLineIn(q, k) \in 1..n
      BY <1>2, <1>5, <2>1
    <3> QED
      BY <1>2, <1>5, <2>1, <3>1
  <2>2. CASE k = n + 1
    <3>1. FileLineIn(q, n) \in 1..n /\ FileLineIn(r, k) = FileLineIn(q, n)
      BY <1>3, <1>4, <1>5, <2>2
    <3>2. r[FileLineIn(r, k)] = q[FileLineIn(q, n)] /\ r[k] = y
      BY <1>2, <2>2, <3>1
    <3>3. FileLineIn(r, k) \in 1..k
      BY <1>2, <2>2, <3>1
    <3> QED
      BY <1>1, <3>2, <3>3 DEF n
  <2> QED
    BY <1>2, <2>1, <2>2
<1>7. Content(r[FileLineIn(r, Len(r))][2]) = Content(m)
  <2>1. n + 1 \in 1..Len(r)
    BY <1>2
  <2>2. Content(r[n + 1][2]) = Content(r[FileLineIn(r, n + 1)][2])
    BY <1>6, <2>1 DEF PrintedOK
  <2> QED
    BY <1>1, <1>2, <2>2
<1>8. r # <<>>
  BY <1>2, EmptySeq
<1> QED
  BY <1>2, <1>6, <1>7, <1>8 DEF r, y

(* A FILE line begins a group. *)
LEMMA AppendFile ==
  ASSUME NEW q \in Seq(Line), PrintedOK(q), NEW m \in Nat
  PROVE  LET r == Append(q, <<"FILE", m>>) IN
         /\ r \in Seq(Line) /\ r # <<>> /\ PrintedOK(r)
         /\ Content(r[FileLineIn(r, Len(r))][2]) = Content(m)
<1> DEFINE n == Len(q)
           y == <<"FILE", m>>
           r == Append(q, y)
<1>1. y \in Line /\ y[1] = "FILE" /\ y[2] = m
  BY DEF Line
<1> HIDE DEF y
<1>2. /\ r \in Seq(Line) /\ n \in Nat /\ Len(r) = n + 1 /\ r[n + 1] = y
      /\ \A k \in 1..n : r[k] = q[k] /\ FileLineIn(r, k) = FileLineIn(q, k)
  BY <1>1, EarlierLines
<1> HIDE DEF n, r
<1>3. FileLineIn(r, n + 1) = n + 1
  <2> DEFINE S == {j \in 1..(n + 1) : r[j][1] = "FILE"} \cup {0}
  <2>1. n + 1 \in S /\ \A j \in S : j <= n + 1 /\ j \in Nat
    BY <1>1, <1>2
  <2> HIDE DEF S
  <2>2. \E x \in S : \A z \in S : x >= z
    BY <1>2, <2>1
  <2>3. Max(S) \in S /\ \A z \in S : Max(S) >= z
    BY <2>2 DEF Max
  <2>4. Max(S) = n + 1
    BY <1>2, <2>1, <2>3
  <2> QED
    BY <2>4 DEF FileLineIn, S
<1>4. \A k \in 1..n : /\ FileLineIn(q, k) \in 1..k
                      /\ Content(q[k][2]) = Content(q[FileLineIn(q, k)][2])
  BY DEF PrintedOK, n
<1>5. PrintedOK(r)
  <2> SUFFICES ASSUME NEW k \in 1..(n + 1)
               PROVE  /\ FileLineIn(r, k) \in 1..k
                      /\ Content(r[k][2]) = Content(r[FileLineIn(r, k)][2])
    BY <1>2 DEF PrintedOK
  <2>1. CASE k \in 1..n
    <3>1. FileLineIn(q, k) \in 1..n
      BY <1>2, <1>4, <2>1
    <3> QED
      BY <1>2, <1>4, <2>1, <3>1
  <2>2. CASE k = n + 1
    BY <1>2, <1>3, <2>2
  <2> QED
    BY <1>2, <2>1, <2>2
<1>6. Content(r[FileLineIn(r, Len(r))][2]) = Content(m)
  BY <1>1, <1>2, <1>3
<1>7. r # <<>>
  BY <1>2, EmptySeq
<1> QED
  BY <1>2, <1>5, <1>6, <1>7 DEF r, y

ListFinal(d, l, n) == \A i \in 1..n : LinkIsDup(l, i) /\ EqualBefore(d, l, i)

(* What scan3 knows of the entry before place x. *)
HeadOK(d, l, n, x, im, h) ==
  (1 < x /\ x <= n + 1) =>
     IF Has(l, "DUP", x - 1)
     THEN /\ im
          /\ IF h = None
             THEN dups # <<>> /\ Content(dups[FileLineIn(dups, Len(dups))][2]) = At(d, l, x - 1)
             ELSE Content(h) = At(d, l, x - 1)
     ELSE Has(l, "CRC", x - 1) => ~im

PrintOK(d, l, n) ==
  /\ ix \in Nat /\ 0 < ix /\ headfn \in Nat
  /\ ListFinal(d, l, n)
  /\ HeadOK(d, l, n, ix, inmatch, headfn)

Ordinary == Text /\ FirstSortOrders

DuplicatesInv ==
  /\ lnkmatch \in BOOLEAN /\ inmatch \in BOOLEAN /\ linkflag \in BOOLEAN
  /\ pc \notin {"scan3", "done"} => dups = <<>>
  /\ pc = "build" => ix = 2 /\ \A i \in 1..n_files : filelist[i].flags = {}
  /\ pc = "scan1" => /\ ScannedOK(filelist, n_files, ix)
                     /\ FirstSortOrders => LengthsTogether(filelist)
  /\ pc \in {"links", "dups", "scan3"} /\ FirstSortOrders => Summed(filelist, n_files)
  /\ pc = "links" => ix \in Nat /\ 0 < ix /\ LinksOK(filelist, n_files)
  /\ pc = "dups" /\ Ordinary => DupsOK(data, filelist, n_files, ix, lastix, ix2, lnkmatch)
  /\ pc = "scan3" /\ Ordinary => PrintOK(data, filelist, n_files)
  /\ Ordinary => dups \in Seq(Line) /\ PrintedOK(dups)

-----------------------------------------------------------------------------
(* What holds of every entry. *)
LEMMA Entries ==
  ASSUME FinddupInv
  PROVE  /\ n_files \in Nat /\ n_files = Len(filelist) /\ DOMAIN filelist = 1..n_files
         /\ filelist \in [1..n_files -> Entry]
         /\ \A i \in 1..n_files : EntryOK(filelist[i]) /\ filelist[i].nameloc \in Listed
BY LenProperties DEF FinddupInv, ListOK, n_files

(* The conditions on the input change only when a name is read. *)
LEMMA SameInput ==
  ASSUME UNCHANGED <<names, data>>
  PROVE  /\ (Text' <=> Text) /\ (FirstSortOrders' <=> FirstSortOrders)
         /\ (Ordinary' <=> Ordinary)
         /\ \A q : PrintedOK(q)' <=> PrintedOK(q)
<1>1. Listed' = Listed
  BY DEF Listed
<1>2. Text' <=> Text
  BY <1>1 DEF Text
<1>3. \A m : Content(m)' = Content(m)
  BY DEF Content
<1>4. FirstSortOrders' <=> FirstSortOrders
  BY <1>1 DEF FirstSortOrders, Content
<1>5. \A q : PrintedOK(q)' <=> PrintedOK(q)
  BY DEF PrintedOK, Content
<1> QED
  BY <1>2, <1>4, <1>5 DEF Ordinary

-----------------------------------------------------------------------------
(* While names are read no entry has a flag. *)
LEMMA BuildDup ==
  ASSUME FinddupInv, DuplicatesInv, (\E x \in Inodes : ReadName(x)) \/ IgnoreName
  PROVE  DuplicatesInv'
<1>1. /\ pc = "build" /\ pc' = pc /\ dups' = dups /\ dups = <<>> /\ ix' = ix /\ ix = 2
      /\ UNCHANGED <<lnkmatch, inmatch, linkflag>>
      /\ \A i \in 1..n_files : filelist[i].flags = {}
  BY DEF DuplicatesInv, ReadName, IgnoreName
<1>2. filelist \in Seq(Entry) /\ n_files \in Nat /\ n_files = Len(filelist)
  BY LenProperties DEF FinddupInv, ListOK, n_files
<1>3. \A i \in 1..n_files' : filelist'[i].flags = {}
  <2>1. CASE filelist' = filelist
    BY <1>1, <2>1 DEF n_files
  <2>2. ASSUME NEW x \in Inodes, ReadName(x)
        PROVE  \A i \in 1..n_files' : filelist'[i].flags = {}
    <3>1. PICK e : filelist' = Append(filelist, e) /\ e.flags = {}
      BY <2>2 DEF ReadName
    <3>2. /\ Len(filelist') = n_files + 1 /\ filelist'[n_files + 1] = e
          /\ \A i \in 1..n_files : filelist'[i] = filelist[i]
      BY <1>2, <3>1, AppendProperties
    <3> QED
      BY <1>1, <1>2, <3>1, <3>2 DEF n_files
  <2> QED
    BY <2>1, <2>2 DEF IgnoreName
<1>4. dups' \in Seq(Line) /\ PrintedOK(dups)'
  BY <1>1, EmptySeq DEF PrintedOK
<1> QED
  BY <1>1, <1>3, <1>4 DEF DuplicatesInv

(* The first sort puts files of equal length together. *)
LEMMA EndOfNamesDup ==
  ASSUME FinddupInv, FinddupInv', DuplicatesInv, EndOfNames
  PROVE  DuplicatesInv'
<1>1. /\ pc = "build" /\ pc' = "scan1" /\ dups' = dups /\ dups = <<>> /\ ix' = 2
      /\ UNCHANGED <<names, data, lnkmatch, inmatch, linkflag>>
      /\ filelist' \in SORT(filelist)
      /\ \A i \in 1..n_files : filelist[i].flags = {}
  BY DEF DuplicatesInv, EndOfNames, input
<1>2. FirstSortOrders => LengthsTogether(filelist')
  BY <1>1, FirstSort DEF FinddupInv, n_files
<1>3. \A i \in 1..n_files' : filelist'[i].flags = {}
  <2>1. PICK p \in Bijection(DOMAIN filelist, DOMAIN filelist) :
          filelist' = [i \in DOMAIN filelist |-> filelist[p[i]]]
    BY <1>1 DEF SORT
  <2> DEFINE D == DOMAIN filelist
  <2>2. p \in [D -> D]
    BY <2>1 DEF Bijection, Injection
  <2>3. D = 1..n_files /\ DOMAIN filelist' = 1..n_files'
    BY Entries, LenProperties DEF FinddupInv, ListOK, n_files
  <2>4. D = 1..n_files'
    BY <2>1, <2>3
  <2>5. \A i \in D : p[i] \in D /\ filelist'[i] = filelist[p[i]]
    BY <2>1, <2>2
  <2> QED
    BY <1>1, <2>3, <2>4, <2>5
<1>4. ScannedOK(filelist', n_files', ix')
  BY <1>1, <1>3 DEF ScannedOK
<1>5. dups' \in Seq(Line) /\ PrintedOK(dups)'
  BY <1>1, EmptySeq DEF PrintedOK
<1> QED
  BY <1>1, <1>2, <1>4, <1>5, SameInput DEF DuplicatesInv

(* scan1 computes the checksums of neighbours of equal length. *)
LEMMA Scan1Dup ==
  ASSUME FinddupInv, DuplicatesInv, Scan1
  PROVE  DuplicatesInv'
<1>1. /\ pc = "scan1" /\ pc' = pc /\ dups' = dups /\ dups = <<>> /\ ix' = ix + 1 /\ ix <= n_files
      /\ UNCHANGED <<names, data, lnkmatch, inmatch, linkflag>>
      /\ ScannedOK(filelist, n_files, ix)
      /\ FirstSortOrders => LengthsTogether(filelist)
  BY DEF DuplicatesInv, Scan1, input
<1>2. /\ n_files \in Nat /\ n_files = Len(filelist) /\ filelist \in [1..n_files -> Entry]
      /\ ix \in Nat /\ 1 < ix
  BY <1>1, Entries DEF ScannedOK
<1> DEFINE n == n_files
           l == filelist
           s == filelist'
<1>3. CASE SameLength /\ s = [l EXCEPT ![ix - 1] = get_crc(@), ![ix] = get_crc(@)]
  <2>1. l[ix - 1].length = l[ix].length
    BY <1>3 DEF SameLength
  <2>2. \A i \in 1..n : s[i] = IF i \in {ix - 1, ix} THEN get_crc(l[i]) ELSE l[i]
    <3> HIDE DEF n
    <3>1. ix - 1 # ix
      BY <1>2
    <3> QED
      BY <1>2, <1>3, <3>1 DEF n
  <2>3. \A f \in Entry : /\ get_crc(f).length = f.length /\ "CRC" \in get_crc(f).flags
                         /\ f.flags \subseteq {"CRC"} => get_crc(f).flags \subseteq {"CRC"}
    BY DEF get_crc, Entry
  <2>4. \A i \in 1..n : /\ l[i] \in Entry /\ s[i].length = l[i].length
                        /\ s[i].flags \subseteq {"CRC"}
                        /\ (Has(l, "CRC", i) \/ i \in {ix - 1, ix}) => Has(s, "CRC", i)
    BY <1>1, <1>2, <2>2, <2>3 DEF ScannedOK, Has
  <2>5. n_files' = n
    BY <1>2, <1>3 DEF n_files
  <2>6. ScannedOK(s, n, ix + 1)
    <3>1. ASSUME NEW i \in 2..n, i < ix + 1, s[i - 1].length = s[i].length
          PROVE  Has(s, "CRC", i - 1) /\ Has(s, "CRC", i)
      <4>1. i - 1 \in 1..n /\ i \in 1..n
        BY <1>2
      <4>2. CASE i = ix
        BY <2>4, <4>1, <4>2
      <4>3. CASE i < ix
        <5>1. Has(l, "CRC", i - 1) /\ Has(l, "CRC", i)
          BY <1>1, <2>4, <3>1, <4>1, <4>3 DEF ScannedOK
        <5> QED
          BY <2>4, <4>1, <5>1
      <4> QED
        BY <1>2, <3>1, <4>2, <4>3
    <3>2. ix + 1 \in Nat /\ 1 < ix + 1
      BY <1>2
    <3> QED
      BY <2>4, <3>1, <3>2 DEF ScannedOK
  <2>7. FirstSortOrders => LengthsTogether(s)
    <3>1. Len(s) = n
      BY <2>5 DEF n_files
    <3> QED
      BY <1>1, <1>2, <2>4, <3>1 DEF LengthsTogether
  <2>8. dups' \in Seq(Line) /\ PrintedOK(dups)'
    BY <1>1, EmptySeq DEF PrintedOK
  <2> QED
    BY <1>1, <2>5, <2>6, <2>7, <2>8, SameInput DEF DuplicatesInv
<1>4. CASE ~SameLength /\ s = l
  <2>1. l[ix - 1].length # l[ix].length
    BY <1>1, <1>4 DEF SameLength
  <2>2. ScannedOK(l, n, ix + 1)
    <3>1. \A i \in 2..n : i < ix + 1 => i = ix \/ i < ix
      BY <1>2
    <3> QED
      BY <1>1, <1>2, <2>1, <3>1 DEF ScannedOK
  <2>3. dups' \in Seq(Line) /\ PrintedOK(dups)'
    BY <1>1, EmptySeq DEF PrintedOK
  <2> QED
    BY <1>1, <1>4, <2>2, <2>3, SameInput DEF DuplicatesInv, n_files
<1> QED
  BY <1>3, <1>4 DEF Scan1

(* The second sort keeps the checksums, whatever order it makes. *)
LEMMA EndScan1Dup ==
  ASSUME FinddupInv, DuplicatesInv, EndScan1
  PROVE  DuplicatesInv'
<1>1. /\ pc = "scan1" /\ pc' = "links" /\ dups' = dups /\ dups = <<>> /\ ix' = 1 /\ ix > n_files
      /\ UNCHANGED <<names, data, lnkmatch, inmatch, linkflag>>
      /\ filelist' \in SORT(filelist) \/ filelist' = filelist
      /\ ScannedOK(filelist, n_files, ix)
      /\ FirstSortOrders => LengthsTogether(filelist)
  BY DEF DuplicatesInv, EndScan1, input
<1> DEFINE n == n_files
           l == filelist
           s == filelist'
<1>2. n \in Nat /\ n = Len(l) /\ l \in [1..n -> Entry] /\ DOMAIN l = 1..n /\ ix \in Nat
  BY <1>1, Entries DEF ScannedOK
<1>3. FirstSortOrders => Summed(l, n)
  <2>1. n < ix
    BY <1>1, <1>2
  <2> QED
    BY <1>1, <1>2, <2>1, ScannedAll
<1>4. PICK p \in [1..n -> 1..n] : /\ s = [i \in 1..n |-> l[p[i]]]
                                  /\ \A i, j \in 1..n : p[i] = p[j] => i = j
  <2>1. CASE s \in SORT(l)
    <3>1. PICK p \in Bijection(DOMAIN l, DOMAIN l) : s = [i \in DOMAIN l |-> l[p[i]]]
      BY <2>1 DEF SORT
    <3> DEFINE D == DOMAIN l
    <3>2. p \in Bijection(D, D) /\ D = 1..n
      BY <1>2, <3>1
    <3> HIDE DEF D
    <3>3. p \in [D -> D] /\ \A i, j \in D : p[i] = p[j] => i = j
      BY <3>2 DEF Bijection, Injection, IsInjective
    <3>4. p \in [1..n -> 1..n] /\ \A i, j \in 1..n : p[i] = p[j] => i = j
      BY <3>2, <3>3
    <3>5. s = [i \in 1..n |-> l[p[i]]]
      BY <1>2, <3>1
    <3> QED
      BY <3>4, <3>5
  <2>2. CASE s = l
    <3>1. PICK q : q = [i \in 1..n |-> i]
      OBVIOUS
    <3>2. q \in [1..n -> 1..n] /\ \A i, j \in 1..n : q[i] = q[j] => i = j
      BY <3>1
    <3>3. s = [i \in 1..n |-> l[q[i]]]
      BY <1>2, <2>2, <3>1
    <3> QED
      BY <3>2, <3>3
  <2> QED
    BY <1>1, <2>1, <2>2
<1>5. n_files' = n
  BY <1>2, <1>4 DEF n_files
<1> HIDE DEF n
<1>6. \A i \in 1..n : p[i] \in 1..n /\ s[i] = l[p[i]]
  BY <1>4
<1>7. LinksOK(s, n)
  <2>1. \A i \in 1..n : s[i].flags \subseteq {"CRC"}
    BY <1>1, <1>6 DEF ScannedOK, n
  <2> QED
    BY <2>1 DEF LinksOK, Has
<1>8. FirstSortOrders => Summed(s, n)
  <2> SUFFICES ASSUME FirstSortOrders
               PROVE  Summed(s, n)
    OBVIOUS
  <2>1. \A i \in 1..n : s[i].length = l[p[i]].length /\ (Has(l, "CRC", p[i]) => Has(s, "CRC", i))
    BY <1>6 DEF Has
  <2> QED
    BY <1>2, <1>3, <1>4, <2>1, SummedPermuted
<1>9. dups' \in Seq(Line) /\ PrintedOK(dups)'
  BY <1>1, EmptySeq DEF PrintedOK
<1> QED
  BY <1>1, <1>5, <1>7, <1>8, <1>9, SameInput DEF DuplicatesInv

(* Entries that keep their place keep what Summed says. *)
LEMMA SummedChanged ==
  ASSUME NEW n, NEW l, NEW s, Summed(l, n),
         \A i \in 1..n : s[i].length = l[i].length /\ (Has(l, "CRC", i) => Has(s, "CRC", i))
  PROVE  Summed(s, n)
BY DEF Summed

(* A run of links is flagged: each has the inode of the one before it. *)
LEMMA MarkLinksDup ==
  ASSUME FinddupInv, DuplicatesInv, MarkLinks
  PROVE  DuplicatesInv'
<1>1. /\ pc = "links" /\ pc' = pc /\ dups' = dups /\ dups = <<>> /\ ix <= n_files
      /\ UNCHANGED <<names, data, lnkmatch, inmatch, linkflag>>
      /\ ix \in Nat /\ 0 < ix /\ LinksOK(filelist, n_files)
      /\ FirstSortOrders => Summed(filelist, n_files)
      /\ ix' = ix + Cardinality(LinkRun)
  BY DEF DuplicatesInv, MarkLinks, input
<1> DEFINE n == n_files
           l == filelist
           s == filelist'
           R == LinkRun \ {ix}
<1>2. n \in Nat /\ n = Len(l) /\ l \in [1..n -> Entry]
  BY Entries
<1>3. s = [j \in 1..n |-> IF j \in R THEN [l[j] EXCEPT !.flags = @ \cup {"LNK"}] ELSE l[j]]
  BY DEF MarkLinks
<1>4. n_files' = n
  BY <1>2, <1>3 DEF n_files
<1>5. \A j \in R : j \in ix..n /\ j # ix /\ \A k \in ix..j : l[k].inode = l[ix].inode
  BY DEF LinkRun
<1>6. ix' \in Nat /\ 0 < ix'
  <2>1. IsFiniteSet(ix..n) /\ LinkRun \in SUBSET (ix..n)
    BY <1>1, <1>2, FS_Interval DEF LinkRun
  <2>2. Cardinality(LinkRun) \in Nat
    BY <2>1, FS_Subset, FS_CardinalityType
  <2> QED
    BY <1>1, <2>2
<1> HIDE DEF n, R
<1>7. \A i \in 1..n : /\ s[i].inode = l[i].inode /\ s[i].length = l[i].length
                      /\ Has(s, "DUP", i) <=> Has(l, "DUP", i)
                      /\ Has(s, "CRC", i) <=> Has(l, "CRC", i)
                      /\ Has(s, "LNK", i) => Has(l, "LNK", i) \/ i \in R
  <2> TAKE i \in 1..n
  <2>1. s[i] = IF i \in R THEN [l[i] EXCEPT !.flags = @ \cup {"LNK"}] ELSE l[i]
    BY <1>3
  <2>2. l[i] \in Entry
    BY <1>2
  <2> QED
    BY <2>1, <2>2 DEF Entry, Has
<1>8. LinksOK(s, n)
  <2> SUFFICES ASSUME NEW i \in 1..n
               PROVE  /\ ~Has(s, "DUP", i)
                      /\ Has(s, "LNK", i) => i > 1 /\ s[i].inode = s[i - 1].inode
    BY DEF LinksOK
  <2>1. ~Has(s, "DUP", i)
    BY <1>1, <1>7 DEF LinksOK, n
  <2>2. ASSUME Has(s, "LNK", i)
        PROVE  i > 1 /\ l[i].inode = l[i - 1].inode
    <3>1. CASE Has(l, "LNK", i)
      BY <1>1, <3>1 DEF LinksOK, n
    <3>2. CASE i \in R
      <4>1. i \in ix..i /\ i - 1 \in ix..i /\ i > 1
        BY <1>1, <1>2, <1>5, <3>2
      <4> QED
        BY <1>5, <3>2, <4>1
    <3> QED
      BY <1>7, <2>2, <3>1, <3>2
  <2>3. i > 1 => i - 1 \in 1..n
    BY <1>2
  <2> QED
    BY <1>7, <2>1, <2>2, <2>3
<1>9. FirstSortOrders => Summed(s, n)
  BY <1>1, <1>7, SummedChanged DEF n
<1>10. dups' \in Seq(Line) /\ PrintedOK(dups)'
  BY <1>1, EmptySeq DEF PrintedOK
<1> QED
  BY <1>1, <1>4, <1>6, <1>8, <1>9, <1>10, SameInput DEF DuplicatesInv

(* The loop over duplicates begins. *)
LEMMA EndLinksDup ==
  ASSUME FinddupInv, DuplicatesInv, EndLinks
  PROVE  DuplicatesInv'
<1>1. /\ pc = "links" /\ pc' = "dups" /\ dups' = dups /\ dups = <<>>
      /\ UNCHANGED <<names, data, filelist, inmatch, linkflag>>
      /\ ix' = 1 /\ ix2' = 2 /\ lastix' = 2 /\ lnkmatch' = TRUE
      /\ LinksOK(filelist, n_files)
      /\ FirstSortOrders => Summed(filelist, n_files)
  BY DEF DuplicatesInv, EndLinks, BeginGroup, input
<1>2. n_files' = n_files /\ n_files \in Nat
  BY <1>1, Entries DEF n_files
<1>3. DupsOK(data, filelist, n_files, 1, 2, 2, TRUE)
  BY <1>1, <1>2, FirstGroup
<1>4. dups' \in Seq(Line) /\ PrintedOK(dups)'
  BY <1>1, EmptySeq DEF PrintedOK
<1>5. inmatch' \in BOOLEAN /\ linkflag' \in BOOLEAN
  BY <1>1 DEF DuplicatesInv
<1> QED
  BY <1>1, <1>2, <1>3, <1>4, <1>5, SameInput DEF DuplicatesInv

-----------------------------------------------------------------------------
(* Two entries of equal content have the same length and checksum. *)
LEMMA SameContent ==
  ASSUME FinddupInv, Summed(filelist, n_files), NEW i \in 1..n_files, NEW j \in 1..n_files,
         i # j, At(data, filelist, i) = At(data, filelist, j)
  PROVE  /\ filelist[i].length = filelist[j].length /\ filelist[i].crc32 = filelist[j].crc32
         /\ Has(filelist, "CRC", i) /\ Has(filelist, "CRC", j)
<1>1. EntryOK(filelist[i]) /\ EntryOK(filelist[j])
  BY Entries
<1>2. filelist[i].length = filelist[j].length
  BY <1>1 DEF EntryOK, At
<1>3. Has(filelist, "CRC", i) /\ Has(filelist, "CRC", j)
  BY <1>2 DEF Summed
<1> QED
  BY <1>1, <1>2, <1>3 DEF EntryOK, At, Has

(* A match is a file with the same content. *)
LEMMA MatchEqual ==
  ASSUME FinddupInv, Text, Candidate, ix \in 1..n_files,
         fullcmp(ContentOf(filelist[ix]), ContentOf(filelist[ix2]))
  PROVE  At(data, filelist, ix2) = At(data, filelist, ix)
<1>1. ix2 \in 1..n_files
  <2>1. ix2 \in Nat /\ 1 <= ix2 /\ ix2 <= n_files
    BY DEF FinddupInv, Candidate
  <2> QED
    BY <2>1, Entries
<1> DEFINE a == At(data, filelist, ix)
           b == At(data, filelist, ix2)
<1>2. \A i \in 1..n_files : LET c == At(data, filelist, i) IN
        /\ c \in Seq(0..255) /\ filelist[i].length = Len(c) /\ \A k \in DOMAIN c : c[k] < 128
  <2> TAKE i \in 1..n_files
  <2>1. EntryOK(filelist[i]) /\ filelist[i].nameloc \in Listed
    BY Entries
  <2>2. data[filelist[i].inode] \in Contents
    BY <2>1 DEF EntryOK, Entry, FinddupInv
  <2>3. data[filelist[i].inode] \in Seq(0..255)
    BY <2>2, FinddupAssumption
  <2>4. \A k \in DOMAIN data[filelist[i].inode] : data[filelist[i].inode][k] < 128
    BY <2>1 DEF Text, EntryOK
  <2> QED
    BY <2>1, <2>3, <2>4 DEF EntryOK, At
<1>3. a \in Seq(0..255) /\ b \in Seq(0..255) /\ Len(a) = Len(b) /\ \A k \in DOMAIN a : a[k] < 128
  BY <1>1, <1>2 DEF Candidate
<1>4. fullcmp(a, b)
  BY DEF At, ContentOf
<1> HIDE DEF a, b
<1>5. a = b
  BY <1>3, <1>4, FullcmpEqual
<1> QED
  BY <1>5 DEF a, b

(* MarkDup as a permutation. *)
LEMMA MarkDupMoves ==
  ASSUME FinddupInv, MarkDup
  PROVE  /\ ix2 \in 1..n_files /\ lastix \in 1..ix2 /\ n_files' = n_files
         /\ \A i \in 1..n_files : i < lastix \/ ix2 < i => filelist'[i] = filelist[i]
         /\ \A i \in 1..n_files : lastix < i /\ i <= ix2 => filelist'[i] = filelist[i - 1]
         /\ filelist'[lastix] = [filelist[ix2] EXCEPT !.flags = @ \cup {"DUP"}]
         /\ filelist[ix2] \in Entry
<1> DEFINE n == n_files
           l == filelist
           f == [l EXCEPT ![ix2].flags = @ \cup {"DUP"}]
           g == [l[ix2] EXCEPT !.flags = @ \cup {"DUP"}]
<1>1. n \in Nat /\ n = Len(l) /\ l \in [1..n -> Entry] /\ DOMAIN l = 1..n
  BY Entries
<1>2. ix2 \in 1..n /\ lastix \in 1..ix2
  <2>1. ix2 \in Nat /\ lastix \in Nat /\ 1 <= lastix /\ lastix <= ix2 /\ ix2 <= n
    BY DEF FinddupInv, MarkDup, Candidate
  <2> QED
    BY <1>1, <2>1
<1>3. f = [l EXCEPT ![ix2] = g]
  OBVIOUS
<1>4. filelist' = MoveInto(f, lastix, ix2)
  BY DEF MarkDup
<1> HIDE DEF f, g, n
<1>5. DOMAIN f = 1..n /\ f[ix2] = g /\ \A i \in 1..n : i # ix2 => f[i] = l[i]
  BY <1>1, <1>2, <1>3
<1>6. filelist' = [i \in 1..n |-> IF i = lastix THEN f[ix2]
                                  ELSE IF lastix < i /\ i <= ix2 THEN f[i - 1] ELSE f[i]]
  BY <1>4, <1>5 DEF MoveInto
<1>7. n_files' = n
  BY <1>1, <1>6 DEF n_files
<1>8. \A i \in 1..n : i < lastix \/ ix2 < i => filelist'[i] = l[i]
  BY <1>1, <1>2, <1>5, <1>6
<1>9. \A i \in 1..n : lastix < i /\ i <= ix2 => filelist'[i] = l[i - 1]
  <2> SUFFICES ASSUME NEW i \in 1..n, lastix < i, i <= ix2
               PROVE  filelist'[i] = l[i - 1]
    OBVIOUS
  <2>1. i # lastix /\ i - 1 \in 1..n /\ i - 1 # ix2
    BY <1>1, <1>2
  <2> QED
    BY <1>5, <1>6, <2>1
<1>10. filelist'[lastix] = g /\ l[ix2] \in Entry
  BY <1>1, <1>2, <1>5, <1>6
<1> QED
  BY <1>2, <1>7, <1>8, <1>9, <1>10 DEF n, g

(* A duplicate is flagged and moved. *)
LEMMA MarkDupDup ==
  ASSUME FinddupInv, DuplicatesInv, MarkDup
  PROVE  DuplicatesInv'
<1>1. /\ pc = "dups" /\ pc' = pc /\ dups' = dups /\ dups = <<>>
      /\ UNCHANGED <<names, data, ix, inmatch, linkflag>> /\ inmatch \in BOOLEAN /\ linkflag \in BOOLEAN
      /\ ix2' = ix2 + 1 /\ lastix' = (IF lastix = ix2 THEN lastix ELSE lastix + 1)
      /\ lnkmatch' = TRUE /\ lnkmatch \in BOOLEAN
      /\ FirstSortOrders => Summed(filelist, n_files)
      /\ Ordinary => DupsOK(data, filelist, n_files, ix, lastix, ix2, lnkmatch)
  BY DEF DuplicatesInv, MarkDup, Candidate, input
<1> DEFINE n == n_files
           l == filelist
           s == filelist'
           b == lastix
           e == ix2
<1>2. /\ e \in 1..n /\ b \in 1..e /\ n_files' = n
      /\ \A i \in 1..n : i < b \/ e < i => s[i] = l[i]
      /\ \A i \in 1..n : b < i /\ i <= e => s[i] = l[i - 1]
      /\ s[b] = [l[e] EXCEPT !.flags = @ \cup {"DUP"}] /\ l[e] \in Entry
  BY MarkDupMoves
<1>3. /\ s[b].inode = l[e].inode /\ s[b].length = l[e].length
      /\ s[b].flags = l[e].flags \cup {"DUP"}
  BY <1>2 DEF Entry
<1>4. n \in Nat
  BY Entries
<1>5. ASSUME FirstSortOrders
      PROVE  Summed(s, n)
  <2> DEFINE p == [i \in 1..n |-> IF i = b THEN e ELSE IF b < i /\ i <= e THEN i - 1 ELSE i]
  <2> HIDE DEF n, b, e, l, s
  <2>1. p \in [1..n -> 1..n] /\ \A i, j \in 1..n : p[i] = p[j] => i = j
    BY <1>2, <1>4
  <2>2. \A i \in 1..n : s[i].length = l[p[i]].length /\ (Has(l, "CRC", p[i]) => Has(s, "CRC", i))
    <3> TAKE i \in 1..n
    <3>1. CASE i = b
      <4>1. p[i] = e
        BY <3>1
      <4> QED
        BY <1>3, <3>1, <4>1 DEF Has
    <3>2. CASE b < i /\ i <= e
      <4>1. i # b
        BY <1>2, <1>4, <3>2
      <4>2. p[i] = i - 1 /\ s[i] = l[i - 1]
        BY <1>2, <3>2, <4>1
      <4> QED
        BY <4>2 DEF Has
    <3>3. CASE i # b /\ ~(b < i /\ i <= e)
      <4>1. p[i] = i
        BY <3>3
      <4>2. i < b \/ e < i
        BY <1>2, <1>4, <3>3
      <4>3. s[i] = l[i]
        BY <1>2, <4>2
      <4> QED
        BY <4>1, <4>3 DEF Has
    <3> QED
      BY <3>1, <3>2, <3>3
  <2>3. Summed(l, n)
    BY <1>1, <1>5 DEF n, l
  <2> HIDE DEF p
  <2> QED
    BY <1>4, <2>1, <2>2, <2>3, SummedPermuted
<1>6. ASSUME Ordinary
      PROVE  DupsOK(data, s, n, ix, lastix', ix2', TRUE)
  <2>1. DupsOK(data, l, n, ix, b, e, lnkmatch)
    BY <1>1, <1>6
  <2>2. ix \in 1..n
    BY <1>2, <1>4, <2>1 DEF DupsOK
  <2>3. At(data, l, e) = At(data, l, ix)
    <3>1. CASE KnownLink
      BY <1>2, <1>4, <2>1, <3>1 DEF DupsOK, LinkMatches, KnownLink, Has
    <3>2. CASE fullcmp(ContentOf(l[ix]), ContentOf(l[e]))
      BY <1>6, <2>2, <3>2, MatchEqual DEF Ordinary, MarkDup
    <3> QED
      BY <3>1, <3>2 DEF MarkDup
  <2> HIDE DEF n, b, e, l, s
  <2>4. CASE b = e
    <3>1. \A i \in 1..n : i # b => s[i] = l[i]
      BY <1>2, <1>4, <2>4
    <3>2. /\ DupsOK(data, l, n, ix, b, b, lnkmatch) /\ At(data, l, b) = At(data, l, ix)
          /\ s[b].inode = l[b].inode /\ s[b].flags = l[b].flags \cup {"DUP"} /\ b <= n
      BY <1>2, <1>3, <1>4, <2>1, <2>3, <2>4
    <3>3. lnkmatch \in BOOLEAN
      BY <1>1
    <3>4. DupsOK(data, s, n, ix, b, b + 1, TRUE)
      BY <1>4, <3>1, <3>2, <3>3, FlagKeeps
    <3> QED
      BY <1>1, <2>4, <3>4 DEF b, e
  <2>5. CASE b < e
    <3>1. /\ e <= n /\ s[b].inode = l[e].inode /\ s[b].flags = l[e].flags \cup {"DUP"}
          /\ \A i \in 1..n : i < b \/ e < i => s[i] = l[i]
          /\ \A i \in 1..n : b < i /\ i <= e => s[i] = l[i - 1]
      BY <1>2, <1>3, <1>4
    <3>2. lnkmatch \in BOOLEAN
      BY <1>1
    <3>3. DupsOK(data, s, n, ix, b + 1, e + 1, TRUE)
      BY <1>4, <2>1, <2>3, <2>5, <3>1, <3>2, MoveKeeps
    <3>4. b # e
      BY <1>2, <1>4, <2>5
    <3> QED
      BY <1>1, <3>3, <3>4 DEF b, e
  <2>6. b = e \/ b < e
    <3>1. e \in 1..n /\ b \in 1..e
      BY <1>2
    <3> QED
      BY <1>4, <3>1
  <2> QED
    BY <2>4, <2>5, <2>6
<1>7. dups' \in Seq(Line) /\ PrintedOK(dups)'
  BY <1>1, EmptySeq DEF PrintedOK
<1> QED
  BY <1>1, <1>2, <1>5, <1>6, <1>7, SameInput DEF DuplicatesInv

(* An entry that is no duplicate is left where it is. *)
LEMMA NotDupDup ==
  ASSUME FinddupInv, DuplicatesInv, NotDup
  PROVE  DuplicatesInv'
<1>1. /\ pc = "dups" /\ pc' = pc /\ dups' = dups /\ dups = <<>>
      /\ UNCHANGED <<names, data, filelist, ix, lastix, inmatch, linkflag>>
      /\ ix2' = ix2 + 1 /\ lnkmatch' = FALSE /\ ix2 <= n_files
      /\ ~(lnkmatch /\ Has(filelist, "LNK", ix2))
      /\ FirstSortOrders => Summed(filelist, n_files)
      /\ Ordinary => DupsOK(data, filelist, n_files, ix, lastix, ix2, lnkmatch)
  BY DEF DuplicatesInv, NotDup, Candidate, KnownLink, Has, input
<1>2. n_files' = n_files /\ n_files \in Nat
  BY <1>1, Entries DEF n_files
<1>3. inmatch \in BOOLEAN /\ linkflag \in BOOLEAN /\ lnkmatch \in BOOLEAN
  BY DEF DuplicatesInv
<1>4. Ordinary => DupsOK(data, filelist, n_files, ix, lastix, ix2 + 1, FALSE)
  BY <1>1, <1>2, <1>3, SkipKeeps
<1>5. dups' \in Seq(Line) /\ PrintedOK(dups)'
  BY <1>1, EmptySeq DEF PrintedOK
<1> QED
  BY <1>1, <1>2, <1>3, <1>4, <1>5, SameInput DEF DuplicatesInv

(* A group ends at an entry with another length or checksum, which is not a *)
(* link of the entry compared last.                                         *)
LEMMA NextGroupDup ==
  ASSUME FinddupInv, DuplicatesInv, NextGroup
  PROVE  DuplicatesInv'
<1>1. /\ pc = "dups" /\ pc' = pc /\ dups' = dups /\ dups = <<>>
      /\ UNCHANGED <<names, data, filelist, inmatch, linkflag>>
      /\ ix' = lastix /\ ix2' = lastix + 1 /\ lastix' = lastix + 1 /\ lnkmatch' = TRUE
      /\ ix <= n_files /\ ~Candidate
      /\ FirstSortOrders => Summed(filelist, n_files)
      /\ Ordinary => DupsOK(data, filelist, n_files, ix, lastix, ix2, lnkmatch)
  BY DEF DuplicatesInv, NextGroup, BeginGroup, input
<1>2. n_files' = n_files /\ n_files \in Nat
  BY <1>1, Entries DEF n_files
<1>3. inmatch \in BOOLEAN /\ linkflag \in BOOLEAN /\ lnkmatch \in BOOLEAN
  BY DEF DuplicatesInv
<1>4. ASSUME Ordinary
      PROVE  DupsOK(data, filelist, n_files, lastix, lastix + 1, lastix + 1, TRUE)
  <2>1. DupsOK(data, filelist, n_files, ix, lastix, ix2, lnkmatch) /\ Summed(filelist, n_files)
    BY <1>1, <1>4 DEF Ordinary
  <2>2. ASSUME ix2 <= n_files, Has(filelist, "LNK", ix2), lnkmatch
        PROVE  FALSE
    <3>1. ix \in 1..n_files /\ ix2 \in 1..n_files /\ ix # ix2
      BY <1>1, <1>2, <2>1, <2>2 DEF DupsOK
    <3>2. At(data, filelist, ix2) = At(data, filelist, ix)
      BY <2>1, <2>2 DEF DupsOK, LinkMatches
    <3>3. filelist[ix].length = filelist[ix2].length /\ filelist[ix].crc32 = filelist[ix2].crc32
      BY <2>1, <3>1, <3>2, SameContent
    <3> QED
      BY <1>1, <2>2, <3>3 DEF Candidate
  <2>3. ix2 <= n_files /\ Has(filelist, "LNK", ix2) => ~lnkmatch
    BY <2>2
  <2> QED
    BY <1>2, <1>3, <2>1, <2>3, GroupKeeps
<1>5. dups' \in Seq(Line) /\ PrintedOK(dups)'
  BY <1>1, EmptySeq DEF PrintedOK
<1> QED
  BY <1>1, <1>2, <1>3, <1>4, <1>5, SameInput DEF DuplicatesInv

(* Behind the last group all entries are in place. *)
LEMMA EndDupsDup ==
  ASSUME FinddupInv, DuplicatesInv, EndDups
  PROVE  DuplicatesInv'
<1>1. /\ pc = "dups" /\ pc' = "scan3" /\ dups' = dups /\ dups = <<>>
      /\ UNCHANGED <<names, data, filelist, lnkmatch, linkflag>>
      /\ ix' = 1 /\ headfn' = None /\ inmatch' = TRUE /\ ix > n_files
      /\ FirstSortOrders => Summed(filelist, n_files)
      /\ Ordinary => DupsOK(data, filelist, n_files, ix, lastix, ix2, lnkmatch)
  BY DEF DuplicatesInv, EndDups, input
<1>2. n_files' = n_files /\ n_files \in Nat
  BY <1>1, Entries DEF n_files
<1>3. linkflag \in BOOLEAN /\ lnkmatch \in BOOLEAN
  BY DEF DuplicatesInv
<1>4. ASSUME Ordinary
      PROVE  ListFinal(data, filelist, n_files)
  <2>1. /\ ix \in Nat /\ lastix \in Nat /\ ix2 \in Nat /\ ix < lastix /\ lastix <= ix2
        /\ LinksDup(filelist, n_files, lastix, ix2) /\ DupsEqual(data, filelist, n_files, lastix)
    BY <1>1, <1>4 DEF DupsOK
  <2>2. \A i \in 1..n_files : i < lastix /\ i <= lastix /\ i < ix2
    BY <1>1, <1>2, <2>1
  <2> QED
    BY <2>1, <2>2 DEF LinksDup, DupsEqual, ListFinal
<1>5. ASSUME Ordinary
      PROVE  PrintOK(data, filelist, n_files)'
  <2>1. HeadOK(data, filelist, n_files, ix, inmatch, headfn)'
    BY <1>1 DEF HeadOK
  <2>2. ListFinal(data, filelist, n_files)'
    BY <1>1, <1>2, <1>4, <1>5
  <2>3. ix' \in Nat /\ 0 < ix' /\ headfn' \in Nat
    BY <1>1 DEF None
  <2> QED
    BY <2>1, <2>2, <2>3 DEF PrintOK
<1>6. dups' \in Seq(Line) /\ PrintedOK(dups)'
  BY <1>1, EmptySeq DEF PrintedOK
<1> QED
  BY <1>1, <1>2, <1>3, <1>5, <1>6, SameInput DEF DuplicatesInv

-----------------------------------------------------------------------------
(* The lines printed for a duplicate. *)
LEMMA LinesAppended ==
  ASSUME NEW q \in Seq(Line), NEW h \in Nat, NEW m \in Nat
  PROVE  q \o (IF h = None THEN <<>> ELSE << <<"FILE", h>> >>) \o << <<"DUP", m>> >>
           = Append(IF h = None THEN q ELSE Append(q, <<"FILE", h>>), <<"DUP", m>>)
<1>1. <<"FILE", h>> \in Line /\ <<"DUP", m>> \in Line
  BY DEF Line
<1>2. Append(q, <<"FILE", h>>) \in Seq(Line) /\ Append(q, <<"FILE", h>>) = q \o << <<"FILE", h>> >>
  BY <1>1, AppendProperties, AppendIsConcat
<1>3. q \o <<>> = q
  BY ConcatEmptySeq
<1>4. \A r \in Seq(Line) : Append(r, <<"DUP", m>>) = r \o << <<"DUP", m>> >>
  BY <1>1, AppendIsConcat
<1>5. CASE h = None
  BY <1>3, <1>4, <1>5
<1>6. CASE h # None
  BY <1>2, <1>4, <1>6
<1> QED
  BY <1>5, <1>6

(* What is known at a duplicate: the name of the first entry of its group,   *)
(* or that it has been printed.                                              *)
LEMMA AtDuplicate ==
  ASSUME FinddupInv, Summed(filelist, n_files), PrintOK(data, filelist, n_files),
         inmatch \in BOOLEAN,
         ix <= n_files, Has(filelist, "DUP", ix)
  PROVE  /\ HeadName \in Nat
         /\ IF HeadName = None
            THEN dups # <<>> /\ Content(dups[FileLineIn(dups, Len(dups))][2]) = At(data, filelist, ix)
            ELSE Content(HeadName) = At(data, filelist, ix)
<1>1. n_files \in Nat /\ ix \in 1..n_files
  BY Entries DEF PrintOK
<1>2. ix > 1 /\ At(data, filelist, ix) = At(data, filelist, ix - 1)
  BY <1>1 DEF PrintOK, ListFinal, EqualBefore
<1>3. ix - 1 \in 1..n_files /\ ix # ix - 1 /\ 1 < ix /\ ix <= n_files + 1
  BY <1>1, <1>2
<1>4. Has(filelist, "CRC", ix - 1)
  BY <1>1, <1>2, <1>3, SameContent
<1>5. InMatch <=> inmatch
  BY DEF InMatch, Has
<1>6. CASE Has(filelist, "DUP", ix - 1)
  <2>1. /\ inmatch
        /\ IF headfn = None
           THEN dups # <<>> /\ Content(dups[FileLineIn(dups, Len(dups))][2]) = At(data, filelist, ix - 1)
           ELSE Content(headfn) = At(data, filelist, ix - 1)
    BY <1>3, <1>6 DEF PrintOK, HeadOK
  <2>2. HeadName = headfn /\ headfn \in Nat
    BY <1>5, <2>1 DEF HeadName, PrintOK
  <2> QED
    BY <1>2, <2>1, <2>2
<1>7. CASE ~Has(filelist, "DUP", ix - 1)
  <2>1. ~inmatch
    BY <1>3, <1>4, <1>7 DEF PrintOK, HeadOK
  <2>2. HeadName = filelist[ix - 1].nameloc
    BY <1>5, <2>1 DEF HeadName
  <2>3. EntryOK(filelist[ix - 1])
    BY <1>3, Entries
  <2>4. HeadName \in Nat /\ HeadName # None
    BY <2>2, <2>3 DEF EntryOK, Entry, None
  <2>5. Content(HeadName) = At(data, filelist, ix - 1)
    BY <2>2, <2>3 DEF EntryOK, Content, At
  <2> QED
    BY <1>2, <2>4, <2>5
<1> QED
  BY <1>6, <1>7

(* A step of scan3. *)
LEMMA PrintDupDup ==
  ASSUME FinddupInv, DuplicatesInv, PrintDup
  PROVE  DuplicatesInv'
<1>1. /\ pc = "scan3" /\ pc' = pc /\ ix <= n_files /\ ix' = ix + 1
      /\ UNCHANGED <<names, data, filelist, lnkmatch, linkflag>>
      /\ inmatch \in BOOLEAN /\ linkflag \in BOOLEAN /\ lnkmatch \in BOOLEAN
      /\ FirstSortOrders => Summed(filelist, n_files)
      /\ Ordinary => PrintOK(data, filelist, n_files)
      /\ Ordinary => dups \in Seq(Line) /\ PrintedOK(dups)
  BY DEF DuplicatesInv, PrintDup, input
<1>2. n_files' = n_files /\ n_files \in Nat
  BY <1>1, Entries DEF n_files
<1>3. inmatch' \in BOOLEAN
  BY <1>1 DEF PrintDup, InMatch
<1>4. ASSUME Ordinary
      PROVE  /\ headfn' \in Nat /\ dups' \in Seq(Line) /\ PrintedOK(dups')
             /\ IF Has(filelist, "DUP", ix)
                THEN /\ inmatch'
                     /\ IF headfn' = None
                        THEN /\ dups' # <<>>
                             /\ Content(dups'[FileLineIn(dups', Len(dups'))][2]) = At(data, filelist, ix)
                        ELSE Content(headfn') = At(data, filelist, ix)
                ELSE Has(filelist, "CRC", ix) => ~inmatch'
  <2>1. /\ Summed(filelist, n_files) /\ PrintOK(data, filelist, n_files)
        /\ dups \in Seq(Line) /\ PrintedOK(dups)
    BY <1>1, <1>4 DEF Ordinary
  <2>2. ix \in 1..n_files
    BY <1>1, <1>2, <2>1 DEF PrintOK
  <2>3. EntryOK(filelist[ix])
    BY <2>2, Entries
  <2>4. CASE ~Has(filelist, "DUP", ix)
    <3>1. /\ inmatch' = InMatch /\ dups' = dups /\ headfn' = headfn
      BY <2>4 DEF PrintDup, Has
    <3>2. Has(filelist, "CRC", ix) => filelist[ix].flags = {"CRC"}
      <4>1. ~Has(filelist, "LNK", ix)
        BY <2>1, <2>2, <2>4 DEF PrintOK, ListFinal, LinkIsDup
      <4>2. filelist[ix].flags \subseteq {"CRC", "LNK", "DUP"}
        BY <2>3 DEF EntryOK, Entry
      <4> QED
        BY <2>4, <4>1, <4>2 DEF Has
    <3>3. Has(filelist, "CRC", ix) => ~inmatch'
      BY <3>1, <3>2 DEF InMatch
    <3>4. headfn' \in Nat
      BY <2>1, <3>1 DEF PrintOK
    <3> QED
      BY <2>1, <2>4, <3>1, <3>3, <3>4
  <2>5. CASE Has(filelist, "DUP", ix)
    <3> DEFINE h == HeadName
               m == filelist[ix].nameloc
               c == At(data, filelist, ix)
    <3>1. /\ h \in Nat
          /\ IF h = None
             THEN dups # <<>> /\ Content(dups[FileLineIn(dups, Len(dups))][2]) = c
             ELSE Content(h) = c
      BY <1>1, <2>1, <2>5, AtDuplicate
    <3>2. m \in Nat /\ Content(m) = c
      BY <2>3 DEF EntryOK, Entry, Content, At
    <3>3. inmatch' = TRUE
      BY <2>5 DEF PrintDup, Has
    <3>4. CASE linkflag \/ "LNK" \notin filelist[ix].flags
      <4>1. /\ dups' = dups \o (IF h = None THEN <<>> ELSE << <<"FILE", h>> >>) \o << <<"DUP", m>> >>
            /\ headfn' = None
        BY <2>5, <3>4 DEF PrintDup, Has
      <4> HIDE DEF h, m, c
      <4>2. dups' = Append(IF h = None THEN dups ELSE Append(dups, <<"FILE", h>>), <<"DUP", m>>)
        BY <2>1, <3>1, <3>2, <4>1, LinesAppended
      <4>3. PICK q \in Seq(Line) : /\ q # <<>> /\ PrintedOK(q) /\ dups' = Append(q, <<"DUP", m>>)
                                   /\ Content(q[FileLineIn(q, Len(q))][2]) = c
        <5>1. CASE h = None
          BY <2>1, <3>1, <4>2, <5>1
        <5>2. CASE h # None
          <6>1. PICK r : r = Append(dups, <<"FILE", h>>)
            OBVIOUS
          <6>2. /\ r \in Seq(Line) /\ r # <<>> /\ PrintedOK(r)
                /\ Content(r[FileLineIn(r, Len(r))][2]) = Content(h)
            BY <2>1, <3>1, <6>1, AppendFile
          <6> QED
            BY <3>1, <4>2, <5>2, <6>1, <6>2
        <5> QED
          BY <5>1, <5>2
      <4>4. PICK r : r = Append(q, <<"DUP", m>>)
        OBVIOUS
      <4>5. /\ r \in Seq(Line) /\ r # <<>> /\ PrintedOK(r)
            /\ Content(r[FileLineIn(r, Len(r))][2]) = Content(m)
        <5>1. m \in Nat /\ q # <<>> /\ PrintedOK(q) /\ Content(m) = Content(q[FileLineIn(q, Len(q))][2])
          BY <3>2, <4>3
        <5>2. LET a == Append(q, <<"DUP", m>>) IN
              /\ a \in Seq(Line) /\ a # <<>> /\ PrintedOK(a)
              /\ Content(a[FileLineIn(a, Len(a))][2]) = Content(m)
          BY <5>1, AppendDup
        <5> QED
          BY <4>4, <5>2
      <4>6. dups' = r
        BY <4>3, <4>4
      <4>7. /\ dups' \in Seq(Line) /\ dups' # <<>> /\ PrintedOK(dups')
            /\ Content(dups'[FileLineIn(dups', Len(dups'))][2]) = c
        BY <3>2, <4>5, <4>6
      <4>8. headfn' = None /\ None \in Nat
        BY <4>1 DEF None
      <4> QED
        BY <2>5, <3>3, <4>7, <4>8 DEF c
    <3>5. CASE ~(linkflag \/ "LNK" \notin filelist[ix].flags)
      <4>1. dups' = dups /\ headfn' = h
        BY <2>5, <3>5 DEF PrintDup, Has
      <4> QED
        BY <2>1, <2>5, <3>1, <3>3, <4>1
    <3> QED
      BY <3>4, <3>5
  <2> QED
    BY <2>4, <2>5
<1>5. ASSUME Ordinary
      PROVE  PrintOK(data, filelist, n_files)'
  <2>1. ix \in Nat /\ 0 < ix /\ ListFinal(data, filelist, n_files)
    BY <1>1, <1>5 DEF PrintOK
  <2>2. ix' \in Nat /\ 0 < ix' /\ ix' - 1 = ix
    BY <1>1, <2>1
  <2>3. HeadOK(data, filelist, n_files, ix, inmatch, headfn)'
    BY <1>1, <1>4, <1>5, <2>2 DEF HeadOK, Content
  <2>4. ListFinal(data, filelist, n_files)'
    BY <1>1, <1>2, <2>1
  <2> QED
    BY <1>4, <1>5, <2>2, <2>3, <2>4 DEF PrintOK
<1>6. ASSUME Ordinary
      PROVE  dups' \in Seq(Line) /\ PrintedOK(dups)'
  <2>1. dups' \in Seq(Line) /\ PrintedOK(dups')
    BY <1>4, <1>6
  <2> QED
    BY <1>1, <2>1 DEF PrintedOK, Content
<1> QED
  BY <1>1, <1>2, <1>3, <1>5, <1>6, SameInput DEF DuplicatesInv

(* The remaining steps change only the label. *)
LEMMA OtherDup ==
  ASSUME FinddupInv, DuplicatesInv, PastTheEnd \/ CannotRead \/ Exit \/ UNCHANGED vars
  PROVE  DuplicatesInv'
<1>1. /\ UNCHANGED <<names, data, filelist, dups, ix, ix2, lastix, lnkmatch, inmatch, headfn, linkflag>>
      /\ n_files' = n_files
  BY DEF PastTheEnd, CannotRead, Exit, vars, input, n_files
<1>2. Ordinary => dups' \in Seq(Line) /\ PrintedOK(dups)'
  BY <1>1 DEF DuplicatesInv, PrintedOK, Content
<1>3. \/ pc' = pc
      \/ pc' \in {"fault", "failed"} /\ dups = <<>>
      \/ pc' = "done"
  BY DEF DuplicatesInv, PastTheEnd, CannotRead, Exit, vars, SameLength, Candidate
<1>4. lnkmatch \in BOOLEAN /\ inmatch \in BOOLEAN /\ linkflag \in BOOLEAN
  BY DEF DuplicatesInv
<1>5. CASE pc' = pc
  <2>1. PrintOK(data, filelist, n_files)' <=> PrintOK(data, filelist, n_files)
    BY <1>1 DEF PrintOK, HeadOK, ListFinal, Content
  <2> QED
    BY <1>1, <1>2, <1>4, <1>5, <2>1, SameInput DEF DuplicatesInv
<1>6. CASE pc' \in {"fault", "failed", "done"} /\ (pc' # "done" => dups = <<>>)
  BY <1>1, <1>2, <1>4, <1>6, SameInput DEF DuplicatesInv
<1> QED
  BY <1>3, <1>5, <1>6

(* At first nothing is listed. *)
LEMMA InitDup == Init => DuplicatesInv
<1> SUFFICES ASSUME Init
             PROVE  DuplicatesInv
  OBVIOUS
<1>1. n_files = 0 /\ dups = <<>> /\ pc = "build" /\ ix = 2
  BY DEF Init, n_files
<1>2. lnkmatch \in BOOLEAN /\ inmatch \in BOOLEAN /\ linkflag \in BOOLEAN
  BY DEF Init
<1>3. dups \in Seq(Line) /\ PrintedOK(dups)
  BY <1>1, EmptySeq DEF PrintedOK
<1> QED
  BY <1>1, <1>2, <1>3 DEF DuplicatesInv

(* Every step keeps the invariant. *)
LEMMA NextDup == FinddupInv /\ FinddupInv' /\ DuplicatesInv /\ [Next]_vars => DuplicatesInv'
BY BuildDup, EndOfNamesDup, Scan1Dup, EndScan1Dup, MarkLinksDup, EndLinksDup, MarkDupDup,
   NotDupDup, NextGroupDup, EndDupsDup, PrintDupDup, OtherDup DEF Next

(* The invariant says that duplicates are equal. *)
LEMMA DuplicatesInvImplies == DuplicatesInv => DuplicatesAreEqual
<1> SUFFICES ASSUME DuplicatesInv, Ordinary
             PROVE  \A k \in DOMAIN dups : /\ FileLine(k) # 0
                                           /\ Content(dups[k][2]) = Content(dups[FileLine(k)][2])
  BY DEF DuplicatesAreEqual, Ordinary
<1>1. PrintedOK(dups) /\ DOMAIN dups = 1..Len(dups) /\ Len(dups) \in Nat
  BY LenProperties DEF DuplicatesInv
<1>2. \A k : FileLine(k) = FileLineIn(dups, k)
  BY DEF FileLine, FileLineIn
<1> QED
  BY <1>1, <1>2 DEF PrintedOK

(* Among text files, and if the first sort orders lengths and inodes, a DUP  *)
(* line of scan3 follows the FILE line of a file with equal contents,        *)
(* whatever order the second sort makes of the checksums.                    *)
THEOREM DuplicatesAreEqualCorrect == Spec => []DuplicatesAreEqual
<1>1. Spec => []FinddupInv
  BY InitFinddup, NextFinddup, PTL DEF Spec
<1>2. FinddupInv /\ FinddupInv' /\ DuplicatesInv /\ [Next]_vars => DuplicatesInv'
  BY NextDup
<1>3. Spec => []DuplicatesInv
  BY <1>1, <1>2, InitDup, PTL DEF Spec
<1> QED
  BY <1>3, DuplicatesInvImplies, PTL

-----------------------------------------------------------------------------
(* What the scans need of the sorts.  Files with equal contents have the   *)
(* same key, and the second sort puts files with the same key together.    *)
SameKey(l, i, j) == l[i].length = l[j].length /\ l[i].crc32 = l[j].crc32
KeysTogether(l, n) ==
  \A i, j, k \in 1..n : i < j /\ j < k /\ SameKey(l, i, k) => SameKey(l, i, j)
InodesTogether(l, n) ==
  \A i, j, k \in 1..n : i < j /\ j < k /\ l[i].inode = l[k].inode => l[j].inode = l[i].inode

(* The first difference that is not 0 decides. *)
LEMMA CompFirst ==
  ASSUME NEW f, NEW g
  PROVE  comp1(f, g) = IF AsInt(f.length - g.length) # 0 THEN AsInt(f.length - g.length)
                       ELSE IF AsInt(f.crc32 - g.crc32) # 0 THEN AsInt(f.crc32 - g.crc32)
                       ELSE AsInt(f.inode - g.inode)
<1> DEFINE a == AsInt(f.length - g.length)
           b == AsInt(f.crc32 - g.crc32)
           c == AsInt(f.inode - g.inode)
           diff == <<a, b, c>>
           differ == {i \in 1..3 : diff[i] # 0}
<1>1. comp1(f, g) = IF differ = {} THEN 0 ELSE diff[Min(differ)]
  BY DEF comp1
<1>2. diff[1] = a /\ diff[2] = b /\ diff[3] = c
  OBVIOUS
<1> HIDE DEF a, b, c, diff
<1>3. \A k \in 1..3 : k \in differ /\ (\A i \in differ : k <= i) => Min(differ) = k
  <2> SUFFICES ASSUME NEW k \in 1..3, k \in differ, \A i \in differ : k <= i
               PROVE  Min(differ) = k
    OBVIOUS
  <2>1. Min(differ) \in differ /\ \A i \in differ : Min(differ) <= i
    BY DEF Min
  <2>2. Min(differ) <= k /\ k <= Min(differ) /\ Min(differ) \in 1..3
    BY <2>1
  <2> QED
    BY <2>2
<1>4. CASE a # 0
  <2>1. 1 \in differ /\ \A i \in differ : 1 <= i
    BY <1>2, <1>4
  <2>2. Min(differ) = 1
    BY <1>3, <2>1
  <2> QED
    BY <1>1, <1>2, <1>4, <2>1, <2>2 DEF a
<1>5. CASE a = 0 /\ b # 0
  <2>1. 2 \in differ /\ \A i \in differ : 2 <= i
    BY <1>2, <1>5
  <2>2. Min(differ) = 2
    BY <1>3, <2>1
  <2> QED
    BY <1>1, <1>2, <1>5, <2>1, <2>2 DEF a, b
<1>6. CASE a = 0 /\ b = 0 /\ c # 0
  <2>1. 3 \in differ /\ \A i \in differ : 3 <= i
    BY <1>2, <1>6
  <2>2. Min(differ) = 3
    BY <1>3, <2>1
  <2> QED
    BY <1>1, <1>2, <1>6, <2>1, <2>2 DEF a, b, c
<1>7. CASE a = 0 /\ b = 0 /\ c = 0
  <2>1. differ = {}
    BY <1>2, <1>7
  <2> QED
    BY <1>1, <1>7, <2>1 DEF a, b, c
<1> QED
  BY <1>4, <1>5, <1>6, <1>7

(* A checksum fits in an int, so a difference of 0 means no difference. *)
LEMMA AsIntZero ==
  ASSUME Contents # {}, NEW u \in 0..(2^Width - 1), NEW v \in 0..(2^Width - 1), AsInt(u - v) = 0
  PROVE  u = v
<1>1. PICK c : c \in Contents
  OBVIOUS
<1>2. Width \in Nat /\ Width - 1 \in Nat /\ Crc[c] \in 0..(2^Width - 1)
  BY <1>1, FinddupAssumption
<1>3. 2^Width \in Int /\ 2^(Width - 1) \in Int
  BY <1>2
<1>4. 2^Width > 0
  BY <1>2, <1>3
<1> PICK M : M = 2^Width
  OBVIOUS
<1> PICK H : H = 2^(Width - 1)
  OBVIOUS
<1>5. M \in Int /\ H \in Int /\ M > 0 /\ u \in 0..(M - 1) /\ v \in 0..(M - 1)
  BY <1>3, <1>4
<1>6. PICK w \in Int : w = u - v
  BY <1>5
<1>7. (w % M) \in 0..(M - 1)
  BY <1>5
<1>8. AsInt(w) = IF (w % M) < H THEN w % M ELSE (w % M) - M
  BY <1>6 DEF AsInt
<1>9. (w % M) = 0
  BY <1>5, <1>6, <1>7, <1>8
<1>10. w = M * (w \div M)
  BY <1>5, <1>9
<1>11. (w \div M) \in Int /\ -M < w /\ w < M
  BY <1>5, <1>6
<1>12. w = 0
  BY <1>5, <1>6, <1>9, <1>11
<1> QED
  BY <1>5, <1>6, <1>12

(* What the comparison of two files tells, if their lengths do not differ   *)
(* by a multiple of the range of an int.                                    *)
LEMMA CompKeys ==
  ASSUME FinddupInv, FirstSortOrders, NEW f, NEW g, EntryOK(f), EntryOK(g),
         f.nameloc \in Listed, g.nameloc \in Listed, AsInt(0) = 0
  PROVE  /\ comp1(f, g) \in Int
         /\ AsInt(f.length - g.length) = 0 <=> f.length = g.length
         /\ AsInt(f.crc32 - g.crc32) = 0 <=> f.crc32 = g.crc32
<1>1. f \in Entry /\ g \in Entry /\ data[f.inode] \in Contents /\ data[g.inode] \in Contents
  BY DEF EntryOK, FinddupInv, Entry
<1>2. Contents # {}
  BY <1>1
<1>3. /\ f.length = Len(data[f.inode]) /\ g.length = Len(data[g.inode])
      /\ f.length \in Int /\ g.length \in Int
  <2>1. data[f.inode] \in Seq(0..255) /\ data[g.inode] \in Seq(0..255)
    BY <1>1, FinddupAssumption
  <2> QED
    BY <2>1, LenProperties DEF EntryOK
<1>4. 2^Width > 0 /\ 2^Width \in Int
  <2>1. PICK c : c \in Contents
    BY <1>2
  <2>2. Width \in Nat /\ Crc[c] \in 0..(2^Width - 1)
    BY <2>1, FinddupAssumption
  <2>3. 2^Width \in Int
    BY <2>2
  <2> QED
    BY <2>2, <2>3
<1>5. f.crc32 \in 0..(2^Width - 1) /\ g.crc32 \in 0..(2^Width - 1)
  <2>1. \A c \in Contents : Crc[c] \in 0..(2^Width - 1)
    BY FinddupAssumption
  <2> QED
    BY <1>1, <1>4, <2>1 DEF Entry
<1>6. f.inode \in Int /\ g.inode \in Int
  <2>1. f.inode \in Inodes /\ g.inode \in Inodes
    BY <1>1 DEF Entry
  <2>2. \A i \in Inodes : i \in Int
    BY FinddupAssumption
  <2> QED
    BY <2>1, <2>2
<1>7. AsInt(f.length - g.length) = 0 <=> f.length = g.length
  <2>1. /\ f.length = Len(Content(f.nameloc)) /\ g.length = Len(Content(g.nameloc))
    BY <1>3 DEF EntryOK, Content
  <2>2. AsInt(f.length - g.length) = 0 => f.length = g.length
    BY <2>1 DEF FirstSortOrders
  <2>3. ASSUME f.length = g.length
        PROVE  AsInt(f.length - g.length) = 0
    <3>1. f.length - g.length = 0
      BY <1>3, <2>3
    <3> QED
      BY <3>1
  <2> QED
    BY <2>2, <2>3
<1>8. AsInt(f.crc32 - g.crc32) = 0 <=> f.crc32 = g.crc32
  <2>1. f.crc32 \in Int /\ g.crc32 \in Int
    BY <1>4, <1>5
  <2>2. AsInt(f.crc32 - g.crc32) = 0 => f.crc32 = g.crc32
    BY <1>2, <1>5, AsIntZero
  <2> QED
    BY <2>1, <2>2
<1>9. comp1(f, g) \in Int
  <2>1. f.length - g.length \in Int /\ f.crc32 - g.crc32 \in Int /\ f.inode - g.inode \in Int
    BY <1>3, <1>4, <1>5, <1>6
  <2>2. /\ AsInt(f.length - g.length) \in Int /\ AsInt(f.crc32 - g.crc32) \in Int
        /\ AsInt(f.inode - g.inode) \in Int
    BY <1>2, <2>1, AsIntType
  <2> QED
    BY <2>2, CompFirst
<1> QED
  BY <1>7, <1>8, <1>9

(* A file between two of the same key has their key; between two names of   *)
(* an inode is another name of it.                                          *)
LEMMA Between ==
  ASSUME FinddupInv, FirstSortOrders, NEW f, NEW g, NEW k,
         EntryOK(f), EntryOK(g), EntryOK(k),
         f.nameloc \in Listed, g.nameloc \in Listed, k.nameloc \in Listed, AsInt(0) = 0,
         comp1(f, g) <= 0, comp1(g, k) <= 0, comp1(f, g) < 0 <=> comp1(g, f) > 0,
         f.length = k.length, f.crc32 = k.crc32
  PROVE  /\ f.length = g.length /\ f.crc32 = g.crc32
         /\ InodesDiffer /\ f.inode = k.inode => g.inode = f.inode
<1>1. comp1(f, g) \in Int /\ comp1(g, f) \in Int /\ comp1(g, k) \in Int
  BY CompKeys
<1>2. f.length = g.length
  <2> SUFFICES ASSUME f.length # g.length
               PROVE  FALSE
    OBVIOUS
  <2>1. AsInt(f.length - g.length) # 0 /\ AsInt(g.length - f.length) # 0
    BY CompKeys
  <2>2. comp1(f, g) = AsInt(f.length - g.length) /\ comp1(g, f) = AsInt(g.length - f.length)
    BY <2>1, CompFirst
  <2>3. comp1(g, k) = comp1(g, f)
    BY <2>1, <2>2, CompFirst
  <2> QED
    BY <1>1, <2>1, <2>2, <2>3
<1>3. /\ AsInt(f.length - g.length) = 0 /\ AsInt(g.length - f.length) = 0
      /\ AsInt(g.length - k.length) = 0
  BY <1>2, CompKeys
<1>4. f.crc32 = g.crc32
  <2> SUFFICES ASSUME f.crc32 # g.crc32
               PROVE  FALSE
    OBVIOUS
  <2>1. AsInt(f.crc32 - g.crc32) # 0 /\ AsInt(g.crc32 - f.crc32) # 0
    BY CompKeys
  <2>2. comp1(f, g) = AsInt(f.crc32 - g.crc32) /\ comp1(g, f) = AsInt(g.crc32 - f.crc32)
    BY <1>3, <2>1, CompFirst
  <2>3. comp1(g, k) = comp1(g, f)
    BY <1>3, <2>1, <2>2, CompFirst
  <2> QED
    BY <1>1, <2>1, <2>2, <2>3
<1>5. ASSUME InodesDiffer, f.inode = k.inode, g.inode # f.inode
      PROVE  FALSE
  <2>1. f.inode = names[f.nameloc] /\ g.inode = names[g.nameloc]
    BY DEF EntryOK
  <2>2. AsInt(f.inode - g.inode) # 0 /\ AsInt(g.inode - f.inode) # 0
    BY <1>5, <2>1 DEF InodesDiffer
  <2>3. /\ AsInt(f.crc32 - g.crc32) = 0 /\ AsInt(g.crc32 - f.crc32) = 0
        /\ AsInt(g.crc32 - k.crc32) = 0
    BY <1>4, CompKeys
  <2>4. comp1(f, g) = AsInt(f.inode - g.inode) /\ comp1(g, f) = AsInt(g.inode - f.inode)
    BY <1>3, <2>3, CompFirst
  <2>5. comp1(g, k) = comp1(g, f)
    BY <1>3, <1>5, <2>3, <2>4, CompFirst
  <2> QED
    BY <1>1, <2>2, <2>4, <2>5
<1> QED
  BY <1>2, <1>4, <1>5

(* Every list with the keys and inodes of an ordered one is ordered. *)
LEMMA OrderedBack ==
  ASSUME NEW n \in Nat, NEW l, NEW s, DOMAIN l = 1..n, DOMAIN s = 1..n, IsOrdered(s),
         \A i \in 1..n : \E j \in 1..n :
           l[i].length = s[j].length /\ l[i].crc32 = s[j].crc32 /\ l[i].inode = s[j].inode
  PROVE  IsOrdered(l)
<1> DEFINE Is(i, j) == l[i].length = s[j].length /\ l[i].crc32 = s[j].crc32 /\ l[i].inode = s[j].inode
           p == [i \in 1..n |-> CHOOSE j \in 1..n : Is(i, j)]
<1>1. \A i \in 1..n : p[i] \in 1..n /\ Is(i, p[i])
  OBVIOUS
<1> HIDE DEF p
<1>2. \A i, j \in 1..n : comp1(l[i], l[j]) = comp1(s[p[i]], s[p[j]])
  <2> TAKE i, j \in 1..n
  <2>1. Is(i, p[i]) /\ Is(j, p[j])
    BY <1>1
  <2> QED
    BY <2>1 DEF comp1
<1> HIDE DEF Is
<1>3. \A i, j, k \in 1..n :
        /\ comp1(s[i], s[j]) < 0 <=> comp1(s[j], s[i]) > 0
        /\ comp1(s[i], s[j]) <= 0 /\ comp1(s[j], s[k]) <= 0 => comp1(s[i], s[k]) <= 0
  BY DEF IsOrdered
<1> SUFFICES ASSUME NEW i \in 1..n, NEW j \in 1..n, NEW k \in 1..n
             PROVE  /\ comp1(l[i], l[j]) < 0 <=> comp1(l[j], l[i]) > 0
                    /\ comp1(l[i], l[j]) <= 0 /\ comp1(l[j], l[k]) <= 0 => comp1(l[i], l[k]) <= 0
  BY DEF IsOrdered
<1>4. p[i] \in 1..n /\ p[j] \in 1..n /\ p[k] \in 1..n
  BY <1>1
<1>5. /\ comp1(l[i], l[j]) = comp1(s[p[i]], s[p[j]]) /\ comp1(l[j], l[i]) = comp1(s[p[j]], s[p[i]])
      /\ comp1(l[j], l[k]) = comp1(s[p[j]], s[p[k]]) /\ comp1(l[i], l[k]) = comp1(s[p[i]], s[p[k]])
  BY <1>2
<1>6. /\ comp1(s[p[i]], s[p[j]]) < 0 <=> comp1(s[p[j]], s[p[i]]) > 0
      /\ comp1(s[p[i]], s[p[j]]) <= 0 /\ comp1(s[p[j]], s[p[k]]) <= 0
           => comp1(s[p[i]], s[p[k]]) <= 0
  BY <1>3, <1>4
<1> QED
  BY <1>5, <1>6

(* An order finds no difference between an entry and itself. *)
LEMMA SelfOrder ==
  ASSUME FinddupInv, NEW f, EntryOK(f), comp1(f, f) < 0 <=> comp1(f, f) > 0
  PROVE  AsInt(0) = 0
<1>1. f \in Entry /\ data[f.inode] \in Contents
  BY DEF EntryOK, FinddupInv, Entry
<1>2. Contents # {} /\ data[f.inode] \in Seq(0..255)
  BY <1>1, FinddupAssumption
<1>3. f.length \in Int
  BY <1>2, LenProperties DEF EntryOK
<1>4. f.length - f.length = 0 /\ AsInt(0) \in Int
  BY <1>2, <1>3, AsIntType
<1>5. AsInt(0) # 0 => comp1(f, f) = AsInt(0)
  BY <1>4, CompFirst
<1> QED
  BY <1>4, <1>5

(* Two names of an inode have the same key. *)
LEMMA InodeKey ==
  ASSUME NEW l, ListOK(l), NEW n, n = Len(l), Summed(l, n), NEW i \in 1..n, NEW j \in 1..n,
         data[l[i].inode] = data[l[j].inode]
  PROVE  SameKey(l, i, j)
<1>1. EntryOK(l[i]) /\ EntryOK(l[j])
  BY DEF ListOK
<1>2. l[i].length = l[j].length
  BY <1>1 DEF EntryOK
<1>3. i # j => "CRC" \in l[i].flags /\ "CRC" \in l[j].flags
  BY <1>2 DEF Summed, Has
<1>4. i # j => l[i].crc32 = l[j].crc32
  BY <1>1, <1>3 DEF EntryOK
<1> QED
  BY <1>2, <1>4 DEF SameKey

(* What a sort puts together. *)
LEMMA SortedKeys ==
  ASSUME FinddupInv, FirstSortOrders, NEW s, ListOK(s), NEW n \in Nat, n = Len(s), IsOrdered(s),
         \A i \in 1..(n - 1) : comp1(s[i], s[i + 1]) <= 0, Summed(s, n)
  PROVE  KeysTogether(s, n) /\ (InodesDiffer => InodesTogether(s, n))
<1>1. DOMAIN s = 1..n /\ \A i \in 1..n : EntryOK(s[i]) /\ s[i].nameloc \in Listed
  BY LenProperties DEF ListOK
<1>2. \A i, j, k \in 1..n : /\ comp1(s[i], s[j]) < 0 <=> comp1(s[j], s[i]) > 0
                            /\ comp1(s[i], s[j]) <= 0 /\ comp1(s[j], s[k]) <= 0
                                 => comp1(s[i], s[k]) <= 0
  BY <1>1 DEF IsOrdered
<1>3. \A i, j \in 1..n : i < j => comp1(s[i], s[j]) <= 0
  BY <1>2, SortedInOrder
<1>4. ASSUME NEW i \in 1..n, NEW j \in 1..n, NEW k \in 1..n, i < j, j < k, SameKey(s, i, k)
      PROVE  /\ SameKey(s, i, j)
             /\ InodesDiffer /\ s[i].inode = s[k].inode => s[j].inode = s[i].inode
  <2>1. PICK f, g, h : f = s[i] /\ g = s[j] /\ h = s[k]
    OBVIOUS
  <2>2. /\ EntryOK(f) /\ EntryOK(g) /\ EntryOK(h)
        /\ f.nameloc \in Listed /\ g.nameloc \in Listed /\ h.nameloc \in Listed
    BY <1>1, <2>1
  <2>3. comp1(f, g) <= 0 /\ comp1(g, h) <= 0
    BY <1>3, <1>4, <2>1
  <2>4. comp1(f, g) < 0 <=> comp1(g, f) > 0
    BY <1>2, <2>1
  <2>5. comp1(f, f) < 0 <=> comp1(f, f) > 0
    BY <1>2, <2>1
  <2>6. AsInt(0) = 0
    BY <2>2, <2>5, SelfOrder
  <2>7. f.length = h.length /\ f.crc32 = h.crc32
    BY <1>4, <2>1 DEF SameKey
  <2>8. /\ f.length = g.length /\ f.crc32 = g.crc32
        /\ InodesDiffer /\ f.inode = h.inode => g.inode = f.inode
    BY <2>2, <2>3, <2>4, <2>6, <2>7, Between
  <2> QED
    BY <2>1, <2>8 DEF SameKey
<1>5. KeysTogether(s, n)
  BY <1>4 DEF KeysTogether
<1>6. ASSUME InodesDiffer
      PROVE  InodesTogether(s, n)
  <2> SUFFICES ASSUME NEW i \in 1..n, NEW j \in 1..n, NEW k \in 1..n,
                      i < j, j < k, s[i].inode = s[k].inode
               PROVE  s[j].inode = s[i].inode
    BY DEF InodesTogether
  <2>1. data[s[i].inode] = data[s[k].inode]
    OBVIOUS
  <2>2. SameKey(s, i, k)
    BY <2>1, InodeKey
  <2> QED
    BY <1>4, <1>6, <2>2
<1> QED
  BY <1>5, <1>6

(* Where scan1 finds no neighbours of equal length, all lengths differ. *)
LEMMA LengthsDiffer ==
  ASSUME NEW l, NEW n \in Nat, n = Len(l), LengthsTogether(l),
         \A i \in 2..n : l[i - 1].length # l[i].length
  PROVE  \A i, j \in 1..n : l[i].length = l[j].length => i = j
<1>1. ASSUME NEW i \in 1..n, NEW j \in 1..n, i < j
      PROVE  l[i].length # l[j].length
  <2>1. i + 1 \in 2..n /\ (i + 1) - 1 = i /\ i + 1 \in 1..n /\ i < i + 1
    BY <1>1
  <2>2. l[i].length # l[i + 1].length
    BY <2>1
  <2>3. CASE i + 1 = j
    BY <2>2, <2>3
  <2>4. CASE i + 1 < j
    BY <2>1, <2>2, <2>4 DEF LengthsTogether
  <2> QED
    BY <1>1, <2>3, <2>4
<1> QED
  <2> SUFFICES ASSUME NEW i \in 1..n, NEW j \in 1..n, i # j
               PROVE  l[i].length # l[j].length
    OBVIOUS
  <2>1. i < j \/ j < i
    OBVIOUS
  <2> QED
    BY <1>1, <2>1

(* Then no two entries have a key or an inode in common. *)
LEMMA DifferentKeys ==
  ASSUME NEW s, ListOK(s), NEW n \in Nat, n = Len(s),
         \A i, j \in 1..n : s[i].length = s[j].length => i = j
  PROVE  KeysTogether(s, n) /\ InodesTogether(s, n)
<1>1. KeysTogether(s, n)
  <2> SUFFICES ASSUME NEW i \in 1..n, NEW j \in 1..n, NEW k \in 1..n,
                      i < j, j < k, SameKey(s, i, k)
               PROVE  FALSE
    BY DEF KeysTogether
  <2>1. i = k
    BY DEF SameKey
  <2> QED
    BY <2>1
<1>2. InodesTogether(s, n)
  <2> SUFFICES ASSUME NEW i \in 1..n, NEW j \in 1..n, NEW k \in 1..n,
                      i < j, j < k, s[i].inode = s[k].inode
               PROVE  FALSE
    BY DEF InodesTogether
  <2>1. EntryOK(s[i]) /\ EntryOK(s[k])
    BY DEF ListOK
  <2>2. s[i].length = s[k].length
    BY <2>1 DEF EntryOK
  <2>3. i = k
    BY <2>2
  <2> QED
    BY <2>3
<1> QED
  BY <1>1, <1>2

-----------------------------------------------------------------------------
(* The loop over duplicates, with d, l, n, x, b and e as in DupsOK.  The   *)
(* entries from x to e have one key; those before b are duplicates, and    *)
(* from b to e none is left that equals the one at x.                      *)
Compared(l, n, x, e) == \A i \in 1..n : x <= i /\ i < e => SameKey(l, x, i)
GroupDups(l, n, x, b) == \A i \in 1..n : x < i /\ i < b => Has(l, "DUP", i)
NoneLeft(d, l, n, x, b, e) ==
  \A i \in 1..n : b <= i /\ i < e /\ ~(i = b /\ Has(l, "DUP", i)) => At(d, l, i) # At(d, l, x)
LaterDups(d, l, n, x) ==
  \A i, j \in 1..n : i < j /\ i < x /\ At(d, l, i) = At(d, l, j) => Has(l, "DUP", j)

GroupFound(d, l, n, x, b, e) ==
  /\ KeysTogether(l, n)
  /\ Compared(l, n, x, e)
  /\ GroupDups(l, n, x, b)
  /\ NoneLeft(d, l, n, x, b, e)
  /\ LaterDups(d, l, n, x)

(* Every inode has a name that is not flagged as a link. *)
PlainNames(l, n) == \A i \in 1..n : \E j \in 1..n : l[j].inode = l[i].inode /\ ~Has(l, "LNK", j)

(* s is l with the entry at e moved to b and flagged as a duplicate. *)
SameFile(s, i, l, o) ==
  /\ s[i].length = l[o].length /\ s[i].crc32 = l[o].crc32 /\ s[i].inode = l[o].inode
  /\ Has(s, "LNK", i) <=> Has(l, "LNK", o)
Origin(i, b, e) == IF i = b THEN e ELSE IF b < i /\ i <= e THEN i - 1 ELSE i
Moved(l, s, n, b, e) ==
  \A i \in 1..n : /\ SameFile(s, i, l, Origin(i, b, e))
                  /\ Has(s, "DUP", i) <=> (i = b \/ Has(l, "DUP", Origin(i, b, e)))

(* A duplicate moves within the entries of one key. *)
LEMMA MoveFound ==
  ASSUME NEW d, NEW l, NEW s, NEW n \in Nat, NEW x \in Nat, NEW e \in 1..n, NEW b \in 1..e,
         0 < x, x < b, Moved(l, s, n, b, e), GroupFound(d, l, n, x, b, e), SameKey(l, x, e),
         NEW c, c = IF b = e THEN b ELSE b + 1
  PROVE  GroupFound(d, s, n, x, c, e + 1)
<1>1. \A i \in 1..n : x <= i /\ i <= e => SameKey(l, x, i)
  <2> SUFFICES ASSUME NEW i \in 1..n, x <= i, i <= e
               PROVE  SameKey(l, x, i)
    OBVIOUS
  <2>1. CASE i = e
    BY <2>1
  <2>2. CASE i < e
    BY <2>2 DEF GroupFound, Compared
  <2> QED
    BY <2>1, <2>2
<1>2. \A i \in 1..n : s[i].length = l[i].length /\ s[i].crc32 = l[i].crc32
  <2> TAKE i \in 1..n
  <2>1. SameFile(s, i, l, Origin(i, b, e))
    BY DEF Moved
  <2>2. CASE i < b \/ e < i
    <3>1. Origin(i, b, e) = i
      BY <2>2 DEF Origin
    <3> QED
      BY <2>1, <3>1 DEF SameFile
  <2>3. CASE b <= i /\ i <= e
    <3>1. Origin(i, b, e) \in 1..n /\ x <= Origin(i, b, e) /\ Origin(i, b, e) <= e
      BY <2>3 DEF Origin
    <3>2. SameKey(l, x, Origin(i, b, e)) /\ SameKey(l, x, i)
      BY <1>1, <2>3, <3>1
    <3> QED
      BY <2>1, <3>2 DEF SameFile, SameKey
  <2> QED
    BY <2>2, <2>3
<1>3. x \in 1..n /\ Origin(x, b, e) = x
  BY DEF Origin
<1>4. At(d, s, x) = At(d, l, x)
  BY <1>3 DEF Moved, SameFile, At
<1>5. \A i \in 1..n : At(d, s, i) = At(d, l, Origin(i, b, e))
  BY DEF Moved, SameFile, At
<1>6. KeysTogether(s, n)
  BY <1>2 DEF GroupFound, KeysTogether, SameKey
<1>7. Compared(s, n, x, e + 1)
  <2> SUFFICES ASSUME NEW i \in 1..n, x <= i, i < e + 1
               PROVE  SameKey(s, x, i)
    BY DEF Compared
  <2>1. SameKey(l, x, i)
    BY <1>1
  <2> QED
    BY <1>2, <1>3, <2>1 DEF SameKey
<1>8. GroupDups(s, n, x, c)
  <2> SUFFICES ASSUME NEW i \in 1..n, x < i, i < c
               PROVE  Has(s, "DUP", i)
    BY DEF GroupDups
  <2>1. CASE i = b
    BY <2>1 DEF Moved
  <2>2. CASE i < b
    <3>1. Has(l, "DUP", i) /\ Origin(i, b, e) = i
      BY <2>2 DEF GroupFound, GroupDups, Origin
    <3> QED
      BY <3>1 DEF Moved
  <2> QED
    BY <2>1, <2>2
<1>9. NoneLeft(d, s, n, x, c, e + 1)
  <2> SUFFICES ASSUME NEW i \in 1..n, c <= i, i < e + 1, ~(i = c /\ Has(s, "DUP", i))
               PROVE  At(d, s, i) # At(d, s, x)
    BY DEF NoneLeft
  <2>1. b # e
    <3> SUFFICES ASSUME b = e
                 PROVE  FALSE
      OBVIOUS
    <3>1. i = b /\ c = b
      OBVIOUS
    <3> QED
      BY <3>1 DEF Moved
  <2>2. Origin(i, b, e) = i - 1 /\ i - 1 \in 1..n /\ b <= i - 1 /\ i - 1 < e /\ i # b
    BY <2>1 DEF Origin
  <2>3. Has(s, "DUP", i) <=> Has(l, "DUP", i - 1)
    BY <2>2 DEF Moved
  <2>4. ~(i - 1 = b /\ Has(l, "DUP", i - 1))
    BY <2>1, <2>3
  <2>5. At(d, l, i - 1) # At(d, l, x)
    BY <2>2, <2>4 DEF GroupFound, NoneLeft
  <2> QED
    BY <1>4, <1>5, <2>2, <2>5
<1>10. LaterDups(d, s, n, x)
  <2> SUFFICES ASSUME NEW i \in 1..n, NEW j \in 1..n, i < j, i < x, At(d, s, i) = At(d, s, j)
               PROVE  Has(s, "DUP", j)
    BY DEF LaterDups
  <2>1. CASE j = b
    BY <2>1 DEF Moved
  <2>2. CASE j # b
    <3>1. Origin(j, b, e) \in 1..n /\ i < Origin(j, b, e) /\ Origin(i, b, e) = i
      BY <2>2 DEF Origin
    <3>2. At(d, l, i) = At(d, l, Origin(j, b, e))
      BY <1>5, <3>1
    <3>3. Has(l, "DUP", Origin(j, b, e))
      BY <3>1, <3>2 DEF GroupFound, LaterDups
    <3> QED
      BY <3>3 DEF Moved
  <2> QED
    BY <2>1, <2>2
<1> QED
  BY <1>6, <1>7, <1>8, <1>9, <1>10 DEF GroupFound

(* Moving an entry leaves each inode its name that is no link. *)
LEMMA MovePlain ==
  ASSUME NEW l, NEW s, NEW n \in Nat, NEW e \in 1..n, NEW b \in 1..e,
         Moved(l, s, n, b, e), PlainNames(l, n)
  PROVE  PlainNames(s, n)
<1> SUFFICES ASSUME NEW i \in 1..n
             PROVE  \E j \in 1..n : s[j].inode = s[i].inode /\ ~Has(s, "LNK", j)
  BY DEF PlainNames
<1>1. Origin(i, b, e) \in 1..n /\ s[i].inode = l[Origin(i, b, e)].inode
  BY DEF Origin, Moved, SameFile
<1>2. PICK k \in 1..n : l[k].inode = l[Origin(i, b, e)].inode /\ ~Has(l, "LNK", k)
  BY <1>1 DEF PlainNames
<1> DEFINE j == IF k = e THEN b ELSE IF b <= k /\ k < e THEN k + 1 ELSE k
<1>3. j \in 1..n /\ Origin(j, b, e) = k
  BY DEF Origin
<1> HIDE DEF j
<1>4. s[j].inode = l[k].inode /\ ~Has(s, "LNK", j)
  BY <1>2, <1>3 DEF Moved, SameFile
<1> QED
  BY <1>1, <1>2, <1>3, <1>4

(* An entry that does not equal the one at x is left behind. *)
LEMMA SkipFound ==
  ASSUME NEW d, NEW l, NEW n \in Nat, NEW x \in Nat, NEW b \in Nat, NEW e \in 1..n,
         b < e \/ b = e, GroupFound(d, l, n, x, b, e), SameKey(l, x, e),
         At(d, l, e) # At(d, l, x)
  PROVE  GroupFound(d, l, n, x, b, e + 1)
<1>1. Compared(l, n, x, e + 1)
  <2> SUFFICES ASSUME NEW i \in 1..n, x <= i, i < e + 1
               PROVE  SameKey(l, x, i)
    BY DEF Compared
  <2>1. i = e \/ i < e
    OBVIOUS
  <2> QED
    BY <2>1 DEF GroupFound, Compared
<1>2. NoneLeft(d, l, n, x, b, e + 1)
  <2> SUFFICES ASSUME NEW i \in 1..n, b <= i, i < e + 1, ~(i = b /\ Has(l, "DUP", i))
               PROVE  At(d, l, i) # At(d, l, x)
    BY DEF NoneLeft
  <2>1. i = e \/ i < e
    OBVIOUS
  <2> QED
    BY <2>1 DEF GroupFound, NoneLeft
<1> QED
  BY <1>1, <1>2 DEF GroupFound

(* Behind a group there is no equal file: its key would be the group's. *)
LEMMA GroupEnds ==
  ASSUME NEW d, NEW l, NEW n \in Nat, NEW x \in 1..n, NEW b \in Nat, NEW e \in Nat,
         x < b, b <= e, GroupFound(d, l, n, x, b, e), GroupEqual(d, l, n, x, b),
         e <= n => ~SameKey(l, x, e),
         \A i, j \in 1..n : At(d, l, i) = At(d, l, j) => SameKey(l, i, j)
  PROVE  GroupFound(d, l, n, b, b + 1, b + 1)
<1>1. LaterDups(d, l, n, b)
  <2> SUFFICES ASSUME NEW i \in 1..n, NEW j \in 1..n, i < j, i < b, At(d, l, i) = At(d, l, j),
                      ~Has(l, "DUP", j)
               PROVE  FALSE
    BY DEF LaterDups
  <2>1. x <= i
    BY DEF GroupFound, LaterDups
  <2>2. At(d, l, i) = At(d, l, x)
    BY <2>1 DEF GroupEqual
  <2>3. SameKey(l, x, j)
    BY <2>2
  <2>4. b <= j
    BY <2>1 DEF GroupFound, GroupDups
  <2>5. e <= j
    <3> SUFFICES ASSUME j < e
                 PROVE  FALSE
      OBVIOUS
    <3>1. NoneLeft(d, l, n, x, b, e)
      BY DEF GroupFound
    <3>2. At(d, l, j) # At(d, l, x)
      BY <2>4, <3>1 DEF NoneLeft
    <3> QED
      BY <2>2, <3>2
  <2>6. e \in 1..n /\ e # j /\ e < j /\ x < e
    BY <2>3, <2>5
  <2>7. SameKey(l, x, e)
    BY <2>3, <2>6 DEF GroupFound, KeysTogether
  <2> QED
    BY <2>6, <2>7
<1>2. Compared(l, n, b, b + 1)
  <2>1. \A i \in 1..n : b <= i /\ i < b + 1 => i = b
    OBVIOUS
  <2> QED
    BY <2>1 DEF Compared, SameKey
<1>3. GroupDups(l, n, b, b + 1) /\ NoneLeft(d, l, n, b, b + 1, b + 1)
  BY DEF GroupDups, NoneLeft
<1> QED
  BY <1>1, <1>2, <1>3 DEF GroupFound

(* The first group. *)
LEMMA FirstFound ==
  ASSUME NEW d, NEW l, NEW n \in Nat, KeysTogether(l, n)
  PROVE  GroupFound(d, l, n, 1, 2, 2)
<1>1. Compared(l, n, 1, 2)
  <2>1. \A i \in 1..n : 1 <= i /\ i < 2 => i = 1
    OBVIOUS
  <2> QED
    BY <2>1 DEF Compared, SameKey
<1>2. GroupDups(l, n, 1, 2) /\ NoneLeft(d, l, n, 1, 2, 2) /\ LaterDups(d, l, n, 1)
  BY DEF GroupDups, NoneLeft, LaterDups
<1> QED
  BY <1>1, <1>2 DEF GroupFound

(* The first name of an inode in the list is not flagged. *)
LEMMA FirstPlain ==
  ASSUME NEW l, NEW n \in Nat, LinksOK(l, n)
  PROVE  PlainNames(l, n)
<1> SUFFICES ASSUME NEW i \in 1..n
             PROVE  \E j \in 1..n : l[j].inode = l[i].inode /\ ~Has(l, "LNK", j)
  BY DEF PlainNames
<1> DEFINE T == {j \in 1..n : l[j].inode = l[i].inode}
<1>1. T \in SUBSET Nat /\ T # {}
  OBVIOUS
<1>2. PICK j \in T : \A k \in T : j <= k
  BY <1>1, LeastIndex
<1>3. ASSUME Has(l, "LNK", j)
      PROVE  FALSE
  <2>1. j > 1 /\ l[j].inode = l[j - 1].inode
    BY <1>3 DEF LinksOK
  <2>2. j - 1 \in T /\ ~(j <= j - 1)
    BY <2>1
  <2> QED
    BY <1>2, <2>2
<1> QED
  BY <1>2, <1>3

-----------------------------------------------------------------------------
(* The hard link summary q, as far as the entries before x.                *)
NamesOf(i) == {m \in Listed : names[m] = i}
Several(i) == Cardinality(NamesOf(i)) > 1

LinksSoFar(q, l, n, x) ==
  /\ \A i, j \in 1..n : i < x /\ x <= j => l[i].inode # l[j].inode
  /\ \A k \in 1..Len(q) :
       \E i \in 1..n : Range(q[k]) = NamesOf(l[i].inode) /\ Several(l[i].inode)
  /\ \A i \in 1..n : i < x /\ Several(l[i].inode) =>
       \E k \in 1..Len(q) : Range(q[k]) = NamesOf(l[i].inode)

LinksFound ==
  {Range(links[k]) : k \in DOMAIN links}
    = {S \in {{m \in Listed : names[m] = i} : i \in Inodes} : Cardinality(S) > 1}

(* No two entries have the same name. *)
LEMMA NamesDiffer ==
  ASSUME FinddupInv, NEW l, ListOK(l),
         NEW i \in 1..Len(l), NEW j \in 1..Len(l), i # j
  PROVE  l[i].nameloc # l[j].nameloc
<1> DEFINE n == Len(l)
           f == [k \in 1..n |-> l[k].nameloc]
<1>1. n \in Nat /\ n = Cardinality(Listed)
  BY LenProperties DEF ListOK
<1>2. f \in [1..n -> Listed] /\ \A m \in Listed : \E k \in 1..n : f[k] = m
  BY DEF ListOK
<1> HIDE DEF n
<1>3. f \in Surjection(1..n, Listed)
  BY <1>2 DEF Surjection
<1>4. IsFiniteSet(1..n) /\ Cardinality(1..n) = n
  BY <1>1, FS_Interval
<1>5. f \in Injection(1..n, Listed)
  BY <1>1, <1>3, <1>4, FS_Surjection
<1>6. \A x, y \in 1..n : f[x] = f[y] => x = y
  BY <1>5 DEF Injection, IsInjective
<1> QED
  BY <1>6 DEF n

(* The names of an inode, from the entries. *)
LEMMA NamesOfEntries ==
  ASSUME NEW l, ListOK(l), NEW n, n = Len(l), NEW v
  PROVE  /\ \A i \in 1..n : l[i].inode = v => l[i].nameloc \in NamesOf(v)
         /\ \A m \in NamesOf(v) : \E i \in 1..n : l[i].inode = v /\ l[i].nameloc = m
<1>1. \A i \in 1..n : l[i].inode = names[l[i].nameloc] /\ l[i].nameloc \in Listed
  BY DEF ListOK, EntryOK
<1>2. \A m \in Listed : \E i \in 1..n : l[i].nameloc = m
  BY DEF ListOK
<1> QED
  BY <1>1, <1>2 DEF NamesOf

(* The run of an inode is an interval. *)
LEMMA RunInterval ==
  ASSUME ix \in 1..n_files, n_files \in Nat
  PROVE  \E last \in ix..n_files : /\ LinkRun = ix..last /\ Cardinality(LinkRun) = last - ix + 1
                                   /\ \A k \in ix..last : filelist[k].inode = filelist[ix].inode
                                   /\ last < n_files => filelist[last + 1].inode # filelist[ix].inode
<1> DEFINE n == n_files
           T == {k \in ix..n : filelist[k].inode # filelist[ix].inode}
<1>1. PICK last \in ix..n : /\ \A k \in ix..last : filelist[k].inode = filelist[ix].inode
                            /\ last < n => filelist[last + 1].inode # filelist[ix].inode
  <2>1. CASE T = {}
    BY <2>1
  <2>2. CASE T # {}
    <3>1. T \in SUBSET Nat
      OBVIOUS
    <3>2. PICK k \in T : \A y \in T : k <= y
      BY <2>2, <3>1, LeastIndex
    <3>3. k \in ix..n /\ filelist[k].inode # filelist[ix].inode /\ k # ix
      OBVIOUS
    <3>4. k - 1 \in ix..n /\ (k - 1) + 1 = k
      BY <3>3
    <3>5. \A y \in ix..(k - 1) : y \notin T /\ y \in ix..n
      BY <3>2, <3>3
    <3> QED
      BY <3>3, <3>4, <3>5
  <2> QED
    BY <2>1, <2>2
<1>2. LinkRun = ix..last
  <2>1. ASSUME NEW j \in LinkRun
        PROVE  j \in ix..last
    <3>1. j \in ix..n /\ \A k \in ix..j : filelist[k].inode = filelist[ix].inode
      BY DEF LinkRun
    <3>2. ASSUME last < j
          PROVE  FALSE
      <4>1. last + 1 \in ix..j /\ last < n
        BY <3>1, <3>2
      <4> QED
        BY <1>1, <3>1, <4>1
    <3> QED
      BY <3>1, <3>2
  <2>2. ASSUME NEW j \in ix..last
        PROVE  j \in LinkRun
    <3>1. j \in ix..n /\ \A k \in ix..j : k \in ix..last
      OBVIOUS
    <3> QED
      BY <1>1, <3>1 DEF LinkRun
  <2> QED
    BY <2>1, <2>2
<1>3. Cardinality(ix..last) = last - ix + 1
  BY FS_Interval
<1> QED
  BY <1>1, <1>2, <1>3

(* An inode has several names if and only if its run has several entries. *)
LEMMA SeveralNames ==
  ASSUME FinddupInv, NEW l, ListOK(l), NEW n, n = Len(l),
         NEW i \in 1..n
  PROVE  Several(l[i].inode) <=> \E j \in 1..n : j # i /\ l[j].inode = l[i].inode
<1> DEFINE v == l[i].inode
           m == l[i].nameloc
<1>1. IsFiniteSet(NamesOf(v)) /\ m \in NamesOf(v)
  <2>1. IsFiniteSet(Listed) /\ NamesOf(v) \in SUBSET Listed
    BY ListedFinite DEF NamesOf
  <2> QED
    BY <2>1, FS_Subset, NamesOfEntries
<1>2. ASSUME NEW j \in 1..n, j # i, l[j].inode = v
      PROVE  Several(v)
  <2> DEFINE p == l[j].nameloc
  <2>1. p \in NamesOf(v) /\ p # m
    BY <1>2, NamesOfEntries, NamesDiffer
  <2> HIDE DEF p, m, v
  <2>2. PICK A : A = {m} /\ IsFiniteSet(A) /\ Cardinality(A) = 1
    BY FS_Singleton
  <2>3. p \notin A
    BY <2>1, <2>2
  <2>4. PICK B : B = A \cup {p}
    OBVIOUS
  <2>5. B \in SUBSET NamesOf(v)
    BY <1>1, <2>1, <2>2, <2>4
  <2>6. Cardinality(B) <= Cardinality(NamesOf(v)) /\ Cardinality(NamesOf(v)) \in Nat
    BY <1>1, <2>5, FS_Subset, FS_CardinalityType
  <2>7. Cardinality(B) = Cardinality(A) + 1
    BY <2>2, <2>3, <2>4, FS_AddElement
  <2>8. Cardinality(NamesOf(v)) > 1
    BY <2>2, <2>6, <2>7
  <2> QED
    BY <2>8 DEF Several
<1>3. ASSUME Several(v), \A j \in 1..n : j # i => l[j].inode # v
      PROVE  FALSE
  <2>1. NamesOf(v) = {m}
    <3>1. \A p \in NamesOf(v) : p = m
      <4> TAKE p \in NamesOf(v)
      <4>1. PICK j \in 1..n : l[j].inode = v /\ l[j].nameloc = p
        BY NamesOfEntries
      <4> QED
        BY <1>3, <4>1
    <3> QED
      BY <1>1, <3>1
  <2>2. Cardinality(NamesOf(v)) = 1
    BY <2>1, FS_Singleton
  <2>3. Cardinality(NamesOf(v)) > 1
    BY <1>3 DEF Several
  <2> HIDE DEF m, v
  <2> QED
    BY <2>2, <2>3
<1> QED
  BY <1>2, <1>3

RunLine(r, l, x, y) ==
  r \in Seq(Nat) /\ r = [j \in 1..(y - x + 1) |-> l[x + j - 1].nameloc]
WithLine(w, q, r, added) == q \in Seq(Seq(Nat)) /\ w = IF added THEN Append(q, r) ELSE q

(* A run of links is added to the summary. *)
LEMMA RunFound ==
  ASSUME FinddupInv, NEW l, ListOK(l), NEW n \in Nat, n = Len(l),
         InodesTogether(l, n), NEW x \in 1..n, NEW y \in x..n,
         \A k \in x..y : l[k].inode = l[x].inode,
         y < n => l[y + 1].inode # l[x].inode,
         NEW q, LinksSoFar(q, l, n, x), NEW r, RunLine(r, l, x, y), NEW w, WithLine(w, q, r, x # y)
  PROVE  LinksSoFar(w, l, n, y + 1)
<1> DEFINE v == l[x].inode
<1>1. \A j \in 1..n : l[j].inode = v => x <= j /\ j <= y
  <2> SUFFICES ASSUME NEW j \in 1..n, l[j].inode = v
               PROVE  x <= j /\ j <= y
    OBVIOUS
  <2>1. x <= j
    BY DEF LinksSoFar
  <2>2. ASSUME y < j
        PROVE  FALSE
    <3>1. y + 1 \in 1..n /\ x < y + 1 /\ y + 1 <= j /\ y < n
      BY <2>2
    <3>2. y + 1 # j
      BY <3>1
    <3>3. l[y + 1].inode = v
      BY <3>1, <3>2 DEF InodesTogether
    <3> QED
      BY <3>1, <3>3
  <2> QED
    BY <2>1, <2>2
<1>2. \A i, j \in 1..n : i < y + 1 /\ y + 1 <= j => l[i].inode # l[j].inode
  <2> SUFFICES ASSUME NEW i \in 1..n, NEW j \in 1..n, i < y + 1, y + 1 <= j
               PROVE  l[i].inode # l[j].inode
    OBVIOUS
  <2>1. CASE i < x
    BY <2>1 DEF LinksSoFar
  <2>2. CASE x <= i
    <3>1. l[i].inode = v
      BY <2>2
    <3> QED
      BY <1>1, <3>1
  <2> QED
    BY <2>1, <2>2
<1>3. Several(v) <=> x # y
  <2>1. Several(v) <=> \E j \in 1..n : j # x /\ l[j].inode = v
    BY SeveralNames
  <2>2. x # y => y \in 1..n /\ l[y].inode = v
    OBVIOUS
  <2> QED
    BY <1>1, <2>1, <2>2
<1>4. Range(r) = NamesOf(v)
  <2>1. DOMAIN r = 1..(y - x + 1) /\ \A j \in 1..(y - x + 1) : r[j] = l[x + j - 1].nameloc
    BY DEF RunLine
  <2>2. ASSUME NEW j \in DOMAIN r
        PROVE  r[j] \in NamesOf(v)
    <3>1. x + j - 1 \in x..y /\ x + j - 1 \in 1..n
      BY <2>1
    <3>2. l[x + j - 1].inode = v
      BY <3>1
    <3> QED
      BY <2>1, <3>1, <3>2, NamesOfEntries
  <2>3. ASSUME NEW m \in NamesOf(v)
        PROVE  \E j \in DOMAIN r : r[j] = m
    <3>1. PICK i \in 1..n : l[i].inode = v /\ l[i].nameloc = m
      BY NamesOfEntries
    <3>2. i - x + 1 \in 1..(y - x + 1) /\ x + (i - x + 1) - 1 = i
      BY <1>1, <3>1
    <3> QED
      BY <2>1, <3>1, <3>2
  <2> HIDE DEF v
  <2>4. \A m : m \in Range(r) <=> \E j \in DOMAIN r : r[j] = m
    BY DEF Range
  <2>5. \A m : m \in Range(r) <=> m \in NamesOf(v)
    BY <2>2, <2>3, <2>4
  <2> QED
    BY <2>5
<1>5. CASE x # y
  <2>1. /\ Len(w) = Len(q) + 1 /\ w[Len(q) + 1] = r /\ Len(q) \in Nat
        /\ \A k \in 1..Len(q) : w[k] = q[k]
    <3>1. w = Append(q, r) /\ q \in Seq(Seq(Nat)) /\ r \in Seq(Nat)
      BY <1>5 DEF WithLine, RunLine
    <3> QED
      BY <3>1, AppendProperties, LenProperties
  <2>2. ASSUME NEW k \in 1..Len(w)
        PROVE  \E i \in 1..n : Range(w[k]) = NamesOf(l[i].inode) /\ Several(l[i].inode)
    <3>1. CASE k = Len(q) + 1
      BY <1>3, <1>4, <1>5, <2>1, <3>1
    <3>2. CASE k \in 1..Len(q)
      BY <2>1, <3>2 DEF LinksSoFar
    <3> QED
      BY <2>1, <3>1, <3>2
  <2>3. ASSUME NEW i \in 1..n, i < y + 1, Several(l[i].inode)
        PROVE  \E k \in 1..Len(w) : Range(w[k]) = NamesOf(l[i].inode)
    <3>1. CASE i < x
      <4>1. PICK k \in 1..Len(q) : Range(q[k]) = NamesOf(l[i].inode)
        BY <2>3, <3>1 DEF LinksSoFar
      <4>2. k \in 1..Len(w) /\ w[k] = q[k]
        BY <2>1
      <4> QED
        BY <4>1, <4>2
    <3>2. CASE x <= i
      <4>1. l[i].inode = v /\ Len(q) + 1 \in 1..Len(w)
        BY <2>1, <2>3, <3>2
      <4> QED
        BY <1>4, <2>1, <4>1
    <3> QED
      BY <3>1, <3>2
  <2> QED
    BY <1>2, <2>2, <2>3 DEF LinksSoFar
<1>6. CASE x = y
  <2>1. w = q /\ ~Several(v)
    BY <1>3, <1>6 DEF WithLine
  <2>2. ASSUME NEW i \in 1..n, i < y + 1, Several(l[i].inode)
        PROVE  \E k \in 1..Len(w) : Range(w[k]) = NamesOf(l[i].inode)
    <3>1. i # x
      BY <2>1, <2>2
    <3>2. i < x
      BY <1>6, <2>2, <3>1
    <3> QED
      BY <2>1, <2>2, <3>2 DEF LinksSoFar
  <2>3. \A k \in 1..Len(w) :
          \E i \in 1..n : Range(w[k]) = NamesOf(l[i].inode) /\ Several(l[i].inode)
    BY <2>1 DEF LinksSoFar
  <2> QED
    BY <1>2, <2>2, <2>3 DEF LinksSoFar
<1> QED
  BY <1>5, <1>6

(* Behind the last entry the summary is complete. *)
LEMMA AllLinks ==
  ASSUME FinddupInv, links \in Seq(Seq(Nat)), LinksSoFar(links, filelist, n_files, ix),
         ix \in Nat, ix > n_files
  PROVE  LinksFound
<1> DEFINE n == n_files
           l == filelist
           All == {S \in {{m \in Listed : names[m] = i} : i \in Inodes} : Cardinality(S) > 1}
<1>1. /\ n \in Nat /\ n = Len(l) /\ \A i \in 1..n : l[i].inode \in Inodes
      /\ DOMAIN links = 1..Len(links) /\ ListOK(l)
  BY Entries, LenProperties DEF Entry, FinddupInv
<1>2. ASSUME NEW k \in DOMAIN links
      PROVE  Range(links[k]) \in All
  <2>1. PICK i \in 1..n : Range(links[k]) = NamesOf(l[i].inode) /\ Several(l[i].inode)
    BY <1>1 DEF LinksSoFar
  <2>2. l[i].inode \in Inodes
    BY <1>1
  <2> QED
    BY <2>1, <2>2 DEF NamesOf, Several
<1>3. ASSUME NEW S \in All
      PROVE  \E k \in DOMAIN links : Range(links[k]) = S
  <2>1. PICK v \in Inodes : S = NamesOf(v)
    BY DEF NamesOf
  <2>2. Cardinality(S) > 1
    OBVIOUS
  <2>3. S # {}
    <3> HIDE DEF All
    <3> SUFFICES ASSUME S = {}
                 PROVE  FALSE
      OBVIOUS
    <3>1. Cardinality(S) = 0
      BY FS_EmptySet
    <3> QED
      BY <2>2, <3>1
  <2>4. PICK m \in NamesOf(v) : TRUE
    BY <2>1, <2>3
  <2>5. PICK i \in 1..n : l[i].inode = v
    BY <1>1, <2>4, NamesOfEntries
  <2>6. i < ix /\ Several(l[i].inode)
    BY <1>1, <2>1, <2>2, <2>5 DEF Several
  <2>7. PICK k \in 1..Len(links) : Range(links[k]) = NamesOf(l[i].inode)
    BY <2>6 DEF LinksSoFar
  <2> QED
    BY <1>1, <2>1, <2>5, <2>7
<1> HIDE DEF All
<1>4. {Range(links[k]) : k \in DOMAIN links} = All
  BY <1>2, <1>3
<1> QED
  BY <1>4 DEF LinksFound, All

-----------------------------------------------------------------------------
(* scan3: what has been printed, q, when it comes to place x.  Every entry *)
(* of the group before x that is shown has a line after the last FILE, or  *)
(* is the head that is still to be printed.                                *)
Shown(l, i) == linkflag \/ ~Has(l, "LNK", i)
LineOf(q, m) == \E k \in 1..Len(q) : q[k][2] = m /\ FileLineIn(q, k) = FileLineIn(q, Len(q))
TogetherIn(q, m, p) ==
  \E j, k \in 1..Len(q) : q[j][2] = m /\ q[k][2] = p /\ FileLineIn(q, j) = FileLineIn(q, k)

InGroup(q, l, i, x, h) ==
  IF Has(l, "DUP", x - 1)
  THEN IF h = None THEN LineOf(q, l[i].nameloc) ELSE l[i].nameloc = h
  ELSE l[i].nameloc = l[x - 1].nameloc
HeadFound(q, d, l, n, x, h) ==
  \A i \in 1..n : i < x /\ x <= n + 1 /\ At(d, l, i) = At(d, l, x - 1) /\ Shown(l, i)
                  => InGroup(q, l, i, x, h)
PairsFound(q, d, l, n, x) ==
  \A i, j \in 1..n : i < j /\ j < x /\ At(d, l, i) = At(d, l, j) /\ Shown(l, i) /\ Shown(l, j)
                     => TogetherIn(q, l[i].nameloc, l[j].nameloc)

(* Lines stay together when another one is appended. *)
LEMMA AppendTogether ==
  ASSUME NEW q \in Seq(Line), NEW y \in Line, NEW m, NEW p, TogetherIn(q, m, p)
  PROVE  TogetherIn(Append(q, y), m, p)
<1>1. PICK r : r = Append(q, y)
  OBVIOUS
<1>2. /\ Len(q) \in Nat /\ Len(r) = Len(q) + 1
      /\ \A k \in 1..Len(q) : r[k] = q[k] /\ FileLineIn(r, k) = FileLineIn(q, k)
  BY <1>1, EarlierLines
<1>3. PICK j, k \in 1..Len(q) : q[j][2] = m /\ q[k][2] = p /\ FileLineIn(q, j) = FileLineIn(q, k)
  BY DEF TogetherIn
<1>4. j \in 1..Len(r) /\ k \in 1..Len(r)
  BY <1>2
<1> QED
  BY <1>1, <1>2, <1>3, <1>4 DEF TogetherIn

(* A line that is appended belongs to the last group, and so do the lines of *)
(* that group if it is not a FILE line.                                      *)
LEMMA AppendLine ==
  ASSUME NEW q \in Seq(Line), NEW y \in Line
  PROVE  /\ LineOf(Append(q, y), y[2])
         /\ \A m : y[1] # "FILE" /\ LineOf(q, m) => LineOf(Append(q, y), m)
<1>1. PICK r : r = Append(q, y)
  OBVIOUS
<1>2. /\ Len(q) \in Nat /\ Len(r) = Len(q) + 1 /\ r[Len(q) + 1] = y
      /\ \A k \in 1..Len(q) : r[k] = q[k] /\ FileLineIn(r, k) = FileLineIn(q, k)
  BY <1>1, EarlierLines
<1>3. LineOf(r, y[2])
  <2>1. Len(r) \in 1..Len(r) /\ r[Len(r)] = y
    BY <1>2
  <2> QED
    BY <2>1 DEF LineOf
<1>4. ASSUME NEW m, y[1] # "FILE", LineOf(q, m)
      PROVE  LineOf(r, m)
  <2>1. PICK k \in 1..Len(q) : q[k][2] = m /\ FileLineIn(q, k) = FileLineIn(q, Len(q))
    BY <1>4 DEF LineOf
  <2>2. FileLineIn(r, Len(q) + 1) = FileLineIn(q, Len(q))
    <3> DEFINE n == Len(q)
    <3> HIDE DEF n
    <3>1. {j \in 1..(n + 1) : r[j][1] = "FILE"} = {j \in 1..n : q[j][1] = "FILE"}
      BY <1>2, <1>4 DEF n
    <3> QED
      BY <3>1 DEF FileLineIn, n
  <2>3. k \in 1..Len(r) /\ r[k][2] = m /\ FileLineIn(r, k) = FileLineIn(r, Len(r))
    BY <1>2, <2>1, <2>2
  <2> QED
    BY <2>3 DEF LineOf
<1> QED
  BY <1>1, <1>3, <1>4

(* Two entries with lines in the last group are together. *)
LEMMA LinesTogether ==
  ASSUME NEW q, NEW m, NEW p, LineOf(q, m), LineOf(q, p)
  PROVE  TogetherIn(q, m, p)
BY DEF LineOf, TogetherIn

(* The head of a group, at a duplicate. *)
LEMMA HeadNameIs ==
  ASSUME FinddupInv, Summed(filelist, n_files), PrintOK(data, filelist, n_files),
         ix <= n_files, Has(filelist, "DUP", ix)
  PROVE  IF Has(filelist, "DUP", ix - 1) THEN HeadName = headfn
         ELSE HeadName = filelist[ix - 1].nameloc /\ HeadName # None
<1>1. n_files \in Nat /\ ix \in 1..n_files
  BY Entries DEF PrintOK
<1>2. ix > 1 /\ At(data, filelist, ix) = At(data, filelist, ix - 1)
  BY <1>1 DEF PrintOK, ListFinal, EqualBefore
<1>3. ix - 1 \in 1..n_files /\ ix # ix - 1 /\ 1 < ix /\ ix <= n_files + 1
  BY <1>1, <1>2
<1>4. Has(filelist, "CRC", ix - 1)
  BY <1>1, <1>2, <1>3, SameContent
<1>5. InMatch <=> inmatch
  BY DEF InMatch, Has
<1>6. CASE Has(filelist, "DUP", ix - 1)
  <2>1. inmatch
    BY <1>3, <1>6 DEF PrintOK, HeadOK
  <2> QED
    BY <1>5, <1>6, <2>1 DEF HeadName
<1>7. CASE ~Has(filelist, "DUP", ix - 1)
  <2>1. ~inmatch
    BY <1>3, <1>4, <1>7 DEF PrintOK, HeadOK
  <2>2. HeadName = filelist[ix - 1].nameloc
    BY <1>5, <2>1 DEF HeadName
  <2>3. EntryOK(filelist[ix - 1])
    BY <1>3, Entries
  <2> QED
    BY <1>7, <2>2, <2>3 DEF EntryOK, None
<1> QED
  BY <1>6, <1>7

(* What a step of scan3 does: the lines, and the head that is left. *)
PrintStep(q, h, w, g, hn, m, shown) ==
  IF shown
  THEN /\ w = Append(IF hn = None THEN q ELSE Append(q, <<"FILE", hn>>), <<"DUP", m>>)
       /\ g = None
  ELSE w = q /\ g = hn

(* The entries of the group, the new one among them, are found. *)
LEMMA PrintGroup ==
  ASSUME NEW q \in Seq(Line), NEW h, NEW w, NEW g, NEW hn \in Nat, NEW d, NEW l, NEW n \in Nat,
         NEW x \in 1..n, l[x].nameloc \in Nat, Has(l, "DUP", x), x > 1,
         At(d, l, x) = At(d, l, x - 1),
         IF Has(l, "DUP", x - 1) THEN hn = h ELSE hn = l[x - 1].nameloc /\ hn # None,
         HeadFound(q, d, l, n, x, h), PrintStep(q, h, w, g, hn, l[x].nameloc, Shown(l, x))
  PROVE  HeadFound(w, d, l, n, x + 1, g)
<1> SUFFICES ASSUME NEW i \in 1..n, i < x + 1, At(d, l, i) = At(d, l, (x + 1) - 1), Shown(l, i)
             PROVE  InGroup(w, l, i, x + 1, g)
  BY DEF HeadFound
<1> DEFINE m == l[x].nameloc
           k == l[i].nameloc
<1>1. (x + 1) - 1 = x /\ At(d, l, i) = At(d, l, x - 1)
  BY SMT
<1>2. i < x => IF hn = None THEN LineOf(q, k) ELSE k = hn
  <2> SUFFICES ASSUME i < x
               PROVE  IF hn = None THEN LineOf(q, k) ELSE k = hn
    OBVIOUS
  <2>1. InGroup(q, l, i, x, h)
    BY <1>1 DEF HeadFound
  <2> QED
    BY <2>1 DEF InGroup
<1>3. InGroup(w, l, i, x + 1, g) <=> IF g = None THEN LineOf(w, k) ELSE k = g
  BY <1>1 DEF InGroup
<1>4. CASE Shown(l, x)
  <2>1. PICK r : r = IF hn = None THEN q ELSE Append(q, <<"FILE", hn>>)
    OBVIOUS
  <2>2. PICK y, z : y = <<"DUP", m>> /\ z = <<"FILE", hn>>
    OBVIOUS
  <2>3. y \in Line /\ z \in Line /\ y[1] # "FILE" /\ y[2] = m /\ z[2] = hn
    BY <2>2 DEF Line
  <2>4. w = Append(r, y) /\ g = None
    BY <1>4, <2>1, <2>2 DEF PrintStep
  <2>5. r \in Seq(Line) /\ (i < x => LineOf(r, k))
    <3>1. CASE hn = None
      BY <1>2, <2>1, <3>1
    <3>2. CASE hn # None
      <4>1. r = Append(q, z)
        BY <2>1, <2>2, <3>2
      <4>2. r \in Seq(Line) /\ LineOf(r, hn)
        BY <2>3, <4>1, AppendProperties, AppendLine
      <4> QED
        BY <1>2, <3>2, <4>2
    <3> QED
      BY <3>1, <3>2
  <2>6. LineOf(w, m) /\ (i < x => LineOf(w, k))
    BY <2>3, <2>4, <2>5, AppendLine
  <2>7. i < x \/ i = x
    OBVIOUS
  <2> QED
    BY <1>3, <2>4, <2>6, <2>7
<1>5. CASE ~Shown(l, x)
  <2>1. i # x /\ w = q /\ g = hn
    BY <1>5 DEF PrintStep
  <2>2. i < x
    BY <2>1
  <2> QED
    BY <1>2, <1>3, <2>1, <2>2
<1> QED
  BY <1>4, <1>5

(* An entry of the group that has a line is together with the new one. *)
LEMMA PrintPairs ==
  ASSUME NEW q \in Seq(Line), NEW w, NEW g, NEW hn \in Nat, NEW d, NEW l, NEW n \in Nat, NEW h,
         NEW x \in 1..n, l[x].nameloc \in Nat, Has(l, "DUP", x),
         HeadFound(w, d, l, n, x + 1, g), PairsFound(q, d, l, n, x),
         PrintStep(q, h, w, g, hn, l[x].nameloc, Shown(l, x))
  PROVE  PairsFound(w, d, l, n, x + 1)
<1>1. \A m, p : TogetherIn(q, m, p) => TogetherIn(w, m, p)
  <2> TAKE m, p
  <2> SUFFICES ASSUME TogetherIn(q, m, p)
               PROVE  TogetherIn(w, m, p)
    OBVIOUS
  <2>1. PICK y, z : y = <<"DUP", l[x].nameloc>> /\ z = <<"FILE", hn>>
    OBVIOUS
  <2>2. y \in Line /\ z \in Line
    BY <2>1 DEF Line
  <2>3. Append(q, z) \in Seq(Line)
    BY <2>2, AppendProperties
  <2>4. TogetherIn(Append(q, z), m, p) /\ TogetherIn(Append(q, y), m, p)
    BY <2>2, AppendTogether
  <2>5. TogetherIn(Append(Append(q, z), y), m, p)
    BY <2>2, <2>3, <2>4, AppendTogether
  <2>6. w \in {q, Append(q, y), Append(Append(q, z), y)}
    BY <2>1 DEF PrintStep
  <2> QED
    BY <2>4, <2>5, <2>6
<1> SUFFICES ASSUME NEW i \in 1..n, NEW j \in 1..n, i < j, j < x + 1,
                    At(d, l, i) = At(d, l, j), Shown(l, i), Shown(l, j)
             PROVE  TogetherIn(w, l[i].nameloc, l[j].nameloc)
  BY DEF PairsFound
<1>2. CASE j < x
  BY <1>1, <1>2 DEF PairsFound
<1>3. CASE j = x
  <2>1. (x + 1) - 1 = x /\ i < x + 1 /\ x < x + 1 /\ x + 1 <= n + 1
    BY <1>3
  <2>2. g = None
    BY <1>3 DEF PrintStep
  <2>3. InGroup(w, l, i, x + 1, g) /\ InGroup(w, l, x, x + 1, g)
    BY <1>3, <2>1 DEF HeadFound
  <2>4. LineOf(w, l[i].nameloc) /\ LineOf(w, l[x].nameloc)
    BY <2>1, <2>2, <2>3 DEF InGroup
  <2> QED
    BY <1>3, <2>4, LinesTogether
<1> QED
  BY <1>2, <1>3

(* The first entry of a group is not printed yet. *)
LEMMA PassHead ==
  ASSUME NEW q, NEW h, NEW d, NEW l, NEW n \in Nat, NEW x \in 1..n, ~Has(l, "DUP", x),
         LaterDups(d, l, n, n + 1), PairsFound(q, d, l, n, x)
  PROVE  HeadFound(q, d, l, n, x + 1, h) /\ PairsFound(q, d, l, n, x + 1)
<1>1. \A i \in 1..n : i < x => At(d, l, i) # At(d, l, x)
  <2> SUFFICES ASSUME NEW i \in 1..n, i < x, At(d, l, i) = At(d, l, x)
               PROVE  FALSE
    OBVIOUS
  <2>1. i < n + 1
    OBVIOUS
  <2> QED
    BY <2>1 DEF LaterDups
<1>2. (x + 1) - 1 = x
  OBVIOUS
<1>3. HeadFound(q, d, l, n, x + 1, h)
  <2> SUFFICES ASSUME NEW i \in 1..n, i < x + 1, At(d, l, i) = At(d, l, (x + 1) - 1)
               PROVE  InGroup(q, l, i, x + 1, h)
    BY DEF HeadFound
  <2>1. i = x
    BY <1>1, <1>2
  <2> QED
    BY <1>2, <2>1 DEF InGroup
<1>4. PairsFound(q, d, l, n, x + 1)
  <2> SUFFICES ASSUME NEW i \in 1..n, NEW j \in 1..n, i < j, j < x + 1,
                      At(d, l, i) = At(d, l, j), Shown(l, i), Shown(l, j)
               PROVE  TogetherIn(q, l[i].nameloc, l[j].nameloc)
    BY DEF PairsFound
  <2>1. j # x
    BY <1>1
  <2>2. j < x
    BY <2>1
  <2> QED
    BY <2>2 DEF PairsFound
<1> QED
  BY <1>3, <1>4

-----------------------------------------------------------------------------
(* The invariant behind DuplicatesAreFound and LinksAreFound. *)
Sorted == FirstSortOrders /\ IsOrdered(filelist)

BuildFoundOK ==
  /\ links \in Seq(Seq(Nat))
  /\ pc \in {"build", "scan1"} => links = <<>>
  /\ pc = "scan1" /\ ~needsort =>
       \A i \in 2..n_files : i < ix => filelist[i - 1].length # filelist[i].length

LinksFoundOK ==
  /\ pc = "links" /\ Sorted => KeysTogether(filelist, n_files)
  /\ pc = "links" /\ linkflag /\ Sorted /\ InodesDiffer =>
       InodesTogether(filelist, n_files) /\ LinksSoFar(links, filelist, n_files, ix)
  /\ pc \in {"dups", "scan3", "done"} /\ linkflag /\ Sorted /\ InodesDiffer => LinksFound

GroupsFoundOK ==
  /\ pc \in {"dups", "scan3"} => PlainNames(filelist, n_files)
  /\ pc = "dups" /\ Text /\ Sorted => GroupFound(data, filelist, n_files, ix, lastix, ix2)
  /\ pc = "scan3" /\ Text /\ Sorted =>
       /\ LaterDups(data, filelist, n_files, n_files + 1)
       /\ HeadFound(dups, data, filelist, n_files, ix, headfn)
       /\ PairsFound(dups, data, filelist, n_files, ix)

AllFound ==
  \A m, n \in Listed :
    (m # n /\ Content(m) = Content(n)) =>
      IF linkflag THEN Together(m, n)
      ELSE names[m] # names[n] =>
             \E p, q \in Listed : names[p] = names[m] /\ names[q] = names[n] /\ Together(p, q)

FoundInv ==
  /\ BuildFoundOK
  /\ LinksFoundOK
  /\ GroupsFoundOK
  /\ pc = "done" /\ Text /\ Sorted => AllFound

(* What the names and the contents determine. *)
LEMMA SameFound ==
  ASSUME UNCHANGED <<names, data>>
  PROVE  /\ Text' <=> Text
         /\ FirstSortOrders' <=> FirstSortOrders
         /\ InodesDiffer' <=> InodesDiffer
         /\ \A q, l, n, x : LinksSoFar(q, l, n, x)' <=> LinksSoFar(q, l, n, x)
<1>1. Listed' = Listed
  BY DEF Listed
<1>2. InodesDiffer' <=> InodesDiffer
  BY <1>1 DEF InodesDiffer
<1>3. \A q, l, n, x : LinksSoFar(q, l, n, x)' <=> LinksSoFar(q, l, n, x)
  BY <1>1 DEF LinksSoFar, NamesOf, Several
<1> QED
  BY <1>2, <1>3, SameInput

(* Until the sort is done nothing is found. *)
LEMMA BuildFound ==
  ASSUME FinddupInv, DuplicatesInv, FoundInv,
         (\E x \in Inodes : ReadName(x)) \/ IgnoreName \/ EndOfNames
  PROVE  FoundInv'
<1>1. links' = links /\ links = <<>> /\ links \in Seq(Seq(Nat)) /\ pc' \in {"build", "scan1"}
  BY DEF FoundInv, BuildFoundOK, ReadName, IgnoreName, EndOfNames
<1>2. pc' = "scan1" => ix' = 2
  BY DEF ReadName, IgnoreName, EndOfNames, DuplicatesInv
<1>3. BuildFoundOK'
  <2>1. pc' = "scan1" => \A i \in 2..n_files' : ~(i < ix')
    BY <1>2
  <2> QED
    BY <1>1, <2>1 DEF BuildFoundOK
<1> QED
  BY <1>1, <1>3 DEF FoundInv, LinksFoundOK, GroupsFoundOK

(* scan1 asks for a sort when it finds neighbours of equal length. *)
LEMMA Scan1Found ==
  ASSUME FinddupInv, DuplicatesInv, FoundInv, Scan1
  PROVE  FoundInv'
<1>1. /\ links' = links /\ links = <<>> /\ links \in Seq(Seq(Nat)) /\ pc = "scan1" /\ pc' = "scan1"
      /\ ix' = ix + 1 /\ ix <= n_files /\ ix \in Nat
  BY DEF FoundInv, BuildFoundOK, Scan1, FinddupInv
<1>2. ASSUME ~needsort', NEW i \in 2..n_files', i < ix'
      PROVE  filelist'[i - 1].length # filelist'[i].length
  <2>1. ~SameLength /\ filelist' = filelist /\ ~needsort
    BY <1>2 DEF Scan1
  <2>2. i \in 2..n_files /\ (i = ix \/ i < ix)
    BY <1>1, <1>2, <2>1 DEF n_files
  <2>3. filelist[ix - 1].length # filelist[ix].length
    BY <1>1, <2>1 DEF SameLength
  <2> QED
    BY <1>1, <2>1, <2>2, <2>3 DEF FoundInv, BuildFoundOK
<1>3. BuildFoundOK'
  BY <1>1, <1>2 DEF BuildFoundOK
<1> QED
  BY <1>1, <1>3 DEF FoundInv, LinksFoundOK, GroupsFoundOK

(* The second sort puts equal keys together; without one all lengths differ. *)
LEMMA EndScan1Found ==
  ASSUME FinddupInv, FinddupInv', DuplicatesInv, DuplicatesInv', FoundInv, EndScan1
  PROVE  FoundInv'
<1>1. /\ links' = links /\ links = <<>> /\ links \in Seq(Seq(Nat)) /\ pc = "scan1" /\ pc' = "links"
      /\ ix' = 1 /\ ix > n_files /\ UNCHANGED <<names, data, linkflag>>
      /\ filelist' \in IF needsort THEN SORT(filelist) ELSE {filelist}
      /\ FirstSortOrders => LengthsTogether(filelist)
      /\ ix \in Nat
  BY DEF FoundInv, BuildFoundOK, EndScan1, input, DuplicatesInv, FinddupInv
<1>2. PICK l, s : l = filelist /\ s = filelist'
  OBVIOUS
<1>3. PICK n \in Nat : n = n_files /\ n = Len(l) /\ DOMAIN l = 1..n /\ ListOK(l)
  BY <1>2, Entries DEF FinddupInv
<1>4. FirstSortOrders' <=> FirstSortOrders
  BY <1>1, SameFound
<1>5. ASSUME FirstSortOrders, IsOrdered(s)
      PROVE  n_files' = n /\ KeysTogether(s, n) /\ (InodesDiffer => InodesTogether(s, n))
  <2>1. CASE needsort
    <3>1. s \in SORT(l)
      BY <1>1, <1>2, <2>1
    <3>2. PICK p \in Bijection(DOMAIN l, DOMAIN l) : s = [i \in DOMAIN l |-> l[p[i]]]
      BY <3>1 DEF SORT
    <3> DEFINE D == DOMAIN l
    <3>3. p \in Bijection(D, D) /\ s = [i \in D |-> l[p[i]]] /\ D = 1..n
      BY <1>3, <3>2
    <3> HIDE DEF D
    <3>4. \A i \in D : \E j \in D : p[j] = i
      BY <3>3 DEF Bijection, Surjection
    <3>5. \A i \in 1..n : \E j \in 1..n : l[i] = s[j]
      BY <3>3, <3>4
    <3>6. DOMAIN s = 1..n
      BY <3>3
    <3>7. \A i \in 1..n : \E j \in 1..n :
            l[i].length = s[j].length /\ l[i].crc32 = s[j].crc32 /\ l[i].inode = s[j].inode
      BY <3>5
    <3>8. IsOrdered(l)
      BY <1>3, <1>5, <3>6, <3>7, OrderedBack
    <3>9. \A i \in 1..(n - 1) : comp1(s[i], s[i + 1]) <= 0
      BY <1>3, <3>1, <3>8 DEF SORT
    <3>10. ListOK(s)
      BY <1>3, <3>1, SortRearranges
    <3>11. Len(s) = n
      BY <1>3, <3>10 DEF ListOK
    <3>12. n_files' = n
      BY <1>2, <3>11 DEF n_files
    <3>13. Summed(s, n)
      BY <1>1, <1>2, <1>4, <1>5, <3>12 DEF DuplicatesInv
    <3> QED
      BY <1>5, <3>9, <3>10, <3>11, <3>12, <3>13, SortedKeys
  <2>2. CASE ~needsort
    <3>1. s = l /\ n_files' = n
      BY <1>1, <1>2, <1>3, <2>2 DEF n_files
    <3>2. \A i \in 2..n : i < ix
      BY <1>1, <1>3
    <3>3. \A i \in 2..n : l[i - 1].length # l[i].length
      BY <1>1, <1>2, <1>3, <2>2, <3>2 DEF FoundInv, BuildFoundOK
    <3>4. LengthsTogether(l)
      BY <1>1, <1>2, <1>5
    <3>5. \A i, j \in 1..n : l[i].length = l[j].length => i = j
      BY <1>3, <3>3, <3>4, LengthsDiffer
    <3>6. KeysTogether(l, n) /\ InodesTogether(l, n)
      BY <1>3, <3>5, DifferentKeys
    <3> QED
      BY <3>1, <3>6
  <2> QED
    BY <2>1, <2>2
<1>6. LinksSoFar(links, s, n, 1)
  <2>1. Len(links) = 0
    BY <1>1
  <2> QED
    BY <2>1 DEF LinksSoFar
<1>7. InodesDiffer' <=> InodesDiffer
  BY <1>1, SameFound
<1>8. LinksSoFar(links, s, n, 1)' <=> LinksSoFar(links', s, n, 1)
  BY <1>1, SameFound
<1>9. LinksSoFar(links, s, n, 1)'
  BY <1>1, <1>6, <1>8
<1>10. LinksFoundOK'
  BY <1>1, <1>2, <1>4, <1>5, <1>7, <1>9 DEF LinksFoundOK, Sorted
<1> QED
  BY <1>1, <1>10 DEF FoundInv, BuildFoundOK, GroupsFoundOK

(* What MarkLinks leaves as it was. *)
LEMMA MarkLinksKeeps ==
  ASSUME FinddupInv, MarkLinks
  PROVE  /\ n_files' = n_files /\ DOMAIN filelist' = 1..n_files
         /\ \A i \in 1..n_files : /\ filelist'[i].length = filelist[i].length
                                  /\ filelist'[i].crc32 = filelist[i].crc32
                                  /\ filelist'[i].inode = filelist[i].inode
<1> DEFINE n == n_files
           l == filelist
           R == LinkRun \ {ix}
<1>1. n \in Nat /\ n = Len(l) /\ l \in [1..n -> Entry]
  BY Entries
<1>2. filelist' = [j \in 1..n |-> IF j \in R THEN [l[j] EXCEPT !.flags = @ \cup {"LNK"}] ELSE l[j]]
  BY DEF MarkLinks
<1>3. n_files' = n /\ DOMAIN filelist' = 1..n
  BY <1>1, <1>2 DEF n_files
<1> HIDE DEF n, R
<1>4. ASSUME NEW i \in 1..n
      PROVE  /\ filelist'[i].length = l[i].length /\ filelist'[i].crc32 = l[i].crc32
             /\ filelist'[i].inode = l[i].inode
  <2>1. filelist'[i] = IF i \in R THEN [l[i] EXCEPT !.flags = @ \cup {"LNK"}] ELSE l[i]
    BY <1>2
  <2>2. l[i] \in Entry
    BY <1>1
  <2> QED
    BY <2>1, <2>2 DEF Entry
<1> QED
  BY <1>3, <1>4 DEF n

(* Lists with the same inodes have the same summary. *)
LEMMA SoFarKeeps ==
  ASSUME NEW q, NEW l, NEW s, NEW n, NEW x, LinksSoFar(q, l, n, x),
         \A i \in 1..n : s[i].inode = l[i].inode
  PROVE  LinksSoFar(q, s, n, x)
BY DEF LinksSoFar

(* The run of links at ix is added to the summary. *)
LEMMA MarkLinksFound ==
  ASSUME FinddupInv, DuplicatesInv, FoundInv, MarkLinks
  PROVE  FoundInv'
<1>1. /\ pc = "links" /\ pc' = "links" /\ ix \in Nat /\ 0 < ix /\ ix <= n_files
      /\ UNCHANGED <<names, data, linkflag>>
      /\ ix' = ix + Cardinality(LinkRun) /\ links \in Seq(Seq(Nat))
  BY DEF DuplicatesInv, MarkLinks, input, FoundInv, BuildFoundOK
<1>2. PICK l, s : l = filelist /\ s = filelist'
  OBVIOUS
<1>3. PICK n \in Nat : /\ n = n_files /\ n = Len(l) /\ DOMAIN l = 1..n /\ ListOK(l)
                       /\ \A i \in 1..n : EntryOK(l[i])
  BY <1>2, Entries DEF FinddupInv
<1>4. /\ n_files' = n /\ DOMAIN s = 1..n
      /\ \A i \in 1..n : s[i].length = l[i].length /\ s[i].crc32 = l[i].crc32 /\ s[i].inode = l[i].inode
  BY <1>2, <1>3, MarkLinksKeeps
<1>5. ix \in 1..n
  BY <1>1, <1>3
<1>6. PICK last \in ix..n : /\ LinkRun = ix..last /\ Cardinality(LinkRun) = last - ix + 1
                            /\ \A k \in ix..last : l[k].inode = l[ix].inode
                            /\ last < n => l[last + 1].inode # l[ix].inode
  BY <1>2, <1>3, <1>5, RunInterval
<1> DEFINE r == [j \in 1..Cardinality(LinkRun) |-> filelist[ix + j - 1].nameloc]
<1>7. PICK t : t = r
  OBVIOUS
<1>8. RunLine(t, l, ix, last)
  <2>1. t = [j \in 1..(last - ix + 1) |-> l[ix + j - 1].nameloc]
    BY <1>2, <1>6, <1>7
  <2>2. \A j \in 1..(last - ix + 1) : ix + j - 1 \in 1..n
    BY <1>5
  <2>3. \A i \in 1..n : l[i].nameloc \in Nat
    BY <1>3 DEF EntryOK, Entry
  <2>4. t \in [1..(last - ix + 1) -> Nat]
    BY <2>1, <2>2, <2>3
  <2>5. last - ix + 1 \in Nat
    BY <1>5
  <2>6. t \in Seq(Nat)
    BY <2>4, <2>5 DEF Seq
  <2> QED
    BY <2>1, <2>6 DEF RunLine
<1>9. links' = IF linkflag /\ LinkRun # {ix} THEN Append(links, t) ELSE links
  BY <1>7 DEF MarkLinks
<1>10. LinkRun # {ix} <=> ix # last
  <2>1. last \in LinkRun
    BY <1>5, <1>6
  <2>2. ix = last => LinkRun = {ix}
    BY <1>5, <1>6
  <2> QED
    BY <2>1, <2>2
<1> HIDE DEF r
<1>11. links' \in Seq(Seq(Nat))
  BY <1>1, <1>8, <1>9, AppendProperties DEF RunLine
<1>12. ix' = last + 1
  BY <1>1, <1>5, <1>6
<1>13. IsOrdered(s) => IsOrdered(l)
  BY <1>3, <1>4, OrderedBack
<1>14. Sorted' => Sorted
  BY <1>1, <1>2, <1>13, SameFound DEF Sorted
<1>15. ASSUME Sorted'
       PROVE  KeysTogether(s, n)
  <2>1. KeysTogether(l, n)
    BY <1>1, <1>2, <1>3, <1>14, <1>15 DEF FoundInv, LinksFoundOK
  <2> QED
    BY <1>4, <2>1 DEF KeysTogether, SameKey
<1>16. ASSUME linkflag', Sorted', InodesDiffer'
       PROVE  InodesTogether(s, n) /\ LinksSoFar(links', s, n, ix')
  <2>1. linkflag /\ InodesDiffer
    BY <1>1, <1>16, SameFound
  <2>2. InodesTogether(l, n) /\ LinksSoFar(links, l, n, ix)
    BY <1>1, <1>2, <1>3, <1>14, <1>16, <2>1 DEF FoundInv, LinksFoundOK
  <2>3. PICK w : w = links'
    OBVIOUS
  <2>4. WithLine(w, links, t, ix # last)
    BY <1>1, <1>9, <1>10, <2>1, <2>3 DEF WithLine
  <2>5. LinksSoFar(w, l, n, last + 1)
    BY <1>3, <1>5, <1>6, <1>8, <2>2, <2>4, RunFound
  <2>6. LinksSoFar(w, s, n, last + 1)
    BY <1>4, <2>5, SoFarKeeps
  <2>7. InodesTogether(s, n)
    BY <1>4, <2>2 DEF InodesTogether
  <2> QED
    BY <1>12, <2>3, <2>6, <2>7
<1>17. ASSUME linkflag', Sorted', InodesDiffer'
       PROVE  LinksSoFar(links, filelist, n_files, ix)'
  <2>1. PICK w, y : w = links' /\ y = ix'
    OBVIOUS
  <2>2. LinksSoFar(w, s, n, y)
    BY <1>16, <1>17, <2>1
  <2>3. LinksSoFar(w, s, n, y)'
    BY <1>1, <2>2, SameFound
  <2> QED
    BY <1>2, <1>4, <2>1, <2>3
<1>18. LinksFoundOK'
  BY <1>1, <1>2, <1>4, <1>15, <1>16, <1>17 DEF LinksFoundOK
<1> QED
  BY <1>1, <1>11, <1>18 DEF FoundInv, BuildFoundOK, GroupsFoundOK

(* The summary is complete, and the loop over duplicates begins. *)
LEMMA EndLinksFound ==
  ASSUME FinddupInv, DuplicatesInv, FoundInv, EndLinks
  PROVE  FoundInv'
<1>1. /\ pc = "links" /\ pc' = "dups" /\ ix > n_files /\ ix \in Nat
      /\ UNCHANGED <<names, data, linkflag, filelist, links>>
      /\ ix' = 1 /\ ix2' = 2 /\ lastix' = 2 /\ links \in Seq(Seq(Nat))
      /\ LinksOK(filelist, n_files)
  BY DEF DuplicatesInv, EndLinks, BeginGroup, input, FoundInv, BuildFoundOK
<1>2. n_files' = n_files /\ n_files \in Nat
  BY <1>1, Entries DEF n_files
<1>3. Sorted' => Sorted
  BY <1>1, SameFound DEF Sorted
<1>4. ASSUME linkflag', Sorted', InodesDiffer'
      PROVE  LinksFound'
  <2>1. linkflag /\ InodesDiffer
    BY <1>1, <1>4, SameFound
  <2>2. LinksSoFar(links, filelist, n_files, ix)
    BY <1>1, <1>3, <1>4, <2>1 DEF FoundInv, LinksFoundOK
  <2>3. LinksFound
    BY <1>1, <2>2, AllLinks
  <2> QED
    BY <1>1, <2>3 DEF LinksFound, Listed
<1>5. PlainNames(filelist, n_files)
  BY <1>1, <1>2, FirstPlain
<1>6. ASSUME Sorted'
      PROVE  GroupFound(data, filelist, n_files, 1, 2, 2)
  <2>1. KeysTogether(filelist, n_files)
    BY <1>1, <1>3, <1>6 DEF FoundInv, LinksFoundOK
  <2> QED
    BY <1>2, <2>1, FirstFound
<1>7. LinksFoundOK'
  BY <1>1, <1>4 DEF LinksFoundOK
<1>8. GroupsFoundOK'
  BY <1>1, <1>2, <1>5, <1>6 DEF GroupsFoundOK
<1>9. BuildFoundOK'
  BY <1>1 DEF BuildFoundOK
<1> QED
  BY <1>1, <1>7, <1>8, <1>9 DEF FoundInv

(* MarkDup moves and flags an entry. *)
LEMMA MarkDupMoved ==
  ASSUME FinddupInv, MarkDup
  PROVE  /\ Moved(filelist, filelist', n_files, lastix, ix2)
         /\ ix2 \in 1..n_files /\ lastix \in 1..ix2 /\ n_files' = n_files
         /\ DOMAIN filelist' = 1..n_files
<1>1. /\ ix2 \in 1..n_files /\ lastix \in 1..ix2 /\ n_files' = n_files
      /\ \A i \in 1..n_files : i < lastix \/ ix2 < i => filelist'[i] = filelist[i]
      /\ \A i \in 1..n_files : lastix < i /\ i <= ix2 => filelist'[i] = filelist[i - 1]
      /\ filelist'[lastix] = [filelist[ix2] EXCEPT !.flags = @ \cup {"DUP"}]
      /\ filelist[ix2] \in Entry
  BY MarkDupMoves
<1>2. PICK l, s, n, b, e : l = filelist /\ s = filelist' /\ n = n_files /\ b = lastix /\ e = ix2
  OBVIOUS
<1>3. n \in Nat /\ e \in 1..n /\ b \in 1..e
  BY <1>1, <1>2, Entries
<1>4. /\ s[b].length = l[e].length /\ s[b].crc32 = l[e].crc32 /\ s[b].inode = l[e].inode
      /\ s[b].flags = l[e].flags \cup {"DUP"}
  BY <1>1, <1>2 DEF Entry
<1>5. ASSUME NEW i \in 1..n
      PROVE  /\ SameFile(s, i, l, Origin(i, b, e))
             /\ Has(s, "DUP", i) <=> (i = b \/ Has(l, "DUP", Origin(i, b, e)))
  <2>1. CASE i = b
    <3>1. Origin(i, b, e) = e
      BY <2>1 DEF Origin
    <3> QED
      BY <1>4, <2>1, <3>1 DEF SameFile, Has
  <2>2. CASE b < i /\ i <= e
    <3>1. Origin(i, b, e) = i - 1 /\ i # b
      BY <1>3, <2>2 DEF Origin
    <3>2. s[i] = l[i - 1]
      BY <1>1, <1>2, <2>2
    <3> QED
      BY <3>1, <3>2 DEF SameFile, Has
  <2>3. CASE i < b \/ e < i
    <3>1. Origin(i, b, e) = i /\ i # b
      BY <1>3, <2>3 DEF Origin
    <3>2. s[i] = l[i]
      BY <1>1, <1>2, <2>3
    <3> QED
      BY <3>1, <3>2 DEF SameFile, Has
  <2> QED
    BY <1>3, <2>1, <2>2, <2>3
<1>6. Moved(l, s, n, b, e)
  BY <1>5 DEF Moved
<1>7. DOMAIN filelist' = 1..n_files
  <2>1. PICK f : f = [filelist EXCEPT ![ix2].flags = @ \cup {"DUP"}]
    OBVIOUS
  <2>2. DOMAIN f = 1..n_files
    BY <2>1, Entries
  <2>3. filelist' = MoveInto(f, lastix, ix2)
    BY <2>1 DEF MarkDup
  <2> QED
    BY <2>2, <2>3 DEF MoveInto
<1> QED
  BY <1>1, <1>2, <1>6, <1>7

(* Where an entry goes when another one is moved. *)
LEMMA MovedTo ==
  ASSUME NEW l, NEW s, NEW n \in Nat, NEW e \in 1..n, NEW b \in 1..e, Moved(l, s, n, b, e),
         NEW k \in 1..n
  PROVE  \E j \in 1..n : SameFile(s, j, l, k)
<1> DEFINE j == IF k = e THEN b ELSE IF b <= k /\ k < e THEN k + 1 ELSE k
<1>1. j \in 1..n /\ Origin(j, b, e) = k
  BY DEF Origin
<1> HIDE DEF j
<1>2. SameFile(s, j, l, k)
  BY <1>1 DEF Moved
<1> QED
  BY <1>1, <1>2

(* What MarkDup moves is equal to the first entry of the group. *)
LEMMA MarkedEqual ==
  ASSUME FinddupInv, DuplicatesInv, MarkDup, Ordinary
  PROVE  /\ At(data, filelist, ix2) = At(data, filelist, ix)
         /\ ix \in Nat /\ 0 < ix /\ ix < lastix /\ ix \in 1..n_files
<1>1. pc = "dups" /\ DupsOK(data, filelist, n_files, ix, lastix, ix2, lnkmatch)
  BY DEF DuplicatesInv, MarkDup, Candidate
<1>2. n_files \in Nat /\ ix2 \in 1..n_files /\ lastix \in 1..ix2
  BY Entries, MarkDupMoves
<1>3. ix \in Nat /\ 0 < ix /\ ix < lastix
  BY <1>1 DEF DupsOK
<1>4. ix \in 1..n_files
  BY <1>2, <1>3
<1>5. CASE KnownLink
  BY <1>1, <1>2, <1>5 DEF DupsOK, LinkMatches, KnownLink, Has
<1>6. ASSUME fullcmp(ContentOf(filelist[ix]), ContentOf(filelist[ix2]))
      PROVE  At(data, filelist, ix2) = At(data, filelist, ix)
  <2>1. Candidate /\ Text
    BY DEF MarkDup, Ordinary
  <2> QED
    BY <1>4, <1>6, <2>1, MatchEqual
<1> QED
  BY <1>3, <1>4, <1>5, <1>6 DEF MarkDup

(* A duplicate is moved to the others of its group. *)
LEMMA MarkDupFound ==
  ASSUME FinddupInv, DuplicatesInv, FoundInv, MarkDup
  PROVE  FoundInv'
<1>1. /\ pc = "dups" /\ pc' = "dups" /\ UNCHANGED <<names, data, linkflag, links, ix>>
      /\ links \in Seq(Seq(Nat))
      /\ ix2' = ix2 + 1 /\ lastix' = (IF lastix = ix2 THEN lastix ELSE lastix + 1)
  BY DEF MarkDup, Candidate, input, FoundInv, BuildFoundOK
<1>2. PICK l, s, n, b, e : l = filelist /\ s = filelist' /\ n = n_files /\ b = lastix /\ e = ix2
  OBVIOUS
<1>3. /\ n \in Nat /\ e \in 1..n /\ b \in 1..e /\ Moved(l, s, n, b, e) /\ n_files' = n
      /\ DOMAIN l = 1..n /\ DOMAIN s = 1..n
  BY <1>2, MarkDupMoved, Entries
<1>4. IsOrdered(s) => IsOrdered(l)
  <2>1. \A i \in 1..n : \E j \in 1..n :
          l[i].length = s[j].length /\ l[i].crc32 = s[j].crc32 /\ l[i].inode = s[j].inode
    <3> TAKE i \in 1..n
    <3>1. PICK j \in 1..n : SameFile(s, j, l, i)
      BY <1>3, MovedTo
    <3> QED
      BY <3>1 DEF SameFile
  <2> QED
    BY <1>3, <2>1, OrderedBack
<1>5. Sorted' => Sorted
  BY <1>1, <1>2, <1>4, SameFound DEF Sorted
<1>6. PlainNames(s, n)
  <2>1. PlainNames(l, n)
    BY <1>1, <1>2 DEF FoundInv, GroupsFoundOK
  <2> QED
    BY <1>3, <2>1, MovePlain
<1>7. ASSUME Text', Sorted'
      PROVE  GroupFound(data, s, n, ix, lastix', e + 1)
  <2>1. Ordinary /\ GroupFound(data, l, n, ix, b, e)
    BY <1>1, <1>2, <1>5, <1>7, SameFound DEF FoundInv, GroupsFoundOK, Ordinary, Sorted
  <2>2. ix \in Nat /\ 0 < ix /\ ix < b
    BY <1>2, <2>1, MarkedEqual
  <2>3. SameKey(l, ix, e)
    BY <1>2 DEF MarkDup, Candidate, SameKey
  <2>4. PICK c, x : c = lastix' /\ x = ix
    OBVIOUS
  <2>5. c = IF b = e THEN b ELSE b + 1
    BY <1>1, <1>2, <2>4
  <2>6. PICK d : d = data
    OBVIOUS
  <2>7. GroupFound(d, s, n, x, c, e + 1)
    BY <1>3, <2>1, <2>2, <2>3, <2>4, <2>5, <2>6, MoveFound
  <2> QED
    BY <2>4, <2>6, <2>7
<1>8. LinksFoundOK'
  <2>1. linkflag' /\ Sorted' /\ InodesDiffer' => LinksFound
    BY <1>1, <1>5, SameFound DEF FoundInv, LinksFoundOK
  <2>2. LinksFound' <=> LinksFound
    BY <1>1 DEF LinksFound, Listed
  <2> QED
    BY <1>1, <2>1, <2>2 DEF LinksFoundOK
<1>9. GroupsFoundOK'
  BY <1>1, <1>2, <1>3, <1>6, <1>7 DEF GroupsFoundOK
<1>10. BuildFoundOK'
  BY <1>1 DEF BuildFoundOK
<1> QED
  BY <1>1, <1>8, <1>9, <1>10 DEF FoundInv

(* What the steps that leave the list alone keep. *)
LEMMA KeepFound ==
  ASSUME FinddupInv, FoundInv, UNCHANGED <<names, data, linkflag, links, filelist>>,
         pc \in {"dups", "scan3", "done"}, pc' \in {"dups", "scan3", "done"},
         pc' \in {"dups", "scan3"} => pc \in {"dups", "scan3"}
  PROVE  /\ BuildFoundOK' /\ LinksFoundOK'
         /\ Sorted' <=> Sorted
         /\ Text' <=> Text
         /\ n_files' = n_files
         /\ pc' \in {"dups", "scan3"} => PlainNames(filelist, n_files)'
<1>1. n_files' = n_files
  BY DEF n_files
<1>2. Sorted' <=> Sorted
  BY SameFound DEF Sorted
<1>3. LinksFoundOK'
  <2>1. linkflag' /\ Sorted' /\ InodesDiffer' => LinksFound
    BY <1>2, SameFound DEF FoundInv, LinksFoundOK
  <2>2. LinksFound' <=> LinksFound
    BY DEF LinksFound, Listed
  <2> QED
    BY <2>1, <2>2 DEF LinksFoundOK
<1>4. BuildFoundOK'
  BY DEF FoundInv, BuildFoundOK
<1>5. pc' \in {"dups", "scan3"} => PlainNames(filelist, n_files)'
  BY <1>1 DEF FoundInv, GroupsFoundOK
<1> QED
  BY <1>1, <1>2, <1>3, <1>4, <1>5, SameFound

(* fullcmp finds a text file equal to itself. *)
LEMMA FullcmpSame ==
  ASSUME NEW a \in Seq(0..255), \A i \in DOMAIN a : a[i] < 128
  PROVE  fullcmp(a, a)
<1>1. Len(a) \in Nat /\ DOMAIN a = 1..Len(a)
  BY LenProperties
<1>2. PICK k : k = Len(a) + 1
  OBVIOUS
<1>3. k \in 1..(Len(a) + 1) /\ ~(k <= Len(a))
  BY <1>1, <1>2
<1>4. \A j \in 1..(k - 1) : a[j] < 128 /\ j <= Len(a)
  BY <1>1, <1>2
<1> QED
  BY <1>3, <1>4 DEF fullcmp

(* An entry that is left behind differs from the first of the group. *)
LEMMA NotDupFound ==
  ASSUME FinddupInv, DuplicatesInv, FoundInv, NotDup
  PROVE  FoundInv'
<1>1. /\ pc = "dups" /\ pc' = "dups"
      /\ UNCHANGED <<names, data, linkflag, links, filelist, ix, lastix>>
      /\ ix2' = ix2 + 1 /\ ix2 <= n_files
  BY DEF NotDup, Candidate, input
<1>2. /\ BuildFoundOK' /\ LinksFoundOK' /\ (Sorted' <=> Sorted) /\ (Text' <=> Text)
      /\ n_files' = n_files /\ PlainNames(filelist, n_files)'
  BY <1>1, KeepFound
<1>3. ASSUME Text, Sorted
      PROVE  GroupFound(data, filelist, n_files, ix, lastix, ix2 + 1)
  <2>1. /\ GroupFound(data, filelist, n_files, ix, lastix, ix2)
        /\ DupsOK(data, filelist, n_files, ix, lastix, ix2, lnkmatch)
    BY <1>1, <1>3 DEF FoundInv, GroupsFoundOK, DuplicatesInv, Ordinary, Sorted
  <2>2. /\ n_files \in Nat /\ ix \in 1..n_files /\ ix2 \in 1..n_files
        /\ lastix \in Nat /\ (lastix < ix2 \/ lastix = ix2)
    BY <1>1, <2>1, Entries DEF DupsOK
  <2>3. SameKey(filelist, ix, ix2)
    BY DEF NotDup, Candidate, SameKey
  <2>4. At(data, filelist, ix2) # At(data, filelist, ix)
    <3> SUFFICES ASSUME At(data, filelist, ix2) = At(data, filelist, ix)
                 PROVE  FALSE
      OBVIOUS
    <3>1. EntryOK(filelist[ix]) /\ filelist[ix].nameloc \in Listed
      BY <2>2, Entries
    <3>2. PICK a : a = data[filelist[ix].inode]
      OBVIOUS
    <3>3. a \in Contents
      BY <3>1, <3>2 DEF EntryOK, Entry, FinddupInv
    <3>4. a \in Seq(0..255)
      BY <3>3, FinddupAssumption
    <3>5. \A k \in DOMAIN a : a[k] < 128
      BY <1>3, <3>1, <3>2 DEF Text, EntryOK
    <3>6. fullcmp(a, a)
      BY <3>4, <3>5, FullcmpSame
    <3>7. ContentOf(filelist[ix]) = a /\ ContentOf(filelist[ix2]) = a
      BY <3>2 DEF ContentOf, At
    <3> QED
      BY <3>6, <3>7 DEF NotDup
  <2> QED
    BY <2>1, <2>2, <2>3, <2>4, SkipFound
<1>4. GroupsFoundOK'
  BY <1>1, <1>2, <1>3 DEF GroupsFoundOK
<1> QED
  BY <1>1, <1>2, <1>4 DEF FoundInv

(* Behind the group there is no equal file left. *)
LEMMA NextGroupFound ==
  ASSUME FinddupInv, DuplicatesInv, FoundInv, NextGroup
  PROVE  FoundInv'
<1>1. /\ pc = "dups" /\ pc' = "dups" /\ UNCHANGED <<names, data, linkflag, links, filelist>>
      /\ ix' = lastix /\ ix2' = lastix + 1 /\ lastix' = lastix + 1 /\ ix <= n_files /\ ~Candidate
  BY DEF NextGroup, BeginGroup, input
<1>2. /\ BuildFoundOK' /\ LinksFoundOK' /\ (Sorted' <=> Sorted) /\ (Text' <=> Text)
      /\ n_files' = n_files /\ PlainNames(filelist, n_files)'
  BY <1>1, KeepFound
<1>3. ASSUME Text, Sorted
      PROVE  GroupFound(data, filelist, n_files, lastix, lastix + 1, lastix + 1)
  <2>1. /\ GroupFound(data, filelist, n_files, ix, lastix, ix2)
        /\ DupsOK(data, filelist, n_files, ix, lastix, ix2, lnkmatch)
        /\ Summed(filelist, n_files)
    BY <1>1, <1>3 DEF FoundInv, GroupsFoundOK, DuplicatesInv, Ordinary, Sorted
  <2>2. /\ n_files \in Nat /\ n_files = Len(filelist) /\ ix \in 1..n_files /\ ix2 \in Nat
        /\ lastix \in Nat /\ ix < lastix /\ lastix <= ix2
    BY <1>1, <2>1, Entries DEF DupsOK
  <2>3. ix2 <= n_files => ~SameKey(filelist, ix, ix2)
    BY <1>1 DEF Candidate, SameKey
  <2>4. \A i, j \in 1..n_files :
          At(data, filelist, i) = At(data, filelist, j) => SameKey(filelist, i, j)
    <3> SUFFICES ASSUME NEW i \in 1..n_files, NEW j \in 1..n_files,
                        At(data, filelist, i) = At(data, filelist, j)
                 PROVE  SameKey(filelist, i, j)
      OBVIOUS
    <3>1. data[filelist[i].inode] = data[filelist[j].inode] /\ ListOK(filelist)
      BY DEF At, FinddupInv
    <3> QED
      BY <2>1, <2>2, <3>1, InodeKey
  <2>5. GroupEqual(data, filelist, n_files, ix, lastix)
    BY <2>1 DEF DupsOK
  <2> QED
    BY <2>1, <2>2, <2>3, <2>4, <2>5, GroupEnds
<1>4. GroupsFoundOK'
  BY <1>1, <1>2, <1>3 DEF GroupsFoundOK
<1> QED
  BY <1>1, <1>2, <1>4 DEF FoundInv

(* Behind the last group scan3 begins. *)
LEMMA EndDupsFound ==
  ASSUME FinddupInv, DuplicatesInv, FoundInv, EndDups
  PROVE  FoundInv'
<1>1. /\ pc = "dups" /\ pc' = "scan3" /\ UNCHANGED <<names, data, linkflag, links, filelist>>
      /\ ix' = 1 /\ ix > n_files
  BY DEF EndDups, input
<1>2. /\ BuildFoundOK' /\ LinksFoundOK' /\ (Sorted' <=> Sorted) /\ (Text' <=> Text)
      /\ n_files' = n_files /\ PlainNames(filelist, n_files)'
  BY <1>1, KeepFound
<1>3. ASSUME Text, Sorted
      PROVE  LaterDups(data, filelist, n_files, n_files + 1)
  <2>1. LaterDups(data, filelist, n_files, ix) /\ ix \in Nat /\ n_files \in Nat
    BY <1>1, <1>3, Entries
       DEF FoundInv, GroupsFoundOK, GroupFound, DuplicatesInv, DupsOK, Ordinary, Sorted
  <2>2. \A i \in 1..n_files : i < ix
    BY <1>1, <2>1
  <2> QED
    BY <2>1, <2>2 DEF LaterDups
<1>4. \A q, h : /\ HeadFound(q, data, filelist, n_files, 1, h)
                /\ PairsFound(q, data, filelist, n_files, 1)
  <2>1. \A i \in 1..n_files : ~(i < 1)
    OBVIOUS
  <2> QED
    BY <2>1 DEF HeadFound, PairsFound
<1>5. PICK d, l, n : d = data /\ l = filelist /\ n = n_files
  OBVIOUS
<1>6. \A q, h : HeadFound(q, d, l, n, 1, h)' /\ PairsFound(q, d, l, n, 1)'
  BY <1>1, <1>4, <1>5 DEF HeadFound, PairsFound, Shown
<1>7. HeadFound(dups, data, filelist, n_files, 1, headfn)' /\ PairsFound(dups, data, filelist, n_files, 1)'
  <2>1. PICK q, h : q = dups' /\ h = headfn'
    OBVIOUS
  <2>2. data' = d /\ filelist' = l /\ n_files' = n
    BY <1>1, <1>2, <1>5
  <2> QED
    BY <1>6, <2>1, <2>2
<1>8. GroupsFoundOK'
  BY <1>1, <1>2, <1>3, <1>7 DEF GroupsFoundOK
<1> QED
  BY <1>1, <1>2, <1>8 DEF FoundInv

(* scan3 prints the equal files of a group together. *)
LEMMA PrintDupFound ==
  ASSUME FinddupInv, DuplicatesInv, FoundInv, PrintDup
  PROVE  FoundInv'
<1>1. /\ pc = "scan3" /\ pc' = "scan3" /\ ix' = ix + 1 /\ ix <= n_files
      /\ UNCHANGED <<names, data, linkflag, links, filelist>>
  BY DEF PrintDup, input
<1>2. /\ BuildFoundOK' /\ LinksFoundOK' /\ (Sorted' <=> Sorted) /\ (Text' <=> Text)
      /\ n_files' = n_files /\ PlainNames(filelist, n_files)'
  BY <1>1, KeepFound
<1>3. PICK q, h, w, g, d, l, n, x, z :
        /\ q = dups /\ h = headfn /\ w = dups' /\ g = headfn' /\ d = data /\ l = filelist
        /\ n = n_files /\ x = ix /\ z = ix'
  OBVIOUS
<1>4. ASSUME Text, Sorted
      PROVE  HeadFound(w, d, l, n, z, g) /\ PairsFound(w, d, l, n, z)
  <2>1. /\ LaterDups(d, l, n, n + 1) /\ HeadFound(q, d, l, n, x, h) /\ PairsFound(q, d, l, n, x)
    BY <1>1, <1>3, <1>4 DEF FoundInv, GroupsFoundOK
  <2>2. /\ Summed(filelist, n_files) /\ PrintOK(data, filelist, n_files) /\ dups \in Seq(Line)
        /\ inmatch \in BOOLEAN
    BY <1>1, <1>4 DEF DuplicatesInv, Ordinary, Sorted
  <2>3. n \in Nat /\ x \in 1..n /\ q \in Seq(Line) /\ z = x + 1
    BY <1>1, <1>3, <2>2, Entries DEF PrintOK
  <2>4. l[x].nameloc \in Nat
    BY <1>3, <2>3, Entries DEF EntryOK, Entry
  <2>5. CASE ~Has(l, "DUP", x)
    <3>1. w = q /\ g = h
      BY <1>3, <2>5 DEF PrintDup, Has
    <3> QED
      BY <2>1, <2>3, <2>5, <3>1, PassHead
  <2>6. CASE Has(l, "DUP", x)
    <3>1. PICK hn : hn = HeadName
      OBVIOUS
    <3>2. Has(filelist, "DUP", ix)
      BY <1>3, <2>6
    <3>3. hn \in Nat
      BY <1>1, <2>2, <3>1, <3>2, AtDuplicate
    <3>4. IF Has(l, "DUP", x - 1) THEN hn = h ELSE hn = l[x - 1].nameloc /\ hn # None
      BY <1>1, <1>3, <2>2, <3>1, <3>2, HeadNameIs
    <3>5. x > 1 /\ At(d, l, x) = At(d, l, x - 1)
      BY <1>3, <2>2, <2>3, <2>6 DEF PrintOK, ListFinal, EqualBefore
    <3>6. PrintStep(q, h, w, g, hn, l[x].nameloc, Shown(l, x))
      <4>1. CASE Shown(l, x)
        <5>1. linkflag \/ "LNK" \notin filelist[ix].flags
          BY <1>3, <4>1 DEF Shown, Has
        <5>2. /\ dups' = dups \o (IF HeadName = None THEN <<>> ELSE << <<"FILE", HeadName>> >>)
                              \o << <<"DUP", filelist[ix].nameloc>> >>
              /\ headfn' = None
          BY <3>2, <5>1 DEF PrintDup, Has
        <5>3. PICK m : m = filelist[ix].nameloc
          OBVIOUS
        <5>4. /\ w = q \o (IF hn = None THEN <<>> ELSE << <<"FILE", hn>> >>) \o << <<"DUP", m>> >>
              /\ g = None /\ l[x].nameloc = m /\ m \in Nat
          BY <1>3, <2>4, <3>1, <5>2, <5>3
        <5>5. w = Append(IF hn = None THEN q ELSE Append(q, <<"FILE", hn>>), <<"DUP", m>>)
          BY <2>3, <3>3, <5>4, LinesAppended
        <5> QED
          BY <4>1, <5>4, <5>5 DEF PrintStep
      <4>2. CASE ~Shown(l, x)
        <5>1. ~(linkflag \/ "LNK" \notin filelist[ix].flags)
          BY <1>3, <4>2 DEF Shown, Has
        <5>2. w = q /\ g = hn
          BY <1>3, <3>1, <3>2, <5>1 DEF PrintDup, Has
        <5> QED
          BY <4>2, <5>2 DEF PrintStep
      <4> QED
        BY <4>1, <4>2
    <3>7. HeadFound(w, d, l, n, x + 1, g)
      BY <2>1, <2>3, <2>4, <2>6, <3>3, <3>4, <3>5, <3>6, PrintGroup
    <3>8. PairsFound(w, d, l, n, x + 1)
      BY <2>1, <2>3, <2>4, <2>6, <3>3, <3>6, <3>7, PrintPairs
    <3> QED
      BY <2>3, <3>7, <3>8
  <2> QED
    BY <2>5, <2>6
<1>5. /\ HeadFound(w, d, l, n, z, g)' <=> HeadFound(w, d, l, n, z, g)
      /\ PairsFound(w, d, l, n, z)' <=> PairsFound(w, d, l, n, z)
  BY <1>1 DEF HeadFound, PairsFound, Shown
<1>6. data' = d /\ filelist' = l /\ n_files' = n
  BY <1>1, <1>2, <1>3
<1>7. ASSUME Text, Sorted
      PROVE  /\ LaterDups(data, filelist, n_files, n_files + 1)'
             /\ HeadFound(dups, data, filelist, n_files, ix, headfn)'
             /\ PairsFound(dups, data, filelist, n_files, ix)'
  <2>1. LaterDups(d, l, n, n + 1)
    BY <1>1, <1>3, <1>7 DEF FoundInv, GroupsFoundOK
  <2>2. HeadFound(w, d, l, n, z, g)' /\ PairsFound(w, d, l, n, z)'
    BY <1>4, <1>5, <1>7
  <2> QED
    BY <1>3, <1>6, <2>1, <2>2
<1>8. GroupsFoundOK'
  BY <1>1, <1>2, <1>7 DEF GroupsFoundOK
<1> QED
  BY <1>1, <1>2, <1>8 DEF FoundInv

(* What is together in the lines is together in the list of duplicates. *)
LEMMA TogetherLines ==
  ASSUME dups \in Seq(Line), NEW m, NEW p, TogetherIn(dups, m, p)
  PROVE  Together(m, p) /\ Together(p, m)
<1>1. DOMAIN dups = 1..Len(dups)
  BY LenProperties
<1>2. \A k : FileLine(k) = FileLineIn(dups, k)
  BY DEF FileLine, FileLineIn
<1> QED
  BY <1>1, <1>2 DEF TogetherIn, Together

(* When scan3 has passed all entries, all equal files have been found. *)
LEMMA ExitFound ==
  ASSUME FinddupInv, DuplicatesInv, FoundInv, Exit
  PROVE  FoundInv'
<1>1. /\ pc = "scan3" /\ pc' = "done" /\ ix > n_files
      /\ UNCHANGED <<names, data, linkflag, links, filelist, dups>>
  BY DEF Exit, input
<1>2. /\ BuildFoundOK' /\ LinksFoundOK' /\ (Sorted' <=> Sorted) /\ (Text' <=> Text)
  BY <1>1, KeepFound
<1>3. ASSUME Text, Sorted
      PROVE  AllFound
  <2> DEFINE l == filelist
             n == n_files
  <2>1. /\ PairsFound(dups, data, l, n, ix) /\ PlainNames(l, n)
        /\ dups \in Seq(Line) /\ ix \in Nat
    BY <1>1, <1>3 DEF FoundInv, GroupsFoundOK, DuplicatesInv, Ordinary, Sorted, PrintOK
  <2>2. /\ n \in Nat /\ n = Len(l) /\ ListOK(l)
        /\ \A i \in 1..n : EntryOK(l[i]) /\ l[i].nameloc \in Listed
        /\ \A m \in Listed : \E i \in 1..n : l[i].nameloc = m
    BY Entries DEF FinddupInv, ListOK
  <2>3. \A i \in 1..n : l[i].inode = names[l[i].nameloc] /\ Content(l[i].nameloc) = At(data, l, i)
    BY <2>2 DEF EntryOK, Content, At
  <2> HIDE DEF l, n
  <2>4. ASSUME NEW i \in 1..n, NEW j \in 1..n, i # j, At(data, l, i) = At(data, l, j),
               Shown(l, i), Shown(l, j)
        PROVE  Together(l[i].nameloc, l[j].nameloc)
    <3>1. CASE i < j
      <4>1. j < ix
        BY <1>1, <2>1, <2>2, <3>1 DEF n
      <4>2. TogetherIn(dups, l[i].nameloc, l[j].nameloc)
        BY <2>1, <2>4, <3>1, <4>1 DEF PairsFound
      <4> QED
        BY <2>1, <4>2, TogetherLines
    <3>2. CASE j < i
      <4>1. i < ix
        BY <1>1, <2>1, <2>2, <3>2 DEF n
      <4>2. TogetherIn(dups, l[j].nameloc, l[i].nameloc)
        BY <2>1, <2>4, <3>2, <4>1 DEF PairsFound
      <4> QED
        BY <2>1, <4>2, TogetherLines
    <3> QED
      BY <2>4, <3>1, <3>2
  <2> SUFFICES ASSUME NEW m \in Listed, NEW p \in Listed, m # p, Content(m) = Content(p)
               PROVE  IF linkflag THEN Together(m, p)
                      ELSE names[m] # names[p] =>
                             \E u, v \in Listed : names[u] = names[m] /\ names[v] = names[p]
                                                  /\ Together(u, v)
    BY DEF AllFound
  <2>5. PICK i \in 1..n, j \in 1..n : l[i].nameloc = m /\ l[j].nameloc = p
    BY <2>2
  <2>6. At(data, l, i) = At(data, l, j) /\ i # j
    BY <2>3, <2>5
  <2>7. CASE linkflag
    BY <2>4, <2>5, <2>6, <2>7 DEF Shown
  <2>8. CASE ~linkflag
    <3> SUFFICES ASSUME names[m] # names[p]
                 PROVE  \E u, v \in Listed : names[u] = names[m] /\ names[v] = names[p]
                                             /\ Together(u, v)
      BY <2>8
    <3>1. PICK a \in 1..n, b \in 1..n :
            /\ l[a].inode = l[i].inode /\ ~Has(l, "LNK", a)
            /\ l[b].inode = l[j].inode /\ ~Has(l, "LNK", b)
      BY <2>1 DEF PlainNames
    <3>2. l[i].inode = names[m] /\ l[j].inode = names[p]
      BY <2>3, <2>5
    <3>3. a # b /\ At(data, l, a) = At(data, l, b)
      BY <2>6, <3>1, <3>2 DEF At
    <3>4. Together(l[a].nameloc, l[b].nameloc)
      BY <2>4, <3>1, <3>3 DEF Shown
    <3>5. /\ l[a].nameloc \in Listed /\ l[b].nameloc \in Listed
          /\ names[l[a].nameloc] = names[m] /\ names[l[b].nameloc] = names[p]
      BY <2>2, <2>3, <3>1, <3>2 DEF l, n
    <3> QED
      BY <3>4, <3>5
  <2> QED
    BY <2>7, <2>8
<1>4. AllFound' <=> AllFound
  BY <1>1 DEF AllFound, Listed, Content, Together, FileLine
<1>5. GroupsFoundOK'
  BY <1>1 DEF GroupsFoundOK
<1> QED
  BY <1>1, <1>2, <1>3, <1>4, <1>5 DEF FoundInv

(* The remaining steps end the program, or change nothing. *)
LEMMA OtherFound ==
  ASSUME FinddupInv, DuplicatesInv, FoundInv, PastTheEnd \/ CannotRead \/ UNCHANGED vars
  PROVE  FoundInv'
<1>1. CASE PastTheEnd \/ CannotRead
  <2>1. links' = links /\ links \in Seq(Seq(Nat)) /\ pc' \in {"fault", "failed"}
    BY <1>1 DEF PastTheEnd, CannotRead, FoundInv, BuildFoundOK
  <2>2. BuildFoundOK' /\ LinksFoundOK' /\ GroupsFoundOK'
    BY <2>1 DEF BuildFoundOK, LinksFoundOK, GroupsFoundOK
  <2> QED
    BY <2>1, <2>2 DEF FoundInv
<1>2. CASE UNCHANGED vars
  <2>1. /\ UNCHANGED <<names, data, linkflag, links, filelist, dups, pc, ix, lastix, ix2>>
        /\ UNCHANGED <<needsort, headfn>> /\ n_files' = n_files
    BY <1>2 DEF vars, input, n_files
  <2>2. (Sorted' <=> Sorted) /\ (LinksFound' <=> LinksFound) /\ (AllFound' <=> AllFound)
    BY <2>1, SameFound DEF Sorted, LinksFound, AllFound, Listed, Content, Together, FileLine
  <2>3. BuildFoundOK'
    BY <2>1 DEF FoundInv, BuildFoundOK
  <2>4. LinksFoundOK'
    <3>1. PICK q, l, n, x : q = links /\ l = filelist /\ n = n_files /\ x = ix
      OBVIOUS
    <3>2. LinksSoFar(q, l, n, x)' <=> LinksSoFar(q, l, n, x)
      BY <2>1, SameFound
    <3>3. LinksSoFar(links, filelist, n_files, ix)' <=> LinksSoFar(links, filelist, n_files, ix)
      BY <2>1, <3>1, <3>2
    <3> QED
      BY <2>1, <2>2, <3>3, SameFound DEF FoundInv, LinksFoundOK
  <2>5. GroupsFoundOK'
    <3>1. PICK q, d, l, n, x, h :
            q = dups /\ d = data /\ l = filelist /\ n = n_files /\ x = ix /\ h = headfn
      OBVIOUS
    <3>2. /\ HeadFound(q, d, l, n, x, h)' <=> HeadFound(q, d, l, n, x, h)
          /\ PairsFound(q, d, l, n, x)' <=> PairsFound(q, d, l, n, x)
      BY <2>1 DEF HeadFound, PairsFound, Shown
    <3>3. /\ HeadFound(dups, data, filelist, n_files, ix, headfn)'
               <=> HeadFound(dups, data, filelist, n_files, ix, headfn)
          /\ PairsFound(dups, data, filelist, n_files, ix)'
               <=> PairsFound(dups, data, filelist, n_files, ix)
      BY <2>1, <3>1, <3>2
    <3> QED
      BY <2>1, <2>2, <3>3, SameFound DEF FoundInv, GroupsFoundOK
  <2> QED
    BY <2>1, <2>2, <2>3, <2>4, <2>5, SameFound DEF FoundInv
<1> QED
  BY <1>1, <1>2

(* At first nothing has to be found. *)
LEMMA InitFound == Init => FoundInv
<1> SUFFICES ASSUME Init
             PROVE  FoundInv
  OBVIOUS
<1>1. links = <<>> /\ pc = "build"
  BY DEF Init
<1>2. links \in Seq(Seq(Nat))
  BY <1>1, EmptySeq
<1> QED
  BY <1>1, <1>2 DEF FoundInv, BuildFoundOK, LinksFoundOK, GroupsFoundOK

(* Every step keeps the invariant. *)
LEMMA NextFound ==
  FinddupInv /\ FinddupInv' /\ DuplicatesInv /\ DuplicatesInv' /\ FoundInv /\ [Next]_vars => FoundInv'
BY BuildFound, Scan1Found, EndScan1Found, MarkLinksFound, EndLinksFound, MarkDupFound,
   NotDupFound, NextGroupFound, EndDupsFound, PrintDupFound, ExitFound, OtherFound DEF Next

(* The invariant says at the end that all is found. *)
LEMMA FoundInvImplies == FoundInv => DuplicatesAreFound /\ LinksAreFound
<1>1. FoundInv => DuplicatesAreFound
  BY DEF FoundInv, DuplicatesAreFound, AllFound, Sorted
<1>2. FoundInv => LinksAreFound
  BY DEF FoundInv, LinksFoundOK, LinksAreFound, LinksFound, Sorted
<1> QED
  BY <1>1, <1>2

(* The three invariants together. *)
LEMMA SpecFound == Spec => []FoundInv
<1>1. Spec => []FinddupInv
  BY InitFinddup, NextFinddup, PTL DEF Spec
<1>2. FinddupInv /\ FinddupInv' /\ DuplicatesInv /\ [Next]_vars => DuplicatesInv'
  BY NextDup
<1>3. Spec => []DuplicatesInv
  BY <1>1, <1>2, InitDup, PTL DEF Spec
<1>4. FinddupInv /\ FinddupInv' /\ DuplicatesInv /\ DuplicatesInv' /\ FoundInv /\ [Next]_vars
        => FoundInv'
  BY NextFound
<1> QED
  BY <1>1, <1>3, <1>4, InitFound, PTL DEF Spec

(* When finddup is done, all files with equal contents have been printed in  *)
(* one group, if comp1 orders the entries in both sorts.                     *)
THEOREM DuplicatesAlwaysFound == Spec => []DuplicatesAreFound
BY SpecFound, FoundInvImplies, PTL

(* The hard link summary lists the names of each inode that has several, and *)
(* nothing else, if comp1 orders the entries and no two inodes are the same  *)
(* in an int.                                                                *)
THEOREM LinksAlwaysFound == Spec => []LinksAreFound
BY SpecFound, FoundInvImplies, PTL
=============================================================================
