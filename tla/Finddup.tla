------------------------------- MODULE Finddup -------------------------------
(***************************************************************************)
(* finddup of hw2 (src/finddup.c): from a list of file names to the lists  *)
(* of hard links and of files with equal contents.                         *)
(*                                                                         *)
(* The program is one thread, and each loop is one action per iteration.   *)
(* An inode stands for a device and an inode.  Files do not change while   *)
(* the program runs, but a file may become unreadable.                     *)
(*                                                                         *)
(* Indices start at 1.  Integers that the code keeps in an int have Width  *)
(* bits; checksums use all of them.                                        *)
(***************************************************************************)
EXTENDS Integers, Sequences, FiniteSets, FiniteSetsExt, Functions

CONSTANTS
  Inodes,     \* a set of numbers
  Contents,   \* contents of a file: a nonempty sequence of bytes
  Crc,        \* the sum of the checksums of the lines of a content
  Width,      \* bits of an int
  MaxNames,   \* bound on the number of names
  Chunk       \* entries that the file list has at first: 50

ASSUME FinddupAssumption ==
  /\ Inodes \subseteq Nat \ {0}
  /\ Width \in Nat \ {0} /\ MaxNames \in Nat /\ Chunk \in Nat
  /\ Contents \subseteq Seq(0..255) \ {<<>>}
  /\ Crc \in [Contents -> 0..(2^Width - 1)]

VARIABLES
  data,       \* content of each inode that has been named
  names,      \* the inode of each name read so far, Ignored for one left out
  linkflag,
  filelist,
  links,      \* hard links printed: sequences of names
  dups,       \* duplicates printed: lines <<"FILE" or "DUP", name>>
  pc,
  ix, ix2, lastix, lnkmatch, needsort, inmatch, headfn

input == <<data, names, linkflag>>
vars  == <<data, names, linkflag, filelist, links, dups, pc,
           ix, ix2, lastix, lnkmatch, needsort, inmatch, headfn>>

\* lstat fails, or the file is not regular, or it is empty.
Ignored == 0
None == 0
n_files == Len(filelist)
ContentOf(f) == data[f.inode]

Init ==
  /\ data = [i \in Inodes |-> <<>>] /\ names = <<>> /\ linkflag \in BOOLEAN
  /\ filelist = <<>> /\ links = <<>> /\ dups = <<>>
  /\ pc = "build" /\ ix = 2 /\ ix2 = 0 /\ lastix = 0
  /\ lnkmatch = FALSE /\ needsort = FALSE /\ inmatch = FALSE /\ headfn = None

-----------------------------------------------------------------------------
(***************************************************************************)
(* comp1 and qsort.                                                        *)
(***************************************************************************)
AsInt(v) == LET r == v % 2^Width IN IF r < 2^(Width - 1) THEN r ELSE r - 2^Width

CompIgnoresCrc(f, g) == IF AsInt(f.length - g.length) # 0 THEN AsInt(f.length - g.length)
                        ELSE AsInt(f.inode - g.inode)

\* The first difference that is not 0 when it has been stored in an int.
comp1(f, g) ==
  LET diff == <<AsInt(f.length - g.length), AsInt(f.crc32 - g.crc32), AsInt(f.inode - g.inode)>>
      differ == {i \in 1..3 : diff[i] # 0}
  IN  IF differ = {} THEN 0 ELSE diff[Min(differ)]

\* comp1 orders the entries of l.
IsOrdered(l) ==
  \A i, j \in DOMAIN l :
    /\ comp1(l[i], l[j]) < 0 <=> comp1(l[j], l[i]) > 0
    /\ \A k \in DOMAIN l : comp1(l[i], l[j]) <= 0 /\ comp1(l[j], l[k]) <= 0
                           => comp1(l[i], l[k]) <= 0

\* qsort is only specified for a comparison that is an order.
SORT(l) ==
  LET orders == {[i \in DOMAIN l |-> l[p[i]]] : p \in Bijection(DOMAIN l, DOMAIN l)}
  IN  IF IsOrdered(l)
      THEN {s \in orders : \A i \in 1..(Len(l) - 1) : comp1(s[i], s[i + 1]) <= 0}
      ELSE orders

-----------------------------------------------------------------------------
(***************************************************************************)
(* The build loop, and scan1.                                              *)
(***************************************************************************)
ReadName(x) ==
  /\ pc = "build" /\ Len(names) < MaxNames
  /\ names' = Append(names, x)
  /\ \E c \in IF data[x] = <<>> THEN Contents ELSE {data[x]} :
       /\ data' = [data EXCEPT ![x] = c]
       /\ filelist' = Append(filelist, [nameloc |-> Len(names) + 1, length |-> Len(c),
                                       crc32 |-> 0, inode |-> x, flags |-> {}])
  /\ UNCHANGED <<linkflag, links, dups, pc, ix, ix2, lastix, lnkmatch, needsort, inmatch, headfn>>

IgnoreName ==
  /\ pc = "build" /\ Len(names) < MaxNames
  /\ names' = Append(names, Ignored)
  /\ UNCHANGED <<data, linkflag, filelist, links, dups, pc, ix, ix2, lastix, lnkmatch,
                 needsort, inmatch, headfn>>

EndOfNames ==
  /\ pc = "build"
  /\ filelist' \in SORT(filelist)
  /\ pc' = "scan1"
  /\ UNCHANGED <<input, links, dups, ix, ix2, lastix, lnkmatch, needsort, inmatch, headfn>>

SameLength == pc = "scan1" /\ ix <= n_files /\ filelist[ix - 1].length = filelist[ix].length

get_crc(f) == IF "CRC" \in f.flags THEN f
              ELSE [f EXCEPT !.crc32 = Crc[ContentOf(f)], !.flags = @ \cup {"CRC"}]

Scan1 ==
  /\ pc = "scan1" /\ ix <= n_files
  /\ \/ /\ SameLength
        /\ filelist' = [filelist EXCEPT ![ix - 1] = get_crc(@), ![ix] = get_crc(@)]
        /\ needsort' = TRUE
     \/ /\ ~SameLength
        /\ UNCHANGED <<filelist, needsort>>
  /\ ix' = ix + 1
  /\ UNCHANGED <<input, links, dups, pc, ix2, lastix, lnkmatch, inmatch, headfn>>

\* The last iteration looks at the entry after the last one.  It has been
\* cleared if it belongs to the first Chunk entries, and is anything if not.
PastTheEnd ==
  /\ pc = "scan1" /\ ix = n_files + 1 /\ n_files >= Chunk
  /\ pc' = "fault"
  /\ UNCHANGED <<input, filelist, links, dups, ix, ix2, lastix, lnkmatch, needsort, inmatch, headfn>>

EndScan1 ==
  /\ pc = "scan1" /\ ix > n_files
  /\ filelist' \in IF needsort THEN SORT(filelist) ELSE {filelist}
  /\ pc' = "links" /\ ix' = 1
  /\ UNCHANGED <<input, links, dups, ix2, lastix, lnkmatch, needsort, inmatch, headfn>>

-----------------------------------------------------------------------------
(***************************************************************************)
(* scan2: hard links, then duplicates.                                     *)
(***************************************************************************)

LinkPair == {j \in ix..n_files : j <= ix + 1 /\ filelist[j].inode = filelist[ix].inode}

\* The entries from ix on that have the inode of ix.
LinkRun == {j \in ix..n_files : \A k \in ix..j : filelist[k].inode = filelist[ix].inode}

MarkLinks ==
  /\ pc = "links" /\ ix <= n_files
  /\ filelist' = [j \in 1..n_files |->
       IF j \in LinkRun \ {ix} THEN [filelist[j] EXCEPT !.flags = @ \cup {"LNK"}] ELSE filelist[j]]
  /\ links' = IF linkflag /\ LinkRun # {ix}
              THEN Append(links, [j \in 1..Cardinality(LinkRun) |-> filelist[ix + j - 1].nameloc])
              ELSE links
  /\ ix' = ix + Cardinality(LinkRun)
  /\ UNCHANGED <<input, dups, pc, ix2, lastix, lnkmatch, needsort, inmatch, headfn>>

\* The beginning of an iteration of the outer loop over duplicates.
BeginGroup(i) == ix' = i /\ ix2' = i + 1 /\ lastix' = i + 1 /\ lnkmatch' = TRUE

EndLinks ==
  /\ pc = "links" /\ ix > n_files
  /\ pc' = "dups" /\ BeginGroup(1)
  /\ UNCHANGED <<input, filelist, links, dups, needsort, inmatch, headfn>>

\* The loop of fullcmp ends with EOF: at the end of the first file or at a byte
\* 255, which a char cannot tell from EOF.  A byte above 127 is negative as
\* a char and never equal to what getc returns.
fullcmp(a, b) ==
  \E k \in 1..(Len(a) + 1) :
    /\ k <= Len(a) => a[k] = 255
    /\ \A j \in 1..(k - 1) : a[j] < 128 /\ j <= Len(b) /\ a[j] = b[j]

Candidate ==
  /\ pc = "dups" /\ ix2 <= n_files
  /\ filelist[ix].length = filelist[ix2].length
  /\ filelist[ix].crc32 = filelist[ix2].crc32

LinkOfAnyFile == "LNK" \in filelist[ix2].flags

\* A link of the file that was compared last, and matched.
KnownLink == "LNK" \in filelist[ix2].flags /\ lnkmatch

OverwriteInto(l, a, b) == [l EXCEPT ![a] = l[b]]

\* Entry b is put at place a, and the ones from a on move up.
MoveInto(l, a, b) ==
  [i \in DOMAIN l |-> IF i = a THEN l[b] ELSE IF a < i /\ i <= b THEN l[i - 1] ELSE l[i]]

MarkDup ==
  /\ Candidate
  /\ KnownLink \/ fullcmp(ContentOf(filelist[ix]), ContentOf(filelist[ix2]))
  /\ filelist' = MoveInto([filelist EXCEPT ![ix2].flags = @ \cup {"DUP"}], lastix, ix2)
  /\ lastix' = IF lastix = ix2 THEN lastix ELSE lastix + 1
  /\ lnkmatch' = TRUE /\ ix2' = ix2 + 1
  /\ UNCHANGED <<input, links, dups, pc, ix, needsort, inmatch, headfn>>

NotDup ==
  /\ Candidate /\ ~KnownLink
  /\ ~fullcmp(ContentOf(filelist[ix]), ContentOf(filelist[ix2]))
  /\ lnkmatch' = FALSE /\ ix2' = ix2 + 1
  /\ UNCHANGED <<input, filelist, links, dups, pc, ix, lastix, needsort, inmatch, headfn>>

NextGroup ==
  /\ pc = "dups" /\ ix <= n_files /\ ~Candidate
  /\ BeginGroup(lastix)
  /\ UNCHANGED <<input, filelist, links, dups, pc, needsort, inmatch, headfn>>

EndDups ==
  /\ pc = "dups" /\ ix > n_files
  /\ pc' = "scan3" /\ ix' = 1 /\ inmatch' = TRUE /\ headfn' = None
  /\ UNCHANGED <<input, filelist, links, dups, ix2, lastix, lnkmatch, needsort>>

\* get_crc or fullcmp cannot open a file.
CannotRead ==
  /\ \/ SameLength /\ \E f \in {filelist[ix - 1], filelist[ix]} : "CRC" \notin f.flags
     \/ Candidate /\ ~KnownLink
  /\ pc' = "failed"
  /\ UNCHANGED <<input, filelist, links, dups, ix, ix2, lastix, lnkmatch, needsort, inmatch, headfn>>

-----------------------------------------------------------------------------
(***************************************************************************)
(* scan3.                                                                  *)
(***************************************************************************)
InMatch == inmatch /\ filelist[ix].flags # {"CRC"}

\* The entry before the first duplicate of a group.
HeadName == IF InMatch THEN headfn ELSE filelist[ix - 1].nameloc

PrintDup ==
  /\ pc = "scan3" /\ ix <= n_files
  /\ \/ /\ "DUP" \in filelist[ix].flags
        /\ inmatch' = TRUE
        /\ IF linkflag \/ "LNK" \notin filelist[ix].flags
           THEN /\ dups' = dups \o (IF HeadName = None THEN <<>> ELSE << <<"FILE", HeadName>> >>)
                                \o << <<"DUP", filelist[ix].nameloc>> >>
                /\ headfn' = None
           ELSE headfn' = HeadName /\ UNCHANGED dups
     \/ /\ "DUP" \notin filelist[ix].flags
        /\ inmatch' = InMatch
        /\ UNCHANGED <<dups, headfn>>
  /\ ix' = ix + 1
  /\ UNCHANGED <<input, filelist, links, pc, ix2, lastix, lnkmatch, needsort>>

Exit ==
  /\ pc = "scan3" /\ ix > n_files
  /\ pc' = "done"
  /\ UNCHANGED <<input, filelist, links, dups, ix, ix2, lastix, lnkmatch, needsort, inmatch, headfn>>

-----------------------------------------------------------------------------
Next == \/ (\E x \in Inodes : ReadName(x)) \/ IgnoreName
        \/ EndOfNames \/ Scan1 \/ PastTheEnd \/ EndScan1
        \/ MarkLinks \/ EndLinks \/ MarkDup \/ NotDup \/ NextGroup \/ EndDups
        \/ CannotRead \/ PrintDup \/ Exit

Spec == Init /\ [][Next]_vars

-----------------------------------------------------------------------------
Listed == {m \in 1..Len(names) : names[m] # Ignored}
NamesIn(l) == {l[i].nameloc : i \in DOMAIN l}

\* Sorting and moving entries loses and repeats no file: the list always holds
\* each name once, with the inode, length and checksum of its file.
NothingLost ==
  /\ NamesIn(filelist) = Listed /\ n_files = Cardinality(Listed)
  /\ \A i \in 1..n_files :
       LET f == filelist[i] IN
       /\ f.inode = names[f.nameloc] /\ f.length = Len(ContentOf(f))
       /\ f.crc32 = IF "CRC" \in f.flags THEN Crc[ContentOf(f)] ELSE 0

Text == \A m \in Listed : \A i \in DOMAIN data[names[m]] : data[names[m]][i] < 128
Content(m) == data[names[m]]

\* The FILE line that line k of dups belongs to.
FileLine(k) == Max({j \in 1..k : dups[j][1] = "FILE"} \cup {0})
Together(m, n) == \E j, k \in DOMAIN dups : /\ dups[j][2] = m /\ dups[k][2] = n
                                           /\ FileLine(j) = FileLine(k)

\* The first sort, which finds no checksums yet, puts files of equal length
\* together: scan1 only computes the checksums of those it finds together.
FirstSortOrders ==
  /\ IsOrdered([m \in Listed |-> [length |-> Len(Content(m)), crc32 |-> 0, inode |-> names[m]]])
  /\ \A m, n \in Listed :
       AsInt(Len(Content(m)) - Len(Content(n))) = 0 => Len(Content(m)) = Len(Content(n))

\* Among text files, a DUP line of scan3 follows the FILE line of a file with
\* equal contents, also if the checksums are not ordered and qsort leaves the
\* list in any order.  Of other files a byte 255 ends the comparison early, and if
\* not even lengths and inodes are ordered, there can be a DUP line without a
\* FILE line: nothing is said of these.
DuplicatesAreEqual ==
  (dups # <<>> /\ Text /\ FirstSortOrders) =>
    \A k \in DOMAIN dups : /\ FileLine(k) # 0
                           /\ Content(dups[k][2]) = Content(dups[FileLine(k)][2])

\* The inodes of the files named differ in an int.
InodesDiffer == \A m, n \in Listed : AsInt(names[m] - names[n]) = 0 => names[m] = names[n]

\* All files with equal contents are printed in one group, one of them as the
\* FILE; without hard links, one name at least of each of their inodes.  It
\* takes a comparison that is an order, in the first sort too: scan1 gives a
\* file whose length is its neighbours' a checksum and leaves the others at 0.
DuplicatesAreFound ==
  (pc = "done" /\ Text /\ FirstSortOrders /\ IsOrdered(filelist)) =>
    \A m, n \in Listed :
      (m # n /\ Content(m) = Content(n)) =>
        IF linkflag THEN Together(m, n)
        ELSE names[m] # names[n] =>
               \E p, q \in Listed : names[p] = names[m] /\ names[q] = names[n] /\ Together(p, q)

\* The hard link summary lists all names of an inode that has several, and
\* nothing else, unless two inodes are the same in an int: then the sort may
\* mix their names.
LinksAreFound ==
  (pc = "done" /\ linkflag /\ FirstSortOrders /\ InodesDiffer /\ IsOrdered(filelist)) =>
    {Range(links[k]) : k \in DOMAIN links}
      = {S \in {{m \in Listed : names[m] = i} : i \in Inodes} : Cardinality(S) > 1}

=============================================================================
