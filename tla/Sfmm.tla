-------------------------------- MODULE Sfmm ---------------------------------
(***************************************************************************)
(* The memory allocator (hw3, sfmm.c), word by word.                       *)
(*                                                                         *)
(* An address is the number of a 64-bit row of the heap, and block sizes   *)
(* are counted in rows.  A block pointer b is the row of prev_footer; its  *)
(* header is at b + 1, its links (or its payload) start at b + 2, and its  *)
(* footer is the prev_footer of the block after it.  The sentinels of the  *)
(* free lists have negative addresses.                                     *)
(*                                                                         *)
(* mem holds the rows the allocator has stored a header, a footer or a     *)
(* link in.  A row outside its domain holds other data: never written, or  *)
(* the client's.  MAGIC is a random word, so such data taken for a header  *)
(* has arbitrary flags ("coin") and a size that reaches out of the heap,   *)
(* and a pointer read from it points nowhere.                              *)
(***************************************************************************)
EXTENDS Integers, Sequences, FiniteSets, FiniteSetsExt, Functions

CONSTANTS
  Sizes,          \* bytes a client asks sf_malloc for
  Resizes,        \* bytes a client asks sf_realloc for
  Filled,         \* requests whose memory the client then writes
  QUICK_LIST_MAX, \* 5
  MaxPages,       \* pages sf_mem_grow can give
  MaxCalls        \* bound: calls of the client

ASSUME SfmmAssumption ==
  /\ Sizes \subseteq Nat /\ Resizes \subseteq Nat
  /\ QUICK_LIST_MAX \in Nat \ {0} /\ MaxPages \in Nat \ {0}

VARIABLES
  h,       \* the heap
  live,    \* the client's blocks: payload address -> bytes asked for
  calls    \* calls so far

vars == <<h, live, calls>>

PAGE_ROWS == 512
NUM_QUICK_LISTS == 10
NUM_FREE_LISTS == 10
NULL == -1
LOST == -2
MaxRequest == 2^30 + (2^30 - 1)
Sentinel(i) == -10 * (i + 1)

Header(size, alloc, prev) == [hdr |-> TRUE, size |-> size, alloc |-> alloc, prev |-> prev]
Link(b) == [hdr |-> FALSE, to |-> b]

IsHdr(hp, r) == r \in DOMAIN hp.mem /\ hp.mem[r].hdr
IsLink(hp, r) == r \in DOMAIN hp.mem /\ ~hp.mem[r].hdr

(* Stores outside the heap, or through a pointer that points nowhere. *)
Corrupt(hp) == [hp EXCEPT !.state = "corrupt"]
Abort(hp) == [hp EXCEPT !.state = "abort"]
Ok(hp) == hp.state = "ok"

(* Five things the code does not get right are noted in trouble.  growth:  *)
(* growing the heap when globalEnd is not its last block, or by several    *)
(* pages when that block is allocated, or by none.  flush: flushing a      *)
(* block before the block that follows it.  shrink: giving back the end of *)
(* a block.  footer: taking a row that is no footer for the footer of the  *)
(* block before.  end: freeing the block that ends where the heap ends,    *)
(* where the row that should be the next block's header was never written. *)
Note(hp, what, happens) == [hp EXCEPT !.trouble = @ \cup (IF happens THEN {what} ELSE {})]

(* f with f[x] = v. *)
Put(f, x, v) == [y \in DOMAIN f \cup {x} |-> IF y = x THEN v ELSE f[y]]

Store(hp, r, v) == IF r < hp.end THEN [hp EXCEPT !.mem = Put(@, r, v)] ELSE Corrupt(hp)

(* Rows that are overwritten with other data. *)
Forget(hp, rows) == [hp EXCEPT !.mem = [r \in DOMAIN @ \ rows |-> @[r]]]

-----------------------------------------------------------------------------
(* Lists. *)

NextOf(hp, b) == IF IsLink(hp, b + 2) THEN hp.mem[b + 2].to ELSE LOST

(* The blocks met by following next from first to stop.  The last of them  *)
(* is LOST if a pointer points nowhere or the list never comes back.       *)
Chain(hp, first, stop) ==
  LET ends == {stop, LOST}
      node[n \in 0..hp.end] ==
        IF n = 0 THEN first
        ELSE LET b == node[n - 1]
             IN  CASE b \in ends -> b
                   [] b \notin ends /\ n = hp.end -> LOST
                   [] OTHER -> NextOf(hp, b)
      last == CHOOSE n \in 0..hp.end : node[n] \in ends /\ (n > 0 => node[n - 1] \notin ends)
  IN  [k \in 1..(IF node[last] = stop THEN last ELSE last + 1) |-> node[k - 1]]

FreeList(hp, i) == Chain(hp, NextOf(hp, Sentinel(i)), Sentinel(i))

ClassRows == <<4, 8, 16, 32, 64, 128, 256, 512, 1024>>
FreeListIndex(size) ==
  IF size > 1024 \/ size < 0 THEN 9 ELSE Min({i \in 0..8 : size <= ClassRows[i + 1]})

sf_put_in_free_list(hp, b, size) ==
  LET s == Sentinel(FreeListIndex(size))
      oldNext == hp.mem[s + 2].to
      h1 == Store(hp, oldNext + 3, Link(b))
      h2 == Store(h1, b + 2, Link(oldNext))
      h3 == Store(h2, b + 3, Link(s))
  IN  Store(h3, s + 2, Link(b))

Unlink(hp, b) ==
  IF ~IsLink(hp, b + 2) \/ ~IsLink(hp, b + 3) THEN Corrupt(hp)
  ELSE LET n == hp.mem[b + 2].to
           p == hp.mem[b + 3].to
       IN  Store(Store(hp, n + 3, Link(p)), p + 2, Link(n))

(* The lists are searched in order; a block that is on none is left alone. *)
sf_remove_from_free_list(hp, b) ==
  LET found == {i \in 0..(NUM_FREE_LISTS - 1) : {b, LOST} \cap Range(FreeList(hp, i)) # {}}
  IN  CASE found = {} -> hp
        [] found # {} /\ b \in Range(FreeList(hp, Min(found))) -> Unlink(hp, b)
        [] OTHER -> Corrupt(hp)

sf_set_block_footer(hp, b) ==
  IF IsHdr(hp, b + 1) THEN Store(hp, b + hp.mem[b + 1].size, hp.mem[b + 1])
  ELSE Corrupt(hp)

(* The size in the footer before b, 0 if it reaches out of the heap. *)
PrevFooterSize(hp, b) == IF IsHdr(hp, b) THEN hp.mem[b].size ELSE 0

SizeAt(hp, b) == IF IsHdr(hp, b + 1) THEN hp.mem[b + 1].size ELSE 0

(* The blocks as their headers tell them from row 0 on, and the row after  *)
(* the last of them.                                                       *)
Walk(hp) ==
  LET IsEnd(b) == b >= hp.end - 2 \/ SizeAt(hp, b) < 4
      start[n \in 0..hp.end] ==
        IF n = 0 THEN 0
        ELSE LET b == start[n - 1] IN IF IsEnd(b) THEN b ELSE b + SizeAt(hp, b)
      last == CHOOSE n \in 0..hp.end : IsEnd(start[n]) /\ (n > 0 => ~IsEnd(start[n - 1]))
  IN  [blocks |-> {start[n] : n \in 0..(last - 1)}, end |-> start[last]]

Follows(hp, b, past) == past \in Walk(hp).blocks /\ past + SizeAt(hp, past) = b

-----------------------------------------------------------------------------
IsFreeByWrongFlag(hp, x, coin) == IF IsHdr(hp, x + 1) THEN ~hp.mem[x + 1].prev ELSE coin

IsFree(hp, x, coin) == IF IsHdr(hp, x + 1) THEN ~hp.mem[x + 1].alloc ELSE coin

RemoveIf(cond, hp, b) == IF cond THEN sf_remove_from_free_list(hp, b) ELSE hp

(* The neighbours become one block, new, of newSize rows.  Its prev_footer *)
(* is written whatever comes before it.                                    *)
PutMerged(hp, new, newSize, pastSize, pastJunk) ==
  LET h1 == Store(hp, new + 1, Header(newSize, FALSE, TRUE))
      h2 == IF pastJunk THEN Forget(h1, {new}) ELSE Store(h1, new, Header(pastSize, TRUE, FALSE))
  IN  sf_put_in_free_list(sf_set_block_footer(h2, new), new, newSize)

(* The neighbours that are free, by their headers, are taken off their     *)
(* lists.  NULL is a neighbour outside the heap, which is no block.        *)
Merge(hp, b, size, past, next, coin) ==
  LET Junk(x) == x # NULL /\ ~IsHdr(hp, x + 1)
      pastFree == past # NULL /\ IsFree(hp, past, coin)
      nextFree == next # NULL /\ IsFree(hp, next, coin)
      pastSize == IF past # NULL /\ ~Junk(past) THEN hp.mem[past + 1].size ELSE 0
      newSize == size + (IF pastFree THEN pastSize ELSE 0)
                      + (IF nextFree THEN hp.mem[next + 1].size ELSE 0)
  IN  CASE ~pastFree /\ ~nextFree -> sf_put_in_free_list(hp, b, size)
        [] (pastFree /\ Junk(past)) \/ (nextFree /\ Junk(next)) -> Corrupt(hp)
        [] OTHER ->
             PutMerged(RemoveIf(nextFree,
                         RemoveIf(pastFree, sf_remove_from_free_list(hp, b), past), next),
                       IF pastFree THEN past ELSE b, newSize, pastSize, Junk(past))

(* sf_coalesce: pf is the size in the footer before the block. *)
sf_coalesce(hp, b, size, pf, makingLargePage, coin) ==
  LET past == b - pf
      next == b + size
      pastIn == pf > 0 /\ past >= 0 /\ past < hp.end - 2
      nextIn == ~makingLargePage /\ next > 0 /\ next < hp.end - 2
      stale == pastIn /\ ~makingLargePage /\ IsFree(hp, past, coin) /\ ~Follows(hp, b, past)
  IN  Note(Merge(hp, b, size, IF pastIn THEN past ELSE NULL, IF nextIn THEN next ELSE NULL, coin),
           "footer", stale)

-----------------------------------------------------------------------------
(* sf_init_first_page: 4080 bytes in one block, on list 7. *)
SentinelRows == {Sentinel(i) + k : i \in 0..(NUM_FREE_LISTS - 1), k \in {2, 3}}

EmptyPage ==
  [mem |-> [r \in SentinelRows |-> Link(IF r % 10 = 2 THEN r - 2 ELSE r - 3)],
   end |-> PAGE_ROWS, globalEnd |-> 0, state |-> "ok", trouble |-> {},
   qlen |-> [i \in 0..(NUM_QUICK_LISTS - 1) |-> 0],
   qfirst |-> [i \in 0..(NUM_QUICK_LISTS - 1) |-> NULL]]

sf_init_first_page ==
  LET h1 == Store(EmptyPage, 1, Header(510, FALSE, FALSE))
      h2 == Store(h1, 510, Header(510, FALSE, FALSE))
      h3 == Store(h2, Sentinel(7) + 2, Link(0))
  IN  Store(Store(h3, 3, Link(Sentinel(7))), 2, Link(Sentinel(7)))

-----------------------------------------------------------------------------
(* Quick lists.  Their blocks keep the header of an allocated block. *)

QuickIndex(size) == (size - 4) \div 2
IsQuick(size) == size \in 4..22 /\ size % 2 = 0

QuickList(hp, i) == Chain(hp, hp.qfirst[i], NULL)

SetQuick(hp, i, len, first) == [[hp EXCEPT !.qlen[i] = len] EXCEPT !.qfirst[i] = first]

(* The blocks of a list, all of so many rows, are marked free, each with   *)
(* its footer, before the first of them is coalesced.                      *)
Unmark(hp, blocks, rows) ==
  LET marked == {b + 1 : b \in blocks} \cup {b + rows : b \in blocks}
  IN  [hp EXCEPT !.mem = [r \in DOMAIN @ \cup marked |->
                            IF r \in marked THEN Header(rows, FALSE, FALSE) ELSE @[r]]]

CoalesceFlushed(hp, b, coin) ==
  IF IsHdr(hp, b + 1) THEN sf_coalesce(hp, b, hp.mem[b + 1].size, 0, FALSE, coin) ELSE Corrupt(hp)

(* The footer before a block is passed on as it is stored, XORed with      *)
(* MAGIC, so no past block is ever found.  blockArray has QUICK_LIST_MAX   *)
(* places.                                                                 *)
sf_flush_quick_list(hp, b, i, coin) ==
  LET blocks == QuickList(hp, i)
      h1 == SetQuick(Unmark(hp, Range(blocks), 2 * i + 4), i, 1, b)
      h2 == Note(Store(h1, b + 2, Link(NULL)), "flush", \E j, k \in DOMAIN blocks :
              j < k /\ blocks[k] = blocks[j] + SizeAt(hp, blocks[j]))
      flushed[k \in 0..QUICK_LIST_MAX] ==
        IF k = 0 THEN h2
        ELSE LET prev == flushed[k - 1]
             IN  IF k <= Len(blocks) THEN CoalesceFlushed(prev, blocks[k], coin) ELSE prev
  IN  IF LOST \in Range(blocks) \/ Len(blocks) > QUICK_LIST_MAX THEN Corrupt(hp)
      ELSE flushed[QUICK_LIST_MAX]

sf_put_in_quick_listLate(hp, b, size, coin) ==
  LET i == QuickIndex(size) IN
  IF hp.qlen[i] > QUICK_LIST_MAX THEN sf_flush_quick_list(hp, b, i, coin)
  ELSE Store(SetQuick(hp, i, hp.qlen[i] + 1, b), b + 2, Link(hp.qfirst[i]))

sf_put_in_quick_list(hp, b, size, coin) ==
  LET i == QuickIndex(size) IN
  IF hp.qlen[i] = QUICK_LIST_MAX THEN sf_flush_quick_list(hp, b, i, coin)
  ELSE Store(SetQuick(hp, i, hp.qlen[i] + 1, b), b + 2, Link(hp.qfirst[i]))

-----------------------------------------------------------------------------
(* sf_malloc.  The result is the heap and the address of the payload. *)

BlockRows(size) == LET bytes == ((size + 8 + 15) \div 16) * 16
                   IN  (IF bytes < 32 THEN 32 ELSE bytes) \div 8

Later(a, b) == IF a > b THEN a ELSE b

TakeQuick(hp, i) ==
  LET b == hp.qfirst[i] IN
  [h |-> IF IsLink(hp, b + 2)
         THEN SetQuick(hp, i, hp.qlen[i] - 1, hp.mem[b + 2].to) ELSE Corrupt(hp),
   ret |-> b + 2]

(* A free block is split when at least 32 bytes are left.  A block that is *)
(* taken whole leaves the flag of the block after it as it was.            *)
Split(hp, b, size) ==
  LET rest == SizeAt(hp, b) - size
      sp == b + size
      h1 == Store(Store(hp, sp + 1, Header(rest, FALSE, TRUE)), sp, Header(size, TRUE, FALSE))
      h2 == Unlink(sf_set_block_footer(h1, sp), b)
      h3 == sf_put_in_free_list(h2, sp, rest)
      h4 == Store(h3, b + 1, Header(size, TRUE, TRUE))
  IN  [h4 EXCEPT !.globalEnd = Later(@, sp)]

TakeWholeStillListed(hp, b, coin) ==
  [hp EXCEPT !.mem[b + 1].alloc = TRUE, !.globalEnd = Later(@, b)]

TakeWhole(hp, b, coin) ==
  LET h1 == sf_remove_from_free_list(hp, b)
      endAlloc == IF IsHdr(h1, h1.globalEnd + 1) THEN h1.mem[h1.globalEnd + 1].alloc ELSE coin
      h2 == Store(h1, b + 1, [h1.mem[b + 1] EXCEPT !.alloc = TRUE, !.prev = @ \/ endAlloc])
  IN  [h2 EXCEPT !.globalEnd = Later(@, b)]

CoalescePage(hp, newPage, coin) ==
  sf_coalesce(hp, newPage, PAGE_ROWS, PrevFooterSize(hp, newPage), TRUE, coin)

AddPage(hp, newPage, coin) ==
  LET h1 == Store([hp EXCEPT !.end = @ + PAGE_ROWS], newPage + 1, Header(PAGE_ROWS, FALSE, FALSE))
  IN  CoalescePage(sf_set_block_footer(h1, newPage), newPage, coin)

(* The loop that adds pages.  newPage is where the first of them begins,   *)
(* also in the later turns.                                                *)
AddPages(hp, newPage, pages, coin) ==
  LET grown[k \in 0..MaxPages] ==
        IF k = 0 THEN hp
        ELSE LET prev == grown[k - 1] IN IF k <= pages THEN AddPage(prev, newPage, coin) ELSE prev
  IN  grown[MaxPages]

(* Pages are added until temp, the bytes still to be found, is negative,   *)
(* or until there are no more.                                             *)
PagesFor(hp, temp) ==
  IF temp < 0 THEN 0 ELSE Min({temp \div (8 * PAGE_ROWS) + 1, MaxPages - hp.end \div PAGE_ROWS})

(* The rows at the end of the heap are written before sf_mem_grow is       *)
(* called, from the header of globalEnd.                                   *)
Grow(hp, size, coin) ==
  LET g == hp.mem[hp.globalEnd + 1]
      temp == IF g.alloc THEN size ELSE size - 8 * g.size
      pages == PagesFor(hp, temp)
      newPage == hp.end - 2
      h1 == Store(Store(hp, newPage + 1, Header(PAGE_ROWS, FALSE, g.alloc)),
                  newPage, Header(g.size, FALSE, FALSE))
      h2 == Note(h1, "growth", ~Follows(hp, newPage, hp.globalEnd) \/ (g.alloc /\ pages > 1))
  IN  [h |-> AddPages(h2, newPage, pages, coin), pages |-> pages,
       temp |-> temp - 8 * PAGE_ROWS * pages]

TakeFree(hp, b, rows, coin) ==
  IF b = LOST THEN [h |-> Corrupt(hp), ret |-> NULL]
  ELSE [h |-> IF SizeAt(hp, b) - rows >= 4 THEN Split(hp, b, rows) ELSE TakeWhole(hp, b, coin),
        ret |-> b + 2]

(* The quick lists with a block of the size, and the first free block that *)
(* is large enough, NULL if there is none.                                 *)
QuickFor(hp, rows) ==
  {i \in 0..(NUM_QUICK_LISTS - 1) : hp.qlen[i] > 0 /\ SizeAt(hp, hp.qfirst[i]) = rows}

FirstFit(hp, rows) ==
  LET free == [i \in 0..(NUM_FREE_LISTS - 1) |-> FreeList(hp, i)]
      fits == [i \in 0..(NUM_FREE_LISTS - 1) |->
                 {k \in DOMAIN free[i] : free[i][k] = LOST \/ SizeAt(hp, free[i][k]) >= rows}]
      lists == {i \in 0..(NUM_FREE_LISTS - 1) : fits[i] # {}}
  IN  IF lists = {} THEN NULL ELSE free[Min(lists)][Min(fits[Min(lists)])]

Found(hp, size) == QuickFor(hp, BlockRows(size)) # {} \/ FirstFit(hp, BlockRows(size)) # NULL

(* The search fails, and as many pages as it takes can be added. *)
Grows(hp, size, coin) ==
  /\ Ok(hp) /\ ~Found(hp, size) /\ IsHdr(hp, hp.globalEnd + 1)
  /\ Grow(hp, size, coin).temp < 0 /\ Grow(hp, size, coin).pages > 0

(* The end of the last search.  If it failed, there are not enough pages,  *)
(* or none is asked for and the call never returns.                        *)
Answer(hp, size, coin) ==
  LET quick == QuickFor(hp, BlockRows(size))
      grown == Grow(hp, size, coin)
  IN  CASE ~Ok(hp) -> [h |-> hp, ret |-> NULL]
        [] Ok(hp) /\ quick # {} -> TakeQuick(hp, Min(quick))
        [] Ok(hp) /\ quick = {} /\ Found(hp, size) ->
             TakeFree(hp, FirstFit(hp, BlockRows(size)), BlockRows(size), coin)
        [] OTHER -> [h |-> IF ~IsHdr(hp, hp.globalEnd + 1) \/ grown.temp < 0
                           THEN Corrupt(Note(hp, "growth", TRUE)) ELSE grown.h,
                     ret |-> NULL]

(* First a quick list, then the first free block that is large enough.     *)
(* Then more pages and all over again.                                     *)
Allocate(hp, size, coin) ==
  LET heap[k \in 0..MaxPages] ==
        IF k = 0 THEN hp
        ELSE LET prev == heap[k - 1]
             IN  IF Grows(prev, size, coin) THEN Grow(prev, size, coin).h ELSE prev
  IN  Answer(heap[MaxPages], size, coin)

(* A request for no bytes, or for more than INT_MAX, is answered at once. *)
sf_malloc(hp, size, coin) ==
  IF size = 0 \/ size > MaxRequest THEN [h |-> hp, ret |-> NULL]
  ELSE Allocate(IF hp.end = 0 THEN sf_init_first_page ELSE hp, size, coin)

-----------------------------------------------------------------------------
(* The checks sf_free and sf_realloc make of a pointer.  For a block whose *)
(* flag says that the one before it is free, that block is looked for one  *)
(* size of the block itself, and not of the one before it, further down.   *)
Refused(hp, b, coin) ==
  LET past == b - SizeAt(hp, b) IN
  \/ ~IsHdr(hp, b + 1)
  \/ ~hp.mem[b + 1].alloc
  \/ b + SizeAt(hp, b) > hp.end
  \/ /\ ~hp.mem[b + 1].prev /\ past >= 0
     /\ IF IsHdr(hp, past + 1) THEN hp.mem[past + 1].alloc ELSE coin

CoalesceFreed(hp, b, size, coin) ==
  sf_coalesce(sf_set_block_footer(hp, b), b, size, PrevFooterSize(hp, b), FALSE, coin)

(* A block that goes to no quick list clears the flag of the block after   *)
(* it, and writes that block's footer, whether it is free or not.  At the  *)
(* end of the heap both go by a row that is no header.                     *)
sf_free(hp, b, coin) ==
  LET hd == hp.mem[b + 1]
      next == b + hd.size
      h1 == Store(hp, next + 1, [hp.mem[next + 1] EXCEPT !.prev = FALSE])
      h2 == Store(sf_set_block_footer(h1, next), b + 1, [hd EXCEPT !.alloc = FALSE])
  IN  IF Refused(hp, b, coin) THEN Abort(hp)
      ELSE IF IsQuick(hd.size) THEN sf_put_in_quick_list(hp, b, hd.size, coin)
      ELSE IF ~IsHdr(hp, next + 1) THEN Corrupt(Note(hp, "end", next = hp.end - 2))
      ELSE CoalesceFreed(h2, b, hd.size, coin)

CoalesceRest(hp, sp, rest, size, coin) ==
  IF Ok(hp) THEN sf_coalesce(hp, sp, rest, size, FALSE, coin) ELSE hp

(* The part of sf_realloc that gives back the end of the block.  It takes  *)
(* the links of a free block from the payload, and puts the rest in a free *)
(* list before sf_coalesce does.                                           *)
Shrink(hp, b, size, coin) ==
  LET rest == SizeAt(hp, b) - size
  IN  IF rest < 0 THEN Corrupt(hp)
      ELSE CoalesceRest(Note(Split(hp, b, size), "shrink", TRUE), b + size, rest, size, coin)

(* memcpy of n rows. *)
Copy(hp, from, to, n) ==
  LET rows == to..(to + n - 1)
      stored == {r \in rows : from + r - to \in DOMAIN hp.mem}
  IN  IF to + n > hp.end THEN Corrupt(hp)
      ELSE [hp EXCEPT !.mem = [r \in (DOMAIN @ \ rows) \cup stored |->
                                 IF r \in stored THEN @[from + r - to] ELSE @[r]]]

(* The copy for a larger block starts at the block, not at its payload. *)
Move(new, b, size, coin) ==
  IF new.ret = NULL \/ ~Ok(new.h) THEN new
  ELSE [h |-> sf_free(Copy(new.h, b, new.ret, size - 1), b, coin), ret |-> new.ret]

sf_realloc(hp, b, rsize, coin) ==
  LET size == SizeAt(hp, b)
      difference == 16 * ((rsize + 8 + 15) \div 16)
      same == [h |-> hp, ret |-> b + 2]
  IN  CASE Refused(hp, b, coin) -> [h |-> Abort(hp), ret |-> NULL]
        [] OTHER ->
      CASE rsize = 0 -> [h |-> sf_free(hp, b, coin), ret |-> NULL]
        [] rsize # 0 /\ 8 * size = rsize + 8 -> same
        [] 8 * size < rsize -> Move(sf_malloc(hp, rsize, coin), b, size, coin)
        [] rsize # 0 /\ 8 * size > rsize /\ 8 * size # rsize + 8 ->
             IF 8 * size - difference \in 0..31 THEN same
             ELSE [h |-> Shrink(hp, b, BlockRows(rsize), coin), ret |-> b + 2]
        [] OTHER -> [h |-> hp, ret |-> NULL]

-----------------------------------------------------------------------------
Init ==
  /\ h = [EmptyPage EXCEPT !.mem = <<>>, !.end = 0, !.globalEnd = NULL]
  /\ live = <<>> /\ calls = 0

(* The rows of a payload of so many bytes. *)
PayloadRows(pp, bytes) == pp..(pp + (bytes + 7) \div 8 - 1)

(* The client writes all of the memory it was given, or nothing. *)
Written(hp, pp, bytes) == IF bytes \in Filled THEN Forget(hp, PayloadRows(pp, bytes)) ELSE hp

Release(pp) == [q \in DOMAIN live \ {pp} |-> live[q]]

Call == Ok(h) /\ calls < MaxCalls /\ calls' = calls + 1

Malloc(size) ==
  /\ Call
  /\ \E coin \in BOOLEAN : \E r \in {sf_malloc(h, size, coin)} :
       /\ h' = IF r.ret # NULL /\ Ok(r.h) THEN Written(r.h, r.ret, size) ELSE r.h
       /\ live' = IF r.ret # NULL /\ Ok(r.h) THEN Put(live, r.ret, size) ELSE live

Free(pp) ==
  /\ Call
  /\ \E coin \in BOOLEAN : h' = sf_free(h, pp - 2, coin)
  /\ live' = Release(pp)

Realloc(pp, rsize) ==
  /\ Call
  /\ \E coin \in BOOLEAN : \E r \in {sf_realloc(h, pp - 2, rsize, coin)} :
       /\ h' = IF r.ret # NULL /\ Ok(r.h) THEN Written(r.h, r.ret, rsize) ELSE r.h
       /\ live' = IF r.ret # NULL THEN Put(Release(pp), r.ret, rsize)
                  ELSE IF rsize = 0 THEN Release(pp) ELSE live

Next ==
  \/ \E size \in Sizes : Malloc(size)
  \/ \E pp \in DOMAIN live :
       \/ Free(pp)
       \/ \E rsize \in Resizes : Realloc(pp, rsize)

Spec == Init /\ [][Next]_vars

-----------------------------------------------------------------------------
Sound == Ok(h) /\ h.trouble = {} /\ h.end > 0

Quick(i) == Range(QuickList(h, i))
Listed(i) == Range(FreeList(h, i))
Held == {pp - 2 : pp \in DOMAIN live}

(* The blocks follow one another from the first row of the heap to its     *)
(* end, and every block is the client's, or on a quick list, or on a free  *)
(* list, and not on two of them: nothing is leaked and nothing is handed   *)
(* out twice.  The headers tell which are free, and the client's are as    *)
(* large as it asked for.                                                  *)
BlocksTile ==
  Sound =>
    LET walk == Walk(h)
        quick == UNION {Quick(i) : i \in 0..(NUM_QUICK_LISTS - 1)}
        free == UNION {Listed(i) : i \in 0..(NUM_FREE_LISTS - 1)}
    IN  /\ walk.end = h.end - 2
        /\ walk.blocks = Held \cup quick \cup free
        /\ Held \cap (quick \cup free) = {} /\ quick \cap free = {}
        /\ \A b \in walk.blocks : h.mem[b + 1].alloc <=> b \notin free
        /\ \A pp \in DOMAIN live : live[pp] <= 8 * (SizeAt(h, pp - 2) - 1)

(* Quick list i is a chain of as many blocks of its size as it counts, and *)
(* no more than the limit.  Free list i is a chain of blocks of its size   *)
(* class, each with a block before it whose next link leads to it.  No     *)
(* block is on a list twice.                                               *)
ListsAgree ==
  Sound =>
    /\ \A i \in 0..(NUM_QUICK_LISTS - 1) :
         LET list == QuickList(h, i) IN
         /\ Len(list) = h.qlen[i] /\ h.qlen[i] <= QUICK_LIST_MAX /\ IsInjective(list)
         /\ \A b \in Range(list) : QuickIndex(SizeAt(h, b)) = i
    /\ \A i \in 0..(NUM_FREE_LISTS - 1) :
         LET list == FreeList(h, i) IN
         /\ IsInjective(list)
         /\ \A b \in Range(list) : /\ FreeListIndex(SizeAt(h, b)) = i
                                   /\ IsLink(h, b + 3) /\ NextOf(h, h.mem[b + 3].to) = b

(* Until one of the five things happens, no call stores outside the heap   *)
(* or through a pointer that points nowhere, and none writes into a        *)
(* payload the client holds, except into the last row of one whose request *)
(* left no room for a footer.                                              *)
PayloadKept ==
  [][h'.trouble = {} =>
      /\ h'.state # "corrupt"
      /\ \A pp \in DOMAIN live \cap DOMAIN live' :
        live'[pp] = live[pp] =>
          \A r \in PayloadRows(pp, live[pp]) \ {pp - 2 + SizeAt(h, pp - 2)} :
            IF r \in DOMAIN h.mem THEN r \in DOMAIN h'.mem /\ h'.mem[r] = h.mem[r]
            ELSE r \notin DOMAIN h'.mem]_vars

(* A block the client holds is never refused. *)
FreeAccepted == h.state # "abort"

=============================================================================
