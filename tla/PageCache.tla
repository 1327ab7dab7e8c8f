------------------------------ MODULE PageCache ------------------------------
(***************************************************************************)
(* page-cache/src/upage.c, lru.c and upio.c: a write-back cache of pages   *)
(* with an LRU list, a free list that shares the list's links, and a hash  *)
(* table.  One thread; a call is one step per page, and alloc_page one     *)
(* step per page it writes back.                                           *)
(*                                                                         *)
(* Callers write and read pages again that are cached, and go past the     *)
(* cache where pages are cached; submit_pio may fail, and its result is    *)
(* never looked at.  What that does to a page is not prevented: "lost"     *)
(* collects the pages of the file it has happened to.                      *)
(***************************************************************************)
EXTENDS Integers, Sequences, FiniteSets

CONSTANTS
  CACHE_SIZE,
  PAGES,         \* pages of the file
  Lengths,       \* how many pages a call is made for
  Val, Blank,    \* what is written, and what the file held before
  NULL,
  MaxLost        \* bound: no call begins once more pages than this are lost

ASSUME CacheAssumption ==
  /\ CACHE_SIZE \in Nat
  /\ CACHE_SIZE > 1
  /\ PAGES \in Nat
  /\ Lengths \subseteq 1..PAGES
  /\ NULL \notin Nat
  /\ MaxLost \in Nat

Page == 0..(CACHE_SIZE - 1)

\* The page numbers of the one file that is cached.
Index == 0..(PAGES - 1)

VARIABLES
  next, prev,   \* links of a page, on the LRU list or on the free list
  index,        \* page number a page holds; NULL when path_name is NULL
  data,         \* content of a page, at PHYS_BASE
  lru,          \* lru_list: head and tail
  free,         \* free_list: head and nr_free
  hash,         \* pages of the hash entries of a page number, newest first
  evict,        \* iterations alloc_page's loop has left
  store,        \* content behind submit_pio
  call,         \* the call under way, NULL if none
  got,          \* the page uread copied to the buffer last
  process,      \* "up", "exited" or "crashed"
  lost,         \* history: page numbers that met one of the causes above
  stray         \* history: a page was moved on the LRU list that was not in use

frameVars == <<next, prev, index, lru, free, hash>>

history == <<lost, stray>>

vars == <<frameVars, data, evict, store, call, got, process, history>>

-----------------------------------------------------------------------------
init_page_cache ==
  /\ next = [p \in Page |-> IF p = 0 THEN NULL ELSE p - 1]
  /\ prev = [p \in Page |-> NULL]
  /\ index = [p \in Page |-> NULL]
  /\ data = [p \in Page |-> Blank]
  /\ lru = [head |-> NULL, tail |-> NULL]
  /\ free = [head |-> CACHE_SIZE - 1, nr_free |-> CACHE_SIZE]
  /\ hash = [k \in Index |-> << >>]
  /\ evict = 0
  /\ store = [k \in Index |-> Blank]
  /\ call = NULL
  /\ got = NULL
  /\ process = "up"
  /\ lost = {} /\ stray = FALSE

cached(k) == hash[k] # << >>

hash_table_lookup(k) == Head(hash[k])

InUse == {p \in Page : index[p] # NULL}

\* The cache has another content for page k than submit_pio gives.
unsaved(k) == cached(k) /\ data[hash_table_lookup(k)] # store[k]

loses(K) == lost' = lost \cup K

-----------------------------------------------------------------------------
(* The caller's side.  A uFILE is known to its caller only and is an argument *)
(* of each call, as myfio.c opens, positions and closes one per request.     *)

uopen(mode) == [mode |-> mode, at |-> 0]

useek(stream, k) == [stream EXCEPT !.at = k]

Streams == {useek(uopen(mode), k) : mode \in {"r", "w"}, k \in Index}

fits(stream, n) == stream.at + n <= PAGES

idle == process = "up" /\ call = NULL

begin(op, stream, n, v) ==
  /\ idle
  /\ Cardinality(lost) <= MaxLost
  /\ call' = [op |-> op, at |-> stream.at, left |-> n, val |-> v]
  /\ UNCHANGED <<frameVars, data, evict, store, got, process, history>>

\* Returns 0 at once for a stream that was not opened for writing.
uwrite(stream, n, v) ==
  /\ stream.mode = "w"
  /\ fits(stream, n)
  /\ begin(IF n > CACHE_SIZE THEN "direct write" ELSE "write", stream, n, v)

uread(stream, n) ==
  /\ fits(stream, n)
  /\ begin(IF n > CACHE_SIZE THEN "direct read" ELSE "read", stream, n, Blank)

\* Nothing is written back.
exit_page_cache ==
  /\ idle
  /\ process' = "exited"
  /\ UNCHANGED <<frameVars, data, evict, store, call, got, history>>

-----------------------------------------------------------------------------
(* Calls larger than the cache go past it. *)

doing(op) ==
  /\ process = "up"
  /\ call # NULL
  /\ call.left > 0
  /\ call.op = op

\* A defect: the last page is not recognised, and done again.
page_done_again ==
  call' = IF call.left = 1 THEN call ELSE [call EXCEPT !.at = @ + 1, !.left = @ - 1]

page_done == call' = [call EXCEPT !.at = @ + 1, !.left = @ - 1]

\* What the cache holds of the page stays there, and is older from now on.
submit_write ==
  /\ doing("direct write")
  /\ store' = [store EXCEPT ![call.at] = call.val]
  /\ loses({k \in {call.at} : cached(k)})
  /\ page_done
  /\ UNCHANGED <<frameVars, data, evict, got, process, stray>>

submit_write_fails ==
  /\ doing("direct write")
  /\ loses({call.at})
  /\ page_done
  /\ UNCHANGED <<frameVars, data, evict, store, got, process, stray>>

\* What the cache holds of the page is not looked at.
submit_read ==
  /\ doing("direct read")
  /\ got' = [index |-> call.at, val |-> store[call.at]]
  /\ loses({k \in {call.at} : unsaved(k)})
  /\ page_done
  /\ UNCHANGED <<frameVars, data, evict, store, process, stray>>

\* The caller gets what the buffer held.
submit_read_fails ==
  /\ doing("direct read")
  /\ \E v \in Val \cup {Blank} : got' = [index |-> call.at, val |-> v]
  /\ loses({call.at})
  /\ page_done
  /\ UNCHANGED <<frameVars, data, evict, store, process, stray>>

-----------------------------------------------------------------------------
(* A page that is needed and is not there. *)

crash ==
  /\ process' = "crashed"
  /\ UNCHANGED <<frameVars, data, evict, store, call, got, history>>

needs_page ==
  \/ doing("write")
  \/ doing("read") /\ ~cached(call.at)

\* A defect: the entry found is not unlinked.
hash_table_remove_nothing(pg) == hash

\* The first entry of pg's page number goes, whichever page it points to.
hash_table_remove(pg) == [hash EXCEPT ![index[pg]] = Tail(@)]

\* A page that has no predecessor counts as head, one without successor as tail.
ends_without(pg) ==
  [head |-> IF prev[pg] = NULL THEN next[pg] ELSE lru.head,
   tail |-> IF next[pg] = NULL THEN prev[pg] ELSE lru.tail]

\* A defect: the page is put back but not counted.
freed_uncounted(pg) == [free EXCEPT !.head = pg]

freed(pg) == [head |-> pg, nr_free |-> free.nr_free + 1]

remove_from_lru(pg) ==
  LET before == prev[pg]
      after  == next[pg]
  IN /\ hash' = hash_table_remove(pg)
     /\ lru' = ends_without(pg)
     /\ next' = [p \in Page |-> IF p = pg THEN free.head
                                ELSE IF p = before THEN after ELSE next[p]]
     /\ prev' = [p \in Page |-> IF p = pg THEN NULL
                                ELSE IF p = after THEN before ELSE prev[p]]
     /\ free' = freed(pg)
     /\ index' = [index EXCEPT ![pg] = NULL]

\* A defect: the shift goes the other way.
write_backs_doubled == CACHE_SIZE * 2

\* How many pages alloc_page writes back when none is free.
write_backs == CACHE_SIZE \div 2

\* A defect: the page is dropped without being written.
write_pio_nothing(pg, success) == store

\* The page's content is sent to its number; a failure is not noticed.
write_pio(pg, success) == IF success THEN [store EXCEPT ![index[pg]] = data[pg]] ELSE store

\* Another page has the number, too, and its entry is the one that may go.
twice(k) == Len(hash[k]) > 1

\* One iteration of alloc_page's loop.  Without a tail, or with a tail that
\* has no name, write_pio follows a null pointer; remove_from_lru ends the
\* process if the page has no entry.
write_back ==
  /\ needs_page
  /\ evict > 0 \/ free.nr_free = 0
  /\ \E success \in BOOLEAN :
       IF lru.tail = NULL \/ index[lru.tail] = NULL
       THEN crash
       ELSE /\ store' = write_pio(lru.tail, success)
            /\ loses({k \in {index[lru.tail]} : ~success \/ twice(k)})
            /\ IF cached(index[lru.tail])
               THEN /\ remove_from_lru(lru.tail)
                    /\ evict' = (IF evict = 0 THEN write_backs ELSE evict) - 1
                    /\ UNCHANGED process
               ELSE /\ process' = "crashed"
                    /\ UNCHANGED <<frameVars, evict>>
            /\ UNCHANGED <<data, call, got, stray>>

\* The free list after alloc_page has taken its head.
alloc_page == [head |-> next[free.head], nr_free |-> free.nr_free - 1]

hash_table_insert(pg, k) == [hash EXCEPT ![k] = <<pg>> \o @]

\* The page taken from the free list gets its number and becomes the head.
add_to_lru_head(k) ==
  LET pg == free.head
  IN /\ free' = alloc_page
     /\ next' = [next EXCEPT ![pg] = lru.head]
     /\ prev' = [p \in Page |-> IF p = lru.head THEN pg
                                ELSE IF p = pg THEN NULL ELSE prev[p]]
     /\ index' = [index EXCEPT ![pg] = k]
     /\ lru' = [head |-> pg, tail |-> IF lru.tail = NULL THEN pg ELSE lru.tail]
     /\ hash' = hash_table_insert(pg, k)

write_page ==
  /\ doing("write")
  /\ evict = 0
  /\ free.nr_free > 0
  /\ IF free.head = NULL
     THEN crash
     ELSE /\ add_to_lru_head(call.at)
          /\ data' = [data EXCEPT ![free.head] = call.val]
          /\ page_done
          /\ UNCHANGED <<evict, store, got, process, history>>

\* When the read fails, the page has what the frame held for another.
read_pio(pg, success) == IF success THEN store[call.at] ELSE data[pg]

read_miss ==
  /\ doing("read")
  /\ ~cached(call.at)
  /\ evict = 0
  /\ free.nr_free > 0
  /\ \E success \in BOOLEAN :
       IF free.head = NULL
       THEN crash
       ELSE /\ add_to_lru_head(call.at)
            /\ data' = [data EXCEPT ![free.head] = read_pio(free.head, success)]
            /\ got' = [index |-> call.at, val |-> read_pio(free.head, success)]
            /\ loses({k \in {call.at} : ~success})
            /\ page_done
            /\ UNCHANGED <<evict, store, process, stray>>

\* The old head's prev stays NULL.
move_to_lru_head(pg) ==
  LET before == prev[pg]
      after  == next[pg]
  IN IF before = NULL
     THEN UNCHANGED <<next, prev, lru>>
     ELSE /\ next' = [next EXCEPT ![before] = after, ![pg] = lru.head]
          /\ prev' = [p \in Page |-> IF p = pg THEN NULL
                                     ELSE IF p = after THEN before ELSE prev[p]]
          /\ lru' = [head |-> pg, tail |-> IF after = NULL THEN before ELSE lru.tail]

read_hit ==
  /\ doing("read")
  /\ cached(call.at)
  /\ LET pg == hash_table_lookup(call.at)
     IN /\ move_to_lru_head(pg)
        /\ got' = [index |-> call.at, val |-> data[pg]]
        /\ stray' = (stray \/ (pg \notin InUse /\ prev[pg] # NULL))
  /\ page_done
  /\ UNCHANGED <<index, free, hash, data, evict, store, process, lost>>

return ==
  /\ process = "up"
  /\ call # NULL
  /\ call.left = 0
  /\ call' = NULL
  /\ got' = NULL
  /\ UNCHANGED <<frameVars, data, evict, store, process, history>>

\* What the library does by itself once it is called.
CallStep ==
  \/ submit_write \/ submit_write_fails
  \/ submit_read \/ submit_read_fails
  \/ write_back
  \/ write_page
  \/ read_miss
  \/ read_hit
  \/ return

Next ==
  \/ \E stream \in Streams, n \in Lengths, v \in Val : uwrite(stream, n, v)
  \/ \E stream \in Streams, n \in Lengths : uread(stream, n)
  \/ exit_page_cache
  \/ CallStep

Spec == init_page_cache /\ [][Next]_vars

FairSpec == Spec /\ WF_vars(CallStep)

-----------------------------------------------------------------------------
TypeOK ==
  /\ next \in [Page -> Page \cup {NULL}]
  /\ prev \in [Page -> Page \cup {NULL}]
  /\ index \in [Page -> Index \cup {NULL}]
  /\ data \in [Page -> Val \cup {Blank}]
  /\ lru \in [head : Page \cup {NULL}, tail : Page \cup {NULL}]
  /\ free \in [head : Page \cup {NULL}, nr_free : 0..CACHE_SIZE]
  /\ hash \in [Index -> Seq(Page)]
  /\ evict \in 0..(CACHE_SIZE - 1)
  /\ store \in [Index -> Val \cup {Blank}]
  /\ call = NULL \/ call \in [op : {"write", "read", "direct write", "direct read"},
                              at : 0..PAGES, left : 0..PAGES, val : Val \cup {Blank}]
  /\ got = NULL \/ got \in [index : Index, val : Val \cup {Blank}]
  /\ process \in {"up", "exited", "crashed"}
  /\ lost \subseteq Index
  /\ stray \in BOOLEAN

\* The pages in s are linked through next, in this order.
Chained(s, n) == \A i \in 1..n : next[s[i]] = IF i = n THEN NULL ELSE s[i + 1]

Each(s, n, S) ==
  /\ \A p \in S : \E i \in 1..n : s[i] = p
  /\ \A i, j \in 1..n : s[i] = s[j] => i = j

FreeListIsWhole ==
  \E s \in [1..free.nr_free -> Page \ InUse] :
    /\ Each(s, free.nr_free, Page \ InUse)
    /\ Chained(s, free.nr_free)
    /\ free.head = IF free.nr_free = 0 THEN NULL ELSE s[1]

\* The free list holds exactly the pages not in use, nr_free of them, although
\* it uses the links of the LRU list: alloc_page never hands out a page that
\* still holds data, even when reads have left those links wrong.  Only a read
\* that finds a page no longer in use, and moves it, may break the list.
FreeListHolds == ~stray => FreeListIsWhole

entries(k) == DOMAIN hash[k]

\* The pages of the file nothing is known of any more.
gone == IF stray THEN Index ELSE lost

\* The entries of a page number are the pages that hold it, each once, however
\* often it was written: eviction, which removes by number, removes an entry of
\* that number only, and no page is handed out that has an entry.
HashFindsPages ==
  \A k \in Index \ gone :
    /\ \A p \in Page : index[p] = k <=> \E i \in entries(k) : hash[k][i] = p
    /\ \A i, j \in entries(k) : hash[k][i] = hash[k][j] => i = j

\* What alloc_page has still to write back before it hands out a page.
to_write_back == IF free.nr_free = 0 /\ evict = 0 THEN write_backs ELSE evict

\* A call comes nearer to its end with every step: alloc_page does not go round
\* for ever, although what it writes back may be pages of the same call.
CallsAdvance ==
  [][CallStep => \/ call' = NULL
                 \/ process' = "crashed"
                 \/ call'.left < call.left
                 \/ call' = call /\ 0 <= to_write_back' /\ to_write_back' < to_write_back]_vars

\* Every call of uread and uwrite returns, or ends the process by following a
\* null pointer: none goes on for ever, whatever became of the lists.
EveryCallReturns == call # NULL ~> (call = NULL \/ process # "up")

\* The pages as a caller would read them now.
content == [k \in Index |-> IF cached(k) THEN data[hash_table_lookup(k)] ELSE store[k]]

Store == INSTANCE PageStore WITH mem <- content, lost <- gone

\* Whatever is evicted, read back and written again, the caller sees every page
\* that is not gone as last written: each step of the cache is a step of a
\* plain store, and only the causes named above lose a page.
ActsAsStore == Store!MemSpec

-----------------------------------------------------------------------------
(* What comments of the repository say and the code does not do. *)

\* "If a page is already in the LRU list and has been accessed, it needs to be
\* moved to the head" (lru.h:28): the page uread has just copied is the head,
\* as long as nothing has been lost.
ReadPageIsHead ==
  lost = {} /\ got # NULL /\ call.op = "read" =>
    \E pg \in Page : lru.head = pg /\ index[pg] = got.index

\* "if the page is in the hash table (which means it is in the LRU list"
\* (upage.c:358): a page an entry of the hash table points to is in use.
HashedMeansInUse == \A k \in Index : cached(k) => hash_table_lookup(k) \in InUse

=============================================================================
