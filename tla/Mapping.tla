------------------------------- MODULE Mapping -------------------------------
(***************************************************************************)
(* dm-cache/lib/ssd_cache_mapping.c and the part of ssd_cache_target.c that *)
(* drives it: the table that says which block of which file is held in     *)
(* which block of the SSD.  Users look blocks up and mark them dirty; one  *)
(* migration worker promotes, demotes and writes back, asking the users'   *)
(* misses from the work queue (FifoQueue).                                 *)
(*                                                                         *)
(* Every function below runs under mapping_lock from its first to its last *)
(* access, so each is one action.  The lock is NOT held while data moves:  *)
(* between a lookup and set_dirty_after_write, and between the two halves  *)
(* of a migration, every other process may run.                            *)
(*                                                                         *)
(* The three lists (free, clean, dirty) are modelled down to their next    *)
(* and prev indices.  The hash table is the set of entries in it.  The     *)
(* statistics counters are left out, and so is the data (SSD, HDD).        *)
(***************************************************************************)
EXTENDS FifoQueue, Integers

CONSTANTS
  CACHE_BLOCK_NUMBER,
  INDEXER_NULL,
  UINT_MAX,      \* the counters are unsigned and wrap
  User,          \* the threads that submit requests
  Ops            \* the requests they submit

N == CACHE_BLOCK_NUMBER

Entry == 0..(N - 1)

List == {"free", "clean", "dirty"}

ASSUME MappingAssumption ==
  /\ N \in Nat \ {0}
  /\ INDEXER_NULL \notin Entry
  /\ UINT_MAX \in Nat
  /\ UINT_MAX > N
  /\ Ops \subseteq {"READ", "WRITE", "OVERWRITE", "DISCARD"}

VARIABLES
  q,             \* the lists: next, prev of each entry; head, tail, nr_elts
  pending, dirty, alloc,  \* the entries with that bit of "param" set
  key,           \* full_path_name and cache_page_index of each entry
  hashed,        \* the entries in the hash table
  nr_allocated,
  pc, cblock,    \* do_migration_work: where it is and its local cblock
  writing,       \* per user: the cblock its write_cache is writing to
  discarded      \* history: a DISCARD has freed the block the worker is moving

tableVars == <<q, pending, dirty, alloc, key, hashed, nr_allocated>>

workerVars == <<pc, cblock>>

vars == <<wq, work, q, pending, dirty, alloc, key, hashed, nr_allocated, pc, cblock, writing, discarded>>

-----------------------------------------------------------------------------
(* Counters and lists. *)

Inc(n) == IF n = UINT_MAX THEN 0 ELSE n + 1

Dec(n) == IF n = 0 THEN UINT_MAX ELSE n - 1

l_empty(x, l) == x.head[l] = INDEXER_NULL

l_add_head(x, l, e) ==
  LET h == x.head[l] IN
  [next    |-> [x.next EXCEPT ![e] = h],
   prev    |-> [i \in Entry |-> IF i = h THEN e ELSE IF i = e THEN INDEXER_NULL ELSE x.prev[i]],
   head    |-> [x.head EXCEPT ![l] = e],
   tail    |-> [x.tail EXCEPT ![l] = IF h = INDEXER_NULL THEN e ELSE @],
   nr_elts |-> [x.nr_elts EXCEPT ![l] = Inc(@)]]

l_add_tail(x, l, e) ==
  LET t == x.tail[l] IN
  [next    |-> [i \in Entry |-> IF i = t THEN e ELSE IF i = e THEN INDEXER_NULL ELSE x.next[i]],
   prev    |-> [x.prev EXCEPT ![e] = t],
   head    |-> [x.head EXCEPT ![l] = IF t = INDEXER_NULL THEN e ELSE @],
   tail    |-> [x.tail EXCEPT ![l] = e],
   nr_elts |-> [x.nr_elts EXCEPT ![l] = Inc(@)]]

\* A defect: the counter is not updated.
l_del_uncounted(x, l, e) ==
  LET p == x.prev[e]
      n == x.next[e] IN
  [x EXCEPT !.next = [i \in Entry |-> IF i = p THEN n ELSE x.next[i]],
            !.prev = [i \in Entry |-> IF i = n THEN p ELSE x.prev[i]],
            !.head = [@ EXCEPT ![l] = IF p = INDEXER_NULL THEN n ELSE @],
            !.tail = [@ EXCEPT ![l] = IF n = INDEXER_NULL THEN p ELSE @]]

\* The entry keeps its own links; only its neighbours forget it.
l_del(x, l, e) ==
  LET p == x.prev[e]
      n == x.next[e] IN
  [next    |-> [i \in Entry |-> IF i = p THEN n ELSE x.next[i]],
   prev    |-> [i \in Entry |-> IF i = n THEN p ELSE x.prev[i]],
   head    |-> [x.head EXCEPT ![l] = IF p = INDEXER_NULL THEN n ELSE @],
   tail    |-> [x.tail EXCEPT ![l] = IF n = INDEXER_NULL THEN p ELSE @],
   nr_elts |-> [x.nr_elts EXCEPT ![l] = Dec(@)]]

\* The list an entry belongs to by its dirty bit.
home(d, e) == IF e \in d THEN "dirty" ELSE "clean"

-----------------------------------------------------------------------------
(* The allocator and the hash table. *)

allocator_empty == l_empty(q, "free")

\* Clears the links of e (its bits and its key are set by alloc_entry).
init_entry(x, e) ==
  [x EXCEPT !.next = [@ EXCEPT ![e] = INDEXER_NULL], !.prev = [@ EXCEPT ![e] = INDEXER_NULL]]

\* The lists after l_pop_head has taken e, the head of the free list.
l_pop_head(e) == init_entry(l_del(q, "free", e), e)

\* Takes the head of the free list for key k.  init_entry clears all bits; the
\* caller sets p and d, the pending and dirty bits.  x: the resulting lists.
alloc_entry(e, k, p, d, x) ==
  /\ e = q.head["free"]
  /\ q' = x
  /\ alloc' = alloc \cup {e}
  /\ pending' = IF p THEN pending \cup {e} ELSE pending \ {e}
  /\ dirty' = IF d THEN dirty \cup {e} ELSE dirty \ {e}
  /\ key' = [key EXCEPT ![e] = k]
  /\ nr_allocated' = Inc(nr_allocated)

\* A defect: the allocator's counter is not updated.
free_entry_uncounted(e, x) ==
  /\ UNCHANGED nr_allocated
  /\ alloc' = alloc \ {e}
  /\ q' = l_add_tail(x, "free", e)

\* Puts e at the end of the free list, the rest of the lists being x.
free_entry(e, x) ==
  /\ nr_allocated' = Dec(nr_allocated)
  /\ alloc' = alloc \ {e}
  /\ q' = l_add_tail(x, "free", e)

\* The entries that h_lookup can return for k.
h_lookup(k) == {e \in hashed : key[e] = k}

\* A defect: the entry stays in the table.
h_remove_nothing(e) == hashed' = hashed

\* Removes the entry found under the key of e, if there is one.
h_remove(e) ==
  \/ h_lookup(key[e]) = {} /\ hashed' = hashed
  \/ \E f \in h_lookup(key[e]) : hashed' = hashed \ {f}

-----------------------------------------------------------------------------
init_mapping ==
  /\ QueueInit
  /\ q = [next    |-> [e \in Entry |-> IF e = N - 1 THEN INDEXER_NULL ELSE e + 1],
          prev    |-> [e \in Entry |-> IF e = 0 THEN INDEXER_NULL ELSE e - 1],
          head    |-> [l \in List |-> IF l = "free" THEN 0 ELSE INDEXER_NULL],
          tail    |-> [l \in List |-> IF l = "free" THEN N - 1 ELSE INDEXER_NULL],
          nr_elts |-> [l \in List |-> IF l = "free" THEN N ELSE 0]]
  /\ pending = {} /\ dirty = {} /\ alloc = {} /\ hashed = {}
  /\ key = [e \in Entry |-> NoKey]
  /\ nr_allocated = 0
  /\ pc = "peak" /\ cblock = INDEXER_NULL
  /\ writing = [u \in User |-> INDEXER_NULL]
  /\ discarded = FALSE

-----------------------------------------------------------------------------
(* The users: ssd_cache_target.c calls one of these per request, and moves *)
(* data to or from the returned cblock after the lock is released.         *)

idle(u) == writing[u] = INDEXER_NULL

\* A hit: an entry on the clean list moves to its end; a write goes on to the
\* cache block.
hit(u, k, op) ==
  \E e \in h_lookup(k) :
    /\ q' = IF e \notin pending /\ e \notin dirty
            THEN l_add_tail(l_del(q, "clean", e), "clean", e)
            ELSE q
    /\ writing' = [writing EXCEPT ![u] = IF op = "READ" THEN INDEXER_NULL ELSE e]
    /\ UNCHANGED <<wq, work, pending, dirty, alloc, key, hashed, nr_allocated, pc, cblock, discarded>>

\* A miss that asks the migration worker for the block.
miss(k) ==
  /\ insert_work(k)
  /\ UNCHANGED <<q, pending, dirty, alloc, key, hashed, nr_allocated, pc, cblock, writing, discarded>>

lookup_mapping(u, k, op) ==
  /\ op \in Ops \cap {"READ", "WRITE"}
  /\ idle(u)
  /\ \/ hit(u, k, op)
     \/ h_lookup(k) = {} /\ miss(k)

\* A miss that takes a free entry at once: it enters the table dirty, before
\* any data is written to its block.
insert_dirty(u, k) ==
  \E e \in Entry :
    /\ alloc_entry(e, k, FALSE, TRUE, l_add_tail(l_pop_head(e), "dirty", e))
    /\ hashed' = hashed \cup {e}
    /\ writing' = [writing EXCEPT ![u] = e]
    /\ UNCHANGED <<wq, work, pc, cblock, discarded>>

\* The block is being asked for already: the write goes to the origin.
refused == UNCHANGED vars

lookup_mapping_with_insert(u, k) ==
  /\ "OVERWRITE" \in Ops
  /\ idle(u)
  /\ \/ hit(u, k, "OVERWRITE")
     \/ h_lookup(k) = {} /\ contains_work(k) /\ refused
     \/ h_lookup(k) = {} /\ ~contains_work(k) /\ allocator_empty /\ miss(k)
     \/ h_lookup(k) = {} /\ ~contains_work(k) /\ ~allocator_empty /\ insert_dirty(u, k)

\* The pending bit is not looked at: the block may be in flight.
remove_mapping(u, k) ==
  /\ "DISCARD" \in Ops
  /\ idle(u)
  /\ \E e \in h_lookup(k) :
       /\ h_remove(e)
       /\ free_entry(e, l_del(q, home(dirty, e), e))
       /\ discarded' = (e \in pending)
  /\ UNCHANGED <<wq, work, pending, dirty, key, pc, cblock, writing>>

\* A defect: a block being moved is unlinked as if it were on a list.
set_dirty_after_write_unchecked(e) ==
  \/ /\ e \notin alloc
     /\ UNCHANGED tableVars
  \/ /\ e \in alloc
     /\ dirty' = dirty \cup {e}
     /\ q' = l_add_tail(l_del(q, home(dirty, e), e), "dirty", e)
     /\ UNCHANGED <<pending, alloc, key, hashed, nr_allocated>>

\* A defect: a block being moved is not marked.
set_dirty_after_write_skipped(e) ==
  \/ /\ e \notin alloc \/ e \in pending
     /\ UNCHANGED tableVars
  \/ /\ e \in alloc \ pending
     /\ dirty' = dirty \cup {e}
     /\ q' = l_add_tail(l_del(q, home(dirty, e), e), "dirty", e)
     /\ UNCHANGED <<pending, alloc, key, hashed, nr_allocated>>

\* The entry found in "alloc" need not be the one that was looked up: it may
\* have been demoted and taken for another block meanwhile.
set_dirty_after_write(e) ==
  \/ /\ e \notin alloc
     /\ UNCHANGED tableVars
  \/ /\ e \in alloc
     /\ dirty' = dirty \cup {e}
     /\ q' = IF e \in pending THEN q ELSE l_add_tail(l_del(q, home(dirty, e), e), "dirty", e)
     /\ UNCHANGED <<pending, alloc, key, hashed, nr_allocated>>

\* The end of writev_spdk; only a successful write marks the block.
write_cache(u, success) ==
  /\ ~idle(u)
  /\ \/ success /\ set_dirty_after_write(writing[u])
     \/ ~success /\ UNCHANGED tableVars
  /\ writing' = [writing EXCEPT ![u] = INDEXER_NULL]
  /\ UNCHANGED <<wq, work, pc, cblock, discarded>>

UserStep(u) ==
  \/ \E k \in Key :
       \/ \E op \in Ops : lookup_mapping(u, k, op)
       \/ lookup_mapping_with_insert(u, k)
       \/ remove_mapping(u, k)
  \/ \E success \in BOOLEAN : write_cache(u, success)

-----------------------------------------------------------------------------
(* The migration worker: do_migration_work called in a loop.  For the work *)
(* at the front it tries promotion, then demotion, then writeback, and     *)
(* then removes the work, whatever came of it.                             *)

goto(from, to) == pc = from /\ pc' = to

\* A defect: the work leaves the queue before it is done.
peak_and_remove ==
  /\ goto("peak", "promotion?")
  /\ ~is_empty
  /\ work' = Head(wq)
  /\ wq' = Tail(wq)
  /\ UNCHANGED <<cblock, writing, discarded, tableVars>>

peak ==
  /\ goto("peak", "promotion?")
  /\ peak_work
  /\ UNCHANGED <<cblock, writing, discarded, tableVars>>

promotion_free_to_clean ==
  /\ ~allocator_empty
  /\ goto("promotion?", "PROMOTION")
  /\ \E e \in Entry :
       /\ alloc_entry(e, work, TRUE, FALSE, l_pop_head(e))
       /\ cblock' = e
  /\ UNCHANGED <<wq, work, hashed, writing, discarded>>

no_promotion ==
  /\ allocator_empty
  /\ goto("promotion?", "demotion?")
  /\ UNCHANGED <<wq, work, cblock, writing, discarded, tableVars>>

\* A defect: the clean list is compared with the whole cache.
can_demote_full == q.nr_elts["clean"] > N

\* More than half of the cache must be clean.
can_demote == q.nr_elts["clean"] > N \div 2

demotion_clean_to_free ==
  /\ can_demote
  /\ goto("demotion?", "DEMOTION")
  /\ cblock' = q.head["clean"]
  /\ q' = l_del(q, "clean", cblock')
  /\ pending' = pending \cup {cblock'}
  /\ UNCHANGED <<wq, work, dirty, alloc, key, hashed, nr_allocated, writing, discarded>>

no_demotion ==
  /\ ~can_demote
  /\ goto("demotion?", "writeback?")
  /\ UNCHANGED <<wq, work, cblock, writing, discarded, tableVars>>

can_writeback == q.nr_elts["dirty"] # 0 /\ q.head["dirty"] \notin pending

\* The last resort.  It returns false only if a DISCARD has emptied the lists
\* since the worker looked for a free block (NoWorkWithoutMigration).
writeback_dirty_to_clean ==
  /\ pc = "writeback?"
  /\ IF can_writeback
     THEN /\ pc' = "WRITEBACK"
          /\ cblock' = q.head["dirty"]
          /\ q' = l_del(q, "dirty", cblock')
          /\ pending' = pending \cup {cblock'}
          /\ dirty' = dirty \ {cblock'}
     ELSE /\ pc' = "remove"
          /\ UNCHANGED <<q, pending, dirty, cblock>>
  /\ UNCHANGED <<wq, work, alloc, key, hashed, nr_allocated, writing, discarded>>

\* The results mg_start may return: trimming never fails, as the result of
\* trim_spdk is not looked at.
mg_start(type) == IF type = "DEMOTION" THEN {TRUE} ELSE BOOLEAN

promotion_complete(success) ==
  /\ goto("PROMOTION", "remove")
  /\ pending' = pending \ {cblock}
  /\ IF success
     THEN /\ hashed' = hashed \cup {cblock}
          /\ q' = l_add_tail(q, home(dirty, cblock), cblock)
          /\ UNCHANGED <<alloc, nr_allocated>>
     ELSE free_entry(cblock, q) /\ UNCHANGED hashed
  /\ UNCHANGED <<wq, work, dirty, key, cblock, writing, discarded>>

demotion_complete(success) ==
  /\ goto("DEMOTION", "remove")
  /\ pending' = pending \ {cblock}
  /\ IF success
     THEN h_remove(cblock) /\ free_entry(cblock, q)
     ELSE /\ q' = l_add_tail(q, home(dirty, cblock), cblock)
          /\ UNCHANGED <<hashed, alloc, nr_allocated>>
  /\ UNCHANGED <<wq, work, dirty, key, cblock, writing, discarded>>

writeback_complete(success) ==
  /\ goto("WRITEBACK", "remove")
  /\ pending' = pending \ {cblock}
  /\ q' = IF success THEN l_add_tail(q, home(dirty, cblock), cblock)
                     ELSE l_add_head(q, home(dirty, cblock), cblock)
  /\ UNCHANGED <<wq, work, dirty, alloc, key, hashed, nr_allocated, cblock, writing, discarded>>

\* A defect: a work whose block did not get into the cache is tried again.
remove_if_promoted ==
  /\ goto("remove", "peak")
  /\ IF h_lookup(work) # {} THEN remove_work ELSE work' = NoKey /\ UNCHANGED wq
  /\ UNCHANGED <<cblock, writing, discarded, tableVars>>

remove ==
  /\ goto("remove", "peak")
  /\ remove_work
  /\ UNCHANGED <<cblock, writing, discarded, tableVars>>

do_migration_work ==
  \/ peak
  \/ promotion_free_to_clean \/ no_promotion
  \/ demotion_clean_to_free \/ no_demotion
  \/ writeback_dirty_to_clean
  \/ \E success \in mg_start("PROMOTION") : promotion_complete(success)
  \/ \E success \in mg_start("DEMOTION") : demotion_complete(success)
  \/ \E success \in mg_start("WRITEBACK") : writeback_complete(success)
  \/ remove

followed == ~discarded

Worker == followed /\ do_migration_work

\* A behaviour ends where a DISCARD frees the block in flight: from there on
\* the worker links a free block, and the lists mean nothing.
Next ==
  \/ Worker
  \/ followed /\ \E u \in User : UserStep(u)
  \/ ~followed /\ UNCHANGED vars

Spec == init_mapping /\ [][Next]_vars

\* The worker thread is a loop that only waits for the lock and for I/O.
FairSpec == Spec /\ WF_vars(Worker)

-----------------------------------------------------------------------------
(* Properties. *)

Moving == {"PROMOTION", "DEMOTION", "WRITEBACK"}

TypeOK ==
  /\ q \in [next : [Entry -> Entry \cup {INDEXER_NULL}],
            prev : [Entry -> Entry \cup {INDEXER_NULL}],
            head : [List -> Entry \cup {INDEXER_NULL}],
            tail : [List -> Entry \cup {INDEXER_NULL}],
            nr_elts : [List -> 0..UINT_MAX]]
  /\ pending \subseteq Entry
  /\ dirty \subseteq Entry
  /\ alloc \subseteq Entry
  /\ hashed \subseteq Entry
  /\ key \in [Entry -> Key \cup {NoKey}]
  /\ nr_allocated \in 0..UINT_MAX
  /\ pc \in {"peak", "promotion?", "demotion?", "writeback?", "remove"} \cup Moving
  /\ cblock \in Entry \cup {INDEXER_NULL}
  /\ writing \in [User -> Entry \cup {INDEXER_NULL}]
  /\ wq \in Seq(Key)
  /\ work \in Key \cup {NoKey}
  /\ discarded \in BOOLEAN
  /\ followed => /\ \A l \in List : q.nr_elts[l] \in 0..N
                 /\ nr_allocated \in 0..N

\* The entries that belong on list l by their bits.
members(l) ==
  CASE l = "free"  -> Entry \ alloc
    [] l = "clean" -> alloc \ (pending \cup dirty)
    [] l = "dirty" -> (alloc \cap dirty) \ pending

\* The links of list l spell out s, in both directions.
Spells(x, l, s) ==
  LET n == x.nr_elts[l] IN
  /\ x.head[l] = IF n = 0 THEN INDEXER_NULL ELSE s[1]
  /\ x.tail[l] = IF n = 0 THEN INDEXER_NULL ELSE s[n]
  /\ \A i \in 1..n : /\ x.next[s[i]] = IF i = n THEN INDEXER_NULL ELSE s[i + 1]
                     /\ x.prev[s[i]] = IF i = 1 THEN INDEXER_NULL ELSE s[i - 1]

\* s lists the entries in S, each once.
Enumerates(s, n, S) ==
  /\ s \in [1..n -> S]
  /\ \A e \in S : \E i \in 1..n : s[i] = e
  /\ \A i, j \in 1..n : s[i] = s[j] => i = j

\* Each entry is on exactly the list its bits say (none while it is being
\* moved), each list is an intact doubly linked chain of nr_elts entries, and
\* no entry is on two lists: l_del never unlinks an entry from a list that it
\* is not on, although users set the dirty bit while a migration is under way.
ListsMatchBits ==
  followed => \A l \in List :
    \E s \in [1..q.nr_elts[l] -> Entry] :
      Enumerates(s, q.nr_elts[l], members(l)) /\ Spells(q, l, s)

\* The comments of the three _complete functions (ssd_cache_mapping.c:387, 419
\* and 460): a block in flight is "!h, !q, a" during a promotion and "h, !q, a"
\* during a demotion or a writeback; no other block is pending, and all other
\* allocated blocks are in the table.
MovingBlockState ==
  /\ pending = IF pc \in Moving THEN {cblock} ELSE {}
  /\ pending \subseteq alloc
  /\ hashed = IF pc = "PROMOTION" THEN alloc \ {cblock} ELSE alloc

\* Nothing but a DISCARD of the very block that is in flight brings it out of
\* that state: no other request, and no failed migration before it.
OnlyDiscardDisturbs == followed => MovingBlockState

\* A file block is never in two cache blocks, not even while one of them is
\* still being promoted: a user that misses cannot insert a block that the
\* worker has taken from the queue, as the work stays queued until it is done.
OneBlockPerKey == \A e, f \in alloc : key[e] = key[f] => e = f

BlocksCounted ==
  /\ nr_allocated + q.nr_elts["free"] = N
  /\ q.nr_elts["free"] + q.nr_elts["clean"] + q.nr_elts["dirty"]
       + (IF pc \in Moving THEN 1 ELSE 0) = N

\* nr_allocated counts the blocks that are not on the free list, and every
\* block is on a list or the one being moved.
EveryBlockCounted == followed => BlocksCounted

\* "true, if done a work" (mapping.h:34): when neither promotion nor demotion
\* was possible there is a dirty block to write back, so no request is dropped
\* without a migration having been tried for it, unless a DISCARD has freed a
\* block since the worker looked.
NoWorkWithoutMigration == pc = "writeback?" => can_writeback \/ ~allocator_empty

\* Every block asked for is dealt with and leaves the queue.
EveryRequestLeaves == \A k \in Key : queued(k) ~> (~queued(k) \/ ~followed)

=============================================================================
