# Verification of User-Level-Page-Cache

The repository holds two user-space caches written in C.

* **dm-cache** ("udm-cache") caches 32 KB blocks of files that live on a hard
  disk (HDD) in the blocks of an NVMe SSD driven through SPDK.  One *admin*
  process (server) owns the cache and runs a *migration worker* thread; any
  number of *user* processes map the same shared-memory segment and submit
  requests.
* **page-cache** is an LRU write-back cache of 4 KB pages inside one process.

This directory models their core logic in TLA+, checks it with TLC on small
instances, and proves the main safety properties with TLAPS for all sizes.

## 1. Inventory

| Component | State | Operations | Shared with |
|---|---|---|---|
| work queue (`dm-cache/lib/work_queue.c`) | `works[]`, `front`, `rear`, `size`, a spinlock | `insert_work`, `contains_work`, `peak_work`, `remove_work`, `is_full`, `is_empty` | producers: all users; consumer: the migration worker |
| mapping table (`ssd_cache_mapping.c`) | entries with links, bits (pending, dirty, alloc) and key; free, clean and dirty lists; `mapping_lock` | `lookup_mapping`, `lookup_mapping_with_insert`, `remove_mapping`, `set_dirty_after_write` | users and worker |
| hash table (`ssd_cache_mapping.c`) | buckets, `hash_next` | `h_insert`, `h_lookup`, `h_remove` | under `mapping_lock` |
| migration worker (`ssd_cache_mapping.c`, `ssd_cache_api.c`) | the work it holds, the cblock it moves, its buffer | `do_migration_work`: promotion, else demotion, else writeback; then `remove_work` | queue, mapping, SSD, HDD |
| request target (`ssd_cache_target.c`) | the request's cblock | `map_pio`, `discard_pio`, `read_cache`, `write_cache`, `read_origin`, `write_origin` | mapping, SSD, HDD |
| lifecycle (`ssd_cache_api.c`, `shm.c`) | `running`, `count`, `mg_worker`, the shared segment and its name | `init_`, `link_`, `unlink_`, `exit_`, `force_exit_ssd_cache` | all processes |
| SPDK driver, spinlock, requests (`spdk.c`, `atomic.c`, `pio.c`) | queue pairs; a word; request chains | read/write/trim; lock/unlock; create/free | - |
| page cache (`page-cache/src/upage.c`, `upio.c`, `umalloc.c`) | pages, free list, data | `uopen`, `uclose`, `uwrite`, `uread`, `alloc_page`, `free_page` | one process |
| LRU list and hash table (`page-cache/src/lru.c`) | `prev`/`next` links, head, tail, chains | `add_to_lru_head`, `move_to_lru_head`, `remove_from_lru`, `hash_table_*` | page cache |

How the dm-cache parts interact: a request looks its key (file name and 32 KB
block index) up in the mapping.  A hit goes to the SSD block; a miss goes to the
HDD and is queued, and the worker promotes the block later.  A write of a whole
block may take a free entry at once.  The worker asks for the oldest queued key;
if no entry is free it demotes a clean block, or else writes a dirty one back,
and in each case the work is removed after one attempt.

What is hard: `mapping_lock` is held only while the table changes and never
while data moves.  Between the lookup and `set_dirty_after_write`, and between
the two halves of a migration, every other process may run; a cblock number kept
across such a gap may by then belong to another key.  The lists are intrusive and
`l_del` decides by the entry's own stale links, so one call on an entry that is
on no list corrupts a list for good.  Servers and users start, end and die in any
order, and `init_ssd_cache` and `exit_ssd_cache` do not hold the lock of the
state from their checks to what they do.  The full list of hazards, each with
the line where it bites, is in `PROJECT.json`.

What makes each part correct:

* work queue: a bounded FIFO queue without duplicates; the work being done stays
  at the front; every work is taken;
* mapping: every entry is on exactly the list its bits say, the counters are
  right, no key is cached twice, a block in flight is in the state that the
  code's comments give unless it is discarded;
* hash table: a set of entries, looked up by key, whatever the chains;
* worker: every request leaves the queue, and a migration was tried for it;
* target and worker: the last write is kept through every migration, a clean
  block has its data on the HDD, a read returns a content the block had;
* lifecycle: users are counted, a linked user has a server, a server shuts down
  its own worker, the name leads to the one server that is up;
* page cache: every page in use is found by its number, the free list never holds
  a page with data, reads see writes, every call returns, and each byte of a
  call goes where it belongs.

## 2. Modules

| Module | Models |
|---|---|
| `FifoQueue` | the abstract queue: what `work_queue.h` promises |
| `WorkQueue` | the circular array of `work_queue.c`; `RefinesFifo` states that it implements `FifoQueue` |
| `Mapping` | `ssd_cache_mapping.c` with its callers; uses `FifoQueue` for the queue and a set for the hash table |
| `EntrySet` | the abstract hash table: the set that `Mapping` uses |
| `HashTable` | the chains of the hash table; `ActsAsSet` states that they implement `EntrySet` |
| `SsdCache` | extends `Mapping` by the data: `ssd_cache_target.c`, `mg_start` and what the SSD and the HDD hold |
| `Lifecycle` | `ssd_cache_api.c` and `shm.c`: servers and users, each a process |
| `PageStore` | what the page cache promises: each page holds the value last written, unless it is lost |
| `PageCache` | `upage.c`, `lru.c` and `upio.c` of the page cache; `ActsAsStore` states that it implements `PageStore` |
| `PageCopy` | the lengths, buffer positions and return values of `uwrite` and `uread` |
| `WorkQueueProofs`, `ListProofs`, `MappingProofs`, `HashTableProofs`, `SsdCacheProofs`, `LifecycleProofs`, `PageCacheProofs`, `PageCopyProofs` | theorems and proofs about them |
| `MCWorkQueue`, `MCMapping`, `MCHashTable`, `MCSsdCache`, `MCLifecycle`, `MCPageCache` | constants for TLC |

**Keys.**  A key stands for (full_path_name, cache_page_index).  The only thing
the code does with names besides comparing and hashing them is the `strncmp` of
`contains_work`; the constant `PrefixMatch` says which queued key it takes for
which asked key (every key matches itself).

**WorkQueue.**  `works`, `front`, `rear`, `size` are the fields of the struct;
`work` is the local copy `do_migration_work` keeps between `peak_work` and
`remove_work`.  The loops `for (i = front; i != rear; ...)` are the slots
`Visited(0..Visits-1)`.  Each function holds the queue's lock from end to end, so
it is one action.

**Mapping.**  `q` holds the links and the counters of the lists exactly as the
code updates them (`Inc` and `Dec` wrap like `unsigned`); `pending`, `dirty`,
`alloc` are the entries with that bit; `hashed` is the set of entries in the hash
table; `writing[u]` is the cblock user `u` is writing to, between its lookup and
`set_dirty_after_write`.  A read keeps its cblock too, but changes nothing
afterwards.  The worker's `pc` names the points of `do_migration_work` at which
no lock is held.  The decision functions (`promotion_free_to_clean`,
`demotion_clean_to_free`, `writeback_dirty_to_clean`) have one action for success
and one for returning false.  `mg_start` is the set of results it can return: it
cannot fail for a demotion, as the result of `trim_spdk` is ignored.
`lookup_mapping_with_insert` calls `contains_work` and `insert_work` under
`mapping_lock`; the queue has a lock of its own, but all inserts are made under
`mapping_lock`, and the worker's removals in between can only make
`contains_work` false, so the whole call is one action.

`Ops` says which requests are submitted (`OVERWRITE` is a WRITE of a whole,
aligned block, for which `optimizable` holds).  `remove_mapping` does not look at
the pending bit, and the model does not, either: `discarded` becomes true when a
DISCARD frees the block that the worker is moving.  A behaviour ends there,
since what the worker then does with a free block leaves lists that mean
nothing; the run `mapping_discard` shows that step.  Every other DISCARD is
followed, also one of a block that a user is writing to.

**HashTable.**  A search is a step per entry (`pass_by`) and a last one that
moves the entry found to the front, unlinks it or finds nothing.  One runs at a
time, as all calls are made under `mapping_lock`.  `hash_32` is a constant
function, so every collision pattern is covered by the proofs.

**SsdCache.**  `ssd` and `hdd` hold a value per block, `io[u]` is the request of
user `u` between its lookup and its end, `mg` is how far `mg_start` has come, and
`dma` its buffer.  Each read or write of a device is one step.  `trims` are trim
commands the SSD has still to carry out: `trim_spdk` does not wait.  A block's
content is one value, so requests for a part of a block count as requests for
the block.  A DISCARD (`discard_pio`) gives up what the block holds: from then on
`file` is what the HDD has.

A transfer may fail in two ways.  The code sees that a file cannot be opened or a
command not submitted (`fails`, `write_cache_fails`, `write_origin_fails`).  It
does not see the status a command completes with (spdk.c:23, 217), nor that a
pread or pwrite was short (mapping.c:483, 513): the buffer or the place written
then keeps anything, and the code goes on (`fails_unnoticed`,
`write_cache_unnoticed`, `write_origin_unnoticed`).

`file`, `seen`, `fresh` and `raced` are history.  Some steps lose data, and each
adds its key to `raced`:

1. a missed write reaches the HDD after the promotion has read it or when the
   block has been inserted (`write_origin`);
2. a write to the SSD comes after its block was given away (`write_cache_data`);
3. a block is demoted that was, or is being, written while it was pending
   (`demoted_block`);
4. a writeback fails, after which the block is clean (`written_back_block`);
5. a writeback reads a block inserted but not yet written (`read_ssd`), or that
   first write fails (`write_cache_fails`);
6. a trim of block 0 is carried out while it is in use (`trimmed`);
7. a transfer fails unnoticed.

A reader may also get a wrong answer without any data being lost
(`read_misleads`): its block was taken for a whole-block write and is still to be
filled (`unfilled`), or was given to another key after the lookup (`taken`), or
the read fails, of which the user may not be told.  A user cannot go by the value
returned, either: requests to the origin return 1 when they succeed.

`LastWriteIsKept` and `CleanIsSaved` speak of the keys that have not raced, and
`ReadsSeeWrites` of the readers that were not misled: they say that these lists of
causes are complete.  They do not say that the causes do not happen; the code
does nothing against any of them.

**Lifecycle.**  `shm` is the segment that has the name, `cache` the fields of
`struct cache` in each segment, `shared_cache[p]` the segment process `p` has
mapped.  A step is what happens between two accesses to shared state.  A segment
that is neither named nor mapped is gone and may come back zeroed.  A server is
`examples/8_command_line.c`: `force_exit`, `init`, run, `exit`; a user is its
client or the fio engine, which unlinks even if it could not link.  Any process
may die at any step.  As in SsdCache, `spoilt` collects the segments that met an
accident the code does not guard against:

1. `force_exit` removes the name of a cache that is up (it cannot stop the other
   server: `shared_cache` is null in the new process);
2. two servers pass the check of `running` on one segment (api.c:105);
3. `count` is reset when users have linked (api.c:133);
4. a user is counted in when its server is already leaving (api.c:150), or
   counted out without having been counted in (the fio engine);
5. `exit_ssd_cache` removes the name of another server's segment (api.c:201);
6. a server or a counted user dies.

**PageCache.**  `next`, `prev`, `index`, `data` are the fields of `struct page`;
`index[p] = NULL` stands for a null `path_name`.  `lru` and `free` are
`lru_list` and `free_list`, which share the links.  `hash[k]` is the chain of the
entries with page number `k`, newest first: entries of other numbers in the same
bucket are passed over by every loop of `lru.c`, so the hash function does not
appear.  `store` is the file as `submit_pio` reads and writes it.  One file is
modelled, whose page numbers are the keys.

There is one thread.  A call is a step per page, kept in `call`, and `alloc_page`
is a step per page it writes back; `evict` is what is left of its loop.  A uFILE
is known to its caller only and is an argument of the call, as in
`fio/myfio.c`, which opens, positions and closes one for each request.  Calls are
made of whole pages; more than `CACHE_SIZE` of them go past the cache
(`direct write`, `direct read`).  A null pointer that is followed and `exit(1)`
both end in `process = "crashed"`.

Nothing is assumed of the order of calls: cached pages are read again in any
order and written again, and calls past the cache meet pages that are cached.
`submit_pio` may fail, and no caller looks at its result (upio.c:27, 47;
upage.c:200 to 329): `write_pio` then loses the page, `read_pio` leaves what the
frame held before, and a direct read leaves what the caller's buffer held.  Two
history variables say what the cache can no longer answer for:

* `lost` are the page numbers with which one of these has happened: a transfer
  failed; a page was evicted while another had its number too, so that the entry
  of the newer one went (`twice`); a direct write met a cached page, or a direct
  read one that is cached and unsaved;
* `stray` is true once a read has found, through an entry left behind, a page that
  is no longer in use and has moved it: from there on the free list is damaged,
  and every page is given up (`gone`).

`move_to_lru_head` does not set the old head's `prev`, so the LRU links go wrong
in ordinary re-reads, and a call may reach a null tail and crash; these behaviours
are part of every run.  `MaxLost` bounds what TLC follows: no call begins once
more pages are lost.

**PageCopy.**  The same calls with lengths in bytes and without the pages'
contents: each step is one `memcpy`, kept in `copies` with its page, its place in
the buffer and its length.  `isFirstPage` in `uread` is not initialised and
starts with any value.

## 3. Runs

| Run | Checks | Result |
|---|---|---|
| `work_queue` | ring of 4 slots, 4 keys: types, loops see every work, no duplicates, the front is held, refinement of `FifoQueue`, every work is taken | holds |
| `mapping` | 2 blocks, 3 keys, 2 users, queue of 2, all kinds of requests: all safety invariants, every request leaves the queue | holds |
| `mapping_discard` | a block in flight is in the state the comments give, with DISCARD | violated |
| `hash_table` | 3 entries, 4 keys, 2 buckets: chains intact, refinement of `EntrySet`, searches end | holds |
| `ssd_cache` | 1 block, 3 keys, 2 users, 2 values, DISCARD, all I/O steps and failures: writes are kept, clean means saved, reads see writes, but for the named causes | holds |
| `ssd_trim` | 2 blocks, 3 keys, 1 user: no block in use is trimmed | violated |
| `lifecycle` | 2 servers, 2 users, 2 segments, deaths and failures: counts, servers, workers, the name | holds |
| `page_cache` | 4 pages, file of 5, calls of 4 and 5 pages: types, hash table, free list, every step brings a call nearer to its end, every call returns, refinement of `PageStore`, but for what is lost | holds |
| `page_cache_rewrite` | 2 pages, file of 4: an entry points to a page in use | violated |
| `page_cache_lru` | 3 pages, file of 4: the page read last is the head of the list | violated |
| `page_copy` | all lengths up to 5 pages of 4 bytes, cache of 3: bytes in place, results | holds |
| `page_copy_result` | a call returns the number of its elements | violated |

**Bounds.**  In `mapping` two blocks can be on one list, as head and tail, or on
different ones, and "more than half of the cache" is both; with three keys blocks
are taken again for other keys, one key's name is a prefix of another's, two queue
places fill up, and two users let one write go stale while the other works.  Lists
with a middle, for any number of blocks, are what `ListProofs` is about;
`mapping_discard` has three blocks.  Keys are interchangeable unless `PrefixMatch`
tells them apart, and users always are, so `mapping_discard`, the runs of
`SsdCache` and `lifecycle` use these symmetries; the liveness runs use none.
`UINT_MAX` is larger than what is counted, as in the code, so that a wrapped
counter is a value of its own.

`ssd_cache` has one block, for which three keys compete: it is promoted, written,
written back, demoted and taken again, while each of two users may hold on to it;
what two blocks add is the trim of block 0 for another, which is `ssd_trim`.
`MaxRaces` = 0 stops a behaviour at the first key that raced: what follows is data
already lost.  The proofs have no such bound.  `hash_table` has a chain of three,
the shortest with a middle, next to another chain.  `lifecycle` has a second
server that takes over from one that runs or died, and a second segment, so that
an old cache can still be mapped while the new one is up; `UINT_MAX` = 3 leaves a
value that only a wrapped count takes.  In `page_copy` a page of 4 bytes has odd
and even remainders and element sizes that do and do not divide it.

`page_cache` has four pages, of which `alloc_page` writes back two, so that a call
is suspended between the two and evictions leave a list of two behind; with fewer
the null tail is not reached.  Calls of four pages start at page 0 or 1 and so
overlap in all but one page: pages are re-read in orders that spoil the links,
rewritten while they are cached, and evicted by the call that brought them in.
Calls of five go past the cache.  There is one value besides the old content of
the file, so that a lost write shows.  With `MaxLost` = 1 a page that is lost is
followed into later calls.  A move of a page not in use (`stray`) takes more pages
than this run has; random simulation of six cached pages reaches it, and the
proofs cover it.

**Fairness.**  `WF_vars(CallStep)`: the thread that has called the page cache
runs on until the call returns; nothing is assumed of when calls are made.
`WF_vars(search)` in `HashTable`: who searches holds the lock and does nothing
else.  In `Mapping`, `WF_vars(Worker)`, and weak fairness of the
queue's consumer: the worker is a thread in an endless loop that waits only for
spinlocks held for a bounded time and for I/O that ends.  Nothing is assumed of
the users.

**Deadlock.**  Checked where the system cannot stop.  It is off in the page cache
runs, as the process may exit or crash, and in the two of `SsdCache`, where a
behaviour ends at a race.

## 4. What the violations mean

Each quotes a line of the repository in `PROJECT.json` "findings".

* `ssd_trim`: `mg_start` trims by `cache_page_index`, and a demotion passes 0 for
  it (mapping.c:541), so every demotion deallocates block 0 of the SSD, also when
  it holds another file's data.
* `page_cache_rewrite`: a page that is written twice (upage.c:230) has two
  entries, and eviction of the older page takes away the entry of the newer one,
  whose content is then out of reach.
* `mapping_discard`: `remove_mapping` ignores the pending bit (mapping.c:642) and
  frees a block under the worker, which then links a free entry on the clean list
  or frees it a second time.  The comments of the `_complete` functions say that
  the block is allocated and in the hash table.  No caller in the repository
  submits DISCARD while a worker runs.
* `page_cache_lru`: `move_to_lru_head` recognises the head by its null `prev`
  (lru.c:29) but leaves the old head's `prev` null too, so that page is never
  moved again when it is read.  It may then be evicted as the oldest, and further
  moves and evictions reach a null tail and crash.
* `page_copy_result`: `uwrite` past the cache returns fewer elements than it
  wrote (upage.c:221), which by its documentation means an error.

Other behaviour met while modelling:

* A write that outlasts a demotion marks whatever block has taken its place, as
  `set_dirty_after_write` checks only the alloc bit; mapping.h:84 wants the entry
  in the hash table.  The lists stay intact (`ListsMatchBits`); the data is race 2.
* The writeback thread is never started (api.c:130): a dirty block may stay dirty
  for ever when no more misses come.
* `contains_work` is true for a name of which a queued name is a prefix
  (work_queue.c:28); the whole-block write then goes to the HDD.
* `uread` of more than two pages that is no multiple of a page copies a whole
  page at the end and overruns the buffer (upage.c:347); `overruns` in `PageCopy`
  names these calls.
* `force_exit_ssd_cache` does not end the old server, although
  8_command_line.c:57 calls it that: both then use the same SSD blocks.
* `read_origin` and `write_origin` return 1 when they succeed (target.c:76, 101).
* `is_full` is to return "true, if work queue is full" (work_queue.h:37), and
  `insert_work` says "full" when one slot is left (work_queue.c:40); `is_full`
  compares with the size of the array and so never answers true.  Nothing calls it.
* The count of a segment is to include the admin (cache.h:77), but
  `init_ssd_cache` resets it to 0 and only users are counted in; `exit_ssd_cache`
  waits for 0, so the code relies on the admin not being counted
  (`UsersAreCounted`).
* Calls larger than the page cache do not look into it (upage.c:300), and the
  result of `submit_pio` is dropped everywhere (upio.c:27): both lose pages.
* The status of an SSD command is not looked at (spdk.c:23, 217).

## 5. Proofs

`WorkQueueProofs` proves for every array size and key set that the loops see
every work, that no work is queued twice, that the held work stays at the front
(`RingIsSound`), and that the array implements the abstract queue
(`RingImplementsFifo`).  The inductive invariant `RingInv` says that `rear` is
`size` slots after `front` modulo the array size with `size` at most one less
than it, and that the visited slots hold distinct keys.

`ListProofs` proves that the list operations keep the links of all three lists
intact (`AddTailLists`, `AddHeadLists`, `DelLists`), by giving for each the
sequence that the links spell afterwards.

`MappingProofs` proves `TypeOK`, `ListsMatchBits`, `EveryBlockCounted`,
`OnlyDiscardDisturbs`, `OneBlockPerKey` and `NoWorkWithoutMigration` for every
number of blocks, keys, users and queue places, from the named assumptions on
constants alone.  `ListsMatchBits`, `EveryBlockCounted` and `OnlyDiscardDisturbs`
say nothing of the state in which a DISCARD has freed the block in flight, which
is the last of its behaviour.  Up to there the invariant `MapInv` holds.  It has
three parts.  `ListInv`: the lists hold the sets their bits say, and the counters
add up.  `KeyInv`: the queue has no duplicates, the worker holds its front, and a
queued key is in the cache only while the worker is just completing it; this is
what makes `OneBlockPerKey` inductive, since a whole-block write refuses queued
keys.  `WorkerInv`: what the worker has found out (nothing free, at most half
clean) stays true until it acts on it, unless a DISCARD frees a block.
`MappingInv`, the inductive one, adds what is left after that DISCARD: the types
and the keys.

`SsdCacheProofs` proves `LastWriteIsKept`, `CleanIsSaved`, `ReadsSeeWrites` and
the types for every number of blocks, keys, users and values and for every
`MaxRaces`: behaviours that go on after a race are covered, which no run
reaches.  First, each step of `SsdCache` is a step of `Mapping` or leaves it alone
(`SsdCacheImplementsMapping`), so `MappingInv` holds here too; this needs only
`MgInv`, that no data moves without a migration.  The invariant `SsdInv` is
`MappingInv` with `DataInv`, each part of which speaks of the keys that have not
raced:

* `IoInv`: a user between its lookup and its end holds the block `writing` says;
* `HitInv`, `MissInv`: a cached block holds the last write unless its first
  write is still to come, and without a block the HDD holds it.  Together they
  give `LastWriteIsKept`;
* `FreshInv`: a block still to be written the first time is dirty, or the
  worker has just taken its dirty bit and read nothing yet;
* `SavedInv`: a block equals the HDD unless it is dirty, a user has written and
  not yet set the dirty bit, or it is being written back.  This is stronger than
  `CleanIsSaved`, which also excuses a block that a user is about to write;
* `PromotionInv`, `WritebackInv`: what the worker has read is still the HDD's
  (the block's) content when it writes, and when it is done both agree;
* `ReadInv`: what a read of the HDD would find now is a content the block had
  since the read began, also while the worker is about to write to it.

A step that races adds its key to `raced` and then owes nothing for it.  For all
other keys the proof shows that no cause is missing from the list of seven, nor,
for reads, from the reasons of `read_misleads`.

`HashTableProofs` proves `TypeOK` (`ChainsAreTyped`) and `ChainsHold`
(`ChainsStayIntact`) and the
refinement of `EntrySet` (`TableActsAsSet`) for every number of entries and
buckets and every hash function.  `ChainsHold` is inductive together with the
types: it gives for each chain the sequence that its links spell, and for the
chain being searched how far along it the search is.  Inserting, moving to the
front and unlinking are lemmas that give the new sequence; a chain that was not
touched keeps its own, because no entry is in two chains.  A search that comes to
the end has passed by every entry that belongs to the chain, so there is none
with the key (`NotFoundMeansAbsent`).

`PageCacheProofs` proves `TypeOK`, `HashFindsPages`, `FreeListHolds`,
`ActsAsStore` and `CallsAdvance` for every size of the cache and the file, every
sequence of calls and every failure of `submit_pio`, from `CacheAssumption`
alone; `MaxLost` is arbitrary.

`TypeInv` is inductive by itself, and holds of the most damaged cache, too: what
has to be shown is that `nr_free` stays within the cache although the lists mean
nothing.  `Fits` does that, which compares it with the number of pages that have
no name.  `CallsAdvance` needs no more: each step of a call leaves fewer pages to
deal with or fewer to write back, whatever the links are.  It is the part of
`EveryCallReturns` that needs no fairness; that the next step is enabled, and
taken, is left to TLC.

The LRU list is not intact after ordinary re-reads.  What survives, until a page
not in use is moved (`stray`), is `FrameInv` with `LinkInv`: a predecessor, if
there is one, is a page in use whose `next` leads back.  Hence
`move_to_lru_head` and `remove_from_lru` change the `next` of pages in use only,
and the free list, which lies in the same links, keeps spelling the pages not in
use (`RemoveKeepsFree`, `AddKeepsFree`).  So a page handed out has no entry under
a number that is not lost, which keeps `HashFindsPages`.  `CacheInv` joins the
three.  Each action is then a step of `PageStore`, or changes nothing but pages
that are lost (`WriteBackRefines`, `WritePageRefines`, `SubmitReadRefines`, ...);
after `stray` all pages are, and every action is such a step (`StrayRefines`).

`PageCopyProofs` proves `TypeOK`, `BytesInPlace` and `ResultIsCount` for every
page size, cache size, element size and length of call, from the assumption on
the constants alone.  The invariant `PageInv` says in `CopiesInv` where each copy
made so far lies, and in `OffsetInv` how the counters of each of the four loops
(`buffer_offset`, `request_byte`, `copy_len`) follow from how many copies there
are: in the loops of `uwrite` the offset is a multiple of the page size to the
end, in those of `uread` it stops at the last byte.  What rounding up to pages
does is in `PagesHold`; the products of symbolic sizes go through `TimesGrows`
and `NextPage`.

`LifecycleProofs` proves `TypeOK`, `UsersAreCounted`, `UsersHaveServer`,
`WorkersAreKnown` and `NameLeadsToServer` for every number of servers, users and
segments, assuming that `count` can hold the number of users.  The inductive
invariant `LifeInv` says what a process has got at each point of its code
(`ProcessInv`), that a segment nobody has is as new, and of each sound segment
that at most one server is past the check of `running` there.  A server keeps the
name until it has waited for the users, and a server that has not made the check
yet either has the name too or will find `running` set: that is why a second one
passes only when the first is gone.  Steps that write to no segment
(`QuietServer`, `QuietUser`), that write to one (`WriteKeepsLife`) and that let go
of one (`EndKeepsLife`) have a lemma for each kind.

Only model-checked: liveness (`EveryWorkIsTaken`, `EveryRequestLeaves`,
`SearchEnds`, `EveryCallReturns`), which is out of the prover's reach.  Every
invariant and every refinement that a passing run checks is also a theorem.

## 6. Not modelled, and the plan

Planned, in this order:

1. A measure for `SearchEnds` like the one of `CallsAdvance`, and its proof from
   `ChainsHold`: each step of a search leaves fewer entries to pass by.
2. `SsdCache` by pages of a block, which tells apart requests that overlap in part.

Not modelled:

* the SPDK driver beyond what its calls do to a block: queue pairs, scatter
  lists and probing are calls into an external library;
* the spinlock and a process that dies while it holds it;
* request structures (`pio.c`), `umalloc.c`: allocation without shared state;
* file offsets of 4 GB and more, which wrap (target.c:69);
* the data that is lost at exit: `exit_page_cache` and `exit_ssd_cache` write
  nothing back, and no line of the repository says they do;
* what the worker does after a DISCARD has freed the block it is moving: the lists
  then mean nothing;
* requests for parts of a block that overlap only in part: a block is one value;
* the length of names: every name fits the arrays it is copied to;
* examples, tests and fio engines, except as the processes of `Lifecycle`;
  statistics counters and output.
