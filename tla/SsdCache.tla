------------------------------ MODULE SsdCache ------------------------------
(***************************************************************************)
(* The data behind the mapping table: what the requests of                 *)
(* ssd_cache_target.c and the migrations of ssd_cache_mapping.c move       *)
(* between the users, the SSD and the HDD, in steps of their own, since    *)
(* mapping_lock is free while data moves.                                  *)
(*                                                                         *)
(* A block's content is one value: a request that covers a part of a block *)
(* is a read or a write of it.  "file" is what the files hold by what the  *)
(* users were told.  The code loses or mixes up data when certain steps    *)
(* meet; "raced" collects the keys to which that has happened, each added  *)
(* by the step at which the cause is there, whatever comes of it.          *)
(*                                                                         *)
(* A transfer may fail so that the code sees it (a file cannot be opened, a *)
(* command not submitted) or unnoticed: spdk.c does not look at the status *)
(* a command completes with, and short preads and pwrites count as done.   *)
(***************************************************************************)
EXTENDS Mapping, FiniteSets

CONSTANTS
  Val,      \* the contents of a block
  Blank,    \* what a block of the SSD holds that was never written, or trimmed
  MaxRaces  \* bound: a behaviour is followed until more keys than this have raced

ASSUME SsdAssumption ==
  /\ Blank \notin Val
  /\ MaxRaces \in Nat

VARIABLES
  hdd, ssd,   \* content of each file block and of each block of the SSD
  io,         \* per user: the request it is serving, after its lookup
  mg, dma,    \* mg_start: how far the migration is; what it will write
  trims,      \* blocks of the SSD with a trim command that is still to be done
  file,       \* history: content of each file block by the writes completed
  seen,       \* history, per user: contents the block it reads had since its lookup
  fresh,      \* history: blocks in the table whose data was not yet written
  raced       \* history: keys that met one of the races

dataVars == <<hdd, ssd, dma, trims>>

history == <<file, seen, fresh, raced>>

mappingVars == vars

ssdVars == <<vars, io, mg, dataVars, history>>

Request == [op  : {"none", "READ", "ANSWERED", "WRITE", "WRITTEN"},
            key : Key \cup {NoKey},
            val : Val \cup {Blank},
            at  : Entry \cup {INDEXER_NULL}]

NoIo == [op |-> "none", key |-> NoKey, val |-> Blank, at |-> INDEXER_NULL]

\* The block u's request moves data to or from; INDEXER_NULL is the HDD.
at_origin(u) == io[u].at = INDEXER_NULL

\* e still holds the block that was looked up.
holds(e, k) == e \in hashed /\ key[e] = k

\* A write of v to file block k has completed.
written(k, v) ==
  /\ file' = [file EXCEPT ![k] = v]
  /\ seen' = [w \in User |-> IF io[w].op = "READ" /\ io[w].key = k THEN seen[w] \cup {v}
                                                                  ELSE seen[w]]

races(K) == raced' = raced \cup K

\* The key in block e of the SSD, if there is one.
keys_in(e) == {key[f] : f \in alloc \cap {e}}

\* What a place that held x may hold after a write that failed unnoticed.
unwritten(x) == {x, Blank}

-----------------------------------------------------------------------------
SsdInit ==
  /\ init_mapping
  /\ hdd \in [Key -> Val]
  /\ ssd = [e \in Entry |-> Blank]
  /\ io = [u \in User |-> NoIo]
  /\ mg = "begin" /\ dma = Blank /\ trims = {}
  /\ file = hdd
  /\ seen = [u \in User |-> {}]
  /\ fresh = {} /\ raced = {}

-----------------------------------------------------------------------------
(* Requests: map_pio looks the block up and moves the data to or from where *)
(* it was found, without the lock.                                         *)

cached(k) == IF h_lookup(k) = {} THEN INDEXER_NULL ELSE CHOOSE e \in h_lookup(k) : TRUE

\* optimizable: a WRITE of the whole block takes the other lookup.
map_pio(u, op, k, v) ==
  /\ io[u] = NoIo
  /\ IF op = "OVERWRITE" THEN lookup_mapping_with_insert(u, k) ELSE lookup_mapping(u, k, op)
  /\ io' = [io EXCEPT ![u] = IF op = "READ"
       THEN [op |-> "READ", key |-> k, val |-> Blank, at |-> cached(k)]
       ELSE [op |-> "WRITE", key |-> k, val |-> v, at |-> writing'[u]]]
  /\ seen' = [seen EXCEPT ![u] = IF op = "READ" THEN {file[k]} ELSE {}]
  /\ fresh' = fresh \cup (alloc' \ alloc)
  /\ UNCHANGED <<mg, dataVars, file, raced>>

\* DISCARD, at any time: the block's data is given up for what the HDD has.
discard_pio(u, k) ==
  /\ io[u] = NoIo
  /\ remove_mapping(u, k)
  /\ written(k, hdd[k])
  /\ fresh' = fresh \cap alloc'
  /\ UNCHANGED <<io, mg, dataVars, raced>>

\* What a read finds: the value the block has now.
data_of(u) == IF at_origin(u) THEN hdd[io[u].key] ELSE ssd[io[u].at]

\* A block that was taken for this key, and whose data is still to be written.
unfilled(u) == io[u].at \in fresh

\* A block that was given away since the lookup.
taken(u) == ~at_origin(u) /\ ~holds(io[u].at, io[u].key)

\* read_cache and read_origin.
read(u) ==
  /\ io[u].op = "READ" /\ ~unfilled(u) /\ ~taken(u)
  /\ io' = [io EXCEPT ![u].op = "ANSWERED", ![u].val = data_of(u), ![u].at = INDEXER_NULL]
  /\ UNCHANGED <<mappingVars, mg, dataVars, history>>

finish(u) ==
  /\ io' = [io EXCEPT ![u] = NoIo]
  /\ seen' = [seen EXCEPT ![u] = {}]

\* The user has the answer.
read_end(u) ==
  /\ io[u].op = "ANSWERED"
  /\ finish(u)
  /\ UNCHANGED <<mappingVars, mg, dataVars, file, fresh, raced>>

\* The user gets another content than the block's, or a failure: the block is
\* unfilled, or taken, or the transfer failed, which the user may not be told.
read_misleads(u) ==
  /\ io[u].op = "READ"
  /\ finish(u)
  /\ UNCHANGED <<mappingVars, mg, dataVars, file, fresh, raced>>

\* The promotion of k has read the HDD, or k is in the cache.
promoted(k) ==
  \/ h_lookup(k) # {}
  \/ pc = "PROMOTION" /\ work = k /\ mg \in {"loaded", "done"}

\* A missed write reaches the HDD when the cache already has its own copy.
write_origin(u) ==
  LET k == io[u].key IN
  /\ io[u].op = "WRITE" /\ at_origin(u)
  /\ hdd' = [hdd EXCEPT ![k] = io[u].val]
  /\ written(k, io[u].val)
  /\ races({j \in {k} : promoted(j)})
  /\ io' = [io EXCEPT ![u] = NoIo]
  /\ UNCHANGED <<mappingVars, mg, ssd, dma, trims, fresh>>

\* The result of pwritev is only told apart from 0.
write_origin_unnoticed(u) ==
  LET k == io[u].key IN
  /\ io[u].op = "WRITE" /\ at_origin(u)
  /\ \E x \in unwritten(hdd[k]) : hdd' = [hdd EXCEPT ![k] = x]
  /\ written(k, io[u].val)
  /\ races({k})
  /\ io' = [io EXCEPT ![u] = NoIo]
  /\ UNCHANGED <<mappingVars, mg, ssd, dma, trims, fresh>>

\* The file cannot be opened.
write_origin_fails(u) ==
  /\ io[u].op = "WRITE" /\ at_origin(u)
  /\ finish(u)
  /\ UNCHANGED <<mappingVars, mg, dataVars, file, fresh, raced>>

\* writev_spdk: the block found by the lookup may have been given away since.
write_cache_data(u) ==
  \E e \in Entry :
    LET k == io[u].key IN
    /\ io[u].op = "WRITE" /\ io[u].at = e
    /\ ssd' = [ssd EXCEPT ![e] = io[u].val]
    /\ written(k, io[u].val)
    /\ races(IF holds(e, k) THEN {} ELSE {k} \cup keys_in(e))
    /\ fresh' = fresh \ {e}
    /\ io' = [io EXCEPT ![u].op = "WRITTEN", ![u].val = Blank]
    /\ UNCHANGED <<mappingVars, mg, hdd, dma, trims>>

\* The status that the command completed with is not looked at.
write_cache_unnoticed(u) ==
  \E e \in Entry :
    LET k == io[u].key IN
    /\ io[u].op = "WRITE" /\ io[u].at = e
    /\ \E x \in unwritten(ssd[e]) : ssd' = [ssd EXCEPT ![e] = x]
    /\ written(k, io[u].val)
    /\ races({k} \cup keys_in(e))
    /\ fresh' = fresh \ {e}
    /\ io' = [io EXCEPT ![u].op = "WRITTEN", ![u].val = Blank]
    /\ UNCHANGED <<mappingVars, mg, hdd, dma, trims>>

write_cache_end(u) ==
  /\ io[u].op = "WRITTEN"
  /\ write_cache(u, TRUE)
  /\ finish(u)
  /\ UNCHANGED <<mg, dataVars, file, fresh, raced>>

\* The write to the SSD fails: a block just inserted stays without its data.
write_cache_fails(u) ==
  /\ io[u].op = "WRITE"
  /\ write_cache(u, FALSE)
  /\ races({k \in {io[u].key} : \E e \in fresh : holds(e, k)})
  /\ finish(u)
  /\ UNCHANGED <<mg, dataVars, file, fresh>>

UserIo(u) ==
  \/ \E op \in Ops \ {"DISCARD"}, k \in Key, v \in Val : map_pio(u, op, k, v)
  \/ \E k \in Key : discard_pio(u, k)
  \/ read(u) \/ read_end(u) \/ read_misleads(u)
  \/ write_origin(u) \/ write_origin_unnoticed(u) \/ write_origin_fails(u)
  \/ write_cache_data(u) \/ write_cache_unnoticed(u)
  \/ write_cache_end(u) \/ write_cache_fails(u)

-----------------------------------------------------------------------------
(* Migrations: mg_start moves the data between the two halves of a         *)
(* migration; "mg" is "done" or "failed" when it has returned.             *)

move(type, from, to) ==
  /\ pc = type
  /\ mg = from
  /\ mg' = to
  /\ UNCHANGED <<mappingVars, io, file, seen>>

\* mg_start sees the failure, and says so.
fails ==
  /\ pc \in {"PROMOTION", "WRITEBACK"}
  /\ \E from \in {"begin", "loaded"} : move(pc, from, "failed")
  /\ dma' = Blank
  /\ UNCHANGED <<hdd, ssd, trims, fresh, raced>>

read_hdd ==
  /\ move("PROMOTION", "begin", "loaded")
  /\ dma' = hdd[work]
  /\ UNCHANGED <<hdd, ssd, trims, fresh, raced>>

write_ssd ==
  /\ move("PROMOTION", "loaded", "done")
  /\ ssd' = [ssd EXCEPT ![cblock] = dma]
  /\ dma' = Blank
  /\ UNCHANGED <<hdd, trims, fresh, raced>>

\* A defect: one past the last block.
trim_past_end == N

\* mg_start is called with 0 for cache_page_index, and trims by that.
trim_block == 0

\* trim_spdk only submits the command; its completion is not waited for.
trim_spdk ==
  /\ move("DEMOTION", "begin", "done")
  /\ trims' = trims \cup {trim_block}
  /\ UNCHANGED <<hdd, ssd, dma, fresh, raced>>

\* The block may hold what was there before its first write.
read_ssd ==
  /\ move("WRITEBACK", "begin", "loaded")
  /\ dma' = ssd[cblock]
  /\ races(IF cblock \in fresh THEN {key[cblock]} ELSE {})
  /\ UNCHANGED <<hdd, ssd, trims, fresh>>

write_hdd ==
  /\ move("WRITEBACK", "loaded", "done")
  /\ hdd' = [hdd EXCEPT ![key[cblock]] = dma]
  /\ dma' = Blank
  /\ UNCHANGED <<ssd, trims, fresh, raced>>

\* The buffer keeps anything, or a part of the old content, and a place that was
\* not written its old content: the migration goes on with that.
fails_unnoticed ==
  /\ \/ /\ move("PROMOTION", "begin", "loaded") \/ move("WRITEBACK", "begin", "loaded")
        /\ dma' \in Val \cup {Blank}
        /\ UNCHANGED <<hdd, ssd>>
     \/ /\ move("PROMOTION", "loaded", "done")
        /\ \E x \in unwritten(ssd[cblock]) : ssd' = [ssd EXCEPT ![cblock] = x]
        /\ dma' = Blank
        /\ UNCHANGED hdd
     \/ /\ move("WRITEBACK", "loaded", "done")
        /\ \E x \in unwritten(hdd[key[cblock]]) : hdd' = [hdd EXCEPT ![key[cblock]] = x]
        /\ dma' = Blank
        /\ UNCHANGED ssd
  /\ races(keys_in(cblock))
  /\ UNCHANGED <<trims, fresh>>

returned(type) == pc = type /\ mg \in {"done", "failed"}

complete ==
  /\ mg' = "begin"
  /\ UNCHANGED <<io, dataVars, file, seen>>

\* A defect: the result of mg_start is not looked at.
promoted_block_unchecked ==
  /\ returned("PROMOTION")
  /\ promotion_complete(TRUE)
  /\ complete
  /\ UNCHANGED <<fresh, raced>>

promoted_block ==
  /\ returned("PROMOTION")
  /\ promotion_complete(mg = "done")
  /\ complete
  /\ UNCHANGED <<fresh, raced>>

\* A block that was written while it was pending, or that is being written.
busy(e) == e \in dirty \/ \E u \in User : writing[u] = e /\ io[u].key = key[e]

demoted_block ==
  /\ returned("DEMOTION")
  /\ demotion_complete(mg = "done")
  /\ complete
  /\ races(IF busy(cblock) THEN {key[cblock]} ELSE {})
  /\ fresh' = fresh \ {cblock}

\* After a failure the block is put back, but is clean now.
written_back_block ==
  /\ returned("WRITEBACK")
  /\ writeback_complete(mg = "done")
  /\ complete
  /\ races(IF mg = "failed" /\ cblock \notin dirty THEN {key[cblock]} ELSE {})
  /\ UNCHANGED fresh

\* The table's part of the work, without data.
decide ==
  /\ \/ peak
     \/ promotion_free_to_clean \/ no_promotion
     \/ demotion_clean_to_free \/ no_demotion
     \/ writeback_dirty_to_clean
     \/ remove
  /\ UNCHANGED <<io, mg, dataVars, history>>

MigrationWorker ==
  \/ decide
  \/ read_hdd \/ write_ssd \/ trim_spdk \/ read_ssd \/ write_hdd
  \/ fails \/ fails_unnoticed
  \/ promoted_block \/ demoted_block \/ written_back_block

\* The SSD carries out a trim, at any time after it was submitted.
trimmed(b) ==
  /\ b \in trims
  /\ trims' = trims \ {b}
  /\ ssd' = [ssd EXCEPT ![b] = Blank]
  /\ races(keys_in(b))
  /\ UNCHANGED <<mappingVars, io, mg, hdd, dma, file, seen, fresh>>

\* As in Mapping.tla, a behaviour ends where a DISCARD frees the block in flight.
SsdNext ==
  /\ followed
  /\ Cardinality(raced) <= MaxRaces
  /\ \/ MigrationWorker
     \/ \E u \in User : UserIo(u)
     \/ \E b \in Entry : trimmed(b)

SsdSpec == SsdInit /\ [][SsdNext]_ssdVars

-----------------------------------------------------------------------------
(* Properties. *)

SsdTypeOK ==
  /\ hdd \in [Key -> Val \cup {Blank}]
  /\ ssd \in [Entry -> Val \cup {Blank}]
  /\ io \in [User -> Request]
  /\ mg \in {"begin", "loaded", "done", "failed"}
  /\ dma \in Val \cup {Blank}
  /\ trims \subseteq Entry
  /\ file \in [Key -> Val \cup {Blank}]
  /\ seen \in [User -> SUBSET (Val \cup {Blank})]
  /\ fresh \subseteq Entry
  /\ raced \subseteq Key

\* What a read of k finds when nothing comes in between.
content(k) == IF cached(k) = INDEXER_NULL THEN hdd[k] ELSE ssd[cached(k)]

\* The last completed write is what the files hold, through every migration,
\* unless one of the named causes has hit the block (target.c and mapping.c
\* together: users write to the SSD while the worker reads it) or the block was
\* taken for a whole-block write that is still to fill it.
LastWriteIsKept ==
  \A k \in Key \ raced : cached(k) \in fresh \/ content(k) = file[k]

\* A clean block may be given up: the HDD has the same data.  A user who writes
\* while the block is being written back makes it dirty again in time.
CleanIsSaved ==
  \A e \in hashed : \/ key[e] \in raced
                    \/ busy(e)
                    \/ pc = "WRITEBACK" /\ cblock = e
                    \/ ssd[e] = hdd[key[e]]

\* A read that was not misled returns a content that the block had at some time
\* since its lookup, although it moves the data after the lock was released: from
\* the HDD although the block may be cached, written and written back by then,
\* from the SSD although the worker and other users move its data meanwhile.
ReadsSeeWrites ==
  \A u \in User :
    io[u].op = "ANSWERED" => io[u].key \in raced \/ io[u].val \in seen[u]

\* "Perform data trimming and mark the block as invalid" (spdk.h:76), which
\* mg_start does to demote a block: no block in use is trimmed.
TrimmedIsFree == trims \cap (alloc \ pending) = {}

=============================================================================
