---------------------------- MODULE SsdCacheProofs ----------------------------
(***************************************************************************)
(* Proofs about the data behind the mapping table, for every number of     *)
(* blocks, keys, users, contents and races: no write is lost, no clean     *)
(* block is ahead of the HDD, and no read returns what the block never     *)
(* held, unless one of the causes that SsdCache.tla names has hit the key  *)
(* or the reader.                                                          *)
(*                                                                         *)
(* Every step is a step of Mapping.tla or leaves the table alone, so       *)
(* MappingInv of MappingProofs.tla holds; DataInv adds what the requests   *)
(* under way, the migration, the SSD and the HDD have to do with each      *)
(* other.                                                                  *)
(***************************************************************************)
EXTENDS SsdCache, MappingProofs

\* The request u is serving, and the block it is writing to.
IoInv ==
  \A u \in User :
    /\ io[u].op = "none" => io[u] = NoIo /\ writing[u] = INDEXER_NULL
    /\ io[u].op # "none" => io[u].key \in Key
    /\ io[u].op \in {"READ", "ANSWERED"} => writing[u] = INDEXER_NULL
    /\ io[u].op = "WRITE" => io[u].val \in Val /\ io[u].at = writing[u]
    /\ io[u].op = "WRITTEN" => io[u].at \in Entry /\ io[u].at = writing[u]

\* How far mg_start is: it moves no data when there is no migration, and
\* trimming a block cannot fail.
MgInv ==
  /\ pc \notin Moving => mg = "begin"
  /\ pc = "DEMOTION" => mg \in {"begin", "done"}

\* u has written its data to e, and is still to set the dirty bit.
unmarked(u, e) == io[u].op = "WRITTEN" /\ io[u].at = e /\ io[u].key = key[e]

\* The SSD has data in e that the HDD need not have.  (busy of SsdCache.tla
\* counts a write that may still fail, too.)
ahead(e) == e \in dirty \/ \E u \in User : unmarked(u, e)

writing_back(e) == pc = "WRITEBACK" /\ cblock = e

\* A block whose data is still to be written is dirty until the worker has read it.
FreshInv ==
  /\ fresh \subseteq hashed
  /\ \A e \in fresh : \/ key[e] \in raced
                      \/ e \in dirty
                      \/ writing_back(e) /\ mg \in {"begin", "failed"}

\* A block in the table has the data that the users were told is written.
HitInv == \A e \in hashed : key[e] \in raced \/ e \in fresh \/ ssd[e] = file[key[e]]

\* If there is none, the HDD has it.
MissInv == \A k \in Key \ raced : h_lookup(k) = {} => hdd[k] = file[k]

\* CleanIsSaved, with ahead for busy.
SavedInv ==
  \A e \in hashed : \/ key[e] \in raced
                    \/ ahead(e)
                    \/ writing_back(e)
                    \/ ssd[e] = hdd[key[e]]

\* What a promotion has read is still what the HDD has.
PromotionInv ==
  pc = "PROMOTION" /\ work \notin raced =>
    /\ mg = "loaded" => dma = hdd[work]
    /\ mg = "done" => ssd[cblock] = hdd[work]

\* What a writeback has read is still what the SSD has, unless a user has
\* written to the block and will have it marked.
WritebackInv ==
  pc = "WRITEBACK" /\ key[cblock] \notin raced /\ ~ahead(cblock) =>
    /\ mg = "loaded" => dma = ssd[cblock]
    /\ mg = "done" => ssd[cblock] = hdd[key[cblock]]

\* u reads file block k from the HDD.
reads_origin(u, k) == io[u].op = "READ" /\ io[u].key = k /\ io[u].at = INDEXER_NULL

\* A reader sees what the users were told is written, what the HDD has, and
\* what a writeback is about to put there.
ReadInv ==
  \A u \in User, k \in Key :
    /\ io[u].op = "READ" /\ io[u].key = k => file[k] \in seen[u]
    /\ reads_origin(u, k) /\ k \notin raced =>
         /\ hdd[k] \in seen[u]
         /\ pc = "WRITEBACK" /\ mg = "loaded" /\ key[cblock] = k => dma \in seen[u]
    /\ io[u].op = "ANSWERED" /\ io[u].key = k /\ k \notin raced => io[u].val \in seen[u]

DataInv ==
  /\ SsdTypeOK
  /\ IoInv /\ MgInv
  /\ FreshInv /\ HitInv /\ MissInv /\ SavedInv
  /\ PromotionInv /\ WritebackInv
  /\ ReadInv

SsdInv == MappingInv /\ DataInv

\* What the proofs below need of MapInv.
TableInv ==
  /\ hashed \subseteq alloc /\ alloc \subseteq Entry /\ dirty \subseteq Entry
  /\ key \in [Entry -> Key \cup {NoKey}]
  /\ \A e \in alloc : key[e] \in Key
  /\ OneBlockPerKey
  /\ hashed = IF pc = "PROMOTION" THEN alloc \ {cblock} ELSE alloc
  /\ pc \in Moving => cblock \in alloc
  /\ pc = "PROMOTION" => key[cblock] = work
  /\ pc # "peak" => work \in Key
  /\ writing \in [User -> Ref]

-----------------------------------------------------------------------------
LEMMA MapInvTable == MapInv => TableInv
BY DEF MapInv, ListInv, KeyInv, MovingBlockState, TableInv

\* A lookup finds at most one block.
LEMMA LookupFindsOne ==
  ASSUME OneBlockPerKey, hashed \subseteq alloc, NEW k
  PROVE  \/ h_lookup(k) = {} /\ cached(k) = INDEXER_NULL
         \/ cached(k) \in hashed /\ key[cached(k)] = k /\ h_lookup(k) = {cached(k)}
<1>1. \A e, f \in h_lookup(k) : e = f
  BY DEF h_lookup, OneBlockPerKey
<1>2. CASE h_lookup(k) # {}
  <2>1. cached(k) \in h_lookup(k)
    BY <1>2 DEF cached
  <2>2. h_lookup(k) = {cached(k)}
    BY <1>1, <2>1
  <2> QED
    BY <2>1, <2>2 DEF h_lookup
<1> QED
  BY <1>2 DEF cached

LEMMA NullIsNoEntry == INDEXER_NULL \notin Entry
BY MappingAssumption

-----------------------------------------------------------------------------
(* The worker decides: no data moves, and the table keeps its blocks. *)

LEMMA DecisionKeepsData ==
  ASSUME TableInv, TableInv', DataInv,
         UNCHANGED <<io, mg, dataVars, history, hashed, writing>>,
         \A e \in hashed : key'[e] = key[e],
         pc \notin Moving,
         \A e \in hashed : e \in dirty => e \in dirty' \/ (pc' = "WRITEBACK" /\ cblock' = e)
  PROVE  DataInv'
<1>0. /\ hdd' = hdd /\ ssd' = ssd /\ dma' = dma /\ trims' = trims /\ file' = file /\ seen' = seen
      /\ fresh' = fresh /\ raced' = raced /\ io' = io /\ mg' = mg /\ mg = "begin"
      /\ hashed' = hashed /\ writing' = writing
  BY DEF dataVars, history, DataInv, MgInv
<1>1. SsdTypeOK' /\ IoInv' /\ MgInv'
  BY <1>0 DEF DataInv, SsdTypeOK, IoInv, MgInv
<1>2. \A k : h_lookup(k)' = h_lookup(k)
  BY <1>0 DEF h_lookup
<1>3. pc # "WRITEBACK"
  BY DEF Moving
<1>4. \A e \in hashed : ahead(e) => ahead(e)' \/ writing_back(e)'
  BY <1>0 DEF ahead, unmarked, writing_back
<1>5. FreshInv' /\ HitInv' /\ MissInv' /\ SavedInv'
  BY <1>0, <1>2, <1>3, <1>4 DEF DataInv, FreshInv, HitInv, MissInv, SavedInv, writing_back
<1>6. PromotionInv' /\ WritebackInv'
  BY <1>0 DEF PromotionInv, WritebackInv
<1>7. ReadInv'
  BY <1>0 DEF DataInv, ReadInv, reads_origin
<1> QED
  BY <1>1, <1>5, <1>6, <1>7 DEF DataInv

-----------------------------------------------------------------------------
(* The worker moves data: the table and the requests stay as they are. *)

\* What every such step leaves alone.
LEMMA MoveKeeps ==
  ASSUME NEW type, NEW from, NEW to, move(type, from, to)
  PROVE  /\ pc = type /\ mg = from /\ mg' = to
         /\ UNCHANGED <<pc, cblock, work, hashed, alloc, dirty, key, writing, io, file, seen>>
         /\ \A k : h_lookup(k)' = h_lookup(k)
         /\ \A e : ahead(e)' <=> ahead(e)
         /\ \A e : writing_back(e)' <=> writing_back(e)
<1>1. /\ pc = type /\ mg = from /\ mg' = to
      /\ UNCHANGED <<pc, cblock, work, hashed, alloc, dirty, key, writing, io, file, seen>>
  BY DEF move, mappingVars, vars
<1> QED
  BY <1>1 DEF h_lookup, ahead, unmarked, writing_back

\* The conjuncts that do not depend on the data moved.
LEMMA MoveKeepsRequests ==
  ASSUME TableInv, DataInv, NEW type \in Moving, NEW from, NEW to, move(type, from, to),
         type = "DEMOTION" => to \in {"begin", "done"}
  PROVE  IoInv' /\ MgInv'
<1>1. /\ pc = type /\ mg = from /\ mg' = to
      /\ UNCHANGED <<pc, writing, io>>
  BY MoveKeeps
<1> QED
  BY <1>1 DEF DataInv, IoInv, MgInv

LEMMA ReadHddKeepsData ==
  ASSUME TableInv, DataInv, read_hdd
  PROVE  DataInv'
<1>0. /\ move("PROMOTION", "begin", "loaded") /\ dma' = hdd[work]
      /\ UNCHANGED <<hdd, ssd, trims, fresh, raced>>
  BY DEF read_hdd
<1>1. /\ pc = "PROMOTION" /\ mg = "begin" /\ mg' = "loaded"
      /\ UNCHANGED <<pc, cblock, work, hashed, alloc, dirty, key, writing, io, file, seen>>
      /\ \A k : h_lookup(k)' = h_lookup(k)
      /\ \A e : ahead(e)' <=> ahead(e)
      /\ \A e : writing_back(e)' <=> writing_back(e)
  BY <1>0, MoveKeeps
<1>2. IoInv' /\ MgInv'
  BY <1>0, MoveKeepsRequests DEF Moving
<1>3. work \in Key
  BY <1>1 DEF TableInv
<1>4. SsdTypeOK'
  BY <1>0, <1>1, <1>3 DEF DataInv, SsdTypeOK
<1>5. FreshInv' /\ HitInv' /\ MissInv' /\ SavedInv'
  BY <1>0, <1>1 DEF DataInv, FreshInv, HitInv, MissInv, SavedInv, writing_back
<1>6. PromotionInv' /\ WritebackInv'
  BY <1>0, <1>1 DEF PromotionInv, WritebackInv
<1>7. ReadInv'
  BY <1>0, <1>1 DEF DataInv, ReadInv, reads_origin
<1> QED
  BY <1>2, <1>4, <1>5, <1>6, <1>7 DEF DataInv

\* The block being promoted is not in the table yet.
LEMMA WriteSsdKeepsData ==
  ASSUME TableInv, DataInv, write_ssd
  PROVE  DataInv'
<1>0. /\ move("PROMOTION", "loaded", "done") /\ ssd' = [ssd EXCEPT ![cblock] = dma] /\ dma' = Blank
      /\ UNCHANGED <<hdd, trims, fresh, raced>>
  BY DEF write_ssd
<1>1. /\ pc = "PROMOTION" /\ mg = "loaded" /\ mg' = "done"
      /\ UNCHANGED <<pc, cblock, work, hashed, alloc, dirty, key, writing, io, file, seen>>
      /\ \A k : h_lookup(k)' = h_lookup(k)
      /\ \A e : ahead(e)' <=> ahead(e)
      /\ \A e : writing_back(e)' <=> writing_back(e)
  BY <1>0, MoveKeeps
<1>2. IoInv' /\ MgInv'
  BY <1>0, MoveKeepsRequests DEF Moving
<1>3. cblock \in Entry /\ cblock \notin hashed /\ ssd \in [Entry -> Val \cup {Blank}]
  BY <1>1 DEF TableInv, DataInv, SsdTypeOK, Moving
<1>4. ssd'[cblock] = dma /\ \A e \in hashed : ssd'[e] = ssd[e]
  BY <1>0, <1>3 DEF TableInv
<1>5. SsdTypeOK'
  BY <1>0, <1>1, <1>3 DEF DataInv, SsdTypeOK
<1>6. FreshInv' /\ HitInv' /\ MissInv' /\ SavedInv'
  BY <1>0, <1>1, <1>4 DEF DataInv, FreshInv, HitInv, MissInv, SavedInv, writing_back
<1>7. PromotionInv' /\ WritebackInv'
  BY <1>0, <1>1, <1>4 DEF DataInv, PromotionInv, WritebackInv
<1>8. ReadInv'
  BY <1>0, <1>1 DEF DataInv, ReadInv, reads_origin
<1> QED
  BY <1>2, <1>5, <1>6, <1>7, <1>8 DEF DataInv

LEMMA TrimKeepsData ==
  ASSUME TableInv, DataInv, trim_spdk
  PROVE  DataInv'
<1>0. /\ move("DEMOTION", "begin", "done") /\ trims' = trims \cup {trim_block}
      /\ UNCHANGED <<hdd, ssd, dma, fresh, raced>>
  BY DEF trim_spdk
<1>1. /\ pc = "DEMOTION" /\ mg = "begin" /\ mg' = "done"
      /\ UNCHANGED <<pc, cblock, work, hashed, alloc, dirty, key, writing, io, file, seen>>
      /\ \A k : h_lookup(k)' = h_lookup(k)
      /\ \A e : ahead(e)' <=> ahead(e)
      /\ \A e : writing_back(e)' <=> writing_back(e)
  BY <1>0, MoveKeeps
<1>2. IoInv' /\ MgInv'
  BY <1>0, MoveKeepsRequests DEF Moving
<1>3. trim_block \in Entry
  BY MappingAssumption DEF trim_block, Entry
<1>4. SsdTypeOK'
  BY <1>0, <1>1, <1>3 DEF DataInv, SsdTypeOK
<1>5. FreshInv' /\ HitInv' /\ MissInv' /\ SavedInv'
  BY <1>0, <1>1 DEF DataInv, FreshInv, HitInv, MissInv, SavedInv, writing_back
<1>6. PromotionInv' /\ WritebackInv' /\ ReadInv'
  BY <1>0, <1>1 DEF DataInv, PromotionInv, WritebackInv, ReadInv, reads_origin
<1> QED
  BY <1>2, <1>4, <1>5, <1>6 DEF DataInv

\* A block that is not fresh has what the users were told is written, so it is
\* what the readers of the HDD may see, too.
LEMMA ReadSsdKeepsData ==
  ASSUME TableInv, DataInv, read_ssd
  PROVE  DataInv'
<1>0. /\ move("WRITEBACK", "begin", "loaded") /\ dma' = ssd[cblock]
      /\ races(IF cblock \in fresh THEN {key[cblock]} ELSE {})
      /\ UNCHANGED <<hdd, ssd, trims, fresh>>
  BY DEF read_ssd
<1>1. /\ pc = "WRITEBACK" /\ mg = "begin" /\ mg' = "loaded"
      /\ UNCHANGED <<pc, cblock, work, hashed, alloc, dirty, key, writing, io, file, seen>>
      /\ \A k : h_lookup(k)' = h_lookup(k)
      /\ \A e : ahead(e)' <=> ahead(e)
      /\ \A e : writing_back(e)' <=> writing_back(e)
  BY <1>0, MoveKeeps
<1>2. IoInv' /\ MgInv'
  BY <1>0, MoveKeepsRequests DEF Moving
<1>3. cblock \in hashed /\ cblock \in Entry /\ key[cblock] \in Key
  BY <1>1 DEF TableInv, Moving
<1>4. raced \subseteq raced' /\ raced' \subseteq Key /\ (cblock \in fresh => key[cblock] \in raced')
  BY <1>0, <1>3 DEF races, DataInv, SsdTypeOK
<1>5. SsdTypeOK'
  BY <1>0, <1>1, <1>3, <1>4 DEF DataInv, SsdTypeOK
<1>6. FreshInv' /\ HitInv' /\ MissInv' /\ SavedInv'
  BY <1>0, <1>1, <1>4 DEF DataInv, FreshInv, HitInv, MissInv, SavedInv, writing_back
<1>7. PromotionInv' /\ WritebackInv'
  BY <1>0, <1>1 DEF PromotionInv, WritebackInv
<1>8. key[cblock] \in raced' \/ ssd[cblock] = file[key[cblock]]
  BY <1>3, <1>4 DEF DataInv, HitInv
<1>9. ReadInv'
  BY <1>0, <1>1, <1>4, <1>8 DEF DataInv, ReadInv, reads_origin
<1> QED
  BY <1>2, <1>5, <1>6, <1>7, <1>9 DEF DataInv

\* The HDD gets what the SSD had when the worker read it: a user that has
\* written to the SSD since will mark the block dirty again.
LEMMA WriteHddKeepsData ==
  ASSUME TableInv, DataInv, write_hdd
  PROVE  DataInv'
<1>0. /\ move("WRITEBACK", "loaded", "done") /\ hdd' = [hdd EXCEPT ![key[cblock]] = dma]
      /\ dma' = Blank
      /\ UNCHANGED <<ssd, trims, fresh, raced>>
  BY DEF write_hdd
<1>1. /\ pc = "WRITEBACK" /\ mg = "loaded" /\ mg' = "done"
      /\ UNCHANGED <<pc, cblock, work, hashed, alloc, dirty, key, writing, io, file, seen>>
      /\ \A k : h_lookup(k)' = h_lookup(k)
      /\ \A e : ahead(e)' <=> ahead(e)
      /\ \A e : writing_back(e)' <=> writing_back(e)
  BY <1>0, MoveKeeps
<1>2. IoInv' /\ MgInv'
  BY <1>0, MoveKeepsRequests DEF Moving
<1>3. cblock \in hashed /\ key[cblock] \in Key /\ hdd \in [Key -> Val \cup {Blank}]
  BY <1>1 DEF TableInv, Moving, DataInv, SsdTypeOK
<1>4. hdd'[key[cblock]] = dma /\ \A k \in Key : k # key[cblock] => hdd'[k] = hdd[k]
  BY <1>0, <1>3
<1>5. SsdTypeOK'
  BY <1>0, <1>1, <1>3 DEF DataInv, SsdTypeOK
<1>6. FreshInv' /\ HitInv'
  BY <1>0, <1>1 DEF DataInv, FreshInv, HitInv, writing_back
<1>7. \A e \in hashed : e # cblock => key[e] \in Key /\ key[e] # key[cblock]
  BY <1>3 DEF TableInv, OneBlockPerKey
<1>8. MissInv' /\ SavedInv'
  <2>1. cblock \in h_lookup(key[cblock])
    BY <1>3 DEF h_lookup
  <2> QED
    BY <1>0, <1>1, <1>4, <1>7, <2>1 DEF DataInv, MissInv, SavedInv, writing_back
<1>9. PromotionInv' /\ WritebackInv'
  BY <1>0, <1>1, <1>4 DEF DataInv, PromotionInv, WritebackInv
<1>10. ReadInv'
  BY <1>0, <1>1, <1>4 DEF DataInv, ReadInv, reads_origin
<1> QED
  BY <1>2, <1>5, <1>6, <1>8, <1>9, <1>10 DEF DataInv

LEMMA FailureKeepsData ==
  ASSUME TableInv, DataInv, fails
  PROVE  DataInv'
<1>0. PICK from \in {"begin", "loaded"} : move(pc, from, "failed")
  BY DEF fails
<1>1. /\ pc \in {"PROMOTION", "WRITEBACK"} /\ dma' = Blank
      /\ UNCHANGED <<hdd, ssd, trims, fresh, raced>>
  BY DEF fails
<1>2. /\ mg = from /\ mg' = "failed"
      /\ UNCHANGED <<pc, cblock, work, hashed, alloc, dirty, key, writing, io, file, seen>>
      /\ \A k : h_lookup(k)' = h_lookup(k)
      /\ \A e : ahead(e)' <=> ahead(e)
      /\ \A e : writing_back(e)' <=> writing_back(e)
  BY <1>0, MoveKeeps
<1>3. IoInv' /\ MgInv'
  BY <1>0, <1>1, MoveKeepsRequests DEF Moving
<1>4. SsdTypeOK'
  BY <1>1, <1>2 DEF DataInv, SsdTypeOK
<1>5. FreshInv' /\ HitInv' /\ MissInv' /\ SavedInv'
  BY <1>1, <1>2 DEF DataInv, FreshInv, HitInv, MissInv, SavedInv, writing_back
<1>6. PromotionInv' /\ WritebackInv' /\ ReadInv'
  BY <1>1, <1>2 DEF DataInv, PromotionInv, WritebackInv, ReadInv, reads_origin
<1> QED
  BY <1>3, <1>4, <1>5, <1>6 DEF DataInv

\* A transfer that failed unnoticed has hit the key of the block in flight.
LEMMA UnnoticedKeepsData ==
  ASSUME TableInv, DataInv, fails_unnoticed
  PROVE  DataInv'
<1>0. /\ \/ /\ move("PROMOTION", "begin", "loaded") \/ move("WRITEBACK", "begin", "loaded")
            /\ UNCHANGED <<hdd, ssd>>
         \/ /\ move("PROMOTION", "loaded", "done") /\ hdd' = hdd
            /\ \E x \in unwritten(ssd[cblock]) : ssd' = [ssd EXCEPT ![cblock] = x]
         \/ /\ move("WRITEBACK", "loaded", "done") /\ ssd' = ssd
            /\ \E x \in unwritten(hdd[key[cblock]]) : hdd' = [hdd EXCEPT ![key[cblock]] = x]
      /\ dma' \in Val \cup {Blank} /\ races(keys_in(cblock)) /\ UNCHANGED <<trims, fresh>>
  BY DEF fails_unnoticed
<1>1. PICK type \in {"PROMOTION", "WRITEBACK"}, to \in {"loaded", "done"}, from \in {"begin", "loaded"} :
        move(type, from, to)
  BY <1>0
<1>2. /\ pc \in {"PROMOTION", "WRITEBACK"}
      /\ UNCHANGED <<pc, cblock, work, hashed, alloc, dirty, key, writing, io, file, seen>>
      /\ \A k : h_lookup(k)' = h_lookup(k)
      /\ \A e : ahead(e)' <=> ahead(e)
      /\ \A e : writing_back(e)' <=> writing_back(e)
  BY <1>1, MoveKeeps
<1>3. IoInv' /\ MgInv'
  BY <1>1, MoveKeepsRequests DEF Moving
<1>4. cblock \in alloc /\ cblock \in Entry /\ key[cblock] \in Key
      /\ (pc = "PROMOTION" => key[cblock] = work)
  BY <1>2 DEF TableInv, Moving
<1>5. raced \subseteq raced' /\ raced' \subseteq Key /\ key[cblock] \in raced'
  <2>1. keys_in(cblock) = {key[cblock]}
    BY <1>4 DEF keys_in
  <2> QED
    BY <1>0, <1>4, <2>1 DEF races, DataInv, SsdTypeOK
<1>6. /\ hdd' \in [Key -> Val \cup {Blank}] /\ \A k \in Key : k # key[cblock] => hdd'[k] = hdd[k]
      /\ ssd' \in [Entry -> Val \cup {Blank}] /\ \A e \in Entry : e # cblock => ssd'[e] = ssd[e]
  <2>1. hdd \in [Key -> Val \cup {Blank}] /\ ssd \in [Entry -> Val \cup {Blank}]
    BY DEF DataInv, SsdTypeOK
  <2>2. \A y \in Val \cup {Blank} : unwritten(y) \subseteq Val \cup {Blank}
    BY DEF unwritten
  <2>3. hdd[key[cblock]] \in Val \cup {Blank} /\ ssd[cblock] \in Val \cup {Blank}
    BY <1>4, <2>1
  <2>4. /\ hdd' = hdd \/ \E x \in Val \cup {Blank} : hdd' = [hdd EXCEPT ![key[cblock]] = x]
        /\ ssd' = ssd \/ \E x \in Val \cup {Blank} : ssd' = [ssd EXCEPT ![cblock] = x]
    BY <1>0, <2>2, <2>3
  <2> QED
    BY <1>4, <2>1, <2>4
<1>7. SsdTypeOK'
  BY <1>0, <1>1, <1>2, <1>5, <1>6, MoveKeeps DEF DataInv, SsdTypeOK
<1>8. \A e \in hashed : e \in Entry /\ key[e] \in Key /\ (e = cblock \/ key[e] # key[cblock])
  BY <1>4 DEF TableInv, OneBlockPerKey
<1>9. FreshInv'
  BY <1>0, <1>2, <1>5 DEF DataInv, FreshInv, writing_back
<1>10. HitInv' /\ SavedInv'
  BY <1>0, <1>2, <1>5, <1>6, <1>8 DEF DataInv, HitInv, SavedInv
<1>11. MissInv'
  BY <1>2, <1>5, <1>6 DEF DataInv, MissInv
<1>12. PromotionInv' /\ WritebackInv'
  BY <1>2, <1>4, <1>5 DEF PromotionInv, WritebackInv
<1>13. ReadInv'
  BY <1>2, <1>5, <1>6 DEF DataInv, ReadInv, reads_origin
<1> QED
  BY <1>3, <1>7, <1>9, <1>10, <1>11, <1>12, <1>13 DEF DataInv

-----------------------------------------------------------------------------
(* A migration ends: no data moves, and a block enters or leaves the table. *)

\* What the three ends leave alone.
LEMMA EndKeepsRequests ==
  ASSUME TableInv, DataInv, complete, pc' = "remove", UNCHANGED writing,
         raced' \subseteq Key, fresh' \subseteq fresh
  PROVE  /\ SsdTypeOK' /\ IoInv' /\ MgInv'
         /\ PromotionInv' /\ WritebackInv'
         /\ raced \subseteq raced' => ReadInv'
<1>1. /\ mg' = "begin" /\ UNCHANGED <<io, hdd, ssd, dma, trims, file, seen>>
  BY DEF complete, dataVars
<1>2. SsdTypeOK' /\ IoInv' /\ MgInv'
  BY <1>1 DEF DataInv, SsdTypeOK, IoInv, MgInv, Moving
<1>3. PromotionInv' /\ WritebackInv'
  BY <1>1 DEF PromotionInv, WritebackInv
<1>4. ASSUME raced \subseteq raced' PROVE ReadInv'
  BY <1>1, <1>4 DEF DataInv, ReadInv, reads_origin
<1> QED
  BY <1>2, <1>3, <1>4

\* A block enters the table with what the HDD has; nobody has written it to the
\* HDD in the meantime, or its key has raced.
LEMMA PromotedKeepsData ==
  ASSUME TableInv, TableInv', DataInv, promoted_block
  PROVE  DataInv'
<1>0. /\ pc = "PROMOTION" /\ pc' = "remove" /\ complete
      /\ UNCHANGED <<fresh, raced, work, dirty, key, cblock, writing>>
      /\ IF mg = "done" THEN hashed' = hashed \cup {cblock} ELSE hashed' = hashed
  BY DEF promoted_block, returned, promotion_complete, goto
<1>1. UNCHANGED <<io, hdd, ssd, dma, trims, file, seen>>
  BY <1>0 DEF complete, dataVars
<1>2. raced \subseteq Key
  BY DEF DataInv, SsdTypeOK
<1>3. /\ SsdTypeOK' /\ IoInv' /\ MgInv' /\ PromotionInv' /\ WritebackInv' /\ ReadInv'
  BY <1>0, <1>2, EndKeepsRequests
<1>4. /\ cblock \in alloc /\ cblock \notin hashed /\ key[cblock] = work /\ work \in Key
      /\ h_lookup(work) = {}
  BY <1>0 DEF TableInv, Moving, h_lookup, OneBlockPerKey
<1>5. mg = "done" => work \in raced \/ (ssd[cblock] = hdd[work] /\ hdd[work] = file[work])
  BY <1>0, <1>4 DEF DataInv, PromotionInv, MissInv
<1>6. \A e : ahead(e)' <=> ahead(e)
  BY <1>0, <1>1 DEF ahead, unmarked
<1>7. \A e : ~writing_back(e) /\ ~writing_back(e)'
  BY <1>0 DEF writing_back
<1>8. FreshInv' /\ HitInv' /\ SavedInv'
  BY <1>0, <1>1, <1>4, <1>5, <1>6, <1>7 DEF DataInv, FreshInv, HitInv, SavedInv
<1>9. \A k : h_lookup(k)' = {} => h_lookup(k) = {}
  BY <1>0 DEF h_lookup
<1>10. MissInv'
  BY <1>0, <1>1, <1>9 DEF DataInv, MissInv
<1> QED
  BY <1>3, <1>8, <1>10 DEF DataInv

\* A block that leaves the table is saved, or its key races.
LEMMA DemotedKeepsData ==
  ASSUME TableInv, TableInv', DataInv, demoted_block
  PROVE  DataInv'
<1>0. /\ pc = "DEMOTION" /\ pc' = "remove" /\ complete /\ mg = "done" /\ h_remove(cblock)
      /\ UNCHANGED <<work, dirty, key, cblock, writing>>
      /\ races(IF busy(cblock) THEN {key[cblock]} ELSE {}) /\ fresh' = fresh \ {cblock}
  BY DEF demoted_block, returned, demotion_complete, goto, DataInv, MgInv
<1>1. UNCHANGED <<io, hdd, ssd, dma, trims, file, seen>>
  BY <1>0 DEF complete, dataVars
<1>2. cblock \in hashed /\ key[cblock] \in Key /\ h_lookup(key[cblock]) = {cblock}
  BY <1>0 DEF TableInv, Moving, h_lookup, OneBlockPerKey
<1>3. hashed' = hashed \ {cblock}
  BY <1>0, <1>2 DEF h_remove
<1>4. raced \subseteq raced' /\ raced' \subseteq Key /\ (busy(cblock) => key[cblock] \in raced')
  BY <1>0, <1>2 DEF races, DataInv, SsdTypeOK
<1>5. /\ SsdTypeOK' /\ IoInv' /\ MgInv' /\ PromotionInv' /\ WritebackInv' /\ ReadInv'
  BY <1>0, <1>4, EndKeepsRequests
<1>6. \A e : ahead(e)' <=> ahead(e)
  BY <1>0, <1>1 DEF ahead, unmarked
<1>7. \A e : ~writing_back(e) /\ ~writing_back(e)'
  BY <1>0 DEF writing_back
<1>8. FreshInv' /\ HitInv' /\ SavedInv'
  BY <1>0, <1>1, <1>3, <1>4, <1>6, <1>7 DEF DataInv, FreshInv, HitInv, SavedInv
<1>9. key[cblock] \notin raced' => hdd[key[cblock]] = file[key[cblock]]
  <2> SUFFICES ASSUME key[cblock] \notin raced', key[cblock] \notin raced, ~busy(cblock)
               PROVE  hdd[key[cblock]] = file[key[cblock]]
    BY <1>4
  <2>1. ~ahead(cblock) /\ cblock \notin dirty
    <3>1. \A u \in User : unmarked(u, cblock) => writing[u] = cblock /\ io[u].key = key[cblock]
      BY DEF unmarked, DataInv, IoInv
    <3> QED
      BY <3>1 DEF ahead, busy
  <2>2. cblock \notin fresh
    BY <1>2, <1>7, <2>1 DEF DataInv, FreshInv
  <2> QED
    BY <1>2, <1>7, <2>1, <2>2 DEF DataInv, HitInv, SavedInv
<1>10. ASSUME NEW k \in Key \ raced', h_lookup(k)' = {} PROVE hdd[k] = file[k]
  <2>1. CASE h_lookup(k) = {}
    BY <1>4, <1>10, <2>1 DEF DataInv, MissInv
  <2>2. CASE h_lookup(k) # {}
    <3>1. k = key[cblock]
      BY <1>0, <1>3, <1>10, <2>2 DEF h_lookup
    <3> QED
      BY <1>9, <1>10, <3>1
  <2> QED
    BY <2>1, <2>2
<1>11. MissInv'
  BY <1>1, <1>10 DEF MissInv
<1> QED
  BY <1>5, <1>8, <1>11 DEF DataInv

LEMMA WrittenBackKeepsData ==
  ASSUME TableInv, TableInv', DataInv, written_back_block
  PROVE  DataInv'
<1>0. /\ pc = "WRITEBACK" /\ pc' = "remove" /\ complete /\ mg \in {"done", "failed"}
      /\ UNCHANGED <<hashed, work, dirty, key, cblock, writing, fresh>>
      /\ races(IF mg = "failed" /\ cblock \notin dirty THEN {key[cblock]} ELSE {})
  BY DEF written_back_block, returned, writeback_complete, goto
<1>1. UNCHANGED <<io, hdd, ssd, dma, trims, file, seen>>
  BY <1>0 DEF complete, dataVars
<1>2. cblock \in hashed /\ key[cblock] \in Key
  BY <1>0 DEF TableInv, Moving
<1>3. /\ raced \subseteq raced' /\ raced' \subseteq Key
      /\ mg = "failed" /\ cblock \notin dirty => key[cblock] \in raced'
  BY <1>0, <1>2 DEF races, DataInv, SsdTypeOK
<1>4. /\ SsdTypeOK' /\ IoInv' /\ MgInv' /\ PromotionInv' /\ WritebackInv' /\ ReadInv'
  BY <1>0, <1>3, EndKeepsRequests
<1>5. \A e : ahead(e)' <=> ahead(e)
  BY <1>0, <1>1 DEF ahead, unmarked
<1>6. \A k : h_lookup(k)' = h_lookup(k)
  BY <1>0 DEF h_lookup
<1>7. HitInv' /\ MissInv'
  BY <1>0, <1>1, <1>3, <1>6 DEF DataInv, HitInv, MissInv
<1>8. FreshInv'
  BY <1>0, <1>1, <1>3 DEF DataInv, FreshInv, writing_back
<1>9. mg = "done" => key[cblock] \in raced \/ ahead(cblock) \/ ssd[cblock] = hdd[key[cblock]]
  BY <1>0 DEF DataInv, WritebackInv
<1>10. SavedInv'
  <2> SUFFICES ASSUME NEW e \in hashed, key[e] \notin raced', ~ahead(e)
               PROVE  ssd[e] = hdd[key[e]]
    BY <1>0, <1>1, <1>5 DEF SavedInv
  <2>1. CASE e = cblock
    BY <1>0, <1>3, <1>9, <2>1 DEF ahead
  <2>2. CASE e # cblock
    BY <1>3, <2>2 DEF DataInv, SavedInv, writing_back
  <2> QED
    BY <2>1, <2>2
<1> QED
  BY <1>4, <1>7, <1>8, <1>10 DEF DataInv

\* A trimmed block that is in use is a race.
LEMMA TrimmedKeepsData ==
  ASSUME TableInv, DataInv, NEW b \in Entry, trimmed(b)
  PROVE  DataInv'
<1>0. /\ trims' = trims \ {b} /\ ssd' = [ssd EXCEPT ![b] = Blank] /\ races(keys_in(b))
      /\ UNCHANGED <<io, mg, hdd, dma, file, seen, fresh>>
      /\ UNCHANGED <<pc, cblock, work, hashed, alloc, dirty, key, writing>>
  BY DEF trimmed, mappingVars, vars
<1>1. \A k : h_lookup(k)' = h_lookup(k)
  BY <1>0 DEF h_lookup
<1>2. \A e : (ahead(e)' <=> ahead(e)) /\ (writing_back(e)' <=> writing_back(e))
  BY <1>0 DEF ahead, unmarked, writing_back
<1>3. \A e \in Entry : e # b => ssd'[e] = ssd[e]
  BY <1>0 DEF DataInv, SsdTypeOK
<1>4. raced \subseteq raced' /\ raced' \subseteq Key /\ (b \in alloc => key[b] \in raced')
  <2>1. keys_in(b) = IF b \in alloc THEN {key[b]} ELSE {}
    BY DEF keys_in
  <2> QED
    BY <1>0, <2>1 DEF races, DataInv, SsdTypeOK, TableInv
<1>5. SsdTypeOK' /\ IoInv' /\ MgInv'
  <2>1. ssd' \in [Entry -> Val \cup {Blank}]
    BY <1>0 DEF DataInv, SsdTypeOK
  <2> QED
    BY <1>0, <1>4, <2>1 DEF DataInv, SsdTypeOK, IoInv, MgInv
<1>6. FreshInv' /\ MissInv' /\ ReadInv'
  BY <1>0, <1>1, <1>2, <1>4 DEF DataInv, FreshInv, MissInv, ReadInv, reads_origin
<1>7. HitInv' /\ SavedInv'
  BY <1>0, <1>2, <1>3, <1>4 DEF DataInv, HitInv, SavedInv, TableInv
<1>8. pc \in Moving => cblock \in alloc /\ cblock \in Entry
  BY DEF TableInv
<1>9. PromotionInv' /\ WritebackInv'
  BY <1>0, <1>2, <1>3, <1>4, <1>8 DEF DataInv, PromotionInv, WritebackInv, TableInv, Moving
<1> QED
  BY <1>5, <1>6, <1>7, <1>9 DEF DataInv

-----------------------------------------------------------------------------
(* The users. *)

\* Steps of user u that move no data: the table keeps its blocks, and u's
\* request is ended.
LEMMA RequestEndKeepsData ==
  ASSUME TableInv, DataInv, NEW u \in User, finish(u),
         UNCHANGED <<mg, dataVars, file, fresh, pc, cblock, work, hashed, key>>,
         dirty' \subseteq Entry, dirty \subseteq dirty',
         \A e \in hashed : unmarked(u, e) => e \in dirty',
         writing' = [writing EXCEPT ![u] = INDEXER_NULL],
         raced \subseteq raced', raced' \subseteq Key
  PROVE  DataInv'
<1>0. /\ UNCHANGED <<mg, hdd, ssd, dma, trims, file, fresh, pc, cblock, work, hashed, key>>
      /\ io' = [io EXCEPT ![u] = NoIo] /\ seen' = [seen EXCEPT ![u] = {}]
  BY DEF dataVars, finish
<1>1. /\ io'[u] = NoIo /\ writing'[u] = INDEXER_NULL
      /\ \A w \in User : w # u => io'[w] = io[w] /\ seen'[w] = seen[w] /\ writing'[w] = writing[w]
  BY <1>0 DEF DataInv, SsdTypeOK, TableInv
<1>2. SsdTypeOK'
  <2>1. NoIo \in Request
    BY DEF NoIo, Request
  <2>2. io' \in [User -> Request]
    BY <1>0, <2>1 DEF DataInv, SsdTypeOK
  <2>3. seen' \in [User -> SUBSET (Val \cup {Blank})]
    BY <1>0 DEF DataInv, SsdTypeOK
  <2> QED
    BY <1>0, <2>2, <2>3 DEF DataInv, SsdTypeOK
<1>3. NoIo.op = "none"
  BY DEF NoIo
<1>4. IoInv'
  BY <1>1, <1>3 DEF DataInv, IoInv
<1>5. \A k : h_lookup(k)' = h_lookup(k)
  BY <1>0 DEF h_lookup
<1>6. \A e \in hashed : ahead(e) => ahead(e)'
  BY <1>0, <1>1 DEF ahead, unmarked
<1>7. MgInv' /\ FreshInv' /\ HitInv' /\ MissInv'
  BY <1>0, <1>5 DEF DataInv, MgInv, FreshInv, HitInv, MissInv, writing_back
<1>8. SavedInv'
  BY <1>0, <1>6 DEF DataInv, SavedInv, writing_back
<1>9. pc = "WRITEBACK" => cblock \in hashed
  BY DEF TableInv, Moving
<1>10. PromotionInv' /\ WritebackInv'
  BY <1>0, <1>6, <1>9 DEF DataInv, PromotionInv, WritebackInv
<1>11. ReadInv'
  BY <1>0, <1>1, <1>3 DEF DataInv, ReadInv, reads_origin
<1> QED
  BY <1>2, <1>4, <1>7, <1>8, <1>10, <1>11 DEF DataInv

LEMMA ReadEndKeepsData ==
  ASSUME TableInv, DataInv, NEW u \in User,
         read_end(u) \/ read_misleads(u) \/ write_origin_fails(u)
  PROVE  DataInv'
<1>0. /\ finish(u) /\ UNCHANGED <<mg, dataVars, file, fresh, raced>>
      /\ UNCHANGED <<pc, cblock, work, hashed, key, dirty, writing>>
  BY DEF read_end, read_misleads, write_origin_fails, mappingVars, vars
<1>1. writing[u] = INDEXER_NULL /\ io[u].op # "WRITTEN"
  BY DEF read_end, read_misleads, write_origin_fails, at_origin, DataInv, IoInv
<1>2. writing' = [writing EXCEPT ![u] = INDEXER_NULL]
  BY <1>0, <1>1 DEF TableInv
<1>3. \A e \in hashed : unmarked(u, e) => e \in dirty'
  BY <1>1 DEF unmarked
<1>4. dirty' \subseteq Entry /\ raced' \subseteq Key
  BY <1>0 DEF TableInv, DataInv, SsdTypeOK
<1> QED
  BY <1>0, <1>2, <1>3, <1>4, RequestEndKeepsData

\* An answer is what the HDD has, or what a block has that is filled and still
\* the reader's.
LEMMA AnswerIsSeen ==
  ASSUME DataInv, NEW u \in User, read(u), io[u].key \notin raced
  PROVE  data_of(u) \in seen[u]
<1>1. io[u].op = "READ" /\ io[u].key \in Key /\ ReadInv /\ HitInv
  BY DEF read, DataInv, IoInv
<1>2. CASE io[u].at = INDEXER_NULL
  BY <1>1, <1>2 DEF ReadInv, reads_origin, data_of, at_origin
<1>3. CASE io[u].at # INDEXER_NULL
  <2>1. io[u].at \in hashed /\ key[io[u].at] = io[u].key /\ io[u].at \notin fresh
    BY <1>3 DEF read, unfilled, taken, at_origin, holds
  <2>2. ssd[io[u].at] = file[io[u].key]
    BY <1>1, <2>1 DEF HitInv
  <2> QED
    BY <1>1, <1>3, <2>2 DEF ReadInv, data_of, at_origin
<1> QED
  BY <1>2, <1>3

LEMMA ReadKeepsData ==
  ASSUME TableInv, DataInv, NEW u \in User, read(u)
  PROVE  DataInv'
<1> DEFINE r == [io[u] EXCEPT !.op = "ANSWERED", !.val = data_of(u), !.at = INDEXER_NULL]
<1>0. /\ io[u].op = "READ" /\ io' = [io EXCEPT ![u] = r]
      /\ UNCHANGED <<mg, hdd, ssd, dma, trims, file, seen, fresh, raced>>
      /\ UNCHANGED <<pc, cblock, work, hashed, alloc, dirty, key, writing>>
  <2>1. /\ io[u].op = "READ"
        /\ io' = [io EXCEPT ![u].op = "ANSWERED", ![u].val = data_of(u), ![u].at = INDEXER_NULL]
        /\ UNCHANGED <<mg, hdd, ssd, dma, trims, file, seen, fresh, raced>>
        /\ UNCHANGED <<pc, cblock, work, hashed, alloc, dirty, key, writing>>
    BY DEF read, mappingVars, vars, dataVars, history
  <2> QED
    BY <2>1 DEF DataInv, SsdTypeOK
<1>1. io[u] \in Request /\ io[u].key \in Key /\ writing[u] = INDEXER_NULL
  BY <1>0 DEF DataInv, SsdTypeOK, IoInv
<1>2. data_of(u) \in Val \cup {Blank}
  <2>1. io[u].at \in Entry \cup {INDEXER_NULL}
    BY <1>1 DEF Request
  <2> QED
    BY <1>1, <2>1 DEF data_of, at_origin, DataInv, SsdTypeOK
<1>3. /\ r \in Request /\ r.op = "ANSWERED" /\ r.key = io[u].key /\ r.val = data_of(u)
  BY <1>1, <1>2 DEF Request
<1>4. io'[u] = r /\ \A w \in User : w # u => io'[w] = io[w]
  BY <1>0 DEF DataInv, SsdTypeOK
<1>5. io[u].key \notin raced => data_of(u) \in seen[u]
  BY AnswerIsSeen
<1> HIDE DEF r
<1>6. SsdTypeOK'
  <2>1. io' \in [User -> Request]
    BY <1>0, <1>3 DEF DataInv, SsdTypeOK
  <2> QED
    BY <1>0, <2>1 DEF DataInv, SsdTypeOK
<1>7. IoInv' /\ MgInv'
  BY <1>0, <1>1, <1>3, <1>4 DEF DataInv, IoInv, MgInv
<1>8. \A k : h_lookup(k)' = h_lookup(k)
  BY <1>0 DEF h_lookup
<1>9. \A e : (ahead(e)' <=> ahead(e)) /\ (writing_back(e)' <=> writing_back(e))
  BY <1>0, <1>3, <1>4 DEF ahead, unmarked, writing_back
<1>10. FreshInv' /\ HitInv' /\ MissInv' /\ SavedInv'
  BY <1>0, <1>8, <1>9 DEF DataInv, FreshInv, HitInv, MissInv, SavedInv
<1>11. PromotionInv' /\ WritebackInv'
  BY <1>0, <1>9 DEF DataInv, PromotionInv, WritebackInv
<1>12. ReadInv'
  BY <1>0, <1>3, <1>4, <1>5 DEF DataInv, ReadInv, reads_origin
<1> QED
  BY <1>6, <1>7, <1>10, <1>11, <1>12 DEF DataInv

LEMMA WriteEndKeepsData ==
  ASSUME TableInv, DataInv, NEW u \in User, write_cache_end(u)
  PROVE  DataInv'
<1>0. /\ finish(u) /\ UNCHANGED <<mg, dataVars, file, fresh, raced>>
      /\ io[u].op = "WRITTEN" /\ write_cache(u, TRUE)
  BY DEF write_cache_end
<1>1. writing[u] = io[u].at /\ io[u].at \in Entry
  BY <1>0 DEF DataInv, IoInv
<1>2. /\ UNCHANGED <<pc, cblock, work, hashed, key>>
      /\ writing' = [writing EXCEPT ![u] = INDEXER_NULL]
      /\ dirty' = IF writing[u] \in alloc THEN dirty \cup {writing[u]} ELSE dirty
  BY <1>0 DEF write_cache, set_dirty_after_write, tableVars
<1>3. dirty \subseteq dirty' /\ dirty' \subseteq Entry /\ raced' \subseteq Key
  BY <1>0, <1>1, <1>2 DEF TableInv, DataInv, SsdTypeOK
<1>4. \A e \in hashed : unmarked(u, e) => e \in dirty'
  BY <1>1, <1>2 DEF unmarked, TableInv
<1> QED
  BY <1>0, <1>2, <1>3, <1>4, RequestEndKeepsData

LEMMA WriteFailureKeepsData ==
  ASSUME TableInv, DataInv, NEW u \in User, write_cache_fails(u)
  PROVE  DataInv'
<1>0. /\ finish(u) /\ UNCHANGED <<mg, dataVars, file, fresh>>
      /\ io[u].op = "WRITE" /\ write_cache(u, FALSE)
      /\ races({k \in {io[u].key} : \E e \in fresh : holds(e, k)})
  BY DEF write_cache_fails
<1>1. /\ UNCHANGED <<pc, cblock, work, hashed, key, dirty>>
      /\ writing' = [writing EXCEPT ![u] = INDEXER_NULL]
  BY <1>0 DEF write_cache, tableVars
<1>2. \A e \in hashed : unmarked(u, e) => e \in dirty'
  BY <1>0 DEF unmarked
<1>3. io[u].key \in Key
  BY <1>0 DEF DataInv, IoInv
<1>4. dirty' \subseteq Entry /\ dirty \subseteq dirty' /\ raced \subseteq raced' /\ raced' \subseteq Key
  BY <1>0, <1>1, <1>3 DEF races, TableInv, DataInv, SsdTypeOK
<1> QED
  BY <1>0, <1>1, <1>2, <1>4, RequestEndKeepsData

\* A write of v to file block k: it is what the users were told is written, and
\* every reader of k may see it.
LEMMA WrittenIsSeen ==
  ASSUME DataInv, NEW k \in Key, NEW v \in Val \cup {Blank}, written(k, v)
  PROVE  /\ file' \in [Key -> Val \cup {Blank}] /\ seen' \in [User -> SUBSET (Val \cup {Blank})]
         /\ file'[k] = v /\ \A j \in Key : j # k => file'[j] = file[j]
         /\ \A w \in User : seen[w] \subseteq seen'[w]
         /\ \A w \in User : io[w].op = "READ" /\ io[w].key = k => v \in seen'[w]
<1>1. file \in [Key -> Val \cup {Blank}] /\ seen \in [User -> SUBSET (Val \cup {Blank})]
  BY DEF DataInv, SsdTypeOK
<1>2. /\ file' = [file EXCEPT ![k] = v]
      /\ seen' = [w \in User |-> IF io[w].op = "READ" /\ io[w].key = k THEN seen[w] \cup {v}
                                                                       ELSE seen[w]]
  BY DEF written
<1>3. seen' \in [User -> SUBSET (Val \cup {Blank})]
  BY <1>1, <1>2
<1> QED
  BY <1>1, <1>2, <1>3

\* A missed write, of which x reaches the HDD: its key races if the block has
\* come into the cache since, or if x is not what was to be written.
LEMMA OriginWriteKeepsData ==
  ASSUME TableInv, DataInv, NEW u \in User, NEW x \in Val \cup {Blank}, NEW K \in SUBSET Key,
         io[u].op = "WRITE", io[u].at = INDEXER_NULL,
         hdd' = [hdd EXCEPT ![io[u].key] = x], written(io[u].key, io[u].val), races(K),
         io[u].key \in K \/ (x = io[u].val /\ ~promoted(io[u].key)),
         io' = [io EXCEPT ![u] = NoIo],
         UNCHANGED <<mappingVars, mg, ssd, dma, trims, fresh>>
  PROVE  DataInv'
<1> DEFINE k == io[u].key
           v == io[u].val
<1>0. /\ io[u].op = "WRITE" /\ io[u].at = INDEXER_NULL /\ hdd' = [hdd EXCEPT ![k] = x]
      /\ written(k, v) /\ raced' = raced \cup K /\ io' = [io EXCEPT ![u] = NoIo]
      /\ k \in K \/ (x = v /\ ~promoted(k))
      /\ UNCHANGED <<mg, ssd, dma, trims, fresh>>
      /\ UNCHANGED <<pc, cblock, work, hashed, alloc, dirty, key, writing>>
  BY DEF races, mappingVars, vars
<1>1. k \in Key /\ v \in Val /\ writing[u] = INDEXER_NULL
  BY <1>0 DEF DataInv, IoInv
<1>2. /\ file' \in [Key -> Val \cup {Blank}] /\ seen' \in [User -> SUBSET (Val \cup {Blank})]
      /\ file'[k] = v /\ \A j \in Key : j # k => file'[j] = file[j]
      /\ \A w \in User : seen[w] \subseteq seen'[w]
      /\ \A w \in User : io[w].op = "READ" /\ io[w].key = k => v \in seen'[w]
  BY <1>0, <1>1, WrittenIsSeen
<1>3. /\ hdd' \in [Key -> Val \cup {Blank}]
      /\ hdd'[k] = x /\ \A j \in Key : j # k => hdd'[j] = hdd[j]
  BY <1>0, <1>1 DEF DataInv, SsdTypeOK
<1>4. /\ raced \subseteq raced' /\ raced' \subseteq Key
      /\ k \notin raced' => x = v /\ ~promoted(k)
  BY <1>0, <1>1 DEF DataInv, SsdTypeOK
<1>5. io'[u] = NoIo /\ NoIo.op = "none" /\ \A w \in User : w # u => io'[w] = io[w]
  BY <1>0 DEF DataInv, SsdTypeOK, NoIo
<1> HIDE DEF k, v
<1>6. SsdTypeOK'
  <2>1. NoIo \in Request
    BY DEF NoIo, Request
  <2>2. io' \in [User -> Request]
    BY <1>0, <2>1 DEF DataInv, SsdTypeOK
  <2> QED
    BY <1>0, <1>2, <1>3, <1>4, <2>2 DEF DataInv, SsdTypeOK
<1>7. IoInv' /\ MgInv'
  BY <1>0, <1>1, <1>5 DEF DataInv, IoInv, MgInv
<1>8. \A j : h_lookup(j)' = h_lookup(j)
  BY <1>0 DEF h_lookup
<1>9. \A e : (ahead(e) => ahead(e)') /\ (writing_back(e)' <=> writing_back(e))
  BY <1>0, <1>5 DEF ahead, unmarked, writing_back
<1>10. \A e \in hashed : key[e] \in Key /\ (key[e] = k => k \in raced')
  BY <1>4 DEF promoted, h_lookup, TableInv
<1>11. FreshInv' /\ HitInv' /\ SavedInv'
  BY <1>0, <1>2, <1>3, <1>4, <1>9, <1>10 DEF DataInv, FreshInv, HitInv, SavedInv
<1>12. MissInv'
  BY <1>2, <1>3, <1>4, <1>8 DEF DataInv, MissInv
<1>13. PromotionInv'
  BY <1>0, <1>3, <1>4 DEF DataInv, PromotionInv, promoted, TableInv
<1>14. pc = "WRITEBACK" => cblock \in hashed
  BY DEF TableInv, Moving
<1>15. WritebackInv'
  BY <1>0, <1>3, <1>4, <1>9, <1>10, <1>14 DEF DataInv, WritebackInv
<1>16. ReadInv'
  BY <1>0, <1>2, <1>3, <1>4, <1>5 DEF DataInv, ReadInv, reads_origin
<1> QED
  BY <1>6, <1>7, <1>11, <1>12, <1>13, <1>15, <1>16 DEF DataInv

LEMMA WriteOriginKeepsData ==
  ASSUME TableInv, DataInv, NEW u \in User, write_origin(u) \/ write_origin_unnoticed(u)
  PROVE  DataInv'
<1>1. io[u].op = "WRITE" /\ io[u].at = INDEXER_NULL
  BY DEF write_origin, write_origin_unnoticed, at_origin
<1>2. io[u].key \in Key /\ io[u].val \in Val
  BY <1>1 DEF DataInv, IoInv
<1>3. CASE write_origin(u)
  <2>1. {j \in {io[u].key} : promoted(j)} \in SUBSET Key
    BY <1>2
  <2> QED
    BY <1>1, <1>2, <1>3, <2>1, OriginWriteKeepsData DEF write_origin
<1>4. CASE write_origin_unnoticed(u)
  <2>1. unwritten(hdd[io[u].key]) \subseteq Val \cup {Blank}
    BY <1>2 DEF unwritten, DataInv, SsdTypeOK
  <2>2. {io[u].key} \in SUBSET Key
    BY <1>2
  <2> QED
    BY <1>1, <1>2, <1>4, <2>1, <2>2, OriginWriteKeepsData DEF write_origin_unnoticed
<1> QED
  BY <1>3, <1>4

\* A write to the cache, of which x reaches the block: the keys race if the block
\* is another's by now, or if x is not what was to be written.
LEMMA CacheWriteKeepsData ==
  ASSUME TableInv, DataInv, NEW u \in User, NEW e \in Entry, NEW x \in Val \cup {Blank},
         NEW K \in SUBSET Key,
         io[u].op = "WRITE", io[u].at = e,
         ssd' = [ssd EXCEPT ![e] = x], written(io[u].key, io[u].val), races(K),
         \/ io[u].key \in K /\ (e \in alloc => key[e] \in K)
         \/ x = io[u].val /\ holds(e, io[u].key),
         fresh' = fresh \ {e}, io' = [io EXCEPT ![u].op = "WRITTEN", ![u].val = Blank],
         UNCHANGED <<mappingVars, mg, hdd, dma, trims>>
  PROVE  DataInv'
<1> DEFINE k == io[u].key
           v == io[u].val
<1>0. /\ io[u].op = "WRITE" /\ io[u].at = e /\ ssd' = [ssd EXCEPT ![e] = x]
      /\ written(k, v) /\ raced' = raced \cup K
      /\ \/ k \in K /\ (e \in alloc => key[e] \in K)
         \/ x = v /\ holds(e, k)
      /\ fresh' = fresh \ {e} /\ io' = [io EXCEPT ![u].op = "WRITTEN", ![u].val = Blank]
      /\ UNCHANGED <<mg, hdd, dma, trims>>
      /\ UNCHANGED <<pc, cblock, work, hashed, alloc, dirty, key, writing>>
  BY DEF races, mappingVars, vars
<1>1. k \in Key /\ v \in Val /\ writing[u] = e
  BY <1>0 DEF DataInv, IoInv
<1>2. /\ file' \in [Key -> Val \cup {Blank}] /\ seen' \in [User -> SUBSET (Val \cup {Blank})]
      /\ file'[k] = v /\ \A j \in Key : j # k => file'[j] = file[j]
      /\ \A w \in User : seen[w] \subseteq seen'[w]
      /\ \A w \in User : io[w].op = "READ" /\ io[w].key = k => v \in seen'[w]
  BY <1>0, <1>1, WrittenIsSeen
<1>3. /\ ssd' \in [Entry -> Val \cup {Blank}]
      /\ ssd'[e] = x /\ \A f \in Entry : f # e => ssd'[f] = ssd[f]
  BY <1>0, <1>1 DEF DataInv, SsdTypeOK
<1>4. /\ raced \subseteq raced' /\ raced' \subseteq Key
      /\ \/ k \in raced' /\ (e \in alloc => key[e] \in raced')
         \/ x = v /\ holds(e, k)
  BY <1>0 DEF DataInv, SsdTypeOK
<1>5. /\ io'[u] = [op |-> "WRITTEN", key |-> k, val |-> Blank, at |-> e]
      /\ \A w \in User : w # u => io'[w] = io[w]
  BY <1>0 DEF DataInv, SsdTypeOK, Request
<1>6. /\ io'[u].op = "WRITTEN" /\ io'[u].key = k /\ io'[u].at = e
  BY <1>5
<1> HIDE DEF k, v
<1>7. SsdTypeOK'
  <2>1. [op |-> "WRITTEN", key |-> k, val |-> Blank, at |-> e] \in Request
    BY <1>1 DEF Request
  <2>2. io' \in [User -> Request]
    <3>1. io' = [w \in User |-> IF w = u THEN [op |-> "WRITTEN", key |-> k, val |-> Blank, at |-> e]
                                         ELSE io[w]]
      BY <1>0, <1>5 DEF DataInv, SsdTypeOK
    <3> QED
      BY <2>1, <3>1 DEF DataInv, SsdTypeOK
  <2> QED
    BY <1>0, <1>2, <1>3, <1>4, <2>2 DEF DataInv, SsdTypeOK
<1>8. IoInv' /\ MgInv'
  BY <1>0, <1>1, <1>5, <1>6 DEF DataInv, IoInv, MgInv
<1>9. \A j : h_lookup(j)' = h_lookup(j)
  BY <1>0 DEF h_lookup
<1>10. /\ \A f : (ahead(f) => ahead(f)') /\ (writing_back(f)' <=> writing_back(f))
       /\ holds(e, k) => ahead(e)'
  BY <1>0, <1>5, <1>6 DEF ahead, unmarked, writing_back, holds
<1>11. \A f \in hashed : f \in Entry /\ key[f] \in Key /\ (f # e /\ key[f] = k => k \in raced')
  BY <1>4 DEF holds, TableInv, OneBlockPerKey
<1>12. FreshInv'
  BY <1>0, <1>4, <1>10 DEF DataInv, FreshInv
<1>13. HitInv'
  <2> SUFFICES ASSUME NEW f \in hashed, key[f] \notin raced', f \notin fresh'
               PROVE  ssd'[f] = file'[key[f]]
    BY <1>0 DEF HitInv
  <2>1. CASE f = e
    BY <1>2, <1>3, <1>4, <2>1 DEF holds, TableInv
  <2>2. CASE f # e
    BY <1>0, <1>2, <1>3, <1>4, <1>11, <2>2 DEF DataInv, HitInv
  <2> QED
    BY <2>1, <2>2
<1>14. MissInv'
  <2>1. holds(e, k) => h_lookup(k) # {}
    BY DEF holds, h_lookup
  <2> QED
    BY <1>0, <1>2, <1>4, <1>9, <2>1 DEF DataInv, MissInv
<1>15. SavedInv'
  <2> SUFFICES ASSUME NEW f \in hashed, key[f] \notin raced', ~ahead(f)', ~writing_back(f)
               PROVE  ssd'[f] = hdd[key[f]]
    BY <1>0, <1>10 DEF SavedInv
  <2>1. f # e
    BY <1>4, <1>10 DEF TableInv
  <2> QED
    BY <1>3, <1>4, <1>10, <1>11, <2>1 DEF DataInv, SavedInv
<1>16. pc \in Moving => cblock \in alloc /\ cblock \in Entry
  BY DEF TableInv
<1>17. PromotionInv'
  <2>1. pc = "PROMOTION" => cblock \notin hashed /\ key[cblock] = work
    BY DEF TableInv
  <2> QED
    BY <1>0, <1>3, <1>4, <1>16, <2>1 DEF DataInv, PromotionInv, holds, Moving
<1>18. WritebackInv'
  BY <1>0, <1>3, <1>4, <1>10, <1>16 DEF DataInv, WritebackInv, Moving
<1>19. ReadInv'
  <2>1. io'[u].op # "READ" /\ io'[u].op # "ANSWERED"
    BY <1>6
  <2>2. \A w \in User, j \in Key :
          w # u => /\ io[w].op = "READ" /\ io[w].key = j => file'[j] \in seen'[w]
                   /\ reads_origin(w, j) /\ j \notin raced =>
                        /\ hdd[j] \in seen'[w]
                        /\ pc = "WRITEBACK" /\ mg = "loaded" /\ key[cblock] = j => dma \in seen'[w]
                   /\ io[w].op = "ANSWERED" /\ io[w].key = j /\ j \notin raced => io[w].val \in seen'[w]
    BY <1>2 DEF DataInv, ReadInv
  <2> QED
    BY <1>0, <1>4, <1>5, <2>1, <2>2 DEF ReadInv, reads_origin
<1> QED
  BY <1>7, <1>8, <1>12, <1>13, <1>14, <1>15, <1>17, <1>18, <1>19 DEF DataInv

LEMMA WriteCacheKeepsData ==
  ASSUME TableInv, DataInv, NEW u \in User, write_cache_data(u) \/ write_cache_unnoticed(u)
  PROVE  DataInv'
<1>1. PICK e \in Entry, x \in Val \cup {Blank}, K \in SUBSET Key :
        /\ io[u].op = "WRITE" /\ io[u].at = e
        /\ ssd' = [ssd EXCEPT ![e] = x] /\ written(io[u].key, io[u].val) /\ races(K)
        /\ \/ io[u].key \in K /\ (e \in alloc => key[e] \in K)
           \/ x = io[u].val /\ holds(e, io[u].key)
        /\ fresh' = fresh \ {e} /\ io' = [io EXCEPT ![u].op = "WRITTEN", ![u].val = Blank]
        /\ UNCHANGED <<mappingVars, mg, hdd, dma, trims>>
  <2>1. io[u].op = "WRITE"
    BY DEF write_cache_data, write_cache_unnoticed
  <2>2. io[u].key \in Key /\ io[u].val \in Val
    BY <2>1 DEF DataInv, IoInv
  <2>3. \A e \in Entry : keys_in(e) \subseteq Key /\ (e \in alloc => key[e] \in keys_in(e))
    BY DEF keys_in, TableInv
  <2>4. CASE write_cache_data(u)
    <3>1. PICK e \in Entry :
            /\ io[u].op = "WRITE" /\ io[u].at = e
            /\ ssd' = [ssd EXCEPT ![e] = io[u].val] /\ written(io[u].key, io[u].val)
            /\ races(IF holds(e, io[u].key) THEN {} ELSE {io[u].key} \cup keys_in(e))
            /\ fresh' = fresh \ {e} /\ io' = [io EXCEPT ![u].op = "WRITTEN", ![u].val = Blank]
            /\ UNCHANGED <<mappingVars, mg, hdd, dma, trims>>
      BY <2>4 DEF write_cache_data
    <3>2. CASE holds(e, io[u].key)
      <4>1. races({})
        BY <3>1, <3>2
      <4> QED
        BY <2>2, <3>1, <3>2, <4>1
    <3>3. CASE ~holds(e, io[u].key)
      <4>1. races({io[u].key} \cup keys_in(e)) /\ {io[u].key} \cup keys_in(e) \in SUBSET Key
        BY <2>2, <2>3, <3>1, <3>3
      <4> QED
        BY <2>2, <2>3, <3>1, <4>1
    <3> QED
      BY <3>2, <3>3
  <2>5. CASE write_cache_unnoticed(u)
    <3>1. PICK e \in Entry :
            /\ io[u].op = "WRITE" /\ io[u].at = e
            /\ \E x \in unwritten(ssd[e]) : ssd' = [ssd EXCEPT ![e] = x]
            /\ written(io[u].key, io[u].val) /\ races({io[u].key} \cup keys_in(e))
            /\ fresh' = fresh \ {e} /\ io' = [io EXCEPT ![u].op = "WRITTEN", ![u].val = Blank]
            /\ UNCHANGED <<mappingVars, mg, hdd, dma, trims>>
      BY <2>5 DEF write_cache_unnoticed
    <3>2. PICK x \in Val \cup {Blank} : ssd' = [ssd EXCEPT ![e] = x]
      BY <3>1 DEF unwritten, DataInv, SsdTypeOK
    <3>3. {io[u].key} \cup keys_in(e) \in SUBSET Key
      BY <2>2, <2>3
    <3> QED
      BY <2>3, <3>1, <3>2, <3>3
  <2> QED
    BY <2>4, <2>5
<1> QED
  BY <1>1, CacheWriteKeepsData

\* A DISCARD: what the HDD has is the block's content from now on, and the other
\* blocks keep theirs.
LEMMA DiscardKeepsData ==
  ASSUME TableInv, DataInv, NEW u \in User, NEW k \in Key, discard_pio(u, k)
  PROVE  DataInv'
<1>1. PICK e \in h_lookup(k) : h_remove(e) /\ alloc' = alloc \ {e}
  BY DEF discard_pio, remove_mapping, free_entry
<1>2. /\ UNCHANGED <<io, mg, hdd, ssd, dma, trims, raced>>
      /\ UNCHANGED <<pc, cblock, work, dirty, key, writing>>
      /\ written(k, hdd[k]) /\ fresh' = fresh \cap alloc'
  BY DEF discard_pio, remove_mapping, dataVars
<1>3. e \in hashed /\ key[e] = k /\ \A f \in alloc : key[f] = k => f = e
  BY <1>1 DEF h_lookup, TableInv, OneBlockPerKey
<1>4. hashed' = hashed \ {e}
  BY <1>1, <1>3 DEF h_remove, h_lookup, TableInv
<1>5. hdd[k] \in Val \cup {Blank}
  BY DEF DataInv, SsdTypeOK
<1>6. /\ file' \in [Key -> Val \cup {Blank}] /\ seen' \in [User -> SUBSET (Val \cup {Blank})]
      /\ file'[k] = hdd[k] /\ \A j \in Key : j # k => file'[j] = file[j]
      /\ \A w \in User : seen[w] \subseteq seen'[w]
      /\ \A w \in User : io[w].op = "READ" /\ io[w].key = k => hdd[k] \in seen'[w]
  BY <1>2, <1>5, WrittenIsSeen
<1>7. SsdTypeOK' /\ IoInv' /\ MgInv'
  BY <1>2, <1>6 DEF DataInv, SsdTypeOK, IoInv, MgInv
<1>8. \A f : (ahead(f)' <=> ahead(f)) /\ (writing_back(f)' <=> writing_back(f))
  BY <1>2 DEF ahead, unmarked, writing_back
<1>9. \A f \in hashed' : f \in hashed /\ f \in alloc' /\ key[f] \in Key /\ key[f] # k
  BY <1>1, <1>3, <1>4 DEF TableInv
<1>10. fresh' \subseteq hashed'
  BY <1>1, <1>2, <1>4 DEF DataInv, FreshInv
<1>11. FreshInv'
  BY <1>2, <1>4, <1>8, <1>10 DEF DataInv, FreshInv
<1>12. HitInv' /\ SavedInv'
  BY <1>2, <1>6, <1>8, <1>9 DEF DataInv, HitInv, SavedInv
<1>13. \A j \in Key : j # k /\ h_lookup(j)' = {} => h_lookup(j) = {}
  BY <1>2, <1>3, <1>4 DEF h_lookup
<1>14. MissInv'
  BY <1>2, <1>6, <1>13 DEF DataInv, MissInv
<1>15. PromotionInv' /\ WritebackInv'
  BY <1>2, <1>8 DEF DataInv, PromotionInv, WritebackInv
<1>16. ReadInv'
  BY <1>2, <1>6 DEF DataInv, ReadInv, reads_origin
<1> QED
  BY <1>7, <1>11, <1>12, <1>14, <1>15, <1>16 DEF DataInv

-----------------------------------------------------------------------------
(* A lookup, and the block that a whole-block write takes at once. *)

\* What the two lookups do to the table: they insert a free block, or none.
LEMMA LookupShape ==
  ASSUME MapInv, NEW u \in User, NEW k \in Key, NEW op \in Ops,
         IF op = "OVERWRITE" THEN lookup_mapping_with_insert(u, k) ELSE lookup_mapping(u, k, op)
  PROVE  \E ins \in SUBSET (Entry \ alloc), x \in Ref :
           /\ alloc' = alloc \cup ins /\ hashed' = hashed \cup ins /\ dirty' = dirty \cup ins
           /\ \A e \in alloc : key'[e] = key[e]
           /\ UNCHANGED <<pc, cblock, work>>
           /\ writing' = [writing EXCEPT ![u] = x] /\ (op = "READ" => x = INDEXER_NULL)
<1>0. alloc \subseteq Entry /\ hashed \subseteq Entry /\ writing \in [User -> Ref]
      /\ key \in [Entry -> Key \cup {NoKey}]
  BY MapInvTable DEF TableInv
<1>1. ASSUME hit(u, k, op)
      PROVE  \E x \in Ref :
               /\ UNCHANGED <<alloc, hashed, dirty, key, pc, cblock, work>>
               /\ writing' = [writing EXCEPT ![u] = x] /\ (op = "READ" => x = INDEXER_NULL)
  <2>1. PICK e \in h_lookup(k) :
          /\ writing' = [writing EXCEPT ![u] = IF op = "READ" THEN INDEXER_NULL ELSE e]
          /\ UNCHANGED <<alloc, hashed, dirty, key, pc, cblock, work>>
    BY <1>1 DEF hit
  <2>2. e \in Entry
    BY <1>0 DEF h_lookup
  <2> QED
    BY <2>1, <2>2 DEF Ref
<1>2. ASSUME idle(u), UNCHANGED <<alloc, hashed, dirty, key, pc, cblock, work, writing>>
      PROVE  \E x \in Ref :
               /\ UNCHANGED <<alloc, hashed, dirty, key, pc, cblock, work>>
               /\ writing' = [writing EXCEPT ![u] = x] /\ (op = "READ" => x = INDEXER_NULL)
  BY <1>0, <1>2 DEF idle, Ref
<1>3. idle(u) /\ miss(k) => UNCHANGED <<alloc, hashed, dirty, key, pc, cblock, work, writing>>
  BY DEF miss, insert_work
<1>4. refused => UNCHANGED <<alloc, hashed, dirty, key, pc, cblock, work, writing>>
  BY DEF refused, vars
<1>5. ASSUME op # "READ", ~allocator_empty, insert_dirty(u, k)
      PROVE  \E e \in Entry \ alloc :
               /\ alloc' = alloc \cup {e} /\ hashed' = hashed \cup {e} /\ dirty' = dirty \cup {e}
               /\ \A f \in alloc : key'[f] = key[f]
               /\ UNCHANGED <<pc, cblock, work>>
               /\ writing' = [writing EXCEPT ![u] = e]
  <2>1. PICK e \in Entry :
          /\ e = q.head["free"] /\ alloc' = alloc \cup {e} /\ dirty' = dirty \cup {e}
          /\ key' = [key EXCEPT ![e] = k] /\ hashed' = hashed \cup {e}
          /\ writing' = [writing EXCEPT ![u] = e] /\ UNCHANGED <<pc, cblock, work>>
    BY <1>5 DEF insert_dirty, alloc_entry
  <2>2. e \in Entry \ alloc
    BY <1>5, <2>1, PopLists DEF MapInv
  <2> QED
    BY <1>0, <2>1, <2>2
<1>6. CASE op = "OVERWRITE"
  <2>1. /\ idle(u)
        /\ \/ hit(u, k, op)
           \/ refused
           \/ miss(k)
           \/ ~allocator_empty /\ insert_dirty(u, k)
    BY <1>6 DEF lookup_mapping_with_insert
  <2>2. CASE ~allocator_empty /\ insert_dirty(u, k)
    BY <1>5, <1>6, <2>2 DEF Ref
  <2>3. CASE ~(~allocator_empty /\ insert_dirty(u, k))
    <3>1. \E x \in Ref :
               /\ UNCHANGED <<alloc, hashed, dirty, key, pc, cblock, work>>
               /\ writing' = [writing EXCEPT ![u] = x] /\ (op = "READ" => x = INDEXER_NULL)
      BY <1>1, <1>2, <1>3, <1>4, <2>1, <2>3
    <3>2. {} \in SUBSET (Entry \ alloc) /\ alloc = alloc \cup {} /\ hashed = hashed \cup {}
          /\ dirty = dirty \cup {}
      OBVIOUS
    <3> QED
      BY <3>1, <3>2
  <2> QED
    BY <2>2, <2>3
<1>7. CASE op # "OVERWRITE"
  <2>1. \E x \in Ref :
               /\ UNCHANGED <<alloc, hashed, dirty, key, pc, cblock, work>>
               /\ writing' = [writing EXCEPT ![u] = x] /\ (op = "READ" => x = INDEXER_NULL)
    BY <1>1, <1>2, <1>3, <1>7 DEF lookup_mapping
  <2>2. {} \in SUBSET (Entry \ alloc) /\ alloc = alloc \cup {} /\ hashed = hashed \cup {}
        /\ dirty = dirty \cup {}
    OBVIOUS
  <2> QED
    BY <2>1, <2>2
<1> QED
  BY <1>6, <1>7

LEMMA MapPioKeepsData ==
  ASSUME MapInv, TableInv, DataInv, NEW u \in User, NEW op \in Ops \ {"DISCARD"}, NEW k \in Key,
         NEW v \in Val, map_pio(u, op, k, v)
  PROVE  DataInv'
<1> DEFINE r == IF op = "READ" THEN [op |-> "READ", key |-> k, val |-> Blank, at |-> cached(k)]
                ELSE [op |-> "WRITE", key |-> k, val |-> v, at |-> writing'[u]]
<1>1. PICK ins \in SUBSET (Entry \ alloc), x \in Ref :
        /\ alloc' = alloc \cup ins /\ hashed' = hashed \cup ins /\ dirty' = dirty \cup ins
        /\ \A e \in alloc : key'[e] = key[e]
        /\ UNCHANGED <<pc, cblock, work>>
        /\ writing' = [writing EXCEPT ![u] = x] /\ (op = "READ" => x = INDEXER_NULL)
  BY LookupShape DEF map_pio
<1>2. /\ io[u] = NoIo /\ io' = [io EXCEPT ![u] = r]
      /\ seen' = [seen EXCEPT ![u] = IF op = "READ" THEN {file[k]} ELSE {}]
      /\ fresh' = fresh \cup ins
      /\ UNCHANGED <<mg, hdd, ssd, dma, trims, file, raced>>
  <2>1. alloc' \ alloc = ins
    BY <1>1
  <2> QED
    BY <2>1 DEF map_pio, dataVars
<1>3. /\ io'[u] = r /\ writing'[u] = x /\ seen'[u] = IF op = "READ" THEN {file[k]} ELSE {}
      /\ \A w \in User : w # u => io'[w] = io[w] /\ writing'[w] = writing[w] /\ seen'[w] = seen[w]
  BY <1>1, <1>2 DEF DataInv, SsdTypeOK, TableInv
<1>4. /\ r.key = k
      /\ op = "READ" => r.op = "READ" /\ r.at = cached(k)
      /\ op # "READ" => r.op = "WRITE" /\ r.val = v /\ r.at = x
  BY <1>3
<1>5. \/ h_lookup(k) = {} /\ cached(k) = INDEXER_NULL
      \/ cached(k) \in hashed /\ key[cached(k)] = k /\ h_lookup(k) = {cached(k)}
  BY LookupFindsOne DEF TableInv
<1>6. r \in Request
  <2>1. cached(k) \in Entry \cup {INDEXER_NULL}
    BY <1>5 DEF TableInv
  <2>2. x \in Entry \cup {INDEXER_NULL}
    BY DEF Ref
  <2> QED
    BY <1>3, <2>1, <2>2 DEF Request
<1> HIDE DEF r
<1>7. SsdTypeOK'
  <2>1. io' \in [User -> Request]
    BY <1>2, <1>6 DEF DataInv, SsdTypeOK
  <2>2. seen' \in [User -> SUBSET (Val \cup {Blank})]
    <3>1. file[k] \in Val \cup {Blank} /\ seen \in [User -> SUBSET (Val \cup {Blank})]
      BY DEF DataInv, SsdTypeOK
    <3>2. (IF op = "READ" THEN {file[k]} ELSE {}) \in SUBSET (Val \cup {Blank})
      BY <3>1
    <3> QED
      BY <1>2, <3>1, <3>2
  <2>3. fresh' \subseteq Entry
    BY <1>2 DEF DataInv, SsdTypeOK
  <2> QED
    BY <1>2, <2>1, <2>2, <2>3 DEF DataInv, SsdTypeOK
<1>8. io[u].op = "none"
  BY <1>2 DEF NoIo
<1>9. IoInv' /\ MgInv'
  BY <1>1, <1>2, <1>3, <1>4 DEF DataInv, IoInv, MgInv
<1>10. \A j : h_lookup(j) \subseteq h_lookup(j)'
  BY <1>1 DEF h_lookup, TableInv
<1>11. /\ \A e \in alloc : ahead(e) => ahead(e)'
       /\ \A e \in ins : ahead(e)'
       /\ \A e : writing_back(e)' <=> writing_back(e)
  BY <1>1, <1>3, <1>8 DEF ahead, unmarked, writing_back
<1>12. hashed \subseteq alloc /\ \A e \in hashed : key'[e] = key[e]
  BY <1>1 DEF TableInv
<1>13. FreshInv' /\ HitInv' /\ SavedInv'
  BY <1>1, <1>2, <1>11, <1>12 DEF DataInv, FreshInv, HitInv, SavedInv
<1>14. MissInv'
  BY <1>2, <1>10 DEF DataInv, MissInv
<1>15. pc \in Moving => cblock \in alloc /\ (pc = "WRITEBACK" => cblock \in hashed)
  BY DEF TableInv
<1>16. PromotionInv' /\ WritebackInv'
  BY <1>1, <1>2, <1>11, <1>15 DEF DataInv, PromotionInv, WritebackInv, Moving
<1>17. ReadInv'
  <2> SUFFICES ASSUME NEW w \in User, NEW j \in Key
               PROVE  /\ io'[w].op = "READ" /\ io'[w].key = j => file[j] \in seen'[w]
                      /\ reads_origin(w, j)' /\ j \notin raced =>
                           /\ hdd[j] \in seen'[w]
                           /\ pc = "WRITEBACK" /\ mg = "loaded" /\ key'[cblock] = j => dma \in seen'[w]
                      /\ io'[w].op = "ANSWERED" /\ io'[w].key = j /\ j \notin raced =>
                           io'[w].val \in seen'[w]
    BY <1>1, <1>2 DEF ReadInv
  <2>1. CASE w # u
    BY <1>1, <1>2, <1>3, <1>15, <2>1 DEF DataInv, ReadInv, reads_origin, Moving
  <2>2. CASE w = u
    <3>1. CASE op # "READ"
      BY <1>3, <1>4, <2>2, <3>1 DEF reads_origin
    <3>2. CASE op = "READ"
      <4>1. io'[u].op = "READ" /\ io'[u].key = k /\ io'[u].at = cached(k) /\ seen'[u] = {file[k]}
        BY <1>3, <1>4, <3>2
      <4>2. cached(k) = INDEXER_NULL => h_lookup(k) = {}
        BY <1>5, NullIsNoEntry DEF TableInv
      <4>3. cached(k) = INDEXER_NULL /\ k \notin raced => hdd[k] = file[k]
        BY <4>2 DEF DataInv, MissInv
      <4>4. cached(k) = INDEXER_NULL => ~(pc = "WRITEBACK" /\ key'[cblock] = k)
        BY <1>1, <1>15, <4>2 DEF h_lookup, Moving
      <4> QED
        BY <2>2, <4>1, <4>3, <4>4 DEF reads_origin
    <3> QED
      BY <3>1, <3>2
  <2> QED
    BY <2>1, <2>2
<1> QED
  BY <1>7, <1>9, <1>13, <1>14, <1>16, <1>17 DEF DataInv

-----------------------------------------------------------------------------
(* All steps. *)

\* A step of the data is a step of the table, or leaves it alone: mg_start
\* returns what Mapping.tla lets it return.
LEMMA UserIoIsTableStep ==
  ASSUME followed, NEW u \in User, UserIo(u)
  PROVE  [Next]_vars /\ UNCHANGED <<mg, pc>>
<1>1. ASSUME NEW op \in Ops \ {"DISCARD"}, NEW k \in Key, NEW v \in Val, map_pio(u, op, k, v)
      PROVE  UserStep(u) /\ UNCHANGED <<mg, pc>>
  <2>1. CASE op = "OVERWRITE"
    BY <1>1, <2>1 DEF map_pio, UserStep, lookup_mapping_with_insert, hit, miss, refused, vars, insert_dirty
  <2>2. CASE op # "OVERWRITE"
    BY <1>1, <2>2 DEF map_pio, UserStep, lookup_mapping, hit, miss
  <2> QED
    BY <2>1, <2>2
<1>2. ASSUME \/ read(u) \/ read_end(u) \/ read_misleads(u)
             \/ write_origin(u) \/ write_origin_unnoticed(u) \/ write_origin_fails(u)
             \/ write_cache_data(u) \/ write_cache_unnoticed(u)
      PROVE  UNCHANGED vars /\ UNCHANGED mg
  BY <1>2 DEF read, read_end, read_misleads, write_origin, write_origin_unnoticed,
     write_origin_fails, write_cache_data, write_cache_unnoticed, mappingVars
<1>3. ASSUME write_cache_end(u) \/ write_cache_fails(u)
      PROVE  UserStep(u) /\ UNCHANGED <<mg, pc>>
  <2>1. (write_cache(u, TRUE) \/ write_cache(u, FALSE)) /\ UNCHANGED mg
    BY <1>3 DEF write_cache_end, write_cache_fails
  <2> QED
    BY <2>1 DEF UserStep, write_cache
<1>4. ASSUME NEW k \in Key, discard_pio(u, k)
      PROVE  UserStep(u) /\ UNCHANGED <<mg, pc>>
  BY <1>4 DEF discard_pio, UserStep, remove_mapping
<1> QED
  BY <1>1, <1>2, <1>3, <1>4 DEF UserIo, Next, vars

LEMMA WorkerIsTableStep ==
  ASSUME MgInv, followed, MigrationWorker
  PROVE  [Next]_vars /\ MgInv'
<1>1. ASSUME decide PROVE do_migration_work /\ MgInv'
  <2>1. /\ \/ peak \/ promotion_free_to_clean \/ no_promotion
           \/ demotion_clean_to_free \/ no_demotion \/ writeback_dirty_to_clean \/ remove
        /\ UNCHANGED mg
    BY <1>1 DEF decide
  <2>2. do_migration_work
    BY <2>1 DEF do_migration_work
  <2>3. pc \notin Moving
    BY <2>1 DEF peak, promotion_free_to_clean, no_promotion, demotion_clean_to_free, no_demotion,
       writeback_dirty_to_clean, remove, goto, Moving
  <2> QED
    BY <2>1, <2>2, <2>3 DEF MgInv
<1>2. ASSUME NEW type \in Moving, NEW from, NEW to, move(type, from, to),
             type = "DEMOTION" => to \in {"begin", "done"}
      PROVE  UNCHANGED vars /\ MgInv'
  BY <1>2 DEF move, mappingVars, vars, MgInv
<1>3. ASSUME \/ read_hdd \/ write_ssd \/ trim_spdk \/ read_ssd \/ write_hdd
             \/ fails \/ fails_unnoticed
      PROVE  UNCHANGED vars /\ MgInv'
  <2>1. CASE fails
    BY <1>2, <2>1 DEF fails, Moving
  <2>2. CASE fails_unnoticed
    BY <1>2, <2>2 DEF fails_unnoticed, Moving
  <2>3. CASE ~fails /\ ~fails_unnoticed
    BY <1>2, <1>3, <2>3 DEF read_hdd, write_ssd, trim_spdk, read_ssd, write_hdd, Moving
  <2> QED
    BY <2>1, <2>2, <2>3
<1>4. ASSUME promoted_block \/ demoted_block \/ written_back_block
      PROVE  do_migration_work /\ MgInv'
  <2>1. mg' = "begin"
    BY <1>4 DEF promoted_block, demoted_block, written_back_block, complete
  <2>2. pc' = "remove"
    BY <1>4 DEF promoted_block, demoted_block, written_back_block,
       promotion_complete, demotion_complete, writeback_complete, goto
  <2>3. demoted_block => demotion_complete(TRUE)
    <3>1. demoted_block => pc = "DEMOTION" /\ mg \in {"done", "failed"} /\ demotion_complete(mg = "done")
      BY DEF demoted_block, returned
    <3>2. demoted_block => (mg = "done") = TRUE
      BY <3>1 DEF MgInv
    <3> QED
      BY <3>1, <3>2
  <2>4. promoted_block => \E success \in BOOLEAN : promotion_complete(success)
    <3>1. (mg = "done") \in BOOLEAN
      OBVIOUS
    <3> QED
      BY <3>1 DEF promoted_block
  <2>5. written_back_block => \E success \in BOOLEAN : writeback_complete(success)
    <3>1. (mg = "done") \in BOOLEAN
      OBVIOUS
    <3> QED
      BY <3>1 DEF written_back_block
  <2>6. mg_start("DEMOTION") = {TRUE} /\ mg_start("PROMOTION") = BOOLEAN /\ mg_start("WRITEBACK") = BOOLEAN
    BY DEF mg_start
  <2>7. do_migration_work
    BY <1>4, <2>3, <2>4, <2>5, <2>6 DEF do_migration_work
  <2> QED
    BY <2>1, <2>2, <2>7 DEF MgInv, Moving
<1> QED
  BY <1>1, <1>3, <1>4 DEF MigrationWorker, Worker, Next

LEMMA StepIsTableStep ==
  ASSUME MgInv, [SsdNext]_ssdVars
  PROVE  [Next]_vars /\ MgInv'
<1>1. CASE followed /\ MigrationWorker
  BY <1>1, WorkerIsTableStep
<1>2. ASSUME followed, NEW u \in User, UserIo(u) PROVE [Next]_vars /\ MgInv'
  BY <1>2, UserIoIsTableStep DEF MgInv
<1>3. ASSUME NEW b \in Entry, trimmed(b) PROVE [Next]_vars /\ MgInv'
  BY <1>3 DEF trimmed, mappingVars, vars, MgInv
<1>4. CASE UNCHANGED ssdVars
  BY <1>4 DEF ssdVars, vars, MgInv
<1> QED
  BY <1>1, <1>2, <1>3, <1>4 DEF SsdNext

LEMMA DecideKeepsData ==
  ASSUME MapInv, TableInv, TableInv', DataInv, decide
  PROVE  DataInv'
<1>0. UNCHANGED <<io, mg, dataVars, history>>
  BY DEF decide
<1>1. CASE peak \/ no_promotion \/ no_demotion \/ remove
  <2>1. pc \notin Moving /\ UNCHANGED <<hashed, key, dirty, writing>>
    BY <1>1 DEF peak, no_promotion, no_demotion, remove, goto, tableVars, Moving
  <2> QED
    BY <1>0, <2>1, DecisionKeepsData
<1>2. CASE promotion_free_to_clean
  <2>1. cblock' \notin alloc /\ key' = [key EXCEPT ![cblock'] = work]
    BY <1>2, PromotionKeepsLists DEF MapInv
  <2>2. pc \notin Moving /\ UNCHANGED <<hashed, writing>> /\ dirty' = dirty \ {cblock'}
    BY <1>2 DEF promotion_free_to_clean, goto, alloc_entry, Moving
  <2>3. \A e \in hashed : key'[e] = key[e] /\ (e \in dirty => e \in dirty')
    BY <2>1, <2>2 DEF TableInv
  <2> QED
    BY <1>0, <2>2, <2>3, DecisionKeepsData
<1>3. CASE demotion_clean_to_free
  <2>1. pc \notin Moving /\ UNCHANGED <<hashed, key, dirty, writing>>
    BY <1>3 DEF demotion_clean_to_free, goto, Moving
  <2> QED
    BY <1>0, <2>1, DecisionKeepsData
<1>4. CASE writeback_dirty_to_clean
  <2>1. pc \notin Moving /\ UNCHANGED <<hashed, key, writing>>
        /\ (dirty' = dirty \/ (dirty' = dirty \ {cblock'} /\ pc' = "WRITEBACK"))
    BY <1>4 DEF writeback_dirty_to_clean, Moving
  <2> QED
    BY <1>0, <2>1, DecisionKeepsData
<1> QED
  BY <1>1, <1>2, <1>3, <1>4 DEF decide

LEMMA WorkerKeepsData ==
  ASSUME MapInv, TableInv, TableInv', DataInv, MigrationWorker
  PROVE  DataInv'
<1>1. CASE decide
  BY <1>1, DecideKeepsData
<1>2. CASE promoted_block
  BY <1>2, PromotedKeepsData
<1>3. CASE demoted_block
  BY <1>3, DemotedKeepsData
<1>4. CASE written_back_block
  BY <1>4, WrittenBackKeepsData
<1> QED
  BY <1>1, <1>2, <1>3, <1>4, ReadHddKeepsData, WriteSsdKeepsData, TrimKeepsData,
     ReadSsdKeepsData, WriteHddKeepsData, FailureKeepsData, UnnoticedKeepsData DEF MigrationWorker

LEMMA UserKeepsData ==
  ASSUME MapInv, TableInv, DataInv, NEW u \in User, UserIo(u)
  PROVE  DataInv'
<1>1. ASSUME NEW op \in Ops \ {"DISCARD"}, NEW k \in Key, NEW v \in Val, map_pio(u, op, k, v)
      PROVE  DataInv'
  BY <1>1, MapPioKeepsData
<1>2. ASSUME NEW k \in Key, discard_pio(u, k) PROVE DataInv'
  BY <1>2, DiscardKeepsData
<1> QED
  BY <1>1, <1>2, ReadKeepsData, ReadEndKeepsData, WriteOriginKeepsData, WriteCacheKeepsData,
     WriteEndKeepsData, WriteFailureKeepsData DEF UserIo

\* The worker frees no block under itself.
LEMMA WorkerIsFollowed ==
  ASSUME MigrationWorker
  PROVE  discarded' = discarded
BY DEF MigrationWorker, decide, move, fails, fails_unnoticed, read_hdd, write_ssd, trim_spdk, read_ssd,
   write_hdd, promoted_block, demoted_block, written_back_block, peak, promotion_free_to_clean,
   no_promotion, demotion_clean_to_free, no_demotion, writeback_dirty_to_clean, remove,
   promotion_complete, demotion_complete, writeback_complete, mappingVars, vars

LEMMA SsdInvIsInductive == SsdInv /\ [SsdNext]_ssdVars => SsdInv'
<1> SUFFICES ASSUME MappingInv, DataInv, [SsdNext]_ssdVars PROVE MappingInv' /\ DataInv'
  BY DEF SsdInv
<1>1. MappingInv'
  BY StepIsTableStep, MappingInvIsInductive DEF DataInv
<1>2. followed => MapInv /\ TableInv
  BY MapInvTable DEF MappingInv
<1>3. followed' => TableInv'
  <2>1. MapInv' => TableInv'
    BY MapInvTable, PTL
  <2> QED
    BY <1>1, <2>1 DEF MappingInv
<1>4. ASSUME followed, MigrationWorker PROVE DataInv'
  <2>1. followed'
    BY <1>4, WorkerIsFollowed DEF followed
  <2> QED
    BY <1>2, <1>3, <1>4, <2>1, WorkerKeepsData
<1>5. ASSUME followed, NEW u \in User, UserIo(u) PROVE DataInv'
  BY <1>2, <1>5, UserKeepsData
<1>6. ASSUME followed, NEW b \in Entry, trimmed(b) PROVE DataInv'
  BY <1>2, <1>6, TrimmedKeepsData
<1>7. ASSUME UNCHANGED ssdVars PROVE DataInv'
  <2>0. /\ UNCHANGED <<io, mg, hdd, ssd, dma, trims, file, seen, fresh, raced>>
        /\ UNCHANGED <<pc, cblock, work, hashed, alloc, dirty, key, writing>>
    BY <1>7 DEF ssdVars, vars, dataVars, history
  <2>1. SsdTypeOK' /\ IoInv' /\ MgInv'
    BY <2>0 DEF DataInv, SsdTypeOK, IoInv, MgInv
  <2>2. \A k : h_lookup(k)' = h_lookup(k)
    BY <2>0 DEF h_lookup
  <2>3. \A e : (ahead(e)' <=> ahead(e)) /\ (writing_back(e)' <=> writing_back(e))
    BY <2>0 DEF ahead, unmarked, writing_back
  <2>4. FreshInv' /\ HitInv' /\ MissInv' /\ SavedInv'
    BY <2>0, <2>2, <2>3 DEF DataInv, FreshInv, HitInv, MissInv, SavedInv
  <2>5. PromotionInv' /\ WritebackInv' /\ ReadInv'
    BY <2>0, <2>3 DEF DataInv, PromotionInv, WritebackInv, ReadInv, reads_origin
  <2> QED
    BY <2>1, <2>4, <2>5 DEF DataInv
<1> QED
  BY <1>1, <1>4, <1>5, <1>6, <1>7 DEF SsdNext

LEMMA InitSsdInv == SsdInit => SsdInv
<1> SUFFICES ASSUME SsdInit PROVE MappingInv /\ DataInv
  BY DEF SsdInv
<1>1. init_mapping /\ MappingInv
  BY InitMappingInv DEF SsdInit
<1>2. /\ pc = "peak" /\ hashed = {} /\ writing = [u \in User |-> INDEXER_NULL]
  BY <1>1 DEF init_mapping
<1>3. /\ hdd \in [Key -> Val] /\ ssd = [e \in Entry |-> Blank] /\ io = [u \in User |-> NoIo]
      /\ mg = "begin" /\ dma = Blank /\ trims = {} /\ file = hdd /\ seen = [u \in User |-> {}]
      /\ fresh = {} /\ raced = {}
  BY DEF SsdInit
<1>4. SsdTypeOK
  <2>1. NoIo \in Request
    BY DEF NoIo, Request
  <2> QED
    BY <1>3, <2>1 DEF SsdTypeOK
<1>5. \A u \in User : io[u].op = "none" /\ io[u] = NoIo
  BY <1>3 DEF NoIo
<1>6. IoInv /\ MgInv /\ ReadInv
  BY <1>2, <1>3, <1>5 DEF IoInv, MgInv, ReadInv, reads_origin, Moving
<1>7. FreshInv /\ HitInv /\ MissInv /\ SavedInv /\ PromotionInv /\ WritebackInv
  BY <1>2, <1>3 DEF FreshInv, HitInv, MissInv, SavedInv, PromotionInv, WritebackInv
<1> QED
  BY <1>1, <1>4, <1>6, <1>7 DEF DataInv

LEMMA SsdInvIsKept == SsdSpec => []SsdInv
<1>1. SsdInit => SsdInv
  BY InitSsdInv
<1>2. SsdInv /\ [SsdNext]_ssdVars => SsdInv'
  BY SsdInvIsInductive
<1> QED
  BY <1>1, <1>2, PTL DEF SsdSpec

-----------------------------------------------------------------------------
\* The requests and migrations with their data do to the table what Mapping.tla
\* says users and worker do: what is proved of the table holds of them, too.
THEOREM SsdCacheImplementsMapping == SsdSpec => Spec
<1>1. SsdInit => init_mapping /\ MgInv
  BY DEF SsdInit, MgInv, init_mapping, Moving
<1>2. MgInv /\ [SsdNext]_ssdVars => [Next]_vars /\ MgInv'
  BY StepIsTableStep
<1> QED
  BY <1>1, <1>2, PTL DEF SsdSpec, Spec

\* The requests, the data and what the migration has read keep their types: no
\* step moves data to or from a block that does not exist.
THEOREM DataIsTyped == SsdSpec => []SsdTypeOK
<1>1. SsdInv => SsdTypeOK
  BY DEF SsdInv, DataInv
<1> QED
  BY <1>1, SsdInvIsKept, PTL

\* For every number of blocks and users: the last completed write of a block is
\* what the next read of it finds, in the SSD or on the HDD, whatever migrations
\* move it in between, unless one of the causes named in SsdCache.tla has hit it,
\* or it is in a block taken for a whole-block write that is still to fill it.
THEOREM LastWriteSurvivesMigrations == SsdSpec => []LastWriteIsKept
<1>1. ASSUME SsdInv, NEW k \in Key \ raced PROVE cached(k) \in fresh \/ content(k) = file[k]
  <2>1. /\ DataInv /\ OneBlockPerKey /\ hashed \subseteq alloc /\ hashed \subseteq Entry
    <3>1. CASE followed
      BY <1>1, <3>1, MapInvTable DEF SsdInv, MappingInv, TableInv
    <3>2. CASE ~followed
      BY <1>1, <3>2 DEF SsdInv, MappingInv, followed, TypeOK
    <3> QED
      BY <3>1, <3>2
  <2>2. \/ h_lookup(k) = {} /\ cached(k) = INDEXER_NULL
        \/ cached(k) \in hashed /\ key[cached(k)] = k
    BY <2>1, LookupFindsOne
  <2>3. CASE h_lookup(k) = {} /\ cached(k) = INDEXER_NULL
    BY <2>1, <2>3 DEF DataInv, MissInv, content
  <2>4. CASE cached(k) \in hashed /\ key[cached(k)] = k
    <3>1. cached(k) # INDEXER_NULL
      BY <2>1, <2>4, NullIsNoEntry
    <3> QED
      BY <2>1, <2>4, <3>1 DEF DataInv, HitInv, content
  <2> QED
    BY <2>2, <2>3, <2>4
<1>2. SsdInv => LastWriteIsKept
  BY <1>1 DEF LastWriteIsKept
<1> QED
  BY <1>2, SsdInvIsKept, PTL

\* A block that is clean, at rest and not being written has the data of the HDD,
\* so that a demotion may give it up without writing it (mapping.c:419).
THEOREM CleanBlocksAreSaved == SsdSpec => []CleanIsSaved
<1>1. ASSUME SsdInv, NEW e \in hashed
      PROVE  key[e] \in raced \/ busy(e) \/ (pc = "WRITEBACK" /\ cblock = e) \/ ssd[e] = hdd[key[e]]
  <2>1. ahead(e) => busy(e)
    <3>1. \A u \in User : unmarked(u, e) => writing[u] = e /\ io[u].key = key[e]
      BY <1>1 DEF unmarked, SsdInv, DataInv, IoInv
    <3> QED
      BY <3>1 DEF ahead, busy
  <2> QED
    BY <1>1, <2>1 DEF SsdInv, DataInv, SavedInv, writing_back
<1>2. SsdInv => CleanIsSaved
  BY <1>1 DEF CleanIsSaved
<1> QED
  BY <1>2, SsdInvIsKept, PTL

\* What a read returns, which moves its data after the lookup has released the
\* lock, is a content that the block had since the lookup, unless the key has
\* raced, or the buffer got another content than the block's (read_misleads).
THEOREM ReadsReturnWrites == SsdSpec => []ReadsSeeWrites
<1>1. ASSUME SsdInv, NEW u \in User, io[u].op = "ANSWERED", io[u].key \notin raced
      PROVE  io[u].val \in seen[u]
  <2>1. io[u].key \in Key /\ ReadInv
    BY <1>1 DEF SsdInv, DataInv, IoInv
  <2> QED
    BY <1>1, <2>1 DEF ReadInv
<1>2. SsdInv => ReadsSeeWrites
  BY <1>1 DEF ReadsSeeWrites
<1> QED
  BY <1>2, SsdInvIsKept, PTL

=============================================================================
