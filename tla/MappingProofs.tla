---------------------------- MODULE MappingProofs ----------------------------
(***************************************************************************)
(* Proofs about the mapping table of ssd_cache_mapping.c, for every number *)
(* of cache blocks, keys, users and queue places.                          *)
(*                                                                         *)
(* remove_mapping does not look at the pending bit, so a DISCARD of the    *)
(* block in flight breaks the lists; what is proved of them is proved up   *)
(* to that step ("followed").  The invariant has three parts: the lists,   *)
(* the counters and the block in flight (ListInv), the keys and the queue  *)
(* (KeyInv), and what the worker has found out so far (WorkerInv).         *)
(***************************************************************************)
EXTENDS ListProofs, SequenceTheorems

\* members(l) as a function of the bits, so that it can be used after a step.
SetsOf(a, p, d) ==
  [l \in List |-> CASE l = "free"  -> Entry \ a
                    [] l = "clean" -> a \ (p \cup d)
                    [] l = "dirty" -> (a \cap d) \ p]

ListInv ==
  /\ AreLists(q, SetsOf(alloc, pending, dirty))
  /\ alloc \subseteq Entry /\ dirty \subseteq Entry
  /\ MovingBlockState
  /\ pc \in Moving => cblock \in Entry
  /\ cblock \in Ref
  /\ nr_allocated \in Nat
  /\ BlocksCounted
  /\ writing \in [User -> Ref]

\* A key that is queued is not in the cache, unless the worker is at it.
QueuedNotCached ==
  \A e \in alloc : queued(key[e]) => /\ key[e] = work
                                     /\ pc = "remove" \/ (pc = "PROMOTION" /\ e = cblock)

KeyInv ==
  /\ wq \in Seq(Key)
  /\ \A i, j \in 1..Len(wq) : wq[i] = wq[j] => i = j
  /\ IF pc = "peak" THEN work = NoKey ELSE work \in Key /\ wq # <<>> /\ Head(wq) = work
  /\ key \in [Entry -> Key \cup {NoKey}]
  /\ \A e \in alloc : key[e] \in Key
  /\ OneBlockPerKey
  /\ QueuedNotCached
  /\ pc = "PROMOTION" => key[cblock] = work

WorkerInv ==
  /\ pc \in {"peak", "promotion?", "demotion?", "writeback?", "remove"} \cup Moving
  /\ pc = "writeback?" => ~can_demote

MapInv == ListInv /\ KeyInv /\ WorkerInv

\* What is left of it once a DISCARD has freed the block in flight.
MappingInv ==
  /\ discarded \in BOOLEAN
  /\ followed => MapInv
  /\ discarded => TypeOK /\ pc \in Moving /\ OneBlockPerKey /\ hashed \subseteq alloc

-----------------------------------------------------------------------------
\* The three sets, one by one.
LEMMA SetsOfEach ==
  ASSUME NEW a, NEW p, NEW d
  PROVE  /\ SetsOf(a, p, d)["free"] = Entry \ a
         /\ SetsOf(a, p, d)["clean"] = a \ (p \cup d)
         /\ SetsOf(a, p, d)["dirty"] = (a \cap d) \ p
         /\ DOMAIN SetsOf(a, p, d) = List
BY DEF SetsOf, List

\* A function on List is known from its three values.
LEMMA SetsOfEqual ==
  ASSUME NEW a, NEW p, NEW d, NEW M \in [List -> SUBSET Entry],
         M["free"] = Entry \ a, M["clean"] = a \ (p \cup d), M["dirty"] = (a \cap d) \ p
  PROVE  M = SetsOf(a, p, d)
<1>1. ASSUME NEW l \in List PROVE M[l] = SetsOf(a, p, d)[l]
  <2>1. CASE l = "free"
    BY <2>1 DEF SetsOf
  <2>2. CASE l = "clean"
    BY <2>2 DEF SetsOf
  <2>3. CASE l = "dirty"
    BY <2>3 DEF SetsOf
  <2> QED
    BY <2>1, <2>2, <2>3 DEF List
<1> QED
  BY <1>1, SetsOfEach DEF SetsOf

\* No counter is near its limit.
LEMMA CountersAreSmall ==
  ASSUME ListInv
  PROVE  /\ \A l \in List : q.nr_elts[l] \in 0..N /\ q.nr_elts[l] < UINT_MAX
         /\ nr_allocated \in 0..N /\ nr_allocated < UINT_MAX
         /\ q.nr_elts \in [List -> Nat]
<1>1. q.nr_elts \in [List -> Nat] /\ nr_allocated \in Nat
  BY DEF ListInv, AreLists, Links
<1>2. /\ q.nr_elts["free"] \in Nat /\ q.nr_elts["clean"] \in Nat /\ q.nr_elts["dirty"] \in Nat
  BY <1>1 DEF List
<1>3. N \in Nat /\ UINT_MAX \in Nat /\ UINT_MAX > N
  BY MappingAssumption
<1>4. /\ q.nr_elts["free"] <= N /\ q.nr_elts["clean"] <= N /\ q.nr_elts["dirty"] <= N
      /\ nr_allocated <= N
  BY <1>1, <1>2, <1>3 DEF ListInv, BlocksCounted
<1> QED
  BY <1>1, <1>2, <1>3, <1>4 DEF List

\* Taking an entry off one list and adding it at the end of another, or of the
\* same one.
LEMMA RequeueLists ==
  ASSUME NEW x, NEW M, AreLists(x, M), NEW l \in List, NEW m \in List, NEW e \in M[l],
         \A i \in List : x.nr_elts[i] < UINT_MAX
  PROVE  LET y == l_add_tail(l_del(x, l, e), m, e)
         IN  /\ AreLists(y, With(Without(M, l, e), m, e))
             /\ y.nr_elts = Grown(Shrunk(x.nr_elts, l), m)
             /\ x.nr_elts[l] > 0
<1> DEFINE z == l_del(x, l, e)
           L == Without(M, l, e)
<1>1. /\ AreLists(z, L) /\ z.nr_elts = Shrunk(x.nr_elts, l) /\ x.nr_elts[l] > 0
  BY DelLists
<1>2. /\ M \in [List -> SUBSET Entry] /\ e \in Entry /\ x.nr_elts \in [List -> Nat]
      /\ \A a, b \in List : a # b => M[a] \cap M[b] = {}
  BY DEF AreLists, Links
<1>3. \A i \in List : e \notin L[i]
  BY <1>2 DEF Without
<1>4. z.nr_elts[m] < UINT_MAX
  BY <1>1, <1>2, MappingAssumption DEF Shrunk
<1> HIDE DEF z, L
<1>5. /\ AreLists(l_add_tail(z, m, e), With(L, m, e))
      /\ l_add_tail(z, m, e).nr_elts = Grown(z.nr_elts, m)
  <2>1. AreLists(z, L) /\ e \in Entry /\ m \in List
    BY <1>1, <1>2
  <2> QED
    BY <1>3, <1>4, <2>1, AddTailLists
<1> QED
  BY <1>1, <1>5 DEF z, L

\* alloc_entry: taking the head of the free list and clearing its links.
LEMMA PopLists ==
  ASSUME ListInv, NEW e, e = q.head["free"], ~allocator_empty
  PROVE  /\ e \in Entry \ alloc
         /\ AreLists(l_pop_head(e), Without(SetsOf(alloc, pending, dirty), "free", e))
         /\ l_pop_head(e).nr_elts = Shrunk(q.nr_elts, "free")
         /\ q.nr_elts["free"] > 0
<1> DEFINE M == SetsOf(alloc, pending, dirty)
           z == l_del(q, "free", e)
           L == Without(M, "free", e)
<1>1. AreLists(q, M) /\ "free" \in List
  BY DEF ListInv, List
<1>2. e \in M["free"]
  <2>1. q.head["free"] # INDEXER_NULL
    BY DEF allocator_empty, l_empty
  <2> QED
    BY <1>1, <2>1, HeadOfLists
<1>3. e \in Entry \ alloc
  BY <1>2, SetsOfEach
<1>4. /\ M \in [List -> SUBSET Entry]
      /\ \A a, b \in List : a # b => M[a] \cap M[b] = {}
  BY <1>1 DEF AreLists
<1> HIDE DEF M
<1>5. AreLists(z, L) /\ z.nr_elts = Shrunk(q.nr_elts, "free") /\ q.nr_elts["free"] > 0
  BY <1>1, <1>2, DelLists
<1>6. \A i \in List : e \notin L[i]
  BY <1>1, <1>2, <1>4 DEF Without
<1> HIDE DEF z, L
<1>7. /\ AreLists(l_pop_head(e), L) /\ l_pop_head(e).nr_elts = z.nr_elts
  <2>1. e \in Entry /\ AreLists(z, L)
    BY <1>3, <1>5
  <2>2. l_pop_head(e) = init_entry(z, e)
    BY DEF l_pop_head, z
  <2> QED
    BY <1>6, <2>1, <2>2, ClearLists
<1> QED
  BY <1>3, <1>5, <1>7 DEF L, M

-----------------------------------------------------------------------------
(* ListInv: one lemma per kind of step. *)

\* A hit leaves every set and counter alone.
LEMMA HitKeepsLists ==
  ASSUME ListInv, NEW u \in User, NEW k, NEW op, hit(u, k, op)
  PROVE  ListInv' /\ q'.nr_elts = q.nr_elts
<1> DEFINE M == SetsOf(alloc, pending, dirty)
<1>1. PICK e \in h_lookup(k) :
        /\ q' = IF e \notin pending /\ e \notin dirty
                THEN l_add_tail(l_del(q, "clean", e), "clean", e)
                ELSE q
        /\ writing' = [writing EXCEPT ![u] = IF op = "READ" THEN INDEXER_NULL ELSE e]
        /\ UNCHANGED <<wq, work, pending, dirty, alloc, key, hashed, nr_allocated, pc, cblock>>
  BY DEF hit
<1>2. e \in alloc /\ e \in Entry
  BY DEF h_lookup, ListInv, MovingBlockState
<1>3. AreLists(q, M) /\ "clean" \in List /\ q.nr_elts \in [List -> Nat]
  BY DEF ListInv, List, AreLists, Links
<1>4. AreLists(q', M) /\ q'.nr_elts = q.nr_elts
  <2>1. CASE e \notin pending /\ e \notin dirty
    <3>1. e \in M["clean"] /\ \A i \in List : q.nr_elts[i] < UINT_MAX
      BY <1>2, <2>1, SetsOfEach, CountersAreSmall
    <3> HIDE DEF M
    <3>2. /\ AreLists(q', With(Without(M, "clean", e), "clean", e))
          /\ q'.nr_elts = Grown(Shrunk(q.nr_elts, "clean"), "clean")
      BY <1>1, <1>3, <2>1, <3>1, RequeueLists
    <3>3. M \in [List -> SUBSET Entry]
      BY <1>3 DEF AreLists
    <3>4. With(Without(M, "clean", e), "clean", e) = M
      BY <1>3, <3>1, <3>3 DEF With, Without
    <3>5. Grown(Shrunk(q.nr_elts, "clean"), "clean") = q.nr_elts
      BY <1>3 DEF Grown, Shrunk
    <3> QED
      BY <3>2, <3>4, <3>5
  <2>2. CASE ~(e \notin pending /\ e \notin dirty)
    BY <1>1, <1>3, <2>2
  <2> QED
    BY <2>1, <2>2
<1>5. AreLists(q', SetsOf(alloc', pending', dirty'))
  BY <1>1, <1>4
<1>6. writing' \in [User -> Ref]
  BY <1>1, <1>2 DEF ListInv, Ref
<1>7. BlocksCounted' /\ MovingBlockState'
  BY <1>1, <1>4 DEF ListInv, BlocksCounted, MovingBlockState
<1> QED
  BY <1>1, <1>4, <1>5, <1>6, <1>7 DEF ListInv

\* A free entry taken for a whole-block write goes to the dirty list.
LEMMA InsertKeepsLists ==
  ASSUME ListInv, NEW u \in User, NEW k, insert_dirty(u, k), ~allocator_empty
  PROVE  ListInv' /\ q'.nr_elts["clean"] = q.nr_elts["clean"]
<1> DEFINE M == SetsOf(alloc, pending, dirty)
<1>1. PICK e \in Entry :
        /\ alloc_entry(e, k, FALSE, TRUE, l_add_tail(l_pop_head(e), "dirty", e))
        /\ hashed' = hashed \cup {e}
        /\ writing' = [writing EXCEPT ![u] = e]
        /\ UNCHANGED <<wq, work, pc, cblock>>
  BY DEF insert_dirty
<1>2. /\ e = q.head["free"] /\ q' = l_add_tail(l_pop_head(e), "dirty", e)
      /\ alloc' = alloc \cup {e} /\ pending' = pending \ {e} /\ dirty' = dirty \cup {e}
      /\ nr_allocated' = Inc(nr_allocated)
  BY <1>1 DEF alloc_entry
<1>3. /\ e \in Entry \ alloc
      /\ AreLists(l_pop_head(e), Without(M, "free", e))
      /\ l_pop_head(e).nr_elts = Shrunk(q.nr_elts, "free")
      /\ q.nr_elts["free"] > 0
  BY <1>2, PopLists
<1>4. q.nr_elts \in [List -> Nat] /\ "free" \in List /\ "dirty" \in List /\ "clean" \in List
  BY CountersAreSmall DEF List
<1>5. M \in [List -> SUBSET Entry]
  BY DEF ListInv, AreLists
<1>6. \A i \in List : e \notin Without(M, "free", e)[i]
  BY <1>3, <1>4, <1>5, SetsOfEach DEF Without, List
<1>7. l_pop_head(e).nr_elts["dirty"] < UINT_MAX
  BY <1>3, <1>4, CountersAreSmall DEF Shrunk
<1>8. /\ AreLists(q', With(Without(M, "free", e), "dirty", e))
      /\ q'.nr_elts = Grown(Shrunk(q.nr_elts, "free"), "dirty")
  BY <1>2, <1>3, <1>4, <1>6, <1>7, AddTailLists
<1>9. pending \subseteq alloc /\ alloc \subseteq Entry
  BY DEF ListInv, MovingBlockState
<1>10. With(Without(M, "free", e), "dirty", e) = SetsOf(alloc', pending', dirty')
  <2> DEFINE K == With(Without(M, "free", e), "dirty", e)
  <2>1. K \in [List -> SUBSET Entry]
    BY <1>3, <1>5 DEF With, Without
  <2>2. /\ K["free"] = M["free"] \ {e} /\ K["clean"] = M["clean"]
        /\ K["dirty"] = M["dirty"] \cup {e}
    BY <1>4, <1>5 DEF With, Without
  <2>3. K["free"] = Entry \ alloc'
    BY <1>2, <2>2, SetsOfEach
  <2>4. K["clean"] = alloc' \ (pending' \cup dirty')
    BY <1>2, <1>3, <1>9, <2>2, SetsOfEach
  <2>5. K["dirty"] = (alloc' \cap dirty') \ pending'
    BY <1>2, <1>3, <1>9, <2>2, SetsOfEach
  <2> HIDE DEF K
  <2>6. K = SetsOf(alloc', pending', dirty')
    BY <2>1, <2>3, <2>4, <2>5, SetsOfEqual
  <2> QED
    BY <2>6 DEF K
<1>11. nr_allocated' = nr_allocated + 1 /\ nr_allocated \in Nat
  BY <1>2, CountersAreSmall DEF Inc
<1>12. BlocksCounted'
  <2>1. /\ q'.nr_elts["free"] = q.nr_elts["free"] - 1 /\ q'.nr_elts["clean"] = q.nr_elts["clean"]
        /\ q'.nr_elts["dirty"] = q.nr_elts["dirty"] + 1
    BY <1>4, <1>8 DEF Grown, Shrunk
  <2>2. N \in Nat /\ q.nr_elts["free"] \in Nat /\ q.nr_elts["clean"] \in Nat
        /\ q.nr_elts["dirty"] \in Nat
    BY <1>4, MappingAssumption
  <2>3. pc' = pc /\ BlocksCounted
    BY <1>1 DEF ListInv
  <2>4. CASE pc \in Moving
    BY <1>11, <2>1, <2>2, <2>3, <2>4 DEF BlocksCounted
  <2>5. CASE pc \notin Moving
    BY <1>11, <2>1, <2>2, <2>3, <2>5 DEF BlocksCounted
  <2> QED
    BY <2>4, <2>5
<1>13. MovingBlockState'
  <2>1. pending' = pending
    BY <1>2, <1>3, <1>9
  <2>2. pc = "PROMOTION" => cblock \in alloc
    BY DEF ListInv, MovingBlockState, Moving
  <2> QED
    BY <1>1, <1>2, <1>3, <1>9, <2>1, <2>2 DEF ListInv, MovingBlockState
<1>14. writing' \in [User -> Ref] /\ alloc' \subseteq Entry /\ dirty' \subseteq Entry
  BY <1>1, <1>2 DEF ListInv, Ref
<1> QED
  <2>1. q'.nr_elts["clean"] = q.nr_elts["clean"]
    BY <1>4, <1>8 DEF Grown, Shrunk
  <2> QED
    BY <1>1, <1>3, <1>8, <1>10, <1>11, <1>12, <1>13, <1>14, <2>1 DEF ListInv

\* Marking a block dirty moves it to the dirty list, unless it is in flight.
LEMMA WriteKeepsLists ==
  ASSUME ListInv, NEW u \in User, NEW success, write_cache(u, success)
  PROVE  /\ ListInv' /\ q'.nr_elts["free"] = q.nr_elts["free"]
         /\ q'.nr_elts["clean"] <= q.nr_elts["clean"]
<1> DEFINE M == SetsOf(alloc, pending, dirty)
           e == writing[u]
<1>1. /\ set_dirty_after_write(e) \/ UNCHANGED tableVars
      /\ writing' = [writing EXCEPT ![u] = INDEXER_NULL]
      /\ UNCHANGED <<wq, work, pc, cblock>> /\ e \in Ref
  BY DEF write_cache, ListInv
<1>2. q.nr_elts \in [List -> Nat] /\ "free" \in List /\ "dirty" \in List /\ "clean" \in List
  BY CountersAreSmall DEF List
<1>3. writing' \in [User -> Ref]
  BY <1>1 DEF ListInv, Ref
<1>4. CASE UNCHANGED tableVars
  BY <1>1, <1>2, <1>3, <1>4 DEF tableVars, ListInv, BlocksCounted, MovingBlockState
<1>5. CASE ~UNCHANGED tableVars
  <2>1. /\ e \in alloc /\ dirty' = dirty \cup {e}
        /\ q' = IF e \in pending THEN q
                ELSE l_add_tail(l_del(q, home(dirty, e), e), "dirty", e)
        /\ UNCHANGED <<pending, alloc, key, hashed, nr_allocated>>
    BY <1>1, <1>5 DEF set_dirty_after_write
  <2>2. /\ alloc \subseteq Entry /\ dirty \subseteq Entry /\ AreLists(q, M)
        /\ M \in [List -> SUBSET Entry]
    BY DEF ListInv, AreLists
  <2>3. CASE e \in pending
    <3>1. SetsOf(alloc', pending', dirty') = M
      <4>1. /\ M["free"] = Entry \ alloc' /\ M["clean"] = alloc' \ (pending' \cup dirty')
            /\ M["dirty"] = (alloc' \cap dirty') \ pending'
        BY <2>1, <2>3, SetsOfEach
      <4> HIDE DEF M
      <4> QED
        BY <2>2, <4>1, SetsOfEqual
    <3> QED
      BY <1>1, <1>2, <1>3, <2>1, <2>2, <2>3, <3>1
         DEF ListInv, BlocksCounted, MovingBlockState
  <2>4. CASE e \notin pending
    <3> DEFINE h == home(dirty, e)
    <3>1. h \in List /\ e \in M[h] /\ (h = "clean" \/ h = "dirty")
          /\ \A i \in List : q.nr_elts[i] < UINT_MAX
      BY <1>2, <2>1, <2>4, SetsOfEach, CountersAreSmall DEF home
    <3> HIDE DEF M, h
    <3>2. /\ AreLists(q', With(Without(M, h, e), "dirty", e))
          /\ q'.nr_elts = Grown(Shrunk(q.nr_elts, h), "dirty")
          /\ q.nr_elts[h] > 0
      BY <1>2, <2>1, <2>2, <2>4, <3>1, RequeueLists DEF h
    <3>3. With(Without(M, h, e), "dirty", e) = SetsOf(alloc', pending', dirty')
      <4> DEFINE K == With(Without(M, h, e), "dirty", e)
      <4>1. K \in [List -> SUBSET Entry]
        BY <2>1, <2>2 DEF With, Without
      <4>2. /\ K["free"] = M["free"] /\ K["clean"] = M["clean"] \ {e}
            /\ K["dirty"] = M["dirty"] \cup {e}
        <5>1. CASE h = "clean"
          BY <1>2, <2>2, <5>1 DEF With, Without
        <5>2. CASE h = "dirty"
          <6>1. e \notin M["clean"]
            BY <1>2, <2>2, <3>1, <5>2 DEF AreLists
          <6> QED
            BY <1>2, <2>2, <5>2, <6>1 DEF With, Without
        <5> QED
          BY <3>1, <5>1, <5>2
      <4>3. K["free"] = Entry \ alloc'
        BY <2>1, <4>2, SetsOfEach DEF M
      <4>4. K["clean"] = alloc' \ (pending' \cup dirty')
        BY <2>1, <4>2, SetsOfEach DEF M
      <4>5. K["dirty"] = (alloc' \cap dirty') \ pending'
        BY <2>1, <2>4, <4>2, SetsOfEach DEF M
      <4> HIDE DEF K
      <4>6. K = SetsOf(alloc', pending', dirty')
        BY <4>1, <4>3, <4>4, <4>5, SetsOfEqual
      <4> QED
        BY <4>6 DEF K
    <3>4. /\ q'.nr_elts["free"] = q.nr_elts["free"]
          /\ q'.nr_elts["clean"] <= q.nr_elts["clean"]
          /\ q'.nr_elts["clean"] + q'.nr_elts["dirty"] = q.nr_elts["clean"] + q.nr_elts["dirty"]
          /\ q'.nr_elts["clean"] \in Nat /\ q'.nr_elts["dirty"] \in Nat
      <4>1. CASE h = "clean"
        BY <1>2, <3>2, <4>1 DEF Grown, Shrunk
      <4>2. CASE h = "dirty"
        BY <1>2, <3>2, <4>2 DEF Grown, Shrunk
      <4> QED
        BY <3>1, <4>1, <4>2
    <3>5. BlocksCounted'
      <4>1. N \in Nat /\ q.nr_elts["free"] \in Nat /\ q.nr_elts["clean"] \in Nat
            /\ q.nr_elts["dirty"] \in Nat
        BY <1>2, MappingAssumption
      <4> QED
        BY <1>1, <2>1, <3>4, <4>1 DEF ListInv, BlocksCounted
    <3>6. MovingBlockState' /\ dirty' \subseteq Entry
      BY <1>1, <2>1, <2>2 DEF ListInv, MovingBlockState
    <3> QED
      BY <1>1, <1>3, <2>1, <3>2, <3>3, <3>4, <3>5, <3>6 DEF ListInv
  <2> QED
    BY <2>3, <2>4
<1> QED
  BY <1>4, <1>5

\* A discarded block goes to the free list.  It is not the one in flight.
LEMMA DiscardKeepsLists ==
  ASSUME ListInv, KeyInv, NEW u \in User, NEW k, remove_mapping(u, k), ~discarded'
  PROVE  ListInv' /\ q'.nr_elts["clean"] <= q.nr_elts["clean"]
<1> DEFINE M == SetsOf(alloc, pending, dirty)
<1>1. PICK e \in h_lookup(k) : /\ e \notin pending
                              /\ h_remove(e)
                              /\ free_entry(e, l_del(q, home(dirty, e), e))
  BY DEF remove_mapping
<1>2. UNCHANGED <<wq, work, pending, dirty, key, pc, cblock, writing>>
  BY DEF remove_mapping
<1>3. hashed \subseteq alloc /\ (pc \in Moving => cblock # e)
  BY <1>1 DEF ListInv, MovingBlockState
<1>4. e \in alloc /\ e \in Entry /\ key[e] = k /\ e \in hashed
  BY <1>3 DEF h_lookup, ListInv
<1>5. hashed' = hashed \ {e}
  <2>1. e \in h_lookup(key[e])
    BY <1>4
  <2>2. ASSUME NEW f \in h_lookup(key[e]) PROVE f = e
    BY <1>3, <1>4 DEF h_lookup, KeyInv, OneBlockPerKey
  <2> QED
    BY <1>1, <2>1, <2>2 DEF h_remove
<1>6. /\ nr_allocated' = Dec(nr_allocated) /\ alloc' = alloc \ {e}
      /\ q' = l_add_tail(l_del(q, home(dirty, e), e), "free", e)
  BY <1>1 DEF free_entry
<1>7. q.nr_elts \in [List -> Nat] /\ "free" \in List /\ "dirty" \in List /\ "clean" \in List
  BY CountersAreSmall DEF List
<1>8. /\ alloc \subseteq Entry /\ dirty \subseteq Entry /\ AreLists(q, M)
      /\ M \in [List -> SUBSET Entry]
  BY DEF ListInv, AreLists
<1> DEFINE h == home(dirty, e)
<1>9. h \in List /\ e \in M[h] /\ (h = "clean" \/ h = "dirty")
      /\ \A i \in List : q.nr_elts[i] < UINT_MAX
  BY <1>1, <1>4, <1>7, SetsOfEach, CountersAreSmall DEF home
<1> HIDE DEF M, h
<1>10. /\ AreLists(q', With(Without(M, h, e), "free", e))
       /\ q'.nr_elts = Grown(Shrunk(q.nr_elts, h), "free")
       /\ q.nr_elts[h] > 0
  BY <1>6, <1>7, <1>8, <1>9, RequeueLists DEF h
<1>11. With(Without(M, h, e), "free", e) = SetsOf(alloc', pending', dirty')
  <2> DEFINE K == With(Without(M, h, e), "free", e)
  <2>1. K \in [List -> SUBSET Entry]
    BY <1>4, <1>8 DEF With, Without
  <2>2. /\ K["free"] = M["free"] \cup {e} /\ K["clean"] = M["clean"] \ {e}
        /\ K["dirty"] = M["dirty"] \ {e}
    <3>1. CASE h = "clean"
      <4>1. e \notin M["dirty"]
        BY <1>7, <1>8, <1>9, <3>1 DEF AreLists
      <4> QED
        BY <1>7, <1>8, <3>1, <4>1 DEF With, Without
    <3>2. CASE h = "dirty"
      <4>1. e \notin M["clean"]
        BY <1>7, <1>8, <1>9, <3>2 DEF AreLists
      <4> QED
        BY <1>7, <1>8, <3>2, <4>1 DEF With, Without
    <3> QED
      BY <1>9, <3>1, <3>2
  <2>3. K["free"] = Entry \ alloc'
    BY <1>4, <1>6, <2>2, SetsOfEach DEF M
  <2>4. K["clean"] = alloc' \ (pending' \cup dirty')
    BY <1>2, <1>6, <2>2, SetsOfEach DEF M
  <2>5. K["dirty"] = (alloc' \cap dirty') \ pending'
    BY <1>2, <1>6, <2>2, SetsOfEach DEF M
  <2> HIDE DEF K
  <2>6. K = SetsOf(alloc', pending', dirty')
    BY <2>1, <2>3, <2>4, <2>5, SetsOfEqual
  <2> QED
    BY <2>6 DEF K
<1>12. N \in Nat /\ q.nr_elts["free"] \in Nat /\ q.nr_elts["clean"] \in Nat
       /\ q.nr_elts["dirty"] \in Nat /\ nr_allocated \in Nat
  BY <1>7, MappingAssumption DEF ListInv
<1> DEFINE moving == IF pc \in Moving THEN 1 ELSE 0
<1>13. /\ q.nr_elts["free"] + q.nr_elts["clean"] + q.nr_elts["dirty"] + moving = N
       /\ nr_allocated + q.nr_elts["free"] = N
       /\ moving \in Nat /\ moving = (IF pc' \in Moving THEN 1 ELSE 0)
  BY <1>2, <1>12 DEF ListInv, BlocksCounted
<1> HIDE DEF moving
<1>14. nr_allocated # 0
  <2>1. CASE h = "clean"
    BY <1>10, <1>12, <1>13, <2>1
  <2>2. CASE h = "dirty"
    BY <1>10, <1>12, <1>13, <2>2
  <2> QED
    BY <1>9, <2>1, <2>2
<1>15. nr_allocated' = nr_allocated - 1 /\ nr_allocated' \in Nat
  BY <1>6, <1>12, <1>14 DEF Dec
<1>16. BlocksCounted'
  <2>1. q'.nr_elts["free"] = q.nr_elts["free"] + 1
    BY <1>7, <1>9, <1>10 DEF Grown, Shrunk
  <2>2. nr_allocated' + q'.nr_elts["free"] = N
    BY <1>12, <1>13, <1>15, <2>1
  <2>3. q'.nr_elts["free"] + q'.nr_elts["clean"] + q'.nr_elts["dirty"] + moving = N
    <3>1. CASE h = "clean"
      <4>1. q'.nr_elts["clean"] = q.nr_elts["clean"] - 1 /\ q'.nr_elts["dirty"] = q.nr_elts["dirty"]
        BY <1>7, <1>10, <3>1 DEF Grown, Shrunk
      <4>2. q'.nr_elts["free"] + q'.nr_elts["clean"] = q.nr_elts["free"] + q.nr_elts["clean"]
        BY <1>12, <2>1, <4>1
      <4> QED
        BY <1>13, <4>1, <4>2
    <3>2. CASE h = "dirty"
      <4>1. q'.nr_elts["clean"] = q.nr_elts["clean"] /\ q'.nr_elts["dirty"] = q.nr_elts["dirty"] - 1
        BY <1>7, <1>10, <3>2 DEF Grown, Shrunk
      <4> QED
        BY <1>12, <1>13, <2>1, <4>1
    <3> QED
      BY <1>9, <3>1, <3>2
  <2> QED
    BY <1>12, <1>13, <2>1, <2>2, <2>3 DEF BlocksCounted
<1>17. MovingBlockState'
  <2>1. /\ pending = IF pc \in Moving THEN {cblock} ELSE {}
        /\ pending \subseteq alloc
        /\ hashed = IF pc = "PROMOTION" THEN alloc \ {cblock} ELSE alloc
    BY DEF ListInv, MovingBlockState
  <2> QED
    BY <1>1, <1>2, <1>5, <1>6, <2>1 DEF MovingBlockState
<1>18. q'.nr_elts["clean"] <= q.nr_elts["clean"]
  BY <1>7, <1>9, <1>10, <1>12 DEF Grown, Shrunk
<1> QED
  BY <1>2, <1>5, <1>6, <1>8, <1>10, <1>11, <1>15, <1>16, <1>17, <1>18 DEF ListInv

-----------------------------------------------------------------------------
(* ListInv: the worker. *)

Total(c) == c["free"] + c["clean"] + c["dirty"]

LEMMA TotalOfCounters ==
  ASSUME NEW c \in [List -> Nat], NEW l \in List
  PROVE  /\ Total(c) \in Nat
         /\ Total(Grown(c, l)) = Total(c) + 1
         /\ Total(Shrunk(c, l)) = Total(c) - 1
         /\ Grown(c, l)["free"] = IF l = "free" THEN c["free"] + 1 ELSE c["free"]
         /\ Shrunk(c, l)["free"] = IF l = "free" THEN c["free"] - 1 ELSE c["free"]
<1>1. c["free"] \in Nat /\ c["clean"] \in Nat /\ c["dirty"] \in Nat
  BY DEF List
<1>2. CASE l = "free"
  BY <1>1, <1>2 DEF Total, Grown, Shrunk, List
<1>3. CASE l = "clean"
  BY <1>1, <1>3 DEF Total, Grown, Shrunk, List
<1>4. CASE l = "dirty"
  BY <1>1, <1>4 DEF Total, Grown, Shrunk, List
<1> QED
  BY <1>2, <1>3, <1>4 DEF List

\* The head of the clean or of the dirty list is taken off it and set pending.
LEMMA TakeHeadLists ==
  ASSUME ListInv, NEW l \in {"clean", "dirty"}, q.nr_elts[l] # 0, pc \notin Moving,
         NEW e, e = q.head[l]
  PROVE  /\ e \in Entry /\ e \in alloc
         /\ AreLists(l_del(q, l, e), SetsOf(alloc, {e}, dirty \ {e}))
         /\ l = "clean" => dirty \ {e} = dirty
         /\ l_del(q, l, e).nr_elts = Shrunk(q.nr_elts, l)
         /\ q.nr_elts[l] > 0
<1> DEFINE M == SetsOf(alloc, pending, dirty)
<1>1. AreLists(q, M) /\ l \in List /\ "free" \in List /\ "clean" \in List /\ "dirty" \in List
  BY DEF ListInv, List
<1>2. e \in M[l]
  BY <1>1, HeadOfLists
<1>3. /\ M \in [List -> SUBSET Entry] /\ pending = {}
      /\ \A a, b \in List : a # b => M[a] \cap M[b] = {}
  BY <1>1 DEF AreLists, ListInv, MovingBlockState
<1>4. e \in Entry /\ e \in alloc /\ (l = "clean" => e \notin dirty)
  BY <1>1, <1>2, <1>3, SetsOfEach
<1> HIDE DEF M
<1>5. /\ AreLists(l_del(q, l, e), Without(M, l, e))
      /\ l_del(q, l, e).nr_elts = Shrunk(q.nr_elts, l) /\ q.nr_elts[l] > 0
  BY <1>1, <1>2, DelLists
<1>6. Without(M, l, e) = SetsOf(alloc, {e}, dirty \ {e})
  <2> DEFINE K == Without(M, l, e)
  <2>1. K \in [List -> SUBSET Entry]
    BY <1>3 DEF Without
  <2>2. K["free"] = M["free"] /\ K["clean"] = M["clean"] \ {e} /\ K["dirty"] = M["dirty"] \ {e}
    <3>1. CASE l = "clean"
      <4>1. e \notin M["dirty"]
        BY <1>1, <1>2, <1>3, <3>1
      <4> QED
        BY <1>1, <1>3, <3>1, <4>1 DEF Without
    <3>2. CASE l = "dirty"
      <4>1. e \notin M["clean"]
        BY <1>1, <1>2, <1>3, <3>2
      <4> QED
        BY <1>1, <1>3, <3>2, <4>1 DEF Without
    <3> QED
      BY <3>1, <3>2
  <2>3. /\ M["free"] = Entry \ alloc /\ M["clean"] = alloc \ dirty /\ M["dirty"] = alloc \cap dirty
    BY <1>3, SetsOfEach DEF M
  <2>4. K["free"] = Entry \ alloc
    BY <2>2, <2>3
  <2>5. K["clean"] = alloc \ ({e} \cup (dirty \ {e}))
    BY <2>2, <2>3
  <2>6. K["dirty"] = (alloc \cap (dirty \ {e})) \ {e}
    BY <2>2, <2>3
  <2> HIDE DEF K
  <2>7. K = SetsOf(alloc, {e}, dirty \ {e})
    BY <2>1, <2>4, <2>5, <2>6, SetsOfEqual
  <2> QED
    BY <2>7 DEF K
<1> QED
  BY <1>4, <1>5, <1>6

\* The block in flight goes back to the list its dirty bit says, at either end,
\* or to the free list.
LEMMA PutBackLists ==
  ASSUME ListInv, pc \in Moving
  PROVE  LET h == home(dirty, cblock)
         IN  /\ cblock \in Entry /\ cblock \in alloc /\ pending = {cblock}
             /\ h \in List /\ h # "free"
             /\ AreLists(l_add_tail(q, h, cblock), SetsOf(alloc, {}, dirty))
             /\ AreLists(l_add_head(q, h, cblock), SetsOf(alloc, {}, dirty))
             /\ AreLists(l_add_tail(q, "free", cblock), SetsOf(alloc \ {cblock}, {}, dirty))
             /\ l_add_tail(q, h, cblock).nr_elts = Grown(q.nr_elts, h)
             /\ l_add_head(q, h, cblock).nr_elts = Grown(q.nr_elts, h)
             /\ l_add_tail(q, "free", cblock).nr_elts = Grown(q.nr_elts, "free")
<1> DEFINE M == SetsOf(alloc, pending, dirty)
           e == cblock
           h == home(dirty, e)
<1>1. AreLists(q, M) /\ "free" \in List /\ "clean" \in List /\ "dirty" \in List
  BY DEF ListInv, List
<1>2. e \in Entry /\ e \in alloc /\ pending = {e} /\ alloc \subseteq Entry
  BY DEF ListInv, MovingBlockState
<1>3. M["free"] = Entry \ alloc /\ M["clean"] = alloc \ ({e} \cup dirty)
      /\ M["dirty"] = (alloc \cap dirty) \ {e} /\ M \in [List -> SUBSET Entry]
  <2>1. M \in [List -> SUBSET Entry]
    BY <1>1 DEF AreLists
  <2>2. M["free"] = Entry \ alloc /\ M["clean"] = alloc \ ({e} \cup dirty)
    BY <1>2, SetsOfEach
  <2>3. M["dirty"] = (alloc \cap dirty) \ {e}
    BY <1>2, SetsOfEach
  <2> QED
    BY <2>1, <2>2, <2>3
<1>4. \A i \in List : e \notin M[i]
  BY <1>2, <1>3 DEF List
<1>5. \A i \in List : q.nr_elts[i] < UINT_MAX
  BY CountersAreSmall
<1>6. h \in List /\ ((h = "dirty" /\ e \in dirty) \/ (h = "clean" /\ e \notin dirty))
  BY <1>1 DEF home
<1> HIDE DEF M, h
<1>7. /\ AreLists(l_add_tail(q, h, e), With(M, h, e))
      /\ l_add_tail(q, h, e).nr_elts = Grown(q.nr_elts, h)
  BY <1>1, <1>2, <1>4, <1>5, <1>6, AddTailLists
<1>8. /\ AreLists(l_add_head(q, h, e), With(M, h, e))
      /\ l_add_head(q, h, e).nr_elts = Grown(q.nr_elts, h)
  BY <1>1, <1>2, <1>4, <1>5, <1>6, AddHeadLists
<1>9. /\ AreLists(l_add_tail(q, "free", e), With(M, "free", e))
      /\ l_add_tail(q, "free", e).nr_elts = Grown(q.nr_elts, "free")
  BY <1>1, <1>2, <1>4, <1>5, AddTailLists
<1>10. With(M, h, e) = SetsOf(alloc, {}, dirty)
  <2> DEFINE K == With(M, h, e)
  <2>1. K \in [List -> SUBSET Entry]
    BY <1>2, <1>3 DEF With
  <2>2. CASE h = "clean"
    <3>1. K["free"] = M["free"] /\ K["clean"] = M["clean"] \cup {e} /\ K["dirty"] = M["dirty"]
      BY <1>1, <1>3, <2>2 DEF With
    <3>2. e \notin dirty
      BY <1>6, <2>2
    <3>3. K["free"] = Entry \ alloc
      BY <1>3, <3>1
    <3>4. K["clean"] = alloc \ ({} \cup dirty)
      BY <1>2, <1>3, <3>1, <3>2
    <3>5. K["dirty"] = (alloc \cap dirty) \ {}
      BY <1>2, <1>3, <3>1, <3>2
    <3> HIDE DEF K
    <3>6. K = SetsOf(alloc, {}, dirty)
      BY <2>1, <3>3, <3>4, <3>5, SetsOfEqual
    <3> QED
      BY <3>6 DEF K
  <2>3. CASE h = "dirty"
    <3>1. K["free"] = M["free"] /\ K["clean"] = M["clean"] /\ K["dirty"] = M["dirty"] \cup {e}
      BY <1>1, <1>3, <2>3 DEF With
    <3>2. e \in dirty
      BY <1>6, <2>3
    <3>3. K["free"] = Entry \ alloc
      BY <1>3, <3>1
    <3>4. K["clean"] = alloc \ ({} \cup dirty)
      BY <1>2, <1>3, <3>1, <3>2
    <3>5. K["dirty"] = (alloc \cap dirty) \ {}
      BY <1>2, <1>3, <3>1, <3>2
    <3> HIDE DEF K
    <3>6. K = SetsOf(alloc, {}, dirty)
      BY <2>1, <3>3, <3>4, <3>5, SetsOfEqual
    <3> QED
      BY <3>6 DEF K
  <2> QED
    BY <1>6, <2>2, <2>3
<1>11. With(M, "free", e) = SetsOf(alloc \ {e}, {}, dirty)
  <2> DEFINE K == With(M, "free", e)
  <2>1. K \in [List -> SUBSET Entry]
    BY <1>2, <1>3 DEF With
  <2>2. K["free"] = M["free"] \cup {e} /\ K["clean"] = M["clean"] /\ K["dirty"] = M["dirty"]
    BY <1>1, <1>3 DEF With
  <2>3. K["free"] = Entry \ (alloc \ {e})
    BY <1>2, <1>3, <2>2
  <2>4. K["clean"] = (alloc \ {e}) \ ({} \cup dirty)
    BY <1>2, <1>3, <2>2
  <2>5. K["dirty"] = ((alloc \ {e}) \cap dirty) \ {}
    BY <1>2, <1>3, <2>2
  <2> HIDE DEF K
  <2>6. K = SetsOf(alloc \ {e}, {}, dirty)
    BY <2>1, <2>3, <2>4, <2>5, SetsOfEqual
  <2> QED
    BY <2>6 DEF K
<1> QED
  BY <1>1, <1>2, <1>6, <1>7, <1>8, <1>9, <1>10, <1>11 DEF h

\* promotion_free_to_clean: a free block is taken for the work at hand.
LEMMA PromotionKeepsLists ==
  ASSUME ListInv, promotion_free_to_clean
  PROVE  ListInv' /\ cblock' \notin alloc /\ alloc' = alloc \cup {cblock'} /\ key' = [key EXCEPT ![cblock'] = work]
<1> DEFINE M == SetsOf(alloc, pending, dirty)
<1>1. PICK e \in Entry : alloc_entry(e, work, TRUE, FALSE, l_pop_head(e)) /\ cblock' = e
  BY DEF promotion_free_to_clean
<1>2. /\ e = q.head["free"] /\ q' = l_pop_head(e) /\ alloc' = alloc \cup {e}
      /\ pending' = pending \cup {e} /\ dirty' = dirty \ {e}
      /\ key' = [key EXCEPT ![e] = work] /\ nr_allocated' = Inc(nr_allocated)
  BY <1>1 DEF alloc_entry
<1>3. /\ pc = "promotion?" /\ pc' = "PROMOTION" /\ UNCHANGED <<wq, work, hashed, writing>>
      /\ ~allocator_empty
  BY DEF promotion_free_to_clean, goto
<1>4. pending = {} /\ hashed = alloc /\ alloc \subseteq Entry /\ dirty \subseteq Entry
      /\ pc \notin Moving /\ pc' \in Moving
  BY <1>3 DEF ListInv, MovingBlockState, Moving
<1>5. /\ e \in Entry \ alloc /\ AreLists(q', Without(M, "free", e))
      /\ q'.nr_elts = Shrunk(q.nr_elts, "free") /\ q.nr_elts["free"] > 0
  BY <1>2, <1>3, PopLists
<1>6. Without(M, "free", e) = SetsOf(alloc', pending', dirty')
  <2> DEFINE K == Without(M, "free", e)
  <2>1. K \in [List -> SUBSET Entry]
    BY <1>5 DEF AreLists
  <2>2. M \in [List -> SUBSET Entry] /\ "free" \in List /\ "clean" \in List /\ "dirty" \in List
    BY DEF List, ListInv, AreLists
  <2>3. K["free"] = M["free"] \ {e} /\ K["clean"] = M["clean"] /\ K["dirty"] = M["dirty"]
    BY <2>2 DEF Without
  <2>4. M["free"] = Entry \ alloc /\ M["clean"] = alloc \ dirty /\ M["dirty"] = alloc \cap dirty
    BY <1>4, SetsOfEach
  <2>5. K["free"] = Entry \ alloc'
    BY <1>2, <2>3, <2>4
  <2>6. K["clean"] = alloc' \ (pending' \cup dirty')
    BY <1>2, <1>4, <1>5, <2>3, <2>4
  <2>7. K["dirty"] = (alloc' \cap dirty') \ pending'
    BY <1>2, <1>4, <1>5, <2>3, <2>4
  <2> HIDE DEF K
  <2>8. K = SetsOf(alloc', pending', dirty')
    BY <2>1, <2>5, <2>6, <2>7, SetsOfEqual
  <2> QED
    BY <2>8 DEF K
<1>7. BlocksCounted' /\ nr_allocated' \in Nat
  <2>1. nr_allocated' = nr_allocated + 1 /\ nr_allocated \in Nat
    BY <1>2, CountersAreSmall DEF Inc
  <2>2. /\ q.nr_elts \in [List -> Nat] /\ "free" \in List /\ N \in Nat
        /\ nr_allocated + q.nr_elts["free"] = N /\ Total(q.nr_elts) = N
    <3>1. /\ q.nr_elts \in [List -> Nat] /\ "free" \in List /\ N \in Nat
          /\ q.nr_elts["free"] \in Nat /\ q.nr_elts["clean"] \in Nat /\ q.nr_elts["dirty"] \in Nat
      BY CountersAreSmall, MappingAssumption DEF List
    <3> QED
      BY <1>4, <3>1 DEF ListInv, BlocksCounted, Total
  <2>3. Total(q'.nr_elts) = N - 1 /\ q'.nr_elts["free"] = q.nr_elts["free"] - 1
    BY <1>5, <2>2, TotalOfCounters
  <2>4. q.nr_elts["free"] \in Nat
    BY <2>2
  <2>5. nr_allocated' + q'.nr_elts["free"] = N /\ Total(q'.nr_elts) + 1 = N
    BY <2>1, <2>2, <2>3, <2>4
  <2> QED
    BY <1>4, <2>1, <2>5 DEF BlocksCounted, Total
<1>8. MovingBlockState'
  <2>1. pending' = {e} /\ e \in alloc' /\ hashed' = alloc' \ {e}
    BY <1>2, <1>3, <1>4, <1>5
  <2> QED
    BY <1>1, <1>3, <1>4, <2>1 DEF MovingBlockState
<1>9. cblock' \in Entry /\ cblock' \in Ref /\ writing' \in [User -> Ref]
      /\ alloc' \subseteq Entry /\ dirty' \subseteq Entry
  BY <1>1, <1>2, <1>3, <1>4 DEF Ref, ListInv
<1> QED
  BY <1>1, <1>2, <1>5, <1>6, <1>7, <1>8, <1>9 DEF ListInv

\* Demotion and writeback take the head of a list.
LEMMA TakeKeepsLists ==
  ASSUME ListInv, NEW l \in {"clean", "dirty"}, q.nr_elts[l] # 0, pc \notin Moving,
         pc' \in Moving \ {"PROMOTION"}, cblock' = q.head[l], q' = l_del(q, l, cblock'),
         pending' = pending \cup {cblock'}, dirty' = dirty \ {cblock'},
         UNCHANGED <<alloc, hashed, nr_allocated, writing>>
  PROVE  ListInv'
<1>1. /\ cblock' \in Entry /\ cblock' \in alloc
      /\ AreLists(q', SetsOf(alloc, {cblock'}, dirty \ {cblock'}))
      /\ q'.nr_elts = Shrunk(q.nr_elts, l) /\ q.nr_elts[l] > 0
  BY TakeHeadLists
<1>2. pending = {} /\ hashed = alloc /\ alloc \subseteq Entry /\ dirty \subseteq Entry
  BY DEF ListInv, MovingBlockState, Moving
<1>3. pending' = {cblock'}
  BY <1>2
<1>4. BlocksCounted' /\ nr_allocated' \in Nat
  <2>1. /\ q.nr_elts \in [List -> Nat] /\ l \in List /\ l # "free" /\ N \in Nat
        /\ nr_allocated \in Nat
        /\ q.nr_elts["free"] \in Nat /\ q.nr_elts["clean"] \in Nat /\ q.nr_elts["dirty"] \in Nat
    BY CountersAreSmall, MappingAssumption DEF List, ListInv
  <2>2. nr_allocated + q.nr_elts["free"] = N /\ Total(q.nr_elts) = N
    BY <2>1 DEF ListInv, BlocksCounted, Total
  <2>3. Total(q'.nr_elts) = N - 1 /\ q'.nr_elts["free"] = q.nr_elts["free"]
    BY <1>1, <2>1, <2>2, TotalOfCounters
  <2>4. Total(q'.nr_elts) + 1 = N
    BY <2>1, <2>3
  <2> QED
    BY <2>1, <2>2, <2>3, <2>4 DEF BlocksCounted, Total
<1>5. MovingBlockState'
  BY <1>1, <1>2, <1>3 DEF MovingBlockState
<1>6. cblock' \in Ref /\ writing' \in [User -> Ref] /\ dirty' \subseteq Entry
  BY <1>1, <1>2 DEF Ref, ListInv
<1> QED
  BY <1>1, <1>2, <1>3, <1>4, <1>5, <1>6 DEF ListInv

\* The block in flight is put on a list, and is then in the table.
LEMMA PutKeepsLists ==
  ASSUME ListInv, pc \in Moving, pc' \notin Moving, pending' = pending \ {cblock},
         \/ q' = l_add_tail(q, home(dirty, cblock), cblock)
         \/ q' = l_add_head(q, home(dirty, cblock), cblock),
         hashed' = alloc, UNCHANGED <<alloc, dirty, nr_allocated, cblock, writing>>
  PROVE  ListInv'
<1> DEFINE h == home(dirty, cblock)
<1>1. /\ cblock \in Entry /\ pending = {cblock} /\ h \in List /\ h # "free"
      /\ AreLists(q', SetsOf(alloc, {}, dirty)) /\ q'.nr_elts = Grown(q.nr_elts, h)
  BY PutBackLists
<1> HIDE DEF h
<1>2. pending' = {}
  BY <1>1
<1>3. BlocksCounted' /\ nr_allocated' \in Nat
  <2>1. /\ q.nr_elts \in [List -> Nat] /\ N \in Nat /\ nr_allocated \in Nat
        /\ q.nr_elts["free"] \in Nat /\ q.nr_elts["clean"] \in Nat /\ q.nr_elts["dirty"] \in Nat
    BY CountersAreSmall, MappingAssumption DEF List, ListInv
  <2>2. nr_allocated + q.nr_elts["free"] = N /\ Total(q.nr_elts) + 1 = N
    BY <2>1 DEF ListInv, BlocksCounted, Total
  <2>3. Total(q'.nr_elts) = N /\ q'.nr_elts["free"] = q.nr_elts["free"]
    BY <1>1, <2>1, <2>2, TotalOfCounters
  <2>4. q'.nr_elts["free"] + q'.nr_elts["clean"] + q'.nr_elts["dirty"] + 0 = N
    <3>1. q'.nr_elts["free"] \in Nat /\ q'.nr_elts["clean"] \in Nat /\ q'.nr_elts["dirty"] \in Nat
      BY <1>1, <2>1 DEF Grown, List
    <3> QED
      BY <2>1, <2>3, <3>1 DEF Total
  <2> QED
    BY <2>1, <2>2, <2>3, <2>4 DEF BlocksCounted
<1>4. MovingBlockState'
  <2>1. pc' # "PROMOTION"
    BY DEF Moving
  <2> QED
    BY <1>2, <2>1 DEF MovingBlockState
<1> QED
  BY <1>1, <1>2, <1>3, <1>4 DEF ListInv

\* The block in flight is freed, and is then not in the table.
LEMMA FreeKeepsLists ==
  ASSUME ListInv, pc \in Moving, pc' \notin Moving, pending' = pending \ {cblock},
         free_entry(cblock, q), hashed' = alloc \ {cblock},
         UNCHANGED <<dirty, cblock, writing>>
  PROVE  ListInv' /\ alloc' = alloc \ {cblock}
<1>1. /\ cblock \in Entry /\ cblock \in alloc /\ pending = {cblock}
      /\ alloc' = alloc \ {cblock} /\ nr_allocated' = Dec(nr_allocated)
      /\ AreLists(q', SetsOf(alloc', {}, dirty)) /\ q'.nr_elts = Grown(q.nr_elts, "free")
  BY PutBackLists DEF free_entry
<1>2. pending' = {}
  BY <1>1
<1>3. BlocksCounted' /\ nr_allocated' \in Nat
  <2>1. /\ q.nr_elts \in [List -> Nat] /\ N \in Nat /\ nr_allocated \in Nat /\ "free" \in List
        /\ q.nr_elts["free"] \in Nat /\ q.nr_elts["clean"] \in Nat /\ q.nr_elts["dirty"] \in Nat
    BY CountersAreSmall, MappingAssumption DEF List, ListInv
  <2>2. nr_allocated + q.nr_elts["free"] = N /\ Total(q.nr_elts) + 1 = N
        /\ Total(q.nr_elts) = q.nr_elts["free"] + q.nr_elts["clean"] + q.nr_elts["dirty"]
    BY <2>1 DEF ListInv, BlocksCounted, Total
  <2>3. Total(q'.nr_elts) = N /\ q'.nr_elts["free"] = q.nr_elts["free"] + 1
    BY <1>1, <2>1, <2>2, TotalOfCounters
  <2>4. nr_allocated # 0
    BY <2>1, <2>2
  <2>5. nr_allocated' = nr_allocated - 1
    BY <1>1, <2>4 DEF Dec
  <2>6. nr_allocated' + q'.nr_elts["free"] = N /\ nr_allocated' \in Nat
    BY <2>1, <2>2, <2>3, <2>4, <2>5
  <2>7. q'.nr_elts["free"] + q'.nr_elts["clean"] + q'.nr_elts["dirty"] + 0 = N
    <3>1. q'.nr_elts["free"] \in Nat /\ q'.nr_elts["clean"] \in Nat /\ q'.nr_elts["dirty"] \in Nat
      BY <1>1, <2>1 DEF Grown, List
    <3> QED
      BY <2>1, <2>3, <3>1 DEF Total
  <2> QED
    BY <2>6, <2>7 DEF BlocksCounted
<1>4. MovingBlockState'
  <2>1. pc' # "PROMOTION"
    BY DEF Moving
  <2> QED
    BY <1>1, <1>2, <2>1 DEF MovingBlockState
<1>5. alloc' \subseteq Entry /\ dirty' \subseteq Entry
  BY <1>1 DEF ListInv
<1> QED
  BY <1>1, <1>2, <1>3, <1>4, <1>5 DEF ListInv

-----------------------------------------------------------------------------
(* KeyInv: what a step does to the queue, and to the keys of the blocks. *)

\* insert_work adds at most the key k, at the end.
LEMMA InsertWorkKeepsQueue ==
  ASSUME KeyInv, NEW k \in Key, insert_work(k)
  PROVE  /\ wq' \in Seq(Key) /\ work' = work
         /\ \A i, j \in 1..Len(wq') : wq'[i] = wq'[j] => i = j
         /\ wq # <<>> => wq' # <<>> /\ Head(wq') = Head(wq)
         /\ \A x : queued(x)' => queued(x) \/ x = k
<1>1. wq \in Seq(Key) /\ \A i, j \in 1..Len(wq) : wq[i] = wq[j] => i = j
  BY DEF KeyInv
<1>2. CASE wq' = wq
  BY <1>1, <1>2 DEF insert_work, queued
<1>3. CASE wq' # wq
  <2>1. wq' = Append(wq, k) /\ ~queued(k) /\ work' = work
    BY <1>3 DEF insert_work
  <2>2. /\ wq' \in Seq(Key) /\ Len(wq') = Len(wq) + 1 /\ wq'[Len(wq) + 1] = k
        /\ \A i \in 1..Len(wq) : wq'[i] = wq[i]
        /\ Len(wq) \in Nat
    BY <1>1, <2>1
  <2>3. \A i \in 1..Len(wq) : wq[i] # k
    BY <2>1 DEF queued
  <2>4. ASSUME NEW i \in 1..Len(wq'), NEW j \in 1..Len(wq'), wq'[i] = wq'[j] PROVE i = j
    <3>1. (i \in 1..Len(wq) \/ i = Len(wq) + 1) /\ (j \in 1..Len(wq) \/ j = Len(wq) + 1)
      BY <2>2
    <3> QED
      BY <1>1, <2>2, <2>3, <2>4, <3>1
  <2>5. ASSUME NEW x, queued(x)' PROVE queued(x) \/ x = k
    <3>1. PICK i \in 1..Len(wq') : wq'[i] = x
      BY <2>5 DEF queued
    <3>2. i \in 1..Len(wq) \/ i = Len(wq) + 1
      BY <2>2
    <3> QED
      BY <2>2, <3>1, <3>2 DEF queued
  <2>6. wq # <<>> => wq' # <<>> /\ Head(wq') = Head(wq)
    BY <1>1, <2>1
  <2> QED
    BY <2>1, <2>2, <2>4, <2>5, <2>6
<1> QED
  BY <1>2, <1>3

\* A block of the cache that a lookup cannot find is the one being promoted,
\* and its key is still queued.
LEMMA UnhashedIsPromoted ==
  ASSUME ListInv, KeyInv, NEW k, h_lookup(k) = {}, NEW e \in alloc, key[e] = k
  PROVE  pc = "PROMOTION" /\ e = cblock /\ k = work /\ queued(k)
<1>1. e \notin hashed
  BY DEF h_lookup
<1>2. pc = "PROMOTION" /\ e = cblock
  BY <1>1 DEF ListInv, MovingBlockState
<1>3. k = work /\ wq \in Seq(Key) /\ wq # <<>> /\ Head(wq) = work
  BY <1>2 DEF KeyInv
<1>4. 1 \in 1..Len(wq) /\ wq[1] = work
  BY <1>3
<1> QED
  BY <1>2, <1>3, <1>4 DEF queued

LEMMA MissKeepsKeys ==
  ASSUME ListInv, KeyInv, NEW k \in Key, h_lookup(k) = {}, miss(k)
  PROVE  KeyInv'
<1>1. insert_work(k) /\ UNCHANGED <<alloc, key, pc, cblock>>
  BY DEF miss
<1>2. /\ wq' \in Seq(Key) /\ work' = work
      /\ \A i, j \in 1..Len(wq') : wq'[i] = wq'[j] => i = j
      /\ wq # <<>> => wq' # <<>> /\ Head(wq') = Head(wq)
      /\ \A x : queued(x)' => queued(x) \/ x = k
  BY <1>1, InsertWorkKeepsQueue
<1>3. QueuedNotCached'
  <2> SUFFICES ASSUME NEW e \in alloc, queued(key[e])'
               PROVE  key[e] = work /\ (pc = "remove" \/ (pc = "PROMOTION" /\ e = cblock))
    BY <1>1, <1>2 DEF QueuedNotCached, queued
  <2>1. CASE queued(key[e])
    BY <2>1 DEF KeyInv, QueuedNotCached
  <2>2. CASE key[e] = k
    BY <2>2, UnhashedIsPromoted
  <2> QED
    BY <1>1, <1>2, <2>1, <2>2 DEF queued
<1>4. OneBlockPerKey' /\ (pc' = "PROMOTION" => key'[cblock'] = work')
  BY <1>1, <1>2 DEF KeyInv, OneBlockPerKey
<1> QED
  BY <1>1, <1>2, <1>3, <1>4 DEF KeyInv

LEMMA InsertKeepsKeys ==
  ASSUME ListInv, KeyInv, NEW u \in User, NEW k \in Key, h_lookup(k) = {}, ~contains_work(k),
         ~allocator_empty, insert_dirty(u, k)
  PROVE  KeyInv'
<1>1. PICK e \in Entry :
        /\ e = q.head["free"] /\ alloc' = alloc \cup {e} /\ key' = [key EXCEPT ![e] = k]
        /\ UNCHANGED <<wq, work, pc, cblock>>
  BY DEF insert_dirty, alloc_entry
<1>2. e \in Entry \ alloc /\ alloc \subseteq Entry /\ key \in [Entry -> Key \cup {NoKey}]
  BY <1>1, PopLists DEF ListInv, KeyInv
<1>3. ~queued(k)
  BY QueueAssumption DEF queued, contains_work, KeyInv
<1>4. ASSUME NEW f \in alloc PROVE key'[f] = key[f] /\ key[f] # k /\ key[f] \in Key
  <2>1. key'[f] = key[f]
    BY <1>1, <1>2
  <2> QED
    BY <1>3, <2>1, UnhashedIsPromoted DEF KeyInv
<1>5. key'[e] = k /\ key' \in [Entry -> Key \cup {NoKey}]
  BY <1>1, <1>2
<1>6. OneBlockPerKey'
  <2> SUFFICES ASSUME NEW a \in alloc', NEW b \in alloc', key'[a] = key'[b] PROVE a = b
    BY DEF OneBlockPerKey
  <2> QED
    BY <1>1, <1>4, <1>5 DEF KeyInv, OneBlockPerKey
<1>7. QueuedNotCached'
  <2> SUFFICES ASSUME NEW a \in alloc', queued(key'[a])
               PROVE  key'[a] = work /\ (pc = "remove" \/ (pc = "PROMOTION" /\ a = cblock))
    BY <1>1 DEF QueuedNotCached, queued
  <2>1. a \in alloc
    BY <1>1, <1>3, <1>5
  <2> QED
    BY <1>4, <2>1 DEF KeyInv, QueuedNotCached
<1>8. pc' = "PROMOTION" => key'[cblock'] = work'
  BY <1>1, <1>4 DEF KeyInv, ListInv, MovingBlockState, Moving
<1>9. \A f \in alloc' : key'[f] \in Key
  BY <1>1, <1>4, <1>5
<1> QED
  BY <1>1, <1>5, <1>6, <1>7, <1>8, <1>9 DEF KeyInv

\* The steps that add no block and do not touch the queue.
LEMMA OthersKeepKeys ==
  ASSUME KeyInv, UNCHANGED <<wq, work, key>>, alloc' \subseteq alloc,
         \/ pc' = pc /\ cblock' = cblock
         \/ pc # "peak" /\ pc' \notin {"peak", "PROMOTION"} /\ (pc \in {"PROMOTION", "remove"} => pc' = "remove")
  PROVE  KeyInv'
<1>1. \A x : queued(x)' <=> queued(x)
  BY DEF queued
<1>2. QueuedNotCached'
  <2> SUFFICES ASSUME NEW e \in alloc, queued(key[e])
               PROVE  key[e] = work /\ (pc' = "remove" \/ (pc' = "PROMOTION" /\ e = cblock'))
    BY <1>1 DEF QueuedNotCached, queued
  <2> QED
    BY DEF KeyInv, QueuedNotCached
<1>3. OneBlockPerKey' /\ \A e \in alloc' : key'[e] \in Key
  BY DEF KeyInv, OneBlockPerKey
<1> QED
  BY <1>2, <1>3 DEF KeyInv

LEMMA PeakKeepsKeys ==
  ASSUME KeyInv, peak
  PROVE  KeyInv'
<1>1. /\ pc = "peak" /\ pc' = "promotion?" /\ wq # <<>> /\ work' = Head(wq) /\ wq' = wq
      /\ UNCHANGED <<cblock, alloc, key>>
  BY DEF peak, goto, peak_work, is_empty, tableVars
<1>2. work' \in Key
  BY <1>1 DEF KeyInv
<1>3. \A e \in alloc : ~queued(key[e])
  BY <1>1 DEF KeyInv, QueuedNotCached
<1>4. QueuedNotCached'
  BY <1>1, <1>3 DEF QueuedNotCached, queued
<1>5. OneBlockPerKey' /\ \A e \in alloc' : key'[e] \in Key
  BY <1>1 DEF KeyInv, OneBlockPerKey
<1> QED
  BY <1>1, <1>2, <1>4, <1>5 DEF KeyInv

LEMMA PromotionKeepsKeys ==
  ASSUME ListInv, KeyInv, promotion_free_to_clean
  PROVE  KeyInv'
<1>1. /\ cblock' \notin alloc /\ alloc' = alloc \cup {cblock'} /\ ListInv'
      /\ key' = [key EXCEPT ![cblock'] = work]
  BY PromotionKeepsLists
<1>2. pc = "promotion?" /\ pc' = "PROMOTION" /\ UNCHANGED <<wq, work>>
  BY DEF promotion_free_to_clean, goto
<1>3. cblock' \in Entry
  BY <1>1, <1>2 DEF ListInv, Moving
<1>4. work \in Key /\ queued(work)
  <2>1. wq \in Seq(Key) /\ wq # <<>> /\ Head(wq) = work /\ work \in Key
    BY <1>2 DEF KeyInv
  <2>2. 1 \in 1..Len(wq) /\ wq[1] = work
    BY <2>1
  <2> QED
    BY <2>1, <2>2 DEF queued
<1>5. ASSUME NEW f \in alloc PROVE key'[f] = key[f] /\ ~queued(key[f]) /\ key[f] \in Key
  BY <1>1, <1>2 DEF KeyInv, ListInv, QueuedNotCached
<1>6. key'[cblock'] = work /\ key' \in [Entry -> Key \cup {NoKey}]
  BY <1>1, <1>3, <1>4 DEF KeyInv
<1>7. OneBlockPerKey'
  <2> SUFFICES ASSUME NEW a \in alloc', NEW b \in alloc', key'[a] = key'[b] PROVE a = b
    BY DEF OneBlockPerKey
  <2> QED
    BY <1>1, <1>4, <1>5, <1>6 DEF KeyInv, OneBlockPerKey
<1>8. QueuedNotCached'
  <2> SUFFICES ASSUME NEW a \in alloc', queued(key'[a]) PROVE a = cblock'
    BY <1>2, <1>6 DEF QueuedNotCached, queued
  <2> QED
    BY <1>1, <1>5
<1>9. \A f \in alloc' : key'[f] \in Key
  BY <1>1, <1>4, <1>5, <1>6
<1> QED
  BY <1>2, <1>6, <1>7, <1>8, <1>9 DEF KeyInv

LEMMA RemoveKeepsKeys ==
  ASSUME KeyInv, remove
  PROVE  KeyInv'
<1>1. /\ pc = "remove" /\ pc' = "peak" /\ wq # <<>> /\ wq' = Tail(wq) /\ work' = NoKey
      /\ UNCHANGED <<cblock, alloc, key>>
  BY DEF remove, goto, remove_work, is_empty, tableVars
<1>2. /\ wq \in Seq(Key) /\ Head(wq) = work /\ work \in Key
      /\ \A i, j \in 1..Len(wq) : wq[i] = wq[j] => i = j
  BY <1>1 DEF KeyInv
<1>3. /\ wq' \in Seq(Key) /\ Len(wq') = Len(wq) - 1 /\ Len(wq) \in Nat /\ Len(wq) > 0
      /\ \A i \in 1..Len(wq') : wq'[i] = wq[i + 1]
      /\ wq[1] = work
  BY <1>1, <1>2
<1>4. \A i, j \in 1..Len(wq') : wq'[i] = wq'[j] => i = j
  <2> SUFFICES ASSUME NEW i \in 1..Len(wq'), NEW j \in 1..Len(wq'), wq'[i] = wq'[j] PROVE i = j
    OBVIOUS
  <2>1. i + 1 \in 1..Len(wq) /\ j + 1 \in 1..Len(wq) /\ wq[i + 1] = wq[j + 1]
    BY <1>3
  <2>2. i + 1 = j + 1
    BY <1>2, <2>1
  <2> QED
    BY <1>3, <2>2
<1>5. ASSUME NEW x, queued(x)' PROVE queued(x) /\ x # work
  <2>1. PICK i \in 1..Len(wq') : wq'[i] = x
    BY <1>5 DEF queued
  <2>2. i + 1 \in 1..Len(wq) /\ wq[i + 1] = x /\ 1 \in 1..Len(wq) /\ i + 1 # 1
    BY <1>3, <2>1
  <2> QED
    BY <1>2, <1>3, <2>2 DEF queued
<1>6. QueuedNotCached'
  <2> SUFFICES ASSUME NEW e \in alloc, queued(key[e])' PROVE FALSE
    BY <1>1 DEF QueuedNotCached, queued
  <2>1. queued(key[e]) /\ key[e] # work
    BY <1>1, <1>5 DEF queued
  <2> QED
    BY <2>1 DEF KeyInv, QueuedNotCached
<1>7. OneBlockPerKey' /\ \A e \in alloc' : key'[e] \in Key
  BY <1>1 DEF KeyInv, OneBlockPerKey
<1> QED
  BY <1>1, <1>3, <1>4, <1>6, <1>7 DEF KeyInv

-----------------------------------------------------------------------------
(* MapInv: one step per action. *)

\* A user's step leaves the worker where it is, and no block becomes clean.
LEMMA UserKeepsWorker ==
  ASSUME ListInv, WorkerInv, UNCHANGED pc,
         q'.nr_elts["clean"] \in Nat, q'.nr_elts["clean"] <= q.nr_elts["clean"]
  PROVE  WorkerInv'
<1>1. q.nr_elts["clean"] \in Nat
  BY CountersAreSmall DEF List
<1>2. N \div 2 \in Nat
  BY MappingAssumption
<1>3. pc = "writeback?" => ~can_demote'
  BY <1>1, <1>2 DEF WorkerInv, can_demote
<1> QED
  BY <1>3 DEF WorkerInv

LEMMA UserKeepsMapInv ==
  ASSUME MapInv, NEW u \in User, UserStep(u), ~discarded'
  PROVE  MapInv'
<1> USE DEF MapInv
<1>c. ASSUME ListInv' PROVE q'.nr_elts["clean"] \in Nat
  BY <1>c DEF ListInv, AreLists, Links, List
<1>n. q.nr_elts["clean"] \in Nat /\ q.nr_elts["free"] \in Nat
  BY CountersAreSmall DEF List
<1>1. ASSUME NEW k \in Key, NEW op, hit(u, k, op) PROVE MapInv'
  <2>1. ListInv' /\ q'.nr_elts = q.nr_elts
    BY <1>1, HitKeepsLists
  <2>2. UNCHANGED <<wq, work, key, alloc, pc, cblock>>
    BY <1>1 DEF hit
  <2>3. KeyInv'
    BY <2>2, OthersKeepKeys
  <2>4. WorkerInv'
    BY <1>n, <2>1, <2>2, UserKeepsWorker
  <2> QED
    BY <2>1, <2>3, <2>4
<1>2. ASSUME NEW k \in Key, h_lookup(k) = {}, miss(k) PROVE MapInv'
  <2>1. UNCHANGED <<q, pending, dirty, alloc, key, hashed, nr_allocated, pc, cblock, writing>>
    BY <1>2 DEF miss
  <2>2. ListInv'
    BY <2>1 DEF ListInv, MovingBlockState, BlocksCounted
  <2>3. KeyInv'
    BY <1>2, MissKeepsKeys
  <2>4. WorkerInv'
    BY <1>n, <2>1, UserKeepsWorker
  <2> QED
    BY <2>2, <2>3, <2>4
<1>3. ASSUME NEW k \in Key, lookup_mapping_with_insert(u, k) PROVE MapInv'
  <2>1. CASE h_lookup(k) = {} /\ contains_work(k) /\ refused
    BY <2>1 DEF refused, vars, ListInv, KeyInv, WorkerInv, MovingBlockState, BlocksCounted,
       OneBlockPerKey, QueuedNotCached, can_demote, queued
  <2>2. CASE h_lookup(k) = {} /\ ~contains_work(k) /\ ~allocator_empty /\ insert_dirty(u, k)
    <3>1. ListInv' /\ q'.nr_elts["clean"] = q.nr_elts["clean"]
      BY <2>2, InsertKeepsLists
    <3>2. KeyInv'
      BY <2>2, InsertKeepsKeys
    <3>3. UNCHANGED pc
      BY <2>2 DEF insert_dirty
    <3>4. WorkerInv'
      BY <1>c, <1>n, <3>1, <3>3, UserKeepsWorker
    <3> QED
      BY <3>1, <3>2, <3>4
  <2> QED
    BY <1>1, <1>2, <1>3, <2>1, <2>2 DEF lookup_mapping_with_insert
<1>4. ASSUME NEW k \in Key, remove_mapping(u, k) PROVE MapInv'
  <2>1. ListInv' /\ q'.nr_elts["clean"] <= q.nr_elts["clean"]
    BY <1>4, DiscardKeepsLists
  <2>2. UNCHANGED <<wq, work, key, pc, cblock>> /\ alloc' \subseteq alloc
    BY <1>4 DEF remove_mapping, free_entry
  <2>3. KeyInv'
    BY <2>2, OthersKeepKeys
  <2>4. WorkerInv'
    BY <1>c, <2>1, <2>2, UserKeepsWorker
  <2> QED
    BY <2>1, <2>3, <2>4
<1>5. ASSUME NEW success, write_cache(u, success) PROVE MapInv'
  <2>1. ListInv' /\ q'.nr_elts["clean"] <= q.nr_elts["clean"]
    BY <1>5, WriteKeepsLists
  <2>2. UNCHANGED <<wq, work, key, alloc, pc, cblock>>
    BY <1>5 DEF write_cache, set_dirty_after_write, tableVars
  <2>3. KeyInv'
    BY <2>2, OthersKeepKeys
  <2>4. WorkerInv'
    BY <1>c, <2>1, <2>2, UserKeepsWorker
  <2> QED
    BY <2>1, <2>3, <2>4
<1> QED
  BY <1>1, <1>2, <1>3, <1>4, <1>5 DEF UserStep, lookup_mapping

\* The steps of the worker that only decide what to do next.
LEMMA DecisionKeepsLists ==
  ASSUME ListInv, UNCHANGED tableVars, UNCHANGED <<cblock, writing>>,
         pc \notin Moving, pc' \notin Moving
  PROVE  ListInv'
BY DEF ListInv, MovingBlockState, BlocksCounted, Moving, tableVars

LEMMA WorkerKeepsMapInv ==
  ASSUME MapInv, do_migration_work
  PROVE  MapInv'
<1> USE DEF MapInv
<1>1. CASE peak
  <2>1. pc = "peak" /\ pc' = "promotion?" /\ UNCHANGED <<cblock, writing, tableVars>>
    BY <1>1 DEF peak, goto
  <2>2. ListInv'
    BY <2>1, DecisionKeepsLists DEF Moving
  <2>3. WorkerInv'
    BY <2>1 DEF WorkerInv
  <2> QED
    BY <1>1, <2>2, <2>3, PeakKeepsKeys
<1>2. CASE promotion_free_to_clean
  <2>1. pc = "promotion?" /\ pc' = "PROMOTION"
    BY <1>2 DEF promotion_free_to_clean, goto
  <2>2. WorkerInv'
    BY <2>1 DEF WorkerInv, Moving
  <2> QED
    BY <1>2, <2>2, PromotionKeepsLists, PromotionKeepsKeys
<1>3. CASE no_promotion
  <2>1. /\ pc = "promotion?" /\ pc' = "demotion?" /\ allocator_empty
        /\ UNCHANGED <<wq, work, cblock, writing, tableVars>>
    BY <1>3 DEF no_promotion, goto
  <2>2. UNCHANGED <<wq, work, cblock, key, alloc, q>>
    BY <2>1 DEF tableVars
  <2>3. ListInv'
    BY <2>1, DecisionKeepsLists DEF Moving
  <2>4. KeyInv'
    BY <2>1, <2>2, OthersKeepKeys
  <2>5. WorkerInv'
    BY <2>1, <2>2 DEF WorkerInv
  <2> QED
    BY <2>3, <2>4, <2>5
<1>4. CASE demotion_clean_to_free
  <2>1. /\ pc = "demotion?" /\ pc' = "DEMOTION" /\ can_demote
        /\ cblock' = q.head["clean"] /\ q' = l_del(q, "clean", cblock')
        /\ pending' = pending \cup {cblock'}
        /\ UNCHANGED <<wq, work, dirty, alloc, key, hashed, nr_allocated, writing>>
    BY <1>4 DEF demotion_clean_to_free, goto
  <2>2. q.nr_elts["clean"] # 0
    <3>1. N \div 2 \in Nat /\ q.nr_elts["clean"] \in Nat
      BY MappingAssumption, CountersAreSmall DEF List
    <3> QED
      BY <2>1, <3>1 DEF can_demote
  <2>3. pc \notin Moving /\ pc' \in Moving \ {"PROMOTION"}
    BY <2>1 DEF Moving
  <2>4. dirty' = dirty \ {cblock'}
    BY <2>1, <2>2, <2>3, TakeHeadLists
  <2>5. ListInv'
    BY <2>1, <2>2, <2>3, <2>4, TakeKeepsLists
  <2>6. KeyInv'
    BY <2>1, OthersKeepKeys
  <2>7. WorkerInv'
    BY <2>1 DEF WorkerInv, Moving
  <2> QED
    BY <2>5, <2>6, <2>7
<1>5. CASE no_demotion
  <2>1. /\ pc = "demotion?" /\ pc' = "writeback?" /\ ~can_demote
        /\ UNCHANGED <<wq, work, cblock, writing, tableVars>>
    BY <1>5 DEF no_demotion, goto
  <2>2. UNCHANGED <<wq, work, cblock, key, alloc, q>>
    BY <2>1 DEF tableVars
  <2>3. ListInv'
    BY <2>1, DecisionKeepsLists DEF Moving
  <2>4. KeyInv'
    BY <2>1, <2>2, OthersKeepKeys
  <2>5. WorkerInv'
    BY <2>1, <2>2 DEF WorkerInv, can_demote
  <2> QED
    BY <2>3, <2>4, <2>5
<1>6. CASE writeback_dirty_to_clean /\ can_writeback
  <2>1. /\ pc = "writeback?" /\ pc' = "WRITEBACK" /\ q.nr_elts["dirty"] # 0
        /\ cblock' = q.head["dirty"] /\ q' = l_del(q, "dirty", cblock')
        /\ pending' = pending \cup {cblock'} /\ dirty' = dirty \ {cblock'}
        /\ UNCHANGED <<wq, work, alloc, key, hashed, nr_allocated, writing>>
    BY <1>6 DEF writeback_dirty_to_clean, can_writeback
  <2>2. pc \notin Moving /\ pc' \in Moving \ {"PROMOTION"}
    BY <2>1 DEF Moving
  <2>3. ListInv'
    BY <2>1, <2>2, TakeKeepsLists
  <2>4. KeyInv'
    BY <2>1, OthersKeepKeys
  <2>5. WorkerInv'
    BY <2>1 DEF WorkerInv, Moving
  <2> QED
    BY <2>3, <2>4, <2>5
<1>7. CASE writeback_dirty_to_clean /\ ~can_writeback
  <2>1. /\ pc = "writeback?" /\ pc' = "remove"
        /\ UNCHANGED <<wq, work, cblock, writing, q, pending, dirty, alloc, key, hashed, nr_allocated>>
    BY <1>7 DEF writeback_dirty_to_clean
  <2>2. UNCHANGED tableVars
    BY <2>1 DEF tableVars
  <2>3. ListInv'
    BY <2>1, <2>2, DecisionKeepsLists DEF Moving
  <2>4. KeyInv'
    BY <2>1, OthersKeepKeys
  <2>5. WorkerInv'
    BY <2>1 DEF WorkerInv
  <2> QED
    BY <2>3, <2>4, <2>5
<1>8. ASSUME NEW success, promotion_complete(success) PROVE MapInv'
  <2>1. /\ pc = "PROMOTION" /\ pc' = "remove" /\ pending' = pending \ {cblock}
        /\ UNCHANGED <<wq, work, dirty, key, cblock, writing>>
    BY <1>8 DEF promotion_complete, goto
  <2>2. pc \in Moving /\ pc' \notin Moving /\ hashed = alloc \ {cblock} /\ cblock \in alloc
    BY <2>1 DEF Moving, ListInv, MovingBlockState
  <2>3. ListInv' /\ alloc' \subseteq alloc
    <3>1. CASE success
      <4>1. /\ hashed' = hashed \cup {cblock} /\ UNCHANGED <<alloc, nr_allocated>>
            /\ q' = l_add_tail(q, home(dirty, cblock), cblock)
        BY <1>8, <3>1 DEF promotion_complete
      <4>2. hashed' = alloc
        BY <2>2, <4>1
      <4> QED
        BY <2>1, <2>2, <4>1, <4>2, PutKeepsLists
    <3>2. CASE ~success
      <4>1. free_entry(cblock, q) /\ hashed' = alloc \ {cblock}
        BY <1>8, <2>2, <3>2 DEF promotion_complete
      <4> QED
        BY <2>1, <2>2, <4>1, FreeKeepsLists
    <3> QED
      BY <3>1, <3>2
  <2>4. KeyInv'
    BY <2>1, <2>3, OthersKeepKeys
  <2>5. WorkerInv'
    BY <2>1 DEF WorkerInv
  <2> QED
    BY <2>3, <2>4, <2>5
<1>9. ASSUME NEW success, demotion_complete(success) PROVE MapInv'
  <2>1. /\ pc = "DEMOTION" /\ pc' = "remove" /\ pending' = pending \ {cblock}
        /\ UNCHANGED <<wq, work, dirty, key, cblock, writing>>
    BY <1>9 DEF demotion_complete, goto
  <2>2. pc \in Moving /\ pc' \notin Moving /\ hashed = alloc /\ cblock \in alloc
    BY <2>1 DEF Moving, ListInv, MovingBlockState
  <2>3. ListInv' /\ alloc' \subseteq alloc
    <3>1. CASE success
      <4>1. free_entry(cblock, q) /\ h_remove(cblock)
        BY <1>9, <3>1 DEF demotion_complete
      <4>2. cblock \in h_lookup(key[cblock])
        BY <2>2 DEF h_lookup
      <4>3. ASSUME NEW f \in h_lookup(key[cblock]) PROVE f = cblock
        BY <2>2 DEF h_lookup, KeyInv, OneBlockPerKey
      <4>4. hashed' = alloc \ {cblock}
        BY <2>2, <4>1, <4>2, <4>3 DEF h_remove
      <4> QED
        BY <2>1, <2>2, <4>1, <4>4, FreeKeepsLists
    <3>2. CASE ~success
      <4>1. /\ UNCHANGED <<hashed, alloc, nr_allocated>>
            /\ q' = l_add_tail(q, home(dirty, cblock), cblock)
        BY <1>9, <3>2 DEF demotion_complete
      <4> QED
        BY <2>1, <2>2, <4>1, PutKeepsLists
    <3> QED
      BY <3>1, <3>2
  <2>4. KeyInv'
    BY <2>1, <2>3, OthersKeepKeys
  <2>5. WorkerInv'
    BY <2>1 DEF WorkerInv
  <2> QED
    BY <2>3, <2>4, <2>5
<1>10. ASSUME NEW success, writeback_complete(success) PROVE MapInv'
  <2>1. /\ pc = "WRITEBACK" /\ pc' = "remove" /\ pending' = pending \ {cblock}
        /\ UNCHANGED <<wq, work, dirty, alloc, key, hashed, nr_allocated, cblock, writing>>
        /\ \/ q' = l_add_tail(q, home(dirty, cblock), cblock)
           \/ q' = l_add_head(q, home(dirty, cblock), cblock)
    BY <1>10 DEF writeback_complete, goto
  <2>2. pc \in Moving /\ pc' \notin Moving /\ hashed = alloc
    BY <2>1 DEF Moving, ListInv, MovingBlockState
  <2>3. ListInv'
    BY <2>1, <2>2, PutKeepsLists
  <2>4. KeyInv'
    BY <2>1, OthersKeepKeys
  <2>5. WorkerInv'
    BY <2>1 DEF WorkerInv
  <2> QED
    BY <2>3, <2>4, <2>5
<1>11. CASE remove
  <2>1. pc = "remove" /\ pc' = "peak" /\ UNCHANGED <<cblock, writing, tableVars>>
    BY <1>11 DEF remove, goto
  <2>2. ListInv'
    BY <2>1, DecisionKeepsLists DEF Moving
  <2>3. WorkerInv'
    BY <2>1 DEF WorkerInv
  <2> QED
    BY <1>11, <2>2, <2>3, RemoveKeepsKeys
<1> QED
  BY <1>1, <1>2, <1>3, <1>4, <1>5, <1>6, <1>7, <1>8, <1>9, <1>10, <1>11 DEF do_migration_work

-----------------------------------------------------------------------------
\* init_mapping: all blocks are on the free list, in order.
LEMMA InitLists ==
  ASSUME init_mapping
  PROVE  AreLists(q, SetsOf({}, {}, {}))
<1> DEFINE M == SetsOf({}, {}, {})
           s == [i \in 1..N |-> i - 1]
<1>1. N \in Nat /\ N # 0 /\ INDEXER_NULL \notin Entry
  BY MappingAssumption
<1>2. /\ q = [next |-> q.next, prev |-> q.prev, head |-> q.head, tail |-> q.tail,
              nr_elts |-> q.nr_elts]
      /\ q.next = [e \in Entry |-> IF e = N - 1 THEN INDEXER_NULL ELSE e + 1]
      /\ q.prev = [e \in Entry |-> IF e = 0 THEN INDEXER_NULL ELSE e - 1]
      /\ q.head = [l \in List |-> IF l = "free" THEN 0 ELSE INDEXER_NULL]
      /\ q.tail = [l \in List |-> IF l = "free" THEN N - 1 ELSE INDEXER_NULL]
      /\ q.nr_elts = [l \in List |-> IF l = "free" THEN N ELSE 0]
  BY DEF init_mapping
<1>3. q \in Links
  <2>1. q.next \in [Entry -> Ref] /\ q.prev \in [Entry -> Ref]
    BY <1>1, <1>2 DEF Entry, Ref
  <2>2. q.head \in [List -> Ref] /\ q.tail \in [List -> Ref] /\ q.nr_elts \in [List -> Nat]
    BY <1>1, <1>2 DEF Entry, Ref
  <2> QED
    BY <1>2, <2>1, <2>2 DEF Links
<1>4. M["free"] = Entry /\ M["clean"] = {} /\ M["dirty"] = {}
  BY SetsOfEach
<1>5. M \in [List -> SUBSET Entry] /\ \A l, m \in List : l # m => M[l] \cap M[m] = {}
  <2>1. \A l \in List : M[l] \in SUBSET Entry
    BY <1>4 DEF List
  <2> QED
    BY <1>4, <2>1 DEF SetsOf, List
<1> HIDE DEF M
<1>6. IsList(q, "free", Entry)
  <2>1. q.nr_elts["free"] = N /\ q.head["free"] = 0 /\ q.tail["free"] = N - 1
    BY <1>2 DEF List
  <2>2. Enumerates(s, N, Entry)
    <3>1. s \in [1..N -> Entry] /\ \A i, j \in 1..N : s[i] = s[j] => i = j
      BY <1>1 DEF Entry
    <3>2. ASSUME NEW e \in Entry PROVE \E i \in 1..N : s[i] = e
      <4>1. e + 1 \in 1..N /\ s[e + 1] = e
        BY <1>1 DEF Entry
      <4> QED
        BY <4>1
    <3> QED
      BY <3>1, <3>2 DEF Enumerates
  <2>3. Spells(q, "free", s)
    <3>1. s[1] = 0 /\ s[N] = N - 1
      BY <1>1
    <3>2. ASSUME NEW i \in 1..N
          PROVE  /\ q.next[s[i]] = IF i = N THEN INDEXER_NULL ELSE s[i + 1]
                 /\ q.prev[s[i]] = IF i = 1 THEN INDEXER_NULL ELSE s[i - 1]
      <4>1. s[i] = i - 1 /\ i - 1 \in Entry
        BY <1>1 DEF Entry
      <4>2. i # N => s[i + 1] = i
        BY <1>1
      <4>3. i # 1 => s[i - 1] = i - 2
        BY <1>1
      <4> QED
        BY <1>1, <1>2, <4>1, <4>2, <4>3
    <3> HIDE DEF s
    <3> QED
      BY <1>1, <2>1, <3>1, <3>2 DEF Spells
  <2> QED
    BY <2>1, <2>2, <2>3 DEF IsList
<1>7. ASSUME NEW l \in {"clean", "dirty"} PROVE IsList(q, l, {})
  <2>1. q.nr_elts[l] = 0 /\ q.head[l] = INDEXER_NULL /\ q.tail[l] = INDEXER_NULL
    BY <1>2 DEF List
  <2>2. Enumerates(<<>>, 0, {}) /\ Spells(q, l, <<>>)
    BY <2>1 DEF Enumerates, Spells
  <2> QED
    BY <2>1, <2>2 DEF IsList
<1>8. \A l \in List : IsList(q, l, M[l])
  BY <1>4, <1>6, <1>7 DEF List
<1> QED
  BY <1>3, <1>5, <1>8 DEF AreLists, M

LEMMA InitMapInv == init_mapping => MapInv
<1> SUFFICES ASSUME init_mapping PROVE MapInv
  OBVIOUS
<1>1. /\ wq = <<>> /\ work = NoKey /\ pending = {} /\ dirty = {} /\ alloc = {} /\ hashed = {}
      /\ key = [e \in Entry |-> NoKey] /\ nr_allocated = 0 /\ pc = "peak"
      /\ cblock = INDEXER_NULL /\ writing = [u \in User |-> INDEXER_NULL]
      /\ q.nr_elts = [l \in List |-> IF l = "free" THEN N ELSE 0]
  BY DEF init_mapping, QueueInit
<1>2. AreLists(q, SetsOf(alloc, pending, dirty))
  BY <1>1, InitLists
<1>3. BlocksCounted
  <2>1. N \in Nat /\ q.nr_elts["free"] = N /\ q.nr_elts["clean"] = 0 /\ q.nr_elts["dirty"] = 0
    BY <1>1, MappingAssumption DEF List
  <2> QED
    BY <1>1, <2>1 DEF BlocksCounted, Moving
<1>4. MovingBlockState
  BY <1>1 DEF MovingBlockState, Moving
<1>5. ListInv
  BY <1>1, <1>2, <1>3, <1>4 DEF ListInv, Moving, Ref
<1>6. KeyInv
  BY <1>1 DEF KeyInv, OneBlockPerKey, QueuedNotCached
<1>7. WorkerInv
  BY <1>1 DEF WorkerInv
<1> QED
  BY <1>5, <1>6, <1>7 DEF MapInv

-----------------------------------------------------------------------------
(* What MapInv gives. *)

LEMMA MapInvTypes == MapInv /\ discarded \in BOOLEAN => TypeOK
<1> SUFFICES ASSUME MapInv, discarded \in BOOLEAN PROVE TypeOK
  OBVIOUS
<1> USE DEF MapInv
<1>1. q \in Links /\ alloc \subseteq Entry /\ dirty \subseteq Entry /\ cblock \in Ref
      /\ writing \in [User -> Ref]
  BY DEF ListInv, AreLists
<1>2. pending \subseteq alloc /\ hashed \subseteq alloc
  BY DEF ListInv, MovingBlockState
<1>3. /\ \A l \in List : q.nr_elts[l] \in 0..N
      /\ nr_allocated \in 0..N /\ 0..N \subseteq 0..UINT_MAX
  BY CountersAreSmall, MappingAssumption
<1>4. q.nr_elts \in [List -> 0..UINT_MAX]
  BY <1>1, <1>3 DEF Links
<1>5. q \in [next : [Entry -> Ref], prev : [Entry -> Ref], head : [List -> Ref],
             tail : [List -> Ref], nr_elts : [List -> 0..UINT_MAX]]
  BY <1>1, <1>4 DEF Links
<1>6. /\ wq \in Seq(Key) /\ work \in Key \cup {NoKey} /\ key \in [Entry -> Key \cup {NoKey}]
      /\ pc \in {"peak", "promotion?", "demotion?", "writeback?", "remove"} \cup Moving
  BY DEF KeyInv, WorkerInv
<1>7. nr_allocated \in 0..UINT_MAX
  BY <1>3
<1>8. pending \subseteq Entry /\ hashed \subseteq Entry
  BY <1>1, <1>2
<1> QED
  BY <1>1, <1>3, <1>5, <1>6, <1>7, <1>8 DEF TypeOK, Ref

LEMMA MapInvLists == MapInv => ListsMatchBits
<1> SUFFICES ASSUME MapInv, NEW l \in List
             PROVE  \E s \in [1..q.nr_elts[l] -> Entry] :
                      Enumerates(s, q.nr_elts[l], members(l)) /\ Spells(q, l, s)
  BY DEF ListsMatchBits
<1>1. members(l) = SetsOf(alloc, pending, dirty)[l]
  <2>1. CASE l = "free"
    BY <2>1 DEF members, SetsOf
  <2>2. CASE l = "clean"
    BY <2>2 DEF members, SetsOf
  <2>3. CASE l = "dirty"
    BY <2>3 DEF members, SetsOf
  <2> QED
    BY <2>1, <2>2, <2>3 DEF List
<1>2. IsList(q, l, members(l)) /\ members(l) \subseteq Entry
  BY <1>1 DEF MapInv, ListInv, AreLists
<1>3. PICK s : Enumerates(s, q.nr_elts[l], members(l)) /\ Spells(q, l, s)
  BY <1>2 DEF IsList
<1>4. s \in [1..q.nr_elts[l] -> Entry]
  BY <1>2, <1>3 DEF Enumerates
<1> QED
  BY <1>3, <1>4

LEMMA MapInvWork == MapInv => NoWorkWithoutMigration
<1> SUFFICES ASSUME MapInv, pc = "writeback?", allocator_empty PROVE can_writeback
  BY DEF NoWorkWithoutMigration
<1>0. q.nr_elts["free"] = 0
  <2>1. /\ AreLists(q, SetsOf(alloc, pending, dirty)) /\ "free" \in List
        /\ q.head["free"] = INDEXER_NULL
    BY DEF MapInv, ListInv, List, allocator_empty, l_empty
  <2> QED
    BY <2>1, HeadOfLists
<1>1. pc \notin Moving /\ q.nr_elts["free"] = 0 /\ ~can_demote /\ pending = {}
  BY <1>0 DEF Moving, MapInv, WorkerInv, ListInv, MovingBlockState
<1>2. /\ N \in Nat /\ N # 0 /\ q.nr_elts["clean"] \in Nat /\ q.nr_elts["dirty"] \in Nat
      /\ q.nr_elts["free"] + q.nr_elts["clean"] + q.nr_elts["dirty"] + 0 = N
  BY <1>1, MappingAssumption, CountersAreSmall DEF MapInv, ListInv, BlocksCounted, List
<1>3. q.nr_elts["clean"] <= N \div 2 /\ N \div 2 < N
  BY <1>1, <1>2 DEF can_demote
<1>4. q.nr_elts["dirty"] # 0
  BY <1>1, <1>2, <1>3
<1> QED
  BY <1>1, <1>4 DEF can_writeback

-----------------------------------------------------------------------------
(* The DISCARD of the block in flight, and the invariant of all behaviours. *)

\* A discarded block keeps the types, whatever becomes of the lists.
LEMMA DiscardIsTyped ==
  ASSUME MapInv, discarded \in BOOLEAN, NEW u \in User, NEW k, remove_mapping(u, k), discarded'
  PROVE  TypeOK' /\ pc' \in Moving /\ OneBlockPerKey' /\ hashed' \subseteq alloc'
<1>1. PICK e \in h_lookup(k) : /\ h_remove(e)
                              /\ free_entry(e, l_del(q, home(dirty, e), e))
                              /\ discarded' = (e \in pending)
  BY DEF remove_mapping
<1>2. UNCHANGED <<wq, work, pending, dirty, key, pc, cblock, writing>>
  BY DEF remove_mapping
<1>3. TypeOK
  BY MapInvTypes
<1>4. pc \in Moving /\ alloc' \subseteq alloc /\ discarded' \in BOOLEAN
  BY <1>1 DEF MapInv, ListInv, MovingBlockState, free_entry
<1>5. hashed' \subseteq hashed
  BY <1>1 DEF h_remove
<1>6. /\ q \in Links /\ e \in Entry /\ home(dirty, e) \in List
      /\ \A l \in List : q.nr_elts[l] \in 0..N
      /\ N \in Nat /\ UINT_MAX \in Nat /\ N < UINT_MAX
  <2>1. q \in Links /\ hashed \subseteq Entry
    BY <1>3 DEF MapInv, ListInv, AreLists, TypeOK
  <2>2. \A l \in List : q.nr_elts[l] \in 0..N
    BY CountersAreSmall DEF MapInv
  <2>3. e \in Entry /\ home(dirty, e) \in List
    BY <1>1, <2>1 DEF h_lookup, home, List
  <2> QED
    BY <2>1, <2>2, <2>3, MappingAssumption
<1>7. nr_allocated' \in 0..UINT_MAX
  <2>1. nr_allocated \in 0..N
    BY CountersAreSmall DEF MapInv
  <2> QED
    BY <1>1, <1>6, <2>1 DEF free_entry, Dec
<1> DEFINE x == l_del(q, home(dirty, e), e)
<1>8. /\ x.next \in [Entry -> Ref] /\ x.prev \in [Entry -> Ref]
      /\ x.head \in [List -> Ref] /\ x.tail \in [List -> Ref]
      /\ x.nr_elts \in [List -> 0..UINT_MAX]
  <2>1. q.nr_elts \in [List -> 0..UINT_MAX] /\ Dec(q.nr_elts[home(dirty, e)]) \in 0..UINT_MAX
    <3>1. q.nr_elts \in [List -> Nat]
      BY <1>6 DEF Links
    <3> QED
      BY <1>6, <3>1 DEF Dec
  <2> QED
    BY <1>6, <2>1 DEF Links, l_del, Ref
<1> HIDE DEF x
<1>9. /\ q'.next \in [Entry -> Ref] /\ q'.prev \in [Entry -> Ref]
      /\ q'.head \in [List -> Ref] /\ q'.tail \in [List -> Ref]
      /\ q'.nr_elts \in [List -> 0..UINT_MAX]
  <2>1. q' = l_add_tail(x, "free", e)
    BY <1>1 DEF free_entry, x
  <2>2. "free" \in List /\ x.tail["free"] \in Ref /\ e \in Ref
    BY <1>6, <1>8 DEF List, Ref
  <2>3. Inc(x.nr_elts["free"]) \in 0..UINT_MAX
    BY <1>6, <1>8, <2>2 DEF Inc
  <2> QED
    BY <1>8, <2>1, <2>2, <2>3 DEF l_add_tail, Ref
<1>10. q' \in [next : [Entry -> Ref], prev : [Entry -> Ref], head : [List -> Ref],
              tail : [List -> Ref], nr_elts : [List -> 0..UINT_MAX]]
  <2>1. q' = [next |-> q'.next, prev |-> q'.prev, head |-> q'.head, tail |-> q'.tail,
             nr_elts |-> q'.nr_elts]
    BY <1>1 DEF free_entry, l_add_tail
  <2> QED
    BY <1>9, <2>1
<1>11. TypeOK'
  BY <1>2, <1>3, <1>4, <1>5, <1>7, <1>10 DEF TypeOK, Ref, followed
<1>12. OneBlockPerKey'
  BY <1>2, <1>4 DEF MapInv, KeyInv, OneBlockPerKey
<1>13. hashed' \subseteq alloc'
  <2>1. hashed \subseteq alloc /\ \A f \in hashed : key[f] = key[e] => f = e
    BY <1>1 DEF MapInv, ListInv, MovingBlockState, KeyInv, OneBlockPerKey, h_lookup
  <2>2. alloc' = alloc \ {e} /\ hashed' = hashed \ {e}
    BY <1>1, <2>1 DEF free_entry, h_remove, h_lookup
  <2> QED
    BY <2>1, <2>2
<1> QED
  BY <1>2, <1>4, <1>11, <1>12, <1>13

\* Nothing else makes "discarded" true.
LEMMA OnlyDiscards ==
  ASSUME ~discarded, discarded \in BOOLEAN, NEW u \in User, UserStep(u)
  PROVE  /\ discarded' \in BOOLEAN
         /\ discarded' => \E k \in Key : remove_mapping(u, k)
<1>1. ASSUME NEW k \in Key, NEW op, lookup_mapping(u, k, op) PROVE discarded' = discarded
  BY <1>1 DEF lookup_mapping, hit, miss
<1>2. ASSUME NEW k \in Key, lookup_mapping_with_insert(u, k) PROVE discarded' = discarded
  BY <1>2 DEF lookup_mapping_with_insert, hit, miss, insert_dirty, refused, vars
<1>3. ASSUME NEW k \in Key, remove_mapping(u, k) PROVE discarded' \in BOOLEAN
  BY <1>3 DEF remove_mapping
<1>4. ASSUME NEW success, write_cache(u, success) PROVE discarded' = discarded
  BY <1>4 DEF write_cache
<1> QED
  BY <1>1, <1>2, <1>3, <1>4 DEF UserStep

LEMMA WorkerDiscardsNothing ==
  ASSUME do_migration_work
  PROVE  discarded' = discarded
BY DEF do_migration_work, peak, promotion_free_to_clean, no_promotion, demotion_clean_to_free,
   no_demotion, writeback_dirty_to_clean, promotion_complete, demotion_complete,
   writeback_complete, remove

LEMMA InitMappingInv == init_mapping => MappingInv
<1> SUFFICES ASSUME init_mapping PROVE MappingInv
  OBVIOUS
<1>1. discarded = FALSE
  BY DEF init_mapping
<1> QED
  BY <1>1, InitMapInv DEF MappingInv

LEMMA MappingInvIsInductive == MappingInv /\ [Next]_vars => MappingInv'
<1> SUFFICES ASSUME MappingInv, [Next]_vars PROVE MappingInv'
  OBVIOUS
<1>1. CASE Worker
  <2>1. MapInv /\ do_migration_work /\ discarded' = discarded /\ ~discarded
    BY <1>1, WorkerDiscardsNothing DEF Worker, followed, MappingInv
  <2> QED
    BY <2>1, WorkerKeepsMapInv DEF MappingInv, followed
<1>2. ASSUME followed, NEW u \in User, UserStep(u) PROVE MappingInv'
  <2>1. MapInv /\ ~discarded /\ discarded \in BOOLEAN
    BY <1>2 DEF followed, MappingInv
  <2>2. /\ discarded' \in BOOLEAN
        /\ discarded' => \E k \in Key : remove_mapping(u, k)
    BY <1>2, <2>1, OnlyDiscards
  <2>3. CASE ~discarded'
    BY <1>2, <2>1, <2>2, <2>3, UserKeepsMapInv DEF MappingInv, followed
  <2>4. CASE discarded'
    BY <2>1, <2>2, <2>4, DiscardIsTyped DEF MappingInv, followed
  <2> QED
    BY <2>3, <2>4
<1>3. CASE UNCHANGED vars
  BY <1>3 DEF vars, MappingInv, followed, TypeOK, MapInv, ListInv, KeyInv, WorkerInv,
     MovingBlockState, BlocksCounted, OneBlockPerKey, QueuedNotCached, can_demote, queued
<1> QED
  BY <1>1, <1>2, <1>3 DEF Next

-----------------------------------------------------------------------------
\* The variables keep their types; in particular no counter of a list or of
\* the allocator ever wraps, although l_del and free_entry decrement them
\* without looking (mapping.c:99, 199), before a block in flight is discarded.
THEOREM TablesAreTyped == Spec => []TypeOK
<1>1. MappingInv => TypeOK
  BY MapInvTypes DEF MappingInv, followed
<1> QED
  BY <1>1, InitMappingInv, MappingInvIsInductive, PTL DEF Spec

\* For every number of blocks and users, and whatever the interleaving of
\* lookups, writes, discards and migrations: the three lists are intact chains
\* that hold exactly the entries their bits say, and every block is accounted
\* for, as long as no user discards the very block that is in flight.
THEOREM ListsStayIntact == Spec => [](ListsMatchBits /\ EveryBlockCounted)
<1>1. MappingInv => ListsMatchBits /\ EveryBlockCounted
  BY MapInvLists DEF MappingInv, MapInv, ListInv, EveryBlockCounted, ListsMatchBits
<1> QED
  BY <1>1, InitMappingInv, MappingInvIsInductive, PTL DEF Spec

\* No block is lost: each is free, on the clean or the dirty list, or the one
\* being moved, and nr_allocated counts those that are not free.
THEOREM NoBlockIsLost == Spec => []EveryBlockCounted
  BY ListsStayIntact, PTL

\* The states of the block in flight that the comments of the _complete
\* functions give (mapping.c:387, 419, 460) are the states they find, although
\* the lock is free while the data moves; only a DISCARD of that block, which
\* remove_mapping does not refuse, brings it out of them.
THEOREM BlockInFlightIsAsCommented == Spec => []OnlyDiscardDisturbs
<1>1. MappingInv => OnlyDiscardDisturbs
  BY DEF MappingInv, MapInv, ListInv, OnlyDiscardDisturbs
<1> QED
  BY <1>1, InitMappingInv, MappingInvIsInductive, PTL DEF Spec

\* No file block is ever held by two cache blocks, although a whole-block write
\* (lookup_mapping_with_insert) and a promotion may race for it.
THEOREM KeysAreUnique == Spec => []OneBlockPerKey
<1>1. MappingInv => OneBlockPerKey
  BY DEF MappingInv, followed, MapInv, KeyInv
<1> QED
  BY <1>1, InitMappingInv, MappingInvIsInductive, PTL DEF Spec

\* When do_migration_work has found neither a free block nor enough clean ones,
\* there is a dirty block to write back, unless a DISCARD has freed a block in
\* between: only then is a work dropped without a migration tried for it.
THEOREM WorkIsNeverIdle == Spec => []NoWorkWithoutMigration
<1>1. discarded /\ pc \in Moving => NoWorkWithoutMigration
  BY DEF NoWorkWithoutMigration, Moving
<1>2. MappingInv => NoWorkWithoutMigration
  BY <1>1, MapInvWork DEF MappingInv, followed
<1> QED
  BY <1>2, InitMappingInv, MappingInvIsInductive, PTL DEF Spec

=============================================================================
