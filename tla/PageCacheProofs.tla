--------------------------- MODULE PageCacheProofs ---------------------------
(***************************************************************************)
(* Proofs about the page cache of upage.c and lru.c, for every size of the *)
(* cache and of the file, and whatever its callers write and read again.   *)
(*                                                                         *)
(* Reads make move_to_lru_head leave the links of the LRU list wrong.      *)
(* What survives is that a predecessor is always a page in use whose next  *)
(* leads back (LinkInv).  It is enough: the code changes links only of     *)
(* pages in use, never of pages on the free list, so no page with data is  *)
(* handed out.  Only a read that finds a page not in use and moves it ends *)
(* that (stray); types and the progress of calls survive even then, as no  *)
(* more pages are counted free than are not in use (Fits).                 *)
(***************************************************************************)
EXTENDS PageCache, FiniteSetTheorems, SequenceTheorems, TLAPS

FrameOK ==
  /\ next \in [Page -> Page \cup {NULL}]
  /\ prev \in [Page -> Page \cup {NULL}]
  /\ index \in [Page -> Index \cup {NULL}]
  /\ lru \in [head : Page \cup {NULL}, tail : Page \cup {NULL}]
  /\ free \in [head : Page \cup {NULL}, nr_free : 0..CACHE_SIZE]
  /\ hash \in [Index -> Seq(Page)]

\* Calls under way.
Calls == [op : {"write", "read", "direct write", "direct read"},
          at : 0..PAGES, left : 0..PAGES, val : Val \cup {Blank}]

CallInv ==
  call # NULL =>
    /\ call \in Calls
    /\ call.at + call.left <= PAGES
    /\ call.op \in {"write", "direct write"} => call.val \in Val

DataOK ==
  /\ data \in [Page -> Val \cup {Blank}]
  /\ store \in [Index -> Val \cup {Blank}]
  /\ evict \in 0..(CACHE_SIZE - 1)
  /\ got = NULL \/ got \in [index : Index, val : Val \cup {Blank}]
  /\ process \in {"up", "exited", "crashed"}
  /\ lost \subseteq Index
  /\ stray \in BOOLEAN

\* No more pages are counted free than are not in use.
Fits == free.nr_free + Cardinality(InUse) <= CACHE_SIZE

TypeInv == FrameOK /\ Fits /\ CallInv /\ DataOK

LinkInv == \A p \in Page : prev[p] # NULL => prev[p] \in InUse /\ next[prev[p]] = p

Counted == free.nr_free = Cardinality(Page \ InUse)

FrameInv == FrameOK /\ LinkInv /\ Counted /\ FreeListIsWhole

CacheInv == TypeInv /\ HashFindsPages /\ (~stray => FrameInv)

-----------------------------------------------------------------------------
\* NULL is no page and no page number.
LEMMA NullApart == NULL \notin Page /\ NULL \notin Index /\ Page \subseteq Nat /\ Index \subseteq Nat
  BY CacheAssumption DEF Page, Index

\* Pages are finitely many, so the free ones can be counted.
LEMMA FreeCount ==
  ASSUME NEW S \in SUBSET Page
  PROVE  IsFiniteSet(S) /\ Cardinality(S) \in 0..CACHE_SIZE
<1>1. IsFiniteSet(Page) /\ Cardinality(Page) = CACHE_SIZE
  <2>1. 0 \in Int /\ CACHE_SIZE - 1 \in Int /\ CACHE_SIZE - 1 >= 0
    BY CacheAssumption
  <2> QED
    BY <2>1, FS_Interval, CacheAssumption DEF Page
<1>2. IsFiniteSet(S) /\ Cardinality(S) <= CACHE_SIZE
  BY <1>1, FS_Subset
<1>3. Cardinality(S) \in Nat
  BY <1>2, FS_CardinalityType
<1> QED
  BY <1>2, <1>3, CacheAssumption

-----------------------------------------------------------------------------
(* What the list operations do to links, lists and hash table. *)

\* No page has pg as predecessor but the one after it, and no page but pg has
\* pg's predecessor as predecessor.
LEMMA LinksApart ==
  ASSUME FrameOK, LinkInv, NEW pg \in Page, NEW p \in Page, p # pg, prev[p] # NULL
  PROVE  (prev[p] = pg => p = next[pg]) /\ (prev[pg] # NULL => prev[p] # prev[pg])
  BY DEF LinkInv

LEMMA RemoveKeepsLinks ==
  ASSUME FrameOK, LinkInv, NEW pg \in InUse, remove_from_lru(pg)
  PROVE  /\ InUse' = InUse \ {pg}
         /\ LinkInv'
<1>1. pg \in Page /\ NULL \notin Page /\ NULL \notin Index
  BY NullApart DEF InUse
<1>2. index' = [index EXCEPT ![pg] = NULL]
  BY DEF remove_from_lru
<1>3. InUse' = InUse \ {pg}
  BY <1>1, <1>2 DEF InUse, FrameOK
<1>4. ASSUME NEW p \in Page, prev'[p] # NULL
      PROVE  prev'[p] \in InUse' /\ next'[prev'[p]] = p
  <2>1. p # pg /\ prev'[p] = IF p = next[pg] THEN prev[pg] ELSE prev[p]
    BY <1>1, <1>4 DEF remove_from_lru
  <2>2. CASE p = next[pg]
    <3>1. prev'[p] = prev[pg] /\ prev[pg] # NULL /\ prev[pg] \in InUse /\ next[prev[pg]] = pg
      BY <1>1, <1>4, <2>1, <2>2 DEF LinkInv
    <3>2. prev[pg] # pg
      BY <2>1, <2>2, <3>1
    <3>3. next'[prev[pg]] = next[pg]
      BY <1>1, <3>1, <3>2 DEF remove_from_lru, InUse
    <3> QED
      BY <1>3, <2>2, <3>1, <3>2, <3>3
  <2>3. CASE p # next[pg]
    <3>1. prev'[p] = prev[p] /\ prev[p] # NULL /\ prev[p] \in InUse /\ next[prev[p]] = p
      BY <1>4, <2>1, <2>3 DEF LinkInv
    <3>2. prev[p] # pg /\ prev[p] # prev[pg]
      BY <1>1, <2>1, <2>3, <3>1, LinksApart
    <3>3. next'[prev[p]] = next[prev[p]]
      BY <3>1, <3>2 DEF remove_from_lru, InUse
    <3> QED
      BY <1>3, <3>1, <3>2, <3>3
  <2> QED
    BY <2>2, <2>3
<1> QED
  BY <1>3, <1>4 DEF LinkInv

LEMMA AddKeepsLinks ==
  ASSUME FrameOK, LinkInv, NEW k \in Index, free.head \in Page, free.head \notin InUse,
         add_to_lru_head(k)
  PROVE  /\ InUse' = InUse \cup {free.head}
         /\ LinkInv'
<1> DEFINE pg == free.head
<1>1. pg \in Page /\ pg \notin InUse /\ NULL \notin Page /\ k # NULL
  BY NullApart
<1>2. /\ index' = [index EXCEPT ![pg] = k] /\ next' = [next EXCEPT ![pg] = lru.head]
      /\ prev' = [p \in Page |-> IF p = lru.head THEN pg ELSE IF p = pg THEN NULL ELSE prev[p]]
  BY DEF add_to_lru_head
<1> HIDE DEF pg
<1>3. InUse' = InUse \cup {pg}
  BY <1>1, <1>2 DEF InUse, FrameOK
<1>4. ASSUME NEW p \in Page, prev'[p] # NULL
      PROVE  prev'[p] \in InUse' /\ next'[prev'[p]] = p
  <2>1. CASE p = lru.head
    BY <1>1, <1>2, <1>3, <2>1 DEF FrameOK
  <2>2. CASE p # lru.head
    <3>1. prev'[p] = prev[p] /\ prev[p] \in InUse /\ next[prev[p]] = p
      BY <1>2, <1>4, <2>2 DEF LinkInv
    <3> QED
      BY <1>1, <1>2, <1>3, <3>1 DEF FrameOK, InUse
  <2> QED
    BY <2>1, <2>2
<1> QED
  BY <1>3, <1>4 DEF LinkInv, pg

LEMMA MoveKeepsLinks ==
  ASSUME FrameOK, LinkInv, NEW pg \in InUse, move_to_lru_head(pg), UNCHANGED index
  PROVE  /\ InUse' = InUse
         /\ LinkInv'
         /\ \A p \in Page \ InUse : next'[p] = next[p]
<1>1. pg \in Page /\ NULL \notin Page
  BY NullApart DEF InUse
<1>2. InUse' = InUse
  BY DEF InUse
<1>3. CASE prev[pg] = NULL
  <2>1. next' = next /\ prev' = prev
    BY <1>3 DEF move_to_lru_head
  <2> QED
    BY <1>2, <2>1 DEF LinkInv
<1>4. CASE prev[pg] # NULL
  <2>1. /\ next' = [next EXCEPT ![prev[pg]] = next[pg], ![pg] = lru.head]
        /\ prev' = [p \in Page |-> IF p = pg THEN NULL
                                   ELSE IF p = next[pg] THEN prev[pg] ELSE prev[p]]
    BY <1>4 DEF move_to_lru_head
  <2>2. prev[pg] \in InUse /\ prev[pg] \in Page /\ next[prev[pg]] = pg
    BY <1>1, <1>4 DEF LinkInv, InUse
  <2>3. \A p \in Page : p # pg /\ p # prev[pg] => next'[p] = next[p]
    BY <2>1 DEF FrameOK
  <2>4. ASSUME NEW p \in Page, prev'[p] # NULL
        PROVE  prev'[p] \in InUse' /\ next'[prev'[p]] = p
    <3>1. p # pg /\ prev'[p] = IF p = next[pg] THEN prev[pg] ELSE prev[p]
      BY <2>1, <2>4
    <3>2. CASE p = next[pg]
      <4>1. prev[pg] # pg
        BY <2>2, <3>1, <3>2
      <4> QED
        BY <1>2, <2>1, <2>2, <3>1, <3>2, <4>1 DEF FrameOK
    <3>3. CASE p # next[pg]
      <4>1. prev'[p] = prev[p] /\ prev[p] \in InUse /\ next[prev[p]] = p /\ prev[p] # NULL
        BY <2>4, <3>1, <3>3 DEF LinkInv
      <4>2. prev[p] # pg /\ prev[p] # prev[pg]
        BY <1>1, <1>4, <3>1, <3>3, <4>1, LinksApart
      <4> QED
        BY <1>2, <2>3, <4>1, <4>2 DEF InUse
    <3> QED
      BY <3>2, <3>3
  <2> QED
    BY <1>2, <2>2, <2>3, <2>4 DEF LinkInv
<1> QED
  BY <1>3, <1>4

-----------------------------------------------------------------------------
(* The free list. *)

\* How the free list is shown to hold after a step: by the sequence it spells.
LEMMA FreeListAfter ==
  ASSUME NEW t, NEW m, NEW G, free'.nr_free = m, Page \ InUse' = G, t \in [1..m -> G],
         Each(t, m, G),
         \A i \in 1..m : next'[t[i]] = IF i = m THEN NULL ELSE t[i + 1],
         free'.head = IF m = 0 THEN NULL ELSE t[1]
  PROVE  FreeListIsWhole'
<1>1. \E s \in [1..free'.nr_free -> Page \ InUse'] :
        /\ Each(s, free'.nr_free, Page \ InUse')
        /\ \A i \in 1..free'.nr_free : next'[s[i]] = IF i = free'.nr_free THEN NULL ELSE s[i + 1]
        /\ free'.head = IF free'.nr_free = 0 THEN NULL ELSE s[1]
  <2> WITNESS t \in [1..free'.nr_free -> Page \ InUse']
  <2> QED
    OBVIOUS
<1> QED
  BY <1>1 DEF FreeListIsWhole, Each, Chained, Page

\* An eviction puts the page at the head of the free list.
LEMMA RemoveKeepsFree ==
  ASSUME FrameInv, NEW pg \in InUse, remove_from_lru(pg)
  PROVE  FreeListIsWhole' /\ Counted' /\ free' \in [head : Page \cup {NULL}, nr_free : 0..CACHE_SIZE]
<1> DEFINE n == free.nr_free
           F == Page \ InUse
<1>1. pg \in Page /\ pg \notin F /\ NULL \notin Page
  BY NullApart DEF InUse
<1>2. free' = [head |-> pg, nr_free |-> n + 1] /\ free'.head = pg /\ free'.nr_free = n + 1
  BY DEF remove_from_lru, freed
<1>3. InUse' = InUse \ {pg} /\ Page \ InUse' = F \cup {pg}
  BY <1>1, RemoveKeepsLinks DEF FrameInv
<1>4. n \in Nat
  BY DEF FrameInv, FrameOK
<1>5. Counted' /\ n + 1 \in 0..CACHE_SIZE
  <2>1. IsFiniteSet(F) /\ n = Cardinality(F)
    BY FreeCount DEF FrameInv, Counted
  <2>2. Cardinality(F \cup {pg}) = n + 1
    BY <1>1, <2>1, FS_AddElement
  <2>3. Cardinality(F \cup {pg}) \in 0..CACHE_SIZE
    BY <1>1, FreeCount
  <2> QED
    BY <1>2, <1>3, <2>2, <2>3 DEF Counted
<1>6. PICK s \in [1..n -> F] : Each(s, n, F) /\ Chained(s, n)
                             /\ free.head = IF n = 0 THEN NULL ELSE s[1]
  BY DEF FrameInv, FreeListIsWhole
<1> DEFINE t == [i \in 1..(n + 1) |-> IF i = 1 THEN pg ELSE s[i - 1]]
<1>7. \A i \in 1..(n + 1) : i # 1 => i - 1 \in 1..n
  BY <1>4
<1>8. t \in [1..(n + 1) -> F \cup {pg}]
  BY <1>6, <1>7
<1>9. Each(t, n + 1, F \cup {pg})
  <2>1. ASSUME NEW p \in F \cup {pg} PROVE \E i \in 1..(n + 1) : t[i] = p
    <3>1. CASE p = pg
      <4>1. 1 \in 1..(n + 1) /\ t[1] = pg
        BY <1>4
      <4> QED
        BY <3>1, <4>1
    <3>2. CASE p # pg
      <4>1. PICK i \in 1..n : s[i] = p
        BY <1>6, <2>1, <3>2 DEF Each
      <4>2. i + 1 \in 1..(n + 1) /\ i + 1 # 1 /\ (i + 1) - 1 = i
        BY <1>4
      <4>3. t[i + 1] = p
        BY <4>1, <4>2
      <4> QED
        BY <4>2, <4>3
    <3> QED
      BY <3>1, <3>2
  <2>2. ASSUME NEW i \in 1..(n + 1), NEW j \in 1..(n + 1), t[i] = t[j] PROVE i = j
    <3>1. CASE i = 1 \/ j = 1
      BY <1>1, <1>6, <1>7, <2>2, <3>1
    <3>2. CASE i # 1 /\ j # 1
      <4>1. i - 1 \in 1..n /\ j - 1 \in 1..n /\ s[i - 1] = s[j - 1]
        BY <1>7, <2>2, <3>2
      <4>2. i - 1 = j - 1
        BY <1>6, <4>1 DEF Each
      <4> QED
        BY <1>4, <4>2
    <3> QED
      BY <3>1, <3>2
  <2> QED
    BY <2>1, <2>2 DEF Each
<1>10. \A i \in 1..(n + 1) : next'[t[i]] = IF i = n + 1 THEN NULL ELSE t[i + 1]
  <2> TAKE i \in 1..(n + 1)
  <2>1. CASE i = 1
    <3>1. next'[t[i]] = free.head
      BY <1>1, <2>1 DEF remove_from_lru
    <3>2. CASE n = 0
      BY <1>4, <1>6, <2>1, <3>1, <3>2
    <3>3. CASE n # 0
      <4>1. i + 1 \in 1..(n + 1) /\ i + 1 # 1 /\ (i + 1) - 1 = 1 /\ i # n + 1
        BY <1>4, <2>1, <3>3
      <4> QED
        BY <1>6, <3>1, <3>3, <4>1
    <3> QED
      BY <3>2, <3>3
  <2>2. CASE i # 1
    <3>1. i - 1 \in 1..n /\ t[i] = s[i - 1] /\ s[i - 1] \in F /\ s[i - 1] \in Page
      BY <1>6, <1>7, <2>2
    <3>2. s[i - 1] # pg /\ s[i - 1] # prev[pg]
      BY <1>1, <3>1 DEF FrameInv, LinkInv
    <3>3. next'[t[i]] = next[s[i - 1]]
      BY <3>1, <3>2 DEF remove_from_lru
    <3>4. next[s[i - 1]] = IF i - 1 = n THEN NULL ELSE s[(i - 1) + 1]
      BY <1>6, <3>1 DEF Chained
    <3>5. CASE i = n + 1
      BY <1>4, <3>3, <3>4, <3>5
    <3>6. CASE i # n + 1
      <4>1. i - 1 # n /\ (i - 1) + 1 = i /\ i + 1 \in 1..(n + 1) /\ i + 1 # 1 /\ (i + 1) - 1 = i
        BY <1>4, <3>6
      <4> QED
        BY <3>3, <3>4, <3>6, <4>1
    <3> QED
      BY <3>5, <3>6
  <2> QED
    BY <2>1, <2>2
<1>11. pg = IF n + 1 = 0 THEN NULL ELSE t[1]
  BY <1>4
<1> DEFINE m == n + 1
           G == F \cup {pg}
<1>12. /\ free'.nr_free = m /\ Page \ InUse' = G /\ t \in [1..m -> G] /\ Each(t, m, G)
       /\ \A i \in 1..m : next'[t[i]] = IF i = m THEN NULL ELSE t[i + 1]
       /\ free'.head = IF m = 0 THEN NULL ELSE t[1]
  BY <1>2, <1>3, <1>8, <1>9, <1>10, <1>11
<1>13. FreeListIsWhole'
  BY <1>12, FreeListAfter
<1> QED
  BY <1>1, <1>2, <1>5, <1>13

\* alloc_page takes the head of the free list, a page not in use.
LEMMA AddKeepsFree ==
  ASSUME FrameInv, NEW k \in Index, free.nr_free > 0, add_to_lru_head(k)
  PROVE  /\ free.head \in Page /\ free.head \notin InUse
         /\ FreeListIsWhole' /\ Counted'
         /\ free' \in [head : Page \cup {NULL}, nr_free : 0..CACHE_SIZE]
<1> DEFINE n == free.nr_free
           F == Page \ InUse
           pg == free.head
<1>1. n \in Nat /\ n > 0 /\ n <= CACHE_SIZE /\ 1 \in 1..n
  BY CacheAssumption DEF FrameInv, FrameOK
<1>2. PICK s \in [1..n -> F] : Each(s, n, F) /\ Chained(s, n)
                             /\ free.head = IF n = 0 THEN NULL ELSE s[1]
  BY DEF FrameInv, FreeListIsWhole
<1>3. pg = s[1] /\ pg \in Page /\ pg \notin InUse
  BY <1>1, <1>2
<1>4. /\ free' = [head |-> next[pg], nr_free |-> n - 1]
      /\ free'.head = next[pg] /\ free'.nr_free = n - 1
      /\ next' = [next EXCEPT ![pg] = lru.head]
  BY DEF add_to_lru_head, alloc_page
<1>5. InUse' = InUse \cup {pg} /\ Page \ InUse' = F \ {pg}
  BY <1>3, AddKeepsLinks DEF FrameInv
<1>6. Counted' /\ n - 1 \in 0..CACHE_SIZE
  <2>1. IsFiniteSet(F) /\ n = Cardinality(F)
    BY FreeCount DEF FrameInv, Counted
  <2>2. Cardinality(F \ {pg}) = n - 1
    BY <1>3, <2>1, FS_RemoveElement
  <2>3. n - 1 \in 0..CACHE_SIZE
    BY <1>1, CacheAssumption
  <2> QED
    BY <1>4, <1>5, <2>2, <2>3 DEF Counted
<1> DEFINE t == [i \in 1..(n - 1) |-> s[i + 1]]
<1>7. \A i \in 1..(n - 1) : i + 1 \in 1..n /\ i + 1 # 1 /\ i \in 1..n
  BY <1>1
<1>8. \A i \in 1..n : i # 1 => s[i] # pg
  BY <1>1, <1>2, <1>3 DEF Each
<1>9. t \in [1..(n - 1) -> F \ {pg}]
  BY <1>2, <1>7, <1>8
<1>10. Each(t, n - 1, F \ {pg})
  <2>1. ASSUME NEW p \in F \ {pg} PROVE \E i \in 1..(n - 1) : t[i] = p
    <3>1. PICK i \in 1..n : s[i] = p
      BY <1>2 DEF Each
    <3>2. i # 1
      BY <1>3, <2>1, <3>1
    <3>3. i - 1 \in 1..(n - 1) /\ (i - 1) + 1 = i
      BY <1>1, <3>2
    <3>4. t[i - 1] = p
      BY <3>1, <3>3
    <3> QED
      BY <3>3, <3>4
  <2>2. ASSUME NEW i \in 1..(n - 1), NEW j \in 1..(n - 1), t[i] = t[j] PROVE i = j
    <3>1. i + 1 = j + 1
      BY <1>2, <1>7, <2>2 DEF Each
    <3> QED
      BY <1>1, <3>1
  <2> QED
    BY <2>1, <2>2 DEF Each
<1>11. \A i \in 1..(n - 1) : next'[t[i]] = IF i = n - 1 THEN NULL ELSE t[i + 1]
  <2> TAKE i \in 1..(n - 1)
  <2>1. t[i] = s[i + 1] /\ s[i + 1] # pg /\ s[i + 1] \in Page
    BY <1>2, <1>7, <1>8
  <2>2. next'[t[i]] = next[s[i + 1]]
    BY <1>4, <2>1 DEF FrameInv, FrameOK
  <2>3. next[s[i + 1]] = IF i + 1 = n THEN NULL ELSE s[(i + 1) + 1]
    BY <1>2, <1>7 DEF Chained
  <2>4. CASE i = n - 1
    BY <1>1, <2>2, <2>3, <2>4
  <2>5. CASE i # n - 1
    <3>1. i + 1 # n /\ i + 1 \in 1..(n - 1)
      BY <1>1, <2>5
    <3> QED
      BY <2>2, <2>3, <2>5, <3>1
  <2> QED
    BY <2>4, <2>5
<1>12. next[pg] = IF n - 1 = 0 THEN NULL ELSE t[1]
  <2>1. next[s[1]] = IF 1 = n THEN NULL ELSE s[1 + 1]
    BY <1>1, <1>2 DEF Chained
  <2>2. CASE n = 1
    BY <1>3, <2>1, <2>2
  <2>3. CASE n # 1
    <3>1. 1 \in 1..(n - 1) /\ n - 1 # 0
      BY <1>1, <2>3
    <3> QED
      BY <1>3, <2>1, <2>3, <3>1
  <2> QED
    BY <2>2, <2>3
<1>13. next[pg] \in Page \cup {NULL}
  BY <1>3 DEF FrameInv, FrameOK
<1> DEFINE m == n - 1
           G == F \ {pg}
<1>14. /\ free'.nr_free = m /\ Page \ InUse' = G /\ t \in [1..m -> G] /\ Each(t, m, G)
       /\ \A i \in 1..m : next'[t[i]] = IF i = m THEN NULL ELSE t[i + 1]
       /\ free'.head = IF m = 0 THEN NULL ELSE t[1]
  BY <1>4, <1>5, <1>9, <1>10, <1>11, <1>12
<1>15. FreeListIsWhole'
  BY <1>14, FreeListAfter
<1> QED
  BY <1>3, <1>4, <1>6, <1>13, <1>15

-----------------------------------------------------------------------------
(* Types, which no disorder of the lists can break. *)

LEMMA RemoveIsTyped ==
  ASSUME FrameOK, Fits, NEW pg \in InUse, cached(index[pg]), remove_from_lru(pg)
  PROVE  FrameOK' /\ Fits' /\ free'.nr_free = free.nr_free + 1
<1>1. pg \in Page /\ index[pg] \in Index /\ NULL \notin Index /\ NULL \notin Page
  BY NullApart DEF InUse, FrameOK
<1>2. index' = [index EXCEPT ![pg] = NULL]
  BY DEF remove_from_lru
<1>3. InUse' = InUse \ {pg}
  BY <1>1, <1>2 DEF InUse, FrameOK
<1>4. free' = [head |-> pg, nr_free |-> free.nr_free + 1]
  BY DEF remove_from_lru, freed
<1>5. free.nr_free + 1 \in 0..CACHE_SIZE /\ free.nr_free + 1 + Cardinality(InUse') <= CACHE_SIZE
  <2>1. InUse \in SUBSET Page
    BY DEF InUse
  <2>2. IsFiniteSet(InUse) /\ Cardinality(InUse) \in Nat
    BY <2>1, FreeCount
  <2>3. Cardinality(InUse') = Cardinality(InUse) - 1
    BY <1>3, <2>2, FS_RemoveElement
  <2>4. Cardinality(InUse') \in Nat
    BY <1>3, <2>1, FreeCount
  <2>5. free.nr_free \in Nat /\ free.nr_free + Cardinality(InUse) <= CACHE_SIZE /\ CACHE_SIZE \in Nat
    BY CacheAssumption DEF FrameOK, Fits
  <2> QED
    BY <2>2, <2>3, <2>4, <2>5
<1>6. next' \in [Page -> Page \cup {NULL}] /\ prev' \in [Page -> Page \cup {NULL}]
  <2>1. /\ next[pg] \in Page \cup {NULL} /\ prev[pg] \in Page \cup {NULL}
        /\ free.head \in Page \cup {NULL}
        /\ \A p \in Page : next[p] \in Page \cup {NULL} /\ prev[p] \in Page \cup {NULL}
    BY <1>1 DEF FrameOK
  <2>2. /\ next' = [p \in Page |-> IF p = pg THEN free.head
                                 ELSE IF p = prev[pg] THEN next[pg] ELSE next[p]]
        /\ prev' = [p \in Page |-> IF p = pg THEN NULL
                                 ELSE IF p = next[pg] THEN prev[pg] ELSE prev[p]]
    BY DEF remove_from_lru
  <2> QED
    BY <2>1, <2>2
<1>7. index' \in [Page -> Index \cup {NULL}]
  BY <1>2 DEF FrameOK
<1>8. lru' \in [head : Page \cup {NULL}, tail : Page \cup {NULL}]
  BY <1>1 DEF remove_from_lru, ends_without, FrameOK
<1>9. hash' \in [Index -> Seq(Page)]
  <2>1. hash' = [hash EXCEPT ![index[pg]] = Tail(hash[index[pg]])]
    BY DEF remove_from_lru, hash_table_remove
  <2>2. hash[index[pg]] \in Seq(Page) /\ hash[index[pg]] # << >>
    BY <1>1 DEF cached, FrameOK
  <2>3. Tail(hash[index[pg]]) \in Seq(Page)
    BY <2>2
  <2> QED
    BY <2>1, <2>3 DEF FrameOK
<1>10. free' \in [head : Page \cup {NULL}, nr_free : 0..CACHE_SIZE]
  BY <1>1, <1>4, <1>5
<1>11. FrameOK'
  BY <1>6, <1>7, <1>8, <1>9, <1>10 DEF FrameOK, Page, Index
<1>12. free'.nr_free = free.nr_free + 1
  BY <1>4
<1> QED
  BY <1>5, <1>11, <1>12 DEF Fits

LEMMA AddIsTyped ==
  ASSUME FrameOK, Fits, NEW k \in Index, free.head \in Page, free.nr_free > 0, add_to_lru_head(k)
  PROVE  FrameOK' /\ Fits'
<1> DEFINE pg == free.head
<1>1. pg \in Page /\ NULL \notin Index /\ NULL \notin Page
  BY NullApart
<1>2. index' = [index EXCEPT ![pg] = k]
  BY DEF add_to_lru_head
<1>3. InUse' = InUse \cup {pg}
  BY <1>1, <1>2 DEF InUse, FrameOK
<1>4. free' = [head |-> next[pg], nr_free |-> free.nr_free - 1]
  BY DEF add_to_lru_head, alloc_page
<1>5. free.nr_free - 1 \in 0..CACHE_SIZE /\ free.nr_free - 1 + Cardinality(InUse') <= CACHE_SIZE
  <2>1. InUse \in SUBSET Page
    BY DEF InUse
  <2>2. IsFiniteSet(InUse) /\ Cardinality(InUse) \in Nat
    BY <2>1, FreeCount
  <2>3. Cardinality(InUse') \in Nat /\ Cardinality(InUse') <= Cardinality(InUse) + 1
    <3>1. CASE pg \in InUse
      <4>1. InUse' = InUse
        BY <1>3, <3>1
      <4> QED
        BY <2>2, <4>1
    <3>2. CASE pg \notin InUse
      <4>1. Cardinality(InUse \cup {pg}) = Cardinality(InUse) + 1
        BY <2>2, <3>2, FS_AddElement
      <4> QED
        BY <1>3, <2>2, <4>1
    <3> QED
      BY <3>1, <3>2
  <2>4. free.nr_free \in Nat /\ free.nr_free + Cardinality(InUse) <= CACHE_SIZE /\ CACHE_SIZE \in Nat
    BY CacheAssumption DEF FrameOK, Fits
  <2> QED
    BY <2>2, <2>3, <2>4
<1>6. next' \in [Page -> Page \cup {NULL}] /\ prev' \in [Page -> Page \cup {NULL}]
  <2>1. /\ lru.head \in Page \cup {NULL}
        /\ \A p \in Page : next[p] \in Page \cup {NULL} /\ prev[p] \in Page \cup {NULL}
    BY DEF FrameOK
  <2>2. /\ next' = [next EXCEPT ![pg] = lru.head]
        /\ prev' = [p \in Page |-> IF p = lru.head THEN pg
                                   ELSE IF p = pg THEN NULL ELSE prev[p]]
    BY DEF add_to_lru_head
  <2> HIDE DEF pg
  <2> QED
    BY <1>1, <2>1, <2>2 DEF FrameOK
<1>7. index' \in [Page -> Index \cup {NULL}]
  BY <1>2 DEF FrameOK
<1>8. lru' \in [head : Page \cup {NULL}, tail : Page \cup {NULL}]
  BY <1>1 DEF add_to_lru_head, FrameOK
<1>9. hash' \in [Index -> Seq(Page)]
  <2>1. hash' = [hash EXCEPT ![k] = <<pg>> \o hash[k]]
    BY DEF add_to_lru_head, hash_table_insert
  <2>2. hash[k] \in Seq(Page) /\ <<pg>> \in Seq(Page)
    BY <1>1 DEF FrameOK
  <2>3. <<pg>> \o hash[k] \in Seq(Page)
    BY <2>2
  <2> QED
    BY <2>1, <2>3 DEF FrameOK
<1>10. free' \in [head : Page \cup {NULL}, nr_free : 0..CACHE_SIZE]
  BY <1>1, <1>4, <1>5 DEF FrameOK
<1>11. FrameOK'
  BY <1>6, <1>7, <1>8, <1>9, <1>10 DEF FrameOK, Page, Index
<1>12. free'.nr_free = free.nr_free - 1
  BY <1>4
<1> QED
  BY <1>5, <1>11, <1>12 DEF Fits

LEMMA MoveIsTyped ==
  ASSUME FrameOK, Fits, NEW pg \in Page, move_to_lru_head(pg), UNCHANGED <<index, free, hash>>
  PROVE  FrameOK' /\ Fits'
<1>1. FrameOK'
  <2>1. CASE prev[pg] = NULL
    BY <2>1 DEF move_to_lru_head, FrameOK, Page, Index
  <2>2. CASE prev[pg] # NULL
    <3>1. /\ next' = [next EXCEPT ![prev[pg]] = next[pg], ![pg] = lru.head]
          /\ prev' = [p \in Page |-> IF p = pg THEN NULL
                                     ELSE IF p = next[pg] THEN prev[pg] ELSE prev[p]]
          /\ lru' = [head |-> pg, tail |-> IF next[pg] = NULL THEN prev[pg] ELSE lru.tail]
      BY <2>2 DEF move_to_lru_head
    <3>2. /\ next[pg] \in Page \cup {NULL} /\ prev[pg] \in Page \cup {NULL}
          /\ lru.head \in Page \cup {NULL} /\ lru.tail \in Page \cup {NULL}
      BY DEF FrameOK
    <3>3. next' \in [Page -> Page \cup {NULL}]
      BY <3>1, <3>2 DEF FrameOK
    <3>4. prev' \in [Page -> Page \cup {NULL}]
      BY <3>1, <3>2 DEF FrameOK
    <3>5. lru' \in [head : Page \cup {NULL}, tail : Page \cup {NULL}]
      BY <3>1, <3>2
    <3> QED
      BY <3>3, <3>4, <3>5 DEF FrameOK, Page, Index
  <2> QED
    BY <2>1, <2>2
<1>2. InUse' = InUse
  BY DEF InUse, Page
<1> QED
  BY <1>1, <1>2 DEF Fits

\* Whatever leaves pages, lists and hash table alone.
LEMMA SameIsTyped ==
  ASSUME FrameOK, Fits, UNCHANGED frameVars
  PROVE  FrameOK' /\ Fits'
<1>1. /\ next' = next /\ prev' = prev /\ index' = index /\ lru' = lru /\ free' = free
      /\ hash' = hash
  BY DEF frameVars
<1>2. InUse' = InUse
  BY <1>1 DEF InUse, Page
<1> QED
  BY <1>1, <1>2 DEF FrameOK, Fits, Page, Index

\* What a call in progress is.
LEMMA CallIs ==
  ASSUME CallInv, NEW o, doing(o)
  PROVE  /\ call # NULL /\ call.left > 0 /\ call.op = o /\ call \in Calls
         /\ call.at \in Index /\ call.val \in Val \cup {Blank}
         /\ process = "up"
<1>1. /\ call # NULL /\ call.left > 0 /\ call.op = o /\ process = "up"
      /\ call \in Calls /\ call.at + call.left <= PAGES
  BY DEF CallInv, doing
<1>2. call.at \in 0..PAGES /\ call.left \in 0..PAGES /\ call.val \in Val \cup {Blank}
  BY <1>1 DEF Calls
<1>3. call.at \in Index
  BY <1>1, <1>2, CacheAssumption DEF Index
<1> QED
  BY <1>1, <1>2, <1>3

\* A page of a call is done.
LEMMA PageDone ==
  ASSUME CallInv, call # NULL, call.left > 0, page_done
  PROVE  CallInv' /\ call'.left < call.left
<1>1. call \in Calls /\ call.at + call.left <= PAGES
      /\ (call.op \in {"write", "direct write"} => call.val \in Val)
  BY DEF CallInv
<1>2. /\ call.at \in Nat /\ call.left \in Nat /\ call.at + call.left <= PAGES /\ PAGES \in Nat
      /\ call.left > 0
  <2>1. call.at \in 0..PAGES /\ call.left \in 0..PAGES
    BY <1>1 DEF Calls
  <2>2. PAGES \in Nat
    BY CacheAssumption
  <2>3. call.left > 0 /\ call.at + call.left <= PAGES
    BY <1>1
  <2>4. call.at \in Nat /\ call.left \in Nat
    BY <2>1, <2>2
  <2> QED
    BY <2>2, <2>3, <2>4
<1>3. call' = [call EXCEPT !.at = call.at + 1, !.left = call.left - 1]
  BY DEF page_done
<1>4. /\ call'.at = call.at + 1 /\ call'.left = call.left - 1
      /\ call'.op = call.op /\ call'.val = call.val
  BY <1>1, <1>3 DEF Calls
<1>5. call.at + 1 \in 0..PAGES /\ call.left - 1 \in 0..PAGES
  BY <1>2
<1>6. call' \in Calls
  BY <1>1, <1>3, <1>5 DEF Calls
<1>7. call'.at + call'.left <= PAGES /\ call'.left < call.left
  BY <1>2, <1>4
<1> QED
  BY <1>1, <1>4, <1>6, <1>7 DEF CallInv, Calls

\* One iteration of alloc_page's loop: it crashes, or ends the process after
\* the write, or frees the tail.
LEMMA WriteBackIs ==
  ASSUME write_back
  PROVE  /\ needs_page /\ (evict > 0 \/ free.nr_free = 0)
         /\ \/ crash
            \/ \E success \in BOOLEAN :
                 /\ lru.tail # NULL /\ index[lru.tail] # NULL
                 /\ store' = write_pio(lru.tail, success)
                 /\ lost' = lost \cup {k \in {index[lru.tail]} : ~success \/ twice(k)}
                 /\ UNCHANGED <<data, call, got, stray>>
                 /\ \/ /\ cached(index[lru.tail])
                       /\ remove_from_lru(lru.tail)
                       /\ evict' = (IF evict = 0 THEN write_backs ELSE evict) - 1
                       /\ process' = process
                    \/ /\ ~cached(index[lru.tail])
                       /\ process' = "crashed"
                       /\ UNCHANGED <<frameVars, evict>>
  BY DEF write_back, loses

\* How many pages are written back before one is handed out.
LEMMA HalfOfTheCache == write_backs \in Nat /\ 1 <= write_backs /\ write_backs < CACHE_SIZE
  BY CacheAssumption DEF write_backs

LEMMA WriteBackIsTyped ==
  ASSUME TypeInv, write_back
  PROVE  /\ TypeInv'
         /\ \/ process' = "crashed"
            \/ call' = call /\ 0 <= to_write_back' /\ to_write_back' < to_write_back
<1>1. CASE crash
  <2>1. UNCHANGED <<frameVars, data, evict, store, call, got, lost, stray>> /\ process' = "crashed"
    BY <1>1 DEF crash, history
  <2> QED
    BY <2>1, SameIsTyped DEF TypeInv, CallInv, Calls, DataOK, Page, Index
<1>2. CASE ~crash
  <2>1. PICK success \in BOOLEAN :
                 /\ lru.tail # NULL /\ index[lru.tail] # NULL
                 /\ store' = write_pio(lru.tail, success)
                 /\ lost' = lost \cup {k \in {index[lru.tail]} : ~success \/ twice(k)}
                 /\ UNCHANGED <<data, call, got, stray>>
                 /\ \/ /\ cached(index[lru.tail])
                       /\ remove_from_lru(lru.tail)
                       /\ evict' = (IF evict = 0 THEN write_backs ELSE evict) - 1
                       /\ process' = process
                    \/ /\ ~cached(index[lru.tail])
                       /\ process' = "crashed"
                       /\ UNCHANGED <<frameVars, evict>>
    BY <1>2, WriteBackIs
  <2>2. lru.tail \in InUse /\ index[lru.tail] \in Index /\ lru.tail \in Page
    BY <2>1 DEF TypeInv, FrameOK, InUse
  <2>3. store' \in [Index -> Val \cup {Blank}] /\ lost' \subseteq Index
    BY <2>1, <2>2 DEF write_pio, TypeInv, DataOK
  <2>4. CallInv'
    BY <2>1 DEF TypeInv, CallInv, Calls
  <2>5. CASE ~cached(index[lru.tail])
    <3>1. process' = "crashed" /\ UNCHANGED <<frameVars, evict>>
      BY <2>1, <2>5
    <3>2. DataOK'
      BY <2>1, <2>3, <3>1 DEF TypeInv, DataOK, Page, Index
    <3> QED
      BY <2>4, <3>1, <3>2, SameIsTyped DEF TypeInv
  <2>6. CASE cached(index[lru.tail])
    <3>1. /\ remove_from_lru(lru.tail) /\ process' = process
          /\ evict' = (IF evict = 0 THEN write_backs ELSE evict) - 1
      BY <2>1, <2>6
    <3>2. FrameOK' /\ Fits' /\ free'.nr_free = free.nr_free + 1
      BY <2>2, <2>6, <3>1, RemoveIsTyped DEF TypeInv
    <3>3. /\ free.nr_free \in Nat /\ CACHE_SIZE \in Nat /\ evict \in Nat
          /\ evict <= CACHE_SIZE - 1 /\ (evict > 0 \/ free.nr_free = 0)
      BY CacheAssumption, WriteBackIs DEF TypeInv, FrameOK, DataOK
    <3>4. evict' \in 0..(CACHE_SIZE - 1)
      BY <3>1, <3>3, HalfOfTheCache
    <3>5. DataOK'
      BY <2>1, <2>3, <3>1, <3>4 DEF TypeInv, DataOK, Page, Index
    <3>6. to_write_back' = evict' /\ to_write_back = IF evict = 0 THEN write_backs ELSE evict
      BY <3>2, <3>3 DEF to_write_back
    <3>7. 0 <= to_write_back' /\ to_write_back' < to_write_back
      BY <3>1, <3>3, <3>6, HalfOfTheCache
    <3> QED
      BY <2>1, <2>4, <3>2, <3>5, <3>7 DEF TypeInv
  <2> QED
    BY <2>5, <2>6
<1> QED
  BY <1>1, <1>2

\* A page of a call that goes past the cache.
LEMMA DirectIsTyped ==
  ASSUME TypeInv, submit_write \/ submit_write_fails \/ submit_read \/ submit_read_fails
  PROVE  TypeInv' /\ call'.left < call.left
<1>1. PICK o \in {"direct write", "direct read"} : doing(o)
  BY DEF submit_write, submit_write_fails, submit_read, submit_read_fails
<1>2. call # NULL /\ call.left > 0 /\ call.at \in Index /\ call.val \in Val \cup {Blank}
  BY <1>1, CallIs DEF TypeInv
<1>3. page_done /\ UNCHANGED <<frameVars, data, evict, process, stray>>
  BY DEF submit_write, submit_write_fails, submit_read, submit_read_fails
<1>4. CallInv' /\ call'.left < call.left
  BY <1>2, <1>3, PageDone DEF TypeInv
<1>5. store' \in [Index -> Val \cup {Blank}] /\ lost' \subseteq Index
      /\ (got' = NULL \/ got' \in [index : Index, val : Val \cup {Blank}])
  <2>1. store[call.at] \in Val \cup {Blank}
    BY <1>2 DEF TypeInv, DataOK
  <2>2. CASE submit_write
    BY <1>2, <2>2 DEF submit_write, loses, TypeInv, DataOK
  <2>3. CASE submit_write_fails
    BY <1>2, <2>3 DEF submit_write_fails, loses, TypeInv, DataOK
  <2>4. CASE submit_read
    BY <1>2, <2>1, <2>4 DEF submit_read, loses, TypeInv, DataOK
  <2>5. CASE submit_read_fails
    <3>1. PICK v \in Val \cup {Blank} : got' = [index |-> call.at, val |-> v]
      BY <2>5 DEF submit_read_fails
    <3>2. got' \in [index : Index, val : Val \cup {Blank}]
      BY <1>2, <3>1
    <3>3. store' = store /\ lost' = lost \cup {call.at}
      BY <2>5 DEF submit_read_fails, loses
    <3> QED
      BY <1>2, <3>2, <3>3 DEF TypeInv, DataOK
  <2> QED
    BY <2>2, <2>3, <2>4, <2>5
<1>6. DataOK'
  BY <1>3, <1>5 DEF TypeInv, DataOK, Page, Index
<1> QED
  BY <1>3, <1>4, <1>6, SameIsTyped DEF TypeInv

\* A page that is brought in, by a write or by a read that finds none.
LEMMA BringIsTyped ==
  ASSUME TypeInv, call # NULL, call.left > 0, call.at \in Index, page_done,
         free.head \in Page, free.nr_free > 0, add_to_lru_head(call.at),
         NEW v \in Val \cup {Blank}, data' = [data EXCEPT ![free.head] = v],
         got' = got \/ got' = [index |-> call.at, val |-> v],
         lost' \subseteq Index, UNCHANGED <<evict, store, process, stray>>
  PROVE  TypeInv' /\ call'.left < call.left
<1>1. FrameOK' /\ Fits'
  BY AddIsTyped DEF TypeInv
<1>2. CallInv' /\ call'.left < call.left
  BY PageDone DEF TypeInv
<1>3. data' \in [Page -> Val \cup {Blank}]
  BY DEF TypeInv, DataOK
<1>4. got' = NULL \/ got' \in [index : Index, val : Val \cup {Blank}]
  BY DEF TypeInv, DataOK
<1>5. DataOK'
  BY <1>3, <1>4 DEF TypeInv, DataOK, Page, Index
<1> QED
  BY <1>1, <1>2, <1>5 DEF TypeInv

LEMMA CrashIsTyped ==
  ASSUME TypeInv, crash
  PROVE  TypeInv' /\ process' = "crashed"
<1>1. UNCHANGED <<frameVars, data, evict, store, call, got, lost, stray>> /\ process' = "crashed"
  BY DEF crash, history
<1> QED
  BY <1>1, SameIsTyped DEF TypeInv, CallInv, Calls, DataOK, Page, Index

LEMMA WritePageIsTyped ==
  ASSUME TypeInv, write_page
  PROVE  TypeInv' /\ (process' = "crashed" \/ call'.left < call.left)
<1>1. call # NULL /\ call.left > 0 /\ call.at \in Index /\ call.val \in Val \cup {Blank}
      /\ free.nr_free > 0
  BY CallIs DEF TypeInv, write_page
<1>2. CASE free.head = NULL
  <2>1. crash
    BY <1>2 DEF write_page
  <2> QED
    BY <2>1, CrashIsTyped
<1>3. CASE free.head # NULL
  <2>1. /\ add_to_lru_head(call.at) /\ data' = [data EXCEPT ![free.head] = call.val]
        /\ page_done /\ UNCHANGED <<evict, store, got, process, lost, stray>>
    BY <1>3 DEF write_page, history
  <2>2. free.head \in Page /\ lost' \subseteq Index
    BY <1>3, <2>1 DEF TypeInv, FrameOK, DataOK
  <2>3. TypeInv' /\ call'.left < call.left
    BY <1>1, <2>1, <2>2, BringIsTyped
  <2> QED
    BY <2>3
<1> QED
  BY <1>2, <1>3

LEMMA ReadMissIsTyped ==
  ASSUME TypeInv, read_miss
  PROVE  TypeInv' /\ (process' = "crashed" \/ call'.left < call.left)
<1>1. call # NULL /\ call.left > 0 /\ call.at \in Index /\ free.nr_free > 0
  BY CallIs DEF TypeInv, read_miss
<1>2. CASE free.head = NULL
  <2>1. crash
    BY <1>2 DEF read_miss
  <2> QED
    BY <2>1, CrashIsTyped
<1>3. CASE free.head # NULL
  <2>1. PICK success \in BOOLEAN :
          /\ add_to_lru_head(call.at)
          /\ data' = [data EXCEPT ![free.head] = read_pio(free.head, success)]
          /\ got' = [index |-> call.at, val |-> read_pio(free.head, success)]
          /\ lost' = lost \cup {k \in {call.at} : ~success}
          /\ page_done /\ UNCHANGED <<evict, store, process, stray>>
    BY <1>3 DEF read_miss, loses
  <2>2. free.head \in Page /\ lost' \subseteq Index
    BY <1>1, <1>3, <2>1 DEF TypeInv, FrameOK, DataOK
  <2>3. read_pio(free.head, success) \in Val \cup {Blank}
    BY <1>1, <2>2 DEF read_pio, TypeInv, DataOK
  <2>4. TypeInv' /\ call'.left < call.left
    BY <1>1, <2>1, <2>2, <2>3, BringIsTyped
  <2> QED
    BY <2>4
<1> QED
  BY <1>2, <1>3

LEMMA ReadHitIsTyped ==
  ASSUME TypeInv, read_hit
  PROVE  TypeInv' /\ call'.left < call.left
<1> DEFINE pg == hash_table_lookup(call.at)
<1>1. call # NULL /\ call.left > 0 /\ call.at \in Index /\ cached(call.at)
  BY CallIs DEF TypeInv, read_hit
<1>2. pg \in Page
  <2>1. hash[call.at] \in Seq(Page) /\ hash[call.at] # << >>
    BY <1>1 DEF cached, TypeInv, FrameOK
  <2> QED
    BY <2>1 DEF hash_table_lookup
<1>3. /\ move_to_lru_head(pg) /\ got' = [index |-> call.at, val |-> data[pg]] /\ page_done
      /\ UNCHANGED <<index, free, hash>> /\ UNCHANGED <<data, evict, store, process, lost>>
      /\ stray' = (stray \/ (pg \notin InUse /\ prev[pg] # NULL))
  BY DEF read_hit
<1> HIDE DEF pg
<1>4. FrameOK' /\ Fits'
  BY <1>2, <1>3, MoveIsTyped DEF TypeInv
<1>5. CallInv' /\ call'.left < call.left
  BY <1>1, <1>3, PageDone DEF TypeInv
<1>6. DataOK'
  BY <1>1, <1>2, <1>3 DEF TypeInv, DataOK, Page, Index
<1> QED
  BY <1>4, <1>5, <1>6 DEF TypeInv

\* Streams are positioned in the file, and calls are no longer than it.
LEMMA StreamInFile ==
  ASSUME NEW stream \in Streams, NEW n \in Lengths
  PROVE  stream.at \in 0..PAGES /\ n \in 0..PAGES
<1>1. stream.at \in Index /\ n \in 1..PAGES /\ PAGES \in Nat
  BY CacheAssumption DEF Streams, useek, uopen
<1> QED
  BY <1>1 DEF Index

\* A call that begins.
LEMMA BeginIsTyped ==
  ASSUME TypeInv, NEW stream \in Streams, NEW n \in Lengths, fits(stream, n),
         NEW o \in {"write", "read", "direct write", "direct read"}, NEW v \in Val \cup {Blank},
         o \in {"write", "direct write"} => v \in Val,
         begin(o, stream, n, v)
  PROVE  TypeInv'
<1>3. call' = [op |-> o, at |-> stream.at, left |-> n, val |-> v]
      /\ UNCHANGED <<frameVars, data, evict, store, got, process, lost, stray>>
  BY DEF begin, history
<1>4. stream.at \in 0..PAGES /\ n \in 0..PAGES /\ stream.at + n <= PAGES
  BY StreamInFile DEF fits
<1>5. call'.at + call'.left <= PAGES /\ call'.op = o /\ call'.val = v
  BY <1>3, <1>4
<1>6. call' \in Calls
  BY <1>3, <1>4 DEF Calls
<1>7. CallInv'
  BY <1>5, <1>6 DEF CallInv, Calls
<1>8. DataOK'
  BY <1>3 DEF TypeInv, DataOK, Page, Index
<1> QED
  BY <1>3, <1>7, <1>8, SameIsTyped DEF TypeInv

\* Ending a call or the process, and doing nothing.
LEMMA EndIsTyped ==
  ASSUME TypeInv, UNCHANGED <<frameVars, data, evict, store, lost, stray>>,
         call' = call \/ call' = NULL, got' = got \/ got' = NULL,
         process' \in {"up", "exited", "crashed"}
  PROVE  TypeInv'
<1>1. CallInv' /\ DataOK'
  BY DEF TypeInv, CallInv, Calls, DataOK, Page, Index
<1> QED
  BY <1>1, SameIsTyped DEF TypeInv

\* Types are kept, and the steps of a call bring it nearer to its end.
LEMMA TypeInvIsInductive ==
  ASSUME TypeInv, [Next]_vars
  PROVE  /\ TypeInv'
         /\ CallStep => \/ call' = NULL
                        \/ process' = "crashed"
                        \/ call'.left < call.left
                        \/ call' = call /\ 0 <= to_write_back' /\ to_write_back' < to_write_back
<1>1. CASE CallStep
  <2>1. CASE submit_write \/ submit_write_fails \/ submit_read \/ submit_read_fails
    BY <2>1, DirectIsTyped
  <2>2. CASE write_back
    BY <2>2, WriteBackIsTyped
  <2>3. CASE write_page
    BY <2>3, WritePageIsTyped
  <2>4. CASE read_miss
    BY <2>4, ReadMissIsTyped
  <2>5. CASE read_hit
    BY <2>5, ReadHitIsTyped
  <2>6. CASE return
    <3>1. /\ UNCHANGED <<frameVars, data, evict, store, lost, stray>>
          /\ call' = NULL /\ got' = NULL /\ process' \in {"up", "exited", "crashed"}
      BY <2>6 DEF return, history, TypeInv, DataOK
    <3> QED
      BY <3>1, EndIsTyped
  <2> QED
    BY <1>1, <2>1, <2>2, <2>3, <2>4, <2>5, <2>6 DEF CallStep
<1>2. ASSUME ~CallStep PROVE TypeInv'
  <2>1. CASE \E stream \in Streams, n \in Lengths, v \in Val : uwrite(stream, n, v)
    <3>1. PICK stream \in Streams, n \in Lengths, v \in Val : uwrite(stream, n, v)
      BY <2>1
    <3>2. PICK o \in {"write", "direct write"} : begin(o, stream, n, v)
      BY <3>1 DEF uwrite
    <3>3. fits(stream, n)
      BY <3>1 DEF uwrite
    <3>4. TypeInv'
      BY <3>2, <3>3, BeginIsTyped
    <3> QED
      BY <1>2, <3>4
  <2>2. CASE \E stream \in Streams, n \in Lengths : uread(stream, n)
    <3>1. PICK stream \in Streams, n \in Lengths : uread(stream, n)
      BY <2>2
    <3>2. PICK o \in {"read", "direct read"} : begin(o, stream, n, Blank)
      BY <3>1 DEF uread
    <3>3. fits(stream, n)
      BY <3>1 DEF uread
    <3>4. TypeInv'
      BY <3>2, <3>3, BeginIsTyped
    <3> QED
      BY <1>2, <3>4
  <2>3. CASE exit_page_cache \/ UNCHANGED vars
    <3>1. /\ UNCHANGED <<frameVars, data, evict, store, lost, stray, call, got>>
          /\ process' \in {"up", "exited", "crashed"}
      BY <2>3 DEF exit_page_cache, vars, history, TypeInv, DataOK
    <3>2. TypeInv'
      BY <3>1, EndIsTyped
    <3> QED
      BY <1>2, <3>2
  <2> QED
    BY <1>2, <2>1, <2>2, <2>3 DEF Next
<1> QED
  BY <1>1, <1>2

-----------------------------------------------------------------------------
(* The lists, as long as no page is moved that is not in use. *)

LEMMA RemoveKeepsFrames ==
  ASSUME FrameInv, FrameOK', NEW pg \in InUse, remove_from_lru(pg)
  PROVE  FrameInv'
  BY RemoveKeepsLinks, RemoveKeepsFree DEF FrameInv

LEMMA AddKeepsFrames ==
  ASSUME FrameInv, FrameOK', NEW k \in Index, free.nr_free > 0, add_to_lru_head(k)
  PROVE  FrameInv' /\ free.head \in Page /\ free.head \notin InUse
<1>1. free.head \in Page /\ free.head \notin InUse /\ FreeListIsWhole' /\ Counted'
  BY AddKeepsFree
<1>2. LinkInv'
  BY <1>1, AddKeepsLinks DEF FrameInv
<1> QED
  BY <1>1, <1>2 DEF FrameInv

\* Neither the pages in use nor the links of the others change.
LEMMA FreePagesSame ==
  ASSUME FrameInv, FrameOK', UNCHANGED <<index, free>>, LinkInv',
         \A p \in Page \ InUse : next'[p] = next[p]
  PROVE  FrameInv'
<1>1. InUse' = InUse
  BY DEF InUse, Page
<1>2. Counted'
  BY <1>1 DEF FrameInv, Counted, Page
<1>3. FreeListIsWhole'
  <2> DEFINE n == free.nr_free
             F == Page \ InUse
  <2>1. PICK s \in [1..n -> F] : Each(s, n, F) /\ Chained(s, n)
                               /\ free.head = IF n = 0 THEN NULL ELSE s[1]
    BY DEF FrameInv, FreeListIsWhole
  <2>2. free'.nr_free = n /\ Page \ InUse' = F /\ free'.head = IF n = 0 THEN NULL ELSE s[1]
    BY <1>1, <2>1
  <2>3. \A i \in 1..n : next'[s[i]] = IF i = n THEN NULL ELSE s[i + 1]
    BY <2>1 DEF Chained
  <2> HIDE DEF n, F
  <2> QED
    BY <2>1, <2>2, <2>3, FreeListAfter
<1> QED
  BY <1>2, <1>3 DEF FrameInv

LEMMA MoveKeepsFrames ==
  ASSUME FrameInv, FrameOK', NEW pg \in Page, pg \in InUse \/ prev[pg] = NULL,
         move_to_lru_head(pg), UNCHANGED <<index, free, hash>>
  PROVE  FrameInv'
<1>1. CASE pg \in InUse
  BY <1>1, MoveKeepsLinks, FreePagesSame DEF FrameInv
<1>2. CASE prev[pg] = NULL
  <2>1. next' = next /\ prev' = prev
    BY <1>2 DEF move_to_lru_head
  <2>2. LinkInv'
    BY <2>1 DEF FrameInv, LinkInv, InUse, Page
  <2> QED
    BY <2>1, <2>2, FreePagesSame
<1> QED
  BY <1>1, <1>2

LEMMA SameKeepsFrames ==
  ASSUME FrameInv, UNCHANGED frameVars
  PROVE  FrameInv'
<1>1. next' = next /\ prev' = prev /\ index' = index /\ lru' = lru /\ free' = free /\ hash' = hash
  BY DEF frameVars
<1>2. FrameOK' /\ LinkInv'
  BY <1>1 DEF FrameInv, FrameOK, LinkInv, InUse, Page, Index
<1> QED
  BY <1>1, <1>2, FreePagesSame

-----------------------------------------------------------------------------
(* The hash table. *)

\* The entries of a page number are a sequence of pages.
LEMMA EntriesAre ==
  ASSUME FrameOK, NEW k \in Index
  PROVE  /\ hash[k] \in Seq(Page) /\ Len(hash[k]) \in Nat /\ entries(k) = 1..Len(hash[k])
         /\ \A i \in entries(k) : hash[k][i] \in Page
         /\ cached(k) <=> Len(hash[k]) > 0
         /\ cached(k) => 1 \in entries(k) /\ hash_table_lookup(k) = hash[k][1]
<1>1. hash[k] \in Seq(Page)
  BY DEF FrameOK
<1>2. /\ Len(hash[k]) \in Nat /\ entries(k) = 1..Len(hash[k])
      /\ \A i \in 1..Len(hash[k]) : hash[k][i] \in Page
      /\ hash[k] # << >> <=> Len(hash[k]) > 0
  BY <1>1 DEF entries
<1>3. cached(k) => hash_table_lookup(k) = hash[k][1]
  BY <1>1 DEF cached, hash_table_lookup
<1> QED
  BY <1>1, <1>2, <1>3 DEF cached

\* The page a lookup finds holds the page number.
LEMMA Lookup ==
  ASSUME FrameOK, HashFindsPages, NEW k \in Index \ gone, cached(k)
  PROVE  /\ hash_table_lookup(k) \in InUse /\ index[hash_table_lookup(k)] = k
         /\ ~twice(k) => hash[k] = <<hash_table_lookup(k)>>
<1>1. /\ hash[k] \in Seq(Page) /\ Len(hash[k]) \in Nat /\ Len(hash[k]) > 0
      /\ 1 \in entries(k) /\ hash_table_lookup(k) = hash[k][1] /\ hash[k][1] \in Page
  BY EntriesAre
<1>2. index[hash[k][1]] = k
  BY <1>1 DEF HashFindsPages
<1>3. ASSUME ~twice(k) PROVE hash[k] = <<hash[k][1]>>
  <2>1. Len(hash[k]) = 1
    <3>1. Len(hash[k]) \in Nat /\ Len(hash[k]) > 0 /\ ~(Len(hash[k]) > 1)
      BY <1>1, <1>3 DEF twice
    <3>2. \A n \in Nat : n > 0 /\ ~(n > 1) => n = 1
      OBVIOUS
    <3> QED
      BY <3>1, <3>2
  <2> QED
    BY <1>1, <2>1
<1> QED
  BY <1>1, <1>2, <1>3, NullApart DEF InUse

\* A page in use has an entry.
LEMMA HasEntry ==
  ASSUME FrameOK, HashFindsPages, NEW pg \in Page, index[pg] \in Index \ gone
  PROVE  cached(index[pg])
<1>1. PICK i \in entries(index[pg]) : hash[index[pg]][i] = pg
  BY DEF HashFindsPages
<1>2. entries(index[pg]) = 1..Len(hash[index[pg]]) /\ Len(hash[index[pg]]) \in Nat
  BY EntriesAre
<1>3. Len(hash[index[pg]]) > 0
  BY <1>1, <1>2
<1> QED
  BY <1>3, EntriesAre

\* What is lost stays lost, and after stray nothing is left.
LEMMA GoneGrows ==
  ASSUME lost \subseteq lost', lost' \subseteq Index, stray => stray'
  PROVE  /\ gone \subseteq gone'
         /\ stray' => Index \ gone' = {}
         /\ ~stray' => ~stray /\ gone = lost /\ gone' = lost'
<1>1. gone = IF stray THEN Index ELSE lost
  BY DEF gone
<1>2. gone' = IF stray' THEN Index ELSE lost'
  BY DEF gone, Index
<1> QED
  BY <1>1, <1>2

LEMMA SameKeepsHash ==
  ASSUME HashFindsPages, gone \subseteq gone', UNCHANGED <<index, hash>>
  PROVE  HashFindsPages'
<1>1. \A k : entries(k)' = entries(k)
  BY DEF entries
<1> QED
  BY <1>1 DEF HashFindsPages, Page, Index

\* Removing by number removes the page's own entry, if it is the only one.
LEMMA RemoveKeepsHash ==
  ASSUME FrameOK, HashFindsPages, gone \subseteq gone', NEW pg \in InUse,
         index[pg] \notin gone' => ~twice(index[pg]), remove_from_lru(pg)
  PROVE  /\ HashFindsPages'
         /\ \A j \in Index : j # index[pg] => hash'[j] = hash[j]
         /\ index[pg] \notin gone' => hash[index[pg]] = <<pg>> /\ hash'[index[pg]] = << >>
<1> DEFINE k == index[pg]
<1>1. pg \in Page /\ k \in Index /\ NULL \notin Index
  BY NullApart DEF InUse, FrameOK
<1>2. hash' = [hash EXCEPT ![k] = Tail(hash[k])] /\ index' = [index EXCEPT ![pg] = NULL]
  BY DEF remove_from_lru, hash_table_remove
<1>3. \A j \in Index : j # k => hash'[j] = hash[j]
  BY <1>2 DEF FrameOK
<1>4. ASSUME k \notin gone' PROVE hash[k] = <<pg>> /\ hash'[k] = << >>
  <2>1. k \in Index \ gone /\ ~twice(k)
    BY <1>1, <1>4
  <2>2. cached(k)
    BY <1>1, <2>1, HasEntry
  <2>3. hash[k] = <<hash_table_lookup(k)>> /\ hash_table_lookup(k) = hash[k][1]
        /\ entries(k) = 1..Len(hash[k])
    BY <1>1, <2>1, <2>2, Lookup, EntriesAre
  <2>4. PICK i \in entries(k) : hash[k][i] = pg
    BY <1>1, <2>1 DEF HashFindsPages
  <2> DEFINE q == hash_table_lookup(k)
  <2> HIDE DEF q, k
  <2>5. hash[k] = <<q>> /\ Len(<<q>>) = 1 /\ <<q>>[1] = q /\ Tail(<<q>>) = << >>
    BY <2>3 DEF q
  <2>6. q = pg
    BY <2>3, <2>4, <2>5
  <2>7. hash'[k] = << >>
    BY <1>1, <1>2, <2>5 DEF FrameOK
  <2> QED
    BY <2>5, <2>6, <2>7
<1> HIDE DEF k
<1>5. ASSUME NEW j \in Index \ gone'
      PROVE  /\ \A p \in Page : index'[p] = j <=> \E i \in entries(j)' : hash'[j][i] = p
             /\ \A i, i2 \in entries(j)' : hash'[j][i] = hash'[j][i2] => i = i2
  <2>1. j \in Index \ gone
    BY <1>5
  <2>2. /\ \A p \in Page : index[p] = j <=> \E i \in entries(j) : hash[j][i] = p
        /\ \A i, i2 \in entries(j) : hash[j][i] = hash[j][i2] => i = i2
    BY <2>1 DEF HashFindsPages
  <2>3. CASE j # k
    <3>1. hash'[j] = hash[j] /\ entries(j)' = entries(j)
      BY <1>3, <1>5, <2>3 DEF entries
    <3>2. \A p \in Page : index'[p] = j <=> index[p] = j
      BY <1>1, <1>2, <1>5, <2>3 DEF FrameOK, k
    <3> QED
      BY <2>2, <3>1, <3>2
  <2>4. CASE j = k
    <3>1. hash[j] = <<pg>> /\ hash'[j] = << >>
      BY <1>4, <1>5, <2>4
    <3>2. DOMAIN <<pg>> = {1} /\ <<pg>>[1] = pg /\ DOMAIN << >> = {}
      OBVIOUS
    <3>3. entries(j)' = {} /\ entries(j) = {1} /\ hash[j][1] = pg
      BY <3>1, <3>2 DEF entries
    <3>4. \A p \in Page : index[p] = j => p = pg
      BY <2>2, <3>3
    <3>5. \A p \in Page : index'[p] # j
      BY <1>1, <1>2, <1>5, <3>4 DEF FrameOK
    <3> QED
      BY <3>3, <3>5
  <2> QED
    BY <2>3, <2>4
<1>6. HashFindsPages'
  BY <1>5 DEF HashFindsPages, Page, Index
<1> QED
  BY <1>3, <1>4, <1>6 DEF k

\* A page that was not in use gets a number: it is found before all others.
LEMMA AddKeepsHash ==
  ASSUME FrameOK, HashFindsPages, gone \subseteq gone', NEW k \in Index,
         free.head \in Page, free.head \notin InUse, add_to_lru_head(k)
  PROVE  /\ HashFindsPages'
         /\ \A j \in Index : j # k => hash'[j] = hash[j]
         /\ hash'[k] # << >> /\ Head(hash'[k]) = free.head
<1> DEFINE pg == free.head
<1>1. pg \in Page /\ index[pg] = NULL /\ NULL \notin Index
  BY NullApart DEF InUse
<1>2. hash' = [hash EXCEPT ![k] = <<pg>> \o hash[k]] /\ index' = [index EXCEPT ![pg] = k]
  BY DEF add_to_lru_head, hash_table_insert
<1> HIDE DEF pg
<1>3. \A j \in Index : j # k => hash'[j] = hash[j]
  BY <1>2 DEF FrameOK
<1>4. hash'[k] = <<pg>> \o hash[k] /\ hash[k] \in Seq(Page) /\ Len(hash[k]) \in Nat
  BY <1>2 DEF FrameOK
<1>5. /\ Len(hash'[k]) = Len(hash[k]) + 1 /\ hash'[k][1] = pg /\ hash'[k] \in Seq(Page)
      /\ DOMAIN hash'[k] = 1..(Len(hash[k]) + 1)
      /\ \A i \in 2..(Len(hash[k]) + 1) : hash'[k][i] = hash[k][i - 1]
  BY <1>1, <1>4
<1>6. hash'[k] # << >> /\ Head(hash'[k]) = pg
  BY <1>4, <1>5
<1>7. ASSUME NEW j \in Index \ gone'
      PROVE  /\ \A p \in Page : index'[p] = j <=> \E i \in entries(j)' : hash'[j][i] = p
             /\ \A i, i2 \in entries(j)' : hash'[j][i] = hash'[j][i2] => i = i2
  <2>1. j \in Index \ gone
    BY <1>7
  <2>2. /\ \A p \in Page : index[p] = j <=> \E i \in entries(j) : hash[j][i] = p
        /\ \A i, i2 \in entries(j) : hash[j][i] = hash[j][i2] => i = i2
    BY <2>1 DEF HashFindsPages
  <2>3. CASE j # k
    <3>1. hash'[j] = hash[j] /\ entries(j)' = entries(j)
      BY <1>3, <1>7, <2>3 DEF entries
    <3>2. \A p \in Page : index'[p] = j <=> index[p] = j
      BY <1>1, <1>2, <1>7, <2>3 DEF FrameOK
    <3> QED
      BY <2>2, <3>1, <3>2
  <2>4. CASE j = k
    <3> DEFINE n == Len(hash[k])
    <3>1. entries(j) = 1..n /\ entries(j)' = 1..(n + 1) /\ n \in Nat
      BY <1>4, <1>5, <2>4, EntriesAre DEF entries
    <3>2. \A i \in 1..n : hash[k][i] # pg
      BY <1>1, <1>7, <2>2, <2>4, <3>1
    <3>3. hash'[k][1] = pg /\ \A i \in 2..(n + 1) : hash'[k][i] = hash[k][i - 1]
      BY <1>5
    <3> HIDE DEF n
    <3>4. ASSUME NEW p \in Page PROVE index'[p] = j <=> \E i \in 1..(n + 1) : hash'[j][i] = p
      <4>1. CASE p = pg
        <5>1. 1 \in 1..(n + 1) /\ index'[pg] = k
          BY <1>1, <1>2, <3>1 DEF FrameOK
        <5> QED
          BY <2>4, <3>3, <4>1, <5>1
      <4>2. CASE p # pg
        <5>1. index'[p] = index[p]
          BY <1>2, <4>2 DEF FrameOK
        <5>2. ASSUME NEW i \in 1..n, hash[k][i] = p PROVE \E m \in 1..(n + 1) : hash'[k][m] = p
          <6>1. i + 1 \in 2..(n + 1) /\ i + 1 \in 1..(n + 1) /\ (i + 1) - 1 = i
            BY <3>1
          <6> QED
            BY <3>3, <5>2, <6>1
        <5>3. ASSUME NEW m \in 1..(n + 1), hash'[k][m] = p PROVE \E i \in 1..n : hash[k][i] = p
          <6>1. m # 1
            BY <3>3, <4>2, <5>3
          <6>2. m \in 2..(n + 1) /\ m - 1 \in 1..n
            BY <3>1, <6>1
          <6> QED
            BY <3>3, <5>3, <6>2
        <5> QED
          BY <2>2, <2>4, <3>1, <5>1, <5>2, <5>3
      <4> QED
        BY <4>1, <4>2
    <3>5. ASSUME NEW i \in 1..(n + 1), NEW m \in 1..(n + 1), hash'[k][i] = hash'[k][m]
          PROVE  i = m
      <4>1. \A x \in 1..(n + 1) : x # 1 => x \in 2..(n + 1) /\ x - 1 \in 1..n
        BY <3>1
      <4>2. CASE i = 1 \/ m = 1
        BY <3>2, <3>3, <3>5, <4>1, <4>2
      <4>3. CASE i # 1 /\ m # 1
        <5>1. i - 1 \in 1..n /\ m - 1 \in 1..n /\ hash[k][i - 1] = hash[k][m - 1]
          BY <3>3, <3>5, <4>1, <4>3
        <5>2. i - 1 = m - 1
          BY <2>2, <2>4, <3>1, <5>1
        <5> QED
          BY <3>1, <5>2
      <4> QED
        BY <4>2, <4>3
    <3> QED
      BY <2>4, <3>1, <3>4, <3>5
  <2> QED
    BY <2>3, <2>4
<1>8. HashFindsPages'
  BY <1>7 DEF HashFindsPages, Page, Index
<1> QED
  BY <1>3, <1>6, <1>8 DEF pg

-----------------------------------------------------------------------------
(* Each step of a call keeps the invariant and is a step of the plain store. *)

\* Once nothing is known of the pages any more, every step is one of the store.
LEMMA StrayRefines ==
  ASSUME TypeInv', gone \subseteq gone', stray', Index \ gone' = {}
  PROVE  CacheInv' /\ Store!MemNext
<1>1. HashFindsPages'
  <2>1. \A k \in Index \ gone' :
          /\ \A p \in Page : index'[p] = k <=> \E i \in entries(k)' : hash'[k][i] = p
          /\ \A i, j \in entries(k)' : hash'[k][i] = hash'[k][j] => i = j
    OBVIOUS
  <2> QED
    BY <2>1 DEF HashFindsPages, Page, Index
<1>2. Store!Keep
  BY DEF Store!Keep
<1>3. got' = NULL \/ got' \in [index : Index, val : Val \cup {Blank}]
  BY DEF TypeInv, DataOK, Index
<1>4. CacheInv'
  BY <1>1 DEF CacheInv
<1>5. CASE got' = NULL
  BY <1>2, <1>5, <1>4 DEF Store!Return, Store!MemNext
<1>6. CASE got' \in [index : Index, val : Val \cup {Blank}]
  <2>1. PICK k \in Index, v \in Val \cup {Blank} : got' = [index |-> k, val |-> v]
    BY <1>6
  <2>2. Store!Read(k)
    BY <1>2, <2>1 DEF Store!Read
  <2> QED
    BY <1>4, <2>2 DEF Store!MemNext
<1> QED
  BY <1>3, <1>5, <1>6

LEMMA ContentSame ==
  ASSUME UNCHANGED <<hash, data, store>>
  PROVE  content' = content
<1>1. \A k \in Index : cached(k)' = cached(k) /\ hash_table_lookup(k)' = hash_table_lookup(k)
  BY DEF cached, hash_table_lookup
<1>2. content' = [k \in Index |-> IF cached(k)' THEN data[hash_table_lookup(k)'] ELSE store[k]]
  BY DEF content, Index
<1> QED
  BY <1>1, <1>2 DEF content

\* What content' is of one page.
LEMMA ContentIs ==
  ASSUME NEW k \in Index
  PROVE  /\ content[k] = IF cached(k) THEN data[hash_table_lookup(k)] ELSE store[k]
         /\ content'[k] = IF hash'[k] # << >> THEN data'[Head(hash'[k])] ELSE store'[k]
<1>1. content' = [j \in Index |-> IF hash'[j] # << >> THEN data'[Head(hash'[j])] ELSE store'[j]]
  BY DEF content, cached, hash_table_lookup, Index
<1> QED
  BY <1>1 DEF content

\* What leaves the cache alone keeps the invariant.
LEMMA SameKeeps ==
  ASSUME CacheInv, TypeInv', UNCHANGED <<frameVars, stray>>, lost \subseteq lost'
  PROVE  CacheInv' /\ gone \subseteq gone'
<1>1. gone \subseteq gone'
  BY GoneGrows DEF TypeInv, DataOK, Index
<1>2. HashFindsPages'
  BY <1>1, SameKeepsHash DEF CacheInv, frameVars
<1>3. ~stray' => FrameInv'
  BY SameKeepsFrames DEF CacheInv
<1> QED
  BY <1>1, <1>2, <1>3 DEF CacheInv

LEMMA CrashRefines ==
  ASSUME CacheInv, TypeInv', crash
  PROVE  CacheInv' /\ UNCHANGED <<content, got, gone>>
<1>1. UNCHANGED <<frameVars, data, store, got, lost, stray>> /\ hash' = hash
  BY DEF crash, history, frameVars
<1>2. content' = content /\ gone' = gone
  BY <1>1, ContentSame DEF gone, Index
<1> QED
  BY <1>1, <1>2, SameKeeps

LEMMA SubmitWriteRefines ==
  ASSUME CacheInv, TypeInv', submit_write \/ submit_write_fails
  PROVE  CacheInv' /\ Store!MemNext
<1>1. doing("direct write") /\ UNCHANGED <<frameVars, data, got, stray>> /\ hash' = hash
      /\ lost \subseteq lost'
  BY DEF submit_write, submit_write_fails, loses, frameVars
<1>2. call # NULL /\ call.op = "direct write" /\ call.at \in Index /\ call.val \in Val
  BY <1>1, CallIs DEF CacheInv, TypeInv, CallInv
<1>3. CacheInv' /\ gone \subseteq gone'
  BY <1>1, SameKeeps
<1>4. CASE submit_write
  <2>1. /\ store' = [store EXCEPT ![call.at] = call.val]
        /\ lost' = lost \cup {k \in {call.at} : cached(k)}
    BY <1>4 DEF submit_write, loses
  <2>2. lost' \subseteq gone'
    BY DEF gone, TypeInv, DataOK, Index
  <2>3. ASSUME NEW j \in Index \ gone'
        PROVE  content'[j] = IF j = call.at THEN call.val ELSE content[j]
    <3>1. j \in Index
      OBVIOUS
    <3>2. CASE j = call.at
      <4>1. ~cached(j)
        BY <2>1, <2>2, <3>2
      <4>2. store'[j] = call.val
        BY <1>2, <2>1, <3>2 DEF CacheInv, TypeInv, DataOK
      <4> QED
        BY <1>1, <3>1, <3>2, <4>1, <4>2, ContentIs DEF cached
    <3>3. CASE j # call.at
      <4>1. store'[j] = store[j]
        BY <1>2, <2>1, <3>3 DEF CacheInv, TypeInv, DataOK
      <4> QED
        BY <1>1, <3>1, <3>3, <4>1, ContentIs DEF cached, hash_table_lookup
    <3> QED
      BY <3>2, <3>3
  <2>4. Store!Write(call.at, call.val)
    BY <1>1, <2>3 DEF Store!Write
  <2> QED
    BY <1>2, <1>3, <2>4 DEF Store!MemNext
<1>5. CASE submit_write_fails
  <2>1. store' = store
    BY <1>5 DEF submit_write_fails
  <2>2. content' = content
    BY <1>1, <2>1, ContentSame
  <2> QED
    BY <1>1, <1>3, <2>2 DEF Store!Keep, Store!MemNext
<1> QED
  BY <1>4, <1>5

LEMMA SubmitReadRefines ==
  ASSUME CacheInv, TypeInv', submit_read \/ submit_read_fails
  PROVE  CacheInv' /\ Store!MemNext
<1>1. doing("direct read") /\ UNCHANGED <<frameVars, data, store, stray>> /\ hash' = hash
      /\ lost \subseteq lost'
  BY DEF submit_read, submit_read_fails, loses, frameVars
<1>2. call # NULL /\ call.at \in Index
  BY <1>1, CallIs DEF CacheInv, TypeInv
<1>3. CacheInv' /\ gone \subseteq gone' /\ content' = content
  BY <1>1, SameKeeps, ContentSame
<1>4. lost' \subseteq gone'
  BY DEF gone, TypeInv, DataOK, Index
<1>5. \E v \in Val \cup {Blank} :
        got' = [index |-> call.at, val |-> v] /\ (call.at \notin gone' => v = content[call.at])
  <2>1. CASE submit_read
    <3>1. /\ got' = [index |-> call.at, val |-> store[call.at]]
          /\ lost' = lost \cup {k \in {call.at} : unsaved(k)}
      BY <2>1 DEF submit_read, loses
    <3>2. call.at \notin gone' => ~unsaved(call.at)
      BY <1>4, <3>1
    <3>3. ~unsaved(call.at) => store[call.at] = content[call.at]
      BY <1>2, ContentIs DEF unsaved
    <3>4. store[call.at] \in Val \cup {Blank}
      BY <1>2 DEF CacheInv, TypeInv, DataOK
    <3> QED
      BY <3>1, <3>2, <3>3, <3>4
  <2>2. CASE submit_read_fails
    <3>1. call.at \in gone'
      BY <1>4, <2>2 DEF submit_read_fails, loses
    <3> QED
      BY <2>2, <3>1 DEF submit_read_fails
  <2> QED
    BY <2>1, <2>2
<1>6. Store!Read(call.at)
  BY <1>3, <1>5 DEF Store!Read, Store!Keep
<1> QED
  BY <1>2, <1>3, <1>6 DEF Store!MemNext

\* An eviction: the content moves from the page to the store, or is lost.
LEMMA WriteBackRefines ==
  ASSUME CacheInv, TypeInv', write_back
  PROVE  CacheInv' /\ Store!MemNext
<1>1. CASE crash
  <2>1. CacheInv' /\ UNCHANGED <<content, got, gone>>
    BY <1>1, CrashRefines
  <2> QED
    BY <2>1 DEF Store!Keep, Store!MemNext
<1>2. CASE ~crash
  <2>1. PICK success \in BOOLEAN :
                 /\ lru.tail # NULL /\ index[lru.tail] # NULL
                 /\ store' = write_pio(lru.tail, success)
                 /\ lost' = lost \cup {k \in {index[lru.tail]} : ~success \/ twice(k)}
                 /\ UNCHANGED <<data, call, got, stray>>
                 /\ \/ /\ cached(index[lru.tail])
                       /\ remove_from_lru(lru.tail)
                       /\ evict' = (IF evict = 0 THEN write_backs ELSE evict) - 1
                       /\ process' = process
                    \/ /\ ~cached(index[lru.tail])
                       /\ process' = "crashed"
                       /\ UNCHANGED <<frameVars, evict>>
    BY <1>2, WriteBackIs
  <2> DEFINE pg == lru.tail
             k0 == index[pg]
  <2>2. pg \in InUse /\ pg \in Page /\ k0 \in Index
    BY <2>1 DEF CacheInv, TypeInv, FrameOK, InUse
  <2>3. FrameOK /\ FrameOK' /\ HashFindsPages /\ lost' \subseteq Index
    BY DEF CacheInv, TypeInv, DataOK, Index
  <2>4. /\ gone \subseteq gone' /\ (stray' => Index \ gone' = {})
        /\ (~stray' => ~stray /\ gone = lost /\ gone' = lost')
    BY <2>1, <2>3, GoneGrows
  <2>5. k0 \notin gone' => success /\ ~twice(k0) /\ cached(k0)
    <3>1. ASSUME k0 \notin gone' PROVE success /\ ~twice(k0) /\ cached(k0)
      <4>1. ~stray' /\ k0 \notin lost' /\ k0 \in Index \ gone
        BY <2>2, <2>4, <3>1
      <4> QED
        BY <2>1, <2>2, <2>3, <4>1, HasEntry
    <3> QED
      BY <3>1
  <2>6. /\ \A j \in Index : j # k0 => store'[j] = store[j]
        /\ success => store'[k0] = data[pg]
    BY <2>1, <2>2 DEF write_pio, CacheInv, TypeInv, DataOK
  <2>7. CASE ~cached(k0)
    <3>1. UNCHANGED <<frameVars, stray>> /\ lost \subseteq lost' /\ hash' = hash /\ k0 \in gone'
      BY <2>1, <2>5, <2>7 DEF frameVars
    <3>2. CacheInv'
      BY <3>1, SameKeeps
    <3>3. ASSUME NEW j \in Index \ gone' PROVE content'[j] = content[j]
      BY <2>1, <2>6, <3>1, ContentIs DEF cached, hash_table_lookup
    <3> QED
      BY <2>1, <2>4, <3>2, <3>3 DEF Store!Keep, Store!MemNext
  <2>8. CASE cached(k0)
    <3>1. remove_from_lru(pg)
      BY <2>1, <2>8
    <3> HIDE DEF pg, k0
    <3>2. /\ HashFindsPages'
          /\ \A j \in Index : j # index[pg] => hash'[j] = hash[j]
          /\ index[pg] \notin gone' => hash[index[pg]] = <<pg>> /\ hash'[index[pg]] = << >>
      BY <2>2, <2>3, <2>4, <2>5, <3>1, RemoveKeepsHash DEF k0
    <3>3. ~stray' => FrameInv'
      BY <2>2, <2>3, <2>4, <3>1, RemoveKeepsFrames DEF CacheInv
    <3>4. CacheInv'
      BY <3>2, <3>3 DEF CacheInv
    <3>5. ASSUME NEW j \in Index \ gone' PROVE content'[j] = content[j]
      <4>1. CASE j # k0
        BY <2>1, <2>6, <3>2, <4>1, ContentIs DEF cached, hash_table_lookup, k0
      <4>2. CASE j = k0
        <5>1. hash[j] = <<pg>> /\ hash'[j] = << >> /\ store'[j] = data[pg] /\ cached(j)
          BY <2>5, <2>6, <2>8, <3>2, <3>5, <4>2 DEF k0
        <5>2. Head(<<pg>>) = pg
          OBVIOUS
        <5> QED
          BY <5>1, <5>2, ContentIs DEF hash_table_lookup
      <4> QED
        BY <4>1, <4>2
    <3> QED
      BY <2>1, <2>4, <3>4, <3>5 DEF Store!Keep, Store!MemNext
  <2> QED
    BY <2>7, <2>8
<1> QED
  BY <1>1, <1>2

\* A page is brought in: its number has the content v from then on.
LEMMA BringRefines ==
  ASSUME CacheInv, TypeInv', ~stray, stray' = stray, lost \subseteq lost',
         NEW k \in Index, free.nr_free > 0, add_to_lru_head(k),
         NEW v, data' = [data EXCEPT ![free.head] = v], UNCHANGED store
  PROVE  /\ CacheInv' /\ gone \subseteq gone'
         /\ \A j \in Index \ gone' : content'[j] = IF j = k THEN v ELSE content[j]
<1> DEFINE pg == free.head
<1>1. FrameOK /\ FrameOK' /\ HashFindsPages /\ lost' \subseteq Index /\ FrameInv
  BY DEF CacheInv, TypeInv, DataOK, Index
<1>2. gone \subseteq gone'
  BY <1>1, GoneGrows
<1>3. FrameInv' /\ pg \in Page /\ pg \notin InUse
  BY <1>1, AddKeepsFrames
<1>4. /\ HashFindsPages'
      /\ \A j \in Index : j # k => hash'[j] = hash[j]
      /\ hash'[k] # << >> /\ Head(hash'[k]) = pg
  BY <1>1, <1>2, <1>3, AddKeepsHash
<1>5. data'[pg] = v /\ \A p \in InUse : data'[p] = data[p]
  BY <1>3 DEF CacheInv, TypeInv, DataOK, InUse
<1> HIDE DEF pg
<1>6. ASSUME NEW j \in Index \ gone' PROVE content'[j] = IF j = k THEN v ELSE content[j]
  <2>1. CASE j = k
    BY <1>4, <1>5, <2>1, ContentIs
  <2>2. CASE j # k
    <3>1. hash'[j] = hash[j] /\ j \in Index \ gone
      BY <1>2, <1>4, <2>2
    <3>2. cached(j) => hash_table_lookup(j) \in InUse
      BY <1>1, <3>1, Lookup
    <3> QED
      BY <1>5, <2>2, <3>1, <3>2, ContentIs DEF cached, hash_table_lookup
  <2> QED
    BY <2>1, <2>2
<1> QED
  BY <1>2, <1>3, <1>4, <1>6 DEF CacheInv

LEMMA WritePageRefines ==
  ASSUME CacheInv, TypeInv', write_page
  PROVE  CacheInv' /\ Store!MemNext
<1>1. call # NULL /\ call.op = "write" /\ call.at \in Index /\ call.val \in Val /\ free.nr_free > 0
  BY CallIs DEF CacheInv, TypeInv, CallInv, write_page
<1>2. CASE crash
  <2>1. CacheInv' /\ UNCHANGED <<content, got, gone>>
    BY <1>2, CrashRefines
  <2> QED
    BY <2>1 DEF Store!Keep, Store!MemNext
<1>3. CASE ~crash
  <2>1. /\ add_to_lru_head(call.at) /\ data' = [data EXCEPT ![free.head] = call.val]
        /\ UNCHANGED <<store, got, lost, stray>>
    BY <1>3 DEF write_page, history
  <2>2. CASE ~stray
    <3>1. /\ CacheInv' /\ gone \subseteq gone'
          /\ \A j \in Index \ gone' : content'[j] = IF j = call.at THEN call.val ELSE content[j]
      BY <1>1, <2>1, <2>2, BringRefines
    <3>2. Store!Write(call.at, call.val)
      BY <2>1, <3>1 DEF Store!Write
    <3> QED
      BY <1>1, <3>1, <3>2 DEF Store!MemNext
  <2>3. CASE stray
    <3>1. stray' /\ gone \subseteq gone' /\ Index \ gone' = {}
      BY <2>1, <2>3, GoneGrows DEF CacheInv, TypeInv, DataOK
    <3> QED
      BY <3>1, StrayRefines
  <2> QED
    BY <2>2, <2>3
<1> QED
  BY <1>2, <1>3

LEMMA ReadMissRefines ==
  ASSUME CacheInv, TypeInv', read_miss
  PROVE  CacheInv' /\ Store!MemNext
<1>1. call # NULL /\ call.at \in Index /\ ~cached(call.at) /\ free.nr_free > 0
  BY CallIs DEF CacheInv, TypeInv, read_miss
<1>2. CASE crash
  <2>1. CacheInv' /\ UNCHANGED <<content, got, gone>>
    BY <1>2, CrashRefines
  <2> QED
    BY <2>1 DEF Store!Keep, Store!MemNext
<1>3. CASE ~crash
  <2>1. PICK success \in BOOLEAN :
          /\ free.head # NULL
          /\ add_to_lru_head(call.at)
          /\ data' = [data EXCEPT ![free.head] = read_pio(free.head, success)]
          /\ got' = [index |-> call.at, val |-> read_pio(free.head, success)]
          /\ lost' = lost \cup {k \in {call.at} : ~success}
          /\ UNCHANGED <<store, stray>>
    BY <1>3 DEF read_miss, loses
  <2> DEFINE v == read_pio(free.head, success)
  <2>2. /\ stray' = stray /\ lost \subseteq lost' /\ lost' \subseteq Index /\ lost' \subseteq gone'
    BY <2>1 DEF TypeInv, DataOK, gone, Index
  <2>3. CASE ~stray
    <3>1. data' = [data EXCEPT ![free.head] = v] /\ store' = store
      BY <2>1
    <3> HIDE DEF v
    <3>2. /\ CacheInv' /\ gone \subseteq gone'
          /\ \A j \in Index \ gone' : content'[j] = IF j = call.at THEN v ELSE content[j]
      BY <1>1, <2>1, <2>2, <2>3, <3>1, BringRefines
    <3>3. call.at \notin gone' => v = content[call.at]
      <4>1. call.at \notin gone' => success
        BY <2>1, <2>2
      <4>2. success => v = store[call.at]
        BY DEF v, read_pio
      <4> QED
        BY <1>1, <4>1, <4>2, ContentIs
    <3>4. v \in Val \cup {Blank}
      <4>1. free.head \in Page
        BY <2>1 DEF CacheInv, TypeInv, FrameOK
      <4> QED
        BY <1>1, <4>1 DEF v, read_pio, CacheInv, TypeInv, DataOK
    <3>5. got' = [index |-> call.at, val |-> v]
      BY <2>1 DEF v
    <3>6. Store!Read(call.at)
      <4>1. Store!Keep
        BY <3>2, <3>3 DEF Store!Keep
      <4> QED
        BY <3>3, <3>4, <3>5, <4>1 DEF Store!Read
    <3> QED
      BY <1>1, <3>2, <3>6 DEF Store!MemNext
  <2>4. CASE stray
    <3>1. stray' /\ gone \subseteq gone' /\ Index \ gone' = {}
      BY <2>2, <2>4, GoneGrows
    <3> QED
      BY <3>1, StrayRefines
  <2> QED
    BY <2>3, <2>4
<1> QED
  BY <1>2, <1>3

LEMMA ReadHitRefines ==
  ASSUME CacheInv, TypeInv', read_hit
  PROVE  CacheInv' /\ Store!MemNext
<1> DEFINE pg == hash_table_lookup(call.at)
<1>1. call # NULL /\ call.at \in Index /\ cached(call.at)
  BY CallIs DEF CacheInv, TypeInv, read_hit
<1>2. /\ move_to_lru_head(pg) /\ got' = [index |-> call.at, val |-> data[pg]]
      /\ UNCHANGED <<index, free, hash>> /\ UNCHANGED <<data, store, lost>>
      /\ stray' = (stray \/ (pg \notin InUse /\ prev[pg] # NULL))
  BY DEF read_hit
<1>3. pg \in Page
  BY <1>1, EntriesAre DEF CacheInv, TypeInv
<1> HIDE DEF pg
<1>4. /\ gone \subseteq gone' /\ (stray' => Index \ gone' = {})
      /\ (~stray' => ~stray /\ gone = lost /\ gone' = lost')
  <2>1. stray => stray'
    BY <1>2
  <2>2. lost' \subseteq Index
    BY DEF TypeInv, DataOK, Index
  <2> QED
    BY <1>2, <2>1, <2>2, GoneGrows
<1>5. CASE stray'
  BY <1>4, <1>5, StrayRefines
<1>6. CASE ~stray'
  <2>1. FrameInv /\ FrameOK' /\ (pg \in InUse \/ prev[pg] = NULL)
    BY <1>2, <1>4, <1>6 DEF CacheInv, TypeInv
  <2>2. FrameInv'
    BY <1>2, <1>3, <2>1, MoveKeepsFrames
  <2>3. HashFindsPages'
    BY <1>2, <1>4, SameKeepsHash DEF CacheInv
  <2>4. content' = content
    BY <1>2, ContentSame
  <2>5. content[call.at] = data[pg] /\ data[pg] \in Val \cup {Blank}
    BY <1>1, <1>3, ContentIs DEF pg, CacheInv, TypeInv, DataOK
  <2>6. Store!Read(call.at)
    BY <1>2, <2>4, <2>5 DEF Store!Read, Store!Keep
  <2> QED
    BY <1>1, <1>4, <2>2, <2>3, <2>6 DEF CacheInv, Store!MemNext
<1> QED
  BY <1>5, <1>6

-----------------------------------------------------------------------------
LEMMA InitCacheInv ==
  ASSUME init_page_cache
  PROVE  CacheInv /\ Store!MemInit
<1>1. CACHE_SIZE \in Nat /\ CACHE_SIZE > 1 /\ NULL \notin Page /\ NULL \notin Index
  BY CacheAssumption, NullApart
<1>2. InUse = {} /\ Page \ InUse = Page
  BY <1>1 DEF InUse, init_page_cache
<1>3. FrameOK
  <2>1. \A p \in Page : p # 0 => p - 1 \in Page
    BY <1>1 DEF Page
  <2>2. CACHE_SIZE - 1 \in Page /\ CACHE_SIZE \in 0..CACHE_SIZE
    BY <1>1 DEF Page
  <2>3. << >> \in Seq(Page)
    OBVIOUS
  <2> QED
    BY <2>1, <2>2, <2>3 DEF FrameOK, init_page_cache
<1>4. LinkInv
  BY DEF LinkInv, init_page_cache
<1>5. Counted
  <2>1. 0 \in Int /\ CACHE_SIZE - 1 \in Int /\ CACHE_SIZE - 1 >= 0
    BY <1>1
  <2>2. Cardinality(Page) = CACHE_SIZE
    BY <1>1, <2>1, FS_Interval DEF Page
  <2> QED
    BY <1>2, <2>2 DEF Counted, init_page_cache
<1>6. FreeListIsWhole
  <2> DEFINE s == [i \in 1..CACHE_SIZE |-> CACHE_SIZE - i]
  <2>1. s \in [1..CACHE_SIZE -> Page]
    BY <1>1 DEF Page
  <2>2. Each(s, CACHE_SIZE, Page)
    <3>1. ASSUME NEW p \in Page PROVE \E i \in 1..CACHE_SIZE : s[i] = p
      <4>1. CACHE_SIZE - p \in 1..CACHE_SIZE /\ CACHE_SIZE - (CACHE_SIZE - p) = p
        BY <1>1 DEF Page
      <4> QED
        BY <4>1
    <3>2. \A i, j \in 1..CACHE_SIZE : s[i] = s[j] => i = j
      BY <1>1
    <3> QED
      BY <3>1, <3>2 DEF Each
  <2>3. Chained(s, CACHE_SIZE)
    <3>1. ASSUME NEW i \in 1..CACHE_SIZE
          PROVE  next[s[i]] = IF i = CACHE_SIZE THEN NULL ELSE s[i + 1]
      <4>1. next[s[i]] = IF CACHE_SIZE - i = 0 THEN NULL ELSE CACHE_SIZE - i - 1
        BY <2>1 DEF init_page_cache
      <4>2. CACHE_SIZE - i = 0 <=> i = CACHE_SIZE
        BY <1>1
      <4>3. CASE i # CACHE_SIZE
        <5>1. i + 1 \in 1..CACHE_SIZE /\ CACHE_SIZE - i - 1 = CACHE_SIZE - (i + 1)
          BY <1>1, <4>3
        <5> QED
          BY <4>1, <4>2, <4>3, <5>1
      <4> QED
        BY <4>1, <4>2, <4>3
    <3> QED
      BY <3>1 DEF Chained
  <2>4. free.nr_free = CACHE_SIZE /\ free.head = CACHE_SIZE - 1 /\ CACHE_SIZE # 0
        /\ s[1] = CACHE_SIZE - 1
    BY <1>1 DEF init_page_cache
  <2> HIDE DEF s
  <2> QED
    BY <1>2, <2>1, <2>2, <2>3, <2>4 DEF FreeListIsWhole
<1>7. Fits
  <2>1. Cardinality({}) = 0
    BY FS_EmptySet
  <2> QED
    BY <1>1, <1>2, <2>1 DEF Fits, init_page_cache
<1>8. HashFindsPages
  <2>1. DOMAIN << >> = {}
    OBVIOUS
  <2> QED
    BY <1>1, <2>1 DEF HashFindsPages, entries, init_page_cache
<1>9. CallInv
  BY DEF CallInv, init_page_cache
<1>10. DataOK
  <2>1. data = [p \in Page |-> Blank] /\ store = [k \in Index |-> Blank]
    BY DEF init_page_cache
  <2>2. evict = 0 /\ got = NULL /\ process = "up" /\ lost = {} /\ stray = FALSE
    BY DEF init_page_cache
  <2>3. data \in [Page -> Val \cup {Blank}] /\ store \in [Index -> Val \cup {Blank}]
    BY <2>1
  <2>4. evict \in 0..(CACHE_SIZE - 1)
    BY <1>1, <2>2
  <2> QED
    BY <2>2, <2>3, <2>4 DEF DataOK
<1>11. content = [k \in Index |-> Blank]
  BY DEF content, cached, init_page_cache
<1>12. got = NULL /\ gone = {}
  BY DEF gone, init_page_cache
<1> QED
  BY <1>3, <1>4, <1>5, <1>6, <1>7, <1>8, <1>9, <1>10, <1>11, <1>12
     DEF CacheInv, TypeInv, FrameInv, Store!MemInit

\* The invariant is inductive, and every step is one of the plain store.
LEMMA CacheInvIsInductive ==
  ASSUME CacheInv, [Next]_vars
  PROVE  CacheInv' /\ [Store!MemNext]_<<content, got, gone>>
<1>0. TypeInv'
  BY TypeInvIsInductive DEF CacheInv
<1>1. CASE CallStep
  <2>1. CASE submit_write \/ submit_write_fails
    BY <1>0, <2>1, SubmitWriteRefines
  <2>2. CASE submit_read \/ submit_read_fails
    BY <1>0, <2>2, SubmitReadRefines
  <2>3. CASE write_back
    BY <1>0, <2>3, WriteBackRefines
  <2>4. CASE write_page
    BY <1>0, <2>4, WritePageRefines
  <2>5. CASE read_miss
    BY <1>0, <2>5, ReadMissRefines
  <2>6. CASE read_hit
    BY <1>0, <2>6, ReadHitRefines
  <2>7. CASE return
    <3>1. UNCHANGED <<frameVars, data, store, lost, stray>> /\ hash' = hash /\ got' = NULL
      BY <2>7 DEF return, history, frameVars
    <3>2. CacheInv' /\ gone \subseteq gone' /\ content' = content
      BY <1>0, <3>1, SameKeeps, ContentSame
    <3> QED
      BY <3>1, <3>2 DEF Store!Return, Store!Keep, Store!MemNext
  <2> QED
    BY <1>1, <2>1, <2>2, <2>3, <2>4, <2>5, <2>6, <2>7 DEF CallStep
<1>2. CASE ~CallStep
  <2>1. UNCHANGED <<frameVars, data, store, got, lost, stray>> /\ hash' = hash
    BY <1>2 DEF Next, uwrite, uread, begin, exit_page_cache, vars, history, frameVars
  <2>2. CacheInv' /\ content' = content /\ gone' = gone
    BY <1>0, <2>1, SameKeeps, ContentSame DEF gone, Index
  <2> QED
    BY <2>1, <2>2
<1> QED
  BY <1>1, <1>2

-----------------------------------------------------------------------------
\* Every variable of the cache keeps its type, whatever is written and read
\* again and whatever becomes of the lists: the counter of free pages never
\* passes the size of the cache or wraps.
THEOREM PagesAreTyped == Spec => []TypeOK
<1>1. init_page_cache => TypeInv
  BY InitCacheInv DEF CacheInv
<1>2. TypeInv /\ [Next]_vars => TypeInv'
  BY TypeInvIsInductive
<1>3. TypeInv => TypeOK
  BY DEF TypeInv, FrameOK, CallInv, Calls, DataOK, TypeOK
<1> QED
  BY <1>1, <1>2, <1>3, PTL DEF Spec

LEMMA CacheInvHolds == Spec => []CacheInv
<1>1. init_page_cache => CacheInv
  BY InitCacheInv
<1>2. CacheInv /\ [Next]_vars => CacheInv'
  BY CacheInvIsInductive
<1> QED
  BY <1>1, <1>2, PTL DEF Spec

\* The entries of a page number are exactly the pages that hold it, through
\* rewrites of cached pages, re-reads and evictions, for every page number that
\* none of the named causes has met (lost) while no page was moved that is not
\* in use (stray).
THEOREM PagesStayFound == Spec => []HashFindsPages
<1>1. CacheInv => HashFindsPages
  BY DEF CacheInv
<1> QED
  BY <1>1, CacheInvHolds, PTL

\* The free list spells exactly the pages that are not in use, each once, in
\* the links it shares with the LRU list and that re-reads spoil, until a read
\* moves a page that is not in use (stray).
THEOREM FreePagesStayFree == Spec => []FreeListHolds
<1>1. CacheInv => FreeListHolds
  BY DEF CacheInv, FrameInv, FreeListHolds
<1> QED
  BY <1>1, CacheInvHolds, PTL

\* The cache implements the plain store: through any number of rewrites,
\* evictions and re-reads a caller sees what was written last, of every page
\* but those that one of the named causes has met: a transfer that failed, a
\* page evicted while a newer one has its number, a call that went past the
\* cache where the page is cached, and, for all pages, a move of a page that
\* is not in use.
THEOREM CacheActsAsStore == Spec => ActsAsStore
<1>1. init_page_cache => CacheInv /\ Store!MemInit
  BY InitCacheInv
<1>2. CacheInv /\ [Next]_vars => CacheInv' /\ [Store!MemNext]_(Store!memVars)
  BY CacheInvIsInductive DEF Store!memVars
<1> QED
  BY <1>1, <1>2, PTL DEF Spec, ActsAsStore, Store!MemSpec

\* Each step of a call ends it or the process, or deals with one of its pages
\* or with one of the pages that alloc_page is to write back, and none adds to
\* either: a call of n pages takes at most n * (write_backs + 1) steps and its
\* return, whatever its pages are and whatever became of the lists.
THEOREM CallsComeToAnEnd == Spec => CallsAdvance
<1>1. init_page_cache => TypeInv
  BY InitCacheInv DEF CacheInv
<1>2. TypeInv /\ [Next]_vars => TypeInv'
  BY TypeInvIsInductive
<1>3. TypeInv /\ [Next]_vars
      => [CallStep => \/ call' = NULL
                      \/ process' = "crashed"
                      \/ call'.left < call.left
                      \/ call' = call /\ 0 <= to_write_back' /\ to_write_back' < to_write_back]_vars
  BY TypeInvIsInductive
<1> QED
  BY <1>1, <1>2, <1>3, PTL DEF Spec, CallsAdvance

=============================================================================
