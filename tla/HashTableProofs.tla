--------------------------- MODULE HashTableProofs ---------------------------
(***************************************************************************)
(* Proofs about the chains of the hash table, for every hash function and  *)
(* every number of entries, keys and buckets.  ChainsHold is inductive as  *)
(* it stands (with the types): for each action the sequence that a chain   *)
(* spells afterwards is given.                                             *)
(***************************************************************************)
EXTENDS HashTable, FiniteSetTheorems, TLAPS

\* Chain b spells s, and a search of it is somewhere on s.
Chain(b, s, n) ==
  /\ Enumerates(s, n, members(b))
  /\ Spells(b, s, n)
  /\ op # "none" /\ hash_32[sought] = b => \E i \in 1..(n + 1) : At(s, n, i)

ChainInv == TypeOK /\ ChainsHold

-----------------------------------------------------------------------------
\* A sequence that lists a set, each element once, is as long as the set.
LEMMA ListedSetsAreCounted ==
  ASSUME NEW S, NEW n \in Nat, NEW s, Enumerates(s, n, S)
  PROVE  Cardinality(S) = n
<1>1. s \in Bijection(1..n, S)
  BY DEF Enumerates, Bijection, Injection, Surjection, IsInjective
<1>2. ExistsBijection(1..n, S)
  BY <1>1 DEF ExistsBijection
<1> QED
  BY <1>2, FS_CountingElements

\* What ChainsHold says of one bucket.
LEMMA ChainOf ==
  ASSUME TypeOK, ChainsHold, NEW b \in Bucket
  PROVE  \E n \in Nat : \E s \in [1..n -> Entry] : Chain(b, s, n)
<1>1. IsFiniteSet(Entry)
  BY HashAssumption, FS_Interval DEF Entry
<1>2. members(b) \subseteq Entry
  BY DEF members, TypeOK
<1>3. Cardinality(members(b)) \in Nat
  BY <1>1, <1>2, FS_Subset, FS_CardinalityType
<1> QED
  BY <1>3 DEF ChainsHold, Chain

\* To show ChainsHold of a next state it is enough to give a chain of any length.
LEMMA ChainsSuffice ==
  ASSUME TypeOK',
         \A b \in Bucket : \E n \in Nat : \E s : Chain(b, s, n)'
  PROVE  ChainsHold'
<1> SUFFICES ASSUME NEW b \in Bucket
             PROVE  (\E s \in [1..Cardinality(members(b)) -> Entry] :
                       Chain(b, s, Cardinality(members(b))))'
  BY DEF ChainsHold, Chain
<1>1. PICK n \in Nat : \E s : Chain(b, s, n)'
  OBVIOUS
<1>2. PICK s : Chain(b, s, n)'
  BY <1>1
<1>3. Enumerates(s, n, members(b))'
  BY <1>2 DEF Chain
<1>4. Cardinality(members(b))' = n
  BY <1>3, ListedSetsAreCounted
<1>5. members(b)' \subseteq Entry
  BY DEF members, TypeOK
<1>6. s \in [1..n -> Entry]
  BY <1>3, <1>5 DEF Enumerates
<1> QED
  BY <1>2, <1>4, <1>6

\* A chain that no link of which has changed.
LEMMA ChainStays ==
  ASSUME NEW b \in Bucket, NEW n \in Nat, NEW s, Chain(b, s, n),
         members(b)' = members(b), buckets'[b] = buckets[b],
         \A i \in 1..n : hash_next'[s[i]] = hash_next[s[i]],
         op' = "none"
  PROVE  Chain(b, s, n)'
<1>1. Enumerates(s, n, members(b))'
  BY DEF Chain, Enumerates
<1>2. Spells(b, s, n)'
  BY DEF Chain, Spells
<1> QED
  BY <1>1, <1>2 DEF Chain

-----------------------------------------------------------------------------
(* The actions that are no search. *)

LEMMA InitChains ==
  ASSUME alloc_hash_table
  PROVE  ChainInv
<1>1. TypeOK
  <2>1. CACHE_BLOCK_NUMBER > 0 => 0 \in Entry
    BY HashAssumption DEF Entry
  <2>2. CACHE_BLOCK_NUMBER = 0 => Entry = {}
    BY HashAssumption DEF Entry
  <2>3. hash_next \in [Entry -> Entry \cup {INDEXER_NULL}]
    BY <2>1, <2>2, HashAssumption DEF alloc_hash_table
  <2> QED
    BY <2>3, HashAssumption DEF alloc_hash_table, TypeOK
<1>2. ChainsHold
  <2> SUFFICES ASSUME NEW b \in Bucket
               PROVE  \E s \in [1..Cardinality(members(b)) -> Entry] :
                        Chain(b, s, Cardinality(members(b)))
    BY DEF ChainsHold, Chain
  <2>1. members(b) = {}
    BY DEF alloc_hash_table, members
  <2>2. Cardinality(members(b)) = 0
    BY <2>1, FS_EmptySet
  <2> DEFINE s == [i \in 1..0 |-> 0]
  <2>3. s \in [1..0 -> Entry] /\ Enumerates(s, 0, {})
    BY DEF Enumerates
  <2>4. Spells(b, s, 0)
    BY DEF Spells, alloc_hash_table
  <2>5. op = "none"
    BY DEF alloc_hash_table
  <2> HIDE DEF s
  <2> QED
    BY <2>1, <2>2, <2>3, <2>4, <2>5 DEF Chain
<1> QED
  BY <1>1, <1>2 DEF ChainInv

LEMMA NameKeepsChains ==
  ASSUME ChainInv, NEW x \in Entry, NEW k \in Key, name_entry(x, k)
  PROVE  ChainInv'
<1> USE DEF ChainInv
<1>1. TypeOK'
  BY HashAssumption DEF TypeOK, name_entry, chains, walk
<1>2. \A b \in Bucket : members(b)' = members(b)
  BY DEF members, name_entry, TypeOK
<1>3. ASSUME NEW b \in Bucket
      PROVE  \E n \in Nat : \E s : Chain(b, s, n)'
  <2>10. PICK n \in Nat : \E s : Chain(b, s, n)
    BY ChainOf
  <2>1. PICK s : Chain(b, s, n)
    BY <2>10
  <2>2. \A i \in 1..n : s[i] # x /\ s[i] \in Entry
    BY <2>1 DEF Chain, Enumerates, members, name_entry, TypeOK
  <2>3. \A i \in 1..n : hash_next'[s[i]] = hash_next[s[i]]
    BY <2>2 DEF name_entry, TypeOK
  <2>4. buckets'[b] = buckets[b] /\ op' = "none"
    BY DEF name_entry
  <2>5. Chain(b, s, n)'
    BY <1>2, <2>1, <2>3, <2>4, ChainStays
  <2> QED
    BY <2>5
<1> QED
  BY <1>1, <1>3, ChainsSuffice

\* x comes before the rest of its chain.
LEMMA InsertKeepsChains ==
  ASSUME ChainInv, NEW x \in Entry \ hashed, h_insert(x)
  PROVE  ChainInv'
<1> DEFINE h == hash_32[key[x]]
<1>0. key[x] \in Key /\ h \in Bucket /\ x \in Entry /\ TypeOK /\ ChainsHold
  BY HashAssumption DEF ChainInv, TypeOK, h_insert
<1>1. TypeOK'
  BY <1>0 DEF TypeOK, h_insert, walk
<1>2. \A b \in Bucket : members(b)' = IF b = h THEN members(b) \cup {x} ELSE members(b)
  BY <1>0 DEF members, h_insert
<1>3. /\ hash_next' = [hash_next EXCEPT ![x] = buckets[h]]
      /\ buckets' = [buckets EXCEPT ![h] = x]
      /\ op' = "none"
  BY DEF h_insert
<1> HIDE DEF h
<1>4. ASSUME NEW b \in Bucket
      PROVE  \E n \in Nat : \E s : Chain(b, s, n)'
  <2>10. PICK n \in Nat : \E s : Chain(b, s, n)
    BY <1>0, ChainOf
  <2>1. PICK s : Chain(b, s, n)
    BY <2>10
  <2>2. \A i \in 1..n : s[i] \in members(b) /\ s[i] # x /\ s[i] \in Entry
    BY <2>1, <1>0 DEF Chain, Enumerates, members, TypeOK
  <2>3. \A i \in 1..n : hash_next'[s[i]] = hash_next[s[i]]
    BY <2>2, <1>3, <1>0 DEF TypeOK
  <2>4. CASE b # h
    <3>1. members(b)' = members(b) /\ buckets'[b] = buckets[b]
      BY <2>4, <1>2, <1>3, <1>0 DEF TypeOK
    <3>2. Chain(b, s, n)'
      BY <3>1, <1>3, <2>1, <2>3, ChainStays
    <3> QED
      BY <3>2
  <2>5. CASE b = h
    <3> DEFINE t == [i \in 1..(n + 1) |-> IF i = 1 THEN x ELSE s[i - 1]]
               S == members(b) \cup {x}
    <3>1. Enumerates(s, n, members(b)) /\ Spells(b, s, n)
      BY <2>1 DEF Chain
    <3>2. Enumerates(t, n + 1, S)
      <4>1. t \in [1..(n + 1) -> S]
        BY <3>1 DEF Enumerates
      <4>2. ASSUME NEW y \in S PROVE \E i \in 1..(n + 1) : t[i] = y
        <5>1. CASE y = x
          BY <5>1
        <5>2. CASE y \in members(b)
          <6>1. PICK i \in 1..n : s[i] = y
            BY <5>2, <3>1 DEF Enumerates
          <6>2. i + 1 \in 1..(n + 1) /\ t[i + 1] = y
            BY <6>1
          <6> QED
            BY <6>2
        <5> QED
          BY <5>1, <5>2
      <4>3. ASSUME NEW i \in 1..(n + 1), NEW j \in 1..(n + 1), t[i] = t[j] PROVE i = j
        <5>1. CASE i = 1 \/ j = 1
          BY <5>1, <4>3, <2>2
        <5>2. CASE i # 1 /\ j # 1
          <6>1. i - 1 \in 1..n /\ j - 1 \in 1..n /\ s[i - 1] = s[j - 1]
            BY <5>2, <4>3
          <6>2. i - 1 = j - 1
            BY <6>1, <3>1 DEF Enumerates
          <6> QED
            BY <6>2
        <5> QED
          BY <5>1, <5>2
      <4> HIDE DEF t, S
      <4> QED
        BY <4>1, <4>2, <4>3 DEF Enumerates
    <3>3. Enumerates(t, n + 1, members(b))'
      <4>1. members(b)' = S
        BY <2>5, <1>2
      <4> HIDE DEF t, S
      <4> QED
        BY <4>1, <3>2 DEF Enumerates
    <3>4. Spells(b, t, n + 1)'
      <4>1. buckets'[b] = x /\ hash_next'[x] = buckets[b]
        BY <1>3, <2>5, <1>0 DEF TypeOK
      <4>2. t[1] = x /\ n + 1 # 0
        OBVIOUS
      <4>3. ASSUME NEW i \in 1..(n + 1)
            PROVE  hash_next'[t[i]] = IF i = n + 1 THEN INDEXER_NULL ELSE t[i + 1]
        <5>1. CASE i = 1
          <6>1. hash_next'[t[i]] = IF n = 0 THEN INDEXER_NULL ELSE s[1]
            BY <5>1, <4>1, <4>2, <3>1 DEF Spells
          <6> QED
            BY <5>1, <6>1
        <5>2. CASE i # 1
          <6>1. i - 1 \in 1..n /\ t[i] = s[i - 1]
            BY <5>2
          <6>2. hash_next'[t[i]] = IF i - 1 = n THEN INDEXER_NULL ELSE s[(i - 1) + 1]
            BY <6>1, <2>3, <3>1 DEF Spells
          <6>3. i # n + 1 => t[i + 1] = s[(i - 1) + 1]
            BY <5>2
          <6> QED
            BY <6>1, <6>2, <6>3
        <5> QED
          BY <5>1, <5>2
      <4> HIDE DEF t
      <4> QED
        BY <4>1, <4>2, <4>3 DEF Spells
    <3>5. n + 1 \in Nat /\ Chain(b, t, n + 1)'
      <4> HIDE DEF t
      <4> QED
        BY <3>3, <3>4, <1>3 DEF Chain
    <3> QED
      BY <3>5
  <2> QED
    BY <2>4, <2>5
<1> QED
  BY <1>1, <1>4, ChainsSuffice DEF ChainInv

-----------------------------------------------------------------------------
(* The actions of a search. *)

LEMMA StartKeepsChains ==
  ASSUME ChainInv, NEW call \in {"lookup", "remove"}, NEW k \in Key, start(call, k)
  PROVE  ChainInv'
<1>0. TypeOK /\ ChainsHold /\ hash_32[k] \in Bucket
  BY HashAssumption DEF ChainInv
<1>1. TypeOK'
  BY <1>0 DEF TypeOK, start, h_head, chains
<1>2. \A b \in Bucket : members(b)' = members(b)
  BY DEF members, start
<1>3. ASSUME NEW b \in Bucket
      PROVE  \E n \in Nat : \E s : Chain(b, s, n)'
  <2>10. PICK n \in Nat : \E s : Chain(b, s, n)
    BY <1>0, ChainOf
  <2>1. PICK s : Chain(b, s, n)
    BY <2>10
  <2>2. Enumerates(s, n, members(b))'
    BY <2>1, <1>2 DEF Chain, Enumerates
  <2>3. Spells(b, s, n)'
    BY <2>1 DEF Chain, Spells, start, chains
  <2>4. ASSUME hash_32[sought'] = b PROVE At(s, n, 1)'
    <3>1. sought' = k /\ e' = buckets[b] /\ prev' = INDEXER_NULL
      BY <2>4 DEF start, h_head
    <3>2. e' = IF 1 = n + 1 THEN INDEXER_NULL ELSE s[1]
      BY <3>1, <2>1 DEF Chain, Spells
    <3> QED
      BY <3>1, <3>2 DEF At
  <2>5. 1 \in 1..(n + 1)
    OBVIOUS
  <2>6. Chain(b, s, n)'
    BY <2>2, <2>3, <2>4, <2>5 DEF Chain
  <2> QED
    BY <2>6
<1> QED
  BY <1>1, <1>3, ChainsSuffice DEF ChainInv

\* Where a search is: at the i-th place of its chain.
LEMMA SearchIsOnChain ==
  ASSUME ChainInv, op # "none"
  PROVE  /\ sought \in Key
         /\ hash_32[sought] \in Bucket
         /\ \E n \in Nat : \E s : /\ Chain(hash_32[sought], s, n)
                                  /\ \E i \in 1..(n + 1) : At(s, n, i)
<1>1. sought \in Key /\ hash_32[sought] \in Bucket
  BY HashAssumption DEF ChainInv, TypeOK
<1>20. PICK n \in Nat : \E s : Chain(hash_32[sought], s, n)
  BY <1>1, ChainOf DEF ChainInv
<1>2. PICK s : Chain(hash_32[sought], s, n)
  BY <1>20
<1>3. \E i \in 1..(n + 1) : At(s, n, i)
  BY <1>2 DEF Chain
<1> QED
  BY <1>1, <1>2, <1>3

LEMMA PassByKeepsChains ==
  ASSUME ChainInv, pass_by
  PROVE  ChainInv'
<1>0. TypeOK /\ ChainsHold
  BY DEF ChainInv
<1>1. TypeOK'
  BY <1>0 DEF TypeOK, pass_by, h_next, chains
<1>2. \A b \in Bucket : members(b)' = members(b)
  BY DEF members, pass_by
<1>3. ASSUME NEW b \in Bucket
      PROVE  \E n \in Nat : \E s : Chain(b, s, n)'
  <2>10. PICK n \in Nat : \E s : Chain(b, s, n)
    BY <1>0, ChainOf
  <2>1. PICK s : Chain(b, s, n)
    BY <2>10
  <2>2. Enumerates(s, n, members(b))'
    BY <2>1, <1>2 DEF Chain, Enumerates
  <2>3. Spells(b, s, n)'
    BY <2>1 DEF Chain, Spells, pass_by, chains
  <2>4. op # "none" /\ op' = op /\ sought' = sought /\ key' = key
    BY DEF pass_by
  <2>5. ASSUME hash_32[sought] = b PROVE \E j \in 1..(n + 1) : At(s, n, j)'
    <3>1. PICK i \in 1..(n + 1) : At(s, n, i)
      BY <2>1, <2>4, <2>5 DEF Chain
    <3>2. e # INDEXER_NULL /\ key[e] # sought /\ prev' = e /\ e' = hash_next[e]
      BY DEF pass_by, matches, h_next
    <3>3. i \in 1..n /\ e = s[i]
      BY <3>1, <3>2 DEF At
    <3>4. e' = IF i = n THEN INDEXER_NULL ELSE s[i + 1]
      BY <3>2, <3>3, <2>1 DEF Chain, Spells
    <3>5. \A j \in 1..i : key[s[j]] # sought
      BY <3>1, <3>2, <3>3 DEF At
    <3>6. i + 1 \in 1..(n + 1) /\ (i + 1) - 1 = i /\ i + 1 # 1
      BY <3>3
    <3>7. At(s, n, i + 1)'
      BY <3>2, <3>3, <3>4, <3>5, <3>6, <2>4 DEF At
    <3> QED
      BY <3>6, <3>7
  <2>6. Chain(b, s, n)'
    BY <2>2, <2>3, <2>4, <2>5 DEF Chain
  <2> QED
    BY <2>6
<1> QED
  BY <1>1, <1>3, ChainsSuffice DEF ChainInv

\* The types after the end of a search.
LEMMA EndIsTyped ==
  ASSUME TypeOK, end, op # "none",
         hash_next' \in [Entry -> Entry \cup {INDEXER_NULL}],
         buckets' \in [Bucket -> Entry \cup {INDEXER_NULL}],
         hashed' \subseteq hashed
  PROVE  TypeOK'
<1>1. result' \in {"none", "lookup", "remove"} \X (Key \cup {NoKey}) \X (Entry \cup {INDEXER_NULL})
  BY DEF TypeOK, end
<1> QED
  BY <1>1 DEF TypeOK, end

LEMMA EndKeepsChains ==
  ASSUME ChainInv, lookup_found \/ not_found
  PROVE  ChainInv'
<1>0. TypeOK /\ ChainsHold
  BY DEF ChainInv
<1>1. /\ end /\ op # "none" /\ op' = "none"
      /\ UNCHANGED <<buckets, hash_next, key, hashed>>
  BY DEF lookup_found, not_found, found_it, end, chains
<1>2. TypeOK'
  BY <1>0, <1>1, EndIsTyped DEF TypeOK
<1>3. ASSUME NEW b \in Bucket
      PROVE  \E n \in Nat : \E s : Chain(b, s, n)'
  <2>10. PICK n \in Nat : \E s : Chain(b, s, n)
    BY <1>0, ChainOf
  <2>1. PICK s : Chain(b, s, n)
    BY <2>10
  <2>2. members(b)' = members(b)
    BY <1>1 DEF members
  <2>3. Chain(b, s, n)'
    BY <1>1, <2>1, <2>2, ChainStays
  <2> QED
    BY <2>3
<1> QED
  BY <1>2, <1>3, ChainsSuffice DEF ChainInv

\* Where a search is that has found its entry.
LEMMA FoundOnChain ==
  ASSUME ChainInv, op # "none", e # INDEXER_NULL, matches(e, sought)
  PROVE  \E n \in Nat : \E s : \E i \in 1..n :
           /\ Chain(hash_32[sought], s, n)
           /\ e = s[i]
           /\ prev = IF i = 1 THEN INDEXER_NULL ELSE s[i - 1]
           /\ e \in hashed /\ key[e] = sought
<1>10. PICK n \in Nat : \E s : /\ Chain(hash_32[sought], s, n)
                               /\ \E i \in 1..(n + 1) : At(s, n, i)
  BY SearchIsOnChain
<1>1. PICK s : /\ Chain(hash_32[sought], s, n)
               /\ \E i \in 1..(n + 1) : At(s, n, i)
  BY <1>10
<1>2. PICK i \in 1..(n + 1) : At(s, n, i)
  BY <1>1
<1>3. i \in 1..n /\ e = s[i] /\ prev = IF i = 1 THEN INDEXER_NULL ELSE s[i - 1]
  BY <1>2 DEF At
<1>4. e \in hashed
  BY <1>1, <1>3 DEF Chain, Enumerates, members
<1> QED
  BY <1>1, <1>3, <1>4 DEF matches

\* A chain without its i-th entry.
LEMMA WithoutOne ==
  ASSUME NEW n \in Nat, NEW i \in 1..n, NEW S, NEW s, Enumerates(s, n, S)
  PROVE  Enumerates([j \in 1..(n - 1) |-> IF j < i THEN s[j] ELSE s[j + 1]], n - 1, S \ {s[i]})
<1> DEFINE t == [j \in 1..(n - 1) |-> IF j < i THEN s[j] ELSE s[j + 1]]
           at(j) == IF j < i THEN j ELSE j + 1
<1>1. \A j \in 1..(n - 1) : at(j) \in 1..n /\ at(j) # i /\ t[j] = s[at(j)]
  OBVIOUS
<1>2. \A j, k \in 1..(n - 1) : at(j) = at(k) => j = k
  OBVIOUS
<1>3. \A k \in 1..n : k # i => \E j \in 1..(n - 1) : at(j) = k
  <2> SUFFICES ASSUME NEW k \in 1..n, k # i PROVE \E j \in 1..(n - 1) : at(j) = k
    OBVIOUS
  <2>1. CASE k < i
    <3>1. k \in 1..(n - 1) /\ at(k) = k
      BY <2>1
    <3> QED
      BY <3>1
  <2>2. CASE k > i
    <3>1. k - 1 \in 1..(n - 1) /\ at(k - 1) = k
      BY <2>2
    <3> QED
      BY <3>1
  <2> QED
    BY <2>1, <2>2
<1>4. t \in [1..(n - 1) -> S \ {s[i]}]
  <2>1. \A j \in 1..(n - 1) : t[j] \in S /\ t[j] # s[i]
    <3> HIDE DEF t, at
    <3> QED
      BY <1>1 DEF Enumerates
  <2> QED
    BY <2>1
<1> HIDE DEF t, at
<1>5. ASSUME NEW x \in S \ {s[i]} PROVE \E j \in 1..(n - 1) : t[j] = x
  <2>1. PICK k \in 1..n : s[k] = x
    BY DEF Enumerates
  <2>2. PICK j \in 1..(n - 1) : at(j) = k
    BY <2>1, <1>3
  <2> QED
    BY <2>1, <2>2, <1>1
<1>6. \A j, k \in 1..(n - 1) : t[j] = t[k] => j = k
  BY <1>1, <1>2 DEF Enumerates
<1>7. Enumerates(t, n - 1, S \ {s[i]})
  BY <1>4, <1>5, <1>6 DEF Enumerates
<1> QED
  BY <1>7 DEF t

LEMMA RemoveKeepsChains ==
  ASSUME ChainInv, remove_found
  PROVE  ChainInv'
<1> DEFINE h == hash_32[sought]
<1>0. /\ TypeOK /\ ChainsHold /\ op = "remove" /\ e # INDEXER_NULL /\ matches(e, sought)
      /\ end /\ op' = "none" /\ key' = key
      /\ hash_next' = next_without_e /\ buckets' = buckets_without_e /\ hashed' = hashed \ {e}
  BY DEF ChainInv, remove_found, found_it, end
<1>a0. PICK n \in Nat : \E s : \E i \in 1..n :
             /\ Chain(h, s, n)
             /\ e = s[i]
             /\ prev = IF i = 1 THEN INDEXER_NULL ELSE s[i - 1]
             /\ e \in hashed /\ key[e] = sought
  BY <1>0, FoundOnChain
<1>a. PICK s : \E i \in 1..n :
        /\ Chain(h, s, n)
        /\ e = s[i]
        /\ prev = IF i = 1 THEN INDEXER_NULL ELSE s[i - 1]
        /\ e \in hashed /\ key[e] = sought
  BY <1>a0
<1>1. PICK i \in 1..n :
        /\ Chain(h, s, n)
        /\ e = s[i]
        /\ prev = IF i = 1 THEN INDEXER_NULL ELSE s[i - 1]
        /\ e \in hashed /\ key[e] = sought
  BY <1>a
<1>2. sought \in Key /\ h \in Bucket /\ e \in Entry
  BY <1>0, HashAssumption DEF TypeOK
<1>3. Enumerates(s, n, members(h)) /\ Spells(h, s, n)
  BY <1>1 DEF Chain
<1>4. \A j \in 1..n : s[j] \in members(h) /\ s[j] \in Entry /\ s[j] # INDEXER_NULL
  BY <1>3, <1>0, HashAssumption DEF Enumerates, members, TypeOK
<1>5. IF i = 1 THEN /\ prev = INDEXER_NULL
                    /\ hash_next' = hash_next
                    /\ buckets' = [buckets EXCEPT ![h] = hash_next[e]]
               ELSE /\ i - 1 \in 1..n /\ prev = s[i - 1]
                    /\ hash_next' = [hash_next EXCEPT ![s[i - 1]] = hash_next[e]]
                    /\ buckets' = buckets
  BY <1>0, <1>1, <1>4 DEF next_without_e, buckets_without_e
<1>6. TypeOK'
  <2>1. hash_next[e] \in Entry \cup {INDEXER_NULL}
    BY <1>0, <1>2 DEF TypeOK
  <2>2. /\ hash_next' \in [Entry -> Entry \cup {INDEXER_NULL}]
        /\ buckets' \in [Bucket -> Entry \cup {INDEXER_NULL}]
    BY <1>5, <2>1, <1>0 DEF TypeOK
  <2> QED
    BY <2>2, <1>0, EndIsTyped
<1>7. \A b \in Bucket : members(b)' = IF b = h THEN members(b) \ {e} ELSE members(b)
  BY <1>0, <1>1 DEF members
<1> HIDE DEF h
<1>8. ASSUME NEW b \in Bucket
      PROVE  \E m \in Nat : \E t : Chain(b, t, m)'
  <2>1. CASE b # h
    <3>10. PICK m \in Nat : \E t : Chain(b, t, m)
      BY <1>0, ChainOf
    <3>1. PICK t : Chain(b, t, m)
      BY <3>10
    <3>2. \A j \in 1..m : t[j] \in members(b) /\ t[j] \in Entry
      BY <3>1, <1>0 DEF Chain, Enumerates, members, TypeOK
    <3>3. \A j \in 1..m, k \in 1..n : t[j] # s[k]
      BY <3>2, <1>4, <2>1 DEF members
    <3>4. \A j \in 1..m : hash_next'[t[j]] = hash_next[t[j]]
      BY <3>2, <3>3, <1>5, <1>0 DEF TypeOK
    <3>5. members(b)' = members(b) /\ buckets'[b] = buckets[b]
      BY <2>1, <1>7, <1>5, <1>0 DEF TypeOK
    <3>6. Chain(b, t, m)'
      BY <3>1, <3>4, <3>5, <1>0, ChainStays
    <3> QED
      BY <3>6
  <2>2. CASE b = h
    <3> DEFINE t == [j \in 1..(n - 1) |-> IF j < i THEN s[j] ELSE s[j + 1]]
               S == members(h) \ {s[i]}
    <3>1. Enumerates(t, n - 1, S)
      BY <1>3, WithoutOne
    <3>2. Enumerates(t, n - 1, members(b))'
      <4>1. members(b)' = S
        BY <2>2, <1>7, <1>1
      <4> HIDE DEF t, S
      <4> QED
        BY <4>1, <3>1 DEF Enumerates
    <3>3. buckets'[b] = IF n - 1 = 0 THEN INDEXER_NULL ELSE t[1]
      <4>1. CASE i = 1
        <5>1. buckets'[b] = IF n = 1 THEN INDEXER_NULL ELSE s[2]
          BY <4>1, <1>5, <1>3, <1>1, <1>0, <2>2 DEF Spells, TypeOK
        <5> QED
          BY <4>1, <5>1
      <4>2. CASE i # 1
        <5>1. buckets'[b] = s[1]
          BY <4>2, <1>5, <1>3, <2>2 DEF Spells
        <5> QED
          BY <4>2, <5>1
      <4> QED
        BY <4>1, <4>2
    <3>4. ASSUME NEW j \in 1..(n - 1)
          PROVE  hash_next'[t[j]] = IF j = n - 1 THEN INDEXER_NULL ELSE t[j + 1]
      <4>1. CASE j < i - 1
        <5>1. t[j] = s[j] /\ j \in 1..n /\ i - 1 \in 1..n /\ j # i - 1
          BY <4>1
        <5>2. s[j] # s[i - 1]
          BY <5>1, <1>3 DEF Enumerates
        <5>3. hash_next'[s[j]] = hash_next[s[j]]
          BY <5>1, <5>2, <1>5, <1>4, <1>0 DEF TypeOK
        <5>4. hash_next[s[j]] = s[j + 1]
          BY <5>1, <4>1, <1>3 DEF Spells
        <5>5. j # n - 1 /\ t[j + 1] = s[j + 1]
          BY <4>1
        <5> HIDE DEF t, S
        <5> QED
          BY <5>1, <5>3, <5>4, <5>5
      <4>2. CASE j = i - 1
        <5>1. t[j] = s[i - 1] /\ i # 1 /\ i - 1 \in 1..n
          BY <4>2
        <5>2. hash_next'[s[i - 1]] = hash_next[e]
          BY <5>1, <1>5, <1>4, <1>0 DEF TypeOK
        <5>3. hash_next[e] = IF i = n THEN INDEXER_NULL ELSE s[i + 1]
          BY <1>1, <1>3 DEF Spells
        <5>4. i # n => t[j + 1] = s[i + 1]
          BY <4>2
        <5> HIDE DEF t, S
        <5> QED
          BY <5>1, <5>2, <5>3, <5>4, <4>2
      <4>3. CASE j >= i
        <5>1. t[j] = s[j + 1] /\ j + 1 \in 1..n /\ (i # 1 => i - 1 \in 1..n /\ j + 1 # i - 1)
          BY <4>3
        <5>2. i # 1 => s[j + 1] # s[i - 1]
          BY <5>1, <1>3 DEF Enumerates
        <5>3. hash_next'[s[j + 1]] = hash_next[s[j + 1]]
          BY <5>1, <5>2, <1>5, <1>4, <1>0 DEF TypeOK
        <5>4. hash_next[s[j + 1]] = IF j + 1 = n THEN INDEXER_NULL ELSE s[(j + 1) + 1]
          BY <5>1, <1>3 DEF Spells
        <5>5. j # n - 1 => t[j + 1] = s[(j + 1) + 1]
          BY <4>3
        <5> HIDE DEF t, S
        <5> QED
          BY <5>1, <5>3, <5>4, <5>5
      <4> QED
        BY <4>1, <4>2, <4>3
    <3>5. n - 1 \in Nat
      OBVIOUS
    <3> HIDE DEF t, S
    <3>6. Chain(b, t, n - 1)'
      BY <3>2, <3>3, <3>4, <1>0 DEF Chain, Spells
    <3> QED
      BY <3>5, <3>6
  <2> QED
    BY <2>1, <2>2
<1> QED
  BY <1>6, <1>8, ChainsSuffice DEF ChainInv

\* A chain with its i-th entry moved to the front.
LEMMA WithOneInFront ==
  ASSUME NEW n \in Nat, NEW i \in 1..n, NEW S, NEW s, Enumerates(s, n, S)
  PROVE  Enumerates([j \in 1..n |-> IF j = 1 THEN s[i] ELSE IF j <= i THEN s[j - 1] ELSE s[j]], n, S)
<1> DEFINE t == [j \in 1..n |-> IF j = 1 THEN s[i] ELSE IF j <= i THEN s[j - 1] ELSE s[j]]
           at(j) == IF j = 1 THEN i ELSE IF j <= i THEN j - 1 ELSE j
<1>1. \A j \in 1..n : at(j) \in 1..n /\ t[j] = s[at(j)]
  OBVIOUS
<1>2. \A j, k \in 1..n : at(j) = at(k) => j = k
  OBVIOUS
<1>3. ASSUME NEW k \in 1..n PROVE \E j \in 1..n : at(j) = k
  <2>1. CASE k = i
    <3>1. 1 \in 1..n /\ at(1) = k
      BY <2>1
    <3> QED
      BY <3>1
  <2>2. CASE k < i
    <3>1. k + 1 \in 1..n /\ at(k + 1) = k
      BY <2>2
    <3> QED
      BY <3>1
  <2>3. CASE k > i
    <3>1. at(k) = k
      BY <2>3
    <3> QED
      BY <3>1
  <2> QED
    BY <2>1, <2>2, <2>3
<1>4. t \in [1..n -> S]
  <2>1. \A j \in 1..n : t[j] \in S
    <3> HIDE DEF t, at
    <3> QED
      BY <1>1 DEF Enumerates
  <2> QED
    BY <2>1
<1> HIDE DEF t, at
<1>5. ASSUME NEW x \in S PROVE \E j \in 1..n : t[j] = x
  <2>1. PICK k \in 1..n : s[k] = x
    BY DEF Enumerates
  <2>2. PICK j \in 1..n : at(j) = k
    BY <2>1, <1>3
  <2> QED
    BY <2>1, <2>2, <1>1
<1>6. \A j, k \in 1..n : t[j] = t[k] => j = k
  BY <1>1, <1>2 DEF Enumerates
<1>7. Enumerates(t, n, S)
  BY <1>4, <1>5, <1>6 DEF Enumerates
<1> QED
  BY <1>7 DEF t

LEMMA MoveToFrontKeepsChains ==
  ASSUME ChainInv, lookup_found_behind
  PROVE  ChainInv'
<1> DEFINE h == hash_32[sought]
<1>0. /\ TypeOK /\ ChainsHold /\ op = "lookup" /\ e # INDEXER_NULL /\ matches(e, sought)
      /\ end /\ op' = "none" /\ key' = key /\ hashed' = hashed /\ prev # INDEXER_NULL
      /\ hash_next' = [next_without_e EXCEPT ![e] = buckets_without_e[h]]
      /\ buckets' = [buckets_without_e EXCEPT ![h] = e]
  BY DEF ChainInv, lookup_found_behind, found_it, end
<1>a0. PICK n \in Nat : \E s : \E i \in 1..n :
             /\ Chain(h, s, n)
             /\ e = s[i]
             /\ prev = IF i = 1 THEN INDEXER_NULL ELSE s[i - 1]
             /\ e \in hashed /\ key[e] = sought
  BY <1>0, FoundOnChain
<1>a. PICK s : \E i \in 1..n :
        /\ Chain(h, s, n)
        /\ e = s[i]
        /\ prev = IF i = 1 THEN INDEXER_NULL ELSE s[i - 1]
        /\ e \in hashed /\ key[e] = sought
  BY <1>a0
<1>1. PICK i \in 1..n :
        /\ Chain(h, s, n)
        /\ e = s[i]
        /\ prev = IF i = 1 THEN INDEXER_NULL ELSE s[i - 1]
        /\ e \in hashed /\ key[e] = sought
  BY <1>a
<1>2. sought \in Key /\ h \in Bucket /\ e \in Entry
  BY <1>0, HashAssumption DEF TypeOK
<1>3. Enumerates(s, n, members(h)) /\ Spells(h, s, n)
  BY <1>1 DEF Chain
<1>4. \A j \in 1..n : s[j] \in members(h) /\ s[j] \in Entry /\ s[j] # INDEXER_NULL
  BY <1>3, <1>0, HashAssumption DEF Enumerates, members, TypeOK
<1>5. i # 1 /\ i - 1 \in 1..n /\ prev = s[i - 1] /\ s[i - 1] # s[i]
  BY <1>0, <1>1, <1>3 DEF Enumerates
<1>6. /\ hash_next' = [[hash_next EXCEPT ![s[i - 1]] = hash_next[e]] EXCEPT ![e] = buckets[h]]
      /\ buckets' = [buckets EXCEPT ![h] = e]
  BY <1>0, <1>5 DEF next_without_e, buckets_without_e
<1>7. /\ hash_next'[s[i]] = buckets[h]
      /\ hash_next'[s[i - 1]] = hash_next[s[i]]
      /\ \A x \in Entry : x # s[i] /\ x # s[i - 1] => hash_next'[x] = hash_next[x]
  BY <1>6, <1>5, <1>4, <1>1, <1>0 DEF TypeOK
<1>8. TypeOK'
  <2>1. hash_next[e] \in Entry \cup {INDEXER_NULL} /\ buckets[h] \in Entry \cup {INDEXER_NULL}
    BY <1>0, <1>2 DEF TypeOK
  <2>2. /\ hash_next' \in [Entry -> Entry \cup {INDEXER_NULL}]
        /\ buckets' \in [Bucket -> Entry \cup {INDEXER_NULL}]
    BY <1>6, <2>1, <1>2, <1>0 DEF TypeOK
  <2> QED
    BY <2>2, <1>0, EndIsTyped
<1>9. \A b \in Bucket : members(b)' = members(b)
  BY <1>0 DEF members
<1> HIDE DEF h
<1>10. ASSUME NEW b \in Bucket
       PROVE  \E m \in Nat : \E t : Chain(b, t, m)'
  <2>1. CASE b # h
    <3>10. PICK m \in Nat : \E t : Chain(b, t, m)
      BY <1>0, ChainOf
    <3>1. PICK t : Chain(b, t, m)
      BY <3>10
    <3>2. \A j \in 1..m : t[j] \in members(b) /\ t[j] \in Entry
      BY <3>1, <1>0 DEF Chain, Enumerates, members, TypeOK
    <3>3. \A j \in 1..m, k \in 1..n : t[j] # s[k]
      BY <3>2, <1>4, <2>1 DEF members
    <3>4. \A j \in 1..m : hash_next'[t[j]] = hash_next[t[j]]
      BY <3>2, <3>3, <1>7, <1>5
    <3>5. members(b)' = members(b) /\ buckets'[b] = buckets[b]
      BY <2>1, <1>9, <1>6, <1>0 DEF TypeOK
    <3>6. Chain(b, t, m)'
      BY <3>1, <3>4, <3>5, <1>0, ChainStays
    <3> QED
      BY <3>6
  <2>2. CASE b = h
    <3> DEFINE t == [j \in 1..n |-> IF j = 1 THEN s[i] ELSE IF j <= i THEN s[j - 1] ELSE s[j]]
    <3>1. Enumerates(t, n, members(h))
      BY <1>3, WithOneInFront
    <3>2. Enumerates(t, n, members(b))'
      <4>1. members(b)' = members(h)
        BY <2>2, <1>9
      <4> HIDE DEF t
      <4> QED
        BY <4>1, <3>1 DEF Enumerates
    <3>3. n # 0 /\ buckets'[b] = t[1]
      BY <1>6, <1>1, <1>0, <2>2 DEF TypeOK
    <3>4. ASSUME NEW j \in 1..n
          PROVE  hash_next'[t[j]] = IF j = n THEN INDEXER_NULL ELSE t[j + 1]
      <4>1. CASE j = 1
        <5>1. hash_next'[s[i]] = s[1]
          BY <1>7, <1>3 DEF Spells
        <5>2. j # n /\ t[j + 1] = s[1] /\ t[j] = s[i]
          BY <4>1, <1>5
        <5> QED
          BY <5>1, <5>2
      <4>2. CASE j # 1 /\ j < i
        <5>1. t[j] = s[j - 1] /\ j - 1 \in 1..n /\ j - 1 # i /\ j - 1 # i - 1
          BY <4>2
        <5>2. s[j - 1] # s[i] /\ s[j - 1] # s[i - 1]
          BY <5>1, <1>5, <1>3 DEF Enumerates
        <5>3. hash_next'[s[j - 1]] = hash_next[s[j - 1]]
          BY <5>1, <5>2, <1>7, <1>4
        <5>4. hash_next[s[j - 1]] = IF j - 1 = n THEN INDEXER_NULL ELSE s[(j - 1) + 1]
          BY <5>1, <1>3 DEF Spells
        <5>5. j # n /\ j - 1 # n /\ t[j + 1] = s[(j - 1) + 1]
          BY <4>2
        <5> QED
          BY <5>1, <5>3, <5>4, <5>5
      <4>3. CASE j = i
        <5>1. t[j] = s[i - 1]
          BY <4>3, <1>5
        <5>2. hash_next[s[i]] = IF i = n THEN INDEXER_NULL ELSE s[i + 1]
          BY <1>3 DEF Spells
        <5>3. i # n => t[j + 1] = s[i + 1]
          BY <4>3
        <5> QED
          BY <5>1, <5>2, <5>3, <1>7, <4>3
      <4>4. CASE j > i
        <5>1. t[j] = s[j] /\ j # i /\ j # i - 1
          BY <4>4
        <5>2. s[j] # s[i] /\ s[j] # s[i - 1]
          BY <5>1, <1>5, <1>3 DEF Enumerates
        <5>3. hash_next'[s[j]] = hash_next[s[j]]
          BY <5>2, <1>7, <1>4
        <5>4. hash_next[s[j]] = IF j = n THEN INDEXER_NULL ELSE s[j + 1]
          BY <1>3 DEF Spells
        <5>5. j # n => t[j + 1] = s[j + 1]
          BY <4>4
        <5> QED
          BY <5>1, <5>3, <5>4, <5>5
      <4> QED
        BY <4>1, <4>2, <4>3, <4>4
    <3> HIDE DEF t
    <3>5. Chain(b, t, n)'
      BY <3>2, <3>3, <3>4, <1>0 DEF Chain, Spells
    <3> QED
      BY <3>5
  <2> QED
    BY <2>1, <2>2
<1> QED
  BY <1>8, <1>10, ChainsSuffice DEF ChainInv

-----------------------------------------------------------------------------
(* The invariant. *)

LEMMA ChainInvStep ==
  ASSUME ChainInv, [Next]_vars
  PROVE  ChainInv'
<1>1. ASSUME NEW x \in Entry, NEW k \in Key, name_entry(x, k) PROVE ChainInv'
  BY <1>1, NameKeepsChains
<1>2. ASSUME NEW x \in Entry \ hashed, h_insert(x) PROVE ChainInv'
  BY <1>2, InsertKeepsChains
<1>3. ASSUME NEW k \in Key, start("lookup", k) PROVE ChainInv'
  BY <1>3, StartKeepsChains
<1>4. ASSUME NEW x \in Entry, start_remove(x) PROVE ChainInv'
  <2>1. key[x] \in Key /\ start("remove", key[x])
    BY <1>4 DEF start_remove, ChainInv, TypeOK
  <2> QED
    BY <2>1, StartKeepsChains
<1>5. CASE search
  BY <1>5, PassByKeepsChains, EndKeepsChains, MoveToFrontKeepsChains, RemoveKeepsChains DEF search
<1>6. CASE UNCHANGED vars
  <2>1. TypeOK'
    BY <1>6 DEF vars, chains, walk, ChainInv, TypeOK
  <2>2. ChainsHold'
    <3>1. UNCHANGED <<buckets, hash_next, key, op, sought, e, prev, hashed>>
      BY <1>6 DEF vars, chains, walk
    <3>2. ASSUME NEW b \in Bucket PROVE \E n \in Nat : \E s : Chain(b, s, n)'
      <4>10. PICK n \in Nat : \E s : Chain(b, s, n)
        BY ChainOf DEF ChainInv
      <4>1. PICK s : Chain(b, s, n)
        BY <4>10
      <4>2. members(b)' = members(b)
        BY <3>1 DEF members
      <4>3. Enumerates(s, n, members(b))' /\ Spells(b, s, n)'
        BY <3>1, <4>1, <4>2 DEF Chain, Enumerates, Spells
      <4>4. \A i : At(s, n, i)' <=> At(s, n, i)
        BY <3>1 DEF At
      <4>5. Chain(b, s, n)'
        BY <3>1, <4>1, <4>3, <4>4 DEF Chain
      <4> QED
        BY <4>5
    <3> QED
      BY <2>1, <3>2, ChainsSuffice
  <2> QED
    BY <2>1, <2>2 DEF ChainInv
<1> QED
  BY <1>1, <1>2, <1>3, <1>4, <1>5, <1>6 DEF Next

\* Types, and: each chain holds exactly the entries put into the table that
\* belong to it, each once, and a search knows the entry before the one it is at
\* (h_insert, __h_lookup, __h_unlink, h_lookup, h_remove).
THEOREM ChainsStayIntact == Spec => [](TypeOK /\ ChainsHold)
<1>1. alloc_hash_table => ChainInv
  BY InitChains
<1>2. ChainInv /\ [Next]_vars => ChainInv'
  BY ChainInvStep
<1>3. ChainInv => TypeOK /\ ChainsHold
  BY DEF ChainInv
<1> QED
  BY <1>1, <1>2, <1>3, PTL DEF Spec

\* Whatever is named, inserted, searched for and removed, links, hash table and
\* the state of a search keep their types.
THEOREM ChainsAreTyped == Spec => []TypeOK
  BY ChainsStayIntact, PTL

-----------------------------------------------------------------------------
(* The refinement. *)

\* A search that has come to the end of its chain has passed by all entries.
LEMMA NotFoundMeansAbsent ==
  ASSUME ChainInv, op # "none", e = INDEXER_NULL
  PROVE  \A x \in hashed : key[x] # sought
<1> SUFFICES ASSUME NEW x \in hashed, key[x] = sought PROVE FALSE
  OBVIOUS
<1>10. PICK n \in Nat : \E s : /\ Chain(hash_32[sought], s, n)
                               /\ \E i \in 1..(n + 1) : At(s, n, i)
  BY SearchIsOnChain
<1>1. PICK s : /\ Chain(hash_32[sought], s, n)
               /\ \E i \in 1..(n + 1) : At(s, n, i)
  BY <1>10
<1>2. PICK i \in 1..(n + 1) : At(s, n, i)
  BY <1>1
<1>3. \A j \in 1..n : s[j] \in Entry /\ s[j] # INDEXER_NULL
  <2>1. \A j \in 1..n : s[j] \in hashed
    BY <1>1 DEF Chain, Enumerates, members
  <2> QED
    BY <2>1, HashAssumption DEF ChainInv, TypeOK
<1>4. i = n + 1
  BY <1>2, <1>3 DEF At
<1>5. PICK j \in 1..n : s[j] = x
  BY <1>1 DEF Chain, Enumerates, members
<1> QED
  BY <1>2, <1>4, <1>5 DEF At

LEMMA StepIsSetStep ==
  ASSUME ChainInv, [Next]_vars
  PROVE  [Set!SetNext]_(Set!setVars)
<1>1. ASSUME NEW x \in Entry, NEW k \in Key, name_entry(x, k) PROVE Set!SetNext
  BY <1>1 DEF name_entry, Set!SetNext, Set!name
<1>2. ASSUME NEW x \in Entry \ hashed, h_insert(x) PROVE Set!SetNext
  BY <1>2 DEF h_insert, Set!SetNext, Set!insert
<1>3. ASSUME NEW k, NEW call, start(call, k) PROVE UNCHANGED Set!setVars
  BY <1>3 DEF start, Set!setVars
<1>4. CASE pass_by
  BY <1>4 DEF pass_by, Set!setVars
<1>5. CASE lookup_found \/ lookup_found_behind
  <2>1. /\ op = "lookup" /\ e # INDEXER_NULL /\ matches(e, sought) /\ end
        /\ UNCHANGED hashed
    BY <1>5 DEF lookup_found, lookup_found_behind, found_it
  <2>2. sought \in Key /\ e \in Set!entries(sought)
    BY <2>1, SearchIsOnChain, FoundOnChain DEF Set!entries
  <2>3. Set!lookup(sought)
    BY <2>1, <2>2 DEF Set!lookup, end
  <2> QED
    BY <2>2, <2>3 DEF Set!SetNext
<1>6. CASE remove_found
  <2>1. /\ op = "remove" /\ e # INDEXER_NULL /\ matches(e, sought) /\ end
        /\ hashed' = hashed \ {e}
    BY <1>6 DEF remove_found, found_it
  <2>2. sought \in Key /\ e \in Set!entries(sought)
    BY <2>1, SearchIsOnChain, FoundOnChain DEF Set!entries
  <2>3. Set!remove(sought)
    BY <2>1, <2>2 DEF Set!remove, end
  <2> QED
    BY <2>2, <2>3 DEF Set!SetNext
<1>7. CASE not_found
  <2>1. op \in {"lookup", "remove"} /\ e = INDEXER_NULL /\ end /\ UNCHANGED hashed
    BY <1>7 DEF not_found, ChainInv, TypeOK
  <2>2. sought \in Key /\ Set!entries(sought) = {}
    BY <2>1, SearchIsOnChain, NotFoundMeansAbsent DEF Set!entries
  <2>3. Set!lookup(sought) \/ Set!remove(sought)
    BY <2>1, <2>2 DEF Set!lookup, Set!remove, end
  <2> QED
    BY <2>2, <2>3 DEF Set!SetNext
<1>8. CASE UNCHANGED vars
  BY <1>8 DEF vars, Set!setVars
<1> QED
  BY <1>1, <1>2, <1>3, <1>4, <1>5, <1>6, <1>7, <1>8 DEF Next, start_remove, search

\* The chains implement a set of entries, as Mapping uses it: a lookup returns
\* an entry with the key asked for exactly if the table has one.
THEOREM TableActsAsSet == Spec => ActsAsSet
<1>1. alloc_hash_table => ChainInv
  BY InitChains
<1>2. alloc_hash_table => Set!SetInit
  BY DEF alloc_hash_table, Set!SetInit
<1>3. ChainInv /\ [Next]_vars => ChainInv' /\ [Set!SetNext]_(Set!setVars)
  BY ChainInvStep, StepIsSetStep
<1> QED
  BY <1>1, <1>2, <1>3, PTL DEF Spec, ActsAsSet, Set!SetSpec

=============================================================================
