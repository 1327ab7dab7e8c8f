------------------------------ MODULE ListProofs ------------------------------
(***************************************************************************)
(* What the list operations of ssd_cache_mapping.c (l_add_head, l_add_tail, *)
(* l_del) do to intact, pairwise disjoint lists, for every number of cache *)
(* blocks.  MappingProofs cites the theorems at the end of this module.    *)
(***************************************************************************)
EXTENDS Mapping, TLAPS

Ref == Entry \cup {INDEXER_NULL}

\* The fields of struct entry and struct ilist, the counters unbounded.
Links == [next : [Entry -> Ref], prev : [Entry -> Ref],
          head : [List -> Ref], tail : [List -> Ref], nr_elts : [List -> Nat]]

\* List l of x is an intact chain of exactly the entries S.
IsList(x, l, S) == \E s : Enumerates(s, x.nr_elts[l], S) /\ Spells(x, l, s)

\* The lists of x are intact, hold the sets of entries given by M, and share
\* no entry.
AreLists(x, M) ==
  /\ x \in Links
  /\ M \in [List -> SUBSET Entry]
  /\ \A l \in List : IsList(x, l, M[l])
  /\ \A l, m \in List : l # m => M[l] \cap M[m] = {}

\* The sets of entries, and the counters, after a list gained or lost an entry.
With(M, l, e) == [M EXCEPT ![l] = @ \cup {e}]

Without(M, l, e) == [M EXCEPT ![l] = @ \ {e}]

Grown(c, l) == [c EXCEPT ![l] = @ + 1]

Shrunk(c, l) == [c EXCEPT ![l] = @ - 1]

-----------------------------------------------------------------------------
\* The result of l_add_tail is again a record of links and counters.
LEMMA AddTailType ==
  ASSUME NEW x \in Links, NEW l \in List, NEW e \in Entry, x.nr_elts[l] < UINT_MAX
  PROVE  /\ l_add_tail(x, l, e) \in Links
         /\ l_add_tail(x, l, e).nr_elts = [x.nr_elts EXCEPT ![l] = @ + 1]
<1> DEFINE y == l_add_tail(x, l, e)
<1>1. /\ x.next \in [Entry -> Ref] /\ x.prev \in [Entry -> Ref]
      /\ x.head \in [List -> Ref] /\ x.tail \in [List -> Ref] /\ x.nr_elts \in [List -> Nat]
  BY DEF Links
<1>2. UINT_MAX \in Nat
  BY MappingAssumption
<1>3. y.nr_elts = [x.nr_elts EXCEPT ![l] = @ + 1]
  BY <1>1, <1>2 DEF l_add_tail, Inc
<1>4. y.nr_elts \in [List -> Nat]
  BY <1>1, <1>3
<1>5. y.next \in [Entry -> Ref] /\ y.prev \in [Entry -> Ref]
  BY <1>1 DEF l_add_tail, Ref
<1>6. y.head \in [List -> Ref] /\ y.tail \in [List -> Ref]
  BY <1>1 DEF l_add_tail, Ref
<1>7. y = [next |-> y.next, prev |-> y.prev, head |-> y.head, tail |-> y.tail,
           nr_elts |-> y.nr_elts]
  BY DEF l_add_tail
<1> HIDE DEF y
<1>8. y \in Links
  BY <1>4, <1>5, <1>6, <1>7 DEF Links
<1> QED
  BY <1>3, <1>8 DEF y

\* Adding an entry at the end of a list that does not hold it.
LEMMA AddTailGrows ==
  ASSUME NEW x \in Links, NEW l \in List, NEW S \in SUBSET Entry, NEW e \in Entry \ S,
         x.nr_elts[l] < UINT_MAX, IsList(x, l, S)
  PROVE  IsList(l_add_tail(x, l, e), l, S \cup {e})
<1> DEFINE y == l_add_tail(x, l, e)
           n == x.nr_elts[l]
           tl == x.tail[l]
<1>1. PICK s : Enumerates(s, n, S) /\ Spells(x, l, s)
  BY DEF IsList
<1>2. n \in Nat /\ INDEXER_NULL \notin Entry /\ tl \in Ref
  BY MappingAssumption DEF Links
<1>3. /\ s \in [1..n -> S] /\ \A a \in S : \E i \in 1..n : s[i] = a
      /\ \A i, j \in 1..n : s[i] = s[j] => i = j
  BY <1>1 DEF Enumerates
<1>4. /\ x.head[l] = IF n = 0 THEN INDEXER_NULL ELSE s[1]
      /\ tl = IF n = 0 THEN INDEXER_NULL ELSE s[n]
      /\ \A i \in 1..n : /\ x.next[s[i]] = IF i = n THEN INDEXER_NULL ELSE s[i + 1]
                         /\ x.prev[s[i]] = IF i = 1 THEN INDEXER_NULL ELSE s[i - 1]
  BY <1>1 DEF Spells
<1>5. /\ y.nr_elts[l] = n + 1
      /\ y.head[l] = IF tl = INDEXER_NULL THEN e ELSE x.head[l]
      /\ y.tail[l] = e
      /\ \A i \in Entry : y.next[i] = IF i = tl THEN e
                                      ELSE IF i = e THEN INDEXER_NULL ELSE x.next[i]
      /\ \A i \in Entry : y.prev[i] = IF i = e THEN tl ELSE x.prev[i]
  <2>1. y.nr_elts[l] = n + 1
    <3>1. e \in Entry /\ x.nr_elts \in [List -> Nat]
      BY DEF Links
    <3>2. y.nr_elts = [x.nr_elts EXCEPT ![l] = @ + 1]
      BY <3>1, AddTailType
    <3> QED
      BY <3>1, <3>2
  <2> QED
    BY <2>1 DEF l_add_tail, Links
<1> HIDE DEF y, n, tl
<1> DEFINE t == [i \in 1..(n + 1) |-> IF i = n + 1 THEN e ELSE s[i]]
<1>6. \A i \in 1..(n + 1) : i # n + 1 => i \in 1..n
  BY <1>2
<1>7. Enumerates(t, n + 1, S \cup {e})
  <2>1. t \in [1..(n + 1) -> S \cup {e}]
    BY <1>3, <1>6
  <2>2. \A a \in S \cup {e} : \E i \in 1..(n + 1) : t[i] = a
    <3>1. n + 1 \in 1..(n + 1) /\ t[n + 1] = e
      BY <1>2
    <3>2. \A i \in 1..n : i \in 1..(n + 1) /\ t[i] = s[i]
      BY <1>2
    <3> QED
      BY <1>3, <3>1, <3>2
  <2>3. ASSUME NEW i \in 1..(n + 1), NEW j \in 1..(n + 1), t[i] = t[j] PROVE i = j
    BY <1>3, <1>6, <2>3
  <2> QED
    BY <2>1, <2>2, <2>3 DEF Enumerates
<1>8. Spells(y, l, t)
  <2>1. n # 0 => 1 \in 1..n /\ n \in 1..n
    BY <1>2
  <2>2. tl = INDEXER_NULL <=> n = 0
    BY <1>2, <1>3, <1>4, <2>1
  <2>3. y.head[l] = t[1] /\ y.tail[l] = t[n + 1]
    <3>1. 1 \in 1..(n + 1) /\ n + 1 \in 1..(n + 1) /\ (1 = n + 1 <=> n = 0)
      BY <1>2
    <3> QED
      BY <1>4, <1>5, <2>2, <3>1
  <2>4. ASSUME NEW i \in 1..(n + 1)
        PROVE  /\ y.next[t[i]] = IF i = n + 1 THEN INDEXER_NULL ELSE t[i + 1]
               /\ y.prev[t[i]] = IF i = 1 THEN INDEXER_NULL ELSE t[i - 1]
    <3>1. CASE i = n + 1
      <4>1. t[i] = e /\ e # tl
        BY <1>2, <1>3, <1>4, <2>1, <3>1
      <4>2. y.next[t[i]] = INDEXER_NULL /\ y.prev[t[i]] = tl
        BY <1>5, <4>1
      <4>3. tl = IF i = 1 THEN INDEXER_NULL ELSE t[i - 1]
        BY <1>2, <1>4, <2>1, <3>1
      <4> QED
        BY <3>1, <4>2, <4>3
    <3>2. CASE i = n /\ i # n + 1
      <4>1. i \in 1..n /\ t[i] = s[i] /\ t[i] = tl /\ t[i + 1] = e /\ s[i] \in S /\ s[i] # e
        BY <1>2, <1>3, <1>4, <1>6, <3>2
      <4>2. y.next[t[i]] = t[i + 1]
        BY <1>5, <4>1
      <4>3. y.prev[t[i]] = IF i = 1 THEN INDEXER_NULL ELSE s[i - 1]
        BY <1>4, <1>5, <4>1
      <4>4. i # 1 => t[i - 1] = s[i - 1]
        BY <1>2, <4>1
      <4> QED
        BY <3>2, <4>2, <4>3, <4>4
    <3>3. CASE i # n /\ i # n + 1
      <4>1. /\ i \in 1..n /\ n \in 1..n /\ t[i] = s[i] /\ s[i] \in S /\ s[i] # e
            /\ s[i] # tl /\ t[i + 1] = s[i + 1]
        BY <1>2, <1>3, <1>4, <1>6, <3>3
      <4>2. y.next[t[i]] = t[i + 1]
        BY <1>4, <1>5, <3>3, <4>1
      <4>3. y.prev[t[i]] = IF i = 1 THEN INDEXER_NULL ELSE s[i - 1]
        BY <1>4, <1>5, <4>1
      <4>4. i # 1 => t[i - 1] = s[i - 1]
        BY <1>2, <4>1
      <4> QED
        BY <3>3, <4>2, <4>3, <4>4
    <3> QED
      BY <3>1, <3>2, <3>3
  <2>5. n + 1 # 0
    BY <1>2
  <2> HIDE DEF t
  <2> QED
    BY <1>5, <2>3, <2>4, <2>5 DEF Spells
<1> QED
  BY <1>5, <1>7, <1>8 DEF IsList, y

\* Adding an entry to one list leaves the others as they are.
LEMMA AddTailKeepsOthers ==
  ASSUME NEW x \in Links, NEW l \in List, NEW m \in List, l # m,
         NEW S \in SUBSET Entry, NEW T \in SUBSET Entry, S \cap T = {},
         NEW e \in Entry \ T, IsList(x, l, S), IsList(x, m, T)
  PROVE  IsList(l_add_tail(x, l, e), m, T)
<1> DEFINE y == l_add_tail(x, l, e)
           n == x.nr_elts[m]
           tl == x.tail[l]
<1>1. PICK s : Enumerates(s, n, T) /\ Spells(x, m, s)
  BY DEF IsList
<1>2. tl \notin T
  <2>1. PICK r : Enumerates(r, x.nr_elts[l], S) /\ Spells(x, l, r)
    BY DEF IsList
  <2>2. x.nr_elts[l] \in Nat
    BY DEF Links
  <2>3. x.nr_elts[l] # 0 => r[x.nr_elts[l]] \in S
    BY <2>1, <2>2 DEF Enumerates
  <2> QED
    BY <2>1, <2>3, MappingAssumption DEF Spells
<1>3. /\ y.nr_elts[m] = n /\ y.head[m] = x.head[m] /\ y.tail[m] = x.tail[m]
      /\ \A i \in T : y.next[i] = x.next[i] /\ y.prev[i] = x.prev[i]
  BY <1>2 DEF l_add_tail, Links
<1>4. \A i \in 1..n : s[i] \in T
  BY <1>1 DEF Enumerates
<1> HIDE DEF y, n
<1>5. Spells(y, m, s)
  BY <1>1, <1>3, <1>4 DEF Spells, n
<1> QED
  BY <1>1, <1>3, <1>5 DEF IsList, n, y

-----------------------------------------------------------------------------
\* The result of l_del is again a record of links and counters.
LEMMA DelType ==
  ASSUME NEW x \in Links, NEW l \in List, NEW e \in Entry, x.nr_elts[l] # 0
  PROVE  /\ l_del(x, l, e) \in Links
         /\ l_del(x, l, e).nr_elts = [x.nr_elts EXCEPT ![l] = @ - 1]
<1> DEFINE y == l_del(x, l, e)
<1>1. /\ x.next \in [Entry -> Ref] /\ x.prev \in [Entry -> Ref]
      /\ x.head \in [List -> Ref] /\ x.tail \in [List -> Ref] /\ x.nr_elts \in [List -> Nat]
  BY DEF Links
<1>2. y.nr_elts = [x.nr_elts EXCEPT ![l] = @ - 1]
  BY <1>1 DEF l_del, Dec
<1>3. y.nr_elts \in [List -> Nat]
  BY <1>1, <1>2
<1>4. y.next \in [Entry -> Ref] /\ y.prev \in [Entry -> Ref]
  BY <1>1 DEF l_del
<1>5. y.head \in [List -> Ref] /\ y.tail \in [List -> Ref]
  BY <1>1 DEF l_del
<1>6. y = [next |-> y.next, prev |-> y.prev, head |-> y.head, tail |-> y.tail,
           nr_elts |-> y.nr_elts]
  BY DEF l_del
<1> HIDE DEF y
<1>7. y \in Links
  BY <1>3, <1>4, <1>5, <1>6 DEF Links
<1> QED
  BY <1>2, <1>7 DEF y

\* A list that holds an entry is counted as non-empty.
LEMMA HoldingIsCounted ==
  ASSUME NEW x \in Links, NEW l \in List, NEW S, NEW e \in S, IsList(x, l, S)
  PROVE  x.nr_elts[l] # 0
<1>1. PICK s : Enumerates(s, x.nr_elts[l], S)
  BY DEF IsList
<1>2. PICK i \in 1..x.nr_elts[l] : s[i] = e
  BY <1>1 DEF Enumerates
<1> QED
  BY <1>2 DEF Links

\* Unlinking an entry, wherever it is on its list.
LEMMA DelShrinks ==
  ASSUME NEW x \in Links, NEW l \in List, NEW S \in SUBSET Entry, NEW e \in S, IsList(x, l, S)
  PROVE  IsList(l_del(x, l, e), l, S \ {e})
<1> DEFINE y == l_del(x, l, e)
           n == x.nr_elts[l]
           p == x.prev[e]
           nx == x.next[e]
<1>1. PICK s : Enumerates(s, n, S) /\ Spells(x, l, s)
  BY DEF IsList
<1>2. n \in Nat /\ INDEXER_NULL \notin Entry /\ n # 0
  BY MappingAssumption, HoldingIsCounted DEF Links
<1>3. /\ s \in [1..n -> S] /\ \A a \in S : \E i \in 1..n : s[i] = a
      /\ \A i, j \in 1..n : s[i] = s[j] => i = j
  BY <1>1 DEF Enumerates
<1>4. PICK k \in 1..n : s[k] = e
  BY <1>3
<1>5. /\ x.head[l] = s[1]
      /\ x.tail[l] = s[n]
      /\ \A i \in 1..n : /\ x.next[s[i]] = IF i = n THEN INDEXER_NULL ELSE s[i + 1]
                         /\ x.prev[s[i]] = IF i = 1 THEN INDEXER_NULL ELSE s[i - 1]
  BY <1>1, <1>2 DEF Spells
<1>6. /\ y.nr_elts[l] = n - 1
      /\ y.head[l] = IF p = INDEXER_NULL THEN nx ELSE x.head[l]
      /\ y.tail[l] = IF nx = INDEXER_NULL THEN p ELSE x.tail[l]
      /\ \A i \in Entry : y.next[i] = IF i = p THEN nx ELSE x.next[i]
      /\ \A i \in Entry : y.prev[i] = IF i = nx THEN p ELSE x.prev[i]
  <2>1. y.nr_elts[l] = n - 1
    <3>1. e \in Entry /\ x.nr_elts \in [List -> Nat]
      BY DEF Links
    <3>2. y.nr_elts = [x.nr_elts EXCEPT ![l] = @ - 1]
      BY <1>2, <3>1, DelType
    <3> QED
      BY <3>1, <3>2
  <2> QED
    BY <2>1 DEF l_del, Links
<1>7. /\ p = IF k = 1 THEN INDEXER_NULL ELSE s[k - 1]
      /\ nx = IF k = n THEN INDEXER_NULL ELSE s[k + 1]
  BY <1>4, <1>5
<1> HIDE DEF y, n, p, nx
<1> DEFINE t == [i \in 1..(n - 1) |-> IF i < k THEN s[i] ELSE s[i + 1]]
<1>8. \A i \in 1..n : s[i] \in S /\ s[i] \in Entry /\ s[i] # INDEXER_NULL
  BY <1>2, <1>3
<1>9. /\ \A i \in 1..(n - 1) : i < k => i \in 1..n /\ t[i] = s[i]
      /\ \A i \in 1..(n - 1) : ~(i < k) => i + 1 \in 1..n /\ t[i] = s[i + 1]
  BY <1>2
<1>10. Enumerates(t, n - 1, S \ {e})
  <2>1. ASSUME NEW i \in 1..(n - 1) PROVE t[i] \in S \ {e}
    <3>1. CASE i < k
      BY <1>3, <1>4, <1>8, <1>9, <3>1
    <3>2. CASE ~(i < k)
      <4>1. i + 1 # k /\ i + 1 \in 1..n
        BY <1>2, <3>2
      <4> QED
        BY <1>3, <1>4, <1>8, <1>9, <3>2, <4>1
    <3> QED
      BY <3>1, <3>2
  <2>2. ASSUME NEW a \in S \ {e} PROVE \E i \in 1..(n - 1) : t[i] = a
    <3>1. PICK j \in 1..n : s[j] = a
      BY <1>3
    <3>2. j # k
      BY <1>4, <3>1
    <3>3. CASE j < k
      <4>1. j \in 1..(n - 1)
        BY <1>2, <3>3
      <4> QED
        BY <1>9, <3>1, <3>3, <4>1
    <3>4. CASE j > k
      <4>1. j - 1 \in 1..(n - 1) /\ ~(j - 1 < k) /\ (j - 1) + 1 = j
        BY <1>2, <3>4
      <4> QED
        BY <1>9, <3>1, <4>1
    <3> QED
      BY <1>2, <3>2, <3>3, <3>4
  <2>3. ASSUME NEW i \in 1..(n - 1), NEW j \in 1..(n - 1), t[i] = t[j] PROVE i = j
    <3>1. CASE i < k /\ j < k
      BY <1>3, <1>9, <2>3, <3>1
    <3>2. CASE i < k /\ ~(j < k)
      <4>1. i = j + 1
        BY <1>3, <1>9, <2>3, <3>2
      <4> QED
        BY <1>2, <3>2, <4>1
    <3>3. CASE ~(i < k) /\ j < k
      <4>1. j = i + 1
        BY <1>3, <1>9, <2>3, <3>3
      <4> QED
        BY <1>2, <3>3, <4>1
    <3>4. CASE ~(i < k) /\ ~(j < k)
      <4>1. i + 1 = j + 1
        BY <1>3, <1>9, <2>3, <3>4
      <4> QED
        BY <1>2, <4>1
    <3> QED
      BY <3>1, <3>2, <3>3, <3>4
  <2>4. t \in [1..(n - 1) -> S \ {e}]
    BY <2>1
  <2> QED
    BY <2>2, <2>3, <2>4 DEF Enumerates
<1>11. p = INDEXER_NULL <=> k = 1
  BY <1>2, <1>7, <1>8
<1>12. nx = INDEXER_NULL <=> k = n
  BY <1>2, <1>7, <1>8
<1>13. Spells(y, l, t)
  <2>1. y.head[l] = IF n - 1 = 0 THEN INDEXER_NULL ELSE t[1]
    BY <1>2, <1>5, <1>6, <1>7, <1>9, <1>11
  <2>2. y.tail[l] = IF n - 1 = 0 THEN INDEXER_NULL ELSE t[n - 1]
    BY <1>2, <1>5, <1>6, <1>7, <1>9, <1>12
  <2>3. ASSUME NEW i \in 1..(n - 1)
        PROVE  y.next[t[i]] = IF i = n - 1 THEN INDEXER_NULL ELSE t[i + 1]
    <3>1. CASE i < k /\ i = k - 1
      <4>1. t[i] = p /\ t[i] \in Entry
        BY <1>2, <1>7, <1>8, <1>9, <3>1
      <4>2. y.next[t[i]] = nx
        BY <1>6, <4>1
      <4>3. i # n - 1 => t[i + 1] = s[k + 1] /\ k # n
        BY <1>2, <1>9, <3>1
      <4> QED
        BY <1>2, <1>7, <3>1, <4>2, <4>3
    <3>2. CASE i < k /\ i # k - 1
      <4>1. i \in 1..n /\ t[i] = s[i] /\ s[i] \in Entry /\ i # n /\ i # n - 1
        BY <1>2, <1>8, <1>9, <3>2
      <4>2. k # 1 /\ k - 1 \in 1..n /\ p = s[k - 1]
        BY <1>2, <1>7, <3>2
      <4>3. s[i] # p
        BY <1>3, <3>2, <4>1, <4>2
      <4>4. y.next[t[i]] = s[i + 1]
        BY <1>5, <1>6, <4>1, <4>3
      <4>5. t[i + 1] = s[i + 1]
        BY <1>2, <1>9, <3>2, <4>1
      <4> QED
        BY <4>1, <4>4, <4>5
    <3>3. CASE ~(i < k)
      <4>1. i + 1 \in 1..n /\ t[i] = s[i + 1] /\ s[i + 1] \in Entry
        BY <1>8, <1>9, <3>3
      <4>2. s[i + 1] # p
        <5>1. CASE k = 1
          BY <1>7, <1>8, <4>1, <5>1
        <5>2. CASE k # 1
          <6>1. k - 1 \in 1..n /\ k - 1 # i + 1
            BY <1>2, <3>3, <5>2
          <6> QED
            BY <1>3, <1>7, <4>1, <5>2, <6>1
        <5> QED
          BY <5>1, <5>2
      <4>3. y.next[t[i]] = IF i + 1 = n THEN INDEXER_NULL ELSE s[(i + 1) + 1]
        BY <1>5, <1>6, <4>1, <4>2
      <4>4. i # n - 1 => t[i + 1] = s[(i + 1) + 1]
        BY <1>2, <1>9, <3>3
      <4> QED
        BY <1>2, <4>3, <4>4
    <3> QED
      BY <3>1, <3>2, <3>3
  <2>4. ASSUME NEW i \in 1..(n - 1)
        PROVE  y.prev[t[i]] = IF i = 1 THEN INDEXER_NULL ELSE t[i - 1]
    <3>1. CASE i = k
      <4>1. k # n /\ t[i] = nx /\ t[i] \in Entry
        BY <1>2, <1>7, <1>8, <1>9, <3>1
      <4>2. y.prev[t[i]] = p
        BY <1>6, <4>1
      <4>3. i # 1 => t[i - 1] = s[k - 1]
        BY <1>2, <1>9, <3>1
      <4> QED
        BY <1>7, <3>1, <4>2, <4>3
    <3>2. CASE i < k
      <4>1. i \in 1..n /\ t[i] = s[i] /\ s[i] \in Entry
        BY <1>8, <1>9, <3>2
      <4>2. s[i] # nx
        <5>1. CASE k = n
          BY <1>7, <1>8, <4>1, <5>1
        <5>2. CASE k # n
          <6>1. k + 1 \in 1..n /\ k + 1 # i
            BY <1>2, <3>2, <5>2
          <6> QED
            BY <1>3, <1>7, <4>1, <5>2, <6>1
        <5> QED
          BY <5>1, <5>2
      <4>3. y.prev[t[i]] = IF i = 1 THEN INDEXER_NULL ELSE s[i - 1]
        BY <1>5, <1>6, <4>1, <4>2
      <4>4. i # 1 => t[i - 1] = s[i - 1]
        BY <1>2, <1>9, <3>2
      <4> QED
        BY <4>3, <4>4
    <3>3. CASE i > k
      <4>1. i + 1 \in 1..n /\ t[i] = s[i + 1] /\ s[i + 1] \in Entry /\ k # n /\ i # 1
        BY <1>2, <1>8, <1>9, <3>3
      <4>2. k + 1 \in 1..n /\ k + 1 # i + 1 /\ nx = s[k + 1]
        BY <1>2, <1>7, <3>3, <4>1
      <4>3. s[i + 1] # nx
        BY <1>3, <4>1, <4>2
      <4>4. i + 1 # 1 /\ (i + 1) - 1 = i
        BY <1>2
      <4>5. y.prev[t[i]] = s[i]
        BY <1>5, <1>6, <4>1, <4>3, <4>4
      <4>6. i - 1 \in 1..(n - 1) /\ ~(i - 1 < k) /\ (i - 1) + 1 = i
        BY <1>2, <3>3
      <4>7. t[i - 1] = s[i]
        BY <1>9, <4>6
      <4> QED
        BY <4>1, <4>5, <4>7
    <3> QED
      BY <1>2, <3>1, <3>2, <3>3
  <2> HIDE DEF t
  <2> QED
    BY <1>6, <2>1, <2>2, <2>3, <2>4 DEF Spells
<1> HIDE DEF t
<1> QED
  BY <1>6, <1>10, <1>13 DEF IsList, y

\* Unlinking an entry leaves the other lists as they are.
LEMMA DelKeepsOthers ==
  ASSUME NEW x \in Links, NEW l \in List, NEW m \in List, l # m,
         NEW S \in SUBSET Entry, NEW T \in SUBSET Entry, S \cap T = {},
         NEW e \in S, IsList(x, l, S), IsList(x, m, T)
  PROVE  IsList(l_del(x, l, e), m, T)
<1> DEFINE y == l_del(x, l, e)
           n == x.nr_elts[m]
<1>1. PICK s : Enumerates(s, n, T) /\ Spells(x, m, s)
  BY DEF IsList
<1>2. x.prev[e] \notin T /\ x.next[e] \notin T
  <2>1. PICK r : Enumerates(r, x.nr_elts[l], S) /\ Spells(x, l, r)
    BY DEF IsList
  <2>2. x.nr_elts[l] \in Nat /\ INDEXER_NULL \notin T
    BY MappingAssumption DEF Links
  <2>3. PICK k \in 1..x.nr_elts[l] : r[k] = e
    BY <2>1 DEF Enumerates
  <2>4. /\ x.next[e] = IF k = x.nr_elts[l] THEN INDEXER_NULL ELSE r[k + 1]
        /\ x.prev[e] = IF k = 1 THEN INDEXER_NULL ELSE r[k - 1]
    BY <2>1, <2>3 DEF Spells
  <2>5. (k # x.nr_elts[l] => r[k + 1] \in S) /\ (k # 1 => r[k - 1] \in S)
    BY <2>1, <2>2 DEF Enumerates
  <2> QED
    BY <2>2, <2>4, <2>5
<1>3. /\ y.nr_elts[m] = n /\ y.head[m] = x.head[m] /\ y.tail[m] = x.tail[m]
      /\ \A i \in T : y.next[i] = x.next[i] /\ y.prev[i] = x.prev[i]
  BY <1>2 DEF l_del, Links
<1>4. \A i \in 1..n : s[i] \in T
  BY <1>1 DEF Enumerates
<1> HIDE DEF y, n
<1>5. Spells(y, m, s)
  BY <1>1, <1>3, <1>4 DEF Spells, n
<1> QED
  BY <1>1, <1>3, <1>5 DEF IsList, n, y

-----------------------------------------------------------------------------
\* The result of l_add_head is again a record of links and counters.
LEMMA AddHeadType ==
  ASSUME NEW x \in Links, NEW l \in List, NEW e \in Entry, x.nr_elts[l] < UINT_MAX
  PROVE  /\ l_add_head(x, l, e) \in Links
         /\ l_add_head(x, l, e).nr_elts = [x.nr_elts EXCEPT ![l] = @ + 1]
<1> DEFINE y == l_add_head(x, l, e)
<1>1. /\ x.next \in [Entry -> Ref] /\ x.prev \in [Entry -> Ref]
      /\ x.head \in [List -> Ref] /\ x.tail \in [List -> Ref] /\ x.nr_elts \in [List -> Nat]
  BY DEF Links
<1>2. UINT_MAX \in Nat
  BY MappingAssumption
<1>3. y.nr_elts = [x.nr_elts EXCEPT ![l] = @ + 1]
  BY <1>1, <1>2 DEF l_add_head, Inc
<1>4. y.nr_elts \in [List -> Nat]
  BY <1>1, <1>3
<1>5. y.next \in [Entry -> Ref] /\ y.prev \in [Entry -> Ref]
  BY <1>1 DEF l_add_head, Ref
<1>6. y.head \in [List -> Ref] /\ y.tail \in [List -> Ref]
  BY <1>1 DEF l_add_head, Ref
<1>7. y = [next |-> y.next, prev |-> y.prev, head |-> y.head, tail |-> y.tail,
           nr_elts |-> y.nr_elts]
  BY DEF l_add_head
<1> HIDE DEF y
<1>8. y \in Links
  BY <1>4, <1>5, <1>6, <1>7 DEF Links
<1> QED
  BY <1>3, <1>8 DEF y

\* Adding an entry at the front of a list that does not hold it.
LEMMA AddHeadGrows ==
  ASSUME NEW x \in Links, NEW l \in List, NEW S \in SUBSET Entry, NEW e \in Entry \ S,
         x.nr_elts[l] < UINT_MAX, IsList(x, l, S)
  PROVE  IsList(l_add_head(x, l, e), l, S \cup {e})
<1> DEFINE y == l_add_head(x, l, e)
           n == x.nr_elts[l]
           hd == x.head[l]
<1>1. PICK s : Enumerates(s, n, S) /\ Spells(x, l, s)
  BY DEF IsList
<1>2. n \in Nat /\ INDEXER_NULL \notin Entry /\ hd \in Ref
  BY MappingAssumption DEF Links
<1>3. /\ s \in [1..n -> S] /\ \A a \in S : \E i \in 1..n : s[i] = a
      /\ \A i, j \in 1..n : s[i] = s[j] => i = j
  BY <1>1 DEF Enumerates
<1>4. /\ hd = IF n = 0 THEN INDEXER_NULL ELSE s[1]
      /\ x.tail[l] = IF n = 0 THEN INDEXER_NULL ELSE s[n]
      /\ \A i \in 1..n : /\ x.next[s[i]] = IF i = n THEN INDEXER_NULL ELSE s[i + 1]
                         /\ x.prev[s[i]] = IF i = 1 THEN INDEXER_NULL ELSE s[i - 1]
  BY <1>1 DEF Spells
<1>5. /\ y.nr_elts[l] = n + 1
      /\ y.head[l] = e
      /\ y.tail[l] = IF hd = INDEXER_NULL THEN e ELSE x.tail[l]
      /\ \A i \in Entry : y.next[i] = IF i = e THEN hd ELSE x.next[i]
      /\ \A i \in Entry : y.prev[i] = IF i = hd THEN e
                                      ELSE IF i = e THEN INDEXER_NULL ELSE x.prev[i]
  <2>1. y.nr_elts[l] = n + 1
    <3>1. e \in Entry /\ x.nr_elts \in [List -> Nat]
      BY DEF Links
    <3>2. y.nr_elts = [x.nr_elts EXCEPT ![l] = @ + 1]
      BY <3>1, AddHeadType
    <3> QED
      BY <3>1, <3>2
  <2> QED
    BY <2>1 DEF l_add_head, Links
<1> HIDE DEF y, n, hd
<1> DEFINE t == [i \in 1..(n + 1) |-> IF i = 1 THEN e ELSE s[i - 1]]
<1>6. \A i \in 1..(n + 1) : i # 1 => i - 1 \in 1..n /\ t[i] = s[i - 1] /\ s[i - 1] \in S
  BY <1>2, <1>3
<1>7. 1 \in 1..(n + 1) /\ t[1] = e
  BY <1>2
<1>8. Enumerates(t, n + 1, S \cup {e})
  <2>1. t \in [1..(n + 1) -> S \cup {e}]
    BY <1>6
  <2>2. \A a \in S \cup {e} : \E i \in 1..(n + 1) : t[i] = a
    <3>1. \A i \in 1..n : i + 1 \in 1..(n + 1) /\ t[i + 1] = s[i]
      BY <1>2
    <3>2. ASSUME NEW a \in S PROVE \E i \in 1..(n + 1) : t[i] = a
      <4>1. PICK j \in 1..n : s[j] = a
        BY <1>3
      <4>2. j + 1 \in 1..(n + 1) /\ t[j + 1] = a
        BY <3>1, <4>1
      <4> QED
        BY <4>2
    <3> QED
      BY <1>7, <3>2
  <2>3. ASSUME NEW i \in 1..(n + 1), NEW j \in 1..(n + 1), t[i] = t[j] PROVE i = j
    <3>1. CASE i # 1 /\ j # 1
      <4>1. i - 1 = j - 1
        BY <1>3, <1>6, <2>3, <3>1
      <4> QED
        BY <1>2, <4>1
    <3>2. CASE i = 1 \/ j = 1
      BY <1>6, <1>7, <2>3, <3>2
    <3> QED
      BY <3>1, <3>2
  <2> QED
    BY <2>1, <2>2, <2>3 DEF Enumerates
<1>9. Spells(y, l, t)
  <2>1. n # 0 => 1 \in 1..n /\ n \in 1..n
    BY <1>2
  <2>2. hd = INDEXER_NULL <=> n = 0
    BY <1>2, <1>3, <1>4, <2>1
  <2>3. y.head[l] = t[1]
    BY <1>5, <1>7
  <2>4. y.tail[l] = t[n + 1]
    <3>1. n + 1 \in 1..(n + 1) /\ (n + 1 = 1 <=> n = 0) /\ (n + 1) - 1 = n
      BY <1>2
    <3> QED
      BY <1>4, <1>5, <1>6, <1>7, <2>2, <3>1
  <2>5. ASSUME NEW i \in 1..(n + 1)
        PROVE  /\ y.next[t[i]] = IF i = n + 1 THEN INDEXER_NULL ELSE t[i + 1]
               /\ y.prev[t[i]] = IF i = 1 THEN INDEXER_NULL ELSE t[i - 1]
    <3>1. CASE i = 1
      <4>1. t[i] = e /\ e # hd
        BY <1>2, <1>3, <1>4, <1>7, <2>1, <3>1
      <4>2. y.next[t[i]] = hd /\ y.prev[t[i]] = INDEXER_NULL
        BY <1>5, <4>1
      <4>3. i # n + 1 => n # 0 /\ t[i + 1] = s[1]
        BY <1>2, <3>1
      <4>4. i = n + 1 => n = 0
        BY <1>2, <3>1
      <4> QED
        BY <1>4, <3>1, <4>2, <4>3, <4>4
    <3>2. CASE i # 1
      <4> DEFINE j == i - 1
      <4>1. j \in 1..n /\ t[i] = s[j] /\ s[j] \in S /\ s[j] # e /\ s[j] \in Entry
        BY <1>6, <3>2
      <4>2. (i = n + 1 <=> j = n) /\ j + 1 = i
        BY <1>2
      <4>3. i # n + 1 => t[i + 1] = s[j + 1]
        BY <1>2, <4>1, <4>2
      <4>4. y.next[t[i]] = IF i = n + 1 THEN INDEXER_NULL ELSE t[i + 1]
        BY <1>4, <1>5, <4>1, <4>2, <4>3
      <4>5. y.prev[t[i]] = t[j]
        <5>1. CASE j = 1
          <6>1. s[j] = hd
            BY <1>2, <1>4, <4>1, <5>1
          <6> QED
            BY <1>5, <1>7, <4>1, <5>1, <6>1
        <5>2. CASE j # 1
          <6>1. s[j] # hd
            BY <1>2, <1>3, <1>4, <2>1, <4>1, <5>2
          <6>2. j - 1 \in 1..n /\ t[j] = s[j - 1]
            BY <1>2, <1>6, <4>1, <5>2
          <6> QED
            BY <1>4, <1>5, <4>1, <5>2, <6>1, <6>2
        <5> QED
          BY <5>1, <5>2
      <4> QED
        BY <3>2, <4>4, <4>5
    <3> QED
      BY <3>1, <3>2
  <2>6. n + 1 # 0
    BY <1>2
  <2> HIDE DEF t
  <2> QED
    BY <1>5, <2>3, <2>4, <2>5, <2>6 DEF Spells
<1> HIDE DEF t
<1> QED
  BY <1>5, <1>8, <1>9 DEF IsList, y

\* Adding an entry at the front of one list leaves the others as they are.
LEMMA AddHeadKeepsOthers ==
  ASSUME NEW x \in Links, NEW l \in List, NEW m \in List, l # m,
         NEW S \in SUBSET Entry, NEW T \in SUBSET Entry, S \cap T = {},
         NEW e \in Entry \ T, IsList(x, l, S), IsList(x, m, T)
  PROVE  IsList(l_add_head(x, l, e), m, T)
<1> DEFINE y == l_add_head(x, l, e)
           n == x.nr_elts[m]
           hd == x.head[l]
<1>1. PICK s : Enumerates(s, n, T) /\ Spells(x, m, s)
  BY DEF IsList
<1>2. hd \notin T
  <2>1. PICK r : Enumerates(r, x.nr_elts[l], S) /\ Spells(x, l, r)
    BY DEF IsList
  <2>2. x.nr_elts[l] \in Nat
    BY DEF Links
  <2>3. x.nr_elts[l] # 0 => r[1] \in S
    BY <2>1, <2>2 DEF Enumerates
  <2> QED
    BY <2>1, <2>3, MappingAssumption DEF Spells
<1>3. /\ y.nr_elts[m] = n /\ y.head[m] = x.head[m] /\ y.tail[m] = x.tail[m]
      /\ \A i \in T : y.next[i] = x.next[i] /\ y.prev[i] = x.prev[i]
  BY <1>2 DEF l_add_head, Links
<1>4. \A i \in 1..n : s[i] \in T
  BY <1>1 DEF Enumerates
<1> HIDE DEF y, n
<1>5. Spells(y, m, s)
  BY <1>1, <1>3, <1>4 DEF Spells, n
<1> QED
  BY <1>1, <1>3, <1>5 DEF IsList, n, y

-----------------------------------------------------------------------------
\* l_add_tail puts an entry that is on no list on list l.
THEOREM AddTailLists ==
  ASSUME NEW x, NEW M, AreLists(x, M), NEW l \in List, NEW e \in Entry,
         \A m \in List : e \notin M[m], x.nr_elts[l] < UINT_MAX
  PROVE  /\ AreLists(l_add_tail(x, l, e), With(M, l, e))
         /\ l_add_tail(x, l, e).nr_elts = Grown(x.nr_elts, l)
<1> DEFINE y == l_add_tail(x, l, e)
           L == With(M, l, e)
<1>1. x \in Links /\ M \in [List -> SUBSET Entry]
  BY DEF AreLists
<1>2. y \in Links /\ y.nr_elts = Grown(x.nr_elts, l)
  BY <1>1, AddTailType DEF Grown
<1>3. L \in [List -> SUBSET Entry]
  BY <1>1 DEF With, Without
<1>4. ASSUME NEW m \in List PROVE IsList(y, m, L[m])
  <2>1. IsList(x, l, M[l]) /\ IsList(x, m, M[m]) /\ M[l] \in SUBSET Entry /\ M[m] \in SUBSET Entry
    BY <1>1 DEF AreLists
  <2>2. CASE m = l
    <3>1. IsList(y, l, M[l] \cup {e})
      BY <1>1, <2>1, AddTailGrows
    <3> QED
      BY <1>1, <2>2, <3>1 DEF With, Without
  <2>3. CASE m # l
    <3>1. M[l] \cap M[m] = {}
      BY <2>3 DEF AreLists
    <3>2. IsList(y, m, M[m])
      BY <1>1, <2>1, <2>3, <3>1, AddTailKeepsOthers
    <3> QED
      BY <1>1, <2>3, <3>2 DEF With, Without
  <2> QED
    BY <2>2, <2>3
<1>5. \A a, b \in List : a # b => L[a] \cap L[b] = {}
  BY <1>1 DEF AreLists, With, Without
<1> QED
  BY <1>2, <1>3, <1>4, <1>5 DEF AreLists

\* l_add_head puts an entry that is on no list on list l.
THEOREM AddHeadLists ==
  ASSUME NEW x, NEW M, AreLists(x, M), NEW l \in List, NEW e \in Entry,
         \A m \in List : e \notin M[m], x.nr_elts[l] < UINT_MAX
  PROVE  /\ AreLists(l_add_head(x, l, e), With(M, l, e))
         /\ l_add_head(x, l, e).nr_elts = Grown(x.nr_elts, l)
<1> DEFINE y == l_add_head(x, l, e)
           L == With(M, l, e)
<1>1. x \in Links /\ M \in [List -> SUBSET Entry]
  BY DEF AreLists
<1>2. y \in Links /\ y.nr_elts = Grown(x.nr_elts, l)
  BY <1>1, AddHeadType DEF Grown
<1>3. L \in [List -> SUBSET Entry]
  BY <1>1 DEF With, Without
<1>4. ASSUME NEW m \in List PROVE IsList(y, m, L[m])
  <2>1. IsList(x, l, M[l]) /\ IsList(x, m, M[m]) /\ M[l] \in SUBSET Entry /\ M[m] \in SUBSET Entry
    BY <1>1 DEF AreLists
  <2>2. CASE m = l
    <3>1. IsList(y, l, M[l] \cup {e})
      BY <1>1, <2>1, AddHeadGrows
    <3> QED
      BY <1>1, <2>2, <3>1 DEF With, Without
  <2>3. CASE m # l
    <3>1. M[l] \cap M[m] = {}
      BY <2>3 DEF AreLists
    <3>2. IsList(y, m, M[m])
      BY <1>1, <2>1, <2>3, <3>1, AddHeadKeepsOthers
    <3> QED
      BY <1>1, <2>3, <3>2 DEF With, Without
  <2> QED
    BY <2>2, <2>3
<1>5. \A a, b \in List : a # b => L[a] \cap L[b] = {}
  BY <1>1 DEF AreLists, With, Without
<1> QED
  BY <1>2, <1>3, <1>4, <1>5 DEF AreLists

\* l_del takes an entry off the list it is on.
THEOREM DelLists ==
  ASSUME NEW x, NEW M, AreLists(x, M), NEW l \in List, NEW e \in M[l]
  PROVE  /\ AreLists(l_del(x, l, e), Without(M, l, e))
         /\ l_del(x, l, e).nr_elts = Shrunk(x.nr_elts, l)
         /\ x.nr_elts[l] > 0
<1> DEFINE y == l_del(x, l, e)
           L == Without(M, l, e)
<1>1. x \in Links /\ M \in [List -> SUBSET Entry] /\ e \in Entry /\ IsList(x, l, M[l])
  BY DEF AreLists
<1>2. x.nr_elts[l] # 0 /\ x.nr_elts[l] \in Nat
  BY <1>1, HoldingIsCounted DEF Links
<1>3. y \in Links /\ y.nr_elts = Shrunk(x.nr_elts, l)
  BY <1>1, <1>2, DelType DEF Shrunk
<1>4. L \in [List -> SUBSET Entry]
  BY <1>1 DEF With, Without
<1>5. ASSUME NEW m \in List PROVE IsList(y, m, L[m])
  <2>1. IsList(x, m, M[m]) /\ M[l] \in SUBSET Entry /\ M[m] \in SUBSET Entry
    BY <1>1 DEF AreLists
  <2>2. CASE m = l
    <3>1. IsList(y, l, M[l] \ {e})
      BY <1>1, <2>1, DelShrinks
    <3> QED
      BY <1>1, <2>2, <3>1 DEF With, Without
  <2>3. CASE m # l
    <3>1. M[l] \cap M[m] = {}
      BY <2>3 DEF AreLists
    <3>2. IsList(y, m, M[m])
      BY <1>1, <2>1, <2>3, <3>1, DelKeepsOthers
    <3> QED
      BY <1>1, <2>3, <3>2 DEF With, Without
  <2> QED
    BY <2>2, <2>3
<1>6. \A a, b \in List : a # b => L[a] \cap L[b] = {}
  BY <1>1 DEF AreLists, With, Without
<1>7. AreLists(y, L)
  BY <1>3, <1>4, <1>5, <1>6 DEF AreLists
<1>8. x.nr_elts[l] > 0
  BY <1>2
<1> QED
  BY <1>3, <1>7, <1>8

\* Clearing the links of an entry that is on no list (init_entry) changes none.
THEOREM ClearLists ==
  ASSUME NEW x, NEW M, AreLists(x, M), NEW e \in Entry, \A m \in List : e \notin M[m]
  PROVE  AreLists(init_entry(x, e), M) /\ init_entry(x, e).nr_elts = x.nr_elts
<1> DEFINE y == init_entry(x, e)
<1>1. x \in Links /\ M \in [List -> SUBSET Entry]
  BY DEF AreLists
<1>2. /\ y \in Links /\ y.nr_elts = x.nr_elts /\ y.head = x.head /\ y.tail = x.tail
      /\ \A i \in Entry : i # e => y.next[i] = x.next[i] /\ y.prev[i] = x.prev[i]
  BY <1>1 DEF Links, Ref, init_entry
<1> HIDE DEF y
<1>3. ASSUME NEW m \in List PROVE IsList(y, m, M[m])
  <2>1. PICK s : Enumerates(s, x.nr_elts[m], M[m]) /\ Spells(x, m, s)
    BY DEF AreLists, IsList
  <2>2. \A i \in 1..x.nr_elts[m] : s[i] \in Entry /\ s[i] # e
    BY <1>1, <2>1 DEF Enumerates
  <2>3. Spells(y, m, s)
    BY <1>2, <2>1, <2>2 DEF Spells
  <2> QED
    BY <1>2, <2>1, <2>3 DEF IsList
<1>4. AreLists(y, M)
  BY <1>1, <1>2, <1>3 DEF AreLists
<1> QED
  BY <1>2, <1>4 DEF y

\* The head of a list that is not empty is an entry of the list.
THEOREM HeadOfLists ==
  ASSUME NEW x, NEW M, AreLists(x, M), NEW l \in List
  PROVE  /\ x.nr_elts[l] # 0 => x.head[l] \in M[l]
         /\ x.head[l] # INDEXER_NULL <=> x.nr_elts[l] # 0
<1>1. PICK s : Enumerates(s, x.nr_elts[l], M[l]) /\ Spells(x, l, s)
  BY DEF AreLists, IsList
<1>2. x.nr_elts[l] \in Nat /\ M[l] \subseteq Entry /\ INDEXER_NULL \notin Entry
  BY MappingAssumption DEF AreLists, Links
<1>3. x.nr_elts[l] # 0 => x.head[l] = s[1] /\ s[1] \in M[l]
  BY <1>1, <1>2 DEF Spells, Enumerates
<1>4. x.nr_elts[l] = 0 => x.head[l] = INDEXER_NULL
  BY <1>1 DEF Spells
<1> QED
  BY <1>2, <1>3, <1>4

=============================================================================
