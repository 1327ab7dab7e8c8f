----------------------------- MODULE HashTable ------------------------------
(***************************************************************************)
(* The hash table of dm-cache/lib/ssd_cache_mapping.c: buckets of entries  *)
(* chained by hash_next.  A search walks a chain one entry a step; one     *)
(* runs at a time, as mapping_lock is held around every call.  A lookup    *)
(* moves the entry it finds to the front of its chain.                     *)
(***************************************************************************)
EXTENDS Integers, FiniteSets

CONSTANTS
  Key,           \* the pairs of full_path_name and cache_page_index
  NoKey,         \* the key of an entry that was never allocated
  CACHE_BLOCK_NUMBER,
  INDEXER_NULL,
  Bucket,
  hash_32        \* the hash function; keys may share a bucket

Entry == 0..(CACHE_BLOCK_NUMBER - 1)

ASSUME HashAssumption ==
  /\ NoKey \notin Key
  /\ CACHE_BLOCK_NUMBER \in Nat
  /\ INDEXER_NULL \notin Entry
  /\ hash_32 \in [Key -> Bucket]

VARIABLES
  buckets, hash_next,  \* first entry of each chain; the entry after each entry
  key,                 \* full_path_name and cache_page_index of each entry
  op, sought,          \* the call that runs, and the key it looks for
  e, prev,             \* __h_lookup: the entry it is at and the one before
  result,              \* the last search: the call, its key, the entry found
  hashed               \* history: the entries put in and not taken out

chains == <<buckets, hash_next>>

walk == <<sought, e, prev>>

vars == <<chains, key, op, walk, result, hashed>>

-----------------------------------------------------------------------------
alloc_hash_table ==
  /\ buckets = [b \in Bucket |-> INDEXER_NULL]
  /\ hash_next = [x \in Entry |-> 0]
  /\ key = [x \in Entry |-> NoKey]
  /\ op = "none" /\ sought = NoKey
  /\ e = INDEXER_NULL /\ prev = INDEXER_NULL
  /\ result = <<"none", NoKey, INDEXER_NULL>>
  /\ hashed = {}

h_head(b) == buckets[b]

\* A defect: the next entry of the array.
h_next_of_array(x) == x + 1

h_next(x) == hash_next[x]

\* A defect: the hash values are compared.
matches_hash(x, k) == hash_32[key[x]] = hash_32[k]

\* Entries are compared by both parts of the key.
matches(x, k) == key[x] = k

\* init_entry, and the new key; the entry is not in the table.
name_entry(x, k) ==
  /\ op = "none"
  /\ x \notin hashed
  /\ key' = [key EXCEPT ![x] = k]
  /\ hash_next' = [hash_next EXCEPT ![x] = INDEXER_NULL]
  /\ UNCHANGED <<buckets, op, walk, result, hashed>>

\* The callers insert an entry only if its key is not in the table
\* (OneBlockPerKey in Mapping).
h_insert(x) ==
  LET b == hash_32[key[x]] IN
  /\ op = "none"
  /\ key[x] # NoKey
  /\ \A y \in hashed : key[y] # key[x]
  /\ hash_next' = [hash_next EXCEPT ![x] = buckets[b]]
  /\ buckets' = [buckets EXCEPT ![b] = x]
  /\ hashed' = hashed \cup {x}
  /\ UNCHANGED <<key, op, walk, result>>

-----------------------------------------------------------------------------
(* A search. *)

start(call, k) ==
  /\ op = "none"
  /\ op' = call
  /\ sought' = k
  /\ e' = h_head(hash_32[k])
  /\ prev' = INDEXER_NULL
  /\ UNCHANGED <<chains, key, result, hashed>>

\* h_remove takes the key from an entry, which need not be in the table.
start_remove(x) == key[x] # NoKey /\ start("remove", key[x])

\* A defect: the entry before is not kept.
pass_by_only ==
  /\ op # "none"
  /\ e # INDEXER_NULL /\ ~matches(e, sought)
  /\ e' = h_next(e)
  /\ UNCHANGED <<chains, key, op, sought, prev, result, hashed>>

\* The loop of __h_lookup.
pass_by ==
  /\ op # "none"
  /\ e # INDEXER_NULL /\ ~matches(e, sought)
  /\ prev' = e
  /\ e' = h_next(e)
  /\ UNCHANGED <<chains, key, op, sought, result, hashed>>

found_it(call) == op = call /\ e # INDEXER_NULL /\ matches(e, sought)

end ==
  /\ op' = "none"
  /\ result' = <<op, sought, e>>
  /\ sought' = NoKey /\ e' = INDEXER_NULL /\ prev' = INDEXER_NULL
  /\ UNCHANGED key

\* A defect: the entry before e still leads to it.
next_without_e_kept == hash_next

\* __h_unlink: what the links and the buckets are without e.
next_without_e ==
  IF prev = INDEXER_NULL THEN hash_next ELSE [hash_next EXCEPT ![prev] = hash_next[e]]

\* A defect: the bucket forgets the entries before e.
buckets_without_more == [buckets EXCEPT ![hash_32[sought]] = hash_next[e]]

buckets_without_e ==
  IF prev = INDEXER_NULL THEN [buckets EXCEPT ![hash_32[sought]] = hash_next[e]] ELSE buckets

lookup_found ==
  /\ found_it("lookup")
  /\ prev = INDEXER_NULL /\ UNCHANGED chains
  /\ end /\ UNCHANGED hashed

\* Moves the entry to the front of its chain.
lookup_found_behind ==
  LET b == hash_32[sought] IN
  /\ found_it("lookup")
  /\ prev # INDEXER_NULL
  /\ hash_next' = [next_without_e EXCEPT ![e] = buckets_without_e[b]]
  /\ buckets' = [buckets_without_e EXCEPT ![b] = e]
  /\ end /\ UNCHANGED hashed

remove_found ==
  /\ found_it("remove")
  /\ hash_next' = next_without_e
  /\ buckets' = buckets_without_e
  /\ hashed' = hashed \ {e}
  /\ end

not_found ==
  /\ op # "none"
  /\ e = INDEXER_NULL
  /\ end /\ UNCHANGED <<chains, hashed>>

search == pass_by \/ lookup_found \/ lookup_found_behind \/ remove_found \/ not_found

Next ==
  \/ \E x \in Entry, k \in Key : name_entry(x, k)
  \/ \E x \in Entry \ hashed : h_insert(x)
  \/ \E k \in Key : start("lookup", k)
  \/ \E x \in Entry : start_remove(x)
  \/ search

Spec == alloc_hash_table /\ [][Next]_vars

\* The caller holds the lock and does nothing else until the search ends.
FairSpec == Spec /\ WF_vars(search)

-----------------------------------------------------------------------------
(* Properties. *)

TypeOK ==
  /\ buckets \in [Bucket -> Entry \cup {INDEXER_NULL}]
  /\ hash_next \in [Entry -> Entry \cup {INDEXER_NULL}]
  /\ key \in [Entry -> Key \cup {NoKey}]
  /\ op \in {"none", "lookup", "remove"}
  /\ sought \in Key \cup {NoKey}
  /\ op # "none" => sought \in Key
  /\ e \in Entry \cup {INDEXER_NULL}
  /\ prev \in Entry \cup {INDEXER_NULL}
  /\ result \in {"none", "lookup", "remove"} \X (Key \cup {NoKey}) \X (Entry \cup {INDEXER_NULL})
  /\ hashed \subseteq {x \in Entry : key[x] # NoKey}

\* The entries that belong to chain b.
members(b) == {x \in hashed : hash_32[key[x]] = b}

\* The links of chain b lead through s[1], ..., s[n] and end.
Spells(b, s, n) ==
  /\ buckets[b] = IF n = 0 THEN INDEXER_NULL ELSE s[1]
  /\ \A i \in 1..n : hash_next[s[i]] = IF i = n THEN INDEXER_NULL ELSE s[i + 1]

\* s lists the entries of S, each once.
Enumerates(s, n, S) ==
  /\ s \in [1..n -> S]
  /\ \A x \in S : \E i \in 1..n : s[i] = x
  /\ \A i, j \in 1..n : s[i] = s[j] => i = j

\* In the i-th step of a walk along s: e and prev are neighbours, and no entry
\* passed by has the key.
At(s, n, i) ==
  /\ e = IF i = n + 1 THEN INDEXER_NULL ELSE s[i]
  /\ prev = IF i = 1 THEN INDEXER_NULL ELSE s[i - 1]
  /\ \A j \in 1..(i - 1) : key[s[j]] # sought

\* Each chain is finite, without a loop, and holds exactly the entries put into
\* the table whose hash value it is for, each once, whatever lookups have moved
\* and removals have cut out of its middle; and while a search runs, "prev" is
\* the entry before "e" on the chain searched, so that unlinking e loses no other.
ChainsHold ==
  \A b \in Bucket :
    LET n == Cardinality(members(b)) IN
    \E s \in [1..n -> Entry] :
      /\ Enumerates(s, n, members(b))
      /\ Spells(b, s, n)
      /\ op # "none" /\ hash_32[sought] = b => \E i \in 1..(n + 1) : At(s, n, i)

\* Every search and removal is one of a set of entries: a lookup returns an
\* entry with the key it was asked for if the table has one.
Set == INSTANCE EntrySet

ActsAsSet == Set!SetSpec

\* Every search ends: no chain has got a loop.
SearchEnds == op # "none" ~> op = "none"

=============================================================================
