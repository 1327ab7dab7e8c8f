------------------------------ MODULE EntrySet ------------------------------
(***************************************************************************)
(* What Mapping takes the hash table of ssd_cache_mapping.c for: a set of  *)
(* entries, in which one is looked up by its key.  HashTable.tla has the   *)
(* chains that implement it.                                               *)
(***************************************************************************)
CONSTANTS Key, NoKey, Entry, INDEXER_NULL

VARIABLES
  hashed,  \* the entries in the table
  key,     \* full_path_name and cache_page_index of each entry
  result   \* the last search: the call, the key it was for, the entry it found

setVars == <<hashed, key, result>>

\* The entries that a lookup of k can return.
entries(k) == {x \in hashed : key[x] = k}

SetInit ==
  /\ hashed = {}
  /\ key = [x \in Entry |-> NoKey]
  /\ result = <<"none", NoKey, INDEXER_NULL>>

\* An entry outside of the table gets a new key.
name(x, k) ==
  /\ x \notin hashed
  /\ key' = [key EXCEPT ![x] = k]
  /\ UNCHANGED <<hashed, result>>

insert(x) ==
  /\ hashed' = hashed \cup {x}
  /\ UNCHANGED <<key, result>>

lookup(k) ==
  /\ \/ entries(k) = {} /\ result' = <<"lookup", k, INDEXER_NULL>>
     \/ \E x \in entries(k) : result' = <<"lookup", k, x>>
  /\ UNCHANGED <<hashed, key>>

\* Takes out one entry with key k, if there is one.
remove(k) ==
  /\ \/ entries(k) = {} /\ result' = <<"remove", k, INDEXER_NULL>> /\ UNCHANGED hashed
     \/ \E x \in entries(k) : result' = <<"remove", k, x>> /\ hashed' = hashed \ {x}
  /\ UNCHANGED key

SetNext ==
  \/ \E x \in Entry, k \in Key : name(x, k)
  \/ \E x \in Entry : insert(x)
  \/ \E k \in Key : lookup(k) \/ remove(k)

SetSpec == SetInit /\ [][SetNext]_setVars

=============================================================================
