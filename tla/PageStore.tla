------------------------------ MODULE PageStore ------------------------------
(***************************************************************************)
(* What the page cache promises its caller: the pages of a file, each      *)
(* holding the value last written to it, but for the pages that are lost.  *)
(***************************************************************************)
CONSTANTS Index, Val, NULL, Blank

VARIABLES
  mem,   \* the value of every page
  got,   \* the page copied to the caller's buffer last, NULL if none
  lost   \* the pages nothing is promised about any more

memVars == <<mem, got, lost>>

MemInit ==
  /\ mem = [k \in Index |-> Blank]
  /\ got = NULL
  /\ lost = {}

Write(k, v) ==
  /\ \A j \in Index \ lost' : mem'[j] = IF j = k THEN v ELSE mem[j]
  /\ UNCHANGED got

\* The pages that are not lost stay as they are.
Keep == \A j \in Index \ lost' : mem'[j] = mem[j]

Read(k) ==
  /\ Keep
  /\ \E v \in Val \cup {Blank} :
       /\ got' = [index |-> k, val |-> v]
       /\ k \notin lost' => v = mem[k]

Return ==
  /\ Keep
  /\ got' = NULL

MemNext ==
  /\ lost \subseteq lost'
  /\ \/ \E k \in Index, v \in Val : Write(k, v)
     \/ \E k \in Index : Read(k)
     \/ Keep /\ UNCHANGED got
     \/ Return

MemSpec == MemInit /\ [][MemNext]_memVars

=============================================================================
