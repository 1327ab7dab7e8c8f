------------------------------ MODULE FifoQueue ------------------------------
(***************************************************************************)
(* What the promotion work queue of the dm-cache promises to its callers   *)
(* (dm-cache/inc/work_queue.h): a bounded first-in first-out queue without *)
(* duplicates, filled by the users and emptied by one consumer, which      *)
(* first looks at the oldest work and removes it only after it is done.    *)
(* WorkQueue.tla is the circular array that implements it; Mapping.tla     *)
(* uses it as the queue between the users and the migration worker.        *)
(*                                                                         *)
(* A key stands for the pair (full_path_name, cache_page_index).           *)
(***************************************************************************)
EXTENDS Naturals, Sequences

CONSTANTS
  Key,                 \* the file blocks that can be asked for
  NoKey,               \* "no work": the consumer holds nothing
  PrefixMatch,         \* <<q, k>>: same cache_page_index, and the name of q
                       \* is a prefix of the name of k
  MAX_WORKQUEUE_SIZE   \* slots of the array; one of them is never used

ASSUME QueueAssumption ==
  /\ NoKey \notin Key
  /\ PrefixMatch \in SUBSET (Key \X Key)
  /\ \A k \in Key : <<k, k>> \in PrefixMatch
  /\ MAX_WORKQUEUE_SIZE \in Nat
  /\ MAX_WORKQUEUE_SIZE > 1

VARIABLES
  wq,     \* the queued keys, oldest first
  work    \* the key the consumer copied out with peak_work, or NoKey

queueVars == <<wq, work>>

-----------------------------------------------------------------------------
(* The answers of the functions that only read the queue. *)

is_empty == wq = <<>>

queued(k) == \E i \in 1..Len(wq) : wq[i] = k

no_room == Len(wq) = MAX_WORKQUEUE_SIZE - 1

\* contains_work compares only the first strlen(queued name) characters.
contains_work(k) == \E i \in 1..Len(wq) : <<wq[i], k>> \in PrefixMatch

-----------------------------------------------------------------------------
QueueInit ==
  /\ wq = <<>>
  /\ work = NoKey

\* insert_work: refused (false) when there is no room or the key is queued.
insert_work(k) ==
  /\ wq' = IF no_room \/ queued(k) THEN wq ELSE Append(wq, k)
  /\ UNCHANGED work

\* peak_work, successful: the oldest key is copied out and stays queued.
peak_work ==
  /\ ~is_empty
  /\ work = NoKey
  /\ work' = Head(wq)
  /\ UNCHANGED wq

\* remove_work, after the consumer has finished the key it copied out.
remove_work ==
  /\ work # NoKey
  /\ work = Head(wq)
  /\ ~is_empty
  /\ wq' = Tail(wq)
  /\ work' = NoKey

QueueNext ==
  \/ \E k \in Key : insert_work(k)
  \/ peak_work
  \/ remove_work

QueueSpec == QueueInit /\ [][QueueNext]_queueVars

=============================================================================
