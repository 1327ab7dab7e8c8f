------------------------------ MODULE WorkQueue ------------------------------
(***************************************************************************)
(* dm-cache/lib/work_queue.c: the circular array of promotion requests.    *)
(* Every function runs under wq->lock from its first to its last access,   *)
(* so each is one action; between two of them any producer may run.        *)
(***************************************************************************)
EXTENDS Integers, Sequences

CONSTANTS Key, NoKey, PrefixMatch, MAX_WORKQUEUE_SIZE

ASSUME RingAssumption ==
  /\ NoKey \notin Key
  /\ PrefixMatch \in SUBSET (Key \X Key)
  /\ \A k \in Key : <<k, k>> \in PrefixMatch
  /\ MAX_WORKQUEUE_SIZE \in Nat
  /\ MAX_WORKQUEUE_SIZE > 1

VARIABLES
  works,   \* the array; a slot never written holds NoKey
  front, rear, size,
  work     \* what the consumer copied out between peak_work and remove_work

vars == <<works, front, rear, size, work>>

Slot == 0..(MAX_WORKQUEUE_SIZE - 1)

\* A defect: the index runs past the end of the array.
Advance_without_wrap(i) == i + 1

Advance(i) == (i + 1) % MAX_WORKQUEUE_SIZE

\* The i-th slot the loops from front to rear visit (i = 0 is front).
Visited(i) == (front + i) % MAX_WORKQUEUE_SIZE

\* How many slots "for (i = front; i != rear; i = (i + 1) % MAX)" visits.
Visits == (rear - front) % MAX_WORKQUEUE_SIZE

-----------------------------------------------------------------------------
\* Nothing calls init_work_queue for the queue in shared memory: the segment
\* is created zero-filled, which is the same state.
init_work_queue ==
  /\ works = [i \in Slot |-> NoKey]
  /\ front = 0
  /\ rear = 0
  /\ size = 0
  /\ work = NoKey

\* Called by nothing.  It waits for the last slot, which insert_work never fills.
is_full == size = MAX_WORKQUEUE_SIZE

is_empty == size = 0

contains_work(k) == \E i \in 0..(Visits - 1) : <<works[Visited(i)], k>> \in PrefixMatch

\* A defect: the queue counts as full one slot later than it does.
no_room_late == size = MAX_WORKQUEUE_SIZE

no_room == size = MAX_WORKQUEUE_SIZE - 1

\* A defect: the duplicate check looks at the oldest work only.
queued_front_only(k) == size > 0 /\ works[front] = k

queued(k) == \E i \in 0..(Visits - 1) : works[Visited(i)] = k

\* A defect: a work is stored before it is known whether there is room.
insert_work_unchecked(k) ==
  /\ ~queued(k)
  /\ works' = [works EXCEPT ![rear] = k]
  /\ rear' = Advance(rear)
  /\ size' = IF no_room THEN size ELSE size + 1
  /\ UNCHANGED <<front, work>>

\* Returns without a change when the array is full or the work is queued.
insert_work(k) ==
  /\ ~no_room
  /\ ~queued(k)
  /\ works' = [works EXCEPT ![rear] = k]
  /\ rear' = Advance(rear)
  /\ size' = size + 1
  /\ UNCHANGED <<front, work>>

peak_work ==
  /\ work = NoKey
  /\ ~is_empty
  /\ work' = works[front]
  /\ UNCHANGED <<works, front, rear, size>>

\* A defect: the newest work is dropped instead of the oldest.
remove_work_newest ==
  /\ work # NoKey
  /\ ~is_empty
  /\ rear' = (rear - 1) % MAX_WORKQUEUE_SIZE
  /\ size' = size - 1
  /\ work' = NoKey
  /\ UNCHANGED <<works, front>>

remove_work ==
  /\ work # NoKey
  /\ ~is_empty
  /\ front' = Advance(front)
  /\ size' = size - 1
  /\ work' = NoKey
  /\ UNCHANGED <<works, rear>>

Next ==
  \/ \E k \in Key : insert_work(k)
  \/ peak_work
  \/ remove_work

\* The consumer is the loop of migration(), which never stops by itself.
Fairness == WF_vars(peak_work) /\ WF_vars(remove_work)

Spec == init_work_queue /\ [][Next]_vars

FairSpec == Spec /\ Fairness

-----------------------------------------------------------------------------
TypeOK ==
  /\ works \in [Slot -> Key \cup {NoKey}]
  /\ front \in Slot
  /\ rear \in Slot
  /\ size \in 0..MAX_WORKQUEUE_SIZE
  /\ work \in Key \cup {NoKey}

\* The counter and the two indices never drift apart: the loops that search
\* from front to rear visit exactly "size" slots, so a full array is never
\* mistaken for an empty one (insert_work keeps one slot unused for this).
LoopsSeeEveryWork == Visits = size

\* "work queue members must not repeat" (work_queue.h:7): no key occupies two
\* of the slots in use, whatever the producers insert between peak and remove.
NoDuplicateWork ==
  \A i, j \in 0..(size - 1) : works[Visited(i)] = works[Visited(j)] => i = j

\* While the consumer works on what peak_work copied out, the same work stays
\* at the front: no insert_work reuses its slot, so remove_work drops exactly
\* the work that was done.
FrontIsHeld == work # NoKey => size > 0 /\ works[front] = work

\* Every work in the queue is eventually copied out by the consumer.
EveryWorkIsTaken == \A k \in Key : (\E i \in 0..(size - 1) : works[Visited(i)] = k) ~> (work = k)

\* The queue the array stands for, oldest work first.
Contents == [i \in 1..size |-> works[Visited(i - 1)]]

Fifo == INSTANCE FifoQueue WITH wq <- Contents

\* Every step of the array is a step of the bounded duplicate-free FIFO queue.
RefinesFifo == Fifo!QueueSpec

=============================================================================
