--------------------------- MODULE WorkQueueProofs ---------------------------
(***************************************************************************)
(* Proofs about the circular array of dm-cache/lib/work_queue.c, for every *)
(* set of keys and every number of slots.  The inductive invariant ties    *)
(* the three integers together (Visits = size); with it the slots in use   *)
(* are the images of 0..size-1 under Visited, which is injective, and each *)
(* action only adds or drops one end of that range.                        *)
(***************************************************************************)
EXTENDS WorkQueue, SequenceTheorems, TLAPS

M == MAX_WORKQUEUE_SIZE

\* One slot is never used, and every slot in use holds a key.
SlotsInUse ==
  /\ size \in 0..(M - 1)
  /\ \A i \in 0..(size - 1) : works[Visited(i)] \in Key

\* The inductive invariant.
RingInv == TypeOK /\ LoopsSeeEveryWork /\ SlotsInUse /\ NoDuplicateWork /\ FrontIsHeld

-----------------------------------------------------------------------------
\* "%" on the operands that occur here is at most one addition or subtraction.
LEMMA ModuloByCases ==
  ASSUME NEW x \in (1 - M)..(2 * M - 1)
  PROVE  /\ x < 0 => x % M = x + M
         /\ x \in 0..(M - 1) => x % M = x
         /\ x >= M => x % M = x - M
<1>1. M \in Nat /\ M > 1
  BY RingAssumption DEF M
<1>2. CASE x < 0
  BY <1>1, <1>2
<1>3. CASE x \in 0..(M - 1)
  BY <1>1, <1>3
<1>4. CASE x >= M
  BY <1>1, <1>4
<1> QED
  BY <1>1, <1>2, <1>3, <1>4

\* The same for a sum of two indices.
LEMMA ModuloOfSum ==
  ASSUME NEW x \in 0..(2 * M - 1)
  PROVE  x % M = IF x < M THEN x ELSE x - M
<1>1. M \in Nat /\ M > 1
  BY RingAssumption DEF M
<1> QED
  BY <1>1, ModuloByCases

\* The i-th slot from front, without the remainder.
LEMMA VisitedByCases ==
  ASSUME TypeOK, NEW i \in 0..(M - 1)
  PROVE  /\ Visited(i) \in Slot
         /\ Visited(i) = IF front + i < M THEN front + i ELSE front + i - M
<1>1. M \in Nat /\ M > 1 /\ front \in 0..(M - 1)
  BY RingAssumption DEF M, TypeOK, Slot
<1>2. front + i \in (1 - M)..(2 * M - 1) /\ front + i >= 0
  BY <1>1
<1>3. (front + i) % M = IF front + i < M THEN front + i ELSE front + i - M
  BY <1>1, <1>2, ModuloByCases
<1> QED
  BY <1>1, <1>3 DEF Visited, Slot, M

\* The next slot, without the remainder.
LEMMA AdvanceByCases ==
  ASSUME NEW s \in Slot
  PROVE  /\ Advance(s) \in Slot
         /\ Advance(s) = IF s + 1 < M THEN s + 1 ELSE 0
<1>1. M \in Nat /\ M > 1 /\ s \in 0..(M - 1)
  BY RingAssumption DEF M, Slot
<1>2. s + 1 \in (1 - M)..(2 * M - 1) /\ s + 1 >= 0
  BY <1>1
<1>3. (s + 1) % M = IF s + 1 < M THEN s + 1 ELSE s + 1 - M
  BY <1>1, <1>2, ModuloByCases
<1> QED
  BY <1>1, <1>3 DEF Advance, Slot, M

\* What the loops visit, without the remainder.
LEMMA VisitsByCases ==
  ASSUME TypeOK
  PROVE  Visits = IF rear < front THEN rear - front + M ELSE rear - front
<1>1. M \in Nat /\ M > 1 /\ front \in 0..(M - 1) /\ rear \in 0..(M - 1)
  BY RingAssumption DEF M, TypeOK, Slot
<1>2. rear - front \in (1 - M)..(2 * M - 1)
  BY <1>1
<1>3. (rear - front) % M = IF rear < front THEN rear - front + M ELSE rear - front
  BY <1>1, <1>2, ModuloByCases
<1> QED
  BY <1>3 DEF Visits, M

\* Different positions of the queue are different slots.
LEMMA VisitedIsInjective ==
  ASSUME TypeOK, NEW i \in 0..(M - 1), NEW j \in 0..(M - 1), Visited(i) = Visited(j)
  PROVE  i = j
<1>1. M \in Nat /\ front \in 0..(M - 1)
  BY RingAssumption DEF M, TypeOK, Slot
<1>2. Visited(i) = IF front + i < M THEN front + i ELSE front + i - M
  BY VisitedByCases
<1>3. Visited(j) = IF front + j < M THEN front + j ELSE front + j - M
  BY VisitedByCases
<1>4. i \in Int /\ j \in Int /\ 0 <= i /\ i < M /\ 0 <= j /\ j < M
  BY <1>1
<1>5. (IF front + i < M THEN front + i ELSE front + i - M)
        = (IF front + j < M THEN front + j ELSE front + j - M)
  BY <1>2, <1>3
<1> QED
  BY <1>1, <1>4, <1>5

\* The slot insert_work fills is the one after the last slot in use.
LEMMA RearFollowsLast ==
  ASSUME RingInv
  PROVE  Visited(size) = rear
<1>1. M \in Nat /\ front \in 0..(M - 1) /\ rear \in 0..(M - 1) /\ size \in 0..(M - 1) /\ TypeOK
  BY RingAssumption DEF M, RingInv, TypeOK, Slot, SlotsInUse
<1>2. size = IF rear < front THEN rear - front + M ELSE rear - front
  BY <1>1, VisitsByCases DEF RingInv, LoopsSeeEveryWork
<1>3. Visited(size) = IF front + size < M THEN front + size ELSE front + size - M
  BY <1>1, VisitedByCases
<1> QED
  BY <1>1, <1>2, <1>3

-----------------------------------------------------------------------------
\* What insert_work does to the positions of the queue: the old ones keep
\* their work, and the new last one holds k.
LEMMA InsertAppends ==
  ASSUME RingInv, NEW k \in Key, insert_work(k)
  PROVE  /\ TypeOK' /\ LoopsSeeEveryWork' /\ size' = size + 1 /\ size < M - 1
         /\ \A i \in 0..size : Visited(i)' = Visited(i)
         /\ \A i \in 0..(size - 1) : works'[Visited(i)] = works[Visited(i)]
         /\ works'[Visited(size)] = k
         /\ \A i \in 0..(size - 1) : works[Visited(i)] # k
<1>1. M \in Nat /\ M > 1 /\ M = MAX_WORKQUEUE_SIZE /\ Slot = 0..(M - 1)
  BY RingAssumption DEF M, Slot
<1>2. /\ TypeOK /\ front \in Slot /\ rear \in Slot /\ size \in 0..(M - 1)
      /\ works \in [Slot -> Key \cup {NoKey}]
  BY DEF RingInv, TypeOK, SlotsInUse
<1>3. Visits = size
  BY DEF RingInv, LoopsSeeEveryWork
<1>4. /\ size # M - 1 /\ ~queued(k) /\ works' = [works EXCEPT ![rear] = k]
      /\ rear' = Advance(rear) /\ size' = size + 1 /\ front' = front /\ work' = work
  BY <1>1 DEF insert_work, no_room
<1>5. rear' \in Slot /\ rear' = IF rear + 1 < M THEN rear + 1 ELSE 0
  BY <1>2, <1>4, AdvanceByCases
<1>6. works' \in [Slot -> Key \cup {NoKey}]
  BY <1>2, <1>4
<1>7. TypeOK'
  BY <1>1, <1>2, <1>4, <1>5, <1>6 DEF TypeOK
<1>8. LoopsSeeEveryWork'
  <2>1. Visits' = IF rear' < front' THEN rear' - front' + M ELSE rear' - front'
    <3>1. rear' - front' \in (1 - M)..(2 * M - 1)
      BY <1>1, <1>2, <1>4, <1>5
    <3>2. (rear' - front') % M = IF rear' < front' THEN rear' - front' + M ELSE rear' - front'
      BY <1>1, <1>2, <1>4, <1>5, <3>1, ModuloByCases
    <3> QED
      BY <1>1, <3>2 DEF Visits
  <2>2. size = IF rear < front THEN rear - front + M ELSE rear - front
    BY <1>2, <1>3, VisitsByCases
  <2> QED
    BY <1>1, <1>2, <1>4, <1>5, <2>1, <2>2 DEF LoopsSeeEveryWork
<1>9. \A i \in 0..size : Visited(i)' = Visited(i)
  BY <1>4 DEF Visited
<1>10. Visited(size) = rear
  BY RearFollowsLast
<1>11. ASSUME NEW i \in 0..(size - 1)
       PROVE  Visited(i) # rear /\ Visited(i) \in Slot /\ works[Visited(i)] # k
  <2>1. Visited(i) # rear /\ Visited(i) \in Slot
    <3>1. i \in 0..(M - 1) /\ i # size
      BY <1>1, <1>2
    <3> QED
      BY <1>2, <1>10, <3>1, VisitedByCases, VisitedIsInjective
  <2>2. works[Visited(i)] # k
    BY <1>3, <1>4 DEF queued
  <2> QED
    BY <2>1, <2>2
<1>12. works'[Visited(size)] = k
  BY <1>2, <1>4, <1>10
<1>13. size < M - 1
  BY <1>1, <1>2, <1>4
<1>14. \A i \in 0..(size - 1) : works'[Visited(i)] = works[Visited(i)]
  BY <1>2, <1>4, <1>11
<1> QED
  BY <1>4, <1>7, <1>8, <1>9, <1>11, <1>12, <1>13, <1>14

\* What remove_work does to the positions of the queue: each moves up by one.
LEMMA RemoveShifts ==
  ASSUME RingInv, remove_work
  PROVE  /\ TypeOK' /\ LoopsSeeEveryWork' /\ size' = size - 1 /\ size > 0
         /\ works' = works
         /\ \A i \in 0..(size - 2) : Visited(i)' = Visited(i + 1)
<1>1. M \in Nat /\ M > 1 /\ M = MAX_WORKQUEUE_SIZE /\ Slot = 0..(M - 1)
  BY RingAssumption DEF M, Slot
<1>2. /\ TypeOK /\ front \in Slot /\ rear \in Slot /\ size \in 0..(M - 1)
  BY DEF RingInv, TypeOK, SlotsInUse
<1>3. Visits = size
  BY DEF RingInv, LoopsSeeEveryWork
<1>4. /\ size # 0 /\ works' = works /\ rear' = rear
      /\ front' = Advance(front) /\ size' = size - 1 /\ work' = NoKey
  BY DEF remove_work, is_empty
<1>5. front' \in Slot /\ front' = IF front + 1 < M THEN front + 1 ELSE 0
  BY <1>2, <1>4, AdvanceByCases
<1>6. size' \in 0..MAX_WORKQUEUE_SIZE /\ size > 0
  BY <1>1, <1>2, <1>4
<1>7. TypeOK'
  BY <1>2, <1>4, <1>5, <1>6 DEF TypeOK
<1>8. LoopsSeeEveryWork'
  <2>1. Visits' = IF rear' < front' THEN rear' - front' + M ELSE rear' - front'
    <3>1. rear' - front' \in (1 - M)..(2 * M - 1)
      BY <1>1, <1>2, <1>4, <1>5
    <3>2. (rear' - front') % M = IF rear' < front' THEN rear' - front' + M ELSE rear' - front'
      BY <1>1, <1>2, <1>4, <1>5, <3>1, ModuloByCases
    <3> QED
      BY <1>1, <3>2 DEF Visits
  <2>2. size = IF rear < front THEN rear - front + M ELSE rear - front
    BY <1>2, <1>3, VisitsByCases
  <2> QED
    BY <1>1, <1>2, <1>4, <1>5, <2>1, <2>2 DEF LoopsSeeEveryWork
<1>9. ASSUME NEW i \in 0..(size - 2)
      PROVE  Visited(i)' = Visited(i + 1)
  <2>1. i \in 0..(M - 1) /\ i + 1 \in 0..(M - 1)
    BY <1>1, <1>2
  <2>2. Visited(i + 1) = IF front + (i + 1) < M THEN front + (i + 1) ELSE front + (i + 1) - M
    BY <1>2, <2>1, VisitedByCases
  <2>3. front' + i \in 0..(2 * M - 1)
    BY <1>1, <1>5, <2>1
  <2>4. (front' + i) % M = IF front' + i < M THEN front' + i ELSE front' + i - M
    <3>1. PICK x \in 0..(2 * M - 1) : x = front' + i
      BY <2>3
    <3>2. x % M = IF x < M THEN x ELSE x - M
      BY <1>1, ModuloOfSum
    <3> QED
      BY <1>1, <1>5, <2>1, <3>1, <3>2
  <2>5. Visited(i)' = IF front' + i < M THEN front' + i ELSE front' + i - M
    BY <1>1, <2>4 DEF Visited
  <2> QED
    BY <1>1, <1>2, <1>5, <2>1, <2>2, <2>5
<1> QED
  BY <1>4, <1>6, <1>7, <1>8, <1>9

-----------------------------------------------------------------------------
\* Every insert_work keeps the invariant.
LEMMA InsertKeepsRing ==
  ASSUME RingInv, NEW k \in Key, insert_work(k)
  PROVE  RingInv'
<1>1. M \in Nat /\ size \in 0..(M - 1) /\ front' = front /\ work' = work
  BY RingAssumption DEF M, RingInv, SlotsInUse, insert_work
<1>2. /\ TypeOK' /\ LoopsSeeEveryWork' /\ size' = size + 1 /\ size < M - 1
      /\ \A i \in 0..size : Visited(i)' = Visited(i)
      /\ \A i \in 0..(size - 1) : works'[Visited(i)] = works[Visited(i)]
      /\ works'[Visited(size)] = k
      /\ \A i \in 0..(size - 1) : works[Visited(i)] # k
  BY InsertAppends
<1>3. \A i \in 0..size : i # size => i \in 0..(size - 1)
  BY <1>1
<1>4. SlotsInUse'
  <2>1. size' \in 0..(M - 1) /\ size' - 1 = size
    BY <1>1, <1>2
  <2>2. ASSUME NEW i \in 0..size PROVE works'[Visited(i)'] \in Key
    <3>1. \A j \in 0..(size - 1) : works[Visited(j)] \in Key
      BY DEF RingInv, SlotsInUse
    <3>2. Visited(i)' = Visited(i)
      BY <1>2
    <3>3. CASE i = size
      BY <1>2, <3>2, <3>3
    <3>4. CASE i # size
      BY <1>2, <1>3, <3>1, <3>2, <3>4
    <3> QED
      BY <3>3, <3>4
  <2> QED
    BY <2>1, <2>2 DEF SlotsInUse, M
<1>5. NoDuplicateWork'
  <2>1. size' - 1 = size
    BY <1>1, <1>2
  <2>2. ASSUME NEW i \in 0..size, NEW j \in 0..size, works'[Visited(i)'] = works'[Visited(j)']
        PROVE  i = j
    <3>1. works'[Visited(i)] = works'[Visited(j)]
      BY <1>2, <2>2
    <3>2. CASE i # size /\ j # size
      BY <1>2, <1>3, <3>1, <3>2 DEF RingInv, NoDuplicateWork
    <3>3. CASE i = size \/ j = size
      BY <1>2, <1>3, <3>1, <3>3
    <3> QED
      BY <3>2, <3>3
  <2> QED
    BY <2>1, <2>2 DEF NoDuplicateWork
<1>6. FrontIsHeld'
  <2>1. Visited(0) = front /\ 0 \in 0..size
    <3>1. front \in 0..(M - 1) /\ TypeOK /\ 0 \in 0..(M - 1)
      BY <1>1 DEF RingInv, TypeOK, Slot, M
    <3>2. Visited(0) = IF front + 0 < M THEN front + 0 ELSE front + 0 - M
      BY <3>1, VisitedByCases
    <3> QED
      BY <1>1, <3>1, <3>2
  <2>2. ASSUME work # NoKey PROVE size' > 0 /\ works'[front] = work
    <3>1. size > 0 /\ works[front] = work
      BY <2>2 DEF RingInv, FrontIsHeld
    <3>2. 0 \in 0..(size - 1)
      BY <1>1, <3>1
    <3> QED
      BY <1>1, <1>2, <2>1, <3>1, <3>2
  <2> QED
    BY <1>1, <2>2 DEF FrontIsHeld
<1> QED
  BY <1>2, <1>4, <1>5, <1>6 DEF RingInv

\* The consumer's steps keep the invariant.
LEMMA ConsumerKeepsRing ==
  ASSUME RingInv, peak_work \/ remove_work
  PROVE  RingInv'
<1>1. M \in Nat /\ size \in 0..(M - 1) /\ TypeOK
  BY RingAssumption DEF M, RingInv, SlotsInUse
<1>2. CASE peak_work
  <2>1. /\ works' = works /\ front' = front /\ rear' = rear /\ size' = size
        /\ work' = works[front] /\ size # 0
    BY <1>2 DEF peak_work, is_empty
  <2>2. \A i : Visited(i)' = Visited(i)
    BY <2>1 DEF Visited
  <2>3. TypeOK'
    BY <2>1 DEF RingInv, TypeOK
  <2>4. LoopsSeeEveryWork' /\ SlotsInUse' /\ NoDuplicateWork'
    BY <2>1, <2>2 DEF RingInv, LoopsSeeEveryWork, Visits, SlotsInUse, NoDuplicateWork, M
  <2>5. FrontIsHeld'
    BY <1>1, <2>1 DEF FrontIsHeld
  <2> QED
    BY <2>3, <2>4, <2>5 DEF RingInv
<1>3. CASE remove_work
  <2>1. /\ TypeOK' /\ LoopsSeeEveryWork' /\ size' = size - 1 /\ size > 0
        /\ works' = works /\ \A i \in 0..(size - 2) : Visited(i)' = Visited(i + 1)
    BY <1>3, RemoveShifts
  <2>2. size' - 1 = size - 2 /\ size' \in 0..(M - 1)
    BY <1>1, <2>1
  <2>3. \A i \in 0..(size - 2) : i + 1 \in 0..(size - 1) /\ i \in Int
    BY <1>1
  <2>4. SlotsInUse'
    BY <2>1, <2>2, <2>3 DEF RingInv, SlotsInUse, M
  <2>5. NoDuplicateWork'
    <3>1. ASSUME NEW i \in 0..(size - 2), NEW j \in 0..(size - 2),
                 works'[Visited(i)'] = works'[Visited(j)']
          PROVE  i = j
      <4>1. works[Visited(i + 1)] = works[Visited(j + 1)]
        BY <2>1, <3>1
      <4>2. i + 1 = j + 1
        BY <2>3, <4>1 DEF RingInv, NoDuplicateWork
      <4> QED
        BY <2>3, <4>2
    <3> QED
      BY <2>2, <3>1 DEF NoDuplicateWork
  <2>6. FrontIsHeld'
    BY <1>3 DEF remove_work, FrontIsHeld
  <2> QED
    BY <2>1, <2>4, <2>5, <2>6 DEF RingInv
<1> QED
  BY <1>2, <1>3

\* The zero-filled queue satisfies the invariant.
LEMMA InitRing ==
  ASSUME init_work_queue
  PROVE  RingInv
<1>1. M \in Nat /\ M > 1 /\ M = MAX_WORKQUEUE_SIZE /\ Slot = 0..(M - 1)
  BY RingAssumption DEF M, Slot
<1>2. front = 0 /\ rear = 0 /\ size = 0 /\ work = NoKey /\ works = [i \in Slot |-> NoKey]
  BY DEF init_work_queue
<1>3. 0 \in 0..(M - 1) /\ 0 \in 0..MAX_WORKQUEUE_SIZE /\ 0..(0 - 1) = {}
  BY <1>1
<1>4. TypeOK
  BY <1>1, <1>2, <1>3 DEF TypeOK
<1>5. Visits = 0
  BY <1>1, <1>2, <1>4, VisitsByCases
<1> QED
  BY <1>1, <1>2, <1>3, <1>4, <1>5
     DEF RingInv, LoopsSeeEveryWork, SlotsInUse, NoDuplicateWork, FrontIsHeld

\* The invariant is inductive.
LEMMA RingIsInductive == RingInv /\ [Next]_vars => RingInv'
<1> SUFFICES ASSUME RingInv, [Next]_vars PROVE RingInv'
  OBVIOUS
<1>1. ASSUME NEW k \in Key, insert_work(k) PROVE RingInv'
  BY <1>1, InsertKeepsRing
<1>2. CASE peak_work \/ remove_work
  BY <1>2, ConsumerKeepsRing
<1>3. CASE UNCHANGED vars
  BY <1>3 DEF vars, RingInv, TypeOK, LoopsSeeEveryWork, Visits, SlotsInUse, Visited,
              NoDuplicateWork, FrontIsHeld, Slot, M
<1> QED
  BY <1>1, <1>2, <1>3 DEF Next

\* For every number of slots and every set of keys: the counter agrees with
\* the indices, no work is queued twice and the work the consumer holds stays
\* at the front, whatever the producers insert meanwhile.
THEOREM RingIsSound == Spec => [](LoopsSeeEveryWork /\ NoDuplicateWork /\ FrontIsHeld)
<1>1. init_work_queue => RingInv
  BY InitRing
<1>2. RingInv /\ [Next]_vars => RingInv'
  BY RingIsInductive
<1>3. RingInv => LoopsSeeEveryWork /\ NoDuplicateWork /\ FrontIsHeld
  BY DEF RingInv
<1> QED
  BY <1>1, <1>2, <1>3, PTL DEF Spec

\* Indices, counter and slots keep their types: no index runs past the array.
THEOREM RingIsTyped == Spec => []TypeOK
<1>1. init_work_queue => RingInv
  BY InitRing
<1>2. RingInv /\ [Next]_vars => RingInv'
  BY RingIsInductive
<1>3. RingInv => TypeOK
  BY DEF RingInv
<1> QED
  BY <1>1, <1>2, <1>3, PTL DEF Spec

\* insert_work never stores a work that is queued (work_queue.h:7).
THEOREM WorksDoNotRepeat == Spec => []NoDuplicateWork
  BY RingIsSound, PTL

\* No insert_work touches the slot of the work that do_migration_work is doing
\* between peak_work and remove_work.
THEOREM FrontStaysHeld == Spec => []FrontIsHeld
  BY RingIsSound, PTL

-----------------------------------------------------------------------------
\* The array stands for a sequence of "size" keys.
LEMMA ContentsIsQueue == RingInv => Contents \in Seq(Key) /\ Len(Contents) = size
<1> SUFFICES ASSUME RingInv PROVE Contents \in Seq(Key) /\ Len(Contents) = size
  OBVIOUS
<1>1. size \in Nat
  BY RingAssumption DEF RingInv, SlotsInUse, M
<1>2. ASSUME NEW i \in 1..size PROVE works[Visited(i - 1)] \in Key
  <2>1. i - 1 \in 0..(size - 1)
    BY <1>1
  <2> QED
    BY <2>1 DEF RingInv, SlotsInUse
<1>3. Contents \in [1..size -> Key]
  BY <1>2 DEF Contents
<1> QED
  BY <1>1, <1>3

\* The same after a step.
LEMMA ContentsStaysQueue == RingInv' => Contents' \in Seq(Key) /\ Len(Contents') = size'
<1> DEFINE Queue == Contents \in Seq(Key) /\ Len(Contents) = size
<1>1. RingInv => Queue
  BY ContentsIsQueue
<1> HIDE DEF Queue
<1>2. RingInv' => Queue'
  BY <1>1, PTL
<1> QED
  BY <1>2 DEF Queue

\* insert_work appends to what the array stands for.
LEMMA InsertRefines ==
  ASSUME RingInv, NEW k \in Key, insert_work(k)
  PROVE  Fifo!insert_work(k)
<1>1. RingInv'
  BY InsertKeepsRing
<1>2. Contents \in Seq(Key) /\ Len(Contents) = size
  BY ContentsIsQueue
<1>3. Contents' \in Seq(Key) /\ Len(Contents') = size'
  BY <1>1, ContentsStaysQueue
<1>4. /\ size' = size + 1 /\ size < M - 1
      /\ \A i \in 0..size : Visited(i)' = Visited(i)
      /\ \A i \in 0..(size - 1) : works'[Visited(i)] = works[Visited(i)]
      /\ works'[Visited(size)] = k
      /\ \A i \in 0..(size - 1) : works[Visited(i)] # k
  BY InsertAppends
<1>5. size \in Nat /\ M \in Nat /\ M = MAX_WORKQUEUE_SIZE
  BY RingAssumption DEF RingInv, SlotsInUse, M
<1>6. Contents' = Append(Contents, k)
  <2>1. /\ Append(Contents, k) \in Seq(Key) /\ Len(Append(Contents, k)) = size + 1
        /\ \A i \in 1..size : Append(Contents, k)[i] = Contents[i]
        /\ Append(Contents, k)[size + 1] = k
    BY <1>2, <1>5
  <2>2. ASSUME NEW i \in 1..(size + 1) PROVE Contents'[i] = Append(Contents, k)[i]
    <3>1. Contents'[i] = works'[Visited(i - 1)]
      <4>1. i - 1 \in 0..size /\ i \in 1..size'
        BY <1>4, <1>5
      <4>2. Contents' = [j \in 1..size' |-> works'[Visited(j - 1)']]
        BY DEF Contents
      <4> QED
        BY <1>4, <4>1, <4>2
    <3>2. CASE i = size + 1
      BY <1>4, <1>5, <2>1, <3>1, <3>2
    <3>3. CASE i # size + 1
      <4>1. i \in 1..size /\ i - 1 \in 0..(size - 1)
        BY <1>5, <3>3
      <4>2. Contents[i] = works[Visited(i - 1)]
        BY <4>1 DEF Contents
      <4> QED
        BY <1>4, <2>1, <3>1, <4>1, <4>2
    <3> QED
      BY <3>2, <3>3
  <2> QED
    BY <1>3, <1>4, <2>1, <2>2, SeqEqual
<1>7. ~Fifo!no_room /\ ~Fifo!queued(k)
  <2>1. ~Fifo!no_room
    BY <1>2, <1>4, <1>5 DEF Fifo!no_room
  <2>2. ASSUME NEW i \in 1..size PROVE Contents[i] # k
    <3>1. i - 1 \in 0..(size - 1)
      BY <1>5
    <3> QED
      BY <1>4, <3>1 DEF Contents
  <2> QED
    BY <1>2, <2>1, <2>2 DEF Fifo!queued
<1>8. work' = work
  BY DEF insert_work
<1> QED
  BY <1>6, <1>7, <1>8 DEF Fifo!insert_work

\* peak_work copies out the head of what the array stands for.
LEMMA PeakRefines ==
  ASSUME RingInv, peak_work
  PROVE  Fifo!peak_work
<1>1. Contents \in Seq(Key) /\ Len(Contents) = size /\ size \in Nat /\ size # 0
  BY ContentsIsQueue, RingAssumption DEF RingInv, SlotsInUse, M, peak_work, is_empty
<1>2. Head(Contents) = works[front]
  <2>1. Head(Contents) = Contents[1] /\ 1 \in 1..size
    BY <1>1
  <2>2. Contents[1] = works[Visited(0)]
    BY <2>1 DEF Contents
  <2>3. Visited(0) = front
    <3>1. /\ front \in 0..(M - 1) /\ TypeOK /\ 0 \in 0..(M - 1) /\ M \in Nat
      BY RingAssumption DEF RingInv, TypeOK, Slot, M
    <3>2. Visited(0) = IF front + 0 < M THEN front + 0 ELSE front + 0 - M
      BY <3>1, VisitedByCases
    <3> QED
      BY <3>1, <3>2
  <2> QED
    BY <2>1, <2>2, <2>3
<1>3. Contents' = Contents
  BY DEF Contents, peak_work, Visited
<1>4. Contents # << >>
  BY <1>1
<1> QED
  BY <1>2, <1>3, <1>4 DEF peak_work, Fifo!peak_work, Fifo!is_empty

\* remove_work drops the head of what the array stands for.
LEMMA RemoveRefines ==
  ASSUME RingInv, remove_work
  PROVE  Fifo!remove_work
<1>1. /\ Contents \in Seq(Key) /\ Len(Contents) = size /\ size \in Nat /\ size # 0
      /\ work # NoKey /\ work' = NoKey
  BY ContentsIsQueue, RingAssumption DEF RingInv, SlotsInUse, M, remove_work, is_empty
<1>2. /\ size' = size - 1 /\ works' = works
      /\ \A i \in 0..(size - 2) : Visited(i)' = Visited(i + 1)
  BY RemoveShifts
<1>3. Contents # << >> /\ Head(Contents) = Contents[1] /\ 1 \in 1..size
  BY <1>1
<1>4. Head(Contents) = work
  <2>1. Contents[1] = works[Visited(0)]
    BY <1>3 DEF Contents
  <2>2. Visited(0) = front
    <3>1. /\ front \in 0..(M - 1) /\ TypeOK /\ 0 \in 0..(M - 1) /\ M \in Nat
      BY RingAssumption DEF RingInv, TypeOK, Slot, M
    <3>2. Visited(0) = IF front + 0 < M THEN front + 0 ELSE front + 0 - M
      BY <3>1, VisitedByCases
    <3> QED
      BY <3>1, <3>2
  <2> QED
    BY <1>1, <1>3, <2>1, <2>2 DEF RingInv, FrontIsHeld
<1>5. Contents' = Tail(Contents)
  <2>1. /\ Tail(Contents) \in Seq(Key) /\ Len(Tail(Contents)) = size - 1
        /\ \A i \in 1..(size - 1) : Tail(Contents)[i] = Contents[i + 1]
    BY <1>1, <1>3
  <2>2. Contents' \in Seq(Key) /\ Len(Contents') = size'
    BY ConsumerKeepsRing, ContentsStaysQueue
  <2>3. ASSUME NEW i \in 1..(size - 1) PROVE Contents'[i] = Tail(Contents)[i]
    <3>1. i - 1 \in 0..(size - 2) /\ i \in 1..size' /\ i + 1 \in 1..size /\ (i - 1) + 1 = i
          /\ (i + 1) - 1 = i
      BY <1>1, <1>2
    <3>2. Contents' = [j \in 1..size' |-> works'[Visited(j - 1)']]
      BY DEF Contents
    <3>3. Contents'[i] = works[Visited((i - 1) + 1)]
      BY <1>2, <3>1, <3>2
    <3>4. Contents[i + 1] = works[Visited((i + 1) - 1)]
      BY <3>1 DEF Contents
    <3> QED
      BY <2>1, <3>1, <3>3, <3>4
  <2> QED
    BY <1>2, <2>1, <2>2, <2>3, SeqEqual
<1> QED
  BY <1>1, <1>3, <1>4, <1>5 DEF Fifo!remove_work, Fifo!is_empty

\* The circular array implements the bounded duplicate-free FIFO queue that
\* work_queue.h promises, for every number of slots and every set of keys.
THEOREM RingImplementsFifo == Spec => RefinesFifo
<1>1. init_work_queue => Fifo!QueueInit
  <2>1. ASSUME size = 0 PROVE Contents = << >>
    BY <2>1 DEF Contents
  <2> QED
    BY <2>1 DEF init_work_queue, Fifo!QueueInit
<1>2. RingInv /\ [Next]_vars => [Fifo!QueueNext]_(Fifo!queueVars)
  <2> SUFFICES ASSUME RingInv, [Next]_vars PROVE [Fifo!QueueNext]_(Fifo!queueVars)
    OBVIOUS
  <2>1. ASSUME NEW k \in Key, insert_work(k) PROVE Fifo!QueueNext
    BY <2>1, InsertRefines DEF Fifo!QueueNext
  <2>2. CASE peak_work
    BY <2>2, PeakRefines DEF Fifo!QueueNext
  <2>3. CASE remove_work
    BY <2>3, RemoveRefines DEF Fifo!QueueNext
  <2>4. CASE UNCHANGED vars
    BY <2>4 DEF vars, Fifo!queueVars, Contents, Visited
  <2> QED
    BY <2>1, <2>2, <2>3, <2>4 DEF Next
<1>3. init_work_queue => RingInv
  BY InitRing
<1>4. RingInv /\ [Next]_vars => RingInv'
  BY RingIsInductive
<1> QED
  BY <1>1, <1>2, <1>3, <1>4, PTL DEF Spec, RefinesFifo, Fifo!QueueSpec

=============================================================================
