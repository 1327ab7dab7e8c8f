--------------------------- MODULE LifecycleProofs ---------------------------
(***************************************************************************)
(* Proofs about the lives of the cache (ssd_cache_api.c, shm.c), for every *)
(* number of servers, segments and users, as long as "count" can count the *)
(* users.                                                                  *)
(*                                                                         *)
(* The invariant says of each process what it has got at each point of its *)
(* code (ProcessInv), and of each segment that met no accident that there  *)
(* is at most one server past the check of "running", and that the count,  *)
(* the worker and the name are what this server thinks (SegmentInv).       *)
(***************************************************************************)
EXTENDS Lifecycle, FiniteSetTheorems, TLAPS

ServerPc == {"off", "init", "running?", "spdk", "device", "wakeup", "run", "reset",
             "up", "wait", "shutdown", "detach", "unlink_shm"}
UserPc == {"off", "running?", "spdk", "count", "linked", "unlink", "failed"}

\* A server holds its segment until it has unlinked it, with the name until it
\* has waited for the users; what it set in there is set for good.
HasName    == {"spdk", "device", "wakeup", "run", "reset", "up", "wait"}
HasRunning == {"reset", "up", "wait", "shutdown", "detach", "unlink_shm"}
HasMapped  == {"wakeup", "run"} \cup HasRunning

ProcessInv ==
  /\ \A a \in Server : pc[a] \in ServerPc
  /\ \A u \in User : pc[u] \in UserPc
  /\ \A p \in Process : shared_cache[p] = NULL <=> pc[p] \in {"off", "init"}
  /\ \A a \in migrating : pc[a] \in {"run"} \cup HasRunning
  /\ \A u \in User : pc[u] \in {"count", "linked"} => u \in attached
  /\ \A a \in Server : /\ pc[a] \in HasRunning => own(a).running
                       /\ pc[a] \in HasMapped => own(a).mapped

\* A segment that nobody has is as new.
NewInv ==
  /\ \A s \in Segment \ held : cache[s] = Zeroed
  /\ spoilt \subseteq held

\* The servers that passed the check of "running" on segment s.
passed(s) == {a \in Server : shared_cache[a] = s /\ pc[a] # "running?"}

Alone(s) == \A a, b \in passed(s) : a = b

Named(s) ==
  \A a \in Server :
    shared_cache[a] = s =>
      /\ pc[a] \in HasName => shm = s
      /\ pc[a] = "running?" => shm = s \/ cache[s].running

Counted(s) == cache[s].count = Cardinality(counted(s))

Served(s) == \A u \in User : shared_cache[u] = s /\ pc[u] = "linked" => up(s) # {}

Known(s) ==
  \A a \in Server :
    /\ cache[s].mg_worker = a <=> a \in migrating /\ shared_cache[a] = s
    /\ shared_cache[a] = s /\ pc[a] \in {"detach", "unlink_shm"} => a \notin migrating

Intact(s) == Alone(s) /\ Named(s) /\ Counted(s) /\ Served(s) /\ Known(s)

SegmentInv == \A s \in Sound : Intact(s)

LifeInv == TypeOK /\ ProcessInv /\ NewInv /\ SegmentInv

-----------------------------------------------------------------------------
\* How users count.
LEMMA Counting ==
  ASSUME NEW S \in SUBSET User
  PROVE  /\ Cardinality(S) \in Nat /\ Cardinality(S) <= UINT_MAX
         /\ Cardinality(S) = 0 <=> S = {}
         /\ \A u \in User \ S : /\ Cardinality(S) < UINT_MAX
                                /\ Cardinality(S \cup {u}) = Cardinality(S) + 1
         /\ \A u \in S : Cardinality(S \ {u}) = Cardinality(S) - 1
<1>1. IsFiniteSet(S)
  BY FS_Subset, LifecycleAssumption
<1>2. Cardinality(S) \in Nat /\ (Cardinality(S) = 0 <=> S = {})
  BY <1>1, FS_CardinalityType, FS_EmptySet
<1>3. Cardinality(S) <= Cardinality(User) /\ Cardinality(User) \in Nat
  BY FS_Subset, FS_CardinalityType, LifecycleAssumption
<1>4. Cardinality(S) <= UINT_MAX
  BY <1>2, <1>3, LifecycleAssumption
<1>5. ASSUME NEW u \in User \ S
      PROVE  /\ Cardinality(S) < UINT_MAX
             /\ Cardinality(S \cup {u}) = Cardinality(S) + 1
  <2>1. Cardinality(S \cup {u}) = Cardinality(S) + 1
    BY <1>1, <1>5, FS_AddElement
  <2>2. S \cup {u} \subseteq User
    BY <1>5
  <2>3. Cardinality(S \cup {u}) <= Cardinality(User)
    BY <2>2, FS_Subset, LifecycleAssumption
  <2> QED
    BY <2>1, <2>3, <1>2, <1>3, LifecycleAssumption
<1>6. ASSUME NEW u \in S
      PROVE  Cardinality(S \ {u}) = Cardinality(S) - 1
  BY <1>1, <1>6, FS_RemoveElement
<1> QED
  BY <1>2, <1>4, <1>5, <1>6

LEMMA InitLife ==
  ASSUME Init
  PROVE  LifeInv
<1>1. \A p \in Process : pc[p] = "off" /\ shared_cache[p] = NULL
  BY DEF Init
<1>2. TypeOK
  BY LifecycleAssumption DEF Init, TypeOK, Zeroed
<1>3. ProcessInv
  BY <1>1 DEF Init, ProcessInv, ServerPc, UserPc, HasRunning, HasMapped, Process
<1>4. NewInv
  BY DEF Init, NewInv
<1>5. ASSUME NEW s \in Segment
      PROVE  Intact(s)
  <2>1. s # NULL
    BY LifecycleAssumption
  <2>2. counted(s) = {} /\ passed(s) = {}
    BY <1>1, <2>1 DEF counted, passed, Process
  <2>3. Counted(s)
    BY <2>2, FS_EmptySet DEF Counted, Init, Zeroed
  <2>4. Known(s)
    BY <1>1, <2>1, LifecycleAssumption DEF Known, Init, Zeroed, Process
  <2> QED
    BY <1>1, <2>1, <2>2, <2>3, <2>4 DEF Intact, Alone, Named, Served, Process
<1> QED
  BY <1>2, <1>3, <1>4, <1>5 DEF LifeInv, SegmentInv, Sound

-----------------------------------------------------------------------------
(* Steps of a process that has a segment and keeps it. *)

\* The step of process x, its name and segment kept.
StepsTo(x, l) ==
  /\ pc[x] \notin {"off", "init"} /\ l \notin {"off", "init"}
  /\ pc' = [pc EXCEPT ![x] = l]
  /\ UNCHANGED <<shm, shared_cache>>

\* A step does nothing to the segments of others.
LEMMA ElsewhereKept ==
  ASSUME TypeOK, NEW x \in Process, NEW l, StepsTo(x, l),
         NEW s \in Segment, s # shared_cache[x], Intact(s), cache'[s] = cache[s],
         \A a \in Server \ {x} : a \in migrating' <=> a \in migrating
  PROVE  Intact(s)'
<1>1. /\ \A p \in Process \ {x} : pc'[p] = pc[p]
      /\ shared_cache' = shared_cache /\ shm' = shm
  BY DEF TypeOK, StepsTo
<1>2. counted(s)' = counted(s) /\ up(s)' = up(s) /\ passed(s)' = passed(s)
  BY <1>1 DEF counted, up, passed, Process
<1>3. Alone(s)' /\ Counted(s)'
  BY <1>2 DEF Intact, Alone, Counted
<1>4. Named(s)' /\ Served(s)' /\ Known(s)'
  BY <1>1, <1>2 DEF Intact, Named, Served, Known, Process
<1> QED
  BY <1>3, <1>4 DEF Intact

\* A server that passed the check of "running" goes on, and changes nothing
\* that is shared.
LEMMA QuietServer ==
  ASSUME LifeInv, NEW a \in Server, NEW l \in ServerPc \ {"running?"}, StepsTo(a, l),
         pc[a] # "running?",
         UNCHANGED <<cache, migrating, spoilt>>,
         attached' \subseteq Process, attached' \ {a} = attached \ {a},
         l \in HasName => pc[a] \in HasName,
         l \in HasRunning => pc[a] \in HasRunning,
         l \in HasMapped => pc[a] \in HasMapped,
         a \in migrating => l \in {"run"} \cup HasRunning,
         l \in {"detach", "unlink_shm"} => pc[a] \in {"detach", "unlink_shm"},
         l \notin {"reset", "up", "wait"} => \/ pc[a] \notin {"reset", "up", "wait"}
                                             \/ own(a).count = 0
  PROVE  LifeInv'
<1>0. TypeOK /\ ProcessInv /\ NewInv /\ SegmentInv
  BY DEF LifeInv
<1>1. /\ a \in Process /\ a \notin User
      /\ pc'[a] = l /\ \A p \in Process \ {a} : pc'[p] = pc[p]
      /\ shared_cache' = shared_cache /\ shm' = shm
  BY <1>0, LifecycleAssumption DEF TypeOK, StepsTo, Process
<1>2. TypeOK'
  <2>1. pc' \in [Process -> ServerPc \cup UserPc]
    BY <1>0, <1>1 DEF ProcessInv, TypeOK, StepsTo, Process
  <2> QED
    BY <1>0, <1>1, <2>1 DEF TypeOK, ServerPc, UserPc
<1>3. ProcessInv'
  BY <1>0, <1>1 DEF ProcessInv, StepsTo, Process, own
<1>4. NewInv'
  BY <1>0, <1>1 DEF NewInv, held
<1>5. ASSUME NEW s \in Sound
      PROVE  Intact(s)'
  <2>1. Intact(s) /\ s \in Segment
    BY <1>0 DEF SegmentInv, Sound
  <2>2. CASE s # shared_cache[a]
    BY <1>0, <1>1, <2>1, <2>2, ElsewhereKept
  <2>3. CASE s = shared_cache[a]
    <3>1. counted(s)' = counted(s) /\ passed(s)' = passed(s)
      BY <1>1 DEF counted, passed, Process
    <3>2. Alone(s)' /\ Counted(s)'
      BY <2>1, <3>1 DEF Intact, Alone, Counted
    <3>3. Named(s)'
      BY <1>1, <2>1 DEF Intact, Named, Process
    <3>4. Served(s)'
      <4>1. CASE cache[s].count = 0
        <5>1. Cardinality(counted(s)) = 0
          BY <2>1, <4>1 DEF Intact, Counted
        <5>2. counted(s) \in SUBSET User
          BY DEF counted
        <5>3. counted(s)' = {}
          BY <5>1, <5>2, <3>1, Counting
        <5> QED
          BY <5>3 DEF Served, counted
      <4>2. CASE cache[s].count # 0
        <5>1. up(s)' = up(s) \cup (up(s)' \cap {a})
          BY <1>1, <2>3, <4>2 DEF up, Process, own
        <5> QED
          BY <1>1, <2>1, <5>1 DEF Intact, Served, Process
      <4> QED
        BY <4>1, <4>2
    <3>5. Known(s)'
      BY <1>1, <2>1 DEF Intact, Known, Process
    <3> QED
      BY <3>2, <3>3, <3>4, <3>5 DEF Intact
  <2> QED
    BY <2>2, <2>3
<1> QED
  BY <1>0, <1>2, <1>3, <1>4, <1>5 DEF LifeInv, SegmentInv, Sound

\* A user goes on, and changes nothing that is shared.
LEMMA QuietUser ==
  ASSUME LifeInv, NEW u \in User, NEW l \in UserPc, StepsTo(u, l),
         UNCHANGED <<cache, migrating, spoilt>>,
         attached' \subseteq Process, attached' \ {u} = attached \ {u},
         l \in {"count", "linked"} => u \in attached',
         l \in {"linked", "unlink"} <=> pc[u] \in {"linked", "unlink"},
         l = "linked" => pc[u] = "linked"
  PROVE  LifeInv'
<1>0. TypeOK /\ ProcessInv /\ NewInv /\ SegmentInv
  BY DEF LifeInv
<1>1. /\ u \in Process /\ u \notin Server
      /\ pc'[u] = l /\ \A p \in Process \ {u} : pc'[p] = pc[p]
      /\ shared_cache' = shared_cache /\ shm' = shm
  BY <1>0, LifecycleAssumption DEF TypeOK, StepsTo, Process
<1>2. TypeOK'
  <2>1. pc' \in [Process -> ServerPc \cup UserPc]
    BY <1>0, <1>1 DEF ProcessInv, TypeOK, StepsTo, Process
  <2> QED
    BY <1>0, <1>1, <2>1 DEF TypeOK, ServerPc, UserPc
<1>3. ProcessInv'
  <2>1. \A a \in Server : a \in Process \ {u}
    BY <1>1 DEF Process
  <2>2. \A v \in User : pc'[v] \in {"count", "linked"} => v \in attached'
    BY <1>0, <1>1 DEF ProcessInv, Process
  <2>3. migrating \subseteq Server
    BY <1>0 DEF TypeOK
  <2> QED
    BY <1>0, <1>1, <2>1, <2>2, <2>3 DEF ProcessInv, StepsTo, Process, own
<1>4. NewInv'
  BY <1>0, <1>1 DEF NewInv, held
<1>5. ASSUME NEW s \in Sound
      PROVE  Intact(s)'
  <2>1. Intact(s)
    BY <1>0 DEF SegmentInv
  <2>2. counted(s)' = counted(s) /\ up(s)' = up(s) /\ passed(s)' = passed(s)
    BY <1>1 DEF counted, up, passed, Process
  <2>3. Alone(s)' /\ Counted(s)'
    BY <2>1, <2>2 DEF Intact, Alone, Counted
  <2>4. Named(s)' /\ Served(s)' /\ Known(s)'
    BY <1>1, <2>1, <2>2 DEF Intact, Named, Served, Known, Process
  <2> QED
    BY <2>3, <2>4 DEF Intact
<1> QED
  BY <1>0, <1>2, <1>3, <1>4, <1>5 DEF LifeInv, SegmentInv, Sound

Cell == [running : BOOLEAN, count : 0..UINT_MAX, mg_worker : Server \cup {NULL}, mapped : BOOLEAN]

\* What is spoilt in a segment that is held stays so.
LEMMA SpoiltStays ==
  ASSUME NewInv, UNCHANGED <<shm, shared_cache>>, NEW S, spoils(S), S \subseteq Segment
  PROVE  spoilt' = spoilt \cup (S \cap held)
<1>1. held' = held
  BY DEF held
<1> QED
  BY <1>1 DEF NewInv, spoils

\* A process goes on and writes r into its segment, which stays intact or is
\* spoilt.
LEMMA WriteKeepsLife ==
  ASSUME LifeInv, NEW x \in Process, NEW l, StepsTo(x, l), NEW r \in Cell,
         cache' = [cache EXCEPT ![shared_cache[x]] = r], attached' = attached,
         own(x).running => r.running, own(x).mapped => r.mapped,
         x \in Server => /\ l \in ServerPc
                         /\ l \in HasRunning => r.running
                         /\ l \in HasMapped => r.mapped,
         x \in User => l \in UserPc /\ (l \in {"count", "linked"} => x \in attached),
         migrating' \subseteq Server,
         \A a \in Server \ {x} : a \in migrating' <=> a \in migrating,
         x \in migrating' => l \in {"run"} \cup HasRunning,
         spoilt' \subseteq held, spoilt \subseteq spoilt',
         NEW c, c = shared_cache[x], c \in spoilt' \/ Intact(c)'
  PROVE  LifeInv'
<1>0. TypeOK /\ ProcessInv /\ NewInv /\ SegmentInv
  BY DEF LifeInv
<1>1. /\ shared_cache[x] \in Segment /\ shared_cache[x] \in held
      /\ pc'[x] = l /\ \A p \in Process \ {x} : pc'[p] = pc[p]
      /\ shared_cache' = shared_cache /\ shm' = shm /\ held' = held
      /\ cache'[shared_cache[x]] = r
      /\ \A s \in Segment \ {shared_cache[x]} : cache'[s] = cache[s]
  BY <1>0 DEF TypeOK, ProcessInv, StepsTo, held
<1>2. TypeOK'
  <2>1. pc' \in [Process -> ServerPc \cup UserPc]
    BY <1>0, <1>1 DEF ProcessInv, TypeOK, StepsTo, Process
  <2>2. cache' \in [Segment -> Cell]
    BY <1>0, <1>1 DEF TypeOK, Cell
  <2>3. spoilt' \subseteq Segment
    BY <1>0 DEF held, TypeOK
  <2> QED
    BY <1>0, <1>1, <2>1, <2>2, <2>3 DEF TypeOK, ServerPc, UserPc, Cell
<1>3. ProcessInv'
  <2>1. /\ \A a \in Server : a \in Process
        /\ \A u \in User : u \in Process /\ u \notin Server
    BY LifecycleAssumption DEF Process
  <2>2. \A a \in Server : pc'[a] \in ServerPc
    BY <1>0, <1>1, <2>1 DEF ProcessInv
  <2>3. \A u \in User : /\ pc'[u] \in UserPc
                        /\ pc'[u] \in {"count", "linked"} => u \in attached'
    BY <1>0, <1>1, <2>1 DEF ProcessInv
  <2>4. \A p \in Process : shared_cache'[p] = NULL <=> pc'[p] \in {"off", "init"}
    BY <1>0, <1>1 DEF ProcessInv, StepsTo
  <2>5. \A a \in migrating' : pc'[a] \in {"run"} \cup HasRunning
    BY <1>0, <1>1, <2>1 DEF ProcessInv
  <2>6. \A p \in Process \ {x} : shared_cache[p] \in Segment =>
          /\ own(p).running => own(p)'.running
          /\ own(p).mapped => own(p)'.mapped
    BY <1>1 DEF own
  <2>7. \A a \in Server : pc'[a] \in HasRunning \cup HasMapped => shared_cache[a] \in Segment
    BY <1>0, <2>1, <2>4, <1>1 DEF HasRunning, HasMapped, TypeOK
  <2>8. \A a \in Server : /\ pc'[a] \in HasRunning => own(a)'.running
                          /\ pc'[a] \in HasMapped => own(a)'.mapped
    BY <1>0, <1>1, <2>1, <2>6, <2>7 DEF ProcessInv, own
  <2> QED
    BY <2>2, <2>3, <2>4, <2>5, <2>8 DEF ProcessInv
<1>4. NewInv'
  BY <1>0, <1>1 DEF NewInv
<1>5. ASSUME NEW s \in Sound'
      PROVE  Intact(s)'
  <2>1. s \in Sound /\ s \in Segment /\ Intact(s)
    BY <1>0 DEF SegmentInv, Sound
  <2>2. CASE s # shared_cache[x]
    BY <1>0, <1>1, <2>1, <2>2, ElsewhereKept
  <2>3. CASE s = shared_cache[x]
    BY <2>3 DEF Sound
  <2> QED
    BY <2>2, <2>3
<1> QED
  BY <1>2, <1>3, <1>4, <1>5 DEF LifeInv, SegmentInv

-----------------------------------------------------------------------------
(* The steps of a server on its segment. *)

\* What a server that has a segment knows of it.
LEMMA ServerHas ==
  ASSUME LifeInv, NEW a \in Server, pc[a] \notin {"off", "init"}
  PROVE  /\ a \in Process /\ a \notin User
         /\ shared_cache[a] \in Segment /\ shared_cache[a] # NULL
         /\ own(a) \in Cell
         /\ \A p \in Process : pc[p] \in {"off", "init"} => shared_cache[p] = NULL
         /\ shared_cache[a] \notin spoilt => Intact(shared_cache[a])
<1>1. a \in Process /\ a \notin User
  BY LifecycleAssumption DEF Process
<1>2. shared_cache[a] \in Segment /\ shared_cache[a] # NULL
  BY <1>1 DEF LifeInv, ProcessInv, TypeOK
<1>3. own(a) \in Cell
  BY <1>2 DEF LifeInv, TypeOK, own, Cell
<1> QED
  BY <1>1, <1>2, <1>3 DEF LifeInv, ProcessInv, SegmentInv, Sound

LEMMA NotRunningKeepsLife ==
  ASSUME LifeInv, NEW a \in Server, not_running(a)
  PROVE  LifeInv'
<1> DEFINE c == shared_cache[a]
           S == {c} \cap mapped_by({b \in Server \ {a} : pc[b] # "running?"})
<1>0. /\ pc[a] = "running?" /\ ~cache[c].running
      /\ pc' = [pc EXCEPT ![a] = "spdk"]
      /\ UNCHANGED <<shm, cache, shared_cache, attached, migrating>> /\ spoils(S)
      /\ TypeOK /\ ProcessInv /\ NewInv /\ SegmentInv
  BY DEF not_running, goto, own, LifeInv
<1>1. /\ a \in Process /\ a \notin User /\ c \in Segment /\ c # NULL /\ own(a) \in Cell
      /\ c \notin spoilt => Intact(c)
  BY <1>0, ServerHas
<1>2. StepsTo(a, "spdk")
  BY <1>0 DEF StepsTo
<1>3. /\ pc'[a] = "spdk" /\ \A p \in Process \ {a} : pc'[p] = pc[p]
      /\ spoilt' = spoilt \cup (S \cap held)
      /\ cache' = [cache EXCEPT ![shared_cache[a]] = own(a)]
      /\ c \in held /\ NULL \notin held
  <2>1. S \subseteq Segment
    BY <1>1
  <2>2. spoilt' = spoilt \cup (S \cap held)
    BY <1>0, <2>1, SpoiltStays
  <2>3. c \in held /\ NULL \notin held
    BY <1>1 DEF held
  <2> QED
    BY <1>0, <1>1, <2>2, <2>3 DEF TypeOK, own
<1>4. a \notin migrating
  BY <1>0 DEF ProcessInv, HasRunning
<1>5. ASSUME NEW s, s = c, s \notin spoilt'
      PROVE  Intact(s)'
  <2>1. Intact(s) /\ s \in Segment
    BY <1>1, <1>3, <1>5
  <2>2. \A b \in Server \ {a} : shared_cache[b] = s => pc[b] = "running?"
    BY <1>1, <1>3, <1>5 DEF mapped_by
  <2>3. Alone(s)'
    BY <1>0, <1>3, <2>2 DEF Alone, passed, Process
  <2>4. Named(s)'
    BY <1>0, <1>3, <2>1, <1>5 DEF Intact, Named, Process
  <2>5. counted(s)' = counted(s) /\ up(s)' = up(s)
    BY <1>0, <1>1, <1>3 DEF counted, up, Process
  <2>6. Counted(s)' /\ Served(s)' /\ Known(s)'
    BY <1>0, <1>1, <1>3, <2>1, <2>5 DEF Intact, Counted, Served, Known, Process
  <2> QED
    BY <2>3, <2>4, <2>6 DEF Intact
<1>6. spoilt' \subseteq held /\ spoilt \subseteq spoilt'
  BY <1>0, <1>3 DEF NewInv
<1> HIDE DEF c, S
<1>7. "spdk" \in ServerPc /\ "spdk" \notin HasRunning /\ "spdk" \notin HasMapped
  BY DEF ServerPc, HasRunning, HasMapped
<1> QED
  BY <1>0, <1>1, <1>2, <1>3, <1>4, <1>5, <1>6, <1>7, WriteKeepsLife DEF c, TypeOK

LEMMA InitMappingKeepsLife ==
  ASSUME LifeInv, NEW a \in Server, init_mapping(a)
  PROVE  LifeInv'
<1> DEFINE r == [own(a) EXCEPT !.mapped = TRUE]
<1>0. /\ pc[a] = "device" /\ pc' = [pc EXCEPT ![a] = "wakeup"]
      /\ cache' = [cache EXCEPT ![shared_cache[a]] = r]
      /\ UNCHANGED <<shm, shared_cache, attached, migrating, spoilt>>
      /\ TypeOK /\ ProcessInv /\ NewInv /\ SegmentInv
  BY DEF init_mapping, goto, own, LifeInv
<1>1. /\ a \in Process /\ a \notin User /\ shared_cache[a] \in Segment /\ own(a) \in Cell
      /\ shared_cache[a] \notin spoilt => Intact(shared_cache[a])
  BY <1>0, ServerHas
<1>2. StepsTo(a, "wakeup")
  BY <1>0 DEF StepsTo
<1>3. /\ r \in Cell /\ r.mapped /\ r.running = own(a).running
      /\ r.count = own(a).count /\ r.mg_worker = own(a).mg_worker
  BY <1>1 DEF Cell
<1>4. /\ pc'[a] = "wakeup" /\ \A p \in Process \ {a} : pc'[p] = pc[p]
      /\ cache'[shared_cache[a]] = r
  BY <1>0, <1>1 DEF TypeOK
<1>5. a \notin migrating
  BY <1>0 DEF ProcessInv, HasRunning
<1> HIDE DEF r
<1>6. ASSUME NEW s, s = shared_cache[a], s \notin spoilt
      PROVE  Intact(s)'
  <2>1. Intact(s) /\ s \in Segment /\ cache'[s] = r
    BY <1>1, <1>4, <1>6
  <2>2. counted(s)' = counted(s) /\ up(s)' = up(s) /\ passed(s)' = passed(s)
    BY <1>0, <1>1, <1>4 DEF counted, up, passed, Process
  <2>3. Alone(s)' /\ Counted(s)'
    BY <1>3, <2>1, <2>2, <1>6 DEF Intact, Alone, Counted, own
  <2>4. Named(s)' /\ Served(s)' /\ Known(s)'
    BY <1>0, <1>1, <1>3, <1>4, <2>1, <2>2, <1>6
    DEF Intact, Named, Served, Known, HasName, own, Process
  <2> QED
    BY <2>3, <2>4 DEF Intact
<1>7. "wakeup" \in ServerPc /\ "wakeup" \notin HasRunning
  BY DEF ServerPc, HasRunning
<1>8. migrating \subseteq Server /\ spoilt \subseteq held
  BY <1>0 DEF TypeOK, NewInv
<1> QED
  BY <1>0, <1>1, <1>2, <1>3, <1>5, <1>6, <1>7, <1>8, WriteKeepsLife

LEMMA WakeupKeepsLife ==
  ASSUME LifeInv, NEW a \in Server, wakeup_mg_worker(a)
  PROVE  LifeInv'
<1>0. /\ pc[a] = "wakeup" /\ pc' = [pc EXCEPT ![a] = "run"]
      /\ UNCHANGED <<shm, shared_cache, attached, spoilt>>
      /\ TypeOK /\ ProcessInv /\ NewInv /\ SegmentInv
  BY DEF wakeup_mg_worker, goto, LifeInv
<1>1. /\ a \in Process /\ a \notin User /\ shared_cache[a] \in Segment /\ own(a) \in Cell
      /\ shared_cache[a] \notin spoilt => Intact(shared_cache[a])
  BY <1>0, ServerHas
<1>2. StepsTo(a, "run")
  BY <1>0 DEF StepsTo
<1>5. a \notin migrating /\ a # NULL /\ migrating \subseteq Server /\ own(a).mapped
  BY <1>0, <1>1, LifecycleAssumption DEF ProcessInv, HasRunning, HasMapped, TypeOK
<1>3. PICK r \in Cell :
        /\ cache' = [cache EXCEPT ![shared_cache[a]] = r]
        /\ r.mapped = own(a).mapped /\ r.running = own(a).running /\ r.count = own(a).count
        /\ \/ r.mg_worker = own(a).mg_worker /\ migrating' = migrating
           \/ own(a).mg_worker = NULL /\ r.mg_worker = a /\ migrating' = migrating \cup {a}
  <2>1. CASE UNCHANGED <<cache, migrating>>
    <3>1. cache' = [cache EXCEPT ![shared_cache[a]] = own(a)]
      BY <2>1, <1>0, <1>1 DEF TypeOK, own
    <3> QED
      BY <2>1, <3>1, <1>1
  <2>2. CASE /\ own(a).mg_worker = NULL
             /\ cache' = [cache EXCEPT ![shared_cache[a]].mg_worker = a]
             /\ migrating' = migrating \cup {a}
    <3>1. [own(a) EXCEPT !.mg_worker = a] \in Cell
      BY <1>1 DEF Cell
    <3>2. cache' = [cache EXCEPT ![shared_cache[a]] = [own(a) EXCEPT !.mg_worker = a]]
      BY <2>2 DEF own
    <3> QED
      BY <2>2, <3>1, <3>2, <1>1 DEF Cell
  <2> QED
    BY <2>1, <2>2 DEF wakeup_mg_worker
<1>4. /\ pc'[a] = "run" /\ \A p \in Process \ {a} : pc'[p] = pc[p]
      /\ cache'[shared_cache[a]] = r
  BY <1>0, <1>1, <1>3 DEF TypeOK
<1>6. ASSUME NEW s, s = shared_cache[a], s \notin spoilt
      PROVE  Intact(s)'
  <2>1. Intact(s) /\ s \in Segment /\ cache'[s] = r /\ cache[s] = own(a)
    BY <1>1, <1>4, <1>6 DEF own
  <2>2. counted(s)' = counted(s) /\ up(s)' = up(s) /\ passed(s)' = passed(s)
    BY <1>0, <1>1, <1>4 DEF counted, up, passed, Process
  <2>3. Alone(s)' /\ Counted(s)'
    BY <1>3, <2>1, <2>2 DEF Intact, Alone, Counted
  <2>4. Named(s)' /\ Served(s)'
    BY <1>0, <1>1, <1>3, <1>4, <2>1, <2>2, <1>6 DEF Intact, Named, Served, HasName, Process
  <2>5. Known(s)'
    BY <1>0, <1>1, <1>3, <1>4, <1>5, <2>1, <1>6, LifecycleAssumption
    DEF Intact, Known, Process
  <2> QED
    BY <2>3, <2>4, <2>5 DEF Intact
<1>7. "run" \in ServerPc /\ "run" \notin HasRunning
  BY DEF ServerPc, HasRunning
<1>8. /\ migrating' \subseteq Server /\ spoilt \subseteq held
      /\ \A b \in Server \ {a} : b \in migrating' <=> b \in migrating
  BY <1>0, <1>3, <1>5 DEF NewInv
<1> QED
  BY <1>0, <1>1, <1>2, <1>3, <1>5, <1>6, <1>7, <1>8, WriteKeepsLife

LEMMA SetRunningKeepsLife ==
  ASSUME LifeInv, NEW a \in Server, set_running(a)
  PROVE  LifeInv'
<1> DEFINE r == [own(a) EXCEPT !.running = TRUE]
<1>0. /\ pc[a] = "run" /\ pc' = [pc EXCEPT ![a] = "reset"]
      /\ cache' = [cache EXCEPT ![shared_cache[a]] = r]
      /\ UNCHANGED <<shm, shared_cache, attached, migrating, spoilt>>
      /\ TypeOK /\ ProcessInv /\ NewInv /\ SegmentInv
  BY DEF set_running, goto, own, LifeInv
<1>1. /\ a \in Process /\ a \notin User /\ shared_cache[a] \in Segment /\ own(a) \in Cell
      /\ shared_cache[a] \notin spoilt => Intact(shared_cache[a])
  BY <1>0, ServerHas
<1>2. StepsTo(a, "reset")
  BY <1>0 DEF StepsTo
<1>3. /\ r \in Cell /\ r.running /\ r.mapped = own(a).mapped
      /\ r.count = own(a).count /\ r.mg_worker = own(a).mg_worker
  BY <1>1 DEF Cell
<1>4. /\ pc'[a] = "reset" /\ \A p \in Process \ {a} : pc'[p] = pc[p]
      /\ cache'[shared_cache[a]] = r
  BY <1>0, <1>1 DEF TypeOK
<1>5. own(a).mapped /\ migrating \subseteq Server /\ spoilt \subseteq held
  BY <1>0 DEF ProcessInv, HasMapped, TypeOK, NewInv
<1> HIDE DEF r
<1>6. ASSUME NEW s, s = shared_cache[a], s \notin spoilt
      PROVE  Intact(s)'
  <2>1. Intact(s) /\ s \in Segment /\ cache'[s] = r /\ cache[s] = own(a)
    BY <1>1, <1>4, <1>6 DEF own
  <2>2. counted(s)' = counted(s) /\ passed(s)' = passed(s) /\ up(s) \subseteq up(s)'
    BY <1>0, <1>1, <1>4 DEF counted, up, passed, Process
  <2>3. Alone(s)' /\ Counted(s)'
    BY <1>3, <2>1, <2>2 DEF Intact, Alone, Counted
  <2>4. Named(s)' /\ Served(s)' /\ Known(s)'
    BY <1>0, <1>1, <1>3, <1>4, <2>1, <2>2, <1>6
    DEF Intact, Named, Served, Known, HasName, Process
  <2> QED
    BY <2>3, <2>4 DEF Intact
<1>7. "reset" \in ServerPc /\ "reset" \in HasRunning
  BY DEF ServerPc, HasRunning
<1> QED
  BY <1>0, <1>1, <1>2, <1>3, <1>5, <1>6, <1>7, WriteKeepsLife

LEMMA ResetCountKeepsLife ==
  ASSUME LifeInv, NEW a \in Server, reset_count(a)
  PROVE  LifeInv'
<1> DEFINE r == [own(a) EXCEPT !.count = 0]
           S == {s \in {shared_cache[a]} : counted(s) # {}}
<1>0. /\ pc[a] = "reset" /\ pc' = [pc EXCEPT ![a] = "up"]
      /\ cache' = [cache EXCEPT ![shared_cache[a]] = r]
      /\ UNCHANGED <<shm, shared_cache, attached, migrating>> /\ spoils(S)
      /\ TypeOK /\ ProcessInv /\ NewInv /\ SegmentInv
  BY DEF reset_count, goto, own, LifeInv
<1>1. /\ a \in Process /\ a \notin User /\ shared_cache[a] \in Segment /\ own(a) \in Cell
      /\ shared_cache[a] # NULL
      /\ shared_cache[a] \notin spoilt => Intact(shared_cache[a])
  BY <1>0, ServerHas
<1>2. StepsTo(a, "up")
  BY <1>0 DEF StepsTo
<1>3. /\ r \in Cell /\ r.running = own(a).running /\ r.mapped = own(a).mapped
      /\ r.count = 0 /\ r.mg_worker = own(a).mg_worker
  BY <1>1, LifecycleAssumption DEF Cell
<1>4. /\ pc'[a] = "up" /\ \A p \in Process \ {a} : pc'[p] = pc[p]
      /\ cache'[shared_cache[a]] = r
  BY <1>0, <1>1 DEF TypeOK
<1>5. own(a).mapped /\ own(a).running /\ migrating \subseteq Server
  BY <1>0 DEF ProcessInv, HasMapped, HasRunning, TypeOK
<1>9. spoilt' = spoilt \cup (S \cap held) /\ spoilt \subseteq held /\ shared_cache[a] \in held
  <2>1. S \subseteq Segment
    BY <1>1
  <2>2. spoilt' = spoilt \cup (S \cap held)
    BY <1>0, <2>1, SpoiltStays
  <2> QED
    BY <1>0, <1>1, <2>2 DEF NewInv, held
<1> HIDE DEF r
<1>6. ASSUME NEW s, s = shared_cache[a], s \notin spoilt'
      PROVE  Intact(s)'
  <2>1. Intact(s) /\ s \in Segment /\ cache'[s] = r /\ cache[s] = own(a)
    BY <1>1, <1>4, <1>6, <1>9 DEF own
  <2>2. counted(s)' = counted(s) /\ passed(s)' = passed(s) /\ up(s)' = up(s)
    BY <1>0, <1>1, <1>4 DEF counted, up, passed, Process
  <2>3. counted(s) = {}
    BY <1>6, <1>9
  <2>4. Alone(s)' /\ Counted(s)'
    BY <1>3, <2>1, <2>2, <2>3, FS_EmptySet DEF Intact, Alone, Counted
  <2>5. Named(s)' /\ Served(s)' /\ Known(s)'
    BY <1>0, <1>1, <1>3, <1>4, <2>1, <2>2, <1>6
    DEF Intact, Named, Served, Known, HasName, Process
  <2> QED
    BY <2>4, <2>5 DEF Intact
<1>7. "up" \in ServerPc /\ "up" \in HasRunning
  BY DEF ServerPc, HasRunning
<1>8. spoilt' \subseteq held /\ spoilt \subseteq spoilt'
  BY <1>9
<1> HIDE DEF S
<1> QED
  BY <1>0, <1>1, <1>2, <1>3, <1>5, <1>6, <1>7, <1>8, WriteKeepsLife

\* The thread of the server itself is ended, and no other works on a segment
\* that is sound.
LEMMA ShutdownKeepsLife ==
  ASSUME LifeInv, NEW a \in Server, shutdown_mg_worker(a),
         pc' = [pc EXCEPT ![a] = "detach"],
         migrating' = migrating \ ({a} \cap {own(a).mg_worker}),
         UNCHANGED <<shm, shared_cache, attached>>,
         keeps([cache EXCEPT ![shared_cache[a]].mg_worker = NULL])
  PROVE  LifeInv'
<1> DEFINE r == [own(a) EXCEPT !.mg_worker = NULL]
<1>0. /\ pc[a] = "shutdown" /\ shm' = shm /\ spoils({})
      /\ keeps([cache EXCEPT ![shared_cache[a]] = r])
      /\ TypeOK /\ ProcessInv /\ NewInv /\ SegmentInv
  BY DEF shutdown_mg_worker, own, LifeInv
<1>1. /\ a \in Process /\ a \notin User /\ shared_cache[a] \in Segment /\ own(a) \in Cell
      /\ shared_cache[a] # NULL
      /\ shared_cache[a] \notin spoilt => Intact(shared_cache[a])
  BY <1>0, ServerHas
<1>2. StepsTo(a, "detach") /\ held' = held
  BY <1>0 DEF StepsTo, held
<1>3. /\ r \in Cell /\ r.running = own(a).running /\ r.mapped = own(a).mapped
      /\ r.count = own(a).count /\ r.mg_worker = NULL
  BY <1>1 DEF Cell
<1>9. cache' = [cache EXCEPT ![shared_cache[a]] = r] /\ spoilt' = spoilt /\ spoilt \subseteq held
  <2>1. shared_cache[a] \in held
    BY <1>1 DEF held
  <2>2. \A s \in Segment : cache'[s] = [cache EXCEPT ![shared_cache[a]] = r][s]
    BY <1>0, <1>2, <2>1 DEF keeps, NewInv, TypeOK
  <2>3. cache' = [s \in Segment |-> cache'[s]]
    BY <1>0 DEF keeps
  <2> QED
    BY <1>0, <1>2, <2>2, <2>3 DEF spoils, NewInv, TypeOK
<1>4. /\ pc'[a] = "detach" /\ \A p \in Process \ {a} : pc'[p] = pc[p]
      /\ cache'[shared_cache[a]] = r
  BY <1>0, <1>1, <1>9 DEF TypeOK
<1>5. own(a).mapped /\ own(a).running /\ migrating \subseteq Server
  BY <1>0 DEF ProcessInv, HasMapped, HasRunning, TypeOK
<1> HIDE DEF r
<1>6. ASSUME NEW s, s = shared_cache[a], s \notin spoilt
      PROVE  Intact(s)'
  <2>1. Intact(s) /\ s \in Segment /\ cache'[s] = r /\ cache[s] = own(a)
    BY <1>1, <1>4, <1>6 DEF own
  <2>2. /\ counted(s)' = counted(s) /\ passed(s)' = passed(s)
        /\ up(s)' = up(s)
    BY <1>0, <1>1, <1>4 DEF counted, up, passed, Process
  <2>3. Alone(s)' /\ Counted(s)'
    BY <1>3, <2>1, <2>2 DEF Intact, Alone, Counted
  <2>4. Named(s)' /\ Served(s)'
    BY <1>0, <1>1, <1>3, <1>4, <2>1, <2>2, <1>6 DEF Intact, Named, Served, HasName, Process
  <2>5. a \notin migrating'
    BY <2>1, <1>6 DEF Intact, Known
  <2>6. \A b \in Server \ {a} : b \in migrating => shared_cache[b] # s
    <3>1. a \in passed(s)
      BY <1>0, <1>6 DEF passed
    <3>2. \A b \in migrating : pc[b] # "running?"
      BY <1>0 DEF ProcessInv, HasRunning
    <3> QED
      BY <2>1, <3>1, <3>2 DEF Intact, Alone, passed
  <2>7. Known(s)'
    BY <1>0, <1>3, <2>1, <2>5, <2>6, LifecycleAssumption DEF Known, Process
  <2> QED
    BY <2>3, <2>4, <2>7 DEF Intact
<1>7. "detach" \in ServerPc /\ "detach" \in HasRunning
  BY DEF ServerPc, HasRunning
<1>8. migrating' \subseteq Server /\ \A b \in Server \ {a} : b \in migrating' <=> b \in migrating
  BY <1>5
<1> QED
  BY <1>0, <1>1, <1>2, <1>3, <1>5, <1>6, <1>7, <1>8, <1>9, WriteKeepsLife

\* A user is counted in while its server is up.
LEMMA CountInKeepsLife ==
  ASSUME LifeInv, NEW u \in User, count_in(u)
  PROVE  LifeInv'
<1> DEFINE r == [own(u) EXCEPT !.count = Inc(@)]
           S == {s \in {shared_cache[u]} : up(s) = {}}
<1>0. /\ pc[u] = "count" /\ pc' = [pc EXCEPT ![u] = "linked"]
      /\ cache' = [cache EXCEPT ![shared_cache[u]] = r]
      /\ UNCHANGED <<shm, shared_cache, attached, migrating>> /\ spoils(S)
      /\ TypeOK /\ ProcessInv /\ NewInv /\ SegmentInv
  BY DEF count_in, goto, own, LifeInv
<1>1. u \in Process /\ u \notin Server /\ shared_cache[u] \in Segment /\ own(u) \in Cell
  <2>1. u \in Process /\ u \notin Server
    BY LifecycleAssumption DEF Process
  <2>2. shared_cache[u] \in Segment
    BY <1>0, <2>1 DEF ProcessInv, TypeOK
  <2> QED
    BY <1>0, <2>1, <2>2 DEF TypeOK, own, Cell
<1>2. StepsTo(u, "linked")
  BY <1>0 DEF StepsTo
<1>3. /\ r \in Cell /\ r.running = own(u).running /\ r.mapped = own(u).mapped
      /\ r.count = Inc(own(u).count) /\ r.mg_worker = own(u).mg_worker
  <2>1. \A n \in 0..UINT_MAX : Inc(n) \in 0..UINT_MAX
    BY LifecycleAssumption DEF Inc
  <2>2. own(u).count \in 0..UINT_MAX
    BY <1>1 DEF Cell
  <2>3. Inc(own(u).count) \in 0..UINT_MAX
    BY <2>1, <2>2
  <2> QED
    BY <1>1, <2>3 DEF Cell
<1>4. /\ pc'[u] = "linked" /\ \A p \in Process \ {u} : pc'[p] = pc[p]
      /\ cache'[shared_cache[u]] = r
  BY <1>0, <1>1 DEF TypeOK
<1>5. u \in attached /\ migrating \subseteq Server /\ u \notin migrating
  BY <1>0, <1>1 DEF ProcessInv, TypeOK
<1>8. spoilt' \subseteq held /\ spoilt \subseteq spoilt' /\ spoilt' = spoilt \cup (S \cap held)
      /\ shared_cache[u] \in held
  <2>1. S \subseteq Segment
    BY <1>1
  <2>2. spoilt' = spoilt \cup (S \cap held)
    BY <1>0, <2>1, SpoiltStays
  <2>3. shared_cache[u] \in held
    BY <1>1, LifecycleAssumption DEF held
  <2> QED
    BY <1>0, <2>2, <2>3 DEF NewInv
<1> HIDE DEF r
<1>6. ASSUME NEW s, s = shared_cache[u], s \notin spoilt'
      PROVE  Intact(s)'
  <2>1. s \in Segment /\ cache'[s] = r /\ cache[s] = own(u) /\ up(s) # {}
    BY <1>1, <1>4, <1>6, <1>8 DEF own
  <2>0. Intact(s)
    BY <1>0, <1>6, <1>8, <2>1 DEF SegmentInv, Sound
  <2>2. /\ counted(s)' = counted(s) \cup {u} /\ u \notin counted(s)
        /\ passed(s)' = passed(s) /\ up(s)' = up(s)
    BY <1>0, <1>1, <1>4, <1>6 DEF counted, up, passed, Process
  <2>3. counted(s) \in SUBSET User
    BY DEF counted
  <2>4. /\ Cardinality(counted(s)) < UINT_MAX /\ Cardinality(counted(s)) \in Nat
        /\ Cardinality(counted(s)') = Cardinality(counted(s)) + 1
    BY <2>2, <2>3, Counting
  <2>5. Counted(s)'
    BY <1>3, <2>0, <2>1, <2>4, LifecycleAssumption DEF Intact, Counted, Inc
  <2>6. Alone(s)' /\ Named(s)' /\ Served(s)' /\ Known(s)'
    BY <1>0, <1>1, <1>3, <1>4, <2>0, <2>1, <2>2, <1>6
    DEF Intact, Alone, Named, Served, Known, Process
  <2> QED
    BY <2>5, <2>6 DEF Intact
<1>7. "linked" \in UserPc
  BY DEF UserPc
<1> HIDE DEF S
<1> QED
  BY <1>0, <1>1, <1>2, <1>3, <1>5, <1>6, <1>7, <1>8, WriteKeepsLife

-----------------------------------------------------------------------------
(* The steps after which a process has no segment. *)

\* Segment s, of which x has let go and which then holds C[s], is as it was for
\* the others.
LeftWell(s, x, C) ==
  /\ C[s].count = Cardinality(counted(s) \ {x})
  /\ \A b \in Server : C[s].mg_worker = b <=> b \in migrating \ {x} /\ shared_cache[b] = s
  /\ x \notin up(s)
  /\ \/ shm' = shm \/ shm # s
     \/ \A b \in Server \ {x} :
          shared_cache[b] = s => /\ pc[b] \notin HasName
                                 /\ pc[b] = "running?" => cache[s].running

LEMMA EndKeepsLife ==
  ASSUME LifeInv, NEW x \in Process, NEW l \in {"off", "init"}, l = "init" => x \in Server,
         pc' = [pc EXCEPT ![x] = l], shared_cache' = [shared_cache EXCEPT ![x] = NULL],
         attached' \subseteq Process, attached \ {x} \subseteq attached',
         migrating' = migrating \ {x}, shm' \in {shm, NULL},
         NEW C \in [Segment -> Cell], keeps(C), NEW S, spoils(S),
         \A s \in Segment : C[s].running = cache[s].running /\ C[s].mapped = cache[s].mapped,
         \A s \in Sound \ S : LeftWell(s, x, C)
  PROVE  LifeInv'
<1>0. TypeOK /\ ProcessInv /\ NewInv /\ SegmentInv
  BY DEF LifeInv
<1>1. /\ pc'[x] = l /\ shared_cache'[x] = NULL
      /\ \A p \in Process \ {x} : pc'[p] = pc[p] /\ shared_cache'[p] = shared_cache[p]
      /\ NULL \notin Segment
  BY <1>0, LifecycleAssumption DEF TypeOK
<1>2. /\ \A s \in held' : s # NULL /\ s \in Segment
      /\ \A p \in Process : shared_cache'[p] # NULL => shared_cache'[p] \in held'
      /\ \A s \in Segment : cache'[s] = IF s \in held' THEN C[s] ELSE Zeroed
  <2>1. \A p \in Process : shared_cache'[p] \in Segment \cup {NULL}
    BY <1>0, <1>1 DEF TypeOK
  <2>2. shm' \in Segment \cup {NULL}
    BY <1>0 DEF TypeOK
  <2> QED
    BY <2>1, <2>2 DEF held, keeps
<1>3. TypeOK'
  <2>1. pc' \in [Process -> ServerPc \cup UserPc]
    BY <1>0, <1>1 DEF ProcessInv, TypeOK, Process, ServerPc, UserPc
  <2>2. cache' \in [Segment -> Cell]
    <3>1. Zeroed \in Cell
      BY LifecycleAssumption DEF Zeroed, Cell
    <3>2. \A s \in Segment : cache'[s] \in Cell
      BY <1>2, <3>1
    <3> QED
      BY <3>2 DEF keeps
  <2>3. spoilt' \subseteq Segment
    BY <1>2 DEF spoils
  <2>4. shared_cache' \in [Process -> Segment \cup {NULL}] /\ shm' \in Segment \cup {NULL}
    BY <1>0, <1>1 DEF TypeOK
  <2>5. migrating' \subseteq Server
    BY <1>0 DEF TypeOK
  <2> QED
    BY <2>1, <2>2, <2>3, <2>4, <2>5 DEF TypeOK, ServerPc, UserPc, Cell
<1>4. ProcessInv'
  <2>1. /\ \A a \in Server : a \in Process
        /\ \A u \in User : u \in Process /\ u \notin Server
        /\ migrating \subseteq Server
    BY <1>0, LifecycleAssumption DEF Process, TypeOK
  <2>2. /\ l \in ServerPc /\ l \notin HasRunning /\ l \notin HasMapped
        /\ x \in User => l \in UserPc
    BY <2>1 DEF ServerPc, UserPc, HasRunning, HasMapped
  <2>3. \A a \in Server : pc'[a] \in ServerPc
    BY <1>0, <1>1, <2>1, <2>2 DEF ProcessInv
  <2>4. \A u \in User : /\ pc'[u] \in UserPc
                        /\ pc'[u] \in {"count", "linked"} => u \in attached'
    BY <1>0, <1>1, <2>1, <2>2 DEF ProcessInv
  <2>5. \A p \in Process : shared_cache'[p] = NULL <=> pc'[p] \in {"off", "init"}
    BY <1>0, <1>1 DEF ProcessInv
  <2>6. \A a \in migrating' : pc'[a] \in {"run"} \cup HasRunning
    BY <1>0, <1>1, <2>1 DEF ProcessInv
  <2>7. ASSUME NEW a \in Server \ {x}, pc[a] \in HasRunning \cup HasMapped
        PROVE  own(a)'.running = own(a).running /\ own(a)'.mapped = own(a).mapped
    <3>1. shared_cache'[a] = shared_cache[a] /\ shared_cache[a] # NULL
      BY <1>0, <1>1, <2>1, <2>7 DEF ProcessInv, HasRunning, HasMapped
    <3>2. shared_cache[a] \in Segment /\ shared_cache[a] \in held'
      BY <1>2, <2>1, <3>1
    <3>3. cache'[shared_cache[a]] = C[shared_cache[a]]
      BY <1>2, <3>2
    <3> QED
      BY <3>1, <3>2, <3>3 DEF own
  <2>8. \A a \in Server : /\ pc'[a] \in HasRunning => own(a)'.running
                          /\ pc'[a] \in HasMapped => own(a)'.mapped
    BY <1>0, <1>1, <2>1, <2>2, <2>7 DEF ProcessInv
  <2> QED
    BY <2>3, <2>4, <2>5, <2>6, <2>8 DEF ProcessInv
<1>5. NewInv'
  BY <1>2 DEF NewInv, spoils
<1>6. ASSUME NEW s \in Sound'
      PROVE  Intact(s)'
  <2>0. s \in Segment /\ s # NULL
    BY <1>1 DEF Sound
  <2>1. CASE s \in held'
    <3>1. s \in Sound /\ s \notin S
      BY <1>6, <2>1 DEF Sound, spoils
    <3>2. Intact(s) /\ LeftWell(s, x, C) /\ cache'[s] = C[s]
      BY <1>0, <1>2, <2>0, <2>1, <3>1 DEF SegmentInv
    <3>3. /\ counted(s)' = counted(s) \ {x} /\ passed(s)' \subseteq passed(s)
          /\ up(s)' = up(s)
      BY <1>1, <2>0, <3>2 DEF counted, passed, up, Process, LeftWell
    <3>4. Alone(s)' /\ Counted(s)'
      BY <3>2, <3>3 DEF Intact, Alone, Counted, LeftWell
    <3>5. Served(s)' /\ Known(s)'
      BY <1>1, <2>0, <3>2, <3>3 DEF Intact, Served, Known, LeftWell, Process
    <3>6. Named(s)'
      BY <1>1, <2>0, <3>2 DEF Intact, Named, LeftWell, Process
    <3> QED
      BY <3>4, <3>5, <3>6 DEF Intact
  <2>2. CASE s \notin held'
    <3>1. cache'[s] = Zeroed /\ \A p \in Process : shared_cache'[p] # s
      BY <1>2, <2>0, <2>2
    <3>2. counted(s)' = {} /\ passed(s)' = {}
      BY <3>1 DEF counted, passed, Process
    <3>3. Counted(s)'
      BY <3>1, <3>2, FS_EmptySet DEF Counted, Zeroed
    <3>4. Alone(s)' /\ Named(s)' /\ Served(s)' /\ Known(s)'
      BY <3>1, <3>2, LifecycleAssumption DEF Alone, Named, Served, Known, Zeroed, Process
    <3> QED
      BY <3>3, <3>4 DEF Intact
  <2> QED
    BY <2>1, <2>2
<1> QED
  BY <1>3, <1>4, <1>5, <1>6 DEF LifeInv, SegmentInv

\* It is enough that x leaves as it was a segment for which it did nothing.
LEMMA LeftAlone ==
  ASSUME LifeInv, NEW x \in Process, NEW C, NEW s \in Sound, C[s] = cache[s],
         x \notin counted(s), x \notin up(s), x \notin migrating \/ shared_cache[x] # s,
         \/ shm' = shm \/ shm # s
         \/ \A b \in Server \ {x} :
              shared_cache[b] = s => /\ pc[b] \notin HasName
                                     /\ pc[b] = "running?" => cache[s].running
  PROVE  LeftWell(s, x, C)
<1>1. Intact(s)
  BY DEF LifeInv, SegmentInv
<1>2. counted(s) \ {x} = counted(s)
  OBVIOUS
<1> QED
  BY <1>1, <1>2 DEF Intact, Counted, Known, LeftWell

LEMMA CellsTyped ==
  ASSUME LifeInv
  PROVE  /\ cache \in [Segment -> Cell]
         /\ attached \subseteq Process /\ migrating \subseteq Server
         /\ \A a \in Server : a \in Process /\ a \notin User
         /\ \A u \in User : u \in Process /\ u \notin Server
         /\ NULL \notin Segment
  BY LifecycleAssumption DEF LifeInv, TypeOK, Cell, Process

LEMMA ForceExitKeepsLife ==
  ASSUME LifeInv, NEW a \in Server, force_exit(a)
  PROVE  LifeInv'
<1>0. /\ pc[a] = "off" /\ pc' = [pc EXCEPT ![a] = "init"] /\ shm' = NULL
      /\ UNCHANGED <<shared_cache, attached, migrating>>
      /\ keeps(cache) /\ spoils({shm})
  BY DEF force_exit, goto
<1>1. /\ a \in Process /\ shared_cache[a] = NULL /\ a \notin migrating
      /\ shared_cache \in [Process -> Segment \cup {NULL}]
  BY <1>0, CellsTyped DEF LifeInv, ProcessInv, HasRunning, TypeOK
<1>2. shared_cache' = [shared_cache EXCEPT ![a] = NULL] /\ migrating' = migrating \ {a}
  BY <1>0, <1>1
<1>3. ASSUME NEW s \in Sound \ {shm}
      PROVE  LeftWell(s, a, cache)
  <2>1. shared_cache[a] # s
    BY <1>1, CellsTyped DEF Sound
  <2>2. a \notin counted(s) /\ a \notin up(s)
    BY <2>1 DEF counted, up
  <2> QED
    BY <1>1, <2>1, <2>2, LeftAlone
<1> QED
  BY <1>0, <1>1, <1>2, <1>3, CellsTyped, EndKeepsLife

LEMMA GiveUpKeepsLife ==
  ASSUME LifeInv, NEW a \in Server, give_up(a)
  PROVE  LifeInv'
<1>0. /\ pc[a] \in {"init", "spdk", "device", "running?"}
      /\ pc' = [pc EXCEPT ![a] = "off"] /\ shm' = shm
      /\ shared_cache' = [shared_cache EXCEPT ![a] = NULL]
      /\ attached' = attached \ {a} /\ migrating' = migrating \ {a}
      /\ keeps(cache) /\ spoils({})
  BY DEF give_up, ends
<1>1. a \in Process /\ a \notin User /\ a \notin migrating
  BY <1>0, CellsTyped DEF LifeInv, ProcessInv, HasRunning
<1>3. ASSUME NEW s \in Sound \ {}
      PROVE  LeftWell(s, a, cache)
  <2>2. a \notin counted(s) /\ a \notin up(s)
    BY <1>0, <1>1 DEF counted, up
  <2> QED
    BY <1>0, <1>1, <2>2, LeftAlone
<1> QED
  BY <1>0, <1>1, <1>3, CellsTyped, EndKeepsLife

\* The server is ended by its attempt to cancel the thread of another: it then
\* shared its segment, which is spoilt already.
LEMMA ShutdownEndsKeepsLife ==
  ASSUME LifeInv, NEW a \in Server, shutdown_mg_worker(a),
         own(a).mg_worker \notin {NULL, a}, pc' = [pc EXCEPT ![a] = "off"], ends(a), shm' = shm, keeps(cache)
  PROVE  LifeInv'
<1>0. /\ pc[a] = "shutdown" /\ shm' = shm
      /\ shared_cache' = [shared_cache EXCEPT ![a] = NULL]
      /\ attached' = attached \ {a} /\ migrating' = migrating \ {a}
      /\ keeps(cache) /\ spoils({})
  BY DEF shutdown_mg_worker, ends
<1>1. /\ a \in Process /\ a \notin User /\ shared_cache[a] \in Segment /\ own(a) \in Cell
      /\ shared_cache[a] \notin spoilt => Intact(shared_cache[a])
  BY <1>0, ServerHas
<1>3. shared_cache[a] \in spoilt
  <2> SUFFICES ASSUME shared_cache[a] \notin spoilt PROVE FALSE
    OBVIOUS
  <2> DEFINE s == shared_cache[a]
             b == own(a).mg_worker
  <2>1. b \in Server /\ b # a /\ cache[s].mg_worker = b
    BY <1>1 DEF Cell, own
  <2>2. b \in migrating /\ shared_cache[b] = s
    BY <1>1, <2>1 DEF Intact, Known
  <2>3. pc[b] # "running?"
    BY <2>2 DEF LifeInv, ProcessInv, HasRunning
  <2>4. a \in passed(s) /\ b \in passed(s)
    BY <1>0, <2>1, <2>2, <2>3 DEF passed
  <2> QED
    BY <1>1, <2>1, <2>4 DEF Intact, Alone
<1>4. ASSUME NEW s \in Sound \ {}
      PROVE  LeftWell(s, a, cache)
  <2>1. shared_cache[a] # s
    BY <1>3 DEF Sound
  <2>2. a \notin counted(s) /\ a \notin up(s)
    BY <2>1 DEF counted, up
  <2> QED
    BY <1>0, <1>1, <2>1, <2>2, LeftAlone
<1> QED
  BY <1>0, <1>1, <1>4, CellsTyped, EndKeepsLife

LEMMA UnlinkShmKeepsLife ==
  ASSUME LifeInv, NEW a \in Server, unlink_shm(a)
  PROVE  LifeInv'
<1>0. /\ pc[a] = "unlink_shm" /\ pc' = [pc EXCEPT ![a] = "off"] /\ shm' = NULL
      /\ shared_cache' = [shared_cache EXCEPT ![a] = NULL]
      /\ attached' = attached \ {a} /\ migrating' = migrating \ {a}
      /\ keeps(cache) /\ spoils({shm} \ {shared_cache[a]})
  BY DEF unlink_shm, goto, ends
<1>1. /\ a \in Process /\ a \notin User
      /\ shared_cache[a] \notin spoilt => Intact(shared_cache[a])
  BY <1>0, ServerHas
<1>2. own(a).running
  BY <1>0 DEF LifeInv, ProcessInv, HasRunning
<1>3. ASSUME NEW s \in Sound \ ({shm} \ {shared_cache[a]})
      PROVE  LeftWell(s, a, cache)
  <2>1. a \notin counted(s) /\ a \notin up(s)
    BY <1>0, <1>1 DEF counted, up
  <2>2. CASE s # shared_cache[a]
    BY <1>1, <2>1, <2>2, LeftAlone
  <2>3. CASE s = shared_cache[a]
    <3>1. Intact(s) /\ cache[s].running
      BY <1>1, <1>2, <2>3 DEF Sound, own
    <3>2. a \notin migrating
      BY <1>0, <2>3, <3>1 DEF Intact, Known
    <3>3. \A b \in Server \ {a} : shared_cache[b] = s => pc[b] = "running?"
      BY <1>0, <2>3, <3>1 DEF Intact, Alone, passed
    <3>4. "running?" \notin HasName
      BY DEF HasName
    <3> QED
      BY <1>1, <2>1, <3>1, <3>2, <3>3, <3>4, LeftAlone
  <2> QED
    BY <2>2, <2>3
<1> QED
  BY <1>0, <1>1, <1>3, CellsTyped, EndKeepsLife

\* What a user that has a segment knows of it.
LEMMA UserHas ==
  ASSUME LifeInv, NEW u \in User, pc[u] # "off"
  PROVE  /\ u \in Process /\ u \notin Server /\ u \notin migrating
         /\ pc[u] # "init" /\ pc[u] \in UserPc
         /\ shared_cache[u] \in Segment /\ shared_cache[u] # NULL
         /\ \A s : u \notin up(s)
<1>1. u \in Process /\ u \notin Server
  BY LifecycleAssumption DEF Process
<1>2. pc[u] \in UserPc /\ pc[u] # "init" /\ u \notin migrating
  BY <1>1 DEF LifeInv, ProcessInv, TypeOK, UserPc
<1>3. shared_cache[u] \in Segment /\ shared_cache[u] # NULL
  BY <1>1, <1>2 DEF LifeInv, ProcessInv, TypeOK
<1> QED
  BY <1>1, <1>2, <1>3 DEF up

\* Only a count is written by a user that ends.
LEMMA UserEndKeepsLife ==
  ASSUME LifeInv, NEW u \in User, pc[u] # "off",
         pc' = [pc EXCEPT ![u] = "off"], ends(u), shm' = shm,
         NEW n \in 0..UINT_MAX,
         keeps([cache EXCEPT ![shared_cache[u]].count = n]), NEW S, spoils(S),
         shared_cache[u] \notin spoilt \cup S => n = Cardinality(counted(shared_cache[u]) \ {u})
  PROVE  LifeInv'
<1> DEFINE C == [cache EXCEPT ![shared_cache[u]].count = n]
<1>0. /\ shared_cache' = [shared_cache EXCEPT ![u] = NULL]
      /\ attached' = attached \ {u} /\ migrating' = migrating \ {u}
  BY DEF ends
<1>1. /\ u \in Process /\ u \notin Server /\ u \notin migrating /\ shared_cache[u] \in Segment
      /\ \A s : u \notin up(s)
  BY UserHas
<1>2. /\ C \in [Segment -> Cell] /\ C[shared_cache[u]].count = n
      /\ \A s \in Segment : /\ C[s].running = cache[s].running /\ C[s].mapped = cache[s].mapped
                            /\ C[s].mg_worker = cache[s].mg_worker
      /\ \A s \in Segment \ {shared_cache[u]} : C[s] = cache[s]
  BY <1>1, CellsTyped DEF Cell
<1>5. keeps(C)
  OBVIOUS
<1> HIDE DEF C
<1>3. ASSUME NEW s \in Sound \ S
      PROVE  LeftWell(s, u, C)
  <2>1. CASE s # shared_cache[u]
    <3>1. C[s] = cache[s] /\ u \notin counted(s)
      BY <1>2, <2>1 DEF counted, Sound
    <3> QED
      BY <1>1, <3>1, LeftAlone
  <2>2. CASE s = shared_cache[u]
    <3>1. Known(s)
      BY DEF LifeInv, SegmentInv, Intact
    <3>2. C[s].count = Cardinality(counted(s) \ {u}) /\ C[s].mg_worker = cache[s].mg_worker
      BY <1>2, <2>2 DEF Sound
    <3> QED
      BY <1>1, <3>1, <3>2 DEF LeftWell, Known
  <2> QED
    BY <2>1, <2>2
<1>6. \A s \in Segment : C[s].running = cache[s].running /\ C[s].mapped = cache[s].mapped
  BY <1>2
<1>7. C \in [Segment -> Cell] /\ attached' \subseteq Process /\ attached \ {u} \subseteq attached'
  BY <1>0, <1>2, CellsTyped
<1>8. "off" \in {"off", "init"} /\ ("off" = "init" => u \in Server) /\ shm' \in {shm, NULL}
  OBVIOUS
<1> QED
  BY <1>0, <1>1, <1>3, <1>5, <1>6, <1>7, <1>8, EndKeepsLife

\* A count stays in its range.
LEMMA DecTyped ==
  ASSUME NEW n \in 0..UINT_MAX
  PROVE  Dec(n) \in 0..UINT_MAX
BY LifecycleAssumption DEF Dec

\* The user is one of those that count.
LEMMA CountOutKeepsLife ==
  ASSUME LifeInv, NEW u \in User, count_out(u)
  PROVE  LifeInv'
<1> DEFINE c == shared_cache[u]
           n == Dec(cache[c].count)
<1>0. /\ pc[u] = "unlink" /\ pc' = [pc EXCEPT ![u] = "off"] /\ ends(u) /\ shm' = shm
      /\ spoils({})
  BY DEF count_out, goto
<1>1. c \in Segment
  BY <1>0, UserHas
<1>2. keeps([cache EXCEPT ![shared_cache[u]].count = n])
  BY DEF count_out
<1>3. n \in 0..UINT_MAX
  BY <1>1, CellsTyped, DecTyped DEF Cell
<1>4. ASSUME c \notin spoilt \cup {}
      PROVE  n = Cardinality(counted(c) \ {u})
  <2>1. Counted(c)
    BY <1>1, <1>4 DEF LifeInv, SegmentInv, Intact, Sound
  <2>2. u \in counted(c) /\ counted(c) \in SUBSET User
    BY <1>0 DEF counted
  <2>3. /\ Cardinality(counted(c)) \in Nat /\ Cardinality(counted(c)) # 0
        /\ Cardinality(counted(c) \ {u}) = Cardinality(counted(c)) - 1
    BY <2>2, Counting
  <2> QED
    BY <2>1, <2>3 DEF Counted, Dec
<1> HIDE DEF n, c
<1> QED
  BY <1>0, <1>2, <1>3, <1>4, UserEndKeepsLife DEF c

\* The segment is spoilt.
LEMMA UnlinkUnlinkedKeepsLife ==
  ASSUME LifeInv, NEW u \in User, unlink_unlinked(u)
  PROVE  LifeInv'
<1> DEFINE c == shared_cache[u]
           n == Dec(cache[c].count)
<1>0. /\ pc[u] = "failed" /\ pc' = [pc EXCEPT ![u] = "off"] /\ ends(u) /\ shm' = shm
      /\ spoils({c})
  BY DEF unlink_unlinked, goto
<1>1. c \in Segment
  BY <1>0, UserHas
<1>2. keeps([cache EXCEPT ![shared_cache[u]].count = n])
  BY DEF unlink_unlinked
<1>3. n \in 0..UINT_MAX
  BY <1>1, CellsTyped, DecTyped DEF Cell
<1> HIDE DEF n
<1> QED
  BY <1>0, <1>2, <1>3, UserEndKeepsLife

\* The user does not count.
LEMMA LeaveKeepsLife ==
  ASSUME LifeInv, NEW u \in User, leave(u)
  PROVE  LifeInv'
<1>0. /\ pc[u] = "failed" /\ pc' = [pc EXCEPT ![u] = "off"] /\ shm' = shm
      /\ shared_cache' = [shared_cache EXCEPT ![u] = NULL]
      /\ attached' = attached \ {u} /\ migrating' = migrating \ {u}
      /\ keeps(cache) /\ spoils({})
  BY DEF leave, goto, ends
<1>1. u \in Process /\ u \notin migrating /\ \A s : u \notin up(s)
  BY <1>0, UserHas
<1>2. ASSUME NEW s \in Sound \ {}
      PROVE  LeftWell(s, u, cache)
  <2>1. u \notin counted(s)
    BY <1>0 DEF counted
  <2> QED
    BY <1>0, <1>1, <2>1, LeftAlone
<1> QED
  BY <1>0, <1>1, <1>2, CellsTyped, EndKeepsLife

\* A death spoils the segment of a server, and of a user that counts.
LEMMA CrashKeepsLife ==
  ASSUME LifeInv, NEW p \in Process, crash(p)
  PROVE  LifeInv'
<1> DEFINE S == {s \in {shared_cache[p]} : p \in Server \cup counted(s)}
<1>0. /\ pc' = [pc EXCEPT ![p] = "off"] /\ shm' = shm
      /\ shared_cache' = [shared_cache EXCEPT ![p] = NULL]
      /\ attached' = attached \ {p} /\ migrating' = migrating \ {p}
      /\ keeps(cache) /\ spoils(S)
  BY DEF crash, ends
<1>1. ASSUME NEW s \in Sound \ S
      PROVE  LeftWell(s, p, cache)
  <2>1. shared_cache[p] # s \/ (p \notin Server /\ p \notin counted(s))
    OBVIOUS
  <2>2. p \notin counted(s) /\ p \notin up(s)
    BY <2>1 DEF counted, up
  <2>3. p \notin migrating \/ shared_cache[p] # s
    BY <2>1, CellsTyped
  <2> QED
    BY <1>0, <2>2, <2>3, LeftAlone
<1> HIDE DEF S
<1> QED
  BY <1>0, <1>1, CellsTyped, EndKeepsLife

-----------------------------------------------------------------------------
\* A process maps the segment that has the name, or gets it first.
LEMMA MapKeepsLife ==
  ASSUME LifeInv, NEW x \in Process,
         IF x \in Server THEN pc[x] = "init" ELSE pc[x] = "off",
         pc' = [pc EXCEPT ![x] = "running?"],
         shm' \in Segment, shm # NULL => shm' = shm,
         shared_cache' = [shared_cache EXCEPT ![x] = shm'],
         UNCHANGED <<cache, attached, migrating, spoilt>>
  PROVE  LifeInv'
<1>0. TypeOK /\ ProcessInv /\ NewInv /\ SegmentInv /\ NULL \notin Segment
  BY LifecycleAssumption DEF LifeInv
<1>1. /\ pc'[x] = "running?" /\ shared_cache'[x] = shm' /\ shared_cache[x] = NULL
      /\ \A p \in Process \ {x} : pc'[p] = pc[p] /\ shared_cache'[p] = shared_cache[p]
  BY <1>0 DEF TypeOK, ProcessInv
<1>2. /\ \A a \in Server : a \in Process /\ a \notin User
      /\ \A u \in User : u \in Process /\ u \notin Server
      /\ x \notin migrating
  BY <1>0, CellsTyped DEF ProcessInv, HasRunning
<1>3. TypeOK'
  <2>1. pc' \in [Process -> ServerPc \cup UserPc]
    BY <1>0, <1>1 DEF ProcessInv, TypeOK, Process, ServerPc, UserPc
  <2> QED
    BY <1>0, <2>1 DEF TypeOK, ServerPc, UserPc
<1>4. ProcessInv'
  <2>1. /\ \A a \in Server : pc'[a] \in ServerPc
        /\ \A u \in User : /\ pc'[u] \in UserPc
                           /\ pc'[u] \in {"count", "linked"} => u \in attached'
    BY <1>0, <1>1, <1>2 DEF ProcessInv, ServerPc, UserPc
  <2>2. \A p \in Process : shared_cache'[p] = NULL <=> pc'[p] \in {"off", "init"}
    BY <1>0, <1>1 DEF ProcessInv
  <2>3. \A a \in migrating' : pc'[a] \in {"run"} \cup HasRunning
    BY <1>0, <1>1, <1>2, CellsTyped DEF ProcessInv
  <2>4. \A a \in Server : /\ pc'[a] \in HasRunning => own(a)'.running
                          /\ pc'[a] \in HasMapped => own(a)'.mapped
    BY <1>0, <1>1, <1>2 DEF ProcessInv, own, HasRunning, HasMapped
  <2> QED
    BY <2>1, <2>2, <2>3, <2>4 DEF ProcessInv
<1>5. NewInv'
  <2>1. held \subseteq held'
    BY <1>0, <1>1 DEF held
  <2> QED
    BY <1>0, <2>1 DEF NewInv
<1>6. ASSUME NEW s \in Sound
      PROVE  Intact(s)'
  <2>1. Intact(s) /\ s # NULL
    BY <1>0 DEF SegmentInv, Sound
  <2>2. counted(s)' = counted(s) /\ up(s)' = up(s) /\ passed(s)' = passed(s)
    BY <1>1, <1>2, <2>1 DEF counted, up, passed
  <2>3. Alone(s)' /\ Counted(s)'
    BY <2>1, <2>2 DEF Intact, Alone, Counted
  <2>4. Named(s)'
    BY <1>1, <1>2, <2>1 DEF Intact, Named, HasName
  <2>5. Served(s)' /\ Known(s)'
    BY <1>1, <1>2, <2>1, <2>2 DEF Intact, Served, Known
  <2> QED
    BY <2>3, <2>4, <2>5 DEF Intact
<1> QED
  BY <1>3, <1>4, <1>5, <1>6 DEF LifeInv, SegmentInv, Sound

LEMMA AllocShmKeepsLife ==
  ASSUME LifeInv, NEW a \in Server, alloc_shm(a)
  PROVE  LifeInv'
<1>1. a \in Process /\ (shm = NULL \/ shm \in Segment)
  BY CellsTyped DEF LifeInv, TypeOK
<1>2. shm' \in Segment /\ (shm # NULL => shm' = shm)
  BY <1>1 DEF alloc_shm
<1> QED
  BY <1>1, <1>2, MapKeepsLife DEF alloc_shm, goto

LEMMA LinkShmKeepsLife ==
  ASSUME LifeInv, NEW u \in User, link_shm(u)
  PROVE  LifeInv'
<1>1. u \in Process /\ u \notin Server /\ shm \in Segment
  BY CellsTyped DEF LifeInv, TypeOK, link_shm
<1> QED
  BY <1>1, MapKeepsLife DEF link_shm, goto

-----------------------------------------------------------------------------
\* Each step of a server.
LEMMA ServerKeepsLife ==
  ASSUME LifeInv, NEW a \in Server,
         force_exit(a) \/ init_ssd_cache(a) \/ start_exit(a) \/ exit_ssd_cache(a)
  PROVE  LifeInv'
<1>0. a \in Process /\ attached \subseteq Process
  BY CellsTyped
<1>1. CASE force_exit(a)
  BY <1>1, ForceExitKeepsLife
<1>2. CASE alloc_shm(a)
  BY <1>2, AllocShmKeepsLife
<1>3. CASE give_up(a)
  BY <1>3, GiveUpKeepsLife
<1>4. CASE not_running(a)
  BY <1>4, NotRunningKeepsLife
<1>5. CASE init_spdk(a, "spdk", "device")
  BY <1>0, <1>5, QuietServer
  DEF init_spdk, goto, StepsTo, ServerPc, HasName, HasRunning, HasMapped, LifeInv, ProcessInv
<1>6. CASE init_mapping(a)
  BY <1>6, InitMappingKeepsLife
<1>7. CASE wakeup_mg_worker(a)
  BY <1>7, WakeupKeepsLife
<1>8. CASE set_running(a)
  BY <1>8, SetRunningKeepsLife
<1>9. CASE reset_count(a)
  BY <1>9, ResetCountKeepsLife
<1>10. CASE start_exit(a)
  BY <1>0, <1>10, QuietServer
  DEF start_exit, goto, StepsTo, ServerPc, HasName, HasRunning, HasMapped
<1>11. CASE stop_waiting(a)
  BY <1>0, <1>11, QuietServer
  DEF stop_waiting, goto, StepsTo, ServerPc, HasName, HasRunning, HasMapped
<1>12. CASE shutdown_mg_worker(a)
  BY <1>12, ShutdownKeepsLife, ShutdownEndsKeepsLife DEF shutdown_mg_worker
<1>13. CASE detach(a)
  BY <1>0, <1>13, QuietServer
  DEF detach, goto, StepsTo, ServerPc, HasName, HasRunning, HasMapped
<1>14. CASE unlink_shm(a)
  BY <1>14, UnlinkShmKeepsLife
<1> QED
  BY <1>1, <1>2, <1>3, <1>4, <1>5, <1>6, <1>7, <1>8, <1>9, <1>10, <1>11, <1>12, <1>13, <1>14
  DEF init_ssd_cache, exit_ssd_cache

\* Each step of a user.
LEMMA UserKeepsLife ==
  ASSUME LifeInv, NEW u \in User, UserStep(u)
  PROVE  LifeInv'
<1>0. u \in Process /\ attached \subseteq Process
  BY CellsTyped
<1>1. CASE link_shm(u)
  BY <1>1, LinkShmKeepsLife
<1>2. CASE running(u)
  BY <1>0, <1>2, QuietUser DEF running, goto, StepsTo, UserPc
<1>3. CASE link_fails(u)
  BY <1>0, <1>3, QuietUser DEF link_fails, goto, StepsTo, UserPc
<1>4. CASE init_spdk(u, "spdk", "count")
  BY <1>0, <1>4, QuietUser DEF init_spdk, goto, StepsTo, UserPc
<1>5. CASE count_in(u)
  BY <1>5, CountInKeepsLife
<1>6. CASE start_unlink(u)
  BY <1>0, <1>6, QuietUser DEF start_unlink, goto, StepsTo, UserPc
<1>7. CASE count_out(u)
  BY <1>7, CountOutKeepsLife
<1>8. CASE unlink_unlinked(u)
  BY <1>8, UnlinkUnlinkedKeepsLife
<1>9. CASE leave(u)
  BY <1>9, LeaveKeepsLife
<1> QED
  BY <1>1, <1>2, <1>3, <1>4, <1>5, <1>6, <1>7, <1>8, <1>9 DEF UserStep

LEMMA StutterKeepsLife ==
  ASSUME LifeInv, UNCHANGED vars
  PROVE  LifeInv'
<1>0. /\ shm' = shm /\ cache' = cache /\ shared_cache' = shared_cache
      /\ attached' = attached /\ migrating' = migrating /\ pc' = pc /\ spoilt' = spoilt
  BY DEF vars
<1>1. TypeOK' /\ ProcessInv'
  BY <1>0 DEF LifeInv, TypeOK, ProcessInv, own
<1>2. NewInv'
  BY <1>0 DEF LifeInv, NewInv, held
<1>3. ASSUME NEW s \in Sound
      PROVE  Intact(s)'
  <2>1. Intact(s)
    BY DEF LifeInv, SegmentInv
  <2>2. counted(s)' = counted(s) /\ up(s)' = up(s) /\ passed(s)' = passed(s)
    BY <1>0 DEF counted, up, passed
  <2> QED
    BY <1>0, <2>1, <2>2 DEF Intact, Alone, Named, Counted, Served, Known
<1> QED
  BY <1>0, <1>1, <1>2, <1>3 DEF LifeInv, SegmentInv, Sound

\* The invariant of everything below.
THEOREM LifeIsKept == Spec => []LifeInv
<1>1. Init => LifeInv
  BY InitLife
<1>2. LifeInv /\ [Next]_vars => LifeInv'
  BY ServerKeepsLife, UserKeepsLife, CrashKeepsLife, StutterKeepsLife DEF Next
<1> QED
  BY <1>1, <1>2, PTL DEF Spec

-----------------------------------------------------------------------------
\* The parts of struct cache and what each process does next have their types,
\* and the unsigned count wraps within its width.
THEOREM LifeIsTyped == Spec => []TypeOK
<1>1. LifeInv => TypeOK
  BY DEF LifeInv
<1> QED
  BY <1>1, LifeIsKept, PTL

\* The count that link_ssd_cache and unlink_ssd_cache keep is the number of
\* linked users.
THEOREM CountIsRight == Spec => []UsersAreCounted
<1>1. LifeInv => UsersAreCounted
  BY DEF LifeInv, SegmentInv, Intact, Counted, UsersAreCounted
<1> QED
  BY <1>1, LifeIsKept, PTL

\* exit_ssd_cache takes the cache from no user that it has waited for.
THEOREM LinkedUsersAreServed == Spec => []UsersHaveServer
<1>1. ASSUME LifeInv, NEW u \in User, pc[u] = "linked", shared_cache[u] \in Sound
      PROVE  up(shared_cache[u]) # {} /\ own(u).running /\ own(u).mapped /\ u \in attached
  <2>1. Intact(shared_cache[u]) /\ ProcessInv
    BY <1>1 DEF LifeInv, SegmentInv
  <2>2. up(shared_cache[u]) # {}
    BY <1>1, <2>1 DEF Intact, Served
  <2>3. PICK a \in Server : shared_cache[a] = shared_cache[u] /\ pc[a] \in {"reset", "up", "wait"}
    BY <2>2 DEF up
  <2>4. own(u).running /\ own(u).mapped
    BY <2>1, <2>3 DEF ProcessInv, HasRunning, HasMapped, own
  <2> QED
    BY <1>1, <2>1, <2>2, <2>4 DEF ProcessInv
<1>2. LifeInv => UsersHaveServer
  BY <1>1 DEF UsersHaveServer
<1> QED
  BY <1>2, LifeIsKept, PTL

\* exit_ssd_cache finds the worker that init_ssd_cache has woken up.
THEOREM WorkersStayKnown == Spec => []WorkersAreKnown
<1>1. LifeInv => WorkersAreKnown
  BY DEF LifeInv, SegmentInv, Intact, Known, WorkersAreKnown
<1> QED
  BY <1>1, LifeIsKept, PTL

\* The name leads link_ssd_cache to the one cache that is up.
THEOREM OneServerIsUp == Spec => []NameLeadsToServer
<1>1. ASSUME LifeInv, NEW s \in Sound, up(s) # {}
      PROVE  shm = s /\ Cardinality(up(s)) = 1
  <2>1. Intact(s)
    BY <1>1 DEF LifeInv, SegmentInv
  <2>2. PICK a \in up(s) : TRUE
    BY <1>1
  <2>3. shm = s
    BY <2>1, <2>2 DEF Intact, Named, up, HasName
  <2>4. up(s) = {a}
    BY <2>1, <2>2 DEF Intact, Alone, up, passed
  <2> QED
    BY <2>3, <2>4, FS_Singleton
<1>2. LifeInv => NameLeadsToServer
  BY <1>1 DEF NameLeadsToServer
<1> QED
  BY <1>2, LifeIsKept, PTL

=============================================================================
