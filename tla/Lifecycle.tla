------------------------------ MODULE Lifecycle ------------------------------
(***************************************************************************)
(* dm-cache/lib/ssd_cache_api.c and shm.c: how servers (admins) create,    *)
(* run and remove the shared cache, and users link to it and unlink from   *)
(* it, each in a process of its own, any of which may die.                 *)
(*                                                                         *)
(* A server is examples/8_command_line.c: it forces out what was left,     *)
(* initialises, runs and exits.  A user is its client or the fio engine    *)
(* ssd-cache-tester, which unlinks even if it could not link.  A step is   *)
(* what happens between two accesses to what is shared: the name of the    *)
(* segment, and the fields of struct cache in it.                          *)
(*                                                                         *)
(* What the code does not guard against is not forbidden here: "spoilt"    *)
(* collects the segments that met one of the named accidents.              *)
(***************************************************************************)
EXTENDS Integers, FiniteSets

CONSTANTS
  Server, User,
  Segment,       \* the shared-memory objects; one that nobody has is used again
  NULL,          \* no segment, no process
  UINT_MAX       \* "count" is unsigned and wraps

Process == Server \cup User

ASSUME LifecycleAssumption ==
  /\ Server \cap User = {}
  /\ NULL \notin Segment \cup Process
  /\ UINT_MAX \in Nat
  /\ IsFiniteSet(User) /\ Cardinality(User) <= UINT_MAX

VARIABLES
  shm,           \* the segment with the name SHM_CACHE_NAME
  cache,         \* struct cache in each segment
  shared_cache,  \* of each process: the segment it has mapped
  attached,      \* the processes attached to the SSD (init_spdk)
  migrating,     \* the processes whose migration thread runs
  pc,            \* of each process: what it does next
  spoilt         \* history: segments that met an accident

vars == <<shm, cache, shared_cache, attached, migrating, pc, spoilt>>

\* A segment as ftruncate leaves it.
Zeroed == [running |-> FALSE, count |-> 0, mg_worker |-> NULL, mapped |-> FALSE]

Inc(n) == IF n = UINT_MAX THEN 0 ELSE n + 1

\* A defect: the count does not wrap.
Dec_below(n) == n - 1

Dec(n) == IF n = 0 THEN UINT_MAX ELSE n - 1

-----------------------------------------------------------------------------
goto(p, from, to) ==
  /\ pc[p] = from
  /\ pc' = [pc EXCEPT ![p] = to]

\* The segment of p.
own(p) == cache[shared_cache[p]]

\* The users that count in segment s.
counted(s) == {u \in User : shared_cache[u] = s /\ pc[u] \in {"linked", "unlink"}}

\* The servers that keep the cache in s running.
up(s) == {a \in Server : shared_cache[a] = s /\ pc[a] \in {"reset", "up", "wait"}}

\* A segment is kept as long as it has its name or is mapped.
held == ({shm} \cup {shared_cache[p] : p \in Process}) \ {NULL}

keeps(C) == cache' = [s \in Segment |-> IF s \in held' THEN C[s] ELSE Zeroed]

spoils(S) == spoilt' = (spoilt \cup S) \cap held'

mapped_by(P) == {shared_cache[p] : p \in P} \ {NULL}

\* What the kernel does when a process ends.
ends(p) ==
  /\ shared_cache' = [shared_cache EXCEPT ![p] = NULL]
  /\ attached' = attached \ {p}
  /\ migrating' = migrating \ {p}

Init ==
  /\ shm = NULL
  /\ cache = [s \in Segment |-> Zeroed]
  /\ shared_cache = [p \in Process |-> NULL]
  /\ attached = {} /\ migrating = {}
  /\ pc = [p \in Process |-> "off"]
  /\ spoilt = {}

-----------------------------------------------------------------------------
(* init_ssd_cache. *)

\* force_exit_ssd_cache by a new process: there is no worker to shut down, as
\* shared_cache is null, whoever runs the cache that loses its name.
force_exit(a) ==
  /\ goto(a, "off", "init")
  /\ shm' = NULL
  /\ UNCHANGED <<shared_cache, attached, migrating>>
  /\ keeps(cache) /\ spoils({shm})

\* shm_open with O_CREAT: a new segment unless the name exists.
alloc_shm(a) ==
  /\ goto(a, "init", "running?")
  /\ shm' \in IF shm = NULL THEN Segment \ held ELSE {shm}
  /\ shared_cache' = [shared_cache EXCEPT ![a] = shm']
  /\ UNCHANGED <<cache, attached, migrating, spoilt>>

\* A failure of init_ssd_cache; nothing is undone but by the end of the process.
give_up(a) ==
  /\ \/ pc[a] \in {"init", "spdk", "device"}
     \/ pc[a] = "running?" /\ own(a).running
  /\ pc' = [pc EXCEPT ![a] = "off"]
  /\ ends(a) /\ UNCHANGED shm
  /\ keeps(cache) /\ spoils({})

\* The lock of the state is not held: two servers may pass.
not_running(a) ==
  /\ goto(a, "running?", "spdk")
  /\ ~own(a).running
  /\ UNCHANGED <<shm, cache, shared_cache, attached, migrating>>
  /\ spoils({shared_cache[a]} \cap mapped_by({b \in Server \ {a} : pc[b] # "running?"}))

init_spdk(p, from, to) ==
  /\ goto(p, from, to)
  /\ attached' = attached \cup {p}
  /\ UNCHANGED <<shm, cache, shared_cache, migrating, spoilt>>

init_mapping(a) ==
  /\ goto(a, "device", "wakeup")
  /\ cache' = [cache EXCEPT ![shared_cache[a]].mapped = TRUE]
  /\ UNCHANGED <<shm, shared_cache, attached, migrating, spoilt>>

\* The result is not looked at: the cache also runs without a worker.
wakeup_mg_worker(a) ==
  /\ goto(a, "wakeup", "run")
  /\ \/ UNCHANGED <<cache, migrating>>
     \/ /\ own(a).mg_worker = NULL
        /\ cache' = [cache EXCEPT ![shared_cache[a]].mg_worker = a]
        /\ migrating' = migrating \cup {a}
  /\ UNCHANGED <<shm, shared_cache, attached, spoilt>>

set_running(a) ==
  /\ goto(a, "run", "reset")
  /\ cache' = [cache EXCEPT ![shared_cache[a]].running = TRUE]
  /\ UNCHANGED <<shm, shared_cache, attached, migrating, spoilt>>

\* Only now, when users may have linked already.
reset_count(a) ==
  /\ goto(a, "reset", "up")
  /\ cache' = [cache EXCEPT ![shared_cache[a]].count = 0]
  /\ UNCHANGED <<shm, shared_cache, attached, migrating>>
  /\ spoils({s \in {shared_cache[a]} : counted(s) # {}})

init_ssd_cache(a) ==
  \/ alloc_shm(a) \/ give_up(a) \/ not_running(a)
  \/ init_spdk(a, "spdk", "device")
  \/ init_mapping(a) \/ wakeup_mg_worker(a) \/ set_running(a) \/ reset_count(a)

-----------------------------------------------------------------------------
(* exit_ssd_cache. *)

\* A defect: the name is removed before the users are waited for.
start_exit_unnamed(a) ==
  /\ goto(a, "up", "wait")
  /\ shm' = IF shm = shared_cache[a] THEN NULL ELSE shm
  /\ UNCHANGED <<cache, shared_cache, attached, migrating, spoilt>>

start_exit(a) ==
  /\ goto(a, "up", "wait")
  /\ UNCHANGED <<shm, cache, shared_cache, attached, migrating, spoilt>>

\* A defect: the server itself is taken to count.
stop_waiting_early(a) ==
  /\ goto(a, "wait", "shutdown")
  /\ own(a).count <= 1
  /\ UNCHANGED <<shm, cache, shared_cache, attached, migrating, spoilt>>

stop_waiting(a) ==
  /\ goto(a, "wait", "shutdown")
  /\ own(a).count = 0
  /\ UNCHANGED <<shm, cache, shared_cache, attached, migrating, spoilt>>

\* A defect: the thread is not waited for.
shutdown_mg_worker_only_asked(a) ==
  /\ goto(a, "shutdown", "detach")
  /\ cache' = [cache EXCEPT ![shared_cache[a]].mg_worker = NULL]
  /\ UNCHANGED <<shm, shared_cache, attached, migrating, spoilt>>

\* The thread is cancelled and joined.  A thread of another process cannot be:
\* what pthread_cancel does to that address is undefined, and may end a before
\* the segment forgets the thread.
shutdown_mg_worker(a) ==
  /\ pc[a] = "shutdown"
  /\ \/ /\ pc' = [pc EXCEPT ![a] = "detach"]
        /\ migrating' = migrating \ ({a} \cap {own(a).mg_worker})
        /\ UNCHANGED <<shm, shared_cache, attached>>
        /\ keeps([cache EXCEPT ![shared_cache[a]].mg_worker = NULL])
     \/ /\ own(a).mg_worker \notin {NULL, a}
        /\ pc' = [pc EXCEPT ![a] = "off"]
        /\ ends(a) /\ UNCHANGED shm
        /\ keeps(cache)
  /\ spoils({})

\* exit_spdk and unmap_shm.
detach(a) ==
  /\ goto(a, "detach", "unlink_shm")
  /\ attached' = attached \ {a}
  /\ UNCHANGED <<shm, cache, shared_cache, migrating, spoilt>>

\* The name is removed, whatever segment has it by now.
unlink_shm(a) ==
  /\ goto(a, "unlink_shm", "off")
  /\ shm' = NULL
  /\ ends(a)
  /\ keeps(cache) /\ spoils({shm} \ {shared_cache[a]})

exit_ssd_cache(a) ==
  \/ stop_waiting(a) \/ shutdown_mg_worker(a) \/ detach(a) \/ unlink_shm(a)

-----------------------------------------------------------------------------
(* The users: link_ssd_cache and unlink_ssd_cache. *)

link_shm(u) ==
  /\ goto(u, "off", "running?")
  /\ shm # NULL
  /\ shared_cache' = [shared_cache EXCEPT ![u] = shm]
  /\ UNCHANGED <<shm, cache, attached, migrating, spoilt>>

running(u) ==
  /\ goto(u, "running?", "spdk")
  /\ own(u).running
  /\ UNCHANGED <<shm, cache, shared_cache, attached, migrating, spoilt>>

\* The pointer to the segment is kept.
link_fails(u) ==
  /\ \/ goto(u, "running?", "failed") /\ ~own(u).running
     \/ goto(u, "spdk", "failed")
  /\ UNCHANGED <<shm, cache, shared_cache, attached, migrating, spoilt>>

\* The server may have stopped waiting for users, or be gone.
count_in(u) ==
  /\ goto(u, "count", "linked")
  /\ cache' = [cache EXCEPT ![shared_cache[u]].count = Inc(@)]
  /\ UNCHANGED <<shm, shared_cache, attached, migrating>>
  /\ spoils({s \in {shared_cache[u]} : up(s) = {}})

\* exit_spdk comes first.
start_unlink(u) ==
  /\ goto(u, "linked", "unlink")
  /\ attached' = attached \ {u}
  /\ UNCHANGED <<shm, cache, shared_cache, migrating, spoilt>>

\* A defect: the user does not count itself out.
count_out_nothing(u) ==
  /\ goto(u, "unlink", "off")
  /\ ends(u) /\ UNCHANGED shm
  /\ keeps(cache) /\ spoils({})

count_out(u) ==
  /\ goto(u, "unlink", "off")
  /\ ends(u) /\ UNCHANGED shm
  /\ keeps([cache EXCEPT ![shared_cache[u]].count = Dec(@)]) /\ spoils({})

\* The clean-up of ssd-cache-tester after a link that failed: a user is counted
\* out that was never counted in.
unlink_unlinked(u) ==
  /\ goto(u, "failed", "off")
  /\ own(u).running
  /\ ends(u) /\ UNCHANGED shm
  /\ keeps([cache EXCEPT ![shared_cache[u]].count = Dec(@)]) /\ spoils({shared_cache[u]})

\* The client ends; or unlink_ssd_cache finds that the cache is not running.
leave(u) ==
  /\ goto(u, "failed", "off")
  /\ ends(u) /\ UNCHANGED shm
  /\ keeps(cache) /\ spoils({})

UserStep(u) ==
  \/ link_shm(u) \/ running(u) \/ link_fails(u)
  \/ init_spdk(u, "spdk", "count")
  \/ count_in(u) \/ start_unlink(u) \/ count_out(u)
  \/ unlink_unlinked(u) \/ leave(u)

-----------------------------------------------------------------------------
\* A process dies; what it has written to its segment stays.
crash(p) ==
  /\ pc[p] # "off"
  /\ pc' = [pc EXCEPT ![p] = "off"]
  /\ ends(p) /\ UNCHANGED shm
  /\ keeps(cache) /\ spoils({s \in {shared_cache[p]} : p \in Server \cup counted(s)})

Next ==
  \/ \E a \in Server : force_exit(a) \/ init_ssd_cache(a) \/ start_exit(a) \/ exit_ssd_cache(a)
  \/ \E u \in User : UserStep(u)
  \/ \E p \in Process : crash(p)

Spec == Init /\ [][Next]_vars

-----------------------------------------------------------------------------
(* Properties. *)

TypeOK ==
  /\ shm \in Segment \cup {NULL}
  /\ cache \in [Segment -> [running : BOOLEAN, count : 0..UINT_MAX,
                            mg_worker : Server \cup {NULL}, mapped : BOOLEAN]]
  /\ shared_cache \in [Process -> Segment \cup {NULL}]
  /\ attached \subseteq Process
  /\ migrating \subseteq Server
  /\ pc \in [Process -> {"off", "init", "running?", "spdk", "device", "wakeup", "run", "reset",
                         "up", "wait", "shutdown", "detach", "unlink_shm",
                         "count", "linked", "unlink", "failed"}]
  /\ spoilt \subseteq Segment

Sound == Segment \ spoilt

\* "count", which exit_ssd_cache waits for, is the number of users that are
\* linked, across any number of lives of the cache, failed initialisations and
\* links.  The server is not counted, though cache.h:77 says it is.
UsersAreCounted == \A s \in Sound : cache[s].count = Cardinality(counted(s))

\* A linked user has a server: one is up on the same segment, whose table is
\* initialised, and it is attached to the SSD itself.  So exit_ssd_cache leaves
\* no user behind that it has waited for.
UsersHaveServer ==
  \A u \in User :
    pc[u] = "linked" /\ shared_cache[u] \in Sound =>
      /\ up(shared_cache[u]) # {}
      /\ own(u).running /\ own(u).mapped
      /\ u \in attached

\* The migration thread that a segment names is alive and works on it, and a
\* thread that works on a segment is named there, so that it is shut down.
WorkersAreKnown ==
  \A s \in Sound : \A a \in Server :
    cache[s].mg_worker = a <=> a \in migrating /\ shared_cache[a] = s

\* A cache that is up can be linked to by name; hence no two are up.
NameLeadsToServer == \A s \in Sound : up(s) # {} => shm = s /\ Cardinality(up(s)) = 1

=============================================================================
