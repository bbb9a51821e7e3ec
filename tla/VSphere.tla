------------------------------ MODULE VSphere ------------------------------
(***************************************************************************)
(* The vSphere check (src/checks.d/vsphere.py) for one vCenter: a tree of  *)
(* objects is browsed by jobs in a pool of threads, the hosts and virtual  *)
(* machines they find wait in morlist_raw, other jobs move them to         *)
(* morlist, and a third kind collects their metrics.  The main thread      *)
(* (check()) queues the jobs, drops old objects from morlist and stops the *)
(* pool when a job raised.  The two lists are shared without a lock.       *)
(*                                                                         *)
(* Objects come and go, a request to the vCenter may fail, and its session *)
(* may die.  Times are ages, counted in checks and not told apart when     *)
(* they are past every limit.                                              *)
(***************************************************************************)
EXTENDS Integers, Sequences, FiniteSets, SequencesExt

CONSTANTS
  Objects, Root,   \* the objects of the vCenter, and its rootFolder
  Children,        \* the objects under an object
  Watched,         \* the hosts and virtual machines that _is_excluded lets pass
  Filtered,        \* those it filters out
  PoolSize,        \* threads_count
  Batch,           \* batch_morlist_size
  Interval,        \* refresh_morlist_interval
  VacuumAge,       \* 2 * REFRESH_MORLIST_INTERVAL
  MaxQueue,        \* bound on the state, not a condition of check(): a check begins when at
                   \* most so many jobs are not finished
  MaxChanges,      \* bound: objects that come or go
  MaxFailures,     \* bound: requests that fail
  MaxSessionDeaths \* bound: sessions that die

ASSUME VSphereAssumption ==
  /\ Root \in Objects /\ Root \notin Watched /\ Watched \cup Filtered \subseteq Objects
  /\ Watched \cap Filtered = {}
  /\ Children \in [Objects -> SUBSET Objects]
  /\ {PoolSize, Batch} \subseteq Nat \ {0}
  /\ {Interval, VacuumAge, MaxQueue, MaxChanges, MaxFailures, MaxSessionDeaths} \subseteq Nat

Workers == 1..PoolSize
NoTime == -1   \* no last_seen yet

VARIABLES
  \* the vCenter
  exists,          \* the objects there are
  changes, failures, sessionDeaths,
  \* the check
  session,         \* the connection in server_instances
  sinceMorlist,    \* the age of cache_times[MORLIST][LAST]
  raw,             \* morlist_raw
  listed,          \* the keys of morlist
  seen,            \* the age of last_seen
  pc, n, todo,     \* the main thread: its step, the batch counter, the items of a loop
  \* the pool
  poolStarted,     \* pool_started
  closed,          \* pool._closed
  queue,           \* pool._workq
  worker,          \* what a thread does
  crashed          \* exceptionq is not empty

envVars == <<exists, changes, sessionDeaths>>
checkVars == <<session, sinceMorlist, raw, listed, seen>>
mainVars == <<pc, n, todo>>
poolVars == <<poolStarted, closed, queue, worker, crashed>>
vars == <<envVars, failures, checkVars, mainVars, poolVars>>

Job(kind, o) == [kind |-> kind, obj |-> o]
\* One job for each object of S, in some order.
Jobs(kind, S) == LET s == SetToSeq(S) IN [i \in DOMAIN s |-> Job(kind, s[i])]
Idle == [kind |-> "idle", obj |-> Root]

Init ==
  /\ exists = Objects /\ changes = 0 /\ failures = 0 /\ sessionDeaths = 0
  /\ session = "none" /\ sinceMorlist = Interval + 1
  /\ raw = <<>> /\ listed = {} /\ seen = [o \in Watched |-> NoTime]
  /\ pc = "idle" /\ n = 0 /\ todo = {}
  /\ poolStarted = FALSE /\ closed = TRUE /\ queue = <<>>
  /\ worker = [w \in Workers |-> Idle] /\ crashed = FALSE

-----------------------------------------------------------------------------
(* The vCenter *)

\* A host or a virtual machine goes, a host with the machines that run on it.  Those that are
\* filtered out stay: one that goes before it is browsed fails as any other does.
Vanish(o) ==
  /\ o \in exists \cap Watched /\ changes < MaxChanges
  /\ exists' = exists \ ({o} \cup Children[o]) /\ changes' = changes + 1
  /\ UNCHANGED <<failures, sessionDeaths, checkVars, mainVars, poolVars>>

Appear(o) ==
  /\ o \in Objects \ exists /\ changes < MaxChanges
  /\ \A p \in Objects : o \in Children[p] => p \in exists
  /\ exists' = exists \cup {o} /\ changes' = changes + 1
  /\ UNCHANGED <<failures, sessionDeaths, checkVars, mainVars, poolVars>>

SessionDies ==
  /\ session = "open" /\ sessionDeaths < MaxSessionDeaths
  /\ session' = "dead" /\ sessionDeaths' = sessionDeaths + 1
  /\ UNCHANGED <<exists, changes, failures, sinceMorlist, raw, listed, seen, mainVars, poolVars>>

RequestFails == failures < MaxFailures /\ failures' = failures + 1

\* _get_server_instance connects once and keeps the session whatever becomes of it.
Connected == session # "dead" /\ session' = "open" /\ UNCHANGED failures
ConnectionFails ==
  /\ UNCHANGED session
  /\ IF session = "dead" THEN UNCHANGED failures ELSE RequestFails

-----------------------------------------------------------------------------
(* check(), in the main thread *)

Older(a, limit) == IF a = NoTime \/ a > limit THEN a ELSE a + 1

\* A new pool, if there is none.
Begin ==
  /\ pc = "idle" /\ Len(queue) + Cardinality({w \in Workers : worker[w] # Idle}) <= MaxQueue
  /\ sinceMorlist' = Older(sinceMorlist, Interval)
  /\ seen' = [o \in Watched |-> Older(seen[o], VacuumAge)]
  /\ poolStarted' = TRUE
  /\ IF poolStarted THEN UNCHANGED <<closed, queue, worker>>
     ELSE closed' = FALSE /\ queue' = <<>> /\ worker' = [w \in Workers |-> Idle]
  /\ pc' = "metadata"
  /\ UNCHANGED <<envVars, failures, session, raw, listed, n, todo, crashed>>

\* What check() raises leaves it; the collector calls it again at its next run.
Raise == pc' = "idle" /\ todo' = {} /\ UNCHANGED n

\* _cache_metrics_metadata, when it is due.
CacheMetadata ==
  /\ pc = "metadata"
  /\ \/ Connected /\ pc' = "morlist" /\ UNCHANGED <<n, todo>>
     \/ ConnectionFails /\ Raise
     \/ session # "none" /\ pc' = "morlist" /\ UNCHANGED <<session, failures, n, todo>>
  /\ UNCHANGED <<envVars, sinceMorlist, raw, listed, seen, poolVars>>

MorlistDue == sinceMorlist > Interval

\* _cache_morlist_raw.
CacheMorlistRaw ==
  /\ pc = "morlist"
  /\ UNCHANGED <<n, todo>>
  /\ \/ /\ ~MorlistDue \/ raw # <<>>
        /\ pc' = "process"
        /\ UNCHANGED <<session, failures, sinceMorlist, raw, queue>>
     \/ /\ MorlistDue /\ raw = <<>>
        /\ Connected
        /\ queue' = Append(queue, Job("browse", Root))
        /\ sinceMorlist' = 0
        /\ pc' = "process"
        /\ UNCHANGED raw
     \/ /\ MorlistDue /\ raw = <<>>
        /\ ConnectionFails
        /\ pc' = "idle"
        /\ UNCHANGED <<sinceMorlist, raw, queue>>
  /\ UNCHANGED <<envVars, listed, seen, poolStarted, closed, worker, crashed>>

\* One iteration of _cache_morlist_process, or its end.
ProcessRaw ==
  /\ pc = "process"
  /\ IF raw = <<>> \/ n = Batch
     THEN pc' = "vacuum" /\ n' = 0 /\ todo' = listed /\ UNCHANGED <<raw, queue>>
     ELSE /\ raw' = SubSeq(raw, 1, Len(raw) - 1)
          /\ queue' = Append(queue, Job("process", raw[Len(raw)]))
          /\ n' = n + 1 /\ UNCHANGED <<pc, todo>>
  /\ UNCHANGED <<envVars, failures, session, sinceMorlist, listed, seen, poolStarted, closed,
                 worker, crashed>>

Old(o) == seen[o] > VacuumAge

\* Mutant: the loop ends at the first object that is not old.
TodoUntilYoung(o) == IF Old(o) THEN todo \ {o} ELSE {}
Todo(o) == todo \ {o}

\* One iteration of _vacuum_morlist.  An object that a job has put in morlist and whose
\* last_seen it has not set yet raises KeyError.
VacuumMorlist ==
  /\ pc = "vacuum" /\ todo # {}
  /\ LET o == CHOOSE x \in todo : TRUE
     IN  IF o \in listed /\ seen[o] = NoTime
         THEN Raise /\ UNCHANGED <<listed, seen>>
         ELSE /\ IF Old(o)
                 THEN listed' = listed \ {o} /\ seen' = [seen EXCEPT ![o] = NoTime]
                 ELSE UNCHANGED <<listed, seen>>
              /\ todo' = Todo(o)
              /\ UNCHANGED <<pc, n>>
  /\ UNCHANGED <<envVars, failures, session, sinceMorlist, raw, poolVars>>

\* collect_metrics queues a job for every object of morlist.
CollectMetrics ==
  /\ pc = "vacuum" /\ todo = {}
  /\ queue' = queue \o Jobs("collect", listed)
  /\ pc' = "events"
  /\ UNCHANGED <<envVars, failures, checkVars, n, todo, poolStarted, closed, worker, crashed>>

\* _query_event; only the connection can make it raise.
QueryEvent ==
  /\ pc = "events"
  /\ \/ Connected /\ pc' = "clean" /\ UNCHANGED <<n, todo>>
     \/ ConnectionFails /\ Raise
  /\ UNCHANGED <<envVars, sinceMorlist, raw, listed, seen, poolVars>>

\* _clean looks at jobs_status, which nothing fills; then the exceptions of the jobs are
\* taken from exceptionq, and the pool is stopped if there were any.
EndCheck ==
  /\ pc = "clean"
  /\ crashed' = FALSE
  /\ IF crashed
     THEN closed' = TRUE /\ queue' = <<>> /\ pc' = "join"
     ELSE pc' = "idle" /\ UNCHANGED <<closed, queue>>
  /\ UNCHANGED <<envVars, failures, checkVars, n, todo, poolStarted, worker>>

PoolStartedAfter == FALSE

\* pool.join() waits for the jobs that run; then check() raises.
JoinPool ==
  /\ pc = "join" /\ \A w \in Workers : worker[w] = Idle
  /\ poolStarted' = PoolStartedAfter
  /\ pc' = "idle"
  /\ UNCHANGED <<envVars, failures, checkVars, n, todo, closed, queue, worker, crashed>>

-----------------------------------------------------------------------------
(* The jobs, in the threads of the pool *)

Take(w) ==
  /\ worker[w] = Idle /\ queue # <<>>
  /\ worker' = [worker EXCEPT ![w] = Head(queue)] /\ queue' = Tail(queue)
  /\ UNCHANGED <<envVars, failures, checkVars, mainVars, poolStarted, closed, crashed>>

Finish(w) == worker' = [worker EXCEPT ![w] = Idle]
Continue(w, kind) == worker' = [worker EXCEPT ![w].kind = kind]

\* atomic_method: what a job raises is put in exceptionq.
Crash(w) == Finish(w) /\ crashed' = TRUE

\* A request about an object fails when it is gone.
ObjectRequestFails(o) == IF o \in exists THEN RequestFails ELSE UNCHANGED failures

\* browse_mor.  A host or a virtual machine goes to morlist_raw; the objects under a folder or
\* a host are queued, which a closed pool refuses with an AssertionError.  A request that fails
\* may do so before the object is added, or between two machines of a host (powerState).
Browse(w) ==
  LET o     == worker[w].obj
      below == IF o \in Filtered THEN {} ELSE Children[o] \cap exists
      Add   == raw' = IF o \in Watched THEN Append(raw, o) ELSE raw
      QueueBelow(S) == queue' = queue \o Jobs("browse", S)
  IN  /\ worker[w].kind = "browse"
      /\ \/ /\ o \in exists /\ UNCHANGED failures
            /\ Add
            /\ IF closed /\ below # {}
               THEN Crash(w) /\ UNCHANGED queue
               ELSE Finish(w) /\ QueueBelow(below) /\ UNCHANGED crashed
         \/ ObjectRequestFails(o) /\ Crash(w) /\ UNCHANGED <<raw, queue>>
         \/ /\ o \in exists \cap Watched /\ RequestFails /\ Crash(w)
            /\ Add
            /\ \E S \in SUBSET (IF closed THEN {} ELSE below) : QueueBelow(S)
      /\ UNCHANGED <<envVars, session, sinceMorlist, listed, seen, mainVars, poolStarted, closed>>

\* The requests of _cache_morlist_process_atomic and of _collect_metrics_atomic.
Query(w) ==
  LET o == worker[w].obj
  IN  /\ worker[w].kind \in {"process", "collect"}
      /\ \/ /\ Connected /\ o \in exists
            /\ IF worker[w].kind = "process" THEN Continue(w, "store") ELSE Finish(w)
            /\ UNCHANGED crashed
         \/ o \in exists /\ ConnectionFails /\ Crash(w)
         \/ o \notin exists /\ Crash(w) /\ UNCHANGED <<session, failures>>
      /\ UNCHANGED <<envVars, sinceMorlist, raw, listed, seen, mainVars, poolStarted, closed, queue>>

\* _cache_morlist_process_atomic, statement by statement: is the object in morlist?
Store(w) ==
  LET o == worker[w].obj
  IN  /\ worker[w].kind = "store"
      /\ IF o \in listed
         THEN Continue(w, "update") /\ UNCHANGED <<listed, seen>>
         ELSE /\ Continue(w, "seen")
              /\ listed' = listed \cup {o} /\ seen' = [seen EXCEPT ![o] = NoTime]
      /\ UNCHANGED <<envVars, failures, session, sinceMorlist, raw, mainVars, poolStarted, closed,
                     queue, crashed>>

\* Its metrics are replaced; then its last_seen is set.  Both raise KeyError if the main thread
\* has removed the object since.
Update(w) ==
  /\ worker[w].kind = "update"
  /\ IF worker[w].obj \in listed THEN Continue(w, "seen") /\ UNCHANGED crashed ELSE Crash(w)
  /\ UNCHANGED <<envVars, failures, checkVars, mainVars, poolStarted, closed, queue>>

SetLastSeen(w) ==
  LET o == worker[w].obj
  IN  /\ worker[w].kind = "seen"
      /\ IF o \in listed
         THEN Finish(w) /\ seen' = [seen EXCEPT ![o] = 0] /\ UNCHANGED crashed
         ELSE Crash(w) /\ UNCHANGED seen
      /\ UNCHANGED <<envVars, failures, session, sinceMorlist, raw, listed, mainVars, poolStarted,
                     closed, queue>>

-----------------------------------------------------------------------------
Main ==
  \/ Begin \/ CacheMetadata \/ CacheMorlistRaw \/ ProcessRaw \/ VacuumMorlist
  \/ CollectMetrics \/ QueryEvent \/ EndCheck \/ JoinPool
WorkerStep(w) ==
  Take(w) \/ Browse(w) \/ Query(w) \/ Store(w) \/ Update(w) \/ SetLastSeen(w)

Next ==
  \/ Main
  \/ \E w \in Workers : WorkerStep(w)
  \/ \E o \in Objects : Vanish(o) \/ Appear(o)
  \/ SessionDies

Spec == Init /\ [][Next]_vars

\* The collector calls the check again and again, and the threads run.
FairSpec == Spec /\ WF_vars(Main) /\ \A w \in Workers : WF_vars(WorkerStep(w))

-----------------------------------------------------------------------------
(* Properties *)

\* A host or virtual machine that stays is in morlist again and again, whatever jobs are lost
\* with a pool that is stopped, as long as the session lives: nothing connects again.  The one
\* exception takes both: checks keep beginning (check()) while jobs of an earlier one are not
\* done, and jobs keep raising, so that the pool is stopped for ever; the AssertionError of a
\* job that browses in the closed pool and the KeyErrors of the vacuum are enough for that.
Overlap == pc = "metadata" /\ (queue # <<>> \/ \E w \in Workers : worker[w] # Idle)

\* One that is gone leaves morlist, although every check until then stops the pool because
\* its metrics cannot be collected.
Forgotten == \A o \in Watched : []<>(o \notin listed \/ o \in exists \/ session = "dead")
=============================================================================
