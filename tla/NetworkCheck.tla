---------------------------- MODULE NetworkCheck ----------------------------
(***************************************************************************)
(* A check whose instances run in a pool of threads                        *)
(* (src/checks/network_checks.py on src/checks/libs/thread_pool.py).  The  *)
(* main thread is the collector's: AgentCheck.run calls check(instance)    *)
(* for each instance in turn, and SIGTERM runs Collector.stop in it,       *)
(* between any two statements.  Each worker takes jobs from the work       *)
(* queue, puts their results in the results queue and then sets the job's  *)
(* ApplyResult.                                                            *)
(*                                                                         *)
(* The main thread, by pc:                                                 *)
(*   "run"      between two runs of the check                              *)
(*   "check"    entry of check(), for the instance number turn             *)
(*   "results"  the loop of _process_results, iteration loop               *)
(*   "take"     resultsq.get_nowait(), holding the mutex of resultsq       *)
(*   "job"      entry of _clean_job, for the instance arg                  *)
(*   "get"      _clean_job, blocked in ApplyResult.get()                   *)
(*   "join"     stop_pool, blocked in pool.join()                          *)
(*   "start"    restart_pool between stop_pool and start_pool              *)
(*   "clean"    entry of _clean                                            *)
(*   "submit"   the end of check()                                         *)
(*   "apply", "append"   apply_async before and after its assertion        *)
(*   "put"      workq.put(job), holding the mutex of workq                 *)
(*   "exit"     sys.exit: the interpreter waits for the other threads      *)
(***************************************************************************)
EXTENDS Integers, Sequences, FiniteSets, FiniteSetsExt, Functions

CONSTANTS
  Instances,         \* the names of the instances, in order
  Results,           \* how many results the _check of an instance gives
  Evented,           \* the instances without skip_event
  PoolSize,          \* threads_count
  Window,            \* the instance option window
  Threshold,         \* the instance option threshold
  MaxLoopIterations, \* MAX_LOOP_ITERATIONS
  Timeout,           \* TIMEOUT, in ticks
  MaxStartFailures,  \* bound: pools whose threads cannot be started
  MaxSigterms        \* bound: SIGTERMs

Names == {Instances[i] : i \in DOMAIN Instances}

ASSUME NetworkCheckAssumption ==
  /\ Instances \in Seq(Names) \ {<<>>} /\ IsInjective(Instances)
  /\ Results \in [Names -> Nat \ {0}]
  /\ Evented \subseteq Names
  /\ {PoolSize, Window, Threshold, MaxLoopIterations} \subseteq Nat \ {0}
  /\ {Timeout, MaxStartFailures, MaxSigterms} \subseteq Nat

VARIABLES
  \* the pool
  closed,        \* pool._closed
  workq,         \* pool._workq: jobs and sentinels
  workers,       \* pool._workers
  ready,         \* the jobs whose ApplyResult is set
  \* the check
  poolStarted,   \* pool_started
  resultsq,      \* resultsq
  jobsStatus,    \* jobs_status: ages of the jobs, by instance
  jobsResults,   \* jobs_results: the jobs, by instance
  nbFailures,    \* nb_failures
  statuses,      \* statuses
  notified,      \* notified
  \* the main thread
  pc, turn, loop,
  arg,           \* the instance of _clean_job; the first when it is dead
  back,          \* where restart_pool returns to
  handling,      \* where the signal handler is, above pc
  stopped,       \* run_forever and continue_running are False
  startFailures  \* pools whose threads could not be started

poolVars == <<closed, workq, workers, ready>>
jobVars == <<resultsq, jobsStatus, jobsResults>>
eventVars == <<statuses, notified>>
mainVars == <<pc, turn, loop, arg, back>>
vars == <<poolVars, poolStarted, jobVars, nbFailures, eventVars, mainVars,
          handling, stopped, startFailures>>

UP == "UP"
DOWN == "DOWN"
FAILURE == "FAILURE"

\* Work units.  A job is known by its instance, and a number that no other job of it still
\* referred to has.
SENTINEL == [id |-> 0, name |-> "QUIT"]
Jobs == [id: Nat \ {0}, name: Names]

Idle == [pc |-> "get", job |-> SENTINEL, left |-> 0]
Exited == [pc |-> "exited", job |-> SENTINEL, left |-> 0]
Threads == 1..PoolSize

\* The jobs that a worker runs, and those that wait for one.
Running == {workers[w].job : w \in {v \in Threads : workers[v].pc \in {"check", "set"}}}
Queued == {workq[i] : i \in DOMAIN workq} \ {SENTINEL}

NoJob == [n \in {} |-> 0]

Init ==
  /\ closed = TRUE /\ workq = <<>> /\ ready = {}
  /\ workers = [w \in Threads |-> Exited]
  /\ poolStarted = FALSE
  /\ resultsq = <<>> /\ jobsStatus = NoJob /\ jobsResults = NoJob
  /\ nbFailures = 0
  /\ statuses = [n \in Evented |-> <<>>] /\ notified = [n \in Evented |-> UP]
  /\ pc = "run" /\ turn = 1 /\ loop = 0 /\ arg = Instances[1] /\ back = "results"
  /\ handling = "no" /\ stopped = FALSE
  /\ startFailures = 0

-----------------------------------------------------------------------------
(* Pool *)

\* A worker takes the next work unit.  Workers that wait are all alike: the first does.
Take(w) ==
  /\ workers[w].pc = "get" /\ \A v \in 1..w - 1 : workers[v].pc # "get"
  /\ workq # <<>> /\ pc # "put"
  /\ workq' = Tail(workq)
  /\ workers' = [workers EXCEPT ![w] =
       IF Head(workq) = SENTINEL THEN Exited
       ELSE [pc |-> "check", job |-> Head(workq), left |-> Results[Head(workq).name]]]
  /\ UNCHANGED <<closed, ready, poolStarted, jobVars, nbFailures, eventVars, mainVars,
                 handling, stopped, startFailures>>

Put(w, status, left) ==
  /\ workers[w].pc = "check" /\ pc # "take"
  /\ resultsq' = Append(resultsq, [name |-> workers[w].job.name, status |-> status])
  /\ workers' = [workers EXCEPT ![w].left = left, ![w].pc = IF left = 0 THEN "set" ELSE @]
  /\ UNCHANGED <<closed, workq, ready, poolStarted, jobsStatus, jobsResults, nbFailures,
                 eventVars, mainVars, handling, stopped, startFailures>>

\* _process puts what _check returned, one result after the other ...
PutResult(w, status) == Put(w, status, workers[w].left - 1)

\* ... or a failure: _check raised, or the next result it returned cannot be unpacked.
PutFailure(w) == Put(w, FAILURE, 0)

\* _process returns and Job.process sets the ApplyResult.
SetValue(w) ==
  /\ workers[w].pc = "set"
  /\ ready' = ready \cup {workers[w].job}
  /\ workers' = [workers EXCEPT ![w] = Idle]
  /\ UNCHANGED <<closed, workq, poolStarted, jobVars, nbFailures, eventVars, mainVars,
                 handling, stopped, startFailures>>

\* Nothing depends on the status of an instance that makes no events.  No check that makes
\* them returns WARNING or CRITICAL, which class Status has too.
Statuses(n) == IF n \in Evented THEN {UP, DOWN} ELSE {UP}

Worker(w) ==
  \/ Take(w)
  \/ \E status \in Statuses(workers[w].job.name) : PutResult(w, status)
  \/ PutFailure(w)
  \/ SetValue(w)

\* Pool.terminate: the jobs that no worker took are thrown away.
Terminated ==
  /\ closed' = TRUE
  /\ workq' = [w \in Threads |-> SENTINEL]
  /\ UNCHANGED <<workers, ready>>

Joined == \A w \in Threads : workers[w] = Exited

-----------------------------------------------------------------------------
(* start_pool, stop_pool, restart_pool *)

\* stop_pool up to join(), or all of it when there is no pool.
StopPool ==
  IF poolStarted
  THEN Terminated /\ pc' = "join"
  ELSE UNCHANGED poolVars /\ pc' = "start"

Join ==
  /\ pc = "join" /\ handling = "no" /\ Joined
  /\ jobsStatus' = NoJob
  /\ pc' = "start"
  /\ UNCHANGED <<poolVars, poolStarted, resultsq, jobsResults, nbFailures, eventVars, turn,
                 loop, arg, back, handling, stopped, startFailures>>

\* Mutant: the results awaited from the old pool are kept.
StartPoolKeeps ==
  /\ pc = "start" /\ handling = "no"
  /\ closed' = FALSE /\ workq' = <<>> /\ ready' = {}
  /\ workers' = [w \in Threads |-> Idle]
  /\ resultsq' = <<>> /\ jobsStatus' = NoJob
  /\ poolStarted' = TRUE
  /\ pc' = back /\ back' = "results"
  /\ UNCHANGED <<jobsResults, nbFailures, eventVars, turn, loop, arg, handling, stopped,
                 startFailures>>

StartPool ==
  /\ pc = "start" /\ handling = "no"
  /\ closed' = FALSE /\ workq' = <<>> /\ ready' = {}
  /\ workers' = [w \in Threads |-> Idle]
  /\ resultsq' = <<>> /\ jobsStatus' = NoJob /\ jobsResults' = NoJob
  /\ poolStarted' = TRUE
  /\ pc' = back /\ back' = "results"
  /\ UNCHANGED <<nbFailures, eventVars, turn, loop, arg, handling, stopped, startFailures>>

\* The next instance of the run, or its end.
EndInstance ==
  /\ pc' = IF turn = Len(Instances) THEN "run" ELSE "check"
  /\ turn' = (turn % Len(Instances)) + 1
  /\ loop' = 0 /\ arg' = Instances[1] /\ back' = "results"

\* A thread cannot be started: Pool() raises after it told the others to quit, and the
\* check keeps the pool it had.  AgentCheck.run goes on with the next instance.
StartPoolRaises ==
  /\ pc = "start" /\ handling = "no"
  /\ startFailures < MaxStartFailures
  /\ startFailures' = startFailures + 1
  /\ EndInstance
  /\ UNCHANGED <<poolVars, poolStarted, jobVars, nbFailures, eventVars, handling, stopped>>

-----------------------------------------------------------------------------
(* check *)

\* Collector.run and AgentCheck.run.
Run ==
  /\ pc = "run" /\ handling = "no"
  /\ pc' = IF stopped THEN "exit" ELSE "check"
  /\ UNCHANGED <<poolVars, poolStarted, jobVars, nbFailures, eventVars, turn, loop, arg, back,
                 handling, stopped, startFailures>>

Check ==
  /\ pc = "check" /\ handling = "no"
  /\ pc' = IF poolStarted THEN "results" ELSE "start"
  /\ back' = "results"
  /\ UNCHANGED <<poolVars, poolStarted, jobVars, nbFailures, eventVars, turn, loop, arg,
                 handling, stopped, startFailures>>

\* The head of the loop in _process_results.
NextResult ==
  /\ pc = "results" /\ handling = "no"
  /\ IF loop < MaxLoopIterations
     THEN pc' = "take" /\ loop' = loop + 1
     ELSE pc' = "clean" /\ loop' = 0
  /\ UNCHANGED <<poolVars, poolStarted, jobVars, nbFailures, eventVars, turn, arg, back,
                 handling, stopped, startFailures>>

Empty ==
  /\ pc = "take" /\ handling = "no" /\ resultsq = <<>>
  /\ pc' = "clean" /\ loop' = 0
  /\ UNCHANGED <<poolVars, poolStarted, jobVars, nbFailures, eventVars, turn, arg, back,
                 handling, stopped, startFailures>>
\* Mutant: the failures are not counted from 0 again.
TakeFailureNoReset ==
  /\ pc = "take" /\ handling = "no" /\ resultsq # <<>>
  /\ Head(resultsq).status = FAILURE
  /\ resultsq' = Tail(resultsq) /\ arg' = Head(resultsq).name
  /\ nbFailures' = nbFailures + 1
  /\ IF nbFailures + 1 >= PoolSize - 1
     THEN back' = "job" /\ StopPool
     ELSE pc' = "job" /\ UNCHANGED <<back, poolVars>>
  /\ UNCHANGED <<poolStarted, jobsStatus, jobsResults, eventVars, turn, loop, handling,
                 stopped, startFailures>>

\* A failed job.  Enough of them restart the pool, with the results still in the queue.
TakeFailure ==
  /\ pc = "take" /\ handling = "no" /\ resultsq # <<>>
  /\ Head(resultsq).status = FAILURE
  /\ resultsq' = Tail(resultsq)
  /\ arg' = Head(resultsq).name
  /\ IF nbFailures + 1 >= PoolSize - 1
     THEN nbFailures' = 0 /\ back' = "job" /\ StopPool
     ELSE nbFailures' = nbFailures + 1 /\ pc' = "job" /\ UNCHANGED <<back, poolVars>>
  /\ UNCHANGED <<poolStarted, jobsStatus, jobsResults, eventVars, turn, loop, handling,
                 stopped, startFailures>>

\* The statuses of the window with one more.
Windowed(seq, status) ==
  LET longer == Append(seq, status)
  IN  IF Len(longer) > Window THEN Tail(longer) ELSE longer

NbDown(seq) == Cardinality({i \in DOMAIN seq : seq[i] = DOWN})

\* Mutant: the failures of the window are counted before the new status is added.
TakeStatusCountsFirst ==
  /\ pc = "take" /\ handling = "no" /\ resultsq # <<>>
  /\ Head(resultsq).status # FAILURE
  /\ resultsq' = Tail(resultsq)
  /\ LET n == Head(resultsq).name
     IN  /\ arg' = n
         /\ IF n \in Evented
            THEN /\ statuses' = [statuses EXCEPT ![n] = Windowed(@, Head(resultsq).status)]
                 /\ notified' = [notified EXCEPT ![n] =
                                   IF NbDown(statuses[n]) >= Threshold THEN DOWN ELSE UP]
            ELSE UNCHANGED eventVars
  /\ pc' = "job"
  /\ UNCHANGED <<poolVars, poolStarted, jobsStatus, jobsResults, nbFailures, turn, loop, back,
                 handling, stopped, startFailures>>

\* The status of an instance is kept, and what it amounts to; the code makes an event
\* of that status when notified changes.
TakeStatus ==
  /\ pc = "take" /\ handling = "no" /\ resultsq # <<>>
  /\ Head(resultsq).status # FAILURE
  /\ resultsq' = Tail(resultsq)
  /\ LET n   == Head(resultsq).name
         seq == Windowed(statuses[n], Head(resultsq).status)
     IN  /\ arg' = n
         /\ IF n \in Evented
            THEN /\ statuses' = [statuses EXCEPT ![n] = seq]
                 /\ notified' = [notified EXCEPT ![n] =
                                   IF NbDown(seq) >= Threshold THEN DOWN ELSE UP]
            ELSE UNCHANGED eventVars
  /\ pc' = "job"
  /\ UNCHANGED <<poolVars, poolStarted, jobsStatus, jobsResults, nbFailures, turn, loop, back,
                 handling, stopped, startFailures>>

CleanJob ==
  /\ pc = "job" /\ handling = "no"
  /\ jobsStatus' = Restrict(jobsStatus, DOMAIN jobsStatus \ {arg})
  /\ IF arg \in DOMAIN jobsResults
     THEN pc' = "get" /\ UNCHANGED arg
     ELSE pc' = "results" /\ arg' = Instances[1]
  /\ UNCHANGED <<poolVars, poolStarted, resultsq, jobsResults, nbFailures, eventVars, turn,
                 loop, back, handling, stopped, startFailures>>

\* Mutant: the job is dropped without waiting for its end.
GetAtOnce ==
  /\ pc = "get"
  /\ ready' = ready \ {jobsResults[arg]}
  /\ jobsResults' = Restrict(jobsResults, DOMAIN jobsResults \ {arg})
  /\ pc' = "results" /\ arg' = Instances[1]
  /\ UNCHANGED <<closed, workq, workers, poolStarted, resultsq, jobsStatus, nbFailures,
                 eventVars, turn, loop, back, handling, stopped, startFailures>>

\* ApplyResult.get() returns.
Get ==
  /\ pc = "get" /\ jobsResults[arg] \in ready
  /\ ready' = ready \ {jobsResults[arg]}
  /\ jobsResults' = Restrict(jobsResults, DOMAIN jobsResults \ {arg})
  /\ pc' = "results" /\ arg' = Instances[1]
  /\ UNCHANGED <<closed, workq, workers, poolStarted, resultsq, jobsStatus, nbFailures,
                 eventVars, turn, loop, back, handling, stopped, startFailures>>


Clean ==
  /\ pc = "clean" /\ handling = "no"
  /\ IF \E n \in DOMAIN jobsStatus : jobsStatus[n] > Timeout
     THEN StopPool /\ back' = "submit"
     ELSE pc' = "submit" /\ UNCHANGED <<poolVars, back>>
  /\ UNCHANGED <<poolStarted, jobVars, nbFailures, eventVars, turn, loop, arg, handling,
                 stopped, startFailures>>

Name == Instances[turn]

Submit ==
  /\ pc = "submit" /\ handling = "no" /\ Name \notin DOMAIN jobsStatus
  /\ jobsStatus' = [n \in DOMAIN jobsStatus \cup {Name} |->
                      IF n = Name THEN 0 ELSE jobsStatus[n]]
  /\ pc' = "apply"
  /\ UNCHANGED <<poolVars, poolStarted, resultsq, jobsResults, nbFailures, eventVars, turn,
                 loop, arg, back, handling, stopped, startFailures>>

\* "skipped because it's already running"
Skip ==
  /\ pc = "submit" /\ handling = "no" /\ Name \in DOMAIN jobsStatus
  /\ EndInstance
  /\ UNCHANGED <<poolVars, poolStarted, jobVars, nbFailures, eventVars, handling, stopped,
                 startFailures>>

\* apply_async on a closed pool raises AssertionError.
ApplyAsync ==
  /\ pc = "apply" /\ handling = "no"
  /\ IF closed THEN EndInstance ELSE pc' = "append" /\ UNCHANGED <<turn, loop, arg, back>>
  /\ UNCHANGED <<poolVars, poolStarted, jobVars, nbFailures, eventVars, handling, stopped,
                 startFailures>>

AcquireMutex ==
  /\ pc = "append" /\ handling = "no"
  /\ pc' = "put"
  /\ UNCHANGED <<poolVars, poolStarted, jobVars, nbFailures, eventVars, turn, loop, arg, back,
                 handling, stopped, startFailures>>

\* The jobs somebody refers to.
Known == Running \cup Queued \cup Range(jobsResults) \cup ready

Fresh ==
  LET used == {j.id : j \in {x \in Known : x.name = Name}}
  IN  Min((1..Cardinality(used) + 1) \ used)

PutJob ==
  /\ pc = "put" /\ handling = "no"
  /\ LET job == [id |-> Fresh, name |-> Name]
     IN  /\ workq' = Append(workq, job)
         /\ jobsResults' = [n \in DOMAIN jobsResults \cup {Name} |->
                              IF n = Name THEN job ELSE jobsResults[n]]
  /\ EndInstance
  /\ UNCHANGED <<closed, workers, ready, poolStarted, resultsq, jobsStatus, nbFailures,
                 eventVars, handling, stopped, startFailures>>

-----------------------------------------------------------------------------
(* stop, called by Collector.stop in the handler of SIGTERM.  A thread that *)
(* is blocked in get() or join() does not run handlers.                     *)

Sigterm ==
  /\ pc \notin {"get", "join", "exit"} /\ handling = "no"
  /\ ~stopped /\ MaxSigterms > 0
  /\ stopped' = TRUE
  /\ handling' = IF poolStarted THEN "terminate" ELSE "no"
  /\ UNCHANGED <<poolVars, poolStarted, jobVars, nbFailures, eventVars, mainVars,
                 startFailures>>

\* terminate() needs the mutex of the work queue, which a put() it interrupted holds.
StopTerminate ==
  /\ handling = "terminate" /\ pc # "put"
  /\ Terminated
  /\ handling' = "join"
  /\ UNCHANGED <<poolStarted, jobVars, nbFailures, eventVars, mainVars, stopped,
                 startFailures>>

Stop ==
  /\ handling = "join" /\ Joined
  /\ jobsStatus' = NoJob
  /\ poolStarted' = FALSE
  /\ handling' = "no"
  /\ UNCHANGED <<poolVars, resultsq, jobsResults, nbFailures, eventVars, mainVars, stopped,
                 startFailures>>

Tick ==
  /\ \E n \in DOMAIN jobsStatus : jobsStatus[n] <= Timeout
  /\ jobsStatus' = [n \in DOMAIN jobsStatus |-> Min({jobsStatus[n] + 1, Timeout + 1})]
  /\ UNCHANGED <<poolVars, poolStarted, resultsq, jobsResults, nbFailures, eventVars,
                 mainVars, handling, stopped, startFailures>>

-----------------------------------------------------------------------------
Main ==
  \/ Run \/ Check \/ NextResult \/ Empty \/ TakeFailure \/ TakeStatus \/ CleanJob \/ Get
  \/ Clean \/ Submit \/ Skip \/ ApplyAsync \/ AcquireMutex \/ PutJob
  \/ Join \/ StartPool \/ StartPoolRaises
  \/ StopTerminate \/ Stop

Next == Main \/ Sigterm \/ Tick \/ \E w \in Threads : Worker(w)

Spec == Init /\ [][Next]_vars

\* The main thread is scheduled, and so is some thread of the pool that has something to do
\* but in _check, which may never return; and time passes.
Fairness ==
  /\ WF_vars(Main)
  /\ WF_vars(\E w \in Threads : Take(w) \/ SetValue(w))
  /\ WF_vars(Tick)

FairSpec == Spec /\ Fairness

-----------------------------------------------------------------------------
(* Properties *)

WorkerState == [pc: {"get", "check", "set", "exited"}, job: Jobs \cup {SENTINEL}, left: Nat]

TypeOK ==
  /\ closed \in BOOLEAN /\ workq \in Seq(Jobs \cup {SENTINEL})
  /\ workers \in [Threads -> WorkerState] /\ ready \subseteq Jobs
  /\ poolStarted \in BOOLEAN /\ nbFailures \in 0..PoolSize
  /\ resultsq \in Seq([name: Names, status: {UP, DOWN, FAILURE}])
  /\ DOMAIN jobsStatus \subseteq Names /\ Range(jobsStatus) \subseteq 0..Timeout + 1
  /\ DOMAIN jobsResults \subseteq Names /\ Range(jobsResults) \subseteq Jobs
  /\ statuses \in [Evented -> Seq({UP, DOWN})] /\ notified \in [Evented -> {UP, DOWN}]
  /\ pc \in {"run", "check", "results", "take", "job", "get", "join", "start", "clean",
             "submit", "apply", "append", "put", "exit"}
  /\ turn \in DOMAIN Instances /\ loop \in 0..MaxLoopIterations /\ arg \in Names
  /\ back \in {"results", "job", "submit"}
  /\ handling \in {"no", "terminate", "join"} /\ stopped \in BOOLEAN
  /\ startFailures \in 0..MaxStartFailures

\* The jobs of an instance in the pool, waiting for a worker or with one.
Alive(n) == {j \in Running \cup Queued : j.name = n}

\* "A given instance should be processed one at a time", although its entry in
\* jobs_status is deleted by any result under its name, one of an earlier job too.
OneAtATime == \A n \in Names : Cardinality(Alive(n)) <= 1

\* _clean_job waits without a timeout: the job it waits for is one that a worker has or
\* will get, not one that was thrown away with its pool.  While the pool is the old one,
\* because the threads of a new one could not be started, it may be: jobs_results keeps the
\* jobs thrown away, and an earlier job of the instance may have left a result behind the
\* last one of a full loop.
AnswerComes ==
  pc = "get" /\ ~stopped /\ ~closed => jobsResults[arg] \in ready \cup Alive(arg)

\* join() waits for a worker whose _check has not returned.  get() waits for the job of such
\* a worker, or for one that no worker is free to take, or for one thrown away with a pool
\* that could not be replaced.
InCheck(w) == workers[w].pc = "check"
JoinBlocked == pc = "join" /\ \E w \in Threads : InCheck(w)
GetBlocked ==
  /\ pc = "get"
  /\ \/ \E w \in Threads : InCheck(w) /\ workers[w].job = jobsResults[arg]
     \/ jobsResults[arg] \in Queued /\ \A w \in Threads : InCheck(w)
     \/ jobsResults[arg] \notin ready /\ closed


\* An event of an instance that goes down is made of a result that is down, and one that
\* comes up of a result that is up, although notified depends on the whole window.
EventsMatch ==
  [][\A n \in Evented : notified'[n] # notified[n] =>
       statuses'[n][Len(statuses'[n])] = notified'[n]]_vars
=============================================================================
