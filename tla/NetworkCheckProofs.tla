-------------------------- MODULE NetworkCheckProofs --------------------------
(***************************************************************************)
(* The checks that run in a pool of threads: for any instances, results    *)
(* per job, pool size and options, and wherever SIGTERM interrupts the     *)
(* main thread, an instance has one job at a time, the job that            *)
(* _clean_job waits for will answer, and events match the results they are *)
(* made of.                                                                *)
(***************************************************************************)
EXTENDS NetworkCheck, TLAPS, FiniteSetTheorems, FunctionTheorems, WellFoundedInduction

(* The assumptions on the constants. *)
LEMMA Constants ==
  /\ Instances \in Seq(Names) /\ Len(Instances) \in Nat \ {0} /\ DOMAIN Instances = 1..Len(Instances)
  /\ \A i \in DOMAIN Instances : Instances[i] \in Names
  /\ Results \in [Names -> Nat \ {0}] /\ Evented \subseteq Names
  /\ PoolSize \in Nat \ {0} /\ Window \in Nat \ {0} /\ Threshold \in Nat \ {0}
  /\ MaxLoopIterations \in Nat \ {0}
  /\ Timeout \in Nat /\ MaxStartFailures \in Nat /\ MaxSigterms \in Nat
<1>1. Len(Instances) # 0
  BY NetworkCheckAssumption
<1> QED BY <1>1, NetworkCheckAssumption DEF Names

-----------------------------------------------------------------------------
(* The inductive invariant. *)

\* The workers that run a job.
Busy == {w \in Threads : workers[w].pc \in {"check", "set"}}

\* What TypeOK leaves open of the tables, the workers and the main thread.
ShapeInv ==
  /\ \A w \in Busy : workers[w].job \in Jobs
  /\ \A w \in Threads : workers[w].pc = "check" => workers[w].left >= 1
  /\ \A n \in DOMAIN jobsResults : jobsResults[n].name = n
  /\ IsFiniteSet(ready)
  /\ pc = "get" => arg \in DOMAIN jobsResults

\* Where the pool is: closed, stopped, being stopped or in use.
PoolInv ==
  /\ handling # "no" => poolStarted /\ stopped /\ pc \notin {"get", "join", "exit"}
  /\ handling = "join" \/ pc = "join" => closed /\ poolStarted
  /\ ~poolStarted => \A w \in Threads : workers[w] = Exited
  /\ closed /\ poolStarted => Queued = {}
  /\ pc \in {"append", "put"} /\ poolStarted /\ handling # "join" => ~closed
  /\ ~poolStarted /\ pc \notin {"run", "check", "start", "exit"} => Queued = {}

\* A job is in one place: the queue, a worker, or done.
PlaceInv ==
  /\ \A i, k \in DOMAIN workq : workq[i] = workq[k] /\ workq[i] # SENTINEL => i = k
  /\ \A v, w \in Busy : workers[v].job = workers[w].job => v = w
  /\ Running \cap Queued = {}
  /\ ready \cap (Running \cup Queued) = {}

\* The job an instance has in the pool is the one that jobs_results records, and
\* jobs_status records that there is one, but while its end is awaited.
RecordInv ==
  /\ \A j \in Running \cup Queued : j.name \in DOMAIN jobsResults /\ jobsResults[j.name] = j
  /\ \A j \in Running \cup Queued :
       j.name \in DOMAIN jobsStatus \/ (pc = "get" /\ arg = j.name) \/ ~poolStarted
  /\ pc \in {"apply", "append", "put"} =>
       /\ \A j \in Running \cup Queued : j.name # Name
       /\ Name \in DOMAIN jobsStatus \/ ~poolStarted

\* Every recorded job will be done, until its pool is stopped.
AnswerInv ==
  ~stopped /\ ~closed =>
    \A n \in DOMAIN jobsResults : jobsResults[n] \in ready \cup Running \cup Queued

\* notified says what the window amounts to.
NotifiedInv ==
  \A n \in Evented : notified[n] = IF NbDown(statuses[n]) >= Threshold THEN DOWN ELSE UP

Inv == TypeOK /\ ShapeInv /\ PoolInv /\ PlaceInv /\ RecordInv /\ AnswerInv /\ NotifiedInv

-----------------------------------------------------------------------------
(* Sets and numbers. *)

(* The values of a function on a finite set. *)
LEMMA ImageFinite ==
  ASSUME NEW S, IsFiniteSet(S), NEW f
  PROVE  IsFiniteSet({f[x] : x \in S})
<1> DEFINE T == {f[x] : x \in S}
           g == [x \in S |-> f[x]]
<1>1. g \in Surjection(S, T)
  BY DEF Surjection
<1> QED BY <1>1, FS_Surjection

(* A set of natural numbers that is not empty has a first one. *)
LEMMA MinThere ==
  ASSUME NEW S \in SUBSET Nat, S # {}
  PROVE  Min(S) \in S
<1>1. PICK m \in S : \A y \in S : ~(<<y, m>> \in OpToRel(<, Nat))
  BY WFMin, NatLessThanWellFounded, Zenon
<1>2. \A y \in S : ~(y < m)
  BY <1>1 DEF OpToRel
<1>3. \A y \in S : m <= y
  BY <1>2
<1> QED BY <1>3 DEF Min

(* There is a number that no member of a finite set has. *)
LEMMA FreshThere ==
  ASSUME NEW used, IsFiniteSet(used)
  PROVE  LET new == Min((1..Cardinality(used) + 1) \ used) IN new \in Nat \ {0} /\ new \notin used
<1> DEFINE n == Cardinality(used)
           free == (1..n + 1) \ used
<1>1. n \in Nat
  BY FS_CardinalityType
<1> HIDE DEF n
<1>2. IsFiniteSet(1..n + 1) /\ Cardinality(1..n + 1) = n + 1
  BY <1>1, FS_Interval
<1>3. free # {}
  <2> SUFFICES ASSUME 1..n + 1 \subseteq used PROVE FALSE
    OBVIOUS
  <2>1. Cardinality(1..n + 1) <= Cardinality(used)
    BY FS_Subset
  <2> QED BY <1>1, <1>2, <2>1 DEF n
<1>4. Min(free) \in free
  BY <1>1, <1>3, MinThere
<1>5. Min(free) \in Nat \ {0} /\ Min(free) \notin used
  BY <1>1, <1>4
<1> QED BY <1>5 DEF n

(* The age of a job is capped one after the timeout. *)
LEMMA Capped ==
  ASSUME NEW a \in 0..Timeout + 1
  PROVE  Min({a + 1, Timeout + 1}) \in 0..Timeout + 1
<1>1. {a + 1, Timeout + 1} \in SUBSET Nat
  BY Constants
<1>2. Min({a + 1, Timeout + 1}) \in {a + 1, Timeout + 1}
  BY <1>1, MinThere
<1>3. \A x \in {a + 1, Timeout + 1} : Min({a + 1, Timeout + 1}) <= x
  <2>1. \E m \in {a + 1, Timeout + 1} : \A y \in {a + 1, Timeout + 1} : m <= y
    BY Constants
  <2> QED BY <2>1 DEF Min
<1> QED BY <1>2, <1>3, Constants

-----------------------------------------------------------------------------
(* The jobs there are. *)

(* A worker that runs a job runs it in Running; a job in the queue is in Queued. *)
LEMMA RunningQueued ==
  /\ Running = {workers[w].job : w \in Busy}
  /\ \A w \in Busy : workers[w].job \in Running
  /\ \A i \in DOMAIN workq : workq[i] # SENTINEL => workq[i] \in Queued
  /\ SENTINEL \notin Jobs
<1>1. SENTINEL \notin Jobs
  BY DEF SENTINEL, Jobs
<1> QED BY <1>1 DEF Running, Queued, Busy

(* The jobs are jobs, and there are finitely many. *)
LEMMA JobsFinite ==
  ASSUME TypeOK, ShapeInv
  PROVE  /\ Running \cup Queued \cup Range(jobsResults) \cup ready \subseteq Jobs
         /\ IsFiniteSet(Running) /\ IsFiniteSet(Queued) /\ IsFiniteSet(Range(jobsResults))
<1>1. Running \subseteq Jobs
  BY RunningQueued DEF ShapeInv
<1>2. DOMAIN workq = 1..Len(workq) /\ Len(workq) \in Nat
  BY DEF TypeOK
<1>3. Queued \subseteq Jobs
  BY <1>2 DEF Queued, TypeOK
<1>4. IsFiniteSet(Threads) /\ IsFiniteSet(DOMAIN workq) /\ IsFiniteSet(DOMAIN Instances)
  BY <1>2, Constants, FS_Interval DEF Threads
<1>5. IsFiniteSet(Running)
  <2> DEFINE f == [w \in Threads |-> workers[w].job]
  <2>1. IsFiniteSet(Busy)
    BY <1>4, FS_Subset DEF Busy
  <2>2. IsFiniteSet({f[w] : w \in Busy})
    BY <2>1, ImageFinite
  <2>3. Running = {f[w] : w \in Busy}
    BY RunningQueued DEF Busy
  <2> QED BY <2>2, <2>3
<1>6. IsFiniteSet(Queued)
  <2>1. IsFiniteSet({workq[i] : i \in DOMAIN workq})
    BY <1>4, ImageFinite
  <2> QED BY <2>1, FS_Subset DEF Queued
<1>7. IsFiniteSet(Range(jobsResults))
  <2>1. IsFiniteSet(Names)
    BY <1>4, ImageFinite DEF Names
  <2>2. IsFiniteSet(DOMAIN jobsResults)
    BY <2>1, FS_Subset DEF TypeOK
  <2> QED BY <2>2, ImageFinite DEF Range
<1> QED BY <1>1, <1>3, <1>5, <1>6, <1>7 DEF TypeOK

(* A new job is not one that somebody still refers to: its number is new for its instance. *)
LEMMA FreshJob ==
  ASSUME TypeOK, ShapeInv
  PROVE  /\ Fresh \in Nat \ {0}
         /\ [id |-> Fresh, name |-> Name] \notin Known
<1> DEFINE U == {x \in Known : x.name = Name}
           used == {j.id : j \in U}
           f == [j \in U |-> j.id]
<1>1. IsFiniteSet(U)
  <2>1. IsFiniteSet(Known)
    BY JobsFinite, FS_Union DEF ShapeInv, Known
  <2> QED BY <2>1, FS_Subset
<1>2. IsFiniteSet({f[j] : j \in U})
  BY <1>1, ImageFinite
<1>3. {f[j] : j \in U} = used
  OBVIOUS
<1>4. IsFiniteSet(used)
  BY <1>2, <1>3
<1>5. Fresh = Min((1..Cardinality(used) + 1) \ used)
  BY DEF Fresh
<1>6. Fresh \in Nat \ {0} /\ Fresh \notin used
  BY <1>4, <1>5, FreshThere
<1>7. ASSUME NEW x \in Known, x = [id |-> Fresh, name |-> Name] PROVE FALSE
  <2>1. x.id = Fresh /\ x \in U
    BY <1>7
  <2> QED BY <1>6, <2>1
<1> QED BY <1>6, <1>7

-----------------------------------------------------------------------------
(* Types. *)

PoolType ==
  /\ closed \in BOOLEAN /\ workq \in Seq(Jobs \cup {SENTINEL})
  /\ workers \in [Threads -> WorkerState] /\ ready \subseteq Jobs
JobType ==
  /\ resultsq \in Seq([name: Names, status: {UP, DOWN, FAILURE}])
  /\ DOMAIN jobsStatus \subseteq Names /\ Range(jobsStatus) \subseteq 0..Timeout + 1
  /\ DOMAIN jobsResults \subseteq Names /\ Range(jobsResults) \subseteq Jobs
EventType == statuses \in [Evented -> Seq({UP, DOWN})] /\ notified \in [Evented -> {UP, DOWN}]
MainType ==
  /\ pc \in {"run", "check", "results", "take", "job", "get", "join", "start", "clean",
             "submit", "apply", "append", "put", "exit"}
  /\ turn \in DOMAIN Instances /\ loop \in 0..MaxLoopIterations /\ arg \in Names
  /\ back \in {"results", "job", "submit"}
FlagType ==
  /\ poolStarted \in BOOLEAN /\ nbFailures \in 0..PoolSize
  /\ handling \in {"no", "terminate", "join"} /\ stopped \in BOOLEAN
  /\ startFailures \in 0..MaxStartFailures

(* TypeOK, in the parts that a step changes together. *)
LEMMA TypeParts ==
  /\ TypeOK => PoolType /\ JobType /\ EventType /\ MainType /\ FlagType
  /\ PoolType' /\ JobType' /\ EventType' /\ MainType' /\ FlagType' => TypeOK'
BY DEF TypeOK, PoolType, JobType, EventType, MainType, FlagType

(* What a step leaves alone keeps its type. *)
LEMMA TypesUnchanged ==
  /\ PoolType /\ UNCHANGED poolVars => PoolType'
  /\ JobType /\ UNCHANGED jobVars => JobType'
  /\ EventType /\ UNCHANGED eventVars => EventType'
  /\ MainType /\ UNCHANGED mainVars => MainType'
  /\ FlagType /\ UNCHANGED <<poolStarted, nbFailures, handling, stopped, startFailures>> => FlagType'
<1>1. PoolType /\ UNCHANGED poolVars => PoolType'
  BY DEF PoolType, poolVars
<1>2. JobType /\ UNCHANGED jobVars => JobType'
  BY DEF JobType, jobVars
<1>3. EventType /\ UNCHANGED eventVars => EventType'
  BY DEF EventType, eventVars
<1>4. MainType /\ UNCHANGED mainVars => MainType'
  BY DEF MainType, mainVars
<1>5. FlagType /\ UNCHANGED <<poolStarted, nbFailures, handling, stopped, startFailures>> => FlagType'
  BY DEF FlagType
<1> QED BY <1>1, <1>2, <1>3, <1>4, <1>5

(* The end of an instance leads to the next one, or to the next run. *)
LEMMA EndTypes ==
  ASSUME MainType, EndInstance
  PROVE  MainType' /\ pc' \in {"run", "check"}
<1>1. (turn % Len(Instances)) + 1 \in DOMAIN Instances
  BY Constants DEF MainType
<1>2. Instances[1] \in Names /\ 0 \in 0..MaxLoopIterations
  BY Constants
<1> QED BY <1>1, <1>2 DEF MainType, EndInstance

(* Pool.terminate puts sentinels in the place of the jobs. *)
LEMMA TerminatedTypes ==
  ASSUME PoolType, Terminated
  PROVE  /\ PoolType' /\ closed' = TRUE /\ UNCHANGED <<workers, ready>>
         /\ \A i \in DOMAIN workq' : workq'[i] = SENTINEL
<1>1. workq' = [w \in 1..PoolSize |-> SENTINEL]
  BY DEF Terminated, Threads
<1>2. workq' \in Seq(Jobs \cup {SENTINEL})
  BY <1>1, Constants
<1>3. closed' = TRUE /\ UNCHANGED <<workers, ready>>
  BY DEF Terminated
<1> QED BY <1>1, <1>2, <1>3 DEF PoolType

(* The steps of the workers. *)
LEMMA TypesWorker ==
  ASSUME TypeOK, ShapeInv, NEW w \in Threads, Worker(w)
  PROVE  TypeOK'
<1>0. PoolType /\ JobType /\ EventType /\ MainType /\ FlagType
  BY TypeParts
<1>1. CASE Take(w)
  <2>1. UNCHANGED jobVars /\ UNCHANGED eventVars /\ UNCHANGED mainVars
        /\ UNCHANGED <<poolStarted, nbFailures, handling, stopped, startFailures>>
    BY <1>1 DEF Take
  <2>2. /\ Head(workq) \in Jobs \cup {SENTINEL} /\ Tail(workq) \in Seq(Jobs \cup {SENTINEL})
    BY <1>0, <1>1 DEF Take, PoolType
  <2>3. Exited \in WorkerState
    BY DEF Exited, WorkerState
  <2>4. ASSUME NEW j \in Jobs
        PROVE  [pc |-> "check", job |-> j, left |-> Results[j.name]] \in WorkerState
    <3>1. Results[j.name] \in Nat
      BY Constants DEF Jobs
    <3> QED BY <3>1 DEF WorkerState
  <2>5. workers' \in [Threads -> WorkerState]
    BY <1>0, <1>1, <2>2, <2>3, <2>4 DEF Take, PoolType
  <2>6. PoolType'
    BY <1>0, <1>1, <2>2, <2>5 DEF Take, PoolType
  <2> QED BY <1>0, <2>1, <2>6, TypeParts, TypesUnchanged
<1>2. CASE (\E status \in Statuses(workers[w].job.name) : PutResult(w, status)) \/ PutFailure(w)
  <2>1. PICK status \in {UP, DOWN, FAILURE}, left \in Nat : Put(w, status, left)
    <3>1. CASE PutFailure(w)
      BY <3>1 DEF PutFailure
    <3>2. CASE \E status \in Statuses(workers[w].job.name) : PutResult(w, status)
      <4>1. PICK status \in {UP, DOWN} : Put(w, status, workers[w].left - 1)
        BY <3>2 DEF PutResult, Statuses
      <4>2. workers[w].left - 1 \in Nat
        BY <1>0, <4>1 DEF PoolType, WorkerState, ShapeInv, Put
      <4> QED BY <4>1, <4>2
    <3> QED BY <1>2, <3>1, <3>2
  <2>2. UNCHANGED eventVars /\ UNCHANGED mainVars
        /\ UNCHANGED <<poolStarted, nbFailures, handling, stopped, startFailures>>
    BY <2>1 DEF Put
  <2>3. workers[w].job.name \in Names
    BY <2>1 DEF Put, ShapeInv, Busy, Jobs
  <2>4. JobType'
    BY <1>0, <2>1, <2>3 DEF Put, JobType
  <2>5. workers' \in [Threads -> WorkerState]
    BY <1>0, <2>1 DEF Put, PoolType, WorkerState
  <2>6. PoolType'
    BY <1>0, <2>1, <2>5 DEF Put, PoolType
  <2> QED BY <1>0, <2>2, <2>4, <2>6, TypeParts, TypesUnchanged
<1>3. CASE SetValue(w)
  <2>1. UNCHANGED jobVars /\ UNCHANGED eventVars /\ UNCHANGED mainVars
        /\ UNCHANGED <<poolStarted, nbFailures, handling, stopped, startFailures>>
    BY <1>3 DEF SetValue
  <2>2. workers[w].job \in Jobs
    BY <1>3 DEF SetValue, ShapeInv, Busy
  <2>3. Idle \in WorkerState
    BY DEF Idle, WorkerState
  <2>4. PoolType'
    BY <1>0, <1>3, <2>2, <2>3 DEF SetValue, PoolType
  <2> QED BY <1>0, <2>1, <2>4, TypeParts, TypesUnchanged
<1> QED BY <1>1, <1>2, <1>3 DEF Worker

\* The flags that only restarts of the pool and signals change.
flagVars == <<poolStarted, nbFailures, handling, stopped, startFailures>>

(* The steps of check() that leave the pool and the jobs alone. *)
LEMMA TypesCheck ==
  ASSUME TypeOK, Run \/ Check \/ NextResult \/ Empty \/ Skip \/ ApplyAsync \/ AcquireMutex
  PROVE  TypeOK'
<1>0. PoolType /\ JobType /\ EventType /\ MainType /\ FlagType
  BY TypeParts
<1>1. UNCHANGED poolVars /\ UNCHANGED jobVars /\ UNCHANGED eventVars /\ UNCHANGED flagVars
  BY DEF Run, Check, NextResult, Empty, Skip, ApplyAsync, AcquireMutex, flagVars
<1>2. MainType'
  <2>1. CASE Run \/ Check \/ AcquireMutex
    BY <1>0, <2>1 DEF Run, Check, AcquireMutex, MainType
  <2>2. CASE NextResult \/ Empty
    BY <1>0, <2>2, Constants DEF NextResult, Empty, MainType
  <2>3. CASE EndInstance
    BY <1>0, <2>3, EndTypes
  <2>4. CASE ApplyAsync /\ ~closed
    BY <1>0, <2>4 DEF ApplyAsync, MainType
  <2> QED BY <2>1, <2>2, <2>3, <2>4 DEF Skip, ApplyAsync
<1> QED BY <1>0, <1>1, <1>2, TypeParts, TypesUnchanged DEF flagVars

(* The results of the jobs. *)
LEMMA TypesTake ==
  ASSUME TypeOK, TakeFailure \/ TakeStatus
  PROVE  TypeOK'
<1>0. PoolType /\ JobType /\ EventType /\ MainType /\ FlagType
  BY TypeParts
<1> DEFINE h == Head(resultsq)
<1>1. h \in [name: Names, status: {UP, DOWN, FAILURE}]
      /\ Tail(resultsq) \in Seq([name: Names, status: {UP, DOWN, FAILURE}])
  <2> DEFINE R == [name: Names, status: {UP, DOWN, FAILURE}]
  <2>1. resultsq \in Seq(R) /\ resultsq # <<>>
    BY <1>0 DEF TakeFailure, TakeStatus, JobType
  <2> HIDE DEF R
  <2>2. h \in R /\ Tail(resultsq) \in Seq(R)
    BY <2>1
  <2> QED BY <2>2 DEF R
<1>2. JobType'
  BY <1>0, <1>1 DEF TakeFailure, TakeStatus, JobType
<1>3. CASE TakeFailure
  <2>1. UNCHANGED eventVars /\ UNCHANGED <<poolStarted, turn, loop, handling, stopped, startFailures>>
        /\ arg' \in Names
    BY <1>1, <1>3 DEF TakeFailure
  <2>2. CASE nbFailures + 1 >= PoolSize - 1
    <3>1. nbFailures' = 0 /\ back' = "job" /\ StopPool
      BY <1>3, <2>2 DEF TakeFailure
    <3>2. PoolType' /\ pc' \in {"join", "start"}
      BY <1>0, <3>1, TerminatedTypes, TypesUnchanged DEF StopPool
    <3>3. MainType' /\ FlagType'
      BY <1>0, <2>1, <3>1, <3>2, Constants DEF MainType, FlagType
    <3> QED BY <1>0, <1>2, <2>1, <3>2, <3>3, TypeParts, TypesUnchanged
  <2>3. CASE ~(nbFailures + 1 >= PoolSize - 1)
    <3>1. nbFailures' = nbFailures + 1 /\ pc' = "job" /\ back' = back /\ UNCHANGED poolVars
      BY <1>3, <2>3 DEF TakeFailure
    <3>2. nbFailures' \in 0..PoolSize
      BY <1>0, <2>3, <3>1, Constants DEF FlagType
    <3>3. MainType' /\ FlagType'
      BY <1>0, <2>1, <3>1, <3>2 DEF MainType, FlagType
    <3> QED BY <1>0, <1>2, <2>1, <3>1, <3>3, TypeParts, TypesUnchanged
  <2> QED BY <2>2, <2>3
<1>4. CASE TakeStatus
  <2>1. UNCHANGED poolVars /\ UNCHANGED <<poolStarted, nbFailures, handling, stopped, startFailures>>
        /\ UNCHANGED <<turn, loop, back>> /\ pc' = "job" /\ arg' = h.name /\ h.status # FAILURE
    BY <1>4 DEF TakeStatus
  <2>2. MainType'
    BY <1>0, <1>1, <2>1 DEF MainType
  <2>3. EventType'
    <3>1. CASE h.name \in Evented
      <4> DEFINE seq == Windowed(statuses[h.name], h.status)
                 new == IF NbDown(seq) >= Threshold THEN DOWN ELSE UP
      <4>1. /\ statuses' = [statuses EXCEPT ![h.name] = seq]
            /\ notified' = [notified EXCEPT ![h.name] = new]
        BY <1>4, <3>1 DEF TakeStatus
      <4>2. statuses[h.name] \in Seq({UP, DOWN}) /\ h.status \in {UP, DOWN}
        BY <1>0, <1>1, <2>1, <3>1 DEF EventType
      <4> HIDE DEF h
      <4>3. seq \in Seq({UP, DOWN})
        BY <4>2 DEF Windowed
      <4>4. new \in {UP, DOWN}
        OBVIOUS
      <4> HIDE DEF seq, new
      <4> QED BY <1>0, <4>1, <4>3, <4>4 DEF EventType
    <3>2. CASE h.name \notin Evented
      <4>1. UNCHANGED eventVars
        BY <1>4, <3>2 DEF TakeStatus
      <4> QED BY <1>0, <4>1, TypesUnchanged
    <3> QED BY <3>1, <3>2
  <2> QED BY <1>0, <1>2, <2>1, <2>2, <2>3, TypeParts, TypesUnchanged
<1> QED BY <1>3, <1>4

(* The tables of the jobs. *)
LEMMA TypesJobs ==
  ASSUME TypeOK, ShapeInv, CleanJob \/ Get \/ Submit \/ PutJob \/ Tick
  PROVE  TypeOK'
<1>0. PoolType /\ JobType /\ EventType /\ MainType /\ FlagType
  BY TypeParts
<1>1. UNCHANGED eventVars /\ UNCHANGED flagVars
  BY DEF CleanJob, Get, Submit, PutJob, Tick, flagVars
<1>2. CASE CleanJob
  <2>1. UNCHANGED poolVars /\ UNCHANGED <<resultsq, jobsResults>>
    BY <1>2 DEF CleanJob
  <2>2. /\ DOMAIN jobsStatus' \subseteq DOMAIN jobsStatus
        /\ \A n \in DOMAIN jobsStatus' : jobsStatus'[n] = jobsStatus[n]
    BY <1>2 DEF CleanJob, Restrict
  <2>3. JobType'
    BY <1>0, <2>1, <2>2 DEF JobType, Range
  <2>4. MainType'
    BY <1>0, <1>2, Constants DEF CleanJob, MainType
  <2> QED BY <1>0, <1>1, <2>1, <2>3, <2>4, TypeParts, TypesUnchanged DEF flagVars
<1>3. CASE Get
  <2>1. UNCHANGED <<closed, workq, workers, resultsq, jobsStatus>> /\ ready' \subseteq ready
    BY <1>3 DEF Get
  <2>2. /\ DOMAIN jobsResults' \subseteq DOMAIN jobsResults
        /\ \A n \in DOMAIN jobsResults' : jobsResults'[n] = jobsResults[n]
    BY <1>3 DEF Get, Restrict
  <2>3. JobType' /\ PoolType'
    BY <1>0, <2>1, <2>2 DEF JobType, Range, PoolType
  <2>4. MainType'
    BY <1>0, <1>3, Constants DEF Get, MainType
  <2> QED BY <1>0, <1>1, <2>3, <2>4, TypeParts, TypesUnchanged DEF flagVars
<1>4. CASE Submit
  <2>1. UNCHANGED poolVars /\ UNCHANGED <<resultsq, jobsResults>>
    BY <1>4 DEF Submit
  <2>2. Name \in Names
    BY <1>0, Constants DEF Name, MainType
  <2>3. JobType'
    <3>1. /\ DOMAIN jobsStatus' = DOMAIN jobsStatus \cup {Name}
          /\ \A n \in DOMAIN jobsStatus' : jobsStatus'[n] = IF n = Name THEN 0 ELSE jobsStatus[n]
      BY <1>4 DEF Submit
    <3>2. 0 \in 0..Timeout + 1
      BY Constants
    <3> QED BY <1>0, <2>1, <2>2, <3>1, <3>2 DEF JobType, Range
  <2>4. MainType'
    BY <1>0, <1>4 DEF Submit, MainType
  <2> QED BY <1>0, <1>1, <2>1, <2>3, <2>4, TypeParts, TypesUnchanged DEF flagVars
<1>5. CASE PutJob
  <2> DEFINE job == [id |-> Fresh, name |-> Name]
  <2>1. UNCHANGED <<closed, workers, ready, resultsq, jobsStatus>> /\ EndInstance
        /\ workq' = Append(workq, job)
        /\ jobsResults' = [n \in DOMAIN jobsResults \cup {Name} |->
                             IF n = Name THEN job ELSE jobsResults[n]]
    BY <1>5 DEF PutJob
  <2>2. Name \in Names
    BY <1>0, Constants DEF Name, MainType
  <2>3. job \in Jobs
    BY <2>2, FreshJob DEF Jobs
  <2> HIDE DEF job
  <2>4. JobType'
    BY <1>0, <2>1, <2>2, <2>3 DEF JobType, Range
  <2>5. PoolType'
    BY <1>0, <2>1, <2>3 DEF PoolType
  <2>6. MainType'
    BY <1>0, <2>1, EndTypes
  <2> QED BY <1>0, <1>1, <2>4, <2>5, <2>6, TypeParts, TypesUnchanged DEF flagVars
<1>6. CASE Tick
  <2>1. UNCHANGED poolVars /\ UNCHANGED mainVars /\ UNCHANGED <<resultsq, jobsResults>>
    BY <1>6 DEF Tick
  <2>2. jobsStatus' = [n \in DOMAIN jobsStatus |-> Min({jobsStatus[n] + 1, Timeout + 1})]
    BY <1>6 DEF Tick
  <2>3. \A n \in DOMAIN jobsStatus : jobsStatus[n] \in 0..Timeout + 1
    BY <1>0 DEF JobType, Range
  <2>4. \A n \in DOMAIN jobsStatus : Min({jobsStatus[n] + 1, Timeout + 1}) \in 0..Timeout + 1
    BY <2>3, Capped
  <2>5. DOMAIN jobsStatus' = DOMAIN jobsStatus
        /\ \A n \in DOMAIN jobsStatus : jobsStatus'[n] \in 0..Timeout + 1
    BY <2>2, <2>4
  <2>6. JobType'
    BY <1>0, <2>1, <2>5 DEF JobType, Range
  <2> QED BY <1>0, <1>1, <2>1, <2>6, TypeParts, TypesUnchanged DEF flagVars
<1> QED BY <1>2, <1>3, <1>4, <1>5, <1>6

(* The restarts and the end of the pool, and the signal. *)
LEMMA TypesPool ==
  ASSUME TypeOK, \/ Clean \/ Join \/ StartPool \/ StartPoolRaises
                 \/ StopTerminate \/ Stop \/ Sigterm \/ UNCHANGED vars
  PROVE  TypeOK'
<1>0. PoolType /\ JobType /\ EventType /\ MainType /\ FlagType
  BY TypeParts
<1>1. UNCHANGED eventVars
  BY DEF Clean, Join, StartPool, StartPoolRaises, StopTerminate, Stop, Sigterm, vars
<1>2. DOMAIN NoJob = {} /\ Range(NoJob) = {} /\ <<>> \in Seq([name: Names, status: {UP, DOWN, FAILURE}])
  BY DEF NoJob, Range
<1>3. CASE Clean
  <2>1. UNCHANGED jobVars /\ UNCHANGED flagVars /\ UNCHANGED <<turn, loop, arg>>
    BY <1>3 DEF Clean, flagVars
  <2>2. PoolType' /\ pc' \in {"join", "start", "submit"} /\ back' \in {"submit", back}
    BY <1>0, <1>3, TerminatedTypes, TypesUnchanged DEF Clean, StopPool
  <2>3. MainType'
    BY <1>0, <2>1, <2>2 DEF MainType
  <2> QED BY <1>0, <1>1, <2>1, <2>2, <2>3, TypeParts, TypesUnchanged DEF flagVars
<1>4. CASE Join
  <2>1. UNCHANGED poolVars /\ UNCHANGED flagVars /\ UNCHANGED <<turn, loop, arg, back>>
        /\ pc' = "start" /\ jobsStatus' = NoJob /\ UNCHANGED <<resultsq, jobsResults>>
    BY <1>4 DEF Join, flagVars
  <2>2. MainType' /\ JobType'
    BY <1>0, <1>2, <2>1 DEF MainType, JobType
  <2> QED BY <1>0, <1>1, <2>1, <2>2, TypeParts, TypesUnchanged DEF flagVars
<1>5. CASE StartPool
  <2>1. /\ closed' = FALSE /\ workq' = <<>> /\ ready' = {}
        /\ workers' = [w \in Threads |-> Idle]
        /\ resultsq' = <<>> /\ jobsStatus' = NoJob /\ jobsResults' = NoJob
        /\ poolStarted' = TRUE /\ pc' = back /\ back' = "results"
        /\ UNCHANGED <<turn, loop, arg, nbFailures, handling, stopped, startFailures>>
    BY <1>5 DEF StartPool
  <2>2. JobType' /\ MainType' /\ FlagType'
    BY <1>0, <1>2, <2>1 DEF JobType, MainType, FlagType
  <2>3. Idle \in WorkerState
    BY DEF Idle, WorkerState
  <2>4. PoolType'
    <3>1. workers' \in [Threads -> WorkerState]
      BY <2>1, <2>3
    <3>2. workq' \in Seq(Jobs \cup {SENTINEL})
      BY <2>1
    <3> QED BY <2>1, <3>1, <3>2 DEF PoolType
  <2> QED BY <1>0, <1>1, <2>2, <2>4, TypeParts, TypesUnchanged
<1>6. CASE StartPoolRaises
  <2>1. UNCHANGED poolVars /\ UNCHANGED jobVars /\ EndInstance
        /\ UNCHANGED <<poolStarted, nbFailures, handling, stopped>>
        /\ startFailures < MaxStartFailures /\ startFailures' = startFailures + 1
    BY <1>6 DEF StartPoolRaises
  <2>2. FlagType'
    BY <1>0, <2>1, Constants DEF FlagType
  <2>3. MainType'
    BY <1>0, <2>1, EndTypes
  <2> QED BY <1>0, <1>1, <2>1, <2>2, <2>3, TypeParts, TypesUnchanged
<1>7. CASE StopTerminate
  <2>1. UNCHANGED jobVars /\ UNCHANGED mainVars /\ Terminated /\ handling' = "join"
        /\ UNCHANGED <<poolStarted, nbFailures, stopped, startFailures>>
    BY <1>7 DEF StopTerminate
  <2>2. FlagType' /\ PoolType'
    BY <1>0, <2>1, TerminatedTypes DEF FlagType
  <2> QED BY <1>0, <1>1, <2>1, <2>2, TypeParts, TypesUnchanged
<1>8. CASE Stop
  <2>1. UNCHANGED poolVars /\ UNCHANGED mainVars /\ jobsStatus' = NoJob
        /\ UNCHANGED <<resultsq, jobsResults, nbFailures, stopped, startFailures>>
        /\ poolStarted' = FALSE /\ handling' = "no"
    BY <1>8 DEF Stop
  <2>2. FlagType' /\ JobType'
    BY <1>0, <1>2, <2>1 DEF FlagType, JobType
  <2> QED BY <1>0, <1>1, <2>1, <2>2, TypeParts, TypesUnchanged
<1>9. CASE Sigterm \/ UNCHANGED vars
  <2>1. UNCHANGED poolVars /\ UNCHANGED jobVars /\ UNCHANGED mainVars
        /\ UNCHANGED <<poolStarted, nbFailures, startFailures>>
        /\ handling' \in {handling, "terminate", "no"} /\ stopped' \in {stopped, TRUE}
    BY <1>9 DEF Sigterm, vars
  <2>2. FlagType'
    BY <1>0, <2>1 DEF FlagType
  <2> QED BY <1>0, <1>1, <2>1, <2>2, TypeParts, TypesUnchanged
<1> QED BY <1>3, <1>4, <1>5, <1>6, <1>7, <1>8, <1>9

-----------------------------------------------------------------------------
(* The jobs and the pool. *)

Flow == ShapeInv /\ PoolInv /\ PlaceInv /\ RecordInv /\ AnswerInv

(* The jobs that a step leaves with the workers and in the queue. *)
LEMMA JobsKept ==
  /\ (Busy' = Busy /\ \A w \in Busy : workers'[w].job = workers[w].job) => Running' = Running
  /\ workq' = workq => Queued' = Queued
  /\ workers' = workers => Running' = Running /\ Busy' = Busy
  /\ Running' = {workers'[w].job : w \in Busy'}
<1>1. Running' = {workers'[w].job : w \in Busy'} /\ Running = {workers[w].job : w \in Busy}
  BY DEF Running, Busy
<1>2. workq' = workq => Queued' = Queued
  BY DEF Queued
<1>3. workers' = workers => Running' = Running /\ Busy' = Busy
  BY DEF Running, Busy
<1> QED BY <1>1, <1>2, <1>3

\* A step that moves no job, changes no table of jobs, and goes on in check() as it should.
Quiet ==
  /\ UNCHANGED <<closed, workq, ready, poolStarted, jobsResults>>
  /\ DOMAIN jobsStatus' = DOMAIN jobsStatus
  /\ Busy' = Busy /\ \A w \in Busy : workers'[w].job = workers[w].job
  /\ \A w \in Threads : workers[w] = Exited => workers'[w] = Exited
  /\ \A w \in Threads : workers'[w].pc = "check" => workers'[w].left >= 1
  \* the main thread
  /\ pc = "get" \/ pc' = "get" => pc' = pc /\ arg' = arg
  /\ pc' = "join" => pc = "join"
  /\ pc' \in {"apply", "append", "put"} => pc \in {"apply", "append", "put"} /\ turn' = turn
  /\ pc' \in {"append", "put"} => pc \in {"append", "put"} \/ ~closed
  /\ pc \in {"run", "check", "start", "exit"} =>
       pc' \in {"run", "check", "start", "exit"} \/ poolStarted
  /\ ~stopped' => ~stopped
  \* the handler
  /\ handling' # "no" => pc' = pc /\ stopped' /\ poolStarted /\ pc \notin {"get", "join", "exit"}
  /\ handling' = "join" <=> handling = "join"

(* Such a step keeps what is known of the jobs and the pool. *)
LEMMA FlowQuiet ==
  ASSUME Flow, Quiet
  PROVE  Flow'
<1>1. Running' = Running /\ Queued' = Queued
  BY JobsKept DEF Quiet
<1>2. ShapeInv'
  BY DEF Flow, ShapeInv, Quiet
<1>3. PoolInv'
  BY <1>1 DEF Flow, PoolInv, Quiet
<1>4. PlaceInv'
  BY <1>1 DEF Flow, PlaceInv, Quiet
<1>5. RecordInv'
  <2>1. pc' \in {"apply", "append", "put"} => pc \in {"apply", "append", "put"} /\ Name' = Name
    BY DEF Quiet, Name
  <2> QED BY <1>1, <2>1 DEF Flow, RecordInv, Quiet
<1>6. AnswerInv'
  BY <1>1 DEF Flow, AnswerInv, Quiet
<1> QED BY <1>2, <1>3, <1>4, <1>5, <1>6 DEF Flow

(* The steps of check() that only move the main thread. *)
LEMMA QuietMain ==
  ASSUME TypeOK, Flow, \/ Run \/ Check \/ NextResult \/ Empty \/ Skip \/ ApplyAsync \/ AcquireMutex
                       \/ TakeStatus \/ StartPoolRaises
  PROVE  Quiet
<1>1. /\ UNCHANGED <<closed, workq, workers, ready, poolStarted, jobsStatus, jobsResults, handling,
                     stopped>>
      /\ handling = "no" /\ pc \notin {"get", "join"}
  BY DEF Run, Check, NextResult, Empty, Skip, ApplyAsync, AcquireMutex, TakeStatus, StartPoolRaises,
         poolVars, jobVars
<1>2. /\ Busy' = Busy /\ \A w \in Busy : workers'[w].job = workers[w].job
      /\ \A w \in Threads : workers[w] = Exited => workers'[w] = Exited
      /\ \A w \in Threads : workers'[w].pc = "check" => workers'[w].left >= 1
  BY <1>1 DEF Busy, Flow, ShapeInv
<1>3. /\ pc' \notin {"get", "join"}
      /\ pc' \in {"apply", "append", "put"} => pc \in {"apply", "append", "put"} /\ turn' = turn
      /\ pc' \in {"append", "put"} => pc \in {"append", "put"} \/ ~closed
      /\ pc \in {"run", "check", "start", "exit"} =>
           pc' \in {"run", "check", "start", "exit"} \/ poolStarted
  BY DEF Run, Check, NextResult, Empty, Skip, ApplyAsync, AcquireMutex, TakeStatus, StartPoolRaises,
         EndInstance
<1> QED BY <1>1, <1>2, <1>3 DEF Quiet

(* A restart when there is no pool, or when there is no reason for one. *)
LEMMA QuietRestart ==
  ASSUME TypeOK, Flow, TakeFailure \/ Clean, UNCHANGED poolVars, pc' # "join"
  PROVE  Quiet
<1>1. /\ UNCHANGED <<closed, workq, workers, ready, poolStarted, jobsStatus, jobsResults, handling,
                     stopped, startFailures>>
      /\ handling = "no" /\ pc \in {"take", "clean"}
  BY DEF TakeFailure, Clean, poolVars, jobVars
<1>2. /\ Busy' = Busy /\ \A w \in Busy : workers'[w].job = workers[w].job
      /\ \A w \in Threads : workers[w] = Exited => workers'[w] = Exited
      /\ \A w \in Threads : workers'[w].pc = "check" => workers'[w].left >= 1
  BY <1>1 DEF Busy, Flow, ShapeInv
<1>3. pc' \in {"start", "job", "submit"}
  BY DEF TakeFailure, Clean, StopPool
<1> QED BY <1>1, <1>2, <1>3 DEF Quiet

(* The signal, the clock, and a result that a worker puts in the queue. *)
LEMMA QuietOthers ==
  ASSUME TypeOK, Flow,
         \/ Sigterm \/ Tick \/ UNCHANGED vars
         \/ \E w \in Threads : PutFailure(w) \/ \E status \in {UP, DOWN} : PutResult(w, status)
  PROVE  Quiet
<1>1. CASE Sigterm \/ Tick \/ UNCHANGED vars
  <2>1. UNCHANGED <<closed, workq, workers, ready, poolStarted, jobsResults, pc, turn, arg,
                    startFailures>> /\ DOMAIN jobsStatus' = DOMAIN jobsStatus
    BY <1>1 DEF Sigterm, Tick, vars, poolVars, jobVars, mainVars
  <2>2. /\ Busy' = Busy /\ \A w \in Busy : workers'[w].job = workers[w].job
        /\ \A w \in Threads : workers[w] = Exited => workers'[w] = Exited
        /\ \A w \in Threads : workers'[w].pc = "check" => workers'[w].left >= 1
    BY <2>1 DEF Busy, Flow, ShapeInv
  <2>3. /\ ~stopped' => ~stopped
        /\ handling' # "no" => stopped' /\ poolStarted /\ pc \notin {"get", "join", "exit"}
        /\ handling' = "join" <=> handling = "join"
    <3>1. CASE Sigterm
      BY <3>1 DEF Sigterm
    <3>2. CASE Tick \/ UNCHANGED vars
      BY <3>2 DEF Tick, vars, Flow, PoolInv
    <3> QED BY <1>1, <3>1, <3>2
  <2>4. /\ pc' \in {"append", "put"} => pc \in {"append", "put"}
        /\ pc \in {"run", "check", "start", "exit"} => pc' \in {"run", "check", "start", "exit"}
    BY <2>1
  <2> QED BY <2>1, <2>2, <2>3, <2>4 DEF Quiet
<1>2. CASE \E w \in Threads : PutFailure(w) \/ \E status \in {UP, DOWN} : PutResult(w, status)
  <2>1. PICK w \in Threads, status \in {UP, DOWN, FAILURE}, left \in Nat : Put(w, status, left)
    <3>1. PICK w \in Threads : PutFailure(w) \/ \E status \in {UP, DOWN} : PutResult(w, status)
      BY <1>2
    <3>2. workers[w].pc = "check" => workers[w].left - 1 \in Nat
      BY DEF TypeOK, WorkerState, Flow, ShapeInv
    <3>3. CASE PutFailure(w)
      BY <3>3 DEF PutFailure
    <3>4. CASE \E status \in {UP, DOWN} : PutResult(w, status)
      <4>1. PICK status \in {UP, DOWN} : Put(w, status, workers[w].left - 1)
        BY <3>4 DEF PutResult
      <4>2. workers[w].pc = "check"
        BY <4>1 DEF Put
      <4> QED BY <3>2, <4>1, <4>2
    <3> QED BY <3>1, <3>3, <3>4
  <2>2. /\ workers[w].pc = "check" /\ UNCHANGED <<closed, workq, ready, poolStarted, jobsStatus,
             jobsResults, pc, turn, arg, handling, stopped, startFailures>>
        /\ workers' = [workers EXCEPT ![w].left = left, ![w].pc = IF left = 0 THEN "set" ELSE @]
    BY <2>1 DEF Put, mainVars
  <2>3. /\ \A v \in Threads : v # w => workers'[v] = workers[v]
        /\ workers'[w].pc = IF left = 0 THEN "set" ELSE "check"
        /\ workers'[w].left = left /\ workers'[w].job = workers[w].job
    BY <2>2 DEF TypeOK, WorkerState
  <2>4. /\ Busy' = Busy /\ \A v \in Busy : workers'[v].job = workers[v].job
    BY <2>2, <2>3 DEF Busy
  <2>5. \A v \in Threads : workers[v] = Exited => workers'[v] = Exited
    <3>1. Exited.pc # "check"
      BY DEF Exited
    <3> QED BY <2>2, <2>3, <3>1
  <2>6. \A v \in Threads : workers'[v].pc = "check" => workers'[v].left >= 1
    BY <2>1, <2>3 DEF Flow, ShapeInv
  <2>7. handling' # "no" => stopped' /\ poolStarted /\ pc \notin {"get", "join", "exit"}
    BY <2>2 DEF Flow, PoolInv
  <2> QED BY <2>2, <2>4, <2>5, <2>6, <2>7 DEF Quiet
<1> QED BY <1>1, <1>2

(* A job goes from the queue to a worker. *)
LEMMA FlowTake ==
  ASSUME TypeOK, Flow, NEW w \in Threads, Take(w)
  PROVE  Flow'
<1> DEFINE j == Head(workq)
<1>1. /\ workers[w].pc = "get" /\ workq # <<>> /\ workq' = Tail(workq)
      /\ workers' = [workers EXCEPT ![w] = IF j = SENTINEL THEN Exited
                       ELSE [pc |-> "check", job |-> j, left |-> Results[j.name]]]
      /\ UNCHANGED <<closed, ready, poolStarted, jobsStatus, jobsResults, pc, turn, arg, handling,
                     stopped, startFailures>>
  BY DEF Take, jobVars, mainVars
<1>2. /\ \A v \in Threads : v # w => workers'[v] = workers[v]
      /\ workers'[w] = IF j = SENTINEL THEN Exited
                       ELSE [pc |-> "check", job |-> j, left |-> Results[j.name]]
  BY <1>1 DEF TypeOK
<1>3. /\ j \in Jobs \cup {SENTINEL} /\ 1 \in DOMAIN workq /\ j = workq[1]
      /\ \A i \in DOMAIN workq' : i + 1 \in DOMAIN workq /\ i + 1 # 1 /\ workq'[i] = workq[i + 1]
      /\ \A i \in DOMAIN workq : i = 1 \/ (i - 1 \in DOMAIN workq' /\ workq'[i - 1] = workq[i])
  <2> DEFINE E == Jobs \cup {SENTINEL}
  <2>1. workq \in Seq(E) /\ workq # <<>> /\ workq' = Tail(workq)
    BY <1>1 DEF TypeOK
  <2> HIDE DEF E
  <2>2. /\ j \in E /\ 1 \in DOMAIN workq /\ j = workq[1]
        /\ \A i \in DOMAIN workq' : i + 1 \in DOMAIN workq /\ i + 1 # 1 /\ workq'[i] = workq[i + 1]
        /\ \A i \in DOMAIN workq : i = 1 \/ (i - 1 \in DOMAIN workq' /\ workq'[i - 1] = workq[i])
    BY <2>1
  <2> QED BY <2>2 DEF E
<1> HIDE DEF j
<1>4. poolStarted
  <2>1. workers[w] # Exited
    BY <1>1 DEF Exited
  <2> QED BY <2>1 DEF Flow, PoolInv
<1>5. /\ Queued' \subseteq Queued /\ Queued \subseteq Queued' \cup {j}
      /\ j # SENTINEL => j \in Queued /\ j \notin Queued'
  BY <1>3 DEF Queued, Flow, PlaceInv
<1>6. /\ j = SENTINEL => Busy' = Busy
      /\ j # SENTINEL => Busy' = Busy \cup {w} /\ workers'[w].job = j
      /\ \A v \in Busy : workers'[v].job = workers[v].job /\ v # w
  <2>1. Exited.pc = "exited"
    BY DEF Exited
  <2>2. workers'[w].pc = IF j = SENTINEL THEN "exited" ELSE "check"
    BY <1>2, <2>1
  <2> QED BY <1>1, <1>2, <2>2 DEF Busy
<1>7. /\ j = SENTINEL => Running' = Running /\ Queued' = Queued
      /\ j # SENTINEL => Running' = Running \cup {j} /\ Queued' = Queued \ {j}
  <2>1. SENTINEL \notin Queued
    BY DEF Queued
  <2>2. CASE j = SENTINEL
    <3>1. Running' = Running
      BY <1>6, <2>2, JobsKept
    <3> QED BY <1>5, <2>1, <2>2, <3>1
  <2>3. CASE j # SENTINEL
    <3>1. Running' = {workers'[v].job : v \in Busy \cup {w}}
      BY <1>6, <2>3, JobsKept
    <3>2. Running = {workers[v].job : v \in Busy}
      BY RunningQueued
    <3>3. Running' = Running \cup {j}
      BY <1>6, <2>3, <3>1, <3>2
    <3> QED BY <1>5, <2>3, <3>3
  <2> QED BY <2>2, <2>3
<1>8. Running' \cup Queued' = Running \cup Queued
  BY <1>5, <1>7
<1>9. ShapeInv'
  <2>1. \A v \in Busy' : workers'[v].job \in Jobs
    BY <1>3, <1>6 DEF Flow, ShapeInv
  <2>2. \A v \in Threads : workers'[v].pc = "check" => workers'[v].left >= 1
    <3>1. j \in Jobs => Results[j.name] >= 1
      BY Constants DEF Jobs
    <3>2. Exited.pc # "check"
      BY DEF Exited
    <3> QED BY <1>2, <1>3, <3>1, <3>2 DEF Flow, ShapeInv
  <2> QED BY <1>1, <2>1, <2>2 DEF Flow, ShapeInv
<1>10. PoolInv'
  BY <1>1, <1>4, <1>5 DEF Flow, PoolInv
<1>11. PlaceInv'
  <2>1. \A i, k \in DOMAIN workq' : workq'[i] = workq'[k] /\ workq'[i] # SENTINEL => i = k
    <3>1. \A i, k \in DOMAIN workq' : i + 1 = k + 1 => i = k
      BY <1>1 DEF TypeOK
    <3> QED BY <1>3, <3>1 DEF Flow, PlaceInv
  <2>2. \A u, v \in Busy' : workers'[u].job = workers'[v].job => u = v
    <3>1. \A v \in Busy : j # SENTINEL => workers[v].job # j
      BY <1>5, RunningQueued DEF Flow, PlaceInv
    <3> QED BY <1>6, <3>1 DEF Flow, PlaceInv
  <2>3. Running' \cap Queued' = {}
    BY <1>7 DEF Flow, PlaceInv
  <2>4. ready \cap (Running' \cup Queued') = {}
    BY <1>8 DEF Flow, PlaceInv
  <2> QED BY <1>1, <2>1, <2>2, <2>3, <2>4 DEF PlaceInv
<1>12. RecordInv'
  <2>1. Name' = Name
    BY <1>1 DEF Name
  <2> QED BY <1>1, <1>8, <2>1 DEF Flow, RecordInv
<1>13. AnswerInv'
  <2>1. ready' \cup Running' \cup Queued' = ready \cup Running \cup Queued
    BY <1>1, <1>8
  <2> QED BY <1>1, <2>1 DEF Flow, AnswerInv
<1> QED BY <1>9, <1>10, <1>11, <1>12, <1>13 DEF Flow

(* A job is done. *)
LEMMA FlowSetValue ==
  ASSUME TypeOK, Flow, NEW w \in Threads, SetValue(w)
  PROVE  Flow'
<1> DEFINE j == workers[w].job
<1>1. /\ workers[w].pc = "set" /\ ready' = ready \cup {j} /\ workers' = [workers EXCEPT ![w] = Idle]
      /\ UNCHANGED <<closed, workq, poolStarted, jobsStatus, jobsResults, pc, turn, arg, handling,
                     stopped, startFailures>>
  BY DEF SetValue, jobVars, mainVars
<1>2. workers'[w] = Idle /\ \A v \in Threads : v # w => workers'[v] = workers[v]
  BY <1>1 DEF TypeOK
<1>3. w \in Busy /\ Busy' = Busy \ {w} /\ Idle.pc = "get"
  <2>1. Idle.pc = "get"
    BY DEF Idle
  <2> QED BY <1>1, <1>2, <2>1 DEF Busy
<1>4. j \in Jobs /\ j \in Running /\ \A v \in Busy : v # w => workers[v].job # j
  BY <1>3, RunningQueued DEF Flow, ShapeInv, PlaceInv
<1>5. Running' = Running \ {j} /\ Queued' = Queued
  <2>1. \A v \in Busy' : workers'[v].job = workers[v].job /\ v # w
    BY <1>2, <1>3 DEF Busy
  <2>2. Running' = {workers[v].job : v \in Busy'}
    BY <2>1, JobsKept
  <2> QED BY <1>1, <1>3, <1>4, <2>2, JobsKept, RunningQueued
<1> HIDE DEF j
<1>6. ShapeInv'
  <2>1. IsFiniteSet(ready')
    BY <1>1, FS_AddElement DEF Flow, ShapeInv
  <2>2. \A v \in Busy' : workers'[v].job \in Jobs
    BY <1>2, <1>3 DEF Flow, ShapeInv, Busy
  <2>3. \A v \in Threads : workers'[v].pc = "check" => workers'[v].left >= 1
    BY <1>2, <1>3 DEF Flow, ShapeInv
  <2> QED BY <1>1, <2>1, <2>2, <2>3 DEF Flow, ShapeInv
<1>7. PoolInv'
  <2>1. workers[w] # Exited
    BY <1>1 DEF Exited
  <2>2. poolStarted
    BY <2>1 DEF Flow, PoolInv
  <2> QED BY <1>1, <1>5, <2>2 DEF Flow, PoolInv
<1>8. PlaceInv'
  <2>1. \A u, v \in Busy' : workers'[u].job = workers'[v].job => u = v
    BY <1>2, <1>3 DEF Flow, PlaceInv, Busy
  <2>2. ready' \cap (Running' \cup Queued') = {}
    BY <1>1, <1>4, <1>5 DEF Flow, PlaceInv
  <2> QED BY <1>1, <1>5, <2>1, <2>2 DEF Flow, PlaceInv
<1>9. RecordInv'
  <2>1. Name' = Name
    BY <1>1 DEF Name
  <2> QED BY <1>1, <1>5, <2>1 DEF Flow, RecordInv
<1>10. AnswerInv'
  <2>1. ready' \cup Running' \cup Queued' = ready \cup Running \cup Queued
    BY <1>1, <1>4, <1>5
  <2> QED BY <1>1, <2>1 DEF Flow, AnswerInv
<1> QED BY <1>6, <1>7, <1>8, <1>9, <1>10 DEF Flow

(* Nobody runs a job when all the workers have exited. *)
LEMMA NobodyRuns ==
  ASSUME \A w \in Threads : workers[w] = Exited
  PROVE  Busy = {} /\ Running = {}
<1>1. Exited.pc = "exited"
  BY DEF Exited
<1>2. Busy = {}
  BY <1>1 DEF Busy
<1> QED BY <1>2, RunningQueued

(* The jobs in the queue are thrown away, by a restart or by the handler. *)
LEMMA FlowTerminate ==
  ASSUME TypeOK, Flow, Terminated, poolStarted,
         UNCHANGED <<poolStarted, jobsStatus, jobsResults, turn, stopped, startFailures>>,
         \/ pc' = "join" /\ pc \in {"take", "clean"} /\ handling = "no" /\ handling' = "no"
         \/ UNCHANGED <<pc, arg>> /\ handling = "terminate" /\ handling' = "join"
  PROVE  Flow'
<1>1. /\ closed' = TRUE /\ UNCHANGED <<workers, ready>>
      /\ \A i \in DOMAIN workq' : workq'[i] = SENTINEL
  BY TerminatedTypes, TypeParts
<1>2. Queued' = {} /\ Running' = Running /\ Busy' = Busy
  <2>1. Queued' = {}
    BY <1>1 DEF Queued
  <2> QED BY <1>1, <2>1, JobsKept
<1>3. pc # "get" /\ pc' # "get"
  BY DEF Flow, PoolInv
<1>4. ShapeInv'
  BY <1>1, <1>2, <1>3 DEF Flow, ShapeInv
<1>5. PoolInv'
  BY <1>1, <1>2 DEF Flow, PoolInv
<1>6. PlaceInv'
  BY <1>1, <1>2 DEF Flow, PlaceInv
<1>7. RecordInv'
  <2>1. Name' = Name
    BY DEF Name
  <2>2. pc' \in {"apply", "append", "put"} => pc' = pc
    OBVIOUS
  <2> QED BY <1>2, <1>3, <2>1, <2>2 DEF Flow, RecordInv
<1>8. AnswerInv'
  BY <1>1 DEF AnswerInv
<1> QED BY <1>4, <1>5, <1>6, <1>7, <1>8 DEF Flow

(* A restart of the pool in use, for the failures of the jobs or the age of one. *)
LEMMA FlowRestart ==
  ASSUME TypeOK, Flow, TakeFailure \/ Clean
  PROVE  Flow'
<1>1. CASE UNCHANGED poolVars /\ pc' # "join"
  BY <1>1, QuietRestart, FlowQuiet
<1>2. CASE ~(UNCHANGED poolVars /\ pc' # "join")
  <2>1. Terminated /\ pc' = "join" /\ poolStarted /\ pc \in {"take", "clean"} /\ handling = "no"
        /\ UNCHANGED <<poolStarted, jobsStatus, jobsResults, turn, stopped, startFailures, handling>>
    BY <1>2 DEF TakeFailure, Clean, StopPool, jobVars
  <2> QED BY <2>1, FlowTerminate
<1> QED BY <1>1, <1>2

(* The workers have exited, and the pool has no job. *)
LEMMA FlowJoin ==
  ASSUME TypeOK, Flow, Join \/ Stop
  PROVE  Flow'
<1>1. /\ closed /\ poolStarted /\ \A w \in Threads : workers[w] = Exited
      /\ UNCHANGED <<closed, workq, workers, ready, jobsResults, startFailures, stopped>>
      /\ handling' = "no"
  BY DEF Join, Stop, Joined, poolVars, Flow, PoolInv
<1>2. /\ Queued = {} /\ Running = {} /\ Busy = {}
      /\ Queued' = {} /\ Running' = {} /\ Busy' = {}
  BY <1>1, NobodyRuns, JobsKept DEF Flow, PoolInv
<1>3. \/ pc' = "start" /\ UNCHANGED poolStarted
      \/ UNCHANGED <<pc, arg>> /\ pc \notin {"get", "join", "exit"} /\ stopped /\ ~poolStarted'
  BY DEF Join, Stop, mainVars, Flow, PoolInv
<1>4. ShapeInv'
  BY <1>1, <1>2, <1>3 DEF Flow, ShapeInv
<1>5. PoolInv'
  BY <1>1, <1>2, <1>3 DEF PoolInv
<1>6. PlaceInv'
  BY <1>1, <1>2 DEF Flow, PlaceInv
<1>7. RecordInv'
  BY <1>2, <1>3 DEF RecordInv
<1>8. AnswerInv'
  BY <1>1, <1>3 DEF AnswerInv
<1> QED BY <1>4, <1>5, <1>6, <1>7, <1>8 DEF Flow

(* The new pool has no job, nor have the tables of the check. *)
LEMMA FlowStart ==
  ASSUME TypeOK, Flow, StartPool
  PROVE  Flow'
<1>1. /\ closed' = FALSE /\ workq' = <<>> /\ ready' = {} /\ workers' = [w \in Threads |-> Idle]
      /\ DOMAIN jobsResults' = {} /\ poolStarted' /\ pc' \in {"results", "job", "submit"}
      /\ handling' = "no"
  BY DEF StartPool, NoJob, TypeOK
<1>2. \A w \in Threads : workers'[w].pc = "get"
  <2>1. Idle.pc = "get"
    BY DEF Idle
  <2> QED BY <1>1, <2>1
<1>3. Busy' = {} /\ Running' = {} /\ Queued' = {}
  <2>1. Busy' = {}
    BY <1>2 DEF Busy
  <2>2. DOMAIN workq' = {}
    BY <1>1
  <2> QED BY <2>1, <2>2, JobsKept DEF Queued
<1>4. ShapeInv'
  BY <1>1, <1>2, <1>3, FS_EmptySet DEF ShapeInv
<1>5. PoolInv'
  BY <1>1, <1>3 DEF PoolInv
<1>6. PlaceInv'
  <2>1. DOMAIN workq' = {}
    BY <1>1
  <2> QED BY <1>1, <1>3, <2>1 DEF PlaceInv
<1>7. RecordInv' /\ AnswerInv'
  BY <1>1, <1>3 DEF RecordInv, AnswerInv
<1> QED BY <1>4, <1>5, <1>6, <1>7 DEF Flow

(* A result ends the entry of its job, whose end is then awaited. *)
LEMMA FlowCleanJob ==
  ASSUME TypeOK, Flow, CleanJob
  PROVE  Flow'
<1>1. /\ pc = "job" /\ DOMAIN jobsStatus' = DOMAIN jobsStatus \ {arg}
      /\ \/ arg \in DOMAIN jobsResults /\ pc' = "get" /\ arg' = arg
         \/ arg \notin DOMAIN jobsResults /\ pc' = "results"
      /\ UNCHANGED <<closed, workq, workers, ready, poolStarted, jobsResults, handling, stopped,
                     startFailures>> /\ handling = "no"
  BY DEF CleanJob, Restrict, poolVars
<1>2. Running' = Running /\ Queued' = Queued /\ Busy' = Busy
  BY <1>1, JobsKept
<1>3. ShapeInv'
  BY <1>1, <1>2 DEF Flow, ShapeInv
<1>4. PoolInv'
  BY <1>1, <1>2 DEF Flow, PoolInv
<1>5. PlaceInv'
  BY <1>1, <1>2 DEF Flow, PlaceInv
<1>6. RecordInv'
  BY <1>1, <1>2 DEF Flow, RecordInv
<1>7. AnswerInv'
  BY <1>1, <1>2 DEF Flow, AnswerInv
<1> QED BY <1>3, <1>4, <1>5, <1>6, <1>7 DEF Flow

(* The end of the job comes, and the instance has none any more. *)
LEMMA FlowGet ==
  ASSUME TypeOK, Flow, Get
  PROVE  Flow'
<1> DEFINE j == jobsResults[arg]
<1>1. /\ pc = "get" /\ j \in ready /\ ready' = ready \ {j} /\ pc' = "results"
      /\ DOMAIN jobsResults' = DOMAIN jobsResults \ {arg}
      /\ \A n \in DOMAIN jobsResults' : jobsResults'[n] = jobsResults[n]
      /\ UNCHANGED <<closed, workq, workers, poolStarted, jobsStatus, handling, stopped,
                     startFailures>>
  BY DEF Get, Restrict
<1>2. Running' = Running /\ Queued' = Queued /\ Busy' = Busy
  BY <1>1, JobsKept
<1>3. arg \in DOMAIN jobsResults /\ j.name = arg /\ \A i \in Running \cup Queued : i.name # arg
  BY <1>1 DEF Flow, ShapeInv, PlaceInv, RecordInv
<1> HIDE DEF j
<1>4. ShapeInv'
  <2>1. IsFiniteSet(ready')
    BY <1>1, FS_RemoveElement DEF Flow, ShapeInv
  <2> QED BY <1>1, <1>2, <2>1 DEF Flow, ShapeInv
<1>5. PoolInv'
  BY <1>1, <1>2 DEF Flow, PoolInv
<1>6. PlaceInv'
  BY <1>1, <1>2 DEF Flow, PlaceInv
<1>7. RecordInv'
  BY <1>1, <1>2, <1>3 DEF Flow, RecordInv
<1>8. AnswerInv'
  <2>1. \A n \in DOMAIN jobsResults' : jobsResults[n] # j
    BY <1>1, <1>3 DEF Flow, ShapeInv
  <2> QED BY <1>1, <1>2, <2>1 DEF Flow, AnswerInv
<1> QED BY <1>4, <1>5, <1>6, <1>7, <1>8 DEF Flow

(* An instance without an entry has no job in the pool. *)
LEMMA FlowSubmit ==
  ASSUME TypeOK, Flow, Submit
  PROVE  Flow'
<1>1. /\ pc = "submit" /\ handling = "no" /\ Name \notin DOMAIN jobsStatus /\ pc' = "apply"
      /\ DOMAIN jobsStatus' = DOMAIN jobsStatus \cup {Name}
      /\ UNCHANGED <<closed, workq, workers, ready, poolStarted, jobsResults, turn, handling,
                     stopped, startFailures>>
  BY DEF Submit, poolVars
<1>2. Running' = Running /\ Queued' = Queued /\ Busy' = Busy /\ Name' = Name
  BY <1>1, JobsKept DEF Name
<1>3. \A j \in Running \cup Queued : j.name # Name
  <2>1. CASE poolStarted
    BY <1>1, <2>1 DEF Flow, RecordInv
  <2>2. CASE ~poolStarted
    <3>1. Running = {} /\ Queued = {}
      BY <1>1, <2>2, NobodyRuns DEF Flow, PoolInv
    <3> QED BY <3>1
  <2> QED BY <2>1, <2>2
<1>4. ShapeInv'
  BY <1>1, <1>2 DEF Flow, ShapeInv
<1>5. PoolInv'
  BY <1>1, <1>2 DEF Flow, PoolInv
<1>6. PlaceInv'
  BY <1>1, <1>2 DEF Flow, PlaceInv
<1>7. RecordInv'
  BY <1>1, <1>2, <1>3 DEF Flow, RecordInv
<1>8. AnswerInv'
  BY <1>1, <1>2 DEF Flow, AnswerInv
<1> QED BY <1>4, <1>5, <1>6, <1>7, <1>8 DEF Flow

(* The job that is put in the queue is the only one of its instance. *)
LEMMA FlowPutJob ==
  ASSUME TypeOK, Flow, PutJob
  PROVE  Flow'
<1> DEFINE job == [id |-> Fresh, name |-> Name]
<1>1. /\ pc = "put" /\ handling = "no" /\ workq' = Append(workq, job)
      /\ jobsResults' = [n \in DOMAIN jobsResults \cup {Name} |->
                           IF n = Name THEN job ELSE jobsResults[n]]
      /\ pc' \in {"run", "check"}
      /\ UNCHANGED <<closed, workers, ready, poolStarted, jobsStatus, handling, stopped,
                     startFailures>>
  BY DEF PutJob, EndInstance
<1>2. job.name = Name /\ job # SENTINEL
      /\ \A j \in Running \cup Queued \cup Range(jobsResults) \cup ready : j # job
  BY FreshJob DEF Flow, SENTINEL, Known
<1> HIDE DEF job
<1>3. /\ DOMAIN workq' = DOMAIN workq \cup {Len(workq) + 1} /\ Len(workq) + 1 \notin DOMAIN workq
      /\ workq'[Len(workq) + 1] = job
      /\ \A i \in DOMAIN workq : workq'[i] = workq[i]
  <2> DEFINE E == Jobs \cup {SENTINEL}
  <2>1. workq \in Seq(E)
    BY DEF TypeOK
  <2> HIDE DEF E
  <2> QED BY <1>1, <2>1
<1>4. Queued' = Queued \cup {job}
  BY <1>2, <1>3 DEF Queued
<1>5. Running' = Running /\ Busy' = Busy
  BY <1>1, JobsKept
<1>6. ShapeInv'
  BY <1>1, <1>2, <1>5 DEF Flow, ShapeInv
<1>7. PoolInv'
  BY <1>1, <1>5 DEF Flow, PoolInv
<1>8. PlaceInv'
  <2>1. \A i, k \in DOMAIN workq' : workq'[i] = workq'[k] /\ workq'[i] # SENTINEL => i = k
    <3>1. \A i \in DOMAIN workq : workq[i] # job
      BY <1>2, RunningQueued
    <3> QED BY <1>3, <3>1 DEF Flow, PlaceInv
  <2> QED BY <1>1, <1>2, <1>4, <1>5, <2>1 DEF Flow, PlaceInv
<1>9. RecordInv'
  BY <1>1, <1>2, <1>4, <1>5 DEF Flow, RecordInv
<1>10. AnswerInv'
  BY <1>1, <1>4, <1>5 DEF Flow, AnswerInv
<1> QED BY <1>6, <1>7, <1>8, <1>9, <1>10 DEF Flow

-----------------------------------------------------------------------------
(* The window of the statuses. *)

(* The failures of a sequence of statuses with one more. *)
LEMMA NbDownAppend ==
  ASSUME NEW s \in Seq({UP, DOWN}), NEW x \in {UP, DOWN}
  PROVE  /\ NbDown(s) \in Nat
         /\ NbDown(Append(s, x)) = NbDown(s) + (IF x = DOWN THEN 1 ELSE 0)
<1> DEFINE D == {i \in DOMAIN s : s[i] = DOWN}
           E == {i \in DOMAIN Append(s, x) : Append(s, x)[i] = DOWN}
<1>1. DOMAIN s = 1..Len(s) /\ Len(s) \in Nat
  OBVIOUS
<1>2. IsFiniteSet(D)
  <2>1. IsFiniteSet(1..Len(s))
    BY <1>1, FS_Interval
  <2> QED BY <1>1, <2>1, FS_Subset
<1>3. Cardinality(D) \in Nat
  BY <1>2, FS_CardinalityType
<1>4. Cardinality(E) = Cardinality(D) + (IF x = DOWN THEN 1 ELSE 0)
  <2>1. CASE x = DOWN
    <3>1. E = D \cup {Len(s) + 1} /\ Len(s) + 1 \notin D
      BY <1>1, <2>1
    <3> HIDE DEF D, E
    <3>2. Cardinality(D \cup {Len(s) + 1}) = Cardinality(D) + 1
      BY <1>2, <3>1, FS_AddElement
    <3> QED BY <2>1, <3>1, <3>2
  <2>2. CASE x # DOWN
    <3>1. E = D
      BY <1>1, <2>2
    <3> HIDE DEF D, E
    <3> QED BY <1>3, <2>2, <3>1
  <2> QED BY <2>1, <2>2
<1> QED BY <1>3, <1>4 DEF NbDown

(* The failures of a sequence of statuses without its first. *)
LEMMA NbDownTail ==
  ASSUME NEW s \in Seq({UP, DOWN}), s # <<>>
  PROVE  NbDown(Tail(s)) = NbDown(s) - (IF s[1] = DOWN THEN 1 ELSE 0)
<1> DEFINE D == {i \in DOMAIN s : s[i] = DOWN}
           R == D \ {1}
           E == {i \in DOMAIN Tail(s) : Tail(s)[i] = DOWN}
           f == [i \in R |-> i - 1]
<1>1. DOMAIN s = 1..Len(s) /\ Len(s) \in Nat \ {0}
  OBVIOUS
<1>2. /\ DOMAIN Tail(s) = 1..Len(s) - 1
      /\ \A i \in 1..Len(s) - 1 : Tail(s)[i] = s[i + 1]
  BY <1>1
<1>3. IsFiniteSet(D)
  <2>1. IsFiniteSet(1..Len(s))
    BY <1>1, FS_Interval
  <2> QED BY <1>1, <2>1, FS_Subset
<1>4. IsFiniteSet(R) /\ Cardinality(R) = Cardinality(D) - (IF s[1] = DOWN THEN 1 ELSE 0)
  <2>1. 1 \in D <=> s[1] = DOWN
    BY <1>1
  <2>2. Cardinality(D) \in Nat
    BY <1>3, FS_CardinalityType
  <2> HIDE DEF D
  <2>3. IsFiniteSet(R) /\ Cardinality(R) = IF 1 \in D THEN Cardinality(D) - 1 ELSE Cardinality(D)
    BY <1>3, FS_RemoveElement
  <2> QED BY <2>1, <2>2, <2>3
<1>5. Cardinality(E) = Cardinality(R)
  <2>1. \A i \in R : i - 1 \in E
    BY <1>1, <1>2
  <2>2. \A i, k \in R : f[i] = f[k] => i = k
    BY <1>1
  <2>3. \A k \in E : k + 1 \in R /\ f[k + 1] = k
    BY <1>1, <1>2
  <2> HIDE DEF R, E
  <2>4. f \in [R -> E]
    BY <2>1
  <2> HIDE DEF f
  <2>5. f \in Bijection(R, E)
    BY <2>2, <2>3, <2>4 DEF Bijection, Injection, Surjection, IsInjective
  <2>6. ExistsBijection(R, E)
    BY <2>5, Fun_ExistsBij
  <2> QED BY <1>4, <2>6, FS_Bijection
<1> QED BY <1>4, <1>5 DEF NbDown

(* A status that is down takes nothing from the failures of the window, and one that is up adds
   nothing; either is the last of the window. *)
LEMMA WindowedCount ==
  ASSUME NEW s \in Seq({UP, DOWN}), NEW x \in {UP, DOWN}
  PROVE  LET w == Windowed(s, x)
         IN  /\ w \in Seq({UP, DOWN}) /\ w[Len(w)] = x
             /\ NbDown(w) \in Nat /\ NbDown(s) \in Nat
             /\ x = DOWN => NbDown(s) <= NbDown(w)
             /\ x = UP => NbDown(w) <= NbDown(s)
<1> DEFINE l == Append(s, x)
<1>1. /\ l \in Seq({UP, DOWN}) /\ Len(l) = Len(s) + 1 /\ l[Len(l)] = x /\ l # <<>>
  OBVIOUS
<1>2. NbDown(s) \in Nat /\ NbDown(l) = NbDown(s) + (IF x = DOWN THEN 1 ELSE 0)
  BY NbDownAppend
<1>3. NbDown(l) \in Nat /\ UP # DOWN
  BY <1>2 DEF UP, DOWN
<1>4. Windowed(s, x) = IF Len(l) > Window THEN Tail(l) ELSE l
  BY DEF Windowed
<1> HIDE DEF l
<1>5. CASE Len(l) > Window
  <2>1. Len(l) > 1 /\ Len(l) \in Nat
    BY <1>1, <1>5, Constants
  <2>2. /\ Tail(l) \in Seq({UP, DOWN}) /\ Len(Tail(l)) = Len(l) - 1
        /\ Tail(l)[Len(l) - 1] = l[Len(l)]
    BY <1>1, <2>1
  <2>3. NbDown(Tail(l)) = NbDown(l) - (IF l[1] = DOWN THEN 1 ELSE 0)
    BY <1>1, NbDownTail
  <2>4. NbDown(Tail(l)) \in Nat
    BY <2>2, NbDownAppend
  <2>5. Windowed(s, x) = Tail(l)
    BY <1>4, <1>5
  <2>6. /\ x = DOWN => NbDown(s) <= NbDown(Tail(l))
        /\ x = UP => NbDown(Tail(l)) <= NbDown(s)
    BY <1>2, <1>3, <2>3, <2>4
  <2>7. Tail(l)[Len(Tail(l))] = x
    BY <1>1, <2>2
  <2> QED BY <1>2, <2>2, <2>4, <2>5, <2>6, <2>7
<1>6. CASE ~(Len(l) > Window)
  BY <1>1, <1>2, <1>3, <1>4, <1>6
<1> QED BY <1>5, <1>6

(* What a result does to the window of its instance and to notified. *)
LEMMA EventStep ==
  ASSUME TypeOK, NotifiedInv, [Next]_vars
  PROVE  /\ NotifiedInv'
         /\ \A n \in Evented : notified'[n] # notified[n] =>
              statuses'[n][Len(statuses'[n])] = notified'[n]
<1>1. CASE TakeStatus
  <2> DEFINE h == Head(resultsq)
  <2>1. h.name \in Names /\ h.status \in {UP, DOWN}
    <3> DEFINE R == [name: Names, status: {UP, DOWN, FAILURE}]
    <3>1. resultsq \in Seq(R) /\ resultsq # <<>> /\ h.status # FAILURE
      BY <1>1 DEF TakeStatus, TypeOK
    <3> HIDE DEF R
    <3>2. h \in R
      BY <3>1
    <3> QED BY <3>1, <3>2 DEF R
  <2>2. CASE h.name \in Evented
    <3> DEFINE m == h.name
               w == Windowed(statuses[m], h.status)
    <3>1. /\ statuses' = [statuses EXCEPT ![m] = w]
          /\ notified' = [notified EXCEPT ![m] = IF NbDown(w) >= Threshold THEN DOWN ELSE UP]
      BY <1>1, <2>2 DEF TakeStatus
    <3>2. statuses[m] \in Seq({UP, DOWN}) /\ m \in Evented
      BY <2>2 DEF TypeOK
    <3> HIDE DEF h
    <3>3. /\ w[Len(w)] = h.status /\ NbDown(w) \in Nat /\ NbDown(statuses[m]) \in Nat
          /\ h.status = DOWN => NbDown(statuses[m]) <= NbDown(w)
          /\ h.status = UP => NbDown(w) <= NbDown(statuses[m])
      BY <2>1, <3>2, WindowedCount
    <3> HIDE DEF w, m
    <3>4. /\ statuses'[m] = w /\ notified'[m] = IF NbDown(w) >= Threshold THEN DOWN ELSE UP
          /\ \A n \in Evented : n # m => statuses'[n] = statuses[n] /\ notified'[n] = notified[n]
      BY <3>1, <3>2 DEF TypeOK
    <3>5. notified'[m] # notified[m] => notified'[m] = h.status
      <4>1. notified[m] = IF NbDown(statuses[m]) >= Threshold THEN DOWN ELSE UP
        BY <3>2 DEF NotifiedInv
      <4>2. UP # DOWN
        BY DEF UP, DOWN
      <4>3. CASE h.status = DOWN
        BY <3>3, <3>4, <4>1, <4>2, <4>3, Constants
      <4>4. CASE h.status = UP
        BY <3>3, <3>4, <4>1, <4>2, <4>4, Constants
      <4> QED BY <2>1, <4>3, <4>4
    <3>6. NotifiedInv'
      BY <3>4 DEF NotifiedInv
    <3> QED BY <3>3, <3>4, <3>5, <3>6
  <2>3. CASE h.name \notin Evented
    BY <1>1, <2>3 DEF TakeStatus, eventVars, NotifiedInv
  <2> QED BY <2>2, <2>3
<1>2. CASE ~TakeStatus
  <2>1. UNCHANGED eventVars
    BY <1>2 DEF Next, Main, Run, Check, NextResult, Empty, TakeFailure, CleanJob, Get, Clean, Submit,
                Skip, ApplyAsync, AcquireMutex, PutJob, Join, StartPool, StartPoolRaises,
                StopTerminate, Stop, Sigterm, Tick, Worker, Take, PutResult, PutFailure, Put,
                SetValue, vars
  <2> QED BY <2>1 DEF eventVars, NotifiedInv
<1> QED BY <1>1, <1>2

-----------------------------------------------------------------------------
(* The theorems. *)

(* Every step keeps the invariant. *)
LEMMA InvNext ==
  ASSUME Inv, [Next]_vars
  PROVE  Inv'
<1>0. TypeOK /\ Flow /\ ShapeInv /\ NotifiedInv
  BY DEF Inv, Flow
<1> SUFFICES TypeOK' /\ Flow'
  BY <1>0, EventStep DEF Inv, Flow
<1>1. CASE Run \/ Check \/ NextResult \/ Empty \/ Skip \/ ApplyAsync \/ AcquireMutex
  BY <1>0, <1>1, TypesCheck, QuietMain, FlowQuiet
<1>2. CASE TakeStatus
  BY <1>0, <1>2, TypesTake, QuietMain, FlowQuiet
<1>3. CASE StartPoolRaises
  BY <1>0, <1>3, TypesPool, QuietMain, FlowQuiet
<1>4. CASE TakeFailure
  BY <1>0, <1>4, TypesTake, FlowRestart
<1>5. CASE Clean
  BY <1>0, <1>5, TypesPool, FlowRestart
<1>6. CASE CleanJob
  BY <1>0, <1>6, TypesJobs, FlowCleanJob
<1>7. CASE Get
  BY <1>0, <1>7, TypesJobs, FlowGet
<1>8. CASE Submit
  BY <1>0, <1>8, TypesJobs, FlowSubmit
<1>9. CASE PutJob
  BY <1>0, <1>9, TypesJobs, FlowPutJob
<1>10. CASE Join \/ Stop
  BY <1>0, <1>10, TypesPool, FlowJoin
<1>11. CASE StartPool
  BY <1>0, <1>11, TypesPool, FlowStart
<1>12. CASE StopTerminate
  <2>1. TypeOK'
    BY <1>0, <1>12, TypesPool
  <2>2. /\ Terminated /\ handling = "terminate" /\ handling' = "join"
        /\ UNCHANGED <<poolStarted, jobsStatus, jobsResults, turn, pc, arg, stopped, startFailures>>
    BY <1>12 DEF StopTerminate, jobVars, mainVars
  <2>3. poolStarted
    BY <1>0, <2>2 DEF Flow, PoolInv
  <2> QED BY <1>0, <2>1, <2>2, <2>3, FlowTerminate
<1>13. CASE Sigterm \/ UNCHANGED vars
  BY <1>0, <1>13, TypesPool, QuietOthers, FlowQuiet
<1>14. CASE Tick
  BY <1>0, <1>14, TypesJobs, QuietOthers, FlowQuiet
<1>15. CASE \E w \in Threads : Worker(w)
  <2>1. PICK w \in Threads : Worker(w)
    BY <1>15
  <2>2. TypeOK'
    BY <1>0, <2>1, TypesWorker
  <2>3. CASE Take(w)
    BY <1>0, <2>2, <2>3, FlowTake
  <2>4. CASE SetValue(w)
    BY <1>0, <2>2, <2>4, FlowSetValue
  <2>5. CASE PutFailure(w) \/ \E status \in Statuses(workers[w].job.name) : PutResult(w, status)
    <3>1. PutFailure(w) \/ \E status \in {UP, DOWN} : PutResult(w, status)
      BY <2>5 DEF Statuses
    <3> QED BY <1>0, <2>2, <3>1, QuietOthers, FlowQuiet
  <2> QED BY <2>1, <2>3, <2>4, <2>5 DEF Worker
<1> QED BY <1>1, <1>2, <1>3, <1>4, <1>5, <1>6, <1>7, <1>8, <1>9, <1>10, <1>11, <1>12, <1>13, <1>14,
           <1>15 DEF Next, Main

(* The invariant holds when the check is created. *)
LEMMA InvInit == Init => Inv
<1> SUFFICES ASSUME Init PROVE Inv
  OBVIOUS
<1> USE DEF Init
<1>1. DOMAIN NoJob = {} /\ Range(NoJob) = {}
  BY DEF NoJob, Range
<1>2. Exited \in WorkerState
  BY DEF Exited, WorkerState
<1>3. workers \in [Threads -> WorkerState] /\ \A w \in Threads : workers[w] = Exited
  BY <1>2
<1>4. Busy = {} /\ Running = {}
  BY <1>3, NobodyRuns
<1>5. DOMAIN workq = {} /\ Queued = {}
  BY DEF Queued
<1>6. TypeOK
  <2>1. /\ turn \in DOMAIN Instances /\ arg \in Names /\ loop \in 0..MaxLoopIterations
        /\ nbFailures \in 0..PoolSize /\ startFailures \in 0..MaxStartFailures
    BY Constants
  <2>2. /\ statuses \in [Evented -> Seq({UP, DOWN})] /\ notified \in [Evented -> {UP, DOWN}]
        /\ workq \in Seq(Jobs \cup {SENTINEL})
        /\ resultsq \in Seq([name: Names, status: {UP, DOWN, FAILURE}])
    OBVIOUS
  <2> QED BY <1>1, <1>3, <2>1, <2>2 DEF TypeOK
<1>7. ShapeInv
  <2>1. Exited.pc # "check"
    BY DEF Exited
  <2> QED BY <1>1, <1>3, <1>4, <2>1, FS_EmptySet DEF ShapeInv
<1>8. PoolInv
  BY <1>3, <1>5 DEF PoolInv
<1>9. PlaceInv /\ RecordInv /\ AnswerInv
  BY <1>1, <1>4, <1>5 DEF PlaceInv, RecordInv, AnswerInv
<1>10. NotifiedInv
  <2>1. NbDown(<<>>) = 0
    <3>1. {i \in DOMAIN <<>> : <<>>[i] = DOWN} = {}
      OBVIOUS
    <3> QED BY <3>1, FS_EmptySet DEF NbDown
  <2>2. \A n \in Evented : statuses[n] = <<>> /\ notified[n] = UP
    OBVIOUS
  <2> QED BY <2>1, <2>2, Constants DEF NotifiedInv
<1> QED BY <1>6, <1>7, <1>8, <1>9, <1>10 DEF Inv

(* The invariant holds in every state, for any instances, pool size and options. *)
THEOREM InvariantHolds == Spec => []Inv
<1>1. Inv /\ [Next]_vars => Inv'
  BY InvNext
<1> QED BY <1>1, InvInit, PTL DEF Spec

(* The queues, the tables of the jobs and the state of the workers and of the main thread have
   their types: nb_failures never reaches the size of the pool, whatever the jobs do. *)
THEOREM TypesCorrect == Spec => []TypeOK
<1>1. Inv => TypeOK
  BY DEF Inv
<1> QED BY <1>1, InvariantHolds, PTL

(* An instance has one job in the pool at most, although any result under its name deletes its
   entry in jobs_status: _clean_job waits for the end of the job before check() looks again. *)
THEOREM InstancesOneAtATime == Spec => []OneAtATime
<1>1. Inv => OneAtATime
  <2> SUFFICES ASSUME Inv, NEW n \in Names PROVE Cardinality(Alive(n)) <= 1
    BY DEF OneAtATime
  <2>1. \A i, j \in Alive(n) : i = j
    BY DEF Inv, RecordInv, Alive
  <2>2. CASE Alive(n) = {}
    BY <2>2, FS_EmptySet
  <2>3. CASE Alive(n) # {}
    <3>1. PICK j : Alive(n) = {j}
      BY <2>1, <2>3
    <3>2. Cardinality({j}) = 1
      BY FS_Singleton
    <3> QED BY <3>1, <3>2
  <2> QED BY <2>2, <2>3
<1> QED BY <1>1, InvariantHolds, PTL

(* The job that _clean_job waits for, without a timeout, is done, with a worker or in the queue,
   until the agent stops, unless the pool is closed since the threads of a new one could not be
   started. *)
THEOREM AnswersCome == Spec => []AnswerComes
<1>1. Inv => AnswerComes
  <2> SUFFICES ASSUME Inv, pc = "get", ~stopped, ~closed
               PROVE  jobsResults[arg] \in ready \cup Alive(arg)
    BY DEF AnswerComes
  <2>1. arg \in DOMAIN jobsResults /\ jobsResults[arg].name = arg
    BY DEF Inv, ShapeInv
  <2> QED BY <2>1 DEF Inv, AnswerInv, Alive
<1> QED BY <1>1, InvariantHolds, PTL

(* The event made when an instance goes down, or comes up again, is made of a result that says
   so: the window never changes its verdict by the status that leaves it. *)
THEOREM EventsMatchResults == Spec => EventsMatch
<1>1. Inv /\ [Next]_vars =>
        [\A n \in Evented : notified'[n] # notified[n] =>
           statuses'[n][Len(statuses'[n])] = notified'[n]]_vars
  BY EventStep DEF Inv
<1> QED BY <1>1, InvariantHolds, PTL DEF Spec, EventsMatch
=============================================================================
