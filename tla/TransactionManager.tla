-------------------------- MODULE TransactionManager --------------------------
(***************************************************************************)
(* The forwarder's queue of transactions (src/transaction.py) together     *)
(* with the handlers of src/ddagent.py that drive it.  Everything runs on  *)
(* one tornado ioloop: a handler runs to completion before the next one    *)
(* starts, so the variable pc says which call the current handler is in    *)
(* and a new handler only starts when pc = "idle".  Time passes only       *)
(* between handlers.                                                       *)
(*                                                                         *)
(*   Post(size)      AgentTransaction.__init__: one append per endpoint    *)
(*                   and API key (Evict, AppendCopy), then flush()         *)
(*   FlushTrs        the periodic callback of Application.run              *)
(*   OnResponse(t)   the HTTP client's callback, also called on a timeout  *)
(*   TimerFires      the ioloop timer set by a throttled flush_next()      *)
(*                                                                         *)
(* A transaction is the number get_tr_id() gives it.  The list             *)
(* _transactions is always in the order of these numbers, and the list     *)
(* _trs_to_flush in the order of its sort keys, so both are kept as sets.  *)
(* The Python value _trs_to_flush = None is ~flushing.                     *)
(***************************************************************************)
EXTENDS Integers, Sequences, FiniteSets

CONSTANTS
  Endpoints,          \* the configured endpoints
  Targets,            \* one entry per (endpoint, API key): where a payload goes
  Sizes,              \* the payload sizes that arrive
  MaxQueueSize,       \* _MAX_QUEUE_SIZE
  ThrottlingDelay,    \* _THROTTLING_DELAY, in ticks
  MaxParallelism,     \* _MAX_PARALLELISM: 1, or 5 with several endpoints
  MaxEndpointErrors,  \* _MAX_ENDPOINT_ERRORS
  MaxFlushDuration,   \* _MAX_FLUSH_DURATION, in ticks
  ReplayStep,         \* the 20 seconds each error adds, in ticks
  MaxWaitForReplay,   \* _MAX_WAIT_FOR_REPLAY, in ticks
  Second,             \* ticks in a second
  MaxPosts,           \* bound: payloads that arrive
  MaxErrors,          \* bound: sends that fail and are replayed
  IdleTime            \* bound: the clock passes it only towards a deadline

ASSUME TransactionManagerAssumption ==
  /\ Targets \in Seq(Endpoints)
  /\ Sizes \subseteq Nat \ {0}
  /\ {MaxQueueSize, ThrottlingDelay, MaxFlushDuration, ReplayStep,
      MaxWaitForReplay, MaxPosts, MaxErrors, IdleTime} \subseteq Nat
  /\ {MaxParallelism, MaxEndpointErrors, Second} \subseteq Nat \ {0}

VARIABLES
  \* the queue
  transactions,     \* _transactions: ids of all transactions not committed
  tr,               \* the Transaction objects, by id
  counter,          \* _counter, and _transactions_received
  totalCount,       \* _total_count
  totalSize,        \* _total_size
  flushed,          \* _transactions_flushed
  rejected,         \* _transactions_rejected
  \* the flush in progress
  flushing,         \* _trs_to_flush is not None
  trsToFlush,       \* _trs_to_flush: still to be sent by this flush
  inFlight,         \* requests the HTTP client has not answered
  runningFlushes,   \* _running_flushes
  endpointsErrors,  \* _endpoints_errors
  lastFlush,        \* _last_flush
  flushTime,        \* _flush_time
  timers,           \* deadlines of the pending add_timeout callbacks
  \* the ioloop and its environment
  pc,               \* the call the current handler is in
  copy,             \* Post: the entry of Targets the handler is at
  postSize,         \* Post: the size of the payload
  now,              \* datetime.utcnow()
  posts,            \* payloads received
  errors,           \* failed sends so far
  \* history, never read by an action's guard
  evicted,          \* transactions append() has removed
  aborted           \* a response callback of this flush raised

queueVars == <<transactions, tr, counter, totalCount, totalSize, flushed, rejected>>
flushVars == <<flushing, trsToFlush, inFlight, runningFlushes,
               endpointsErrors, lastFlush, flushTime, timers>>
postVars == <<copy, postSize, posts>>
vars == <<queueVars, flushVars, postVars, pc, now, errors, evicted, aborted>>

Transaction ==
  [endpoint: Endpoints, size: Nat, errorCount: Nat, nextFlush: Nat]

NoErrors == [e \in Endpoints |-> 0]

Init ==
  /\ transactions = {} /\ tr = <<>> /\ counter = 0
  /\ totalCount = 0 /\ totalSize = 0 /\ flushed = 0 /\ rejected = 0
  /\ flushing = FALSE /\ trsToFlush = {} /\ inFlight = {} /\ runningFlushes = 0
  /\ endpointsErrors = NoErrors
  /\ lastFlush = 0 /\ flushTime = 0 /\ timers = <<>>
  /\ pc = "idle" /\ copy = 1 /\ postSize = 0 /\ now = 0
  /\ posts = 0 /\ errors = 0
  /\ evicted = {} /\ aborted = FALSE

-----------------------------------------------------------------------------
(* Transaction *)

\* compute_next_flush: the date loses its fraction of a second.
NextFlush(errorCount) ==
  LET delay == errorCount * ReplayStep
      date  == now + IF delay > MaxWaitForReplay THEN MaxWaitForReplay ELSE delay
  IN  date - (date % Second)

\* Mutant: now is the default argument, evaluated when the class is defined.
TimeToFlushAtImport(t) == tr[t].nextFlush <= 0

TimeToFlush(t) == tr[t].nextFlush <= now

-----------------------------------------------------------------------------
(* append *)

Post(size) ==
  /\ pc = "idle"
  /\ posts < MaxPosts
  /\ pc' = "append"
  /\ copy' = 1
  /\ postSize' = size
  /\ posts' = posts + 1
  /\ UNCHANGED <<queueVars, flushVars, now, errors, evicted, aborted>>

QueueIsTooBig == totalSize + postSize > MaxQueueSize

\* Mutant: subtracts the size of the new transaction, not of the removed one.
EvictWrongSize(t) ==
  /\ pc = "append" /\ copy <= Len(Targets)
  /\ QueueIsTooBig
  /\ \A u \in transactions : tr[u].nextFlush <= tr[t].nextFlush
  /\ transactions' = transactions \ {t}
  /\ totalCount' = totalCount - 1
  /\ totalSize' = totalSize - postSize
  /\ evicted' = evicted \cup {t}
  /\ UNCHANGED <<tr, counter, flushed, rejected, flushVars, postVars, pc, now, errors, aborted>>

\* Removal starts at the latest next flush.  Ticks are coarser than the code's
\* microseconds, so any transaction of the latest tick may come first.
Evict(t) ==
  /\ pc = "append" /\ copy <= Len(Targets)
  /\ QueueIsTooBig
  /\ \A u \in transactions : tr[u].nextFlush <= tr[t].nextFlush
  /\ transactions' = transactions \ {t}
  /\ totalCount' = totalCount - 1
  /\ totalSize' = totalSize - tr[t].size
  /\ evicted' = evicted \cup {t}
  /\ UNCHANGED <<tr, counter, flushed, rejected, flushVars, postVars, pc, now, errors, aborted>>

AppendCopy ==
  /\ pc = "append" /\ copy <= Len(Targets)
  /\ QueueIsTooBig => transactions = {}
  /\ LET id  == counter + 1
         new == [endpoint |-> Targets[copy], size |-> postSize,
                 errorCount |-> 0, nextFlush |-> now]
     IN  /\ transactions' = transactions \cup {id}
         /\ tr' = [t \in 1..id |-> IF t = id THEN new ELSE tr[t]]
         /\ counter' = id
  /\ totalCount' = totalCount + 1
  /\ totalSize' = totalSize + postSize
  /\ copy' = copy + 1
  /\ UNCHANGED <<flushed, rejected, flushVars, postSize, posts, pc, now, errors,
                 evicted, aborted>>

-----------------------------------------------------------------------------
(* flush *)

\* Mutant: starts a flush although one is in progress.
FlushAnyway ==
  LET toFlush == {t \in transactions : TimeToFlush(t)}
  IN  IF toFlush = {}
      THEN pc' = "idle" /\ UNCHANGED <<flushVars, aborted>>
      ELSE /\ endpointsErrors' = NoErrors /\ flushing' = TRUE /\ trsToFlush' = toFlush
           /\ flushTime' = now /\ aborted' = FALSE /\ pc' = "flush_next"
           /\ UNCHANGED <<inFlight, runningFlushes, lastFlush, timers>>

Flush ==
  LET toFlush == {t \in transactions : TimeToFlush(t)}
  IN  IF flushing \/ toFlush = {}
      THEN /\ pc' = "idle"
           /\ UNCHANGED <<flushVars, aborted>>
      ELSE /\ endpointsErrors' = NoErrors
           /\ flushing' = TRUE
           /\ trsToFlush' = toFlush
           /\ flushTime' = now
           /\ aborted' = FALSE
           /\ pc' = "flush_next"
           /\ UNCHANGED <<inFlight, runningFlushes, lastFlush, timers>>

\* The end of AgentTransaction.__init__.
PostFlush ==
  /\ pc = "append" /\ copy > Len(Targets)
  /\ Flush
  /\ copy' = 1 /\ postSize' = 0
  /\ UNCHANGED <<queueVars, posts, now, errors, evicted>>

FlushTrs ==
  /\ pc = "idle"
  /\ Flush
  /\ UNCHANGED <<queueVars, postVars, now, errors, evicted>>

-----------------------------------------------------------------------------
(* flush_next, one action for each way through it.  A call that ends in    *)
(* another flush_next() leaves pc where it is.                             *)

InFlushNext == pc = "flush_next" /\ flushing /\ trsToFlush # {}

Throttled == now < lastFlush + ThrottlingDelay
TakingTooLong == now - flushTime >= MaxFlushDuration
CanSend == InFlushNext /\ ~TakingTooLong /\ ~Throttled /\ runningFlushes < MaxParallelism

\* The last element of sorted(to_flush, key=(-error_count, id)).
IsLast(t) ==
  \A u \in trsToFlush \ {t} :
    \/ tr[t].errorCount < tr[u].errorCount
    \/ tr[t].errorCount = tr[u].errorCount /\ u < t

StopFlush ==
  /\ InFlushNext /\ TakingTooLong
  /\ trsToFlush' = {}
  /\ UNCHANGED <<queueVars, postVars, flushing, inFlight, runningFlushes, endpointsErrors,
                 lastFlush, flushTime, timers, pc, now, errors, evicted, aborted>>

Send(t) ==
  /\ CanSend /\ IsLast(t)
  /\ trsToFlush' = trsToFlush \ {t}
  /\ inFlight' = inFlight \cup {t}
  /\ runningFlushes' = runningFlushes + 1
  /\ lastFlush' = now
  /\ UNCHANGED <<queueVars, postVars, flushing, endpointsErrors, flushTime, timers,
                 pc, now, errors, evicted, aborted>>

\* Mutant: the scheduled transactions of a failing endpoint get a new date but
\* stay in the flush.
TrErrorKeepsScheduled(t, scheduled) ==
  LET e == tr[t].endpoint
  IN  /\ endpointsErrors' = [endpointsErrors EXCEPT ![e] = @ + 1]
      /\ tr' = [u \in DOMAIN tr |->
                  IF u = t \/ (u \in scheduled /\ tr[u].endpoint = e)
                  THEN [tr[u] EXCEPT !.errorCount = @ + (IF u = t THEN 1 ELSE 0),
                                     !.nextFlush = NextFlush(tr[u].errorCount + 1)]
                  ELSE tr[u]]
      /\ trsToFlush' = scheduled

\* Mutant: an endpoint that failed too often is not recognised.
TrErrorNeverDown(t, scheduled) ==
  /\ endpointsErrors' = [endpointsErrors EXCEPT ![tr[t].endpoint] = @ + 1]
  /\ tr' = [tr EXCEPT ![t].errorCount = @ + 1,
                      ![t].nextFlush = NextFlush(tr[t].errorCount + 1)]
  /\ trsToFlush' = scheduled

\* tr_error, but for the counter of running flushes: scheduled is _trs_to_flush
\* when it is called.
TrError(t, scheduled) ==
  LET e == tr[t].endpoint
      n == endpointsErrors[e] + 1
      down == IF n = MaxEndpointErrors
              THEN {u \in scheduled : tr[u].endpoint = e} ELSE {}
  IN  /\ endpointsErrors' = [endpointsErrors EXCEPT ![e] = n]
      /\ tr' = [u \in DOMAIN tr |->
                  IF u = t
                  THEN [tr[u] EXCEPT !.errorCount = @ + 1,
                                     !.nextFlush = NextFlush(tr[u].errorCount + 1)]
                  ELSE IF u \in down
                  THEN [tr[u] EXCEPT !.nextFlush = NextFlush(tr[u].errorCount)]
                  ELSE tr[u]]
      /\ trsToFlush' = scheduled \ down

\* Mutant: the running flush of a send that raised is not given back.
SendRaisesLeaks(t) ==
  /\ CanSend /\ IsLast(t)
  /\ errors < MaxErrors /\ errors' = errors + 1
  /\ TrError(t, trsToFlush \ {t})
  /\ lastFlush' = now
  /\ runningFlushes' = runningFlushes + 1
  /\ UNCHANGED <<transactions, counter, totalCount, totalSize, flushed, rejected, postVars,
                 flushing, inFlight, flushTime, timers, pc, now, evicted, aborted>>

\* tr.flush() raises: the transaction never leaves.
SendRaises(t) ==
  /\ CanSend /\ IsLast(t)
  /\ errors < MaxErrors
  /\ errors' = errors + 1
  /\ TrError(t, trsToFlush \ {t})
  /\ lastFlush' = now
  /\ UNCHANGED <<transactions, counter, totalCount, totalSize, flushed, rejected, postVars,
                 flushing, inFlight, runningFlushes, flushTime, timers, pc, now,
                 evicted, aborted>>

\* Mutant: the throttled flush returns without a timer.
ForgetTimer ==
  /\ InFlushNext /\ ~TakingTooLong /\ Throttled /\ runningFlushes < MaxParallelism
  /\ pc' = "idle"
  /\ UNCHANGED <<queueVars, postVars, flushVars, now, errors, evicted, aborted>>

ScheduleTimer ==
  /\ InFlushNext /\ ~TakingTooLong /\ Throttled /\ runningFlushes < MaxParallelism
  /\ timers' = Append(timers, lastFlush + ThrottlingDelay)
  /\ pc' = "idle"
  /\ UNCHANGED <<queueVars, postVars, flushing, trsToFlush, inFlight, runningFlushes,
                 endpointsErrors, lastFlush, flushTime, now, errors, evicted, aborted>>

AtMaxParallelism ==
  /\ InFlushNext /\ ~TakingTooLong /\ runningFlushes >= MaxParallelism
  /\ pc' = "idle"
  /\ UNCHANGED <<queueVars, postVars, flushVars, now, errors, evicted, aborted>>

NothingToSend == pc = "flush_next" /\ (~flushing \/ trsToFlush = {})

FlushOver ==
  /\ NothingToSend /\ runningFlushes = 0
  /\ flushing' = FALSE
  /\ pc' = "idle"
  /\ UNCHANGED <<queueVars, postVars, trsToFlush, inFlight, runningFlushes,
                 endpointsErrors, lastFlush, flushTime, timers, now, errors, evicted, aborted>>

FlushInProgress ==
  /\ NothingToSend /\ runningFlushes # 0
  /\ pc' = "idle"
  /\ UNCHANGED <<queueVars, postVars, flushVars, now, errors, evicted, aborted>>

-----------------------------------------------------------------------------
(* on_response *)

\* _transactions.remove(tr) and the counters that follow it.
Remove(t) ==
  /\ transactions' = transactions \ {t}
  /\ totalCount' = totalCount - 1
  /\ totalSize' = totalSize - tr[t].size
  /\ flushed' = flushed + 1

Answered(t) ==
  /\ pc = "idle" /\ t \in inFlight
  /\ inFlight' = inFlight \ {t}
  /\ runningFlushes' = runningFlushes - 1

\* Mutant: the counters change before the removal that may raise.
CommitCountsFirst(t, newRejected) ==
  /\ Answered(t)
  /\ Remove(t)
  /\ rejected' = rejected + newRejected
  /\ pc' = IF t \in transactions THEN "flush_next" ELSE "idle"
  /\ aborted' = (aborted \/ t \notin transactions)
  /\ UNCHANGED <<tr, counter, postVars, flushing, trsToFlush, endpointsErrors, lastFlush,
                 flushTime, timers, now, errors, evicted>>

\* tr_success, or tr_error_reject_request, which also counts the rejection.  The
\* object dies with the callback, and the error counted on it too.
Commit(t, newRejected) ==
  /\ Answered(t)
  /\ \/ /\ t \in transactions
        /\ Remove(t)
        /\ rejected' = rejected + newRejected
        /\ pc' = "flush_next"
        /\ UNCHANGED aborted
     \* list.remove raises ValueError: the rest of the callback does not run
     \/ /\ t \notin transactions
        /\ pc' = "idle"
        /\ aborted' = TRUE
        /\ UNCHANGED <<transactions, totalCount, totalSize, flushed, rejected>>
  /\ UNCHANGED <<tr, counter, postVars, flushing, trsToFlush, endpointsErrors, lastFlush,
                 flushTime, timers, now, errors, evicted>>

Accepted(t) == Commit(t, 0)

Rejected(t) == Commit(t, 1)

\* Mutant: a failed send does not go on with the flush.
FailedStops(t) ==
  /\ Answered(t)
  /\ errors < MaxErrors /\ errors' = errors + 1
  /\ TrError(t, trsToFlush)
  /\ pc' = "idle"
  /\ UNCHANGED <<transactions, counter, totalCount, totalSize, flushed, rejected, postVars, flushing,
                 lastFlush, flushTime, timers, now, evicted, aborted>>

\* Mutant: the transaction is put back into the queue, which may have dropped it.
FailedRequeues(t) ==
  /\ Answered(t)
  /\ errors < MaxErrors /\ errors' = errors + 1
  /\ TrError(t, trsToFlush)
  /\ transactions' = transactions \cup {t}
  /\ pc' = "flush_next"
  /\ UNCHANGED <<counter, totalCount, totalSize, flushed, rejected, postVars, flushing,
                 lastFlush, flushTime, timers, now, evicted, aborted>>

Failed(t) ==
  /\ Answered(t)
  /\ errors < MaxErrors
  /\ errors' = errors + 1
  /\ TrError(t, trsToFlush)
  /\ pc' = "flush_next"
  /\ UNCHANGED <<transactions, counter, totalCount, totalSize, flushed, rejected, postVars, flushing,
                 lastFlush, flushTime, timers, now, evicted, aborted>>

OnResponse(t) == Accepted(t) \/ Rejected(t) \/ Failed(t)

-----------------------------------------------------------------------------
(* The ioloop's clock *)

TimerFires ==
  /\ pc = "idle" /\ timers # <<>>
  /\ Head(timers) <= now
  /\ timers' = Tail(timers)
  /\ pc' = "flush_next"
  /\ UNCHANGED <<queueVars, postVars, flushing, trsToFlush, inFlight, runningFlushes,
                 endpointsErrors, lastFlush, flushTime, now, errors, evicted, aborted>>

Deadlines ==
  {tr[t].nextFlush : t \in transactions} \cup
  {timers[i] : i \in DOMAIN timers} \cup
  (IF trsToFlush # {} THEN {flushTime + MaxFlushDuration} ELSE {})

Tick ==
  /\ pc = "idle"
  /\ now < IdleTime \/ \E d \in Deadlines : now < d
  /\ now' = now + 1
  /\ UNCHANGED <<queueVars, flushVars, postVars, pc, errors, evicted, aborted>>

-----------------------------------------------------------------------------
FlushNext ==
  \/ StopFlush
  \/ \E t \in trsToFlush : Send(t) \/ SendRaises(t)
  \/ ScheduleTimer \/ AtMaxParallelism \/ FlushOver \/ FlushInProgress

Handler ==
  \/ \E t \in transactions : Evict(t)
  \/ AppendCopy
  \/ PostFlush
  \/ FlushNext

Next ==
  \/ \E size \in Sizes : Post(size)
  \/ Handler
  \/ FlushTrs
  \/ \E t \in inFlight : OnResponse(t)
  \/ TimerFires
  \/ Tick

Spec == Init /\ [][Next]_vars

\* A started handler goes on, the periodic callback, the timers and the clock do
\* not stop, and the HTTP client answers every request (request_timeout).
Fairness ==
  /\ WF_vars(Handler)
  /\ WF_vars(FlushTrs)
  /\ WF_vars(\E t \in inFlight : OnResponse(t))
  /\ WF_vars(TimerFires)
  /\ WF_vars(Tick)

FairSpec == Spec /\ Fairness

-----------------------------------------------------------------------------
(* Properties *)

\* Types.  The counts of transactions and of requests do not become negative, although
\* the answer may come for a transaction that was removed from the queue before.
TypeOK ==
  /\ transactions \subseteq 1..counter /\ counter \in Nat
  /\ tr \in [1..counter -> Transaction]
  /\ totalCount \in Nat /\ totalSize \in Int /\ flushed \in Nat /\ rejected \in Nat
  /\ flushing \in BOOLEAN /\ trsToFlush \subseteq 1..counter
  /\ inFlight \subseteq 1..counter /\ runningFlushes \in Nat
  /\ endpointsErrors \in [Endpoints -> Nat]
  /\ lastFlush \in Nat /\ flushTime \in Nat /\ timers \in Seq(Nat)
  /\ pc \in {"idle", "append", "flush_next"}
  /\ copy \in 1..Len(Targets) + 1 /\ postSize \in Nat /\ posts \in Nat
  /\ now \in Nat /\ errors \in Nat
  /\ evicted \subseteq 1..counter /\ aborted \in BOOLEAN

\* The counters kept "not to recompute it everytime" agree with the queue: every
\* transaction received is in the queue, was flushed or was evicted, exactly once,
\* also when a response comes for a transaction append() removed meanwhile.
CountsAgree ==
  /\ totalCount = Cardinality(transactions)
  /\ counter = totalCount + flushed + Cardinality(evicted)

\* The sizes of the transactions in the queue, added up in the order of their ids.
SizeUpTo[id \in 0..counter] ==
  IF id = 0 THEN 0
  ELSE SizeUpTo[id - 1] + IF id \in transactions THEN tr[id].size ELSE 0

\* The same of _total_size, and the queue exceeds MAX_QUEUE_SIZE only while its one
\* transaction is by itself larger than that: append() empties the queue for it and
\* still adds it.
SizeSound ==
  /\ totalSize = SizeUpTo[counter]
  /\ totalSize <= MaxQueueSize \/ Cardinality(transactions) <= 1

\* _running_flushes is the number of requests on the wire, is within
\* _MAX_PARALLELISM, and is 0 when no flush is in progress.
RunningExact ==
  /\ runningFlushes = Cardinality(inFlight)
  /\ runningFlushes <= MaxParallelism
  /\ ~flushing => inFlight = {} /\ trsToFlush = {}

\* A transaction that was accepted or rejected is never sent again, and none is on
\* the wire twice at the same time.
NeverSentAgain ==
  /\ inFlight \cap trsToFlush = {}
  /\ inFlight \cup trsToFlush \subseteq transactions \cup evicted

\* A flush that is in progress has a callback to come, of a request or of a timer,
\* that calls flush_next(), unless a callback of this flush raised.
FlushHasCallback ==
  flushing /\ pc = "idle" => inFlight # {} \/ timers # <<>> \/ aborted

\* Without parallelism there is one chain of callbacks: never a request and a timer
\* pending together, nor two timers.
SingleChain ==
  MaxParallelism = 1 => Len(timers) + runningFlushes <= 1

\* Nothing is sent before its replay date, although that date may move while the
\* transaction waits its turn in the flush.
DueWhenSent == \A t \in trsToFlush : tr[t].nextFlush <= now

\* A flush does not keep trying an endpoint that failed _MAX_ENDPOINT_ERRORS times.
DownEndpointSkipped ==
  \A t \in trsToFlush : endpointsErrors[tr[t].endpoint] < MaxEndpointErrors

\* Each flush ends: _trs_to_flush becomes None again.
EveryFlushEnds == flushing ~> ~flushing

\* Every transaction received is accepted or rejected in the end, when the queue
\* is large enough for all of them.
EveryTransactionCommitted ==
  \A t \in 1..(MaxPosts * Len(Targets)) : t \in transactions ~> t \notin transactions

\* What became of each transaction.
Fate ==
  [t \in 1..counter |-> IF t \in transactions THEN "queued"
                        ELSE IF t \in evicted THEN "dropped" ELSE "done"]

Promise == INSTANCE Delivery WITH
  Limit <- MaxParallelism, received <- counter, status <- Fate, wire <- inFlight

\* Through its flushes, timers, retries and evictions the forwarder only does what
\* Delivery allows: no transaction comes back once it is committed or dropped, none is
\* committed but by the answer to its request, none is on the wire twice.
Delivers == Promise!Spec
=============================================================================
