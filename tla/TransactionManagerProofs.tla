----------------------- MODULE TransactionManagerProofs -----------------------
(***************************************************************************)
(* What holds of the forwarder's queue for every value of the constants.   *)
(***************************************************************************)
EXTENDS TransactionManager, FiniteSetTheorems, SequenceTheorems, WellFoundedInduction, TLAPS

(* The assumption on the constants, one fact per constant. *)
LEMMA ConstantTypes ==
  /\ Targets \in Seq(Endpoints)
  /\ Len(Targets) \in Nat
  /\ \A i \in 1..Len(Targets) : Targets[i] \in Endpoints
  /\ \A s \in Sizes : s \in Nat
  /\ MaxQueueSize \in Nat /\ ThrottlingDelay \in Nat /\ MaxFlushDuration \in Nat
  /\ ReplayStep \in Nat /\ MaxWaitForReplay \in Nat
  /\ MaxPosts \in Nat /\ MaxErrors \in Nat /\ IdleTime \in Nat
  /\ MaxParallelism \in Nat /\ MaxParallelism >= 1
  /\ MaxEndpointErrors \in Nat /\ MaxEndpointErrors >= 1
  /\ Second \in Nat /\ Second >= 1
<1>1. Targets \in Seq(Endpoints) /\ Sizes \subseteq Nat \ {0}
  BY TransactionManagerAssumption
<1>2. /\ MaxParallelism \in Nat \ {0} /\ MaxEndpointErrors \in Nat \ {0}
      /\ Second \in Nat \ {0}
  BY TransactionManagerAssumption
<1>3. /\ MaxQueueSize \in Nat /\ ThrottlingDelay \in Nat /\ MaxFlushDuration \in Nat
      /\ ReplayStep \in Nat /\ MaxWaitForReplay \in Nat
      /\ MaxPosts \in Nat /\ MaxErrors \in Nat /\ IdleTime \in Nat
  BY TransactionManagerAssumption
<1> QED BY <1>1, <1>2, <1>3

\* The types that each step keeps by itself.  That totalCount and runningFlushes are not
\* negative only follows from what they count.
TypeInv ==
  /\ transactions \subseteq 1..counter /\ counter \in Nat
  /\ tr \in [1..counter -> Transaction]
  /\ totalCount \in Int /\ totalSize \in Int /\ flushed \in Nat /\ rejected \in Nat
  /\ flushing \in BOOLEAN /\ trsToFlush \subseteq 1..counter
  /\ inFlight \subseteq 1..counter /\ runningFlushes \in Int
  /\ endpointsErrors \in [Endpoints -> Nat]
  /\ lastFlush \in Nat /\ flushTime \in Nat /\ timers \in Seq(Nat)
  /\ pc \in {"idle", "append", "flush_next"}
  /\ copy \in 1..Len(Targets) + 1 /\ postSize \in Nat /\ posts \in Nat
  /\ now \in Nat /\ errors \in Nat
  /\ evicted \subseteq 1..counter /\ aborted \in BOOLEAN

(* compute_next_flush yields a date: dropping the fraction of a second does not
   go below the epoch. *)
LEMMA NextFlushType ==
  ASSUME NEW n \in Nat, now \in Nat
  PROVE  NextFlush(n) \in Nat
<1> DEFINE delay == n * ReplayStep
           date  == now + IF delay > MaxWaitForReplay THEN MaxWaitForReplay ELSE delay
<1>1. delay \in Nat
  BY ConstantTypes
<1>2. date \in Nat
  BY <1>1, ConstantTypes
<1>3. date % Second \in Nat /\ date % Second <= date
  <2> HIDE DEF date
  <2> QED BY <1>2, ConstantTypes
<1> QED BY <1>2, <1>3, ConstantTypes DEF NextFlush

(* tr_error keeps the shape of the objects and of the schedule. *)
LEMMA TrErrorType ==
  ASSUME TypeInv, NEW t \in 1..counter, NEW scheduled \in SUBSET (1..counter),
         TrError(t, scheduled)
  PROVE  /\ tr' \in [1..counter -> Transaction]
         /\ endpointsErrors' \in [Endpoints -> Nat]
         /\ trsToFlush' \subseteq scheduled
<1> DEFINE e == tr[t].endpoint
           n == endpointsErrors[e] + 1
           down == IF n = MaxEndpointErrors
                   THEN {u \in scheduled : tr[u].endpoint = e} ELSE {}
           upd(u) == IF u = t
                     THEN [tr[u] EXCEPT !.errorCount = @ + 1,
                                        !.nextFlush = NextFlush(tr[u].errorCount + 1)]
                     ELSE IF u \in down
                     THEN [tr[u] EXCEPT !.nextFlush = NextFlush(tr[u].errorCount)]
                     ELSE tr[u]
<1>1. \A u \in 1..counter : upd(u) \in Transaction
  <2> SUFFICES ASSUME NEW u \in 1..counter PROVE upd(u) \in Transaction
    OBVIOUS
  <2>1. tr[u] \in Transaction /\ now \in Nat
    BY DEF TypeInv
  <2>2. tr[u].errorCount \in Nat /\ tr[u].errorCount + 1 \in Nat
    BY <2>1 DEF Transaction
  <2>3. \A k \in Nat : NextFlush(k) \in Nat
    BY <2>1, NextFlushType
  <2>4. PICK d0 \in Nat, d1 \in Nat : d0 = NextFlush(tr[u].errorCount)
                                     /\ d1 = NextFlush(tr[u].errorCount + 1)
    BY <2>2, <2>3
  <2>5. upd(u) \in {[tr[u] EXCEPT !.errorCount = @ + 1, !.nextFlush = d1],
                    [tr[u] EXCEPT !.nextFlush = d0], tr[u]}
    BY <2>4
  <2> HIDE DEF upd
  <2> QED BY <2>1, <2>2, <2>4, <2>5 DEF Transaction
<1>2. tr' = [u \in 1..counter |-> upd(u)]
  BY DEF TrError, TypeInv
<1>3. e \in Endpoints /\ n \in Nat
  BY DEF TypeInv, Transaction
<1>4. endpointsErrors' = [endpointsErrors EXCEPT ![e] = n] /\ trsToFlush' = scheduled \ down
  BY DEF TrError
<1> QED BY <1>1, <1>2, <1>3, <1>4 DEF TypeInv

(* flush() keeps the shape of the flush state it may start. *)
LEMMA FlushType ==
  ASSUME TypeInv, Flush
  PROVE  /\ flushing' \in BOOLEAN /\ trsToFlush' \subseteq 1..counter
         /\ inFlight' = inFlight /\ runningFlushes' = runningFlushes
         /\ endpointsErrors' \in [Endpoints -> Nat]
         /\ lastFlush' = lastFlush /\ flushTime' \in Nat /\ timers' = timers
         /\ pc' \in {"idle", "flush_next"} /\ aborted' \in BOOLEAN
<1> DEFINE toFlush == {t \in transactions : TimeToFlush(t)}
<1>1. CASE flushing \/ toFlush = {}
  BY <1>1 DEF Flush, TypeInv, flushVars
<1>2. CASE ~(flushing \/ toFlush = {})
  <2>1. toFlush \subseteq 1..counter
    BY DEF TypeInv
  <2>2. NoErrors \in [Endpoints -> Nat]
    BY DEF NoErrors
  <2> QED BY <1>2, <2>1, <2>2 DEF Flush, TypeInv
<1> QED BY <1>1, <1>2

(* Every step keeps the types. *)
LEMMA TypeNext == TypeInv /\ [Next]_vars => TypeInv'
<1> SUFFICES ASSUME TypeInv, [Next]_vars PROVE TypeInv'
  OBVIOUS
<1> USE ConstantTypes
<1>1. ASSUME NEW size \in Sizes, Post(size) PROVE TypeInv'
  BY <1>1 DEF Post, TypeInv, queueVars, flushVars
<1>2. ASSUME NEW t \in transactions, Evict(t) PROVE TypeInv'
  <2>1. tr[t] \in Transaction
    BY DEF TypeInv
  <2>2. totalSize' \in Int /\ totalCount' \in Int
    BY <1>2, <2>1 DEF Evict, TypeInv, Transaction
  <2> QED BY <1>2, <2>2 DEF Evict, TypeInv, postVars, flushVars
<1>3. CASE AppendCopy
  <2>1. counter' \in Nat /\ 1..counter \subseteq 1..counter' /\ counter' \in 1..counter'
    BY <1>3 DEF AppendCopy, TypeInv
  <2>2. tr' \in [1..counter' -> Transaction]
    BY <1>3 DEF AppendCopy, TypeInv, Transaction
  <2>3. copy' \in 1..Len(Targets) + 1
    BY <1>3 DEF AppendCopy, TypeInv
  <2> QED BY <1>3, <2>1, <2>2, <2>3 DEF AppendCopy, TypeInv, flushVars
<1>4. CASE PostFlush
  <2>1. 1 \in 1..Len(Targets) + 1
    OBVIOUS
  <2>2. Flush
    BY <1>4 DEF PostFlush
  <2> QED BY <1>4, <2>1, <2>2, FlushType DEF PostFlush, TypeInv, queueVars
<1>5. CASE StopFlush
  BY <1>5 DEF StopFlush, TypeInv, queueVars, postVars
<1>6. ASSUME NEW t \in trsToFlush, Send(t) PROVE TypeInv'
  BY <1>6 DEF Send, TypeInv, queueVars, postVars
<1>7. ASSUME NEW t \in trsToFlush, SendRaises(t) PROVE TypeInv'
  <2>1. /\ tr' \in [1..counter -> Transaction]
        /\ endpointsErrors' \in [Endpoints -> Nat]
        /\ trsToFlush' \subseteq trsToFlush \ {t}
    BY <1>7, TrErrorType DEF SendRaises, TypeInv
  <2> QED BY <1>7, <2>1 DEF SendRaises, TypeInv, postVars
<1>8. CASE ScheduleTimer
  BY <1>8 DEF ScheduleTimer, TypeInv, queueVars, postVars
<1>9. CASE AtMaxParallelism \/ FlushInProgress
  BY <1>9 DEF AtMaxParallelism, FlushInProgress, TypeInv, queueVars, postVars, flushVars
<1>10. CASE FlushOver
  BY <1>10 DEF FlushOver, TypeInv, queueVars, postVars
<1>11. CASE FlushTrs
  BY <1>11, FlushType DEF FlushTrs, TypeInv, queueVars, postVars
<1>12. ASSUME NEW t \in inFlight, NEW n \in 0..1, Commit(t, n) PROVE TypeInv'
  <2>1. tr[t] \in Transaction
    BY DEF TypeInv
  <2>2. totalSize' \in Int /\ totalCount' \in Int /\ flushed' \in Nat /\ rejected' \in Nat
    <3>1. tr[t].size \in Nat
      BY <2>1 DEF Transaction
    <3>2. CASE t \in transactions
      BY <1>12, <3>1, <3>2 DEF Commit, Remove, TypeInv
    <3>3. CASE t \notin transactions
      BY <1>12, <3>3 DEF Commit, TypeInv
    <3> QED BY <3>2, <3>3
  <2>3. transactions' \subseteq 1..counter /\ pc' \in {"idle", "flush_next"}
        /\ aborted' \in BOOLEAN
    BY <1>12 DEF Commit, Remove, TypeInv
  <2> QED BY <1>12, <2>2, <2>3 DEF Commit, Answered, TypeInv, postVars
<1>13. ASSUME NEW t \in inFlight, Failed(t) PROVE TypeInv'
  <2>1. /\ tr' \in [1..counter -> Transaction]
        /\ endpointsErrors' \in [Endpoints -> Nat]
        /\ trsToFlush' \subseteq trsToFlush
    BY <1>13, TrErrorType DEF Failed, TypeInv
  <2> QED BY <1>13, <2>1 DEF Failed, Answered, TypeInv, postVars
<1>14. CASE TimerFires
  BY <1>14 DEF TimerFires, TypeInv, queueVars, postVars
<1>15. CASE Tick
  BY <1>15 DEF Tick, TypeInv, queueVars, postVars, flushVars
<1>16. CASE UNCHANGED vars
  BY <1>16 DEF vars, TypeInv, queueVars, postVars, flushVars
<1> QED
  BY <1>1, <1>2, <1>3, <1>4, <1>5, <1>6, <1>7, <1>8, <1>9, <1>10, <1>11, <1>12,
     <1>13, <1>14, <1>15, <1>16
  DEF Next, Handler, FlushNext, OnResponse, Accepted, Rejected

(* The initial state has these types. *)
LEMMA TypeInit == Init => TypeInv
<1> SUFFICES ASSUME Init PROVE TypeInv
  OBVIOUS
<1>1. tr \in [1..counter -> Transaction]
  <2>1. 1..0 = {}
    OBVIOUS
  <2>2. <<>> \in [{} -> Transaction]
    OBVIOUS
  <2> QED BY <2>1, <2>2 DEF Init
<1>2. NoErrors \in [Endpoints -> Nat]
  BY DEF NoErrors
<1>3. 1 \in 1..Len(Targets) + 1
  BY ConstantTypes
<1>4. timers \in Seq(Nat)
  BY DEF Init
<1>5. flushing \in BOOLEAN /\ aborted \in BOOLEAN
  BY Zenon DEF Init
<1>6. /\ counter \in Nat /\ totalCount \in Int /\ totalSize \in Int
      /\ flushed \in Nat /\ rejected \in Nat /\ runningFlushes \in Int
      /\ lastFlush \in Nat /\ flushTime \in Nat /\ postSize \in Nat
      /\ posts \in Nat /\ now \in Nat /\ errors \in Nat
  BY DEF Init
<1>7. /\ transactions \subseteq 1..counter /\ trsToFlush \subseteq 1..counter
      /\ inFlight \subseteq 1..counter /\ evicted \subseteq 1..counter
      /\ endpointsErrors \in [Endpoints -> Nat] /\ copy \in 1..Len(Targets) + 1
      /\ pc \in {"idle", "append", "flush_next"}
  BY <1>2, <1>3 DEF Init
<1> QED BY <1>1, <1>4, <1>5, <1>6, <1>7 DEF TypeInv

(* The types of the forwarder's state, with integers for its counts. *)
LEMMA TypeInvHolds == Spec => []TypeInv
BY TypeInit, TypeNext, PTL DEF Spec

-----------------------------------------------------------------------------
(* The inductive invariant, in the parts that are proved one after another. *)

\* What append() removed is no longer in the queue: without it an eviction might be
\* counted twice.
CountInv == CountsAgree /\ transactions \cap evicted = {}

FlushInv == RunningExact /\ NeverSentAgain

\* FlushHasCallback also while a payload is appended, when the flush may not end.
CallbackInv ==
  flushing /\ pc # "flush_next" => inFlight # {} \/ timers # <<>> \/ aborted

\* SingleChain, and the one callback there is has been consumed when flush_next()
\* runs or no flush is in progress.
ChainInv ==
  MaxParallelism = 1 =>
    /\ Len(timers) + runningFlushes <= 1
    /\ pc = "flush_next" \/ ~flushing => timers = <<>>

ScheduleInv == DueWhenSent /\ DownEndpointSkipped

Inv == TypeInv /\ CountInv /\ FlushInv /\ CallbackInv /\ ChainInv /\ ScheduleInv

(* Sets of transactions are finite: they are numbered up to the counter. *)
LEMMA SetsFinite ==
  ASSUME TypeInv
  PROVE  /\ IsFiniteSet(transactions) /\ IsFiniteSet(inFlight) /\ IsFiniteSet(evicted)
         /\ Cardinality(transactions) \in Nat /\ Cardinality(inFlight) \in Nat
         /\ Cardinality(evicted) \in Nat
<1>1. IsFiniteSet(1..counter)
  BY FS_Interval DEF TypeInv
<1>2. IsFiniteSet(transactions) /\ IsFiniteSet(inFlight) /\ IsFiniteSet(evicted)
  BY <1>1, FS_Subset DEF TypeInv
<1> QED BY <1>2, FS_CardinalityType

(* The counters follow the queue through every step. *)
LEMMA CountNext == TypeInv /\ CountInv /\ [Next]_vars => CountInv'
<1> SUFFICES ASSUME TypeInv, CountInv, [Next]_vars PROVE CountInv'
  OBVIOUS
<1> USE SetsFinite
<1>1. CASE UNCHANGED <<transactions, counter, totalCount, flushed, evicted>>
  BY <1>1 DEF CountInv, CountsAgree
<1>2. ASSUME NEW t \in transactions, Evict(t) PROVE CountInv'
  <2>1. Cardinality(transactions') = Cardinality(transactions) - 1
    BY <1>2, FS_RemoveElement DEF Evict
  <2>2. Cardinality(evicted') = Cardinality(evicted) + 1
    BY <1>2, FS_AddElement DEF Evict, CountInv
  <2>3. CountsAgree'
    <3>1. counter' = counter /\ totalCount' = totalCount - 1 /\ flushed' = flushed
      BY <1>2 DEF Evict
    <3>2. counter \in Nat /\ totalCount \in Int /\ flushed \in Nat
      BY DEF TypeInv
    <3> QED BY <2>1, <2>2, <3>1, <3>2 DEF CountInv, CountsAgree
  <2>4. transactions' \cap evicted' = {}
    BY <1>2 DEF Evict, CountInv
  <2> QED BY <2>3, <2>4 DEF CountInv
<1>3. CASE AppendCopy
  <2>1. counter + 1 \notin transactions /\ counter + 1 \notin evicted
    BY DEF TypeInv
  <2>2. Cardinality(transactions') = Cardinality(transactions) + 1
    BY <1>3, <2>1, FS_AddElement DEF AppendCopy
  <2>3. CountsAgree'
    <3>1. /\ counter' = counter + 1 /\ totalCount' = totalCount + 1
          /\ flushed' = flushed /\ evicted' = evicted
      BY <1>3 DEF AppendCopy
    <3>2. counter \in Nat /\ totalCount \in Int /\ flushed \in Nat
      BY DEF TypeInv
    <3> QED BY <2>2, <3>1, <3>2 DEF CountInv, CountsAgree
  <2>4. transactions' \cap evicted' = {}
    BY <1>3, <2>1 DEF AppendCopy, CountInv
  <2> QED BY <2>3, <2>4 DEF CountInv
<1>4. ASSUME NEW t \in inFlight, NEW n \in 0..1, Commit(t, n) PROVE CountInv'
  <2>1. CASE t \in transactions
    <3>1. Cardinality(transactions') = Cardinality(transactions) - 1
      BY <1>4, <2>1, FS_RemoveElement DEF Commit, Remove
    <3>2. CountsAgree'
      BY <1>4, <2>1, <3>1 DEF Commit, Remove, CountInv, CountsAgree, TypeInv
    <3>3. transactions' \cap evicted' = {}
      BY <1>4, <2>1 DEF Commit, Remove, CountInv
    <3> QED BY <3>2, <3>3 DEF CountInv
  <2>2. CASE t \notin transactions
    BY <1>1, <1>4, <2>2 DEF Commit
  <2> QED BY <2>1, <2>2
<1>5. ASSUME \/ \E size \in Sizes : Post(size)
             \/ PostFlush \/ StopFlush \/ ScheduleTimer \/ AtMaxParallelism
             \/ FlushInProgress \/ FlushOver \/ FlushTrs \/ TimerFires \/ Tick
             \/ \E t \in trsToFlush : Send(t) \/ SendRaises(t)
             \/ \E t \in inFlight : Failed(t)
             \/ UNCHANGED vars
      PROVE  CountInv'
  <2>1. UNCHANGED <<transactions, counter, totalCount, flushed, evicted>>
    BY <1>5 DEF Post, PostFlush, StopFlush, ScheduleTimer, AtMaxParallelism, FlushInProgress,
                FlushOver, FlushTrs, TimerFires, Tick, Send, SendRaises, Failed, vars, queueVars
  <2> QED BY <1>1, <2>1
<1> QED
  BY <1>2, <1>3, <1>4, <1>5 DEF Next, Handler, FlushNext, OnResponse, Accepted, Rejected

(* The flush's own bookkeeping: requests on the wire, and what is sent next. *)
LEMMA FlushInvNext == TypeInv /\ FlushInv /\ [Next]_vars => FlushInv'
<1> SUFFICES ASSUME TypeInv, FlushInv, [Next]_vars PROVE FlushInv'
  OBVIOUS
<1> USE SetsFinite, ConstantTypes
<1>1. CASE /\ UNCHANGED <<inFlight, runningFlushes, flushing, trsToFlush>>
           /\ transactions \cup evicted \subseteq transactions' \cup evicted'
  BY <1>1 DEF FlushInv, RunningExact, NeverSentAgain
<1>2. ASSUME \/ \E size \in Sizes : Post(size)
             \/ \E t \in transactions : Evict(t)
             \/ AppendCopy \/ ScheduleTimer \/ AtMaxParallelism
             \/ FlushInProgress \/ TimerFires \/ Tick \/ UNCHANGED vars
      PROVE  FlushInv'
  <2>1. UNCHANGED <<inFlight, runningFlushes, flushing, trsToFlush>>
    BY <1>2 DEF Post, Evict, AppendCopy, ScheduleTimer, AtMaxParallelism, FlushInProgress,
                TimerFires, Tick, vars, flushVars
  <2>2. transactions \cup evicted \subseteq transactions' \cup evicted'
    BY <1>2 DEF Post, Evict, AppendCopy, ScheduleTimer, AtMaxParallelism, FlushInProgress,
                TimerFires, Tick, vars, queueVars
  <2> QED BY <1>1, <2>1, <2>2
<1>3. ASSUME PostFlush \/ FlushTrs PROVE FlushInv'
  <2>1. Flush /\ UNCHANGED <<transactions, evicted>>
    BY <1>3 DEF PostFlush, FlushTrs, queueVars
  <2>2. CASE UNCHANGED flushVars
    BY <1>1, <2>1, <2>2 DEF flushVars
  <2>3. CASE /\ ~flushing /\ flushing' = TRUE
             /\ trsToFlush' \subseteq transactions
             /\ UNCHANGED <<inFlight, runningFlushes>>
    BY <2>1, <2>3 DEF FlushInv, RunningExact, NeverSentAgain
  <2> QED BY <2>1, <2>2, <2>3 DEF Flush
<1>4. CASE StopFlush
  BY <1>4 DEF StopFlush, FlushInv, RunningExact, NeverSentAgain, queueVars
<1>5. ASSUME NEW t \in trsToFlush, Send(t) PROVE FlushInv'
  <2>1. t \notin inFlight
    BY DEF FlushInv, NeverSentAgain
  <2>2. Cardinality(inFlight') = Cardinality(inFlight) + 1
    BY <1>5, <2>1, FS_AddElement DEF Send
  <2>3. RunningExact'
    BY <1>5, <2>2 DEF Send, CanSend, InFlushNext, FlushInv, RunningExact, TypeInv
  <2>4. NeverSentAgain'
    BY <1>5, <2>1 DEF Send, FlushInv, NeverSentAgain, queueVars
  <2> QED BY <2>3, <2>4 DEF FlushInv
<1>6. ASSUME NEW t \in trsToFlush, SendRaises(t) PROVE FlushInv'
  <2>1. trsToFlush' \subseteq trsToFlush
    BY <1>6 DEF SendRaises, TrError
  <2> QED BY <1>6, <2>1 DEF SendRaises, CanSend, InFlushNext, FlushInv, RunningExact, NeverSentAgain
<1>7. CASE FlushOver
  <2>1. inFlight = {} /\ trsToFlush = {}
    BY <1>7, FS_EmptySet DEF FlushOver, NothingToSend, FlushInv, RunningExact
  <2> QED BY <1>7, <2>1 DEF FlushOver, FlushInv, RunningExact, NeverSentAgain, queueVars
<1>8. ASSUME NEW t \in inFlight, Answered(t) PROVE RunningExact' \/ ~(trsToFlush' \subseteq trsToFlush /\ flushing' = flushing)
  <2>1. Cardinality(inFlight') = Cardinality(inFlight) - 1
    BY <1>8, FS_RemoveElement DEF Answered
  <2> QED BY <1>8, <2>1 DEF Answered, FlushInv, RunningExact, TypeInv
<1>9. ASSUME NEW t \in inFlight, NEW n \in 0..1, Commit(t, n) PROVE FlushInv'
  <2>1. t \notin trsToFlush
    BY DEF FlushInv, NeverSentAgain
  <2>2. transactions \ {t} \subseteq transactions' /\ evicted' = evicted
    BY <1>9 DEF Commit, Remove
  <2>3. NeverSentAgain'
    BY <1>9, <2>1, <2>2 DEF Commit, Answered, FlushInv, NeverSentAgain
  <2> QED BY <1>8, <1>9, <2>3 DEF Commit, FlushInv
<1>10. ASSUME NEW t \in inFlight, Failed(t) PROVE FlushInv'
  <2>1. trsToFlush' \subseteq trsToFlush
    BY <1>10 DEF Failed, TrError
  <2>2. NeverSentAgain'
    BY <1>10, <2>1 DEF Failed, Answered, FlushInv, NeverSentAgain
  <2> QED BY <1>8, <1>10, <2>1, <2>2 DEF Failed, FlushInv
<1> QED
  BY <1>2, <1>3, <1>4, <1>5, <1>6, <1>7, <1>9, <1>10
  DEF Next, Handler, FlushNext, OnResponse, Accepted, Rejected

(* A request on the wire counts as a running flush, and the other way round. *)
LEMMA RunningMeansInFlight ==
  ASSUME TypeInv, FlushInv
  PROVE  runningFlushes \in Nat /\ (runningFlushes # 0 <=> inFlight # {})
BY SetsFinite, FS_EmptySet DEF FlushInv, RunningExact

(* No step leaves a flush without a callback to come. *)
LEMMA CallbackNext == TypeInv /\ FlushInv /\ CallbackInv /\ [Next]_vars => CallbackInv'
<1> SUFFICES ASSUME TypeInv, FlushInv, CallbackInv, [Next]_vars PROVE CallbackInv'
  OBVIOUS
<1> USE RunningMeansInFlight, ConstantTypes
<1>1. CASE pc' = "flush_next" \/ ~flushing' \/ aborted'
  BY <1>1 DEF CallbackInv
<1>2. CASE /\ pc # "flush_next"
           /\ UNCHANGED <<flushing, inFlight, timers, aborted>>
  BY <1>2 DEF CallbackInv
<1>3. ASSUME \/ \E size \in Sizes : Post(size)
             \/ \E t \in transactions : Evict(t)
             \/ AppendCopy \/ Tick
      PROVE  CallbackInv'
  <2>1. pc # "flush_next" /\ UNCHANGED <<flushing, inFlight, timers, aborted>>
    BY <1>3 DEF Post, Evict, AppendCopy, Tick, flushVars
  <2> QED BY <1>2, <2>1
<1>4. CASE UNCHANGED vars
  BY <1>4 DEF vars, flushVars, CallbackInv
<1>5. ASSUME PostFlush \/ FlushTrs PROVE CallbackInv'
  <2>1. Flush /\ pc # "flush_next"
    BY <1>5 DEF PostFlush, FlushTrs
  <2>2. pc' = "flush_next" \/ UNCHANGED <<flushing, inFlight, timers, aborted>>
    BY <2>1 DEF Flush, flushVars
  <2> QED BY <1>1, <1>2, <2>1, <2>2
<1>6. ASSUME \/ StopFlush \/ TimerFires
             \/ \E t \in trsToFlush : Send(t) \/ SendRaises(t)
             \/ \E t \in inFlight : Failed(t)
      PROVE  CallbackInv'
  <2>1. pc' = "flush_next"
    BY <1>6 DEF StopFlush, TimerFires, Send, SendRaises, Failed, InFlushNext, CanSend
  <2> QED BY <1>1, <2>1
<1>7. CASE ScheduleTimer
  <2>1. timers \in Seq(Nat) /\ lastFlush + ThrottlingDelay \in Nat
    BY DEF TypeInv
  <2>2. timers' # <<>>
    BY <1>7, <2>1, AppendProperties DEF ScheduleTimer
  <2> QED BY <2>2 DEF CallbackInv
<1>8. CASE AtMaxParallelism
  <2>1. inFlight # {} /\ inFlight' = inFlight
    BY <1>8 DEF AtMaxParallelism, flushVars
  <2> QED BY <2>1 DEF CallbackInv
<1>9. CASE FlushInProgress
  <2>1. inFlight # {} /\ inFlight' = inFlight
    BY <1>9 DEF FlushInProgress, flushVars
  <2> QED BY <2>1 DEF CallbackInv
<1>10. CASE FlushOver
  BY <1>10 DEF FlushOver, CallbackInv
<1>11. ASSUME NEW t \in inFlight, NEW n \in 0..1, Commit(t, n) PROVE CallbackInv'
  BY <1>1, <1>11 DEF Commit
<1> QED
  BY <1>3, <1>4, <1>5, <1>6, <1>7, <1>8, <1>9, <1>10, <1>11
  DEF Next, Handler, FlushNext, OnResponse, Accepted, Rejected

(* Without parallelism the callbacks form one chain. *)
LEMMA ChainNext == TypeInv /\ FlushInv /\ ChainInv /\ [Next]_vars => ChainInv'
<1> SUFFICES ASSUME TypeInv, FlushInv, ChainInv, [Next]_vars, MaxParallelism = 1
             PROVE  /\ Len(timers') + runningFlushes' <= 1
                    /\ pc' = "flush_next" \/ ~flushing' => timers' = <<>>
  BY DEF ChainInv
<1> USE RunningMeansInFlight
<1> DEFINE Goal == /\ Len(timers') + runningFlushes' <= 1
                   /\ pc' = "flush_next" \/ ~flushing' => timers' = <<>>
<1>0. /\ Len(timers) + runningFlushes <= 1 /\ Len(timers) \in Nat
      /\ pc = "flush_next" \/ ~flushing => timers = <<>>
      /\ timers = <<>> <=> Len(timers) = 0
  BY DEF ChainInv, TypeInv
<1>1. CASE /\ timers' = timers /\ runningFlushes' = runningFlushes
           /\ flushing' = flushing \/ timers = <<>>
           /\ pc' # "flush_next" \/ timers = <<>>
  BY <1>0, <1>1
<1>2. ASSUME \/ \E size \in Sizes : Post(size)
             \/ \E t \in transactions : Evict(t)
             \/ AppendCopy \/ Tick \/ UNCHANGED vars
      PROVE  Goal
  <2>1. timers' = timers /\ runningFlushes' = runningFlushes /\ flushing' = flushing
    BY <1>2 DEF Post, Evict, AppendCopy, Tick, vars, flushVars
  <2>2. pc' # "flush_next" \/ pc' = pc
    BY <1>2 DEF Post, Evict, AppendCopy, Tick, vars
  <2> QED BY <1>0, <1>1, <2>1, <2>2
<1>3. ASSUME PostFlush \/ FlushTrs PROVE Goal
  <2>1. Flush
    BY <1>3 DEF PostFlush, FlushTrs
  <2>2. \/ UNCHANGED <<timers, runningFlushes, flushing>> /\ pc' = "idle"
        \/ UNCHANGED <<timers, runningFlushes>> /\ ~flushing
    BY <2>1 DEF Flush, flushVars
  <2> QED BY <1>0, <1>1, <2>2
<1>4. ASSUME StopFlush \/ AtMaxParallelism \/ FlushInProgress \/ FlushOver PROVE Goal
  <2>1. pc = "flush_next" /\ timers' = timers /\ runningFlushes' = runningFlushes
    BY <1>4 DEF StopFlush, AtMaxParallelism, FlushInProgress, FlushOver, InFlushNext,
                NothingToSend, flushVars
  <2> QED BY <1>0, <1>1, <2>1
<1>5. ASSUME NEW t \in trsToFlush, Send(t) PROVE Goal
  <2>1. /\ pc = "flush_next" /\ timers' = timers /\ pc' = pc
        /\ runningFlushes < 1 /\ runningFlushes' = runningFlushes + 1
    BY <1>5 DEF Send, CanSend, InFlushNext
  <2> QED BY <1>0, <2>1
<1>6. ASSUME NEW t \in trsToFlush, SendRaises(t) PROVE Goal
  <2>1. pc = "flush_next" /\ timers' = timers /\ runningFlushes' = runningFlushes
    BY <1>6 DEF SendRaises, CanSend, InFlushNext
  <2> QED BY <1>0, <1>1, <2>1
<1>7. CASE ScheduleTimer
  <2>1. /\ timers = <<>> /\ runningFlushes = 0 /\ runningFlushes' = 0
        /\ pc' = "idle" /\ flushing'
    BY <1>0, <1>7 DEF ScheduleTimer, InFlushNext
  <2>2. Len(timers') = Len(timers) + 1
    BY <1>7 DEF ScheduleTimer, TypeInv
  <2> QED BY <1>0, <2>1, <2>2
<1>8. CASE TimerFires
  <2>1. timers # <<>> /\ timers' = Tail(timers) /\ runningFlushes' = runningFlushes
    BY <1>8 DEF TimerFires
  <2>2. Len(timers) = 1 /\ runningFlushes = 0
    <3>1. runningFlushes \in Nat
      OBVIOUS
    <3>2. Len(timers) # 0
      BY <1>0, <2>1, Zenon
    <3>3. Len(timers) \in Nat /\ Len(timers) + runningFlushes <= 1
      BY <1>0, Zenon
    <3> QED
      <4> DEFINE len == Len(timers)
      <4> HIDE DEF len
      <4> SUFFICES len = 1 /\ runningFlushes = 0
        BY DEF len
      <4>1. len \in Nat /\ len # 0 /\ len + runningFlushes <= 1
        BY <3>2, <3>3 DEF len
      <4> QED BY <3>1, <4>1
  <2>3. timers \in Seq(Nat)
    BY DEF TypeInv
  <2>4. timers' \in Seq(Nat) /\ Len(timers') = 0
    BY <2>1, <2>2, <2>3, HeadTailProperties
  <2>5. timers' = <<>>
    BY <2>4, EmptySeq
  <2> QED BY <2>1, <2>2, <2>4, <2>5
<1>9. ASSUME NEW t \in inFlight, Answered(t), timers' = timers, flushing' = flushing
      PROVE  Goal
  <2>1. runningFlushes = 1 /\ timers = <<>> /\ runningFlushes' = 0
    BY <1>0, <1>9 DEF Answered
  <2> QED BY <1>0, <1>9, <2>1
<1>10. ASSUME NEW t \in inFlight, NEW n \in 0..1, Commit(t, n) PROVE Goal
  BY <1>9, <1>10 DEF Commit
<1>11. ASSUME NEW t \in inFlight, Failed(t) PROVE Goal
  BY <1>9, <1>11 DEF Failed
<1> QED
  BY <1>2, <1>3, <1>4, <1>5, <1>6, <1>7, <1>8, <1>10, <1>11
  DEF Next, Handler, FlushNext, OnResponse, Accepted, Rejected

(* tr_error leaves in the schedule only what is due and whose endpoint is not down. *)
LEMMA TrErrorSchedule ==
  ASSUME TypeInv, ScheduleInv, now' = now,
         NEW t \in 1..counter, NEW scheduled \in SUBSET trsToFlush, t \notin scheduled,
         TrError(t, scheduled)
  PROVE  ScheduleInv'
<1> DEFINE e == tr[t].endpoint
           n == endpointsErrors[e] + 1
           down == IF n = MaxEndpointErrors
                   THEN {u \in scheduled : tr[u].endpoint = e} ELSE {}
<1>1. /\ endpointsErrors' = [endpointsErrors EXCEPT ![e] = n]
      /\ trsToFlush' = scheduled \ down
  BY DEF TrError
<1>2. \A u \in trsToFlush' : tr'[u] = tr[u]
  <2> SUFFICES ASSUME NEW u \in trsToFlush' PROVE tr'[u] = tr[u]
    OBVIOUS
  <2>1. u # t /\ u \notin down /\ u \in DOMAIN tr
    BY <1>1 DEF TypeInv
  <2> QED BY <2>1 DEF TrError
<1>3. e \in Endpoints
  BY DEF TypeInv, Transaction
<1>4. DownEndpointSkipped'
  <2> SUFFICES ASSUME NEW u \in trsToFlush'
               PROVE  endpointsErrors'[tr[u].endpoint] < MaxEndpointErrors
    BY <1>2 DEF DownEndpointSkipped
  <2>1. u \in trsToFlush /\ u \in scheduled /\ u \notin down
    BY <1>1
  <2>2. tr[u].endpoint \in Endpoints
    BY <2>1 DEF TypeInv, Transaction
  <2>3. /\ endpointsErrors[tr[u].endpoint] < MaxEndpointErrors
        /\ endpointsErrors[tr[u].endpoint] \in Nat
    BY <2>1, <2>2 DEF ScheduleInv, DownEndpointSkipped, TypeInv
  <2>4. CASE tr[u].endpoint = e
    <3>1. n # MaxEndpointErrors
      BY <2>1, <2>4
    <3>2. endpointsErrors'[tr[u].endpoint] = n
      BY <1>1, <1>3, <2>4 DEF TypeInv
    <3> QED BY <2>3, <2>4, <3>1, <3>2, ConstantTypes
  <2>5. CASE tr[u].endpoint # e
    BY <1>1, <2>2, <2>3, <2>5 DEF TypeInv
  <2> QED BY <2>4, <2>5
<1>5. DueWhenSent'
  BY <1>1, <1>2 DEF ScheduleInv, DueWhenSent
<1> QED BY <1>4, <1>5 DEF ScheduleInv

(* Every step keeps the schedule of the flush due and clear of failing endpoints. *)
LEMMA ScheduleNext == TypeInv /\ FlushInv /\ ScheduleInv /\ [Next]_vars => ScheduleInv'
<1> SUFFICES ASSUME TypeInv, FlushInv, ScheduleInv, [Next]_vars PROVE ScheduleInv'
  OBVIOUS
<1>1. CASE /\ trsToFlush' \subseteq trsToFlush /\ endpointsErrors' = endpointsErrors
           /\ now \in Nat /\ now' \in Nat /\ now <= now'
           /\ \A t \in trsToFlush : tr'[t] = tr[t]
  <2>1. \A t \in trsToFlush : tr[t].nextFlush \in Nat
    BY DEF TypeInv, Transaction
  <2> QED BY <1>1, <2>1 DEF ScheduleInv, DueWhenSent, DownEndpointSkipped
<1>2. ASSUME \/ \E size \in Sizes : Post(size)
             \/ \E t \in transactions : Evict(t)
             \/ StopFlush \/ ScheduleTimer \/ AtMaxParallelism \/ FlushInProgress
             \/ FlushOver \/ TimerFires \/ UNCHANGED vars
             \/ \E t \in trsToFlush : Send(t)
             \/ \E t \in inFlight, n \in 0..1 : Commit(t, n)
      PROVE  ScheduleInv'
  <2>1. trsToFlush' \subseteq trsToFlush /\ UNCHANGED <<endpointsErrors, now, tr>>
    BY <1>2 DEF Post, Evict, StopFlush, ScheduleTimer, AtMaxParallelism, FlushInProgress,
                FlushOver, TimerFires, Send, Commit, vars, queueVars, flushVars
  <2> QED BY <1>1, <2>1 DEF TypeInv
<1>3. CASE AppendCopy
  <2>1. \A t \in trsToFlush : tr'[t] = tr[t]
    BY <1>3 DEF AppendCopy, TypeInv
  <2> QED BY <1>1, <1>3, <2>1 DEF AppendCopy, TypeInv, flushVars
<1>4. CASE Tick
  BY <1>1, <1>4 DEF Tick, TypeInv, flushVars, queueVars
<1>5. ASSUME PostFlush \/ FlushTrs PROVE ScheduleInv'
  <2>1. Flush /\ UNCHANGED <<tr, now>>
    BY <1>5 DEF PostFlush, FlushTrs, queueVars
  <2>2. CASE UNCHANGED flushVars
    BY <1>1, <2>1, <2>2 DEF TypeInv, flushVars
  <2>3. CASE /\ endpointsErrors' = NoErrors
             /\ trsToFlush' = {t \in transactions : TimeToFlush(t)}
    <3>1. DueWhenSent'
      BY <2>1, <2>3 DEF DueWhenSent, TimeToFlush
    <3>2. \A t \in trsToFlush' : endpointsErrors'[tr'[t].endpoint] = 0
      BY <2>1, <2>3 DEF TypeInv, Transaction, NoErrors
    <3>3. DownEndpointSkipped'
      BY <3>2, ConstantTypes DEF DownEndpointSkipped
    <3> QED BY <3>1, <3>3 DEF ScheduleInv
  <2> QED BY <2>1, <2>2, <2>3 DEF Flush
<1>6. ASSUME NEW t \in trsToFlush, SendRaises(t) PROVE ScheduleInv'
  <2>1. TrError(t, trsToFlush \ {t}) /\ now' = now /\ t \in 1..counter
    BY <1>6 DEF SendRaises, TypeInv
  <2> QED BY <2>1, TrErrorSchedule
<1>7. ASSUME NEW t \in inFlight, Failed(t) PROVE ScheduleInv'
  <2>1. TrError(t, trsToFlush) /\ now' = now /\ t \in 1..counter /\ t \notin trsToFlush
    BY <1>7 DEF Failed, TypeInv, FlushInv, NeverSentAgain
  <2> QED BY <2>1, TrErrorSchedule
<1> QED
  BY <1>2, <1>3, <1>4, <1>5, <1>6, <1>7
  DEF Next, Handler, FlushNext, OnResponse, Accepted, Rejected

(* The invariant holds initially. *)
LEMMA InvInit == Init => Inv
<1> SUFFICES ASSUME Init PROVE Inv
  OBVIOUS
<1>1. TypeInv
  BY TypeInit
<1>2. CountInv
  BY FS_EmptySet DEF Init, CountInv, CountsAgree
<1>3. FlushInv
  BY FS_EmptySet, ConstantTypes DEF Init, FlushInv, RunningExact, NeverSentAgain
<1>4. CallbackInv /\ ScheduleInv
  BY DEF Init, CallbackInv, ScheduleInv, DueWhenSent, DownEndpointSkipped
<1>5. ChainInv
  BY EmptySeq DEF Init, ChainInv
<1> QED BY <1>1, <1>2, <1>3, <1>4, <1>5 DEF Inv

(* Every transaction the forwarder received is queued, flushed or evicted, exactly
   once; requests on the wire are counted and within the parallelism; nothing is sent
   again after it was committed; a flush in progress always has a callback to come
   unless one of its callbacks raised; and what it still schedules is due, for an
   endpoint that is not down. *)
THEOREM InvariantHolds == Spec => []Inv
<1>1. Inv /\ [Next]_vars => Inv'
  BY TypeNext, CountNext, FlushInvNext, CallbackNext, ChainNext, ScheduleNext DEF Inv
<1> QED BY InvInit, <1>1, PTL DEF Spec

(* The forwarder's state keeps its types, and its counts of transactions and of requests are
   never negative: an answer for a transaction that append() removed is not counted again. *)
THEOREM TypeCorrect == Spec => []TypeOK
<1>1. Inv => TypeOK
  <2> SUFFICES ASSUME Inv PROVE TypeOK
    OBVIOUS
  <2>1. IsFiniteSet(transactions) /\ IsFiniteSet(inFlight)
    BY SetsFinite DEF Inv
  <2>2. totalCount \in Nat /\ runningFlushes \in Nat
    BY <2>1, FS_CardinalityType DEF Inv, CountInv, CountsAgree, FlushInv, RunningExact
  <2> QED BY <2>2 DEF Inv, TypeInv, TypeOK
<1> QED BY <1>1, InvariantHolds, PTL

(* The counters of the queue agree with it: none is lost or counted twice. *)
THEOREM CountsCorrect == Spec => []CountsAgree
<1>1. Inv => CountsAgree
  BY DEF Inv, CountInv
<1> QED BY <1>1, InvariantHolds, PTL

(* At most _MAX_PARALLELISM requests run, and _running_flushes is their number. *)
THEOREM RunningCorrect == Spec => []RunningExact
<1>1. Inv => RunningExact
  BY DEF Inv, FlushInv
<1> QED BY <1>1, InvariantHolds, PTL

(* A committed transaction is neither sent again nor chosen by a flush, and none is on the wire
   twice.  One that append() removed may still be sent by the flush that had chosen it. *)
THEOREM CommittedOnce == Spec => []NeverSentAgain
<1>1. Inv => NeverSentAgain
  BY DEF Inv, FlushInv
<1> QED BY <1>1, InvariantHolds, PTL

(* Only a callback that raises can leave a flush without a callback to come. *)
THEOREM FlushNotForgotten == Spec => []FlushHasCallback
<1>1. Inv => FlushHasCallback
  BY DEF Inv, CallbackInv, FlushHasCallback
<1> QED BY <1>1, InvariantHolds, PTL

(* Without parallelism a flush is one chain of callbacks. *)
THEOREM OneChain == Spec => []SingleChain
<1>1. Inv => SingleChain
  BY DEF Inv, ChainInv, SingleChain
<1> QED BY <1>1, InvariantHolds, PTL

(* No transaction is sent before its replay date. *)
THEOREM NeverSentEarly == Spec => []DueWhenSent
<1>1. Inv => DueWhenSent
  BY DEF Inv, ScheduleInv
<1> QED BY <1>1, InvariantHolds, PTL

(* A flush stops trying an endpoint that failed _MAX_ENDPOINT_ERRORS times. *)
THEOREM DownEndpointLeftAlone == Spec => []DownEndpointSkipped
<1>1. Inv => DownEndpointSkipped
  BY DEF Inv, ScheduleInv
<1> QED BY <1>1, InvariantHolds, PTL

-----------------------------------------------------------------------------
(* The size of the queue.  SizeUpTo is a recursive function, so nothing is known of it
   until some function is known to satisfy its equation.  The invariant carries such a
   function along, step by step, and the equation has no other solution. *)

Weight(id) == IF id \in transactions THEN tr[id].size ELSE 0

\* f[id] is the size of the transactions in the queue up to id.
Adds(f) ==
  /\ f \in [0..counter -> Int]
  /\ f[0] = 0
  /\ \A id \in 1..counter : f[id] = f[id - 1] + Weight(id)

SizeInv ==
  /\ \E f \in [0..counter -> Int] : Adds(f) /\ f[counter] = totalSize
  /\ totalSize <= MaxQueueSize \/ Cardinality(transactions) <= 1

(* A set of numbers that is not empty has a least one. *)
LEMMA LeastThere ==
  ASSUME NEW S \in SUBSET Nat, S # {}
  PROVE  \E m \in S : \A k \in S : m <= k
<1>1. PICK m \in S : \A k \in S : <<k, m>> \notin OpToRel(<, Nat)
  BY WFMin, NatLessThanWellFounded, Zenon
<1>2. \A k \in S : ~(k < m)
  BY <1>1 DEF OpToRel
<1> QED BY <1>2

(* SizeUpTo adds up the queue, as soon as some function does: at the least id where the
   two might differ they have added up the same sizes before it. *)
LEMMA SizeUpToAdds ==
  ASSUME counter \in Nat, NEW f, Adds(f)
  PROVE  SizeUpTo = f
<1> DEFINE E(h) == [id \in 0..counter |->
                      IF id = 0 THEN 0
                      ELSE h[id - 1] + IF id \in transactions THEN tr[id].size ELSE 0]
           g == SizeUpTo
           D == {id \in 0..counter : f[id] # g[id]}
<1>1. f = E(f)
  BY DEF Adds, Weight
<1>2. SizeUpTo = CHOOSE h : h = E(h)
  BY DEF SizeUpTo
<1>3. g = E(g)
  <2> HIDE DEF E
  <2> QED BY <1>1, <1>2
<1>4. /\ DOMAIN g = 0..counter /\ g = [id \in 0..counter |-> g[id]] /\ g[0] = 0
      /\ \A id \in 1..counter : g[id] = g[id - 1] + Weight(id)
  <2> HIDE DEF g
  <2> QED BY <1>3 DEF Weight
<1> HIDE DEF g
<1>5. D = {}
  <2> SUFFICES ASSUME D # {} PROVE FALSE
    OBVIOUS
  <2>1. D \in SUBSET Nat
    OBVIOUS
  <2>2. PICK m \in D : \A k \in D : m <= k
    <3> HIDE DEF D
    <3> QED BY <2>1, LeastThere
  <2>3. m \in 1..counter /\ m - 1 \in 0..counter
    BY <1>4, <2>2 DEF Adds
  <2>4. f[m - 1] = g[m - 1]
    BY <2>2, <2>3
  <2> QED BY <1>4, <2>2, <2>3, <2>4 DEF Adds
<1>6. f = [id \in 0..counter |-> f[id]]
  BY DEF Adds
<1> QED BY <1>4, <1>5, <1>6 DEF g

(* A step that keeps the queue and the sizes in it keeps their sum. *)
LEMMA SizeKept ==
  ASSUME TypeInv, SizeInv, UNCHANGED <<transactions, counter, totalSize>>,
         \A id \in transactions : tr'[id].size = tr[id].size
  PROVE  SizeInv'
<1>1. PICK f \in [0..counter -> Int] : Adds(f) /\ f[counter] = totalSize
  BY DEF SizeInv
<1>2. \A id \in 1..counter : Weight(id)' = Weight(id)
  BY DEF Weight
<1>3. Adds(f)' /\ f[counter'] = totalSize' /\ f \in [0..counter' -> Int]
  BY <1>1, <1>2 DEF Adds
<1> QED BY <1>3 DEF SizeInv

(* A transaction that leaves the queue takes its size away from every sum it was in. *)
LEMMA SizeRemoved ==
  ASSUME TypeInv, SizeInv, NEW t \in transactions,
         transactions' = transactions \ {t}, totalSize' = totalSize - tr[t].size,
         UNCHANGED <<tr, counter>>
  PROVE  SizeInv'
<1>1. PICK f \in [0..counter -> Int] : Adds(f) /\ f[counter] = totalSize
  BY DEF SizeInv
<1> DEFINE s == tr[t].size
<1>a. PICK g : g = [id \in 0..counter |-> IF id < t THEN f[id] ELSE f[id] - s]
  OBVIOUS
<1>2. s \in Nat /\ t \in 1..counter /\ counter \in Nat
  BY DEF TypeInv, Transaction
<1>3. /\ \A id \in 1..counter : id # t => Weight(id)' = Weight(id)
      /\ Weight(t) = s /\ Weight(t)' = 0
  BY DEF Weight
<1>4. \A id \in 1..counter : Weight(id) \in Int
  BY DEF Weight, TypeInv, Transaction
<1> HIDE DEF s
<1>5. g \in [0..counter -> Int] /\ g[0] = 0
  BY <1>a, <1>1, <1>2 DEF Adds
<1>6. ASSUME NEW id \in 1..counter PROVE g[id] = g[id - 1] + Weight(id)'
  <2>1. id - 1 \in 0..counter /\ f[id] = f[id - 1] + Weight(id) /\ f[id - 1] \in Int
    BY <1>1, <1>2 DEF Adds
  <2>2. CASE id < t
    BY <1>a, <1>2, <1>3, <2>1, <2>2
  <2>3. CASE id = t
    BY <1>a, <1>2, <1>3, <2>1, <2>3
  <2>4. CASE id > t
    BY <1>a, <1>2, <1>3, <1>4, <2>1, <2>4
  <2> QED BY <1>2, <2>2, <2>3, <2>4
<1>7. Adds(g)' /\ g \in [0..counter' -> Int]
  BY <1>5, <1>6 DEF Adds
<1>8. g[counter'] = totalSize' /\ totalSize' <= totalSize
  BY <1>a, <1>1, <1>2 DEF TypeInv, s
<1>9. Cardinality(transactions') <= Cardinality(transactions) /\ Cardinality(transactions') \in Nat
  <2>1. IsFiniteSet(transactions) /\ Cardinality(transactions) \in Nat
    BY SetsFinite
  <2>2. IsFiniteSet(transactions \ {t}) /\ Cardinality(transactions \ {t}) \in Nat
    BY <2>1, FS_RemoveElement, FS_CardinalityType
  <2>3. Cardinality(transactions \ {t}) = Cardinality(transactions) - 1
    BY <2>1, FS_RemoveElement
  <2> QED BY <2>1, <2>2, <2>3
<1>10. totalSize' <= MaxQueueSize \/ Cardinality(transactions') <= 1
  <2>1. totalSize' \in Int /\ totalSize \in Int /\ MaxQueueSize \in Nat
    BY <1>2, ConstantTypes DEF TypeInv, s
  <2> QED BY <1>8, <1>9, <2>1, SetsFinite DEF SizeInv
<1> QED BY <1>7, <1>8, <1>10 DEF SizeInv

(* append() adds the new transaction's size, and lets the sum exceed the maximum only
   when the queue was emptied. *)
LEMMA SizeAppended == ASSUME TypeInv, SizeInv, AppendCopy PROVE SizeInv'
<1>1. PICK f \in [0..counter -> Int] : Adds(f) /\ f[counter] = totalSize
  BY DEF SizeInv
<1>a. PICK new : new = counter + 1
  OBVIOUS
<1>b. PICK g : g = [id \in 0..new |-> IF id = new THEN totalSize + postSize ELSE f[id]]
  OBVIOUS
<1>2. /\ counter \in Nat /\ totalSize \in Int /\ postSize \in Nat /\ MaxQueueSize \in Nat
      /\ transactions \subseteq 1..counter
      /\ new \in Nat
  BY <1>a, ConstantTypes DEF TypeInv
<1>3. /\ counter' = new /\ totalSize' = totalSize + postSize
      /\ transactions' = transactions \cup {new}
      /\ tr' = [t \in 1..new |->
                 IF t = new
                 THEN [endpoint |-> Targets[copy], size |-> postSize,
                       errorCount |-> 0, nextFlush |-> now]
                 ELSE tr[t]]
      /\ QueueIsTooBig => transactions = {}
  BY <1>a DEF AppendCopy
<1>4. \A id \in 1..counter : Weight(id)' = Weight(id)
  BY <1>a, <1>2, <1>3 DEF Weight
<1>5. Weight(new)' = postSize
  BY <1>a, <1>2, <1>3 DEF Weight
<1>6. g \in [0..new -> Int] /\ g[0] = 0
  BY <1>a, <1>b, <1>1, <1>2, <1>3 DEF Adds
<1>7. \A id \in 1..new : g[id] = g[id - 1] + Weight(id)'
  <2>1. ASSUME NEW id \in 1..counter PROVE g[id] = g[id - 1] + Weight(id)'
    BY <1>a, <1>b, <1>1, <1>2, <1>4 DEF Adds
  <2>2. g[new] = g[new - 1] + Weight(new)'
    BY <1>a, <1>b, <1>1, <1>2, <1>3, <1>5
  <2>3. 1..new = 1..counter \cup {new}
    BY <1>a, <1>2
  <2> QED BY <2>1, <2>2, <2>3
<1>8. Adds(g)' /\ g \in [0..counter' -> Int] /\ g[counter'] = totalSize'
  <2>1. Adds(g)' /\ g \in [0..counter' -> Int]
    BY <1>3, <1>6, <1>7 DEF Adds
  <2>2. g[new] = totalSize'
    BY <1>b, <1>2, <1>3
  <2> QED BY <1>3, <2>1, <2>2
<1>9. totalSize' <= MaxQueueSize \/ Cardinality(transactions') <= 1
  <2>1. CASE QueueIsTooBig
    <3>1. transactions' = {new}
      BY <1>3, <2>1
    <3>2. Cardinality({new}) = 1
      BY FS_Singleton, Zenon
    <3> QED BY <3>1, <3>2
  <2>2. CASE ~QueueIsTooBig
    BY <1>2, <1>3, <2>2 DEF QueueIsTooBig
  <2> QED BY <2>1, <2>2
<1> QED BY <1>8, <1>9 DEF SizeInv

(* Every step keeps the size: an error changes dates and counts of errors, no size. *)
LEMMA SizeNext == TypeInv /\ SizeInv /\ [Next]_vars => SizeInv'
<1> SUFFICES ASSUME TypeInv, SizeInv, [Next]_vars PROVE SizeInv'
  OBVIOUS
<1>1. CASE UNCHANGED queueVars
  BY <1>1, SizeKept DEF queueVars
<1>2. CASE AppendCopy
  BY <1>2, SizeAppended
<1>3. ASSUME NEW t \in transactions, Evict(t) PROVE SizeInv'
  BY <1>3, SizeRemoved DEF Evict
<1>4. ASSUME NEW t \in inFlight, NEW n \in 0..1, Commit(t, n) PROVE SizeInv'
  <2>1. CASE t \in transactions
    BY <1>4, <2>1, SizeRemoved DEF Commit, Remove
  <2>2. CASE t \notin transactions
    BY <1>4, <2>2, SizeKept DEF Commit
  <2> QED BY <2>1, <2>2
<1>5. ASSUME NEW t, NEW scheduled, TrError(t, scheduled),
             UNCHANGED <<transactions, counter, totalSize>>
      PROVE  SizeInv'
  <2>1. \A id \in 1..counter : tr'[id].size = tr[id].size
    BY <1>5 DEF TrError, TypeInv, Transaction
  <2> QED BY <1>5, <2>1, SizeKept DEF TypeInv
<1>6. ASSUME \/ \E t \in trsToFlush : SendRaises(t)
             \/ \E t \in inFlight : Failed(t)
      PROVE  SizeInv'
  BY <1>5, <1>6 DEF SendRaises, Failed
<1>7. \/ UNCHANGED queueVars \/ AppendCopy
      \/ \E t \in transactions : Evict(t)
      \/ \E t \in inFlight, n \in 0..1 : Commit(t, n)
      \/ \E t \in trsToFlush : SendRaises(t)
      \/ \E t \in inFlight : Failed(t)
  BY DEF Next, Handler, FlushNext, OnResponse, Accepted, Rejected, vars, Post, PostFlush, FlushTrs,
         StopFlush, Send, ScheduleTimer, AtMaxParallelism, FlushOver, FlushInProgress, TimerFires,
         Tick
<1> QED BY <1>1, <1>2, <1>3, <1>4, <1>6, <1>7

(* Nothing is in the queue at first. *)
LEMMA SizeInit == Init => SizeInv
<1> SUFFICES ASSUME Init PROVE SizeInv
  OBVIOUS
<1> DEFINE f == [id \in 0..0 |-> 0]
<1>1. counter = 0 /\ totalSize = 0 /\ transactions = {}
  BY DEF Init
<1>2. f \in [0..counter -> Int] /\ Adds(f) /\ f[counter] = totalSize
  BY <1>1 DEF Adds
<1>3. Cardinality(transactions) <= 1
  BY <1>1, FS_EmptySet
<1> HIDE DEF f
<1> QED BY <1>2, <1>3 DEF SizeInv

(* _total_size is the sum of the sizes in the queue, and exceeds MAX_QUEUE_SIZE only for
   one transaction that is by itself larger. *)
THEOREM SizeCorrect == Spec => []SizeSound
<1>1. TypeInv /\ SizeInv => SizeSound
  <2> SUFFICES ASSUME TypeInv, SizeInv PROVE SizeSound
    OBVIOUS
  <2>1. PICK f \in [0..counter -> Int] : Adds(f) /\ f[counter] = totalSize
    BY DEF SizeInv
  <2>2. SizeUpTo = f
    BY <2>1, SizeUpToAdds DEF TypeInv
  <2> QED BY <2>1, <2>2 DEF SizeSound, SizeInv
<1>2. SizeInv /\ TypeInv /\ [Next]_vars => SizeInv'
  BY SizeNext
<1> QED BY <1>1, <1>2, SizeInit, TypeInvHolds, TypeNext, TypeInit, PTL DEF Spec
=============================================================================
