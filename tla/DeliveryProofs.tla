---------------------------- MODULE DeliveryProofs ----------------------------
(***************************************************************************)
(* The forwarder's transaction manager implements Delivery, for every      *)
(* value of the constants.                                                 *)
(***************************************************************************)
EXTENDS TransactionManagerProofs

(* The initial states map to the initial state of Delivery. *)
LEMMA InitMaps == Init => Promise!Init
<1> SUFFICES ASSUME Init PROVE Promise!Init
  OBVIOUS
<1>1. counter = 0 /\ inFlight = {}
  BY DEF Init
<1>2. Fate = <<>>
  <2>1. 1..0 = {}
    OBVIOUS
  <2> QED BY <1>1, <2>1 DEF Fate
<1> QED BY <1>1, <1>2 DEF Promise!Init

(* A step that leaves the queue and the wire alone is a stutter. *)
LEMMA Stutters ==
  ASSUME UNCHANGED <<transactions, counter, evicted, inFlight>>
  PROVE  UNCHANGED Promise!vars
BY DEF Fate, Promise!vars

(* What is in the queue is not what was evicted, so Fate tells the three apart. *)
LEMMA FateCases ==
  ASSUME CountInv, NEW t \in 1..counter
  PROVE  /\ Fate[t] = "queued" <=> t \in transactions
         /\ Fate[t] = "dropped" <=> t \in evicted
         /\ Fate[t] = "done" <=> t \notin transactions \cup evicted
BY DEF Fate, CountInv

(* append() receives a transaction. *)
LEMMA AppendMaps == TypeInv /\ AppendCopy => Promise!Receive
<1> SUFFICES ASSUME TypeInv, AppendCopy PROVE Promise!Receive
  OBVIOUS
<1>1. /\ counter' = counter + 1 /\ transactions' = transactions \cup {counter + 1}
      /\ UNCHANGED <<evicted, inFlight>>
  BY DEF AppendCopy, flushVars
<1>2. counter \in Nat /\ counter + 1 \notin transactions /\ counter + 1 \notin 1..counter
      /\ 1..counter \subseteq 1..counter + 1
  BY DEF TypeInv
<1>3. Fate' = [t \in 1..counter + 1 |-> IF t \in 1..counter THEN Fate[t] ELSE "queued"]
  <2> DEFINE new(t) == IF t \in 1..counter THEN Fate[t] ELSE "queued"
             old(t) == IF t \in transactions' THEN "queued"
                       ELSE IF t \in evicted THEN "dropped" ELSE "done"
  <2>1. \A t \in 1..counter + 1 : old(t) = new(t)
    <3> SUFFICES ASSUME NEW t \in 1..counter + 1 PROVE old(t) = new(t)
      OBVIOUS
    <3>1. CASE t \in 1..counter
      <4>1. t \in transactions' <=> t \in transactions
        BY <1>1, <1>2, <3>1
      <4> QED BY <3>1, <4>1 DEF Fate
    <3>2. CASE t \notin 1..counter
      <4>1. t = counter + 1
        BY <1>2, <3>2
      <4> QED BY <1>1, <3>2, <4>1
    <3> QED BY <3>1, <3>2
  <2>2. Fate' = [t \in 1..counter + 1 |-> old(t)]
    BY <1>1 DEF Fate
  <2> HIDE DEF old, new
  <2>3. Fate' = [t \in 1..counter + 1 |-> new(t)]
    BY <2>1, <2>2
  <2> QED BY <2>3 DEF new
<1> QED BY <1>1, <1>3 DEF Promise!Receive

(* A change of what became of one transaction, the others being left alone. *)
LEMMA FateChanges ==
  ASSUME TypeInv, CountInv, counter' = counter, NEW t \in transactions, NEW end,
         transactions' = transactions \ {t},
         \/ evicted' = evicted \cup {t} /\ end = "dropped"
         \/ evicted' = evicted /\ end = "done"
  PROVE  Fate' = [Fate EXCEPT ![t] = end]
<1> DEFINE new(u) == IF u \in transactions' THEN "queued"
                     ELSE IF u \in evicted' THEN "dropped" ELSE "done"
<1>1. Fate' = [u \in 1..counter |-> new(u)]
  BY DEF Fate
<1>2. \A u \in 1..counter : new(u) = IF u = t THEN end ELSE Fate[u]
  BY DEF Fate, CountInv
<1>3. t \in 1..counter /\ DOMAIN Fate = 1..counter
  BY DEF TypeInv, Fate
<1> HIDE DEF new
<1> QED BY <1>1, <1>2, <1>3

(* An eviction drops a transaction, on the wire or not. *)
LEMMA EvictMaps ==
  ASSUME TypeInv, CountInv, NEW t \in transactions, Evict(t)
  PROVE  Promise!Drop(t)
<1>1. /\ transactions' = transactions \ {t} /\ evicted' = evicted \cup {t}
      /\ UNCHANGED <<counter, inFlight>>
  BY DEF Evict, flushVars
<1>2. Fate' = [Fate EXCEPT ![t] = "dropped"]
  BY <1>1, FateChanges
<1>3. Fate[t] = "queued"
  BY FateCases DEF TypeInv
<1> QED BY <1>1, <1>2, <1>3 DEF Promise!Drop

(* flush_next() sends what is neither on the wire nor answered, within the limit. *)
LEMMA SendMaps ==
  ASSUME TypeInv, CountInv, FlushInv, NEW t \in trsToFlush, Send(t)
  PROVE  Promise!Send(t)
<1>1. inFlight' = inFlight \cup {t} /\ UNCHANGED <<transactions, counter, evicted>>
  BY DEF Send, queueVars
<1>2. t \notin inFlight /\ t \in transactions \cup evicted /\ t \in 1..counter
  BY DEF FlushInv, NeverSentAgain, TypeInv
<1>3. Fate[t] # "done"
  BY <1>2, FateCases
<1>4. Cardinality(inFlight) < MaxParallelism
  BY DEF Send, CanSend, FlushInv, RunningExact
<1>5. Fate' = Fate
  BY <1>1 DEF Fate
<1>6. Promise!Cardinality(inFlight) = Cardinality(inFlight)
  BY Zenon DEF Promise!Cardinality, Cardinality
<1> QED BY <1>1, <1>2, <1>3, <1>4, <1>5, <1>6 DEF Promise!Send

(* An answer commits a transaction that is still queued; for one that was evicted
   it is lost, like a request that failed. *)
LEMMA CommitMaps ==
  ASSUME TypeInv, CountInv, NEW t \in inFlight, NEW n \in 0..1, Commit(t, n)
  PROVE  Promise!Answer(t) \/ Promise!Lose(t)
<1>1. inFlight' = inFlight \ {t} /\ UNCHANGED <<counter, evicted>> /\ t \in 1..counter
  BY DEF Commit, Answered, TypeInv
<1>2. CASE t \in transactions
  <2>1. transactions' = transactions \ {t}
    BY <1>2 DEF Commit, Remove
  <2>2. Fate' = [Fate EXCEPT ![t] = "done"]
    BY <1>1, <1>2, <2>1, FateChanges
  <2>3. Fate[t] = "queued"
    BY <1>1, <1>2, FateCases
  <2> QED BY <1>1, <2>2, <2>3 DEF Promise!Answer
<1>3. CASE t \notin transactions
  <2>1. transactions' = transactions
    BY <1>3 DEF Commit
  <2>2. Fate' = Fate
    BY <1>1, <2>1 DEF Fate
  <2> QED BY <1>1, <2>2 DEF Promise!Lose
<1> QED BY <1>2, <1>3

(* A request that failed leaves the wire, and its transaction where it was. *)
LEMMA FailedMaps ==
  ASSUME TypeInv, NEW t \in inFlight, Failed(t)
  PROVE  Promise!Lose(t)
<1>1. inFlight' = inFlight \ {t} /\ UNCHANGED <<transactions, counter, evicted>>
  BY DEF Failed, Answered
<1>2. Fate' = Fate
  BY <1>1 DEF Fate
<1> QED BY <1>1, <1>2 DEF Promise!Lose

(* Every step of the forwarder is a step of Delivery or a stutter. *)
LEMMA StepMaps == Inv /\ [Next]_vars => [Promise!Next]_(Promise!vars)
<1> SUFFICES ASSUME Inv, [Next]_vars PROVE Promise!Next \/ UNCHANGED Promise!vars
  OBVIOUS
<1>0. TypeInv /\ CountInv /\ FlushInv
  BY DEF Inv
<1>1. CASE AppendCopy
  BY <1>0, <1>1, AppendMaps DEF Promise!Next
<1>2. ASSUME NEW t \in transactions, Evict(t) PROVE Promise!Next
  <2>1. Promise!Drop(t) /\ t \in 1..counter
    BY <1>0, <1>2, EvictMaps DEF TypeInv
  <2> QED BY <2>1 DEF Promise!Next
<1>3. ASSUME NEW t \in trsToFlush, Send(t) PROVE Promise!Next
  <2>1. Promise!Send(t) /\ t \in 1..counter
    BY <1>0, <1>3, SendMaps DEF TypeInv
  <2> QED BY <2>1 DEF Promise!Next
<1>4. ASSUME NEW t \in inFlight, NEW n \in 0..1, Commit(t, n) PROVE Promise!Next
  <2>1. (Promise!Answer(t) \/ Promise!Lose(t)) /\ t \in 1..counter
    BY <1>0, <1>4, CommitMaps DEF TypeInv
  <2> QED BY <2>1 DEF Promise!Next
<1>5. ASSUME NEW t \in inFlight, Failed(t) PROVE Promise!Next
  <2>1. Promise!Lose(t) /\ t \in 1..counter
    BY <1>0, <1>5, FailedMaps DEF TypeInv
  <2> QED BY <2>1 DEF Promise!Next
<1>6. ASSUME \/ \E size \in Sizes : Post(size)
             \/ PostFlush \/ FlushTrs \/ StopFlush \/ ScheduleTimer \/ AtMaxParallelism
             \/ FlushInProgress \/ FlushOver \/ TimerFires \/ Tick
             \/ \E t \in trsToFlush : SendRaises(t)
             \/ UNCHANGED vars
      PROVE  UNCHANGED Promise!vars
  <2>1. UNCHANGED <<transactions, counter, evicted>>
    BY <1>6 DEF Post, PostFlush, FlushTrs, StopFlush, ScheduleTimer, AtMaxParallelism,
                FlushInProgress, FlushOver, TimerFires, Tick, SendRaises, vars, queueVars
  <2>2. inFlight' = inFlight
    BY <1>6 DEF Post, PostFlush, FlushTrs, Flush, StopFlush, ScheduleTimer, AtMaxParallelism,
                FlushInProgress, FlushOver, TimerFires, Tick, SendRaises, vars, flushVars
  <2> QED BY <2>1, <2>2, Stutters
<1> QED
  BY <1>1, <1>2, <1>3, <1>4, <1>5, <1>6
  DEF Next, Handler, FlushNext, OnResponse, Accepted, Rejected

(* However posts, flushes, timers, failures and evictions interleave, the forwarder does
   with each transaction only what Delivery allows: it leaves the queue once and for good,
   by the answer to its own request or because the queue was full, is on the wire at most
   once at a time and never after its answer, and the wire holds at most MAX_PARALLELISM. *)
THEOREM Implements == Spec => Delivers
BY InitMaps, StepMaps, InvariantHolds, PTL DEF Spec, Delivers, Promise!Spec
=============================================================================
