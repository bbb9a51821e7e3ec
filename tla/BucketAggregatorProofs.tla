------------------------ MODULE BucketAggregatorProofs ------------------------
(***************************************************************************)
(* The aggregator of dogstatsd, which two threads use without a lock: for  *)
(* any contexts, intervals and bounds, and however the threads interleave, *)
(* no sample is reported twice, flush() never finds metric_by_bucket       *)
(* empty, and a context has one point per bucket unless the flush overtook *)
(* the server.                                                             *)
(***************************************************************************)
EXTENDS BucketAggregator, TLAPS, WellFoundedInduction

(* The assumptions on the constants. *)
LEMMA Constants ==
  /\ Counters \subseteq Contexts /\ PacketCount \notin Contexts
  /\ Interval \in Nat \ {0} /\ ReportInterval \in Nat \ {0}
  /\ ExpirySeconds \in Nat /\ MaxSamples \in Nat /\ MaxTime \in Nat
BY BucketAggregatorAssumption

-----------------------------------------------------------------------------
(* The start of a bucket. *)

(* A product by the interval grows by an interval at least. *)
LEMMA Product ==
  \A a, b \in Nat : a < b => Interval * a + Interval <= Interval * b
BY Constants

(* A time is a number of whole intervals and what remains of it. *)
LEMMA Division ==
  \A t \in Nat : /\ t \div Interval \in Nat /\ Interval * (t \div Interval) \in Nat
                 /\ t % Interval \in 0..Interval - 1
                 /\ t = Interval * (t \div Interval) + (t % Interval)
BY Constants

(* _calculate_bucket_start rounds down, and never goes back when the clock advances. *)
LEMMA BucketStart ==
  \A t \in Nat : /\ CalculateBucketStart(t) \in Nat
                 /\ CalculateBucketStart(t) <= CalculateBucketStart(t + 1)
<1> TAKE t \in Nat
<1> DEFINE q == t \div Interval
           p == (t + 1) \div Interval
<1>1. /\ q \in Nat /\ p \in Nat /\ Interval * q \in Nat /\ Interval * p \in Nat
      /\ t % Interval \in 0..Interval - 1 /\ (t + 1) % Interval \in 0..Interval - 1
      /\ t = Interval * q + (t % Interval) /\ t + 1 = Interval * p + ((t + 1) % Interval)
  BY Constants, Division
<1>2. ~(p < q)
  BY <1>1, Product, Constants
<1>3. Interval * q <= Interval * p
  BY <1>1, <1>2, Product, Constants
<1>4. CalculateBucketStart(t) = Interval * q /\ CalculateBucketStart(t + 1) = Interval * p
  BY <1>1, Constants DEF CalculateBucketStart
<1> QED BY <1>1, <1>3, <1>4

(* The buckets of the times up to the bound are natural numbers, and 0 is one of them. *)
LEMMA BucketsNat == /\ Buckets \subseteq Nat /\ 0 \in Buckets
                    /\ \A t \in 0..MaxTime : CalculateBucketStart(t) \in Buckets
<1>1. \A t \in 0..MaxTime : CalculateBucketStart(t) \in Nat /\ CalculateBucketStart(t) \in Buckets
  BY BucketStart, Constants DEF Buckets
<1>2. CalculateBucketStart(0) = 0 /\ 0 \in 0..MaxTime
  BY Constants DEF CalculateBucketStart
<1> QED BY <1>1, <1>2 DEF Buckets

(* A set of buckets that is not empty has a first one, which flush() handles first. *)
LEMMA MinBucket ==
  ASSUME NEW S \in SUBSET Nat, S # {}
  PROVE  Min(S) \in S
<1>1. PICK m \in S : \A y \in S : ~(<<y, m>> \in OpToRel(<, Nat))
  BY WFMin, NatLessThanWellFounded, Zenon
<1>2. \A y \in S : ~(y < m)
  BY <1>1 DEF OpToRel
<1>3. \A y \in S : m <= y
  BY <1>2
<1> QED BY <1>3 DEF Min

-----------------------------------------------------------------------------
(* The inductive invariant. *)

SubmitPhases == {"test", "current", "lookup", "create", "fetch", "set_bucket", "set_mbc",
                 "make", "sample"}
Phases == SubmitPhases \cup {"select", "wait", "flush", "bucket", "del", "reset_mbc", "post",
                             "stopped"}

\* What TypeOK leaves open, and what the statements of submit_metric rely on.
ShapeInv ==
  /\ pc \in [Threads -> Phases]
  /\ metricByBucket = [b \in DOMAIN metricByBucket |-> metricByBucket[b]]
  /\ \A b \in DOMAIN metricByBucket : \A c \in DOMAIN metricByBucket[b] :
       metricByBucket[b][c].last \in {None} \cup 0..MaxTime
  /\ context["reporter"] = PacketCount
  /\ pc["server"] \in SubmitPhases => context["server"] \in Contexts /\ samples >= 1
  /\ \A t \in Threads :
       pc[t] = "sample" /\ mbc[t] # None => context[t] \in DOMAIN metricByBucket[mbc[t]]

\* The samples that bucket b holds for context c.
Held(b, c) ==
  IF b \in DOMAIN metricByBucket /\ c \in DOMAIN metricByBucket[b]
  THEN metricByBucket[b][c].samples ELSE {}

\* A sample is in one place: a metric of a bucket, a point, or the hands of the server.
OnceInv ==
  /\ \A b \in Buckets, c \in Contexts : Held(b, c) \subseteq 1..samples
  /\ \A p \in DOMAIN points : \A j \in DOMAIN points[p] : points[p][j] \subseteq 1..samples
  /\ \A a, b \in Buckets, c, d \in Contexts : \A x \in Held(a, c) : x \in Held(b, d) => a = b /\ c = d
  /\ \A b \in Buckets, c \in Contexts : \A x \in Held(b, c) :
       \A p \in DOMAIN points : \A j \in DOMAIN points[p] : x \notin points[p][j]
  /\ pc["server"] \in SubmitPhases =>
       /\ \A b \in Buckets, c \in Contexts : samples \notin Held(b, c)
       /\ \A p \in DOMAIN points : \A j \in DOMAIN points[p] : samples \notin points[p][j]

\* A bucket that was removed and that current_bucket or the server still names is over.
OverInv ==
  /\ currentBucket \in DOMAIN metricByBucket \cup {None} \/ currentBucket < CalculateBucketStart(now)
  /\ pc["server"] = "set_bucket" =>
       bucket["server"] \in DOMAIN metricByBucket \/ bucket["server"] < CalculateBucketStart(now)
  /\ \A b \in toFlush : b \in DOMAIN metricByBucket /\ b < CalculateBucketStart(now)
  /\ pc["reporter"] = "del" => toFlush # {}

\* The reporter removes no bucket while it submits, so the one it submits to stays.
ReporterInv ==
  /\ pc["reporter"] = "test" =>
       /\ currentBucket = bucket["reporter"] => bucket["reporter"] \in DOMAIN metricByBucket
       /\ pc["server"] = "set_bucket" /\ bucket["server"] = bucket["reporter"] =>
            bucket["reporter"] \in DOMAIN metricByBucket
  /\ pc["reporter"] \in {"current", "fetch", "set_bucket", "set_mbc", "make", "sample"} =>
       bucket["reporter"] \in DOMAIN metricByBucket
  /\ pc["reporter"] = "flush" => DOMAIN metricByBucket # {}

\* A bucket that has a point is over, and nobody brings it back unless the flush overtook
\* the server.
FlushedInv ==
  ~overtaken =>
    /\ \A p \in DOMAIN points : points[p] # <<>> =>
         /\ p[2] < CalculateBucketStart(now)
         /\ \A t \in Threads : pc[t] \in SubmitPhases => p[2] < bucket[t]
         /\ p[2] \in DOMAIN metricByBucket => pc["reporter"] = "del" /\ p[2] = Min(toFlush)
    /\ pc["server"] \in SubmitPhases => \A b \in toFlush : b < bucket["server"]
    /\ \A p \in DOMAIN points : Len(points[p]) <= 1

Inv == /\ TypeOK /\ ShapeInv /\ OnceInv /\ ReportedOnce
       /\ OverInv /\ ReporterInv /\ FlushedInv

-----------------------------------------------------------------------------
(* Types. *)

Types == TypeOK /\ ShapeInv

(* A thread goes to another statement, the other one stays where it is. *)
LEMMA Goes ==
  ASSUME pc \in [Threads -> Phases], NEW t \in Threads, NEW label \in Phases, Goto(t, label)
  PROVE  /\ pc' \in [Threads -> Phases] /\ pc'[t] = label
         /\ \A u \in Threads : u # t => pc'[u] = pc[u]
BY DEF Goto

(* The statements of submit_metric that only read the buckets. *)
LEMMA TypesRead ==
  ASSUME Types, NEW t \in Threads,
         Test(t) \/ Current(t) \/ Lookup(t) \/ Fetch(t) \/ SetBucket(t) \/ SetMbc(t)
  PROVE  Types'
<1>1. CASE Test(t) \/ Lookup(t)
  <2>1. PICK label \in {"current", "lookup", "fetch", "create"} : Goto(t, label)
    BY <1>1 DEF Test, Lookup
  <2>2. UNCHANGED <<now, metricByBucket, currentBucket, currentMbc, lastSampleTime, context, bucket,
                    mbc, expiry, toFlush, wake, running, finished, samples, points, overtaken>>
        /\ pc[t] \in SubmitPhases
    BY <1>1 DEF Test, Lookup, aggregatorVars, submitVars, flushVars, controlVars, historyVars,
                SubmitPhases
  <2>3. /\ pc' \in [Threads -> Phases] /\ pc'[t] = label
        /\ \A u \in Threads : u # t => pc'[u] = pc[u]
    BY <2>1, Goes DEF Types, ShapeInv, Phases, SubmitPhases
  <2>4. TypeOK'
    BY <2>1, <2>2, <2>3 DEF Types, TypeOK, Threads
  <2>5. ShapeInv'
    BY <2>1, <2>2, <2>3 DEF Types, ShapeInv, Threads
  <2> QED BY <2>4, <2>5 DEF Types
<1>2. CASE Current(t) \/ Fetch(t)
  <2>1. PICK label \in {"make", "set_bucket"} : Goto(t, label)
    BY <1>2 DEF Current, Fetch
  <2>2. PICK d \in DOMAIN metricByBucket \cup {None} : mbc' = [mbc EXCEPT ![t] = d]
    BY <1>2 DEF Current, Fetch, Types, TypeOK
  <2>3. UNCHANGED <<now, metricByBucket, currentBucket, currentMbc, lastSampleTime, context, bucket,
                    expiry, toFlush, wake, running, finished, samples, points, overtaken>>
        /\ pc[t] \in SubmitPhases
    BY <1>2 DEF Current, Fetch, aggregatorVars, flushVars, controlVars, historyVars, SubmitPhases
  <2>4. /\ pc' \in [Threads -> Phases] /\ pc'[t] = label
        /\ \A u \in Threads : u # t => pc'[u] = pc[u]
    BY <2>1, Goes DEF Types, ShapeInv, Phases, SubmitPhases
  <2>5. TypeOK'
    BY <2>1, <2>2, <2>3, <2>4 DEF Types, TypeOK, Threads
  <2>6. \A u \in Threads : u # t => mbc'[u] = mbc[u]
    BY <2>2 DEF Types, TypeOK
  <2>7. ShapeInv'
    BY <2>1, <2>3, <2>4, <2>6 DEF Types, ShapeInv, Threads
  <2> QED BY <2>5, <2>7 DEF Types
<1>3. CASE SetBucket(t) \/ SetMbc(t)
  <2>1. PICK label \in {"set_mbc", "make"} : Goto(t, label)
    BY <1>3 DEF SetBucket, SetMbc
  <2>2. UNCHANGED <<now, metricByBucket, lastSampleTime, context, bucket, mbc, expiry, toFlush,
                    wake, running, finished, samples, points, overtaken>>
        /\ pc[t] \in SubmitPhases
    BY <1>3 DEF SetBucket, SetMbc, submitVars, flushVars, controlVars, historyVars, SubmitPhases
  <2>3. currentBucket' \in Buckets \cup {None} /\ currentMbc' \in DOMAIN metricByBucket \cup {None}
    BY <1>3 DEF SetBucket, SetMbc, Types, TypeOK
  <2>4. /\ pc' \in [Threads -> Phases] /\ pc'[t] = label
        /\ \A u \in Threads : u # t => pc'[u] = pc[u]
    BY <2>1, Goes DEF Types, ShapeInv, Phases, SubmitPhases
  <2>5. TypeOK'
    BY <2>1, <2>2, <2>3, <2>4 DEF Types, TypeOK, Threads
  <2>6. ShapeInv'
    BY <2>1, <2>2, <2>4 DEF Types, ShapeInv, Threads
  <2> QED BY <2>5, <2>6 DEF Types
<1> QED BY <1>1, <1>2, <1>3

(* The start and the end of a call of submit_metric. *)
LEMMA TypesCall ==
  ASSUME Types, (\E c \in Contexts : Receive(c)) \/ SendPacketCount \/ FetchKeyError
  PROVE  Types'
<1>1. CASE \E c \in Contexts : Receive(c)
  <2>1. PICK c \in Contexts : Receive(c)
    BY <1>1
  <2>2. /\ context' = [context EXCEPT !["server"] = c]
        /\ bucket' = [bucket EXCEPT !["server"] = CalculateBucketStart(now)]
        /\ Goto("server", "test") /\ samples' = samples + 1 /\ samples < MaxSamples
        /\ UNCHANGED <<now, metricByBucket, currentBucket, currentMbc, lastSampleTime, mbc, expiry,
                       toFlush, wake, running, finished, points, overtaken>>
    BY <2>1 DEF Receive, Submit, aggregatorVars, flushVars, controlVars
  <2>3. /\ pc' \in [Threads -> Phases] /\ pc'["server"] = "test" /\ pc'["reporter"] = pc["reporter"]
    BY <2>2, Goes DEF Types, ShapeInv, Phases, SubmitPhases, Threads
  <2>4. CalculateBucketStart(now) \in Buckets
    BY BucketsNat DEF Types, TypeOK
  <2>5. samples' \in 0..MaxSamples /\ samples' >= 1
    BY <2>2, Constants DEF Types, TypeOK
  <2>6. TypeOK'
    BY <2>2, <2>3, <2>4, <2>5 DEF Types, TypeOK, Threads
  <2>7. context'["server"] = c /\ context'["reporter"] = context["reporter"]
    BY <2>2 DEF Types, TypeOK, Threads
  <2>8. ShapeInv'
    BY <2>2, <2>3, <2>5, <2>7 DEF Types, ShapeInv, Threads
  <2> QED BY <2>6, <2>8 DEF Types
<1>2. CASE SendPacketCount
  <2>2. /\ context' = [context EXCEPT !["reporter"] = PacketCount]
        /\ bucket' = [bucket EXCEPT !["reporter"] = CalculateBucketStart(now)]
        /\ Goto("reporter", "test") /\ wake' = 0
        /\ UNCHANGED <<now, metricByBucket, currentBucket, currentMbc, lastSampleTime, mbc, expiry,
                       toFlush, running, finished, samples, points, overtaken>>
    BY <1>2 DEF SendPacketCount, Submit, aggregatorVars, flushVars, historyVars
  <2>3. /\ pc' \in [Threads -> Phases] /\ pc'["reporter"] = "test" /\ pc'["server"] = pc["server"]
    BY <2>2, Goes DEF Types, ShapeInv, Phases, SubmitPhases, Threads
  <2>4. CalculateBucketStart(now) \in Buckets
    BY BucketsNat DEF Types, TypeOK
  <2>6. TypeOK'
    BY <2>2, <2>3, <2>4 DEF Types, TypeOK, Threads
  <2>7. context'["reporter"] = PacketCount /\ context'["server"] = context["server"]
    BY <2>2 DEF Types, TypeOK, Threads
  <2>8. ShapeInv'
    BY <2>2, <2>3, <2>7 DEF Types, ShapeInv, Threads
  <2> QED BY <2>6, <2>8 DEF Types
<1>3. CASE FetchKeyError
  <2>2. /\ context' = [context EXCEPT !["server"] = PacketCount]
        /\ bucket' = [bucket EXCEPT !["server"] = 0] /\ mbc' = [mbc EXCEPT !["server"] = None]
        /\ Goto("server", "select")
        /\ UNCHANGED <<now, metricByBucket, currentBucket, currentMbc, lastSampleTime, expiry,
                       toFlush, wake, running, finished, samples, points, overtaken>>
    BY <1>3 DEF FetchKeyError, SubmitReturns, aggregatorVars, flushVars, controlVars, historyVars
  <2>3. /\ pc' \in [Threads -> Phases] /\ pc'["server"] = "select" /\ pc'["reporter"] = pc["reporter"]
    BY <2>2, Goes DEF Types, ShapeInv, Phases, SubmitPhases, Threads
  <2>6. TypeOK'
    BY <2>2, <2>3, BucketsNat DEF Types, TypeOK, Threads
  <2>7. context'["reporter"] = context["reporter"] /\ mbc'["reporter"] = mbc["reporter"]
    BY <2>2 DEF Types, TypeOK, Threads
  <2>8. ShapeInv'
    BY <2>2, <2>3, <2>7 DEF Types, ShapeInv, Threads, SubmitPhases
  <2> QED BY <2>6, <2>8 DEF Types
<1> QED BY <1>1, <1>2, <1>3

(* The steps of the reporter that change no bucket. *)
LEMMA TypesFlush ==
  ASSUME Types, Flush \/ ResetBucket \/ ResetMbc \/ Post
  PROVE  Types'
<1>1. PICK label \in {"bucket", "reset_mbc", "post", "stopped", "wait"} : Goto("reporter", label)
  BY DEF Flush, ResetBucket, ResetMbc, Post
<1>2. /\ pc' \in [Threads -> Phases] /\ pc'["reporter"] = label /\ pc'["server"] = pc["server"]
  BY <1>1, Goes DEF Types, ShapeInv, Phases, SubmitPhases, Threads
<1>3. UNCHANGED <<now, metricByBucket, lastSampleTime, context, bucket, mbc, running, finished,
                  samples, points>>
  BY DEF Flush, ResetBucket, ResetMbc, Post, aggregatorVars, submitVars, controlVars, historyVars,
         flushVars
<1>4. now \in Nat
  BY Constants DEF Types, TypeOK
<1>5. /\ currentBucket' \in Buckets \cup {None} /\ currentMbc' \in DOMAIN metricByBucket \cup {None}
      /\ expiry' \in Int /\ wake' \in Nat /\ overtaken' \in BOOLEAN
      /\ toFlush' \subseteq toFlush \cup DOMAIN metricByBucket
  <2>1. CASE Flush
    BY <1>4, <2>1, Constants DEF Flush, Types, TypeOK, aggregatorVars, controlVars
  <2>2. CASE ResetBucket \/ ResetMbc \/ Post
    BY <1>4, <2>2, Constants DEF ResetBucket, ResetMbc, Post, Types, TypeOK, aggregatorVars,
                                 flushVars, controlVars, historyVars
  <2> QED BY <2>1, <2>2
<1>6. TypeOK'
  BY <1>1, <1>2, <1>3, <1>5 DEF Types, TypeOK
<1>7. ShapeInv'
  BY <1>1, <1>2, <1>3 DEF Types, ShapeInv, Threads
<1> QED BY <1>6, <1>7 DEF Types

(* The steps that concern neither the buckets nor the submissions. *)
LEMMA TypesControl ==
  ASSUME Types, Sigterm \/ ServerStops \/ Tick \/ UNCHANGED vars
  PROVE  Types'
<1>1. UNCHANGED <<metricByBucket, currentBucket, currentMbc, lastSampleTime, context, bucket, mbc,
                  expiry, toFlush, wake, samples, points, overtaken>>
  BY DEF Sigterm, ServerStops, Tick, vars, aggregatorVars, submitVars, flushVars, controlVars,
         historyVars
<1>2. now' \in 0..MaxTime /\ running' \in BOOLEAN /\ finished' \in BOOLEAN
  <2>1. now' = now \/ (now' = now + 1 /\ now < MaxTime)
    BY DEF Sigterm, ServerStops, Tick, vars
  <2>2. now' \in 0..MaxTime
    BY <2>1, Constants DEF Types, TypeOK
  <2>3. running' \in {running, FALSE} /\ finished' \in {finished, TRUE}
    BY DEF Sigterm, ServerStops, Tick, vars, controlVars
  <2> QED BY <2>2, <2>3 DEF Types, TypeOK
<1>3. /\ pc' \in [Threads -> Phases] /\ pc'["reporter"] = pc["reporter"]
      /\ pc'["server"] \in {pc["server"], "stopped"}
  <2>1. CASE ServerStops
    BY <2>1, Goes DEF ServerStops, Types, ShapeInv, Phases, Threads
  <2>2. CASE ~ServerStops
    BY <2>2 DEF Sigterm, Tick, vars, Types, ShapeInv
  <2> QED BY <2>1, <2>2
<1>4. TypeOK'
  BY <1>1, <1>2, <1>3 DEF Types, TypeOK
<1>5. ShapeInv'
  BY <1>1, <1>3 DEF Types, ShapeInv, Threads, SubmitPhases
<1> QED BY <1>4, <1>5 DEF Types

(* A new dictionary, in the place of the one the bucket may have. *)
LEMMA TypesCreate ==
  ASSUME Types, NEW t \in Threads, Create(t)
  PROVE  Types'
<1>1. /\ metricByBucket' = [b \in DOMAIN metricByBucket \cup {bucket[t]} |->
                              IF b = bucket[t] THEN <<>> ELSE metricByBucket[b]]
      /\ mbc' = [u \in Threads |-> IF mbc[u] = bucket[t] THEN None ELSE mbc[u]]
      /\ currentMbc' = IF currentMbc = bucket[t] THEN None ELSE currentMbc
      /\ Goto(t, "fetch")
      /\ UNCHANGED <<now, currentBucket, lastSampleTime, context, bucket, expiry, toFlush, wake,
                     running, finished, samples, points, overtaken>>
      /\ pc[t] = "create"
  BY DEF Create, Detach, flushVars, controlVars, historyVars
<1>2. /\ pc' \in [Threads -> Phases] /\ pc'[t] = "fetch"
      /\ \A u \in Threads : u # t => pc'[u] = pc[u]
  BY <1>1, Goes DEF Types, ShapeInv, Phases, SubmitPhases
<1>3. bucket[t] \in Buckets
  BY DEF Types, TypeOK
<1>4. /\ DOMAIN metricByBucket' = DOMAIN metricByBucket \cup {bucket[t]}
      /\ \A b \in DOMAIN metricByBucket : b # bucket[t] => metricByBucket'[b] = metricByBucket[b]
      /\ DOMAIN metricByBucket'[bucket[t]] = {}
  BY <1>1
<1>5. metricByBucket' = [b \in DOMAIN metricByBucket' |-> metricByBucket'[b]]
  BY <1>1
<1>6. mbc' \in [Threads -> DOMAIN metricByBucket' \cup {None}]
  BY <1>1, <1>4 DEF Types, TypeOK
<1>7. TypeOK'
  <2>1. /\ DOMAIN metricByBucket' \subseteq Buckets
        /\ \A b \in DOMAIN metricByBucket' :
             /\ DOMAIN metricByBucket'[b] \subseteq Contexts \cup {PacketCount}
             /\ \A c \in DOMAIN metricByBucket'[b] : metricByBucket'[b][c] \in Metric
    BY <1>3, <1>4 DEF Types, TypeOK
  <2>2. currentMbc' \in DOMAIN metricByBucket' \cup {None}
    BY <1>1, <1>4 DEF Types, TypeOK
  <2> QED BY <1>1, <1>2, <1>6, <2>1, <2>2 DEF Types, TypeOK, Threads
<1>8. ShapeInv'
  <2>1. \A b \in DOMAIN metricByBucket' : \A c \in DOMAIN metricByBucket'[b] :
          metricByBucket'[b][c].last \in {None} \cup 0..MaxTime
    BY <1>4 DEF Types, ShapeInv
  <2>2. pc'["server"] \in SubmitPhases => pc["server"] \in SubmitPhases
    BY <1>1, <1>2 DEF SubmitPhases, Threads
  <2>3. \A u \in Threads :
          pc'[u] = "sample" /\ mbc'[u] # None => context[u] \in DOMAIN metricByBucket'[mbc'[u]]
    BY <1>1, <1>2, <1>4 DEF Types, TypeOK, ShapeInv
  <2> QED BY <1>1, <1>2, <1>5, <2>1, <2>2, <2>3 DEF Types, ShapeInv
<1> QED BY <1>7, <1>8 DEF Types

(* metric_by_context[context] = metric, in a dictionary that metric_by_bucket holds. *)
LEMMA AssignKeeps ==
  ASSUME Types, NEW t \in Threads, NEW metric, mbc[t] # None, Assign(t, metric)
  PROVE  /\ DOMAIN metricByBucket' = DOMAIN metricByBucket /\ mbc[t] \in DOMAIN metricByBucket
         /\ metricByBucket' = [b \in DOMAIN metricByBucket' |-> metricByBucket'[b]]
         /\ \A b \in DOMAIN metricByBucket : b # mbc[t] => metricByBucket'[b] = metricByBucket[b]
         /\ DOMAIN metricByBucket'[mbc[t]] = DOMAIN metricByBucket[mbc[t]] \cup {context[t]}
         /\ metricByBucket'[mbc[t]][context[t]] = metric
         /\ \A c \in DOMAIN metricByBucket[mbc[t]] :
              c # context[t] => metricByBucket'[mbc[t]][c] = metricByBucket[mbc[t]][c]
<1>1. mbc[t] \in DOMAIN metricByBucket
  BY DEF Types, TypeOK
<1>2. metricByBucket' = [metricByBucket EXCEPT ![mbc[t]] =
        [c \in DOMAIN metricByBucket[mbc[t]] \cup {context[t]} |->
           IF c = context[t] THEN metric ELSE metricByBucket[mbc[t]][c]]]
  BY DEF Assign
<1>3. metricByBucket = [b \in DOMAIN metricByBucket |-> metricByBucket[b]]
  BY DEF Types, ShapeInv
<1>4. metricByBucket'[mbc[t]] =
        [c \in DOMAIN metricByBucket[mbc[t]] \cup {context[t]} |->
           IF c = context[t] THEN metric ELSE metricByBucket[mbc[t]][c]]
  BY <1>1, <1>2, <1>3
<1>5. /\ DOMAIN metricByBucket' = DOMAIN metricByBucket
      /\ metricByBucket' = [b \in DOMAIN metricByBucket' |-> metricByBucket'[b]]
      /\ \A b \in DOMAIN metricByBucket : b # mbc[t] => metricByBucket'[b] = metricByBucket[b]
  BY <1>2, <1>3
<1> QED BY <1>1, <1>4, <1>5

(* A metric that is made or sampled has its type. *)
LEMMA TypesWrite ==
  ASSUME Types, NEW t \in Threads, NEW metric \in Metric, metric.last \in {None} \cup 0..MaxTime,
         metricByBucket' = metricByBucket \/ (mbc[t] # None /\ Assign(t, metric)),
         pc[t] \in {"make", "sample"}, NEW label \in {"sample", "select", "flush"}, Goto(t, label),
         UNCHANGED <<now, currentBucket, currentMbc, lastSampleTime, expiry, toFlush, wake,
                     running, finished, samples, points, overtaken>>,
         \/ /\ label = "sample" /\ UNCHANGED <<context, bucket, mbc>>
            /\ mbc[t] # None => context[t] \in DOMAIN metricByBucket'[mbc[t]]
         \/ label = (IF t = "server" THEN "select" ELSE "flush") /\ SubmitReturns(t)
  PROVE  Types'
<1>1. /\ pc' \in [Threads -> Phases] /\ pc'[t] = label
      /\ \A u \in Threads : u # t => pc'[u] = pc[u]
  BY Goes DEF Types, ShapeInv, Phases, SubmitPhases
<1>2. context[t] \in Contexts \cup {PacketCount}
  BY DEF Types, TypeOK
<1>3. /\ DOMAIN metricByBucket' = DOMAIN metricByBucket
      /\ metricByBucket' = [b \in DOMAIN metricByBucket' |-> metricByBucket'[b]]
      /\ \A b \in DOMAIN metricByBucket :
           /\ DOMAIN metricByBucket[b] \subseteq DOMAIN metricByBucket'[b]
           /\ DOMAIN metricByBucket'[b] \subseteq Contexts \cup {PacketCount}
           /\ \A c \in DOMAIN metricByBucket'[b] :
                /\ metricByBucket'[b][c] \in Metric
                /\ metricByBucket'[b][c].last \in {None} \cup 0..MaxTime
  <2>1. CASE metricByBucket' = metricByBucket
    BY <2>1 DEF Types, TypeOK, ShapeInv
  <2>2. CASE mbc[t] # None /\ Assign(t, metric)
    <3>1. /\ DOMAIN metricByBucket' = DOMAIN metricByBucket /\ mbc[t] \in DOMAIN metricByBucket
          /\ metricByBucket' = [b \in DOMAIN metricByBucket' |-> metricByBucket'[b]]
          /\ \A b \in DOMAIN metricByBucket : b # mbc[t] => metricByBucket'[b] = metricByBucket[b]
          /\ DOMAIN metricByBucket'[mbc[t]] = DOMAIN metricByBucket[mbc[t]] \cup {context[t]}
          /\ metricByBucket'[mbc[t]][context[t]] = metric
          /\ \A c \in DOMAIN metricByBucket[mbc[t]] :
               c # context[t] => metricByBucket'[mbc[t]][c] = metricByBucket[mbc[t]][c]
      BY <2>2, AssignKeeps
    <3> QED BY <1>2, <3>1 DEF Types, TypeOK, ShapeInv
  <2> QED BY <2>1, <2>2
<1>4. /\ mbc' \in [Threads -> DOMAIN metricByBucket \cup {None}] /\ bucket' \in [Threads -> Buckets]
      /\ context' \in [Threads -> Contexts \cup {PacketCount}]
      /\ \A u \in Threads : u # t => mbc'[u] = mbc[u] /\ context'[u] = context[u]
      /\ context'[t] \in {context[t], PacketCount}
      /\ label = "sample" => context'[t] = context[t] /\ mbc'[t] = mbc[t]
  BY BucketsNat DEF Types, TypeOK, SubmitReturns
<1>5. TypeOK'
  <2>1. /\ pc'["server"] \in {pc["server"], "sample", "select"}
        /\ pc'["reporter"] \in {pc["reporter"], "sample", "flush"}
    BY <1>1 DEF Threads
  <2> QED BY <1>3, <1>4, <2>1 DEF Types, TypeOK
<1>6. ShapeInv'
  <2>1. \A u \in Threads :
          pc'[u] = "sample" /\ mbc'[u] # None => context'[u] \in DOMAIN metricByBucket'[mbc'[u]]
    BY <1>1, <1>3, <1>4 DEF Types, TypeOK, ShapeInv
  <2>2. context'["reporter"] = PacketCount
    BY <1>4 DEF Types, ShapeInv, Threads
  <2>3. pc'["server"] \in SubmitPhases => context'["server"] \in Contexts /\ samples' >= 1
    BY <1>1, <1>4 DEF Types, ShapeInv, Threads, SubmitPhases
  <2> QED BY <1>1, <1>3, <2>1, <2>2, <2>3 DEF Types, ShapeInv
<1> QED BY <1>5, <1>6 DEF Types

(* A metric is made, or gets its sample. *)
LEMMA TypesSample ==
  ASSUME Types, NEW t \in Threads, Make(t) \/ Sample(t)
  PROVE  Types'
<1>1. CASE Make(t)
  <2> DEFINE new == [samples |-> {}, last |-> None]
  <2>1. new \in Metric /\ new.last \in {None} \cup 0..MaxTime
    BY DEF Metric, None
  <2>2. /\ metricByBucket' = metricByBucket \/ (mbc[t] # None /\ Assign(t, new))
        /\ mbc[t] # None => context[t] \in DOMAIN metricByBucket[mbc[t]] \/ Assign(t, new)
        /\ mbc[t] # None /\ context[t] \in DOMAIN metricByBucket[mbc[t]] =>
             metricByBucket' = metricByBucket
    BY <1>1 DEF Make
  <2>3. mbc[t] # None => context[t] \in DOMAIN metricByBucket'[mbc[t]]
    BY <2>2, AssignKeeps
  <2>4. /\ pc[t] = "make" /\ Goto(t, "sample")
        /\ UNCHANGED <<now, currentBucket, currentMbc, lastSampleTime, context, bucket, mbc, expiry,
                       toFlush, wake, running, finished, samples, points, overtaken>>
    BY <1>1 DEF Make, submitVars, flushVars, controlVars, historyVars
  <2> HIDE DEF new
  <2> QED BY <2>1, <2>2, <2>3, <2>4, TypesWrite
<1>2. CASE Sample(t)
  <2> DEFINE new == Sampled(t, metricByBucket[mbc[t]][context[t]])
             old == [samples |-> {}, last |-> None]
  <2>1. /\ pc[t] = "sample" /\ SubmitReturns(t)
        /\ Goto(t, IF t = "server" THEN "select" ELSE "flush")
        /\ UNCHANGED <<now, currentBucket, currentMbc, lastSampleTime, expiry, toFlush, wake,
                       running, finished, samples, points, overtaken>>
        /\ IF mbc[t] # None THEN Assign(t, new) ELSE metricByBucket' = metricByBucket
    BY <1>2 DEF Sample, flushVars, controlVars, historyVars
  <2>2. CASE mbc[t] # None
    <3>1. metricByBucket[mbc[t]][context[t]] \in Metric
      BY <2>1, <2>2 DEF Types, TypeOK, ShapeInv
    <3>2. new \in Metric /\ new.last \in {None} \cup 0..MaxTime
      BY <3>1 DEF Metric, Sampled, Types, TypeOK
    <3> HIDE DEF new
    <3> QED BY <2>1, <2>2, <3>2, TypesWrite
  <2>3. CASE mbc[t] = None
    <3>1. old \in Metric /\ old.last \in {None} \cup 0..MaxTime
      BY DEF Metric, None
    <3> HIDE DEF old
    <3> QED BY <2>1, <2>3, <3>1, TypesWrite
  <2> QED BY <2>2, <2>3
<1> QED BY <1>1, <1>2

\* The parts of FlushBucket: the bucket, its metrics that are not expired, and the counters
\* that report a zero.
Handled == Min(toFlush)
Content == metricByBucket[Handled]
Stale == {c \in DOMAIN Content : Content[c].last = None \/ Content[c].last < expiry}
Live == DOMAIN Content \ Stale
Silent == DOMAIN lastSampleTime \ (Stale \cup (Live \cap Counters))
Zeros == Silent \ Expired(Silent)

(* What FlushBucket does, with names for its parts. *)
LEMMA FlushBucketParts ==
  ASSUME FlushBucket
  PROVE  /\ pc["reporter"] = "bucket" /\ toFlush # {} /\ Goto("reporter", "del")
         /\ points' = [p \in DOMAIN points |->
              IF p[1] \in Live \cup Zeros /\ p[2] = Handled
              THEN Append(points[p], IF p[1] \in Live THEN Content[p[1]].samples ELSE {})
              ELSE points[p]]
         /\ lastSampleTime' = [c \in Zeros \cup (Live \cap Counters) |->
                                 IF c \in Zeros THEN lastSampleTime[c] ELSE Content[c].last]
         /\ metricByBucket' = [metricByBucket EXCEPT ![Handled] =
              [c \in DOMAIN Content |->
                 IF c \in Live THEN [Content[c] EXCEPT !.samples = {}] ELSE Content[c]]]
         /\ UNCHANGED <<now, currentBucket, currentMbc, context, bucket, mbc, expiry, toFlush, wake,
                        running, finished, samples, overtaken>>
<1> USE DEF FlushBucket, Handled, Content, Stale, Live, Silent, Zeros
<1>1. /\ pc["reporter"] = "bucket" /\ toFlush # {} /\ Goto("reporter", "del")
      /\ UNCHANGED <<now, currentBucket, currentMbc, context, bucket, mbc, expiry, toFlush, wake,
                     running, finished, samples, overtaken>>
  BY DEF submitVars, flushVars, controlVars
<1>2. Report(Handled, [c \in Live \cup Zeros |-> IF c \in Live THEN Content[c].samples ELSE {}])
  BY Zenon
<1>3. points' = [p \in DOMAIN points |->
              IF p[1] \in Live \cup Zeros /\ p[2] = Handled
              THEN Append(points[p], IF p[1] \in Live THEN Content[p[1]].samples ELSE {})
              ELSE points[p]]
  <2> HIDE DEF Handled, Content, Stale, Live, Silent, Zeros
  <2> QED BY <1>2 DEF Report
<1>4. lastSampleTime' = [c \in Zeros \cup (Live \cap Counters) |->
                           IF c \in Zeros THEN lastSampleTime[c] ELSE Content[c].last]
  BY Zenon
<1>5. metricByBucket' = [metricByBucket EXCEPT ![Handled] =
              [c \in DOMAIN Content |->
                 IF c \in Live THEN [Content[c] EXCEPT !.samples = {}] ELSE Content[c]]]
  OBVIOUS
<1> HIDE DEF FlushBucket, Handled, Content, Stale, Live, Silent, Zeros
<1> QED BY <1>1, <1>3, <1>4, <1>5

(* The bucket handled is one of those there are. *)
LEMMA HandledThere ==
  ASSUME Types, OverInv, toFlush # {}
  PROVE  Handled \in toFlush /\ Handled \in DOMAIN metricByBucket /\ Handled \in Buckets
<1>1. toFlush \in SUBSET Nat
  BY BucketsNat DEF Types, TypeOK
<1>2. Handled \in toFlush
  BY <1>1, MinBucket DEF Handled
<1> QED BY <1>2 DEF Types, TypeOK, OverInv

(* The flush of a bucket empties its metrics that are not expired. *)
LEMMA FlushBucketEmpties ==
  ASSUME Types, OverInv, FlushBucket
  PROVE  /\ Handled \in DOMAIN metricByBucket /\ Handled \in Buckets /\ Handled \in toFlush
         /\ DOMAIN metricByBucket' = DOMAIN metricByBucket
         /\ metricByBucket' = [b \in DOMAIN metricByBucket' |-> metricByBucket'[b]]
         /\ \A b \in DOMAIN metricByBucket : b # Handled => metricByBucket'[b] = metricByBucket[b]
         /\ DOMAIN metricByBucket'[Handled] = DOMAIN Content
         /\ \A c \in DOMAIN Content :
              /\ Content[c] \in Metric /\ metricByBucket'[Handled][c] \in Metric
              /\ metricByBucket'[Handled][c].last = Content[c].last
              /\ metricByBucket'[Handled][c].samples = IF c \in Live THEN {} ELSE Content[c].samples
<1>1. Handled \in toFlush /\ Handled \in DOMAIN metricByBucket /\ Handled \in Buckets
  BY FlushBucketParts, HandledThere
<1>2. metricByBucket = [b \in DOMAIN metricByBucket |-> metricByBucket[b]]
  BY DEF Types, ShapeInv
<1>3. metricByBucket' = [metricByBucket EXCEPT ![Handled] =
              [c \in DOMAIN Content |->
                 IF c \in Live THEN [Content[c] EXCEPT !.samples = {}] ELSE Content[c]]]
  BY FlushBucketParts
<1>4. metricByBucket'[Handled] = [c \in DOMAIN Content |->
                 IF c \in Live THEN [Content[c] EXCEPT !.samples = {}] ELSE Content[c]]
  BY <1>1, <1>2, <1>3
<1>5. \A c \in DOMAIN Content : Content[c] \in Metric
  BY <1>1 DEF Types, TypeOK, Content
<1>6. \A c \in DOMAIN Content :
        /\ metricByBucket'[Handled][c] \in Metric
        /\ metricByBucket'[Handled][c].last = Content[c].last
        /\ metricByBucket'[Handled][c].samples = IF c \in Live THEN {} ELSE Content[c].samples
  BY <1>4, <1>5 DEF Metric
<1>7. /\ DOMAIN metricByBucket' = DOMAIN metricByBucket
      /\ metricByBucket' = [b \in DOMAIN metricByBucket' |-> metricByBucket'[b]]
      /\ \A b \in DOMAIN metricByBucket : b # Handled => metricByBucket'[b] = metricByBucket[b]
  BY <1>2, <1>3
<1> QED BY <1>1, <1>4, <1>5, <1>6, <1>7

(* The flush of a bucket reports sets of samples, and keeps times of the clock. *)
LEMMA TypesFlushBucket ==
  ASSUME Types, OverInv, OnceInv, FlushBucket
  PROVE  Types'
<1>1. /\ Handled \in DOMAIN metricByBucket /\ Handled \in Buckets
      /\ DOMAIN metricByBucket' = DOMAIN metricByBucket
      /\ metricByBucket' = [b \in DOMAIN metricByBucket' |-> metricByBucket'[b]]
      /\ \A b \in DOMAIN metricByBucket : b # Handled => metricByBucket'[b] = metricByBucket[b]
      /\ DOMAIN metricByBucket'[Handled] = DOMAIN Content
      /\ \A c \in DOMAIN Content :
           /\ Content[c] \in Metric /\ metricByBucket'[Handled][c] \in Metric
           /\ metricByBucket'[Handled][c].last = Content[c].last
  BY FlushBucketEmpties
<1>2. /\ Goto("reporter", "del")
      /\ UNCHANGED <<now, currentBucket, currentMbc, context, bucket, mbc, expiry, toFlush, wake,
                     running, finished, samples, overtaken>>
  BY FlushBucketParts
<1>3. /\ pc' \in [Threads -> Phases] /\ pc'["reporter"] = "del" /\ pc'["server"] = pc["server"]
  BY <1>2, Goes DEF Types, ShapeInv, Phases, Threads
<1>4. /\ Content = metricByBucket[Handled]
      /\ DOMAIN Content \subseteq Contexts \cup {PacketCount}
      /\ \A c \in DOMAIN Content : Content[c].last \in {None} \cup 0..MaxTime
  BY <1>1 DEF Types, TypeOK, ShapeInv, Content
<1>5. /\ Live \subseteq DOMAIN Content /\ \A c \in Live : Content[c].last # None
      /\ Zeros \subseteq DOMAIN lastSampleTime
  BY DEF Live, Stale, Zeros, Silent
<1>6. /\ DOMAIN lastSampleTime' \subseteq Counters
      /\ \A c \in DOMAIN lastSampleTime' : lastSampleTime'[c] \in 0..MaxTime
  <2>1. lastSampleTime' = [c \in Zeros \cup (Live \cap Counters) |->
                                 IF c \in Zeros THEN lastSampleTime[c] ELSE Content[c].last]
    BY FlushBucketParts
  <2> QED BY <1>4, <1>5, <2>1 DEF Types, TypeOK
<1>7. points' \in [Contexts \X Buckets -> Seq(SUBSET (1..MaxSamples))]
  <2> DEFINE add(p) == IF p[1] \in Live THEN Content[p[1]].samples ELSE {}
  <2>1. points' = [p \in DOMAIN points |->
              IF p[1] \in Live \cup Zeros /\ p[2] = Handled THEN Append(points[p], add(p))
              ELSE points[p]]
    BY FlushBucketParts
  <2>2. points \in [Contexts \X Buckets -> Seq(SUBSET (1..MaxSamples))]
    BY DEF Types, TypeOK
  <2>3. ASSUME NEW p \in Contexts \X Buckets PROVE add(p) \in SUBSET (1..MaxSamples)
    <3>1. CASE p[1] \in Live
      <4>1. Held(Handled, p[1]) = Content[p[1]].samples
        BY <1>1, <1>4, <1>5, <3>1 DEF Held
      <4>2. Held(Handled, p[1]) \subseteq 1..samples
        BY <1>1, <2>3 DEF OnceInv
      <4>3. 1..samples \subseteq 1..MaxSamples
        BY Constants DEF Types, TypeOK
      <4> QED BY <3>1, <4>1, <4>2, <4>3
    <3>2. CASE p[1] \notin Live
      BY <3>2
    <3> QED BY <3>1, <3>2
  <2> HIDE DEF add
  <2> QED BY <2>1, <2>2, <2>3
<1>8. TypeOK'
  BY <1>1, <1>2, <1>3, <1>4, <1>6, <1>7 DEF Types, TypeOK
<1>9. ShapeInv'
  <2>1. \A b \in DOMAIN metricByBucket : DOMAIN metricByBucket'[b] = DOMAIN metricByBucket[b]
    BY <1>1, <1>4
  <2>2. \A b \in DOMAIN metricByBucket' : \A c \in DOMAIN metricByBucket'[b] :
          metricByBucket'[b][c].last \in {None} \cup 0..MaxTime
    BY <1>1, <1>4 DEF Types, ShapeInv
  <2>3. \A u \in Threads :
          pc'[u] = "sample" /\ mbc'[u] # None => context'[u] \in DOMAIN metricByBucket'[mbc'[u]]
    BY <1>2, <1>3, <2>1 DEF Types, TypeOK, ShapeInv, Threads
  <2> QED BY <1>1, <1>2, <1>3, <2>2, <2>3 DEF Types, ShapeInv
<1> QED BY <1>8, <1>9 DEF Types

(* A bucket is removed, and nobody refers to its dictionary any more. *)
LEMMA DeleteParts ==
  ASSUME Types, OverInv, DeleteBucket
  PROVE  /\ Handled \in toFlush /\ Handled \in DOMAIN metricByBucket
         /\ DOMAIN metricByBucket' = DOMAIN metricByBucket \ {Handled}
         /\ metricByBucket' = [b \in DOMAIN metricByBucket' |-> metricByBucket'[b]]
         /\ \A b \in DOMAIN metricByBucket' : metricByBucket'[b] = metricByBucket[b]
         /\ mbc' = [u \in Threads |-> IF mbc[u] = Handled THEN None ELSE mbc[u]]
         /\ currentMbc' = IF currentMbc = Handled THEN None ELSE currentMbc
         /\ toFlush' = toFlush \ {Handled}
         /\ pc["reporter"] = "del" /\ pc'["reporter"] = "bucket" /\ pc'["server"] = pc["server"]
         /\ pc' \in [Threads -> Phases]
         /\ UNCHANGED <<now, currentBucket, lastSampleTime, context, bucket, expiry, wake, running,
                        finished, samples, points, overtaken>>
<1>1. /\ pc["reporter"] = "del"
      /\ metricByBucket' = Restrict(metricByBucket, DOMAIN metricByBucket \ {Handled})
      /\ mbc' = [u \in Threads |-> IF mbc[u] = Handled THEN None ELSE mbc[u]]
      /\ currentMbc' = IF currentMbc = Handled THEN None ELSE currentMbc
      /\ toFlush' = toFlush \ {Handled} /\ Goto("reporter", "bucket")
      /\ UNCHANGED <<now, currentBucket, lastSampleTime, context, bucket, expiry, wake, running,
                     finished, samples, points, overtaken>>
  BY DEF DeleteBucket, Detach, Handled, controlVars, historyVars
<1>2. Handled \in toFlush /\ Handled \in DOMAIN metricByBucket
  BY <1>1, HandledThere DEF OverInv
<1>3. pc' \in [Threads -> Phases] /\ pc'["reporter"] = "bucket" /\ pc'["server"] = pc["server"]
  BY <1>1, Goes DEF Types, ShapeInv, Phases, Threads
<1>4. /\ DOMAIN metricByBucket' = DOMAIN metricByBucket \ {Handled}
      /\ metricByBucket' = [b \in DOMAIN metricByBucket' |-> metricByBucket'[b]]
      /\ \A b \in DOMAIN metricByBucket' : metricByBucket'[b] = metricByBucket[b]
  BY <1>1 DEF Restrict
<1> QED BY <1>1, <1>2, <1>3, <1>4

(* What is left when a bucket is removed has its type. *)
LEMMA TypesDelete ==
  ASSUME Types, OverInv, DeleteBucket
  PROVE  Types'
<1>1. /\ DOMAIN metricByBucket' = DOMAIN metricByBucket \ {Handled}
      /\ metricByBucket' = [b \in DOMAIN metricByBucket' |-> metricByBucket'[b]]
      /\ \A b \in DOMAIN metricByBucket' : metricByBucket'[b] = metricByBucket[b]
      /\ mbc' = [u \in Threads |-> IF mbc[u] = Handled THEN None ELSE mbc[u]]
      /\ currentMbc' = IF currentMbc = Handled THEN None ELSE currentMbc
      /\ toFlush' = toFlush \ {Handled}
      /\ pc["reporter"] = "del" /\ pc'["reporter"] = "bucket" /\ pc'["server"] = pc["server"]
      /\ pc' \in [Threads -> Phases]
      /\ UNCHANGED <<now, currentBucket, lastSampleTime, context, bucket, expiry, wake, running,
                     finished, samples, points, overtaken>>
  BY DeleteParts
<1>2. /\ mbc' \in [Threads -> DOMAIN metricByBucket' \cup {None}]
      /\ currentMbc' \in DOMAIN metricByBucket' \cup {None}
  BY <1>1 DEF Types, TypeOK
<1>3. TypeOK'
  BY <1>1, <1>2 DEF Types, TypeOK
<1>4. ShapeInv'
  <2>1. \A u \in Threads :
          pc'[u] = "sample" /\ mbc'[u] # None => context'[u] \in DOMAIN metricByBucket'[mbc'[u]]
    BY <1>1, <1>2 DEF Types, TypeOK, ShapeInv, Threads
  <2> QED BY <1>1, <2>1 DEF Types, ShapeInv
<1> QED BY <1>3, <1>4 DEF Types

-----------------------------------------------------------------------------
(* No sample is reported twice. *)

(* A step that adds no sample to a bucket and reports none. *)
LEMMA OnceShrinks ==
  ASSUME OnceInv, ReportedOnce, UNCHANGED <<points, samples>>,
         \A b \in Buckets, c \in Contexts : Held(b, c)' \subseteq Held(b, c),
         pc'["server"] \in SubmitPhases => pc["server"] \in SubmitPhases
  PROVE  OnceInv' /\ ReportedOnce'
<1>1. ReportedOnce'
  BY DEF ReportedOnce
<1>2. OnceInv'
  BY DEF OnceInv
<1> QED BY <1>1, <1>2

(* Make adds a metric without a sample, and the packet count of the reporter is no sample. *)
LEMMA OnceWrite ==
  ASSUME Types, NEW t \in Threads, Make(t) \/ (Sample(t) /\ t = "reporter")
  PROVE  \A b \in Buckets, c \in Contexts : Held(b, c)' \subseteq Held(b, c)
<1>1. CASE metricByBucket' = metricByBucket
  BY <1>1 DEF Held
<1>2. CASE metricByBucket' # metricByBucket
  <2>1. PICK metric : /\ mbc[t] # None /\ Assign(t, metric)
                      /\ context[t] \in Contexts => metric.samples = {}
    <3>1. CASE Make(t)
      BY <1>2, <3>1 DEF Make
    <3>2. CASE Sample(t) /\ t = "reporter"
      BY <1>2, <3>2, Constants DEF Sample, Types, ShapeInv
    <3> QED BY <3>1, <3>2
  <2>2. /\ DOMAIN metricByBucket' = DOMAIN metricByBucket /\ mbc[t] \in DOMAIN metricByBucket
        /\ \A b \in DOMAIN metricByBucket : b # mbc[t] => metricByBucket'[b] = metricByBucket[b]
        /\ DOMAIN metricByBucket'[mbc[t]] = DOMAIN metricByBucket[mbc[t]] \cup {context[t]}
        /\ metricByBucket'[mbc[t]][context[t]] = metric
        /\ \A c \in DOMAIN metricByBucket[mbc[t]] :
             c # context[t] => metricByBucket'[mbc[t]][c] = metricByBucket[mbc[t]][c]
    BY <2>1, AssignKeeps
  <2> QED BY <2>1, <2>2 DEF Held
<1> QED BY <1>1, <1>2

(* A sample that is received is in no bucket and in no point. *)
LEMMA OnceReceive ==
  ASSUME Types, OnceInv, ReportedOnce, NEW c \in Contexts, Receive(c)
  PROVE  OnceInv' /\ ReportedOnce'
<1>1. /\ samples' = samples + 1 /\ samples \in Nat
      /\ UNCHANGED <<metricByBucket, points>>
  BY Constants DEF Receive, Submit, aggregatorVars, Types, TypeOK
<1>2. \A b, d : Held(b, d)' = Held(b, d)
  BY <1>1 DEF Held
<1>3. 1..samples \subseteq 1..samples' /\ samples' \notin 1..samples
  BY <1>1
<1>4. ReportedOnce'
  BY <1>1 DEF ReportedOnce
<1>5. OnceInv'
  BY <1>1, <1>2, <1>3 DEF OnceInv
<1> QED BY <1>4, <1>5

(* The sample that the server holds goes to one metric. *)
LEMMA OnceSample ==
  ASSUME Types, OnceInv, ReportedOnce, Sample("server")
  PROVE  OnceInv' /\ ReportedOnce'
<1> DEFINE m == mbc["server"]
           k == context["server"]
<1>0. pc["server"] = "sample" /\ "server" \in Threads
  BY DEF Sample, Threads
<1>1. /\ k \in Contexts /\ samples \in Nat /\ samples >= 1 /\ pc'["server"] = "select"
      /\ UNCHANGED <<points, samples>>
  <2>1. Goto("server", "select") /\ UNCHANGED <<points, samples>>
    BY DEF Sample, historyVars
  <2>2. pc'["server"] = "select"
    BY <1>0, <2>1, Goes DEF Types, ShapeInv, Phases
  <2> QED BY <1>0, <2>1, <2>2, Constants DEF Types, TypeOK, ShapeInv, SubmitPhases
<1>2. ASSUME NEW b \in Buckets, NEW c \in Contexts
      PROVE  Held(b, c)' \subseteq Held(b, c) \cup (IF b = m /\ c = k THEN {samples} ELSE {})
  <2>1. CASE m = None
    BY <2>1 DEF Sample, Held
  <2>2. CASE m # None
    <3> DEFINE new == Sampled("server", metricByBucket[m][k])
    <3>1. Assign("server", new) /\ k \in DOMAIN metricByBucket[m] /\ m \in DOMAIN metricByBucket
      BY <1>0, <2>2 DEF Sample, Types, TypeOK, ShapeInv
    <3>2. new.samples \subseteq metricByBucket[m][k].samples \cup {samples}
      BY DEF Sampled
    <3> HIDE DEF new
    <3>3. /\ DOMAIN metricByBucket' = DOMAIN metricByBucket
          /\ \A a \in DOMAIN metricByBucket : a # m => metricByBucket'[a] = metricByBucket[a]
          /\ DOMAIN metricByBucket'[m] = DOMAIN metricByBucket[m] \cup {k}
          /\ metricByBucket'[m][k] = new
          /\ \A d \in DOMAIN metricByBucket[m] : d # k => metricByBucket'[m][d] = metricByBucket[m][d]
      BY <1>0, <2>2, <3>1, AssignKeeps
    <3> QED BY <3>1, <3>2, <3>3 DEF Held
  <2> QED BY <2>1, <2>2
<1>3. /\ \A b \in Buckets, c \in Contexts : samples \notin Held(b, c)
      /\ \A p \in DOMAIN points : \A j \in DOMAIN points[p] : samples \notin points[p][j]
  BY <1>0 DEF OnceInv, SubmitPhases
<1>4. ReportedOnce'
  BY <1>1 DEF ReportedOnce
<1>5. ASSUME NEW b \in Buckets, NEW c \in Contexts, NEW x \in Held(b, c)'
      PROVE  x \in Held(b, c) \/ (x = samples /\ b = m /\ c = k)
  BY <1>2, <1>5
<1> HIDE DEF m, k
<1>6. OnceInv'
  <2>1. \A b \in Buckets, c \in Contexts : Held(b, c)' \subseteq 1..samples
    <3>1. samples \in 1..samples
      BY <1>1
    <3> QED BY <1>5, <3>1 DEF OnceInv
  <2>2. \A p \in DOMAIN points : \A j \in DOMAIN points[p] : points[p][j] \subseteq 1..samples
    BY DEF OnceInv
  <2>3. ASSUME NEW a \in Buckets, NEW b \in Buckets, NEW c \in Contexts, NEW d \in Contexts,
               NEW x \in Held(a, c)', x \in Held(b, d)'
        PROVE  a = b /\ c = d
    BY <1>3, <1>5, <2>3 DEF OnceInv
  <2>4. ASSUME NEW b \in Buckets, NEW c \in Contexts, NEW x \in Held(b, c)',
               NEW p \in DOMAIN points, NEW j \in DOMAIN points[p]
        PROVE  x \notin points[p][j]
    BY <1>3, <1>5, <2>4 DEF OnceInv
  <2> QED BY <1>1, <2>1, <2>2, <2>3, <2>4 DEF OnceInv, SubmitPhases
<1> QED BY <1>4, <1>6

(* The samples of a bucket go to one point each, and leave the bucket. *)
LEMMA OnceFlushBucket ==
  ASSUME Types, OverInv, OnceInv, ReportedOnce, FlushBucket
  PROVE  OnceInv' /\ ReportedOnce'
<1>1. /\ Handled \in DOMAIN metricByBucket /\ Handled \in Buckets
      /\ DOMAIN metricByBucket' = DOMAIN metricByBucket
      /\ \A b \in DOMAIN metricByBucket : b # Handled => metricByBucket'[b] = metricByBucket[b]
      /\ DOMAIN metricByBucket'[Handled] = DOMAIN Content
      /\ \A c \in DOMAIN Content :
           metricByBucket'[Handled][c].samples = IF c \in Live THEN {} ELSE Content[c].samples
  BY FlushBucketEmpties
<1>2. Content = metricByBucket[Handled] /\ Live \subseteq DOMAIN Content
  BY DEF Content, Live
<1>3. ASSUME NEW b \in Buckets, NEW c \in Contexts
      PROVE  /\ Held(b, c)' \subseteq Held(b, c)
             /\ b = Handled /\ c \in Live => Held(b, c)' = {} /\ Held(b, c) = Content[c].samples
  BY <1>1, <1>2 DEF Held
<1>4. /\ points \in [Contexts \X Buckets -> Seq(SUBSET (1..MaxSamples))]
      /\ DOMAIN points' = DOMAIN points /\ samples' = samples
      /\ pc'["server"] = pc["server"]
  <2>1. pc'["server"] = pc["server"]
    BY FlushBucketParts, Goes DEF Types, ShapeInv, Threads, Phases
  <2> QED BY <2>1, FlushBucketParts DEF Types, TypeOK
<1>5. ASSUME NEW p \in DOMAIN points, NEW j \in DOMAIN points'[p]
      PROVE  \/ j \in DOMAIN points[p] /\ points'[p][j] = points[p][j]
             \/ j = Len(points[p]) + 1 /\ points'[p][j] = {}
             \/ /\ j = Len(points[p]) + 1 /\ p[2] = Handled /\ p[1] \in Live
                /\ points'[p][j] = Held(Handled, p[1])
  <2> DEFINE add == IF p[1] \in Live THEN Content[p[1]].samples ELSE {}
  <2>1. points'[p] = IF p[1] \in Live \cup Zeros /\ p[2] = Handled
                     THEN Append(points[p], add) ELSE points[p]
    BY FlushBucketParts
  <2>2. p[1] \in Contexts /\ points[p] \in Seq(SUBSET (1..MaxSamples))
    BY <1>4
  <2>3. p[1] \in Live => Held(Handled, p[1]) = add
    BY <1>1, <1>3, <2>2
  <2>4. p[1] \notin Live => add = {}
    OBVIOUS
  <2>6. CASE p[1] \in Live \cup Zeros /\ p[2] = Handled
    <3>1. points'[p] = Append(points[p], add)
      BY <2>1, <2>6
    <3> HIDE DEF add
    <3>2. CASE j = Len(points[p]) + 1
      <4>1. points'[p][j] = add
        BY <2>2, <3>1, <3>2
      <4> QED BY <2>3, <2>4, <2>6, <3>2, <4>1
    <3>3. CASE j # Len(points[p]) + 1
      <4>1. j \in 1..Len(points[p]) + 1 /\ DOMAIN points[p] = 1..Len(points[p])
        BY <1>5, <2>2, <3>1
      <4> QED BY <2>2, <3>1, <3>3, <4>1
    <3> QED BY <3>2, <3>3
  <2>7. CASE ~(p[1] \in Live \cup Zeros /\ p[2] = Handled)
    BY <1>5, <2>1, <2>7
  <2> QED BY <2>6, <2>7
<1>6. \A p \in DOMAIN points : p[1] \in Contexts /\ p[2] \in Buckets /\ p = <<p[1], p[2]>>
  BY <1>4
<1>7. ReportedOnce'
  <2> SUFFICES ASSUME NEW p \in DOMAIN points, NEW q \in DOMAIN points,
                      NEW i \in DOMAIN points'[p], NEW j \in DOMAIN points'[q],
                      NEW x \in points'[p][i], x \in points'[q][j]
               PROVE  p = q /\ i = j
    BY <1>4 DEF ReportedOnce
  <2>1. \/ i \in DOMAIN points[p] /\ points'[p][i] = points[p][i]
        \/ /\ i = Len(points[p]) + 1 /\ p[2] = Handled /\ p[1] \in Live
           /\ points'[p][i] = Held(Handled, p[1])
    BY <1>5
  <2>2. \/ j \in DOMAIN points[q] /\ points'[q][j] = points[q][j]
        \/ /\ j = Len(points[q]) + 1 /\ q[2] = Handled /\ q[1] \in Live
           /\ points'[q][j] = Held(Handled, q[1])
    BY <1>5
  <2>3. CASE /\ i \in DOMAIN points[p] /\ points'[p][i] = points[p][i]
             /\ j \in DOMAIN points[q] /\ points'[q][j] = points[q][j]
    <3>1. points[p][i] \cap points[q][j] # {}
      BY <2>3
    <3> QED BY <2>3, <3>1 DEF ReportedOnce
  <2>4. CASE /\ i = Len(points[p]) + 1 /\ p[2] = Handled /\ points'[p][i] = Held(Handled, p[1])
             /\ j = Len(points[q]) + 1 /\ q[2] = Handled /\ points'[q][j] = Held(Handled, q[1])
    <3>1. p[1] = q[1]
      BY <1>1, <1>6, <2>4 DEF OnceInv
    <3>2. p = q
      BY <1>6, <2>4, <3>1
    <3> QED BY <2>4, <3>2
  <2>5. CASE /\ i \in DOMAIN points[p] /\ points'[p][i] = points[p][i]
             /\ points'[q][j] = Held(Handled, q[1])
    BY <1>1, <1>6, <2>5 DEF OnceInv
  <2>6. CASE /\ j \in DOMAIN points[q] /\ points'[q][j] = points[q][j]
             /\ points'[p][i] = Held(Handled, p[1])
    BY <1>1, <1>6, <2>6 DEF OnceInv
  <2> QED BY <2>1, <2>2, <2>3, <2>4, <2>5, <2>6
<1>8. OnceInv'
  <2>1. \A b \in Buckets, c \in Contexts : Held(b, c)' \subseteq 1..samples
    BY <1>3 DEF OnceInv
  <2>2. ASSUME NEW p \in DOMAIN points, NEW j \in DOMAIN points'[p]
        PROVE  points'[p][j] \subseteq 1..samples
    BY <1>1, <1>5, <1>6 DEF OnceInv
  <2>3. ASSUME NEW a \in Buckets, NEW b \in Buckets, NEW c \in Contexts, NEW d \in Contexts,
               NEW x \in Held(a, c)', x \in Held(b, d)'
        PROVE  a = b /\ c = d
    BY <1>3, <2>3 DEF OnceInv
  <2>4. ASSUME NEW b \in Buckets, NEW c \in Contexts, NEW x \in Held(b, c)',
               NEW p \in DOMAIN points, NEW j \in DOMAIN points'[p]
        PROVE  x \notin points'[p][j]
    <3>1. x \in Held(b, c)
      BY <1>3
    <3>2. CASE j \in DOMAIN points[p] /\ points'[p][j] = points[p][j]
      BY <3>1, <3>2 DEF OnceInv
    <3>3. CASE p[1] \in Live /\ points'[p][j] = Held(Handled, p[1])
      <4>1. ASSUME x \in Held(Handled, p[1]) PROVE FALSE
        <5>1. b = Handled /\ c = p[1]
          BY <1>1, <1>6, <3>1, <4>1 DEF OnceInv
        <5> QED BY <1>3, <3>3, <5>1
      <4> QED BY <3>3, <4>1
    <3>4. CASE points'[p][j] = {}
      BY <3>4
    <3> QED BY <1>5, <3>2, <3>3, <3>4
  <2>5. pc["server"] \in SubmitPhases =>
          /\ \A b \in Buckets, c \in Contexts : samples \notin Held(b, c)'
          /\ \A p \in DOMAIN points : \A j \in DOMAIN points'[p] : samples \notin points'[p][j]
    BY <1>1, <1>3, <1>5, <1>6 DEF OnceInv
  <2> QED BY <1>4, <2>1, <2>2, <2>3, <2>4, <2>5 DEF OnceInv
<1> QED BY <1>7, <1>8

-----------------------------------------------------------------------------
(* The buckets that come and go. *)

Flow == OverInv /\ ReporterInv /\ FlushedInv

(* The clock is in a bucket, and None is none. *)
LEMMA CurrentStart ==
  ASSUME Types
  PROVE  /\ now \in Nat /\ CalculateBucketStart(now) \in Nat /\ Buckets \subseteq Nat
         /\ None \notin Nat /\ DOMAIN metricByBucket \subseteq Nat /\ toFlush \subseteq Nat
         /\ bucket \in [Threads -> Nat]
         /\ \A p \in DOMAIN points : p[2] \in Nat
<1>1. now \in Nat
  BY Constants DEF Types, TypeOK
<1>2. Buckets \subseteq Nat /\ None \notin Nat
  BY BucketsNat DEF None
<1>3. \A p \in DOMAIN points : p[2] \in Buckets
  BY DEF Types, TypeOK
<1> QED BY <1>1, <1>2, <1>3, BucketStart DEF Types, TypeOK

\* A statement of submit_metric but the last, as far as the buckets are concerned.
Moves(t, label) ==
  /\ pc'[t] = label /\ \A u \in Threads : u # t => pc'[u] = pc[u]
  /\ UNCHANGED <<now, bucket, toFlush, points, overtaken>>
  /\ DOMAIN metricByBucket' = DOMAIN metricByBucket \cup (IF pc[t] = "create" THEN {bucket[t]} ELSE {})
  /\ currentBucket' = IF pc[t] = "set_bucket" THEN bucket[t] ELSE currentBucket
  /\ \/ pc[t] = "test" /\ label = "current" /\ bucket[t] = currentBucket
     \/ pc[t] = "test" /\ label = "lookup"
     \/ pc[t] = "current" /\ label = "make"
     \/ pc[t] = "lookup" /\ label = "fetch" /\ bucket[t] \in DOMAIN metricByBucket
     \/ pc[t] = "lookup" /\ label = "create"
     \/ pc[t] = "create" /\ label = "fetch"
     \/ pc[t] = "fetch" /\ label = "set_bucket" /\ bucket[t] \in DOMAIN metricByBucket
     \/ pc[t] = "set_bucket" /\ label = "set_mbc"
     \/ pc[t] = "set_mbc" /\ label = "make"
     \/ pc[t] = "make" /\ label = "sample"

(* The statements of submit_metric but the last are such moves. *)
LEMMA SubmitMoves ==
  ASSUME Types, NEW t \in Threads,
         \/ Test(t) \/ Current(t) \/ Lookup(t) \/ Create(t) \/ Fetch(t)
         \/ SetBucket(t) \/ SetMbc(t) \/ Make(t)
  PROVE  \E label \in SubmitPhases : Moves(t, label)
<1> USE DEF Moves
<1>1. ASSUME NEW label \in SubmitPhases, Goto(t, label)
      PROVE  pc'[t] = label /\ \A u \in Threads : u # t => pc'[u] = pc[u]
  BY <1>1, Goes DEF Types, ShapeInv, Phases
<1>2. CASE Test(t)
  <2>1. CASE bucket[t] = currentBucket
    BY <1>1, <1>2, <2>1 DEF Test, SubmitPhases, aggregatorVars, submitVars, flushVars, historyVars
  <2>2. CASE bucket[t] # currentBucket
    BY <1>1, <1>2, <2>2 DEF Test, SubmitPhases, aggregatorVars, submitVars, flushVars, historyVars
  <2> QED BY <2>1, <2>2
<1>3. CASE Current(t)
  BY <1>1, <1>3 DEF Current, SubmitPhases, aggregatorVars, flushVars, historyVars
<1>4. CASE Lookup(t)
  <2>1. CASE bucket[t] \in DOMAIN metricByBucket
    BY <1>1, <1>4, <2>1 DEF Lookup, SubmitPhases, aggregatorVars, submitVars, flushVars, historyVars
  <2>2. CASE bucket[t] \notin DOMAIN metricByBucket
    BY <1>1, <1>4, <2>2 DEF Lookup, SubmitPhases, aggregatorVars, submitVars, flushVars, historyVars
  <2> QED BY <2>1, <2>2
<1>5. CASE Create(t)
  BY <1>1, <1>5 DEF Create, SubmitPhases, flushVars, historyVars
<1>6. CASE Fetch(t)
  BY <1>1, <1>6 DEF Fetch, SubmitPhases, aggregatorVars, flushVars, historyVars
<1>7. CASE SetBucket(t)
  BY <1>1, <1>7 DEF SetBucket, SubmitPhases, submitVars, flushVars, historyVars
<1>8. CASE SetMbc(t)
  BY <1>1, <1>8 DEF SetMbc, SubmitPhases, submitVars, flushVars, historyVars
<1>9. CASE Make(t)
  <2>1. /\ Goto(t, "sample") /\ pc[t] = "make"
        /\ UNCHANGED <<now, currentBucket, bucket, toFlush, points, overtaken>>
    BY <1>9 DEF Make, submitVars, flushVars, historyVars
  <2>2. DOMAIN metricByBucket' = DOMAIN metricByBucket
    BY <1>9, AssignKeeps DEF Make
  <2> QED BY <1>1, <2>1, <2>2 DEF SubmitPhases
<1> QED BY <1>2, <1>3, <1>4, <1>5, <1>6, <1>7, <1>8, <1>9

(* A move of either thread keeps the bucket the reporter submits to, and brings back no bucket
   that was flushed. *)
LEMMA FlowMoves ==
  ASSUME Types, Flow, NEW t \in Threads, NEW label \in SubmitPhases, Moves(t, label)
  PROVE  Flow'
<1>1. /\ pc'[t] = label /\ \A u \in Threads : u # t => pc'[u] = pc[u]
      /\ UNCHANGED <<now, bucket, toFlush, points, overtaken>>
      /\ DOMAIN metricByBucket \subseteq DOMAIN metricByBucket'
      /\ pc[t] \in SubmitPhases
  BY DEF Moves, SubmitPhases
<1>2. CalculateBucketStart(now)' = CalculateBucketStart(now)
  BY <1>1 DEF CalculateBucketStart
<1>3. t = "server" \/ t = "reporter"
  BY DEF Threads
<1>4. OverInv'
  <2>1. CASE t = "server"
    <3>1. pc'["reporter"] = pc["reporter"]
      BY <1>1, <2>1 DEF Threads
    <3>2. pc'["server"] = "set_bucket" => bucket["server"] \in DOMAIN metricByBucket
      BY <1>1, <2>1 DEF Moves
    <3> QED BY <1>1, <1>2, <2>1, <3>1, <3>2 DEF Flow, OverInv, Moves
  <2>2. CASE t = "reporter"
    <3>1. pc'["server"] = pc["server"] /\ pc'["reporter"] # "del"
      BY <1>1, <2>2 DEF Threads, SubmitPhases
    <3>2. pc["reporter"] = "set_bucket" => bucket["reporter"] \in DOMAIN metricByBucket
      BY DEF Flow, ReporterInv
    <3> QED BY <1>1, <1>2, <2>2, <3>1, <3>2 DEF Flow, OverInv, Moves
  <2> QED BY <1>3, <2>1, <2>2
<1>5. ReporterInv'
  <2>1. CASE t = "server"
    <3>1. pc'["reporter"] = pc["reporter"]
      BY <1>1, <2>1 DEF Threads
    <3>2. pc'["server"] = "set_bucket" => bucket["server"] \in DOMAIN metricByBucket
      BY <1>1, <2>1 DEF Moves
    <3>3. currentBucket' = IF pc["server"] = "set_bucket" THEN bucket["server"] ELSE currentBucket
      BY <2>1 DEF Moves
    <3> QED BY <1>1, <2>1, <3>1, <3>2, <3>3 DEF Flow, ReporterInv
  <2>2. CASE t = "reporter"
    <3>1. pc'["server"] = pc["server"] /\ pc'["reporter"] = label /\ label \notin {"test", "flush"}
      BY <1>1, <2>2 DEF Threads, Moves
    <3>2. label \in {"current", "fetch", "set_bucket", "set_mbc", "make", "sample"} =>
            bucket["reporter"] \in DOMAIN metricByBucket'
      BY <1>1, <2>2 DEF Moves, Flow, ReporterInv
    <3> QED BY <1>1, <3>1, <3>2 DEF ReporterInv
  <2> QED BY <1>3, <2>1, <2>2
<1>6. FlushedInv'
  <2> SUFFICES ASSUME ~overtaken PROVE FlushedInv'
    BY <1>1 DEF FlushedInv
  <2>1. \A u \in Threads : pc'[u] \in SubmitPhases => pc[u] \in SubmitPhases
    BY <1>1
  <2>2. pc'["reporter"] = "del" <=> pc["reporter"] = "del"
    BY <1>1 DEF Threads, SubmitPhases
  <2>3. DOMAIN metricByBucket' \subseteq DOMAIN metricByBucket \cup {bucket[t]}
    BY DEF Moves
  <2>4. \A p \in DOMAIN points : points[p] # <<>> => p[2] # bucket[t]
    BY <1>1, CurrentStart DEF Flow, FlushedInv
  <2>5. "server" \in Threads
    BY DEF Threads
  <2> QED BY <1>1, <1>2, <2>1, <2>2, <2>3, <2>4, <2>5 DEF Flow, FlushedInv
<1> QED BY <1>4, <1>5, <1>6 DEF Flow

\* A step that neither starts a submission nor touches the buckets: a thread stays where it is,
\* or is not in submit_metric after it.
Quiet ==
  /\ UNCHANGED <<toFlush, points, overtaken>> /\ DOMAIN metricByBucket' = DOMAIN metricByBucket
  /\ now' = now \/ now' = now + 1
  /\ currentBucket' = currentBucket \/ currentBucket' = None
  /\ \A u \in Threads : \/ pc'[u] = pc[u] /\ bucket'[u] = bucket[u]
                        \/ pc'[u] \notin SubmitPhases \cup {"del"} /\ pc[u] # "del"
  /\ pc'["reporter"] = "flush" => pc["reporter"] \in {"sample", "flush"}

(* The last statement of submit_metric, the last ones of flush, and the steps of the clock and of
   the signals are quiet. *)
LEMMA QuietSteps ==
  ASSUME Types, \/ \E t \in Threads : Sample(t)
                \/ FetchKeyError \/ ResetBucket \/ ResetMbc \/ Post
                \/ Sigterm \/ ServerStops \/ Tick \/ UNCHANGED vars
  PROVE  Quiet
<1>1. ASSUME NEW t \in Threads, NEW label \in Phases \ (SubmitPhases \cup {"del"}), Goto(t, label)
      PROVE  pc'[t] \notin SubmitPhases \cup {"del"} /\ pc'[t] = label
             /\ \A u \in Threads : u # t => pc'[u] = pc[u]
  BY <1>1, Goes DEF Types, ShapeInv
<1>2. CASE \E t \in Threads : Sample(t)
  <2>1. PICK t \in Threads : Sample(t)
    BY <1>2
  <2>2. /\ pc[t] = "sample" /\ Goto(t, IF t = "server" THEN "select" ELSE "flush")
        /\ bucket' = [bucket EXCEPT ![t] = 0]
        /\ UNCHANGED <<now, currentBucket, toFlush, points, overtaken>>
    BY <2>1 DEF Sample, SubmitReturns, flushVars, historyVars
  <2>3. DOMAIN metricByBucket' = DOMAIN metricByBucket
    BY <2>1, AssignKeeps DEF Sample
  <2>4. \A u \in Threads : u # t => bucket'[u] = bucket[u]
    BY <2>2 DEF Types, TypeOK
  <2>5. /\ pc'[t] \notin SubmitPhases \cup {"del"} /\ \A u \in Threads : u # t => pc'[u] = pc[u]
        /\ pc'[t] = IF t = "server" THEN "select" ELSE "flush"
    BY <1>1, <2>2 DEF Phases, SubmitPhases
  <2> QED BY <2>2, <2>3, <2>4, <2>5 DEF Quiet, Threads
<1>3. CASE FetchKeyError
  <2>1. /\ pc["server"] = "fetch" /\ Goto("server", "select")
        /\ bucket' = [bucket EXCEPT !["server"] = 0]
        /\ UNCHANGED <<now, metricByBucket, currentBucket, toFlush, points, overtaken>>
    BY <1>3 DEF FetchKeyError, SubmitReturns, aggregatorVars, flushVars, historyVars
  <2>2. bucket'["reporter"] = bucket["reporter"]
    BY <2>1 DEF Types, TypeOK, Threads
  <2>3. pc'["server"] \notin SubmitPhases \cup {"del"} /\ pc'["reporter"] = pc["reporter"]
    BY <1>1, <2>1 DEF Phases, SubmitPhases, Threads
  <2> QED BY <2>1, <2>2, <2>3 DEF Quiet, Threads
<1>4. CASE ResetBucket \/ ResetMbc \/ Post
  <2>1. PICK label \in {"reset_mbc", "post", "stopped", "wait"} : Goto("reporter", label)
    BY <1>4 DEF ResetBucket, ResetMbc, Post
  <2>2. /\ pc["reporter"] # "del"
        /\ currentBucket' = currentBucket \/ currentBucket' = None
        /\ UNCHANGED <<now, metricByBucket, bucket, toFlush, points, overtaken>>
    BY <1>4 DEF ResetBucket, ResetMbc, Post, aggregatorVars, submitVars, flushVars, historyVars
  <2>3. /\ pc'["reporter"] \notin SubmitPhases \cup {"del"} /\ pc'["server"] = pc["server"]
        /\ pc'["reporter"] # "flush"
    BY <1>1, <2>1 DEF Phases, SubmitPhases, Threads
  <2> QED BY <2>2, <2>3 DEF Quiet, Threads
<1>5. CASE ServerStops
  <2>1. /\ pc["server"] = "select" /\ Goto("server", "stopped")
        /\ UNCHANGED <<now, metricByBucket, currentBucket, bucket, toFlush, points, overtaken>>
    BY <1>5 DEF ServerStops, aggregatorVars, submitVars, flushVars, historyVars
  <2>2. pc'["server"] \notin SubmitPhases \cup {"del"} /\ pc'["reporter"] = pc["reporter"]
    BY <1>1, <2>1 DEF Phases, SubmitPhases, Threads
  <2> QED BY <2>1, <2>2 DEF Quiet, Threads
<1>6. CASE Sigterm \/ Tick \/ UNCHANGED vars
  BY <1>6 DEF Sigterm, Tick, vars, aggregatorVars, submitVars, flushVars, historyVars, Quiet
<1> QED BY <1>2, <1>3, <1>4, <1>5, <1>6

(* A quiet step keeps what there is, and no bucket comes back. *)
LEMMA FlowQuiet ==
  ASSUME Types, Flow, Quiet
  PROVE  Flow'
<1>1. /\ UNCHANGED <<toFlush, points, overtaken>> /\ DOMAIN metricByBucket' = DOMAIN metricByBucket
      /\ currentBucket' = currentBucket \/ currentBucket' = None
      /\ \A u \in Threads : pc'[u] \in SubmitPhases \cup {"del"} =>
                              pc'[u] = pc[u] /\ bucket'[u] = bucket[u]
      /\ pc["reporter"] = "del" => pc'["reporter"] = "del"
      /\ pc'["reporter"] = "flush" => pc["reporter"] \in {"sample", "flush"}
  BY DEF Quiet, Threads
<1>2. /\ CalculateBucketStart(now) \in Nat /\ CalculateBucketStart(now)' \in Nat
      /\ CalculateBucketStart(now) <= CalculateBucketStart(now)'
  <2>1. now \in Nat
    BY CurrentStart
  <2>2. CASE now' = now
    BY <2>1, <2>2, BucketStart DEF CalculateBucketStart
  <2>3. CASE now' = now + 1
    <3>1. CalculateBucketStart(now)' = CalculateBucketStart(now + 1)
      BY <2>3 DEF CalculateBucketStart
    <3> QED BY <2>1, <3>1, BucketStart
  <2> QED BY <2>2, <2>3 DEF Quiet
<1>3. \A b \in Nat : b < CalculateBucketStart(now) => b < CalculateBucketStart(now)'
  BY <1>2
<1>4. \A u \in Threads : pc'[u] \in SubmitPhases => pc[u] \in SubmitPhases /\ bucket'[u] = bucket[u]
  BY <1>1
<1>5. /\ pc'["server"] = "set_bucket" => pc["server"] = "set_bucket" /\ bucket'["server"] = bucket["server"]
      /\ \A l \in SubmitPhases : pc'["reporter"] = l =>
           pc["reporter"] = l /\ bucket'["reporter"] = bucket["reporter"]
      /\ pc'["reporter"] = "del" <=> pc["reporter"] = "del"
  BY <1>1 DEF Threads, SubmitPhases
<1>6. OverInv'
  <2>1. currentBucket \in Nat \cup {None} /\ toFlush \subseteq Nat /\ bucket["server"] \in Nat
    BY CurrentStart DEF Types, TypeOK, Threads
  <2> QED BY <1>1, <1>3, <1>5, <2>1 DEF Flow, OverInv
<1>7. ReporterInv'
  <2>1. bucket["reporter"] # None
    BY CurrentStart DEF Threads
  <2>2. ASSUME pc'["reporter"] = "test"
        PROVE  /\ currentBucket' = bucket'["reporter"] => bucket'["reporter"] \in DOMAIN metricByBucket
               /\ pc'["server"] = "set_bucket" /\ bucket'["server"] = bucket'["reporter"] =>
                    bucket'["reporter"] \in DOMAIN metricByBucket
    BY <1>1, <1>5, <2>1, <2>2 DEF Flow, ReporterInv, SubmitPhases
  <2>3. pc'["reporter"] \in {"current", "fetch", "set_bucket", "set_mbc", "make", "sample"} =>
          bucket'["reporter"] \in DOMAIN metricByBucket
    BY <1>5 DEF Flow, ReporterInv, SubmitPhases
  <2>4. pc'["reporter"] = "flush" => DOMAIN metricByBucket # {}
    BY <1>1 DEF Flow, ReporterInv
  <2> QED BY <1>1, <2>2, <2>3, <2>4 DEF ReporterInv
<1>8. FlushedInv'
  <2> SUFFICES ASSUME ~overtaken PROVE FlushedInv'
    BY <1>1 DEF FlushedInv
  <2>1. \A p \in DOMAIN points : p[2] \in Nat
    BY CurrentStart
  <2>2. "server" \in Threads
    BY DEF Threads
  <2> QED BY <1>1, <1>3, <1>4, <1>5, <2>1, <2>2 DEF Flow, FlushedInv
<1> QED BY <1>6, <1>7, <1>8 DEF Flow

(* A submission goes to the bucket of the current time, which no flush has reached yet. *)
LEMMA FlowSubmit ==
  ASSUME Types, Flow, (\E c \in Contexts : Receive(c)) \/ SendPacketCount
  PROVE  Flow'
<1>1. PICK t \in Threads :
        /\ Goto(t, "test") /\ bucket' = [bucket EXCEPT ![t] = CalculateBucketStart(now)]
        /\ UNCHANGED <<now, metricByBucket, currentBucket, toFlush, points, overtaken>>
        /\ pc[t] \in {"select", "wait"}
  BY DEF Receive, SendPacketCount, Submit, aggregatorVars, flushVars, historyVars, Threads
<1>2. /\ pc'[t] = "test" /\ \A u \in Threads : u # t => pc'[u] = pc[u]
      /\ bucket'[t] = CalculateBucketStart(now) /\ \A u \in Threads : u # t => bucket'[u] = bucket[u]
  BY <1>1, Goes DEF Types, TypeOK, ShapeInv, Phases, SubmitPhases
<1>3. CalculateBucketStart(now)' = CalculateBucketStart(now)
  BY <1>1 DEF CalculateBucketStart
<1>4. t = "server" \/ t = "reporter"
  BY DEF Threads
<1>5. OverInv'
  BY <1>1, <1>2, <1>3, <1>4 DEF Flow, OverInv, Threads
<1>6. ReporterInv'
  <2>1. CASE t = "server"
    BY <1>1, <1>2, <2>1 DEF Flow, ReporterInv, Threads
  <2>2. CASE t = "reporter"
    <3>1. ~(CalculateBucketStart(now) < CalculateBucketStart(now)) /\ CalculateBucketStart(now) # None
      BY CurrentStart
    <3>2. /\ currentBucket = CalculateBucketStart(now) => CalculateBucketStart(now) \in DOMAIN metricByBucket
          /\ pc["server"] = "set_bucket" /\ bucket["server"] = CalculateBucketStart(now) =>
               CalculateBucketStart(now) \in DOMAIN metricByBucket
      BY <3>1 DEF Flow, OverInv
    <3> QED BY <1>1, <1>2, <2>2, <3>2 DEF ReporterInv, Threads
  <2> QED BY <1>4, <2>1, <2>2
<1>7. FlushedInv'
  <2> SUFFICES ASSUME ~overtaken PROVE FlushedInv'
    BY <1>1 DEF FlushedInv
  <2>1. \A p \in DOMAIN points : points[p] # <<>> =>
          \A u \in Threads : pc'[u] \in SubmitPhases => p[2] < bucket'[u]
    BY <1>2 DEF Flow, FlushedInv
  <2>2. pc'["server"] \in SubmitPhases => \A b \in toFlush : b < bucket'["server"]
    BY <1>2, <1>4 DEF Flow, OverInv, FlushedInv, Threads
  <2>3. pc'["reporter"] = "del" <=> pc["reporter"] = "del"
    BY <1>1, <1>2 DEF Threads
  <2> QED BY <1>1, <1>3, <2>1, <2>2, <2>3 DEF Flow, FlushedInv
<1> QED BY <1>5, <1>6, <1>7 DEF Flow

(* flush() takes the buckets that are over; when it takes the one the server submits to, or a
   later one, it has overtaken the server. *)
LEMMA FlowFlush ==
  ASSUME Types, Flow, Flush
  PROVE  Flow'
<1>1. /\ pc["reporter"] = "flush" /\ Goto("reporter", "bucket")
      /\ toFlush' = {b \in DOMAIN metricByBucket : b < CalculateBucketStart(now)}
      /\ overtaken' = (overtaken \/ (InSubmit("server") /\ bucket["server"] < CalculateBucketStart(now)))
      /\ UNCHANGED <<now, metricByBucket, currentBucket, bucket, points>>
  BY DEF Flush, aggregatorVars, submitVars
<1>2. pc'["reporter"] = "bucket" /\ pc'["server"] = pc["server"]
  BY <1>1, Goes DEF Types, ShapeInv, Phases, Threads
<1>3. CalculateBucketStart(now)' = CalculateBucketStart(now)
  BY <1>1 DEF CalculateBucketStart
<1>4. OverInv'
  BY <1>1, <1>2, <1>3 DEF Flow, OverInv
<1>5. ReporterInv'
  BY <1>2 DEF ReporterInv
<1>6. FlushedInv'
  <2> SUFFICES ASSUME ~overtaken' PROVE FlushedInv'
    BY DEF FlushedInv
  <2>1. ~overtaken /\ (pc["server"] \in SubmitPhases => ~(bucket["server"] < CalculateBucketStart(now)))
    BY <1>1 DEF InSubmit, SubmitPhases
  <2>2. /\ DOMAIN metricByBucket \subseteq Nat /\ bucket["server"] \in Nat
        /\ CalculateBucketStart(now) \in Nat
    BY CurrentStart DEF Threads
  <2>3. pc["server"] \in SubmitPhases => \A b \in toFlush' : b < bucket["server"]
    BY <1>1, <2>1, <2>2
  <2>4. \A u \in Threads : pc'[u] \in SubmitPhases => pc[u] \in SubmitPhases
    BY <1>2 DEF Threads, SubmitPhases
  <2> QED BY <1>1, <1>2, <1>3, <2>1, <2>3, <2>4 DEF Flow, FlushedInv
<1> QED BY <1>4, <1>5, <1>6 DEF Flow

(* A bucket that is flushed has no point yet, unless the flush overtook the server. *)
LEMMA FlowFlushBucket ==
  ASSUME Types, Flow, FlushBucket
  PROVE  Flow'
<1>1. /\ pc["reporter"] = "bucket" /\ toFlush # {} /\ Goto("reporter", "del")
      /\ UNCHANGED <<now, currentBucket, bucket, toFlush, overtaken>>
  BY FlushBucketParts
<1>0. /\ DOMAIN points' = DOMAIN points
      /\ \A p \in DOMAIN points : \/ points'[p] = points[p]
                                  \/ p[2] = Handled /\ \E v : points'[p] = Append(points[p], v)
  <2>1. points' = [p \in DOMAIN points |->
              IF p[1] \in Live \cup Zeros /\ p[2] = Handled
              THEN Append(points[p], IF p[1] \in Live THEN Content[p[1]].samples ELSE {})
              ELSE points[p]]
    BY FlushBucketParts
  <2> QED BY <2>1
<1>2. pc'["reporter"] = "del" /\ pc'["server"] = pc["server"]
  BY <1>1, Goes DEF Types, ShapeInv, Phases, Threads
<1>3. CalculateBucketStart(now)' = CalculateBucketStart(now)
  BY <1>1 DEF CalculateBucketStart
<1>4. /\ Handled \in toFlush /\ Handled \in DOMAIN metricByBucket
      /\ DOMAIN metricByBucket' = DOMAIN metricByBucket
  BY <1>1, HandledThere, FlushBucketParts DEF Flow
<1>5. OverInv'
  BY <1>1, <1>2, <1>3, <1>4 DEF Flow, OverInv
<1>6. ReporterInv'
  BY <1>2 DEF ReporterInv
<1>7. FlushedInv'
  <2> SUFFICES ASSUME ~overtaken PROVE FlushedInv'
    BY <1>1 DEF FlushedInv
  <2>1. \A p \in DOMAIN points : points'[p] # <<>> => points[p] # <<>> \/ p[2] = Handled
    BY <1>0
  <2>2. \A u \in Threads : pc'[u] \in SubmitPhases => u = "server" /\ pc["server"] \in SubmitPhases
    BY <1>2 DEF Threads, SubmitPhases
  <2>3. \A p \in DOMAIN points : points[p] # <<>> => p[2] \notin DOMAIN metricByBucket
    BY <1>1 DEF Flow, FlushedInv
  <2>4. \A p \in DOMAIN points : points'[p] # <<>> =>
          /\ p[2] < CalculateBucketStart(now)
          /\ \A u \in Threads : pc'[u] \in SubmitPhases => p[2] < bucket[u]
          /\ p[2] \in DOMAIN metricByBucket => p[2] = Handled
    BY <1>4, <2>1, <2>2, <2>3 DEF Flow, OverInv, FlushedInv, Threads
  <2>5. ASSUME NEW p \in DOMAIN points PROVE Len(points'[p]) <= 1
    <3>1. CASE points'[p] = points[p]
      BY <3>1 DEF Flow, FlushedInv
    <3>2. CASE p[2] = Handled /\ \E v : points'[p] = Append(points[p], v)
      <4>1. points[p] = <<>>
        BY <1>4, <2>3, <3>2
      <4>2. PICK v : points'[p] = Append(points[p], v)
        BY <3>2
      <4> QED BY <4>1, <4>2
    <3> QED BY <1>0, <3>1, <3>2
  <2>6. (Min(toFlush))' = Handled
    BY <1>1 DEF Handled, Min
  <2> QED BY <1>0, <1>1, <1>2, <1>3, <1>4, <2>4, <2>5, <2>6 DEF Flow, FlushedInv
<1> QED BY <1>5, <1>6, <1>7 DEF Flow

(* The bucket that is removed is over. *)
LEMMA FlowDelete ==
  ASSUME Types, Flow, DeleteBucket
  PROVE  Flow'
<1>1. /\ Handled \in toFlush /\ DOMAIN metricByBucket' = DOMAIN metricByBucket \ {Handled}
      /\ toFlush' = toFlush \ {Handled}
      /\ pc["reporter"] = "del" /\ pc'["reporter"] = "bucket" /\ pc'["server"] = pc["server"]
      /\ UNCHANGED <<now, currentBucket, bucket, points, overtaken>>
  BY DeleteParts DEF Flow
<1>2. CalculateBucketStart(now)' = CalculateBucketStart(now)
  BY <1>1 DEF CalculateBucketStart
<1>3. OverInv'
  BY <1>1, <1>2 DEF Flow, OverInv
<1>4. ReporterInv'
  BY <1>1 DEF ReporterInv
<1>5. FlushedInv'
  <2> SUFFICES ASSUME ~overtaken PROVE FlushedInv'
    BY <1>1 DEF FlushedInv
  <2>1. \A u \in Threads : pc'[u] \in SubmitPhases => pc[u] \in SubmitPhases
    BY <1>1 DEF Threads, SubmitPhases
  <2>2. \A p \in DOMAIN points : points[p] # <<>> => p[2] \notin DOMAIN metricByBucket'
    BY <1>1 DEF Flow, FlushedInv, Handled
  <2> QED BY <1>1, <1>2, <2>1, <2>2 DEF Flow, FlushedInv
<1> QED BY <1>3, <1>4, <1>5 DEF Flow

-----------------------------------------------------------------------------
(* The theorems. *)

(* A step that writes no sample into a bucket. *)
LEMMA OnceQuiet ==
  ASSUME Types, OverInv, OnceInv, ReportedOnce,
         \/ \E t \in Threads : \/ Test(t) \/ Current(t) \/ Lookup(t) \/ Fetch(t) \/ Create(t)
                               \/ SetBucket(t) \/ SetMbc(t) \/ Make(t)
         \/ Sample("reporter") \/ FetchKeyError \/ SendPacketCount
         \/ Flush \/ DeleteBucket \/ ResetBucket \/ ResetMbc \/ Post
         \/ Sigterm \/ ServerStops \/ Tick \/ UNCHANGED vars
  PROVE  OnceInv' /\ ReportedOnce'
<1>1. UNCHANGED <<points, samples>>
  BY DEF Test, Current, Lookup, Fetch, Create, SetBucket, SetMbc, Make, Sample, FetchKeyError,
         SendPacketCount, Flush, DeleteBucket, ResetBucket, ResetMbc, Post, Sigterm, ServerStops,
         Tick, vars, historyVars
<1>2. ASSUME NEW b \in Buckets, NEW c \in Contexts
      PROVE  Held(b, c)' \subseteq Held(b, c)
  <2>1. CASE \E t \in Threads : Make(t) \/ (Sample(t) /\ t = "reporter")
    BY <2>1, OnceWrite
  <2>2. CASE \E t \in Threads : Create(t)
    <3>1. PICK t \in Threads : metricByBucket' = [a \in DOMAIN metricByBucket \cup {bucket[t]} |->
                                 IF a = bucket[t] THEN <<>> ELSE metricByBucket[a]]
      BY <2>2 DEF Create
    <3>2. DOMAIN <<>> = {}
      OBVIOUS
    <3>3. CASE b = bucket[t]
      BY <3>1, <3>2, <3>3 DEF Held
    <3>4. CASE b # bucket[t]
      BY <3>1, <3>4 DEF Held
    <3> QED BY <3>3, <3>4
  <2>3. CASE DeleteBucket
    BY <2>3, DeleteParts DEF Held
  <2>4. CASE metricByBucket' = metricByBucket
    BY <2>4 DEF Held
  <2>5. \/ metricByBucket' = metricByBucket \/ DeleteBucket
        \/ \E t \in Threads : Create(t) \/ Make(t) \/ (Sample(t) /\ t = "reporter")
    BY DEF Test, Current, Lookup, Fetch, SetBucket, SetMbc, FetchKeyError, Threads,
           SendPacketCount, Submit, Flush, ResetBucket, ResetMbc, Post, Sigterm, ServerStops,
           Tick, vars, aggregatorVars
  <2> QED BY <2>1, <2>2, <2>3, <2>4, <2>5
<1>3. pc'["server"] \in SubmitPhases => pc["server"] \in SubmitPhases
  <2>1. CASE \E t \in Threads : \/ Test(t) \/ Current(t) \/ Lookup(t) \/ Fetch(t) \/ Create(t)
                                \/ SetBucket(t) \/ SetMbc(t) \/ Make(t)
    <3>1. PICK t \in Threads, label \in SubmitPhases : Moves(t, label)
      BY <2>1, SubmitMoves
    <3>2. pc[t] \in SubmitPhases /\ \A u \in Threads : u # t => pc'[u] = pc[u]
      BY <3>1 DEF Moves, SubmitPhases
    <3> QED BY <3>2 DEF Threads
  <2>2. CASE SendPacketCount \/ Flush \/ DeleteBucket
    <3>1. PICK label \in {"test", "bucket"} : Goto("reporter", label)
      BY <2>2 DEF SendPacketCount, Submit, Flush, DeleteBucket
    <3> QED BY <3>1, Goes DEF Types, ShapeInv, Phases, SubmitPhases, Threads
  <2>3. CASE \/ Sample("reporter") \/ FetchKeyError \/ ResetBucket \/ ResetMbc \/ Post
             \/ Sigterm \/ ServerStops \/ Tick \/ UNCHANGED vars
    <3>1. Quiet
      BY <2>3, QuietSteps DEF Threads
    <3> QED BY <3>1 DEF Quiet, Threads
  <2> QED BY <2>1, <2>2, <2>3
<1> QED BY <1>1, <1>2, <1>3, OnceShrinks

(* Every step keeps the invariant. *)
LEMMA InvNext ==
  ASSUME Inv, [Next]_vars
  PROVE  Inv'
<1>0. /\ Types /\ Flow /\ OverInv /\ OnceInv /\ ReportedOnce
      /\ "server" \in Threads /\ "reporter" \in Threads
  BY DEF Inv, Types, Flow, Threads
<1> SUFFICES Types' /\ Flow' /\ OnceInv' /\ ReportedOnce'
  BY DEF Inv, Types, Flow
<1>1. CASE \E t \in Threads : \/ Test(t) \/ Current(t) \/ Lookup(t) \/ Create(t) \/ Fetch(t)
                              \/ SetBucket(t) \/ SetMbc(t) \/ Make(t)
  <2>1. PICK t \in Threads : \/ Test(t) \/ Current(t) \/ Lookup(t) \/ Create(t) \/ Fetch(t)
                             \/ SetBucket(t) \/ SetMbc(t) \/ Make(t)
    BY <1>1
  <2>2. Types'
    BY <1>0, <2>1, TypesRead, TypesCreate, TypesSample
  <2>3. Flow'
    BY <1>0, <2>1, SubmitMoves, FlowMoves
  <2> QED BY <1>0, <1>1, <2>2, <2>3, OnceQuiet
<1>2. CASE \E t \in Threads : Sample(t)
  <2>1. Types' /\ Flow'
    BY <1>0, <1>2, TypesSample, QuietSteps, FlowQuiet
  <2>2. OnceInv' /\ ReportedOnce'
    BY <1>0, <1>2, OnceSample, OnceQuiet DEF Threads
  <2> QED BY <2>1, <2>2
<1>3. CASE \E c \in Contexts : Receive(c)
  BY <1>0, <1>3, TypesCall, FlowSubmit, OnceReceive
<1>4. CASE SendPacketCount
  BY <1>0, <1>4, TypesCall, FlowSubmit, OnceQuiet
<1>5. CASE FetchKeyError
  BY <1>0, <1>5, TypesCall, QuietSteps, FlowQuiet, OnceQuiet
<1>6. CASE Flush
  BY <1>0, <1>6, TypesFlush, FlowFlush, OnceQuiet
<1>7. CASE FlushBucket
  BY <1>0, <1>7, TypesFlushBucket, FlowFlushBucket, OnceFlushBucket
<1>8. CASE DeleteBucket
  BY <1>0, <1>8, TypesDelete, FlowDelete, OnceQuiet
<1>9. CASE ResetBucket \/ ResetMbc \/ Post
  BY <1>0, <1>9, TypesFlush, QuietSteps, FlowQuiet, OnceQuiet
<1>10. CASE Sigterm \/ ServerStops \/ Tick \/ UNCHANGED vars
  BY <1>0, <1>10, TypesControl, QuietSteps, FlowQuiet, OnceQuiet
<1> QED BY <1>1, <1>2, <1>3, <1>4, <1>5, <1>6, <1>7, <1>8, <1>9, <1>10
        DEF Next, ServerStep, ReporterStep, SubmitMetric, ReporterFlush, Threads

(* The invariant holds when dogstatsd starts. *)
LEMMA InvInit == Init => Inv
<1> SUFFICES ASSUME Init PROVE Inv
  OBVIOUS
<1> USE DEF Init
<1>1. DOMAIN metricByBucket = {} /\ DOMAIN lastSampleTime = {}
  OBVIOUS
<1>2. metricByBucket = [b \in DOMAIN metricByBucket |-> metricByBucket[b]]
  BY <1>1
<1>3. /\ pc \in [Threads -> Phases] /\ pc["server"] = "select" /\ pc["reporter"] = "wait"
      /\ pc["server"] \notin SubmitPhases /\ pc["reporter"] \notin SubmitPhases
  BY DEF Threads, Phases, SubmitPhases
<1>4. points \in [Contexts \X Buckets -> Seq(SUBSET (1..MaxSamples))]
      /\ \A p \in DOMAIN points : points[p] = <<>>
  OBVIOUS
<1>5. TypeOK
  <2>1. /\ context \in [Threads -> Contexts \cup {PacketCount}] /\ bucket \in [Threads -> Buckets]
        /\ mbc \in [Threads -> DOMAIN metricByBucket \cup {None}]
    BY BucketsNat
  <2>2. /\ now \in 0..MaxTime /\ samples \in 0..MaxSamples /\ expiry \in Int /\ wake \in Nat
    BY Constants
  <2> QED BY <1>1, <1>3, <1>4, <2>1, <2>2 DEF TypeOK
<1>6. ShapeInv
  BY <1>1, <1>2, <1>3 DEF ShapeInv, Threads
<1>7. OnceInv /\ ReportedOnce
  BY <1>1, <1>3, <1>4 DEF OnceInv, ReportedOnce, Held
<1>8. OverInv /\ ReporterInv
  BY <1>3 DEF OverInv, ReporterInv
<1>9. FlushedInv
  <2>1. \A p \in DOMAIN points : Len(points[p]) <= 1
    BY <1>4
  <2> QED BY <1>3, <1>4, <2>1 DEF FlushedInv
<1> QED BY <1>5, <1>6, <1>7, <1>8, <1>9 DEF Inv

(* The invariant holds in every state, for all contexts, intervals and bounds. *)
THEOREM InvariantHolds == Spec => []Inv
<1>1. Inv /\ [Next]_vars => Inv'
  BY InvNext
<1> QED BY <1>1, InvInit, PTL DEF Spec

(* The attributes of the aggregator and the locals of both threads have their types: a thread
   that is in submit_metric never holds a dictionary that metric_by_bucket lacks, the one flush()
   removed included, but as one that nobody reads. *)
THEOREM TypesCorrect == Spec => []TypeOK
<1>1. Inv => TypeOK
  BY DEF Inv
<1> QED BY <1>1, InvariantHolds, PTL

(* However submit_metric and flush() interleave, a sample is in one point at most: flush() empties
   or removes the bucket it reports before the server can sample a metric of it again. *)
THEOREM SamplesReportedOnce == Spec => []ReportedOnce
<1>1. Inv => ReportedOnce
  BY DEF Inv
<1> QED BY <1>1, InvariantHolds, PTL

(* As long as no flush overtakes the server, the points of a counter for a bucket are one: its
   samples, or the zero of create_empty_metrics. *)
THEOREM OnePointEach == Spec => []OnePointPerBucket
<1>1. Inv => OnePointPerBucket
  <2> SUFFICES ASSUME Inv, ~overtaken, NEW p \in Counters \X Buckets
               PROVE  Len(points[p]) <= 1
    BY DEF OnePointPerBucket
  <2>1. p \in DOMAIN points
    BY Constants DEF Inv, TypeOK
  <2> QED BY <2>1 DEF Inv, FlushedInv
<1> QED BY <1>1, InvariantHolds, PTL

(* flush() always finds a bucket, the one of the packet count that the same thread has just
   submitted: its branch for an empty metric_by_bucket is dead code in dogstatsd. *)
THEOREM FlushFindsABucket == Spec => []FlushNeverEmpty
<1>1. Inv => FlushNeverEmpty
  <2> SUFFICES ASSUME Inv, pc["reporter"] = "flush" PROVE metricByBucket # <<>>
    BY DEF FlushNeverEmpty
  <2>1. DOMAIN metricByBucket # {} /\ DOMAIN <<>> = {}
    BY DEF Inv, ReporterInv
  <2> QED BY <2>1
<1> QED BY <1>1, InvariantHolds, PTL
=============================================================================
