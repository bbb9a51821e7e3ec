--------------------------- MODULE BucketAggregator ---------------------------
(***************************************************************************)
(* dogstatsd: the server thread (src/dogstatsd.py, Server.start) submits   *)
(* samples to a MetricsBucketAggregator (src/aggregator.py) which the      *)
(* reporter thread (Reporter.run) flushes.  There is no lock, so each read *)
(* or write of a shared attribute in submit_metric, which both threads     *)
(* call, and in flush is a step of its own, but for two.  The clock is     *)
(* read with the list of buckets: a bucket made in between might as well   *)
(* be made before.  The metrics of a bucket are flushed together: only the *)
(* reporter reads what their flush writes, and a sample that a metric gets *)
(* during or after its flush is lost either way.                           *)
(*                                                                         *)
(* The dictionary of a bucket is named by the start of the bucket while    *)
(* metric_by_bucket holds it.  Nobody reads a dictionary that was removed  *)
(* or replaced there, or the fresh one flush() leaves in current_mbc, so   *)
(* all of these are None.                                                  *)
(***************************************************************************)
EXTENDS Integers, Sequences, FiniteSetsExt, Functions

CONSTANTS
  Contexts,        \* contexts of the metrics that packets submit
  Counters,        \* those of them that are Counters; the others are gauges
  PacketCount,     \* the context of datadog.dogstatsd.packet.count
  Interval,        \* interval: the length of a bucket
  ReportInterval,  \* the reporter's interval
  ExpirySeconds,   \* expiry_seconds
  MaxSamples,      \* bound: packets received
  MaxTime          \* bound: the clock stops there, for all later times

ASSUME BucketAggregatorAssumption ==
  /\ Counters \subseteq Contexts /\ PacketCount \notin Contexts
  /\ {Interval, ReportInterval} \subseteq Nat \ {0}
  /\ {ExpirySeconds, MaxSamples, MaxTime} \subseteq Nat

VARIABLES
  now,              \* time()
  \* the aggregator
  metricByBucket,   \* metric_by_bucket: bucket start -> context -> metric
  currentBucket,    \* current_bucket
  currentMbc,       \* current_mbc
  lastSampleTime,   \* last_sample_time_by_context: Counter -> time
  \* the threads and their locals
  pc,               \* the statement each thread runs next
  context,          \* submit_metric: the context submitted
  bucket,           \* submit_metric: bucket_start_timestamp
  mbc,              \* submit_metric: metric_by_context
  expiry,           \* flush: expiry_timestamp
  toFlush,          \* flush: buckets still to handle
  wake,             \* when finished.wait(interval) returns
  running,          \* server.running
  finished,         \* reporter.finished
  \* history, never read by an action's guard
  samples,          \* samples received, numbered
  points,           \* (context, bucket) -> the sets of samples reported for it
  overtaken         \* a bucket was flushed that the server still submits to

aggregatorVars == <<metricByBucket, currentBucket, currentMbc, lastSampleTime>>
submitVars == <<context, bucket, mbc>>
flushVars == <<expiry, toFlush>>
controlVars == <<wake, running, finished>>
historyVars == <<samples, points, overtaken>>
vars == <<now, aggregatorVars, pc, submitVars, flushVars, controlVars, historyVars>>

None == -1
Threads == {"server", "reporter"}
Metric == [samples: SUBSET (0..MaxSamples), last: Int]

CalculateBucketStart(timestamp) == timestamp - (timestamp % Interval)
Buckets == {CalculateBucketStart(t) : t \in 0..MaxTime}

Init ==
  /\ now = 0
  /\ metricByBucket = <<>> /\ currentBucket = None /\ currentMbc = None
  /\ lastSampleTime = <<>>
  /\ pc = [server |-> "select", reporter |-> "wait"]
  /\ context = [t \in Threads |-> PacketCount]
  /\ bucket = [t \in Threads |-> 0] /\ mbc = [t \in Threads |-> None]
  /\ expiry = 0 /\ toFlush = {}
  /\ wake = ReportInterval /\ running = TRUE /\ finished = FALSE
  /\ samples = 0 /\ points = [p \in Contexts \X Buckets |-> <<>>] /\ overtaken = FALSE

Goto(t, label) == pc' = [pc EXCEPT ![t] = label]

-----------------------------------------------------------------------------
(* submit_metric, by either thread *)

\* A packet without a timestamp: it belongs to the bucket of the current time.
Submit(t, c) ==
  /\ context' = [context EXCEPT ![t] = c]
  /\ bucket' = [bucket EXCEPT ![t] = CalculateBucketStart(now)]
  /\ Goto(t, "test")
  /\ UNCHANGED <<now, aggregatorVars, mbc, flushVars>>

\* The locals end with the call.
SubmitReturns(t) ==
  /\ context' = [context EXCEPT ![t] = PacketCount]
  /\ bucket' = [bucket EXCEPT ![t] = 0] /\ mbc' = [mbc EXCEPT ![t] = None]

Test(t) ==
  /\ pc[t] = "test"
  /\ Goto(t, IF bucket[t] = currentBucket THEN "current" ELSE "lookup")
  /\ UNCHANGED <<now, aggregatorVars, submitVars, flushVars, controlVars, historyVars>>

Current(t) ==
  /\ pc[t] = "current"
  /\ mbc' = [mbc EXCEPT ![t] = currentMbc]
  /\ Goto(t, "make")
  /\ UNCHANGED <<now, aggregatorVars, context, bucket, flushVars, controlVars, historyVars>>

Lookup(t) ==
  /\ pc[t] = "lookup"
  /\ Goto(t, IF bucket[t] \in DOMAIN metricByBucket THEN "fetch" ELSE "create")
  /\ UNCHANGED <<now, aggregatorVars, submitVars, flushVars, controlVars, historyVars>>

\* The dictionary of bucket b leaves metric_by_bucket: what still refers to it
\* refers to a dictionary nobody reads.
Detach(b) ==
  /\ mbc' = [t \in Threads |-> IF mbc[t] = b THEN None ELSE mbc[t]]
  /\ currentMbc' = IF currentMbc = b THEN None ELSE currentMbc

\* The other thread may have created the bucket meanwhile: it is replaced.
Create(t) ==
  /\ pc[t] = "create"
  /\ metricByBucket' = [b \in DOMAIN metricByBucket \cup {bucket[t]} |->
                          IF b = bucket[t] THEN <<>> ELSE metricByBucket[b]]
  /\ Detach(bucket[t])
  /\ Goto(t, "fetch")
  /\ UNCHANGED <<now, currentBucket, lastSampleTime, context, bucket,
                 flushVars, controlVars, historyVars>>

Fetch(t) ==
  /\ pc[t] = "fetch" /\ bucket[t] \in DOMAIN metricByBucket
  /\ mbc' = [mbc EXCEPT ![t] = bucket[t]]
  /\ Goto(t, "set_bucket")
  /\ UNCHANGED <<now, aggregatorVars, context, bucket, flushVars, controlVars, historyVars>>

\* Only the reporter removes buckets, so it is the server that gets a KeyError,
\* which its loop logs.
FetchKeyError ==
  /\ pc["server"] = "fetch" /\ bucket["server"] \notin DOMAIN metricByBucket
  /\ SubmitReturns("server")
  /\ Goto("server", "select")
  /\ UNCHANGED <<now, aggregatorVars, flushVars, controlVars, historyVars>>

SetBucket(t) ==
  /\ pc[t] = "set_bucket"
  /\ currentBucket' = bucket[t]
  /\ Goto(t, "set_mbc")
  /\ UNCHANGED <<now, metricByBucket, currentMbc, lastSampleTime,
                 submitVars, flushVars, controlVars, historyVars>>

SetMbc(t) ==
  /\ pc[t] = "set_mbc"
  /\ currentMbc' = mbc[t]
  /\ Goto(t, "make")
  /\ UNCHANGED <<now, metricByBucket, currentBucket, lastSampleTime,
                 submitVars, flushVars, controlVars, historyVars>>

\* metric_by_context[context] = metric
Assign(t, metric) ==
  metricByBucket' =
    IF mbc[t] = None THEN metricByBucket
    ELSE [metricByBucket EXCEPT ![mbc[t]] =
            [c \in DOMAIN @ \cup {context[t]} |-> IF c = context[t] THEN metric ELSE @[c]]]

Make(t) ==
  /\ pc[t] = "make"
  /\ IF mbc[t] # None /\ context[t] \notin DOMAIN metricByBucket[mbc[t]]
     THEN Assign(t, [samples |-> {}, last |-> None])
     ELSE UNCHANGED metricByBucket
  /\ Goto(t, "sample")
  /\ UNCHANGED <<now, currentBucket, currentMbc, lastSampleTime,
                 submitVars, flushVars, controlVars, historyVars>>

\* A Counter adds the sample, a gauge keeps the last one; the server's current
\* sample has the number samples.
Sampled(t, metric) ==
  [samples |-> (IF context[t] \in Counters THEN metric.samples ELSE {}) \cup {samples},
   last |-> now]

Sample(t) ==
  /\ pc[t] = "sample"
  /\ IF mbc[t] # None THEN Assign(t, Sampled(t, metricByBucket[mbc[t]][context[t]]))
     ELSE UNCHANGED metricByBucket
  /\ SubmitReturns(t)
  /\ Goto(t, IF t = "server" THEN "select" ELSE "flush")
  /\ UNCHANGED <<now, currentBucket, currentMbc, lastSampleTime,
                 flushVars, controlVars, historyVars>>

SubmitMetric(t) ==
  \/ Test(t) \/ Current(t) \/ Lookup(t) \/ Create(t) \/ Fetch(t)
  \/ SetBucket(t) \/ SetMbc(t) \/ Make(t) \/ Sample(t)

-----------------------------------------------------------------------------
(* The server *)

Receive(c) ==
  /\ pc["server"] = "select" /\ running /\ samples < MaxSamples
  /\ samples' = samples + 1
  /\ Submit("server", c)
  /\ UNCHANGED <<controlVars, points, overtaken>>

Sigterm ==
  /\ running /\ running' = FALSE
  /\ UNCHANGED <<now, aggregatorVars, pc, submitVars, flushVars, wake, finished, historyVars>>

\* The server's loop is left and Dogstatsd.run stops the reporter.
ServerStops ==
  /\ pc["server"] = "select" /\ ~running
  /\ Goto("server", "stopped")
  /\ finished' = TRUE
  /\ UNCHANGED <<now, aggregatorVars, submitVars, flushVars, wake, running, historyVars>>

-----------------------------------------------------------------------------
(* The reporter *)

\* Mutant: no packet count is sent.
SendNothing ==
  /\ pc["reporter"] = "wait" /\ (now >= wake \/ now = MaxTime \/ finished)
  /\ wake' = 0 /\ Goto("reporter", "flush")
  /\ UNCHANGED <<now, aggregatorVars, submitVars, flushVars, running, finished, historyVars>>

SendPacketCount ==
  /\ pc["reporter"] = "wait" /\ (now >= wake \/ now = MaxTime \/ finished)
  /\ wake' = 0 /\ Submit("reporter", PacketCount)
  /\ UNCHANGED <<running, finished, historyVars>>

InSubmit(t) == pc[t] \notin {"select", "wait", "stopped"}

\* Mutant: the bucket before the current one is left for the next flush.
FlushLate ==
  /\ pc["reporter"] = "flush" /\ metricByBucket # <<>>
  /\ expiry' = now - ExpirySeconds
  /\ toFlush' = {b \in DOMAIN metricByBucket : b < CalculateBucketStart(now) - Interval}
  /\ overtaken' = overtaken
  /\ Goto("reporter", "bucket")
  /\ UNCHANGED <<now, aggregatorVars, submitVars, controlVars, samples, points>>

\* Mutant: the current bucket is flushed too.
FlushEarly ==
  /\ pc["reporter"] = "flush" /\ metricByBucket # <<>>
  /\ expiry' = now - ExpirySeconds
  /\ toFlush' = {b \in DOMAIN metricByBucket : b <= CalculateBucketStart(now)}
  /\ overtaken' = overtaken
  /\ Goto("reporter", "bucket")
  /\ UNCHANGED <<now, aggregatorVars, submitVars, controlVars, samples, points>>

\* The clock is read, then the buckets there are.  FlushNeverEmpty says why the
\* branch for an empty metric_by_bucket, the only one that uses
\* last_flush_cutoff_time, is left out.
Flush ==
  /\ pc["reporter"] = "flush" /\ metricByBucket # <<>>
  /\ expiry' = now - ExpirySeconds
  /\ LET flushCutoffTime == CalculateBucketStart(now)
     IN  /\ toFlush' = {b \in DOMAIN metricByBucket : b < flushCutoffTime}
         /\ overtaken' = (overtaken \/ (InSubmit("server") /\ bucket["server"] < flushCutoffTime))
  /\ Goto("reporter", "bucket")
  /\ UNCHANGED <<now, aggregatorVars, submitVars, controlVars, samples, points>>

\* values: the samples of each context reported for bucket b.
Report(b, values) ==
  points' = [p \in DOMAIN points |->
               IF p[1] \in DOMAIN values /\ p[2] = b THEN Append(points[p], values[p[1]])
               ELSE points[p]]

\* create_empty_metrics: of the counters without a sample, the others report 0.
Expired(silent) == {c \in silent : lastSampleTime[c] < expiry}

\* Mutant: a bucket is flushed without being emptied or removed.
FlushBucketKeeps ==
  /\ pc["reporter"] = "bucket" /\ toFlush # {}
  /\ LET b == Min(toFlush)
         content == metricByBucket[b]
     IN  /\ Report(b, [c \in DOMAIN content |-> content[c].samples])
         /\ toFlush' = toFlush \ {b}
  /\ UNCHANGED <<now, pc, aggregatorVars, submitVars, expiry, controlVars, samples, overtaken>>

\* Mutant: every metric is remembered, not the counters only.
FlushBucketRemembersAll ==
  /\ pc["reporter"] = "bucket" /\ toFlush # {}
  /\ LET b == Min(toFlush)
         content == metricByBucket[b]
     IN  lastSampleTime' = [c \in DOMAIN lastSampleTime \cup DOMAIN content |->
                              IF c \in DOMAIN content THEN content[c].last
                              ELSE lastSampleTime[c]]
  /\ Goto("reporter", "del")
  /\ UNCHANGED <<now, metricByBucket, currentBucket, currentMbc, submitVars,
                 flushVars, controlVars, historyVars>>

\* A metric that was made and has no sample yet compares as expired.
FlushBucket ==
  /\ pc["reporter"] = "bucket" /\ toFlush # {}
  /\ LET b == Min(toFlush)
         content == metricByBucket[b]
         stale == {c \in DOMAIN content : content[c].last = None \/ content[c].last < expiry}
         live == DOMAIN content \ stale
         silent == DOMAIN lastSampleTime \ (stale \cup (live \cap Counters))
         zeros == silent \ Expired(silent)
     IN  /\ Report(b, [c \in live \cup zeros |->
                         IF c \in live THEN content[c].samples ELSE {}])
         /\ lastSampleTime' = [c \in zeros \cup (live \cap Counters) |->
                                 IF c \in zeros THEN lastSampleTime[c] ELSE content[c].last]
         /\ metricByBucket' =
              [metricByBucket EXCEPT ![b] = [c \in DOMAIN @ |->
                 IF c \in live THEN [@[c] EXCEPT !.samples = {}] ELSE @[c]]]
  /\ Goto("reporter", "del")
  /\ UNCHANGED <<now, currentBucket, currentMbc, submitVars, flushVars,
                 controlVars, samples, overtaken>>

DeleteBucket ==
  /\ pc["reporter"] = "del"
  /\ metricByBucket' = Restrict(metricByBucket, DOMAIN metricByBucket \ {Min(toFlush)})
  /\ Detach(Min(toFlush))
  /\ toFlush' = toFlush \ {Min(toFlush)}
  /\ Goto("reporter", "bucket")
  /\ UNCHANGED <<now, currentBucket, lastSampleTime, context, bucket,
                 expiry, controlVars, historyVars>>

ResetBucket ==
  /\ pc["reporter"] = "bucket" /\ toFlush = {}
  /\ currentBucket' = None /\ expiry' = 0
  /\ Goto("reporter", "reset_mbc")
  /\ UNCHANGED <<now, metricByBucket, currentMbc, lastSampleTime, submitVars,
                 toFlush, controlVars, historyVars>>

ResetMbc ==
  /\ pc["reporter"] = "reset_mbc"
  /\ currentMbc' = None
  /\ Goto("reporter", "post")
  /\ UNCHANGED <<now, metricByBucket, currentBucket, lastSampleTime, submitVars, flushVars,
                 controlVars, historyVars>>

\* The posts take their time; a post that fails is logged.
Post ==
  /\ pc["reporter"] = "post"
  /\ Goto("reporter", IF finished THEN "stopped" ELSE "wait")
  /\ wake' = now + ReportInterval
  /\ UNCHANGED <<now, aggregatorVars, submitVars, flushVars, running, finished, historyVars>>

ReporterFlush ==
  Flush \/ FlushBucket \/ DeleteBucket \/ ResetBucket \/ ResetMbc \/ Post

-----------------------------------------------------------------------------
Tick ==
  /\ now < MaxTime /\ now' = now + 1
  /\ UNCHANGED <<aggregatorVars, pc, submitVars, flushVars, controlVars, historyVars>>

ServerStep == SubmitMetric("server") \/ FetchKeyError \/ ServerStops
ReporterStep == SubmitMetric("reporter") \/ SendPacketCount \/ ReporterFlush

Next ==
  \/ ServerStep \/ ReporterStep
  \/ \E c \in Contexts : Receive(c)
  \/ Sigterm
  \/ Tick

Spec == Init /\ [][Next]_vars

\* Both threads run and the clock advances; packets and signals need not come.
FairSpec == Spec /\ WF_vars(ServerStep) /\ WF_vars(ReporterStep) /\ WF_vars(Tick)

-----------------------------------------------------------------------------
(* Properties *)

TypeOK ==
  /\ now \in 0..MaxTime
  /\ DOMAIN metricByBucket \subseteq Buckets
  /\ \A b \in DOMAIN metricByBucket :
       /\ DOMAIN metricByBucket[b] \subseteq Contexts \cup {PacketCount}
       /\ \A c \in DOMAIN metricByBucket[b] : metricByBucket[b][c] \in Metric
  /\ currentBucket \in Buckets \cup {None}
  /\ currentMbc \in DOMAIN metricByBucket \cup {None}
  /\ DOMAIN lastSampleTime \subseteq Counters
  /\ \A c \in DOMAIN lastSampleTime : lastSampleTime[c] \in 0..MaxTime
  /\ pc["server"] \in {"select", "test", "current", "lookup", "create", "fetch",
                       "set_bucket", "set_mbc", "make", "sample", "stopped"}
  /\ pc["reporter"] \in {"wait", "test", "current", "lookup", "create", "fetch",
                         "set_bucket", "set_mbc", "make", "sample", "flush", "bucket",
                         "del", "reset_mbc", "post", "stopped"}
  /\ context \in [Threads -> Contexts \cup {PacketCount}]
  /\ bucket \in [Threads -> Buckets]
  /\ mbc \in [Threads -> DOMAIN metricByBucket \cup {None}]
  /\ expiry \in Int /\ toFlush \subseteq Buckets
  /\ wake \in Nat /\ running \in BOOLEAN /\ finished \in BOOLEAN
  /\ samples \in 0..MaxSamples /\ overtaken \in BOOLEAN
  /\ points \in [Contexts \X Buckets -> Seq(SUBSET (1..MaxSamples))]

\* However the two threads interleave, a sample is reported at most once: a bucket
\* that was flushed is never flushed again with what it held.
ReportedOnce ==
  \A p, q \in DOMAIN points : \A i \in DOMAIN points[p], j \in DOMAIN points[q] :
    points[p][i] \cap points[q][j] # {} => p = q /\ i = j

\* A counter has at most one point per bucket, its samples or the zero that stands
\* for none, or the later would replace the earlier; unless the server was overtaken
\* by the flush of the bucket it was submitting to.
OnePointPerBucket ==
  overtaken \/ \A p \in Counters \X Buckets : Len(points[p]) <= 1

\* The packet count the reporter submits before each flush is in metric_by_bucket when
\* flush() looks, whatever the server does to the shared buckets meanwhile: the branch
\* of flush() that reports zeros when there is no bucket is dead code in dogstatsd.
FlushNeverEmpty == pc["reporter"] = "flush" => metricByBucket # <<>>

\* Buckets whose time is over are flushed and removed, all of them, unless dogstatsd
\* stops first: one that is passed over would stay in memory.
EveryBucketFlushed ==
  LET over == {b \in DOMAIN metricByBucket : b < CalculateBucketStart(MaxTime)}
  IN  over # {} ~> (over = {} \/ pc["reporter"] = "stopped")
=============================================================================
