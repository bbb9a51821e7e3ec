---------------------------- MODULE MetricTypes ----------------------------
(***************************************************************************)
(* The metric classes of src/aggregator.py and the MetricsAggregator that  *)
(* keeps one object per context, for one context of a check.  The class is *)
(* that of the first submission: the type is not part of the context, and  *)
(* later submissions of another type are samples of the same object.       *)
(*                                                                         *)
(* Every flush is compared with a reference: what the class should report, *)
(* read off the list of all the samples the object was given.  A count is  *)
(* reported undivided: the flush interval is a constant.                   *)
(***************************************************************************)
EXTENDS Integers, Sequences, FiniteSets, FiniteSetsExt, SequencesExt, Functions

CONSTANTS
  Types,        \* the metric types that are submitted
  Values,       \* the values that are submitted
  Weights,      \* int(1 / sample_rate)
  Percentiles,  \* histogram_percentiles, in hundredths
  Expiry,       \* expiry_seconds
  MaxTime,      \* bound: the clock
  MaxSamples    \* bound: samples of an object

ASSUME MetricTypesAssumption ==
  /\ Types \subseteq {"g", "ct", "ct-c", "c", "h", "s", "_dd-r"}
  /\ Values \subseteq Int /\ Weights \subseteq Nat \ {0} /\ Percentiles \subseteq 0..100
  /\ Expiry \in Nat /\ MaxTime \in Nat /\ MaxSamples \in Nat

VARIABLES
  now,        \* time()
  class,      \* the class of the object of the context, "none" if there is none
  metric,     \* the object
  lastSample, \* its last_sample_time
  report,     \* what the last flush reported
  \* history
  samples,    \* the samples of the object
  flushed,    \* how many of them the last flush found
  expected    \* what the last flush should have reported

vars == <<now, class, metric, lastSample, report, samples, flushed, expected>>

None == <<>>        \* an attribute that is None
Some(v) == <<v>>
OrZero(o) == IF o = None THEN 0 ELSE o[1]

Init ==
  /\ now = 0 /\ class = "none" /\ metric = None /\ lastSample = None /\ report = {}
  /\ samples = <<>> /\ flushed = 0 /\ expected = {}

-----------------------------------------------------------------------------
(* The classes *)

New(c) ==
  CASE c \in {"g", "ct"} -> None
    [] c = "ct-c" -> [prev |-> None, curr |-> None, count |-> None]
    [] c = "c" -> 0
    [] c = "h" -> [count |-> 0, samples |-> <<>>]
    [] c = "s" -> {}
    [] c = "_dd-r" -> <<>>

GaugeSample(m, v) == Some(v)

CountSample(m, v) == Some(OrZero(m) + v)

\* Mutant: without a current counter there is nothing to compare with.
MonotonicSampleAlone(m, v) ==
  LET prev == IF m.curr = None THEN None ELSE m.curr
  IN  [prev |-> prev, curr |-> Some(v),
       count |-> IF prev = None THEN m.count ELSE Some(OrZero(m.count) + Max({0, v - prev[1]}))]

\* After a flush there is no current counter, and the previous one is that of the last flush.
MonotonicSample(m, v) ==
  LET prev == IF m.curr = None THEN m.prev ELSE m.curr
  IN  [prev |-> prev, curr |-> Some(v),
       count |-> IF prev = None THEN m.count ELSE Some(OrZero(m.count) + Max({0, v - prev[1]}))]

CounterSample(m, v, weight) == m + v * weight

HistogramSample(m, v, weight) ==
  [count |-> m.count + weight, samples |-> Append(m.samples, v)]

SetSample(m, v) == m \cup {v}

RateSample(m, v) == Append(m, [at |-> now, value |-> v])

Sample(c, m, v, weight) ==
  CASE c = "g" -> GaugeSample(m, v)
    [] c = "ct" -> CountSample(m, v)
    [] c = "ct-c" -> MonotonicSample(m, v)
    [] c = "c" -> CounterSample(m, v, weight)
    [] c = "h" -> HistogramSample(m, v, weight)
    [] c = "s" -> SetSample(m, v)
    [] c = "_dd-r" -> RateSample(m, v)

Point(name, v) == {<<name, 0, v>>}
Percentile(p, v) == {<<"percentile", p, v>>}

\* int(round(x / 100)), and an index of a Python list, which may be negative.
Round(x) == IF x >= 0 THEN (2 * x + 100) \div 200 ELSE -((100 - 2 * x) \div 200)
At(s, index) == IF index >= 0 THEN s[index + 1] ELSE s[Len(s) + index + 1]

\* list.sort()
Sort(s) ==
  LET order == CHOOSE p \in [DOMAIN s -> DOMAIN s] :
                 /\ \A i, j \in DOMAIN s : i < j => s[p[i]] <= s[p[j]]
                 /\ IsInjective(p)
  IN  [i \in DOMAIN s |-> s[order[i]]]

\* v[from + 1] + ... + v[to]
Total(v, from, to) ==
  LET sum[i \in from..to] == IF i = from THEN 0 ELSE sum[i - 1] + v[i]
  IN  sum[to]

HistogramFlush(m) ==
  LET s == Sort(m.samples)
      n == Len(s)
  IN  IF m.count = 0 THEN {}
      ELSE Point("min", s[1]) \cup Point("max", s[n]) \cup Point("count", m.count)
           \cup Point("median", At(s, n \div 2 - 1))
           \cup Point("sum", Total(s, 0, n))
           \cup UNION {Percentile(p, At(s, Round(p * n - 100))) : p \in Percentiles}

\* The last two samples; nothing at an interval of 0 or for a counter that went back.
RateFlush(m) ==
  IF Len(m) < 2 THEN {}
  ELSE LET s1 == m[Len(m) - 1]
           s2 == m[Len(m)]
       IN  IF s2.at = s1.at \/ s2.value < s1.value THEN {}
           ELSE Point("rate", <<s2.value - s1.value, s2.at - s1.at>>)

FlushMetric(c, m) ==
  CASE c \in {"g", "ct"} -> IF m = None THEN {} ELSE Point("value", m[1])
    [] c = "ct-c" -> IF m.count = None THEN {} ELSE Point("value", m.count[1])
    [] c = "c" -> Point("value", m)
    [] c = "h" -> HistogramFlush(m)
    [] c = "s" -> IF m = {} THEN {} ELSE Point("value", Cardinality(m))
    [] c = "_dd-r" -> RateFlush(m)

\* What a flush leaves of the object.
Reset(c, m) ==
  CASE c = "ct-c" -> IF m.count = None THEN m
                     ELSE [prev |-> m.curr, curr |-> None, count |-> None]
    [] c = "_dd-r" -> IF Len(m) < 2 THEN m ELSE <<Last(m)>>
    [] OTHER -> New(c)

-----------------------------------------------------------------------------
(* The reference, on the list of samples *)

Since == flushed + 1..Len(samples)
ValuesOf == [i \in DOMAIN samples |-> samples[i].value]
WeightsOf == [i \in DOMAIN samples |-> samples[i].weight]
WeightedOf == [i \in DOMAIN samples |-> samples[i].value * samples[i].weight]
Increases == [i \in 2..Len(samples) |-> Max({0, samples[i].value - samples[i - 1].value})]

\* The value at a rank: that many values are not above it, and fewer are below it.  A rank
\* of 0 stands for the greatest value.
HasRank(v, rank) ==
  LET r == IF rank = 0 THEN Cardinality(Since) ELSE rank
  IN  /\ Cardinality({i \in Since : samples[i].value <= v}) >= r
      /\ Cardinality({i \in Since : samples[i].value < v}) < r
Rank(rank) == CHOOSE v \in Values : HasRank(v, rank)

\* p percent of n values, rounded: half a value is rounded up, but for a half of the first.
PercentileRank(p, n) == IF p * n <= 50 THEN 0 ELSE (p * n + 50) \div 100

Reference(c) ==
  LET n == Cardinality(Since)
      last == Len(samples)
  IN
  CASE c = "g" -> IF n = 0 THEN {} ELSE Point("value", samples[last].value)
    [] c = "ct" -> IF n = 0 THEN {} ELSE Point("value", Total(ValuesOf, flushed, last))
    [] c = "ct-c" -> IF Since \ {1} = {} THEN {}
                     ELSE Point("value", Total(Increases, Max({1, flushed}), last))
    [] c = "c" -> Point("value", Total(WeightedOf, flushed, last))
    [] c = "h" -> IF n = 0 THEN {}
                  ELSE Point("min", Rank(1)) \cup Point("max", Rank(n))
                       \cup Point("count", Total(WeightsOf, flushed, last))
                       \cup Point("median", Rank(n \div 2))
                       \cup Point("sum", Total(ValuesOf, flushed, last))
                       \cup UNION {Percentile(p, Rank(PercentileRank(p, n))) : p \in Percentiles}
    [] c = "s" -> IF n = 0 THEN {} ELSE Point("value", Cardinality({samples[i].value : i \in Since}))
    [] c = "_dd-r" ->
         IF \/ last < 2
            \/ samples[last].at = samples[last - 1].at
            \/ samples[last].value < samples[last - 1].value
            \/ n = 0   \* the sample is left, alone
         THEN {}
         ELSE Point("rate", <<samples[last].value - samples[last - 1].value,
                              samples[last].at - samples[last - 1].at>>)

-----------------------------------------------------------------------------
(* MetricsAggregator *)

\* submit_metric: the object is made before the timestamp of the point is looked at.
Submit(c, v, weight) ==
  LET cl == IF class = "none" THEN c ELSE class
      m  == IF class = "none" THEN New(c) ELSE metric
  IN  /\ Len(samples) < MaxSamples
      /\ class' = cl
      /\ metric' = Sample(cl, m, v, weight)
      /\ lastSample' = Some(now)
      /\ samples' = Append(samples, [at |-> now, value |-> v, weight |-> weight])
      /\ UNCHANGED <<now, report, flushed, expected>>

SubmitTooOld(c) ==
  /\ class = "none"
  /\ class' = c /\ metric' = New(c)
  /\ UNCHANGED <<now, lastSample, report, samples, flushed, expected>>

\* last_sample_time < expiry_timestamp, which None is too.
Expired == lastSample # None => lastSample[1] < now - Expiry

Flush ==
  /\ class # "none" /\ ~Expired
  /\ report' = FlushMetric(class, metric) /\ expected' = Reference(class)
  /\ metric' = Reset(class, metric)
  /\ flushed' = Len(samples)
  /\ UNCHANGED <<now, class, lastSample, samples>>

\* The object is deleted; the next submission makes a new one, of its own type.
FlushExpired ==
  /\ class # "none" /\ Expired
  /\ class' = "none" /\ metric' = None /\ lastSample' = None
  /\ report' = {} /\ expected' = {}
  /\ samples' = <<>> /\ flushed' = 0
  /\ UNCHANGED now

Tick ==
  /\ now < MaxTime
  /\ now' = now + 1
  /\ UNCHANGED <<class, metric, lastSample, report, samples, flushed, expected>>

Next ==
  \/ \E c \in Types, v \in Values, weight \in Weights : Submit(c, v, weight)
  \/ \E c \in Types : SubmitTooOld(c)
  \/ Flush \/ FlushExpired \/ Tick

Spec == Init /\ [][Next]_vars

-----------------------------------------------------------------------------
(* Properties *)

\* A flush reports what its class stands for: the last value of a gauge, the sum of a count,
\* the increases of a monotonic count across flushes without the steps back, the weighted sum
\* of a counter, the order statistics of a histogram, the number of values of a set, the slope
\* of the last two samples of a rate; no sample is counted by two flushes, and none is lost
\* between two.
ReportsReference == report = expected
=============================================================================
