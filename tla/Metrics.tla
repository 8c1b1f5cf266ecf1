------------------------------- MODULE Metrics -------------------------------
(***************************************************************************)
(* MetricsService of one API process: the request counter and the window   *)
(* of the latest latencies, which live and die with the process, and what  *)
(* GET /metrics computes of them.  Latencies are in milliseconds.          *)
(***************************************************************************)
EXTENDS Integers, SequencesExt

CONSTANT MaxLatencySamples   \* 10000

ASSUME MetricsAssumption == MaxLatencySamples \in Nat \ {0}

VARIABLES
  requestCount,
  latencies,   \* the window
  timings      \* history: every latency recorded since the process started

metricsVars == <<requestCount, latencies, timings>>

FreshMetrics == requestCount = 0 /\ latencies = <<>> /\ timings = <<>>

ForgetMetrics == requestCount' = 0 /\ latencies' = <<>> /\ timings' = <<>>

IncrementRequestCount ==
  /\ requestCount' = requestCount + 1
  /\ UNCHANGED <<latencies, timings>>

(* Mutant of Windowed: a full window takes nothing more.                    *)
WindowedFirst(s) == IF Len(s) > MaxLatencySamples THEN Front(s) ELSE s

(* push, then shift if there are too many.                                 *)
Windowed(s) == IF Len(s) > MaxLatencySamples THEN Tail(s) ELSE s

(* Mutant of RecordLatencyMs: the request is counted once more.            *)
RecordAndCount(ms) ==
  /\ latencies' = Windowed(Append(latencies, ms))
  /\ timings' = Append(timings, ms)
  /\ requestCount' = requestCount + 1

RecordLatencyMs(ms) ==
  /\ latencies' = Windowed(Append(latencies, ms))
  /\ timings' = Append(timings, ms)
  /\ UNCHANGED requestCount

(* Mutant of Ascending: the samples in the order of their arrival.         *)
Arriving(s) == s

(* p arranges the samples s in ascending order.                            *)
Sorts(p, s) == \A i, j \in DOMAIN s : i < j => s[p[i]] <= s[p[j]]

Ascending(s) ==
  LET order == CHOOSE p \in Bijection(DOMAIN s, DOMAIN s) : Sorts(p, s)
  IN  [i \in DOMAIN s |-> s[order[i]]]

(* p95Index is floor(n * 0.95) - 1, counted from 0 and at least 0.          *)
P95 ==
  IF latencies = <<>> THEN 0
  ELSE Ascending(latencies)[Max({1, (95 * Len(latencies)) \div 100})]

-----------------------------------------------------------------------------
MetricsTypeOK ==
  /\ requestCount \in Nat
  /\ latencies \in Seq(Nat)
  /\ timings \in Seq(Nat)

Newest(s) ==
  IF Len(s) <= MaxLatencySamples THEN s
  ELSE SubSeq(s, Len(s) - MaxLatencySamples + 1, Len(s))

(* The window holds the newest latencies, as many as fit, in the order in  *)
(* which their responses were finished.                                    *)
WindowIsNewest == latencies = Newest(timings)

SamplesThat(Test(_)) == Cardinality({i \in DOMAIN latencies : Test(latencies[i])})

(* p95 marks off the slowest twentieth of the window up to one sample: at  *)
(* least a twentieth of the samples are as slow as it, and fewer than a    *)
(* twentieth and one more are slower.  It may lie one rank below the       *)
(* nearest-rank percentile.                                                *)
P95MarksTheSlowest ==
  latencies # <<>> =>
    /\ 20 * SamplesThat(LAMBDA ms : ms >= P95) >= Len(latencies)
    /\ 20 * SamplesThat(LAMBDA ms : ms > P95) < Len(latencies) + 20
=============================================================================
