----------------------------- MODULE Confidence -----------------------------
(***************************************************************************)
(* Confidence: the context gathered around an anomaly, and the confidence  *)
(* and severity the detector gives it.                                     *)
(*                                                                         *)
(* A world is what the backends would answer: the RED series Prometheus    *)
(* has a value and a history for, the log rows of the service in Loki,     *)
(* newest first, each with the queries that find it, and its traces in     *)
(* Tempo.  A backend may be down, a single query may fail (time out, be    *)
(* refused, be answered with an error), and one may be garbled: answered   *)
(* with success and a body of the wrong shape.  Qualities are in 1/10000,  *)
(* points in 1/100, scores in whole sigmas; divisions round down where the *)
(* code rounds to two places.                                              *)
(***************************************************************************)
EXTENDS Integers, Sequences, FiniteSets

CONSTANTS Weight,           \* percent of each family, adding up to 100
          Strength(_),      \* 1 - exp(-score / 3), in 1/10000
          SeverityThreshold,\* zscore_threshold
          MaxLogs,          \* context_max_log_lines
          MaxTraces,        \* context_max_traces
          NoTrace           \* no trace id

Red      == {"error", "rate", "p95", "p99"}
Families == {"metrics", "traces", "logs", "events"}
Backends == {"prometheus", "loki", "tempo"}

(* A query is its kind and what it asks for.  The templates tried for one  *)
(* series count as one query of it.                                        *)
LogQueries  == <<"errors", "all", "job", "service">>
LogLabels   == {"errors", "all", "job", "service", "changes"}
SearchModes == {"error", "slow", "any", "tags"}

MetricQueries == {"instant", "range"} \X Red
Queries == MetricQueries \cup ({"loki"} \X LogLabels) \cup ({"tempo"} \X SearchModes)

BackendOf(query) ==
  IF query \in MetricQueries THEN "prometheus" ELSE query[1]

ASSUME WeightAssumption ==
  /\ Weight \in [Families -> 0..100]
  /\ Weight["metrics"] + Weight["traces"] + Weight["logs"] + Weight["events"] = 100
  /\ {MaxLogs, MaxTraces} \subseteq Nat \ {0} /\ SeverityThreshold \in Nat

Least(a, b)    == IF a <= b THEN a ELSE b
Greatest(a, b) == IF a >= b THEN a ELSE b
FirstOf(s, n)  == SubSeq(s, 1, Least(n, Len(s)))
Percent(n)     == 100 * n
Whole          == Percent(100)      \* 1.0

(* The elements of s at the given places, in their order.                  *)
Picked(s, places) ==
  [k \in 1..Cardinality(places) |->
     s[CHOOSE i \in places : Cardinality({j \in places : j <= i}) = k]]

CountOf(s, Test(_)) == Cardinality({i \in DOMAIN s : Test(s[i])})

(* The first answer that is not empty.                                     *)
FirstAnswer(answers) ==
  LET given == {i \in DOMAIN answers : answers[i] # <<>>}
  IN  IF given = {} THEN <<>>
      ELSE answers[CHOOSE i \in given : \A j \in given : i <= j]

-----------------------------------------------------------------------------
(* The helpers below the gatherer catch what a query raises and go on to   *)
(* the next one: a query that fails is like one that finds nothing.  What  *)
(* is wrong with the body of a log query or of an instant one is caught as *)
(* well; the bodies of the others are read outside of the try.             *)
Answered(world, query) ==
  BackendOf(query) \notin world.down /\ query \notin world.failed

Unguarded == ({"range"} \X Red) \cup ({"tempo"} \X SearchModes)

Escapes(world, query) == query \in world.garbled /\ Answered(world, query)

(* _gather_metrics, and what gather makes of it.  The detector's features  *)
(* fill the gaps, and are all there is when the gathering raised.  A       *)
(* history is listed for every series, of no points when there is none.    *)
GatherMetrics(world, features) ==
  IF \E m \in Red : Escapes(world, <<"range", m>>)
  THEN [instant |-> features, ranged |-> {}, listed |-> FALSE]
  ELSE [instant |-> {m \in world.instant : Answered(world, <<"instant", m>>)} \cup features,
        ranged  |-> {m \in world.ranged : Answered(world, <<"range", m>>)},
        listed  |-> TRUE]

(* _loki_query_range for one query.                                        *)
Rows(world, label, limit) ==
  IF Answered(world, <<"loki", label>>)
  THEN FirstOf(Picked(world.logs, {i \in DOMAIN world.logs : label \in world.logs[i].found}),
               limit)
  ELSE <<>>

(* _gather_logs: the rows of the first query that gives any.               *)
GatherLogs(world) ==
  FirstAnswer([k \in DOMAIN LogQueries |-> Rows(world, LogQueries[k], MaxLogs)])

(* One search of _gather_traces: what Tempo finds of it,                   *)
Found(world, mode) ==
  LET t    == world.traces
      hits == FirstOf(Picked(t, {i \in DOMAIN t :
                                   CASE mode = "error" -> t[i].error
                                     [] mode = "slow"  -> t[i].ms > 200
                                     [] mode = "tags"  -> t[i].ms >= 100
                                     [] OTHER          -> TRUE}),
                      MaxTraces)
  IN  [i \in DOMAIN hits |-> [id |-> hits[i].id, ms |-> hits[i].ms, mode |-> mode]]

Collect(found) ==
  LET fresh(i) == \A j \in 1..(i - 1) : found[j].id # found[i].id
  IN  Picked(found, {i \in DOMAIN found : fresh(i)})

(* and what it adds to the traces collected so far: each trace is kept     *)
(* under the first search that found it, a search that fails is passed     *)
(* over, and one with a garbled answer loses them all.                     *)
Visit(world, sofar, mode) ==
  CASE sofar.lost \/ Len(sofar.traces) >= MaxTraces -> sofar
    [] ~(sofar.lost \/ Len(sofar.traces) >= MaxTraces) /\ Escapes(world, <<"tempo", mode>>) ->
         [traces |-> <<>>, lost |-> TRUE]
    [] OTHER ->
         [traces |-> FirstOf(Collect(sofar.traces \o
                                     IF Answered(world, <<"tempo", mode>>)
                                       THEN Found(world, mode) ELSE <<>>), MaxTraces),
          lost   |-> FALSE]

(* _gather_traces: four searches.                                          *)
GatherTraces(world) ==
  LET errors == Visit(world, [traces |-> <<>>, lost |-> FALSE], "error")
      slow   == Visit(world, errors, "slow")
      any    == Visit(world, slow, "any")
  IN  Visit(world, any, "tags")

(* _events_from_logs, and the query that looks for its words: the two do   *)
(* not list the same words.                                                *)
EventsFromLogs(rows) ==
  FirstOf(Picked(rows, {i \in DOMAIN rows : rows[i].change # "none"}), 15)

GatherEvents(world) == EventsFromLogs(Rows(world, "changes", 15))

(* _select_primary_trace_id: the longest trace (the first of equals), else *)
(* the first trace id of a log row.                                        *)
SelectPrimaryTraceId(traces, logs) ==
  LET rows == {i \in DOMAIN logs : logs[i].trace # NoTrace}
      longest == {i \in DOMAIN traces :
                    \A j \in DOMAIN traces : traces[j].ms <= traces[i].ms}
  IN  IF traces # <<>>
        THEN traces[CHOOSE i \in longest : \A j \in longest : i <= j].id
      ELSE IF rows # {}
        THEN logs[CHOOSE i \in rows : \A j \in rows : i <= j].trace
      ELSE NoTrace

(* ContextGatherer.gather.  lost holds the families whose gathering raised;*)
(* sources_ok is false for the family and for its backend.                 *)
Gather(world, features) ==
  LET metrics == GatherMetrics(world, features)
      logs    == GatherLogs(world)
      visited == GatherTraces(world)
      traces  == visited.traces
      events  == FirstAnswer(<<GatherEvents(world), EventsFromLogs(logs)>>)
  IN  [instant |-> metrics.instant, ranged |-> metrics.ranged,
       listed |-> metrics.listed,
       logs |-> logs, traces |-> traces, events |-> events,
       primary |-> SelectPrimaryTraceId(traces, logs),
       lost |-> (IF metrics.listed THEN {} ELSE {"metrics"})
                  \cup (IF visited.lost THEN {"traces"} ELSE {})]

(* What build falls back to when context is not gathered, or gather fails. *)
FeaturesOnly(features) ==
  [instant |-> features, ranged |-> {}, listed |-> FALSE, logs |-> <<>>,
   traces |-> <<>>, events |-> <<>>, primary |-> NoTrace, lost |-> {}]

-----------------------------------------------------------------------------
(* compute_context_completeness: what counts as missing is strict about    *)
(* the metrics; the penalties are content with one value or a history that *)
(* is listed, even of no points.                                           *)
HasTraceId(signals) ==
  \/ signals.primary # NoTrace
  \/ signals.traces # <<>>
  \/ \E i \in DOMAIN signals.logs : signals.logs[i].trace # NoTrace

SufficientMetrics(signals) ==
  \/ Cardinality(signals.instant) >= 2
  \/ signals.instant # {} /\ signals.ranged \cap {"error", "rate", "p95"} # {}

Missing(signals) ==
  {item \in {"sufficient_metrics", "trace_id", "related_logs",
             "events_or_change"} :
     CASE item = "sufficient_metrics" -> ~SufficientMetrics(signals)
       [] item = "trace_id"           -> ~HasTraceId(signals)
       [] item = "related_logs"       -> signals.logs = <<>>
       [] OTHER                       -> signals.events = <<>>}

-----------------------------------------------------------------------------
(* What a family is worth when its source was lost.                        *)
Damped(signals, family, percent, worth) ==
  IF family \in signals.lost THEN (percent * worth) \div 100 ELSE worth

QualityMetrics(signals, finding) ==
  LET present  == Cardinality(signals.instant)
      coverage == Damped(signals, "metrics", 40,
                         Greatest((Whole * present) \div 3,
                                  IF finding.anomaly THEN 3500 ELSE 0))
      strength == Greatest(IF finding.anomaly THEN 1500 ELSE 0,
                           Strength(finding.score))
  IN  IF present = 0 /\ ~finding.anomaly
        THEN 0
        ELSE Least(Whole, (55 * coverage + 45 * strength) \div 100)

(* Mutant: the early return for an empty answer is missing, and no trace   *)
(* that is not an error counts as every trace being one.                   *)
QualityTracesMutant(signals) ==
  LET n == Len(signals.traces)
      plain == CountOf(signals.traces, LAMBDA t : t.mode # "error" /\ t.ms <= 500)
  IN  (IF signals.primary # NoTrace THEN 3500 ELSE 0)
        + 800 * Least(5, n) + (IF plain = 0 THEN 2500 ELSE 0)

QualityTraces(signals) ==
  LET n == Len(signals.traces)
      errorish == CountOf(signals.traces,
                          LAMBDA t : t.mode = "error" \/ t.ms > 500)
  IN  Damped(signals, "traces", 30,
             (IF signals.primary # NoTrace THEN 3500 ELSE 0)
               + 800 * Least(5, n)
               + (IF n = 0 THEN 0 ELSE (2500 * errorish) \div n))

QualityLogs(signals) ==
  LET n == Len(signals.logs)
      traced == CountOf(signals.logs, LAMBDA r : r.trace # NoTrace)
  IN  IF n = 0 THEN 0
      ELSE Damped(signals, "logs", 30, 550 * Least(10, n) + (4500 * traced) \div n)

QualityEvents(signals) ==
  LET n == Len(signals.events)
      high == CountOf(signals.events, LAMBDA e : e.change = "high")
  IN  IF n = 0 THEN 0 ELSE 5000 + (5000 * Least(3, n + high)) \div 3

(* _algorithm_bonus: at most 15 points, most of them for agreement.        *)
AlgorithmBonus(finding) ==
  LET consensus == Least(800, 300 * (Greatest(1, finding.methods) - 1))
      magnitude == Least(700, 120 * finding.score)
  IN  IF finding.anomaly THEN Least(1500, consensus + magnitude \div 2) ELSE 0

(* Mutant: a missing trace is forgiven when the metrics are complete.      *)
PenaltyMutant(reason, signals, finding) ==
  CASE reason = "insufficient_metrics" ->
         IF signals.instant = {} \/ QualityMetrics(signals, finding) < 2000
           THEN Percent(25) ELSE 0
    [] reason = "missing_trace_id" ->
         IF ~HasTraceId(signals) /\ ~SufficientMetrics(signals)
           THEN Percent(15) ELSE 0
    [] reason = "missing_related_logs" ->
         IF QualityLogs(signals) < 500 /\ signals.logs # <<>>
           THEN Percent(10) ELSE 0
    [] OTHER -> 0

(* _penalties.  A lost source is counted twice, as family and as backend;  *)
(* one that was down or whose queries failed is not counted.               *)
Penalty(reason, signals, finding) ==
  CASE reason = "insufficient_metrics" ->
         IF \/ signals.instant = {} /\ ~signals.listed
            \/ QualityMetrics(signals, finding) < 2000
           THEN Percent(25) ELSE 0
    [] reason = "missing_trace_id" ->
         IF HasTraceId(signals) THEN 0
         ELSE IF finding.metric \in {"p95", "p99", "error"} THEN 1875
         ELSE Percent(15)
    [] reason = "missing_related_logs" ->
         IF QualityLogs(signals) < 500 THEN Percent(10) ELSE 0
    [] reason = "missing_change_events" ->
         IF /\ signals.events = <<>>
            /\ QualityTraces(signals) < 2000 /\ QualityLogs(signals) < 2000
           THEN Percent(5) ELSE 0
    [] reason = "source_down" -> 2 * Percent(8) * Cardinality(signals.lost)

Penalties(signals, finding) ==
  Penalty("insufficient_metrics", signals, finding)
    + Penalty("missing_trace_id", signals, finding)
    + Penalty("missing_related_logs", signals, finding)
    + Penalty("missing_change_events", signals, finding)
    + Penalty("source_down", signals, finding)

(* ConfidenceScorer.score, in 1/100 of a point: 0..10000.                  *)
Score(signals, finding) ==
  LET earned == (Weight["metrics"] * QualityMetrics(signals, finding)
                  + Weight["traces"] * QualityTraces(signals)
                  + Weight["logs"] * QualityLogs(signals)
                  + Weight["events"] * QualityEvents(signals)) \div 100
                + AlgorithmBonus(finding)
  IN  Greatest(0, Least(Whole, earned - Penalties(signals, finding)))

-----------------------------------------------------------------------------
Severities == <<"low", "medium", "high", "critical">>

(* _severity_from_score, as an index into Severities.                      *)
SeverityFromScore(finding, confidence) ==
  LET base == CASE finding.manual \/ finding.score >= 5 ->
                     IF finding.score >= 8 THEN 4 ELSE 3
                [] 2 * finding.score >= 3 * SeverityThreshold -> 3
                [] finding.score >= SeverityThreshold -> 2
                [] OTHER -> 1
  IN  CASE confidence < Percent(40) /\ base >= 3 -> 2
        [] confidence >= Percent(70) /\ base = 2 -> 3
        [] OTHER -> base

(* _trim_signals: what of the context travels with the anomaly.            *)
TrimSignals(signals) ==
  [signals EXCEPT !.logs = FirstOf(@, 10), !.traces = FirstOf(@, 8),
                  !.events = FirstOf(@, 8)]

(* DecisionBuilder.build and to_anomaly_event.                             *)
Build(finding, signals) ==
  LET confidence == Score(signals, finding)
  IN  [confidence |-> confidence,
       severity   |-> SeverityFromScore(finding, confidence),
       missing    |-> Missing(signals),
       signals    |-> TrimSignals(signals)]
=============================================================================
