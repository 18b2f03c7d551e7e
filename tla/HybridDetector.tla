--------------------------- MODULE HybridDetector ---------------------------
(***************************************************************************)
(* HybridDetector: how one scrape of a service is judged, and what is      *)
(* learned from it.  Samples are integers.  The rolling z-score is exact.  *)
(* What EWMA, STL and the isolation forest say of a sample is an input,    *)
(* `opinion`, as far as their guards let them speak at all.                *)
(*                                                                         *)
(* Scrapes are functions from the metrics Prometheus had a value for; a    *)
(* result is a function from the methods that spoke to their verdicts.     *)
(***************************************************************************)
EXTENDS Integers, Sequences, FiniteSets

LOCAL INSTANCE SequencesExt

CONSTANTS WindowSize,        \* window_size
          MinSamples,        \* min_samples
          ZScoreThreshold,   \* zscore_threshold, at most 10
          StlPeriod,         \* stl_period
          HybridVote,        \* hybrid_vote: "any", "majority" or "all"
          ErrorThreshold,    \* error_rate_threshold
          LatencyThreshold   \* latency_p95_seconds_threshold

ASSUME DetectorAssumption ==
  /\ MinSamples \in Nat \ {0} /\ WindowSize \in Nat /\ WindowSize >= MinSamples
  /\ ZScoreThreshold \in 1..10 /\ StlPeriod \in Nat
  /\ HybridVote \in {"any", "majority", "all"}
  /\ ErrorThreshold \in Int /\ LatencyThreshold \in Int

Latencies  == {"p95", "p99"}
Univariate == {"rate", "error"} \cup Latencies
Metrics    == Univariate \cup {"multivariate"}

Methods  == {"zscore", "ewma_zscore", "stl", "isolation_forest",
             "threshold", "api_threshold"}
Opinions == [ewma_zscore : BOOLEAN,
             stl : {"silent", "normal", "anomaly"},
             isolation_forest : {"silent", "normal", "anomaly"}]

-----------------------------------------------------------------------------
(* Mutant: one method that sees nothing outvotes the others.               *)
VoteMutant(flags) == \A m \in DOMAIN flags : flags[m]

(* _recompute_vote: no method, no anomaly.                                 *)
Vote(flags) ==
  LET raised == {m \in DOMAIN flags : flags[m]}
  IN  /\ DOMAIN flags # {}
      /\ CASE HybridVote = "all"      -> raised = DOMAIN flags
           [] HybridVote = "majority" -> 2 * Cardinality(raised)
                                           > Cardinality(DOMAIN flags)
           [] OTHER                   -> raised # {}

-----------------------------------------------------------------------------
SumOf(values) == FoldSeq(LAMBDA x, s : x + s, 0, values)
Squares(values) == FoldSeq(LAMBDA x, s : x * x + s, 0, values)

(* n^2 times the variance of n values.                                     *)
Spread(values) ==
  Len(values) * Squares(values) - SumOf(values) * SumOf(values)

(* rolling_zscore against the threshold.  A flat window has sigma 0: any   *)
(* other value is infinitely far and scores 10.                            *)
FarFromMean(values, x) ==
  LET distance == Len(values) * x - SumOf(values)
  IN  IF Spread(values) = 0
        THEN distance # 0
        ELSE distance * distance
               >= ZScoreThreshold * ZScoreThreshold * Spread(values)

(* SeriesState.update: a deque of at most WindowSize values.               *)
Learn(values, x) ==
  LET longer == Append(values, x)
  IN  SubSeq(longer, 1 + Len(longer) - (IF Len(longer) > WindowSize
                                          THEN WindowSize ELSE Len(longer)),
             Len(longer))

Warm(values) == Len(values) >= MinSamples

(* _score_stl gives an opinion only on two periods of a varying series.    *)
StlSpeaks(values, opinion) ==
  /\ Len(values) + 1 >= MinSamples /\ Len(values) + 1 >= 2 * StlPeriod
  /\ Spread(values) # 0
  /\ opinion.stl # "silent"

(* Mutant: the sample is learned before it is scored.                      *)
JudgeSampleMutant(values, x, opinion) ==
  LET known == Learn(values, x)
  IN  [m \in (IF Warm(known) THEN {"zscore"} ELSE {}) |-> FarFromMean(known, x)]

(* _score_univariate, up to the learning.  On a flat window the EWMA       *)
(* equals the mean unless older values linger in it, so its verdict is an  *)
(* input like the others.                                                  *)
JudgeSample(values, x, opinion) ==
  [m \in (IF Warm(values) THEN {"zscore", "ewma_zscore"} ELSE {})
           \cup (IF StlSpeaks(values, opinion) THEN {"stl"} ELSE {}) |->
     CASE m = "zscore"      -> FarFromMean(values, x)
       [] m = "ewma_zscore" -> opinion.ewma_zscore
       [] OTHER             -> opinion.stl = "anomaly"]

With(flags, method, verdict) ==
  [m \in DOMAIN flags \cup {method} |->
     IF m = method THEN verdict ELSE flags[m]]

(* The absolute thresholds of evaluate_service: which results they are     *)
(* appended to, and what they say.  The latency threshold judges p99 when  *)
(* there is one, and is appended to p95 and p99 alike.                     *)
HasThreshold(m) == m \in {"error"} \cup Latencies

Breaches(features, m) ==
  IF m = "error"
    THEN features["error"] >= ErrorThreshold
    ELSE features[IF "p99" \in DOMAIN features THEN "p99" ELSE "p95"]
           >= LatencyThreshold

(* _score_multivariate: three features, the latency being p95 if scraped.  *)
HasVector(features) ==
  {"rate", "error"} \subseteq DOMAIN features
  /\ DOMAIN features \cap Latencies # {}

Vector(features) ==
  <<features["rate"], features["error"],
    features[IF "p95" \in DOMAIN features THEN "p95" ELSE "p99"]>>

ForestSpeaks(rows, features, opinion) ==
  HasVector(features) /\ Len(rows) >= MinSamples
    /\ opinion.isolation_forest # "silent"

(* Who said what about each metric of the scrape.                          *)
Evidence(series, rows, features, opinion) ==
  [m \in DOMAIN features
           \cup (IF ForestSpeaks(rows, features, opinion)
                   THEN {"multivariate"} ELSE {}) |->
     IF m = "multivariate"
       THEN [f \in {"isolation_forest"} |-> opinion.isolation_forest = "anomaly"]
       ELSE LET judged == JudgeSample(series[m], features[m], opinion)
            IN  IF HasThreshold(m)
                  THEN With(judged, "threshold", Breaches(features, m))
                  ELSE judged]

(* evaluate_service: the metrics found anomalous, and what is remembered.  *)
EvaluateService(series, rows, features, opinion) ==
  LET evidence == Evidence(series, rows, features, opinion)
  IN  [anomalous |-> {m \in DOMAIN evidence : Vote(evidence[m])},
       series |-> [m \in Univariate |-> IF m \in DOMAIN features
                                          THEN Learn(series[m], features[m])
                                          ELSE series[m]],
       rows |-> IF HasVector(features) THEN Learn(rows, Vector(features))
                                       ELSE rows]

(* force_score: one series, and the threshold the caller sent.             *)
ForceScore(values, x, threshold, opinion) ==
  Vote(With(JudgeSample(values, x, opinion), "api_threshold", x >= threshold))
=============================================================================
