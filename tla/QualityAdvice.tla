--------------------------- MODULE QualityAdvice ---------------------------
(***************************************************************************)
(* QualityAdvice: what the two review services make of the reviews they    *)
(* hold: the statistics and the threshold hint of the feedback collector,  *)
(* the quality metrics and the tuning advice of Engine QA.                 *)
(*                                                                         *)
(* A review is a record of votes and snapshots.  Rates are in 1/10000,     *)
(* which is the four places the code rounds to; confidences and bands are  *)
(* whole points, the z threshold is in 1/100 and the error rate in 1/1000. *)
(***************************************************************************)
EXTENDS Integers, FiniteSets

LOCAL INSTANCE FiniteSetsExt

CONSTANTS MinSamples,         \* min_samples_for_tuning, of both services
          FpWarn, HallucinationWarn, DecisionWarn,      \* in 1/10000
          Knobs               \* the settings in force: z, err, high, medium, weights

Votes    == {"skip", "up", "down"}
Unknown  == -1                \* None, where a number is optional
Families == {"metrics", "traces", "logs", "events"}

ASSUME QualityAssumption ==
  /\ {MinSamples, FpWarn, HallucinationWarn, DecisionWarn} \subseteq Nat \ {0}
  /\ {Knobs.z, Knobs.err, Knobs.high, Knobs.medium} \subseteq Nat
  /\ Knobs.weights \in [Families -> Nat]

Least(a, b)    == IF a <= b THEN a ELSE b
Greatest(a, b) == IF a >= b THEN a ELSE b

Whole == 10000                \* 1.0

(* a / b to four places, and 0 where the code keeps the default.           *)
Rate(a, b) == IF b = 0 THEN 0 ELSE (2 * Whole * a + b) \div (2 * b)

Cast(rows, aspect)        == {r \in rows : r[aspect] # "skip"}
Tally(rows, aspect, vote) == Cardinality({r \in rows : r[aspect] = vote})
UpRate(rows, aspect) ==
  Rate(Tally(rows, aspect, "up"), Cardinality(Cast(rows, aspect)))

-----------------------------------------------------------------------------
(* compute_stats of the collector.                                         *)
FeedbackStats(rows) ==
  LET thumbs(vote) == Tally(rows, "anomaly", vote) + Tally(rows, "rca", vote)
                        + Tally(rows, "action", vote)
  IN  [total          |-> Cardinality(rows),
       anomalyVotes   |-> Cardinality(Cast(rows, "anomaly")),
       falsePositives |-> Tally(rows, "anomaly", "down"),
       positive       |-> Rate(thumbs("up"), thumbs("up") + thumbs("down")),
       precision      |-> UpRate(rows, "anomaly"),
       rca            |-> UpRate(rows, "rca"),
       action         |-> UpRate(rows, "action")]

Raised  == [z |-> Least(500, Knobs.z + 50), err |-> Least(500, Knobs.err + 50)]
Lowered(err) == [z |-> Greatest(150, Knobs.z - 25), err |-> err]
Kept    == [z |-> Unknown, err |-> Unknown]

(* suggest_threshold_adjustments: nothing is said of fewer than MinSamples *)
(* anomaly votes.  The rate of false positives is not rounded here, where  *)
(* the one of Engine QA is.  A mild decrease keeps the error rate as it is.*)
TooNoisy(s) == Whole * s.falsePositives >= FpWarn * s.anomalyVotes
VeryClean(s) == Whole * s.falsePositives <= 500 * s.anomalyVotes /\ s.precision >= 9000

FeedbackAdvice(rows) ==
  LET s == FeedbackStats(rows)
  IN  IF s.anomalyVotes < MinSamples THEN Kept
      ELSE IF TooNoisy(s) THEN Raised
      ELSE IF VeryClean(s) THEN Lowered(Knobs.err)
      ELSE Kept

-----------------------------------------------------------------------------
(* A correction without a useful RCA counts as a hallucination.            *)
IsHallucination(r) ==
  r.hallucinated = "up" \/ (r.rca = "down" /\ r.correction)

Mean(rows, Value(_)) == Rate(MapThenSumSet(Value, rows), Cardinality(rows))

Distance(a, b) == IF a >= b THEN a - b ELSE b - a

(* The blended score: each kind of vote that was cast, with its weight.    *)
Health(q) ==
  LET weight(votes, percent) == IF votes = 0 THEN 0 ELSE percent
      anomaly    == weight(q.anomalyVotes, 35)
      confidence == weight(q.confidenceVotes, 15)
      rca        == weight(q.rcaVotes, 25)
      decision   == weight(q.decisionVotes, 25)
      total      == anomaly + confidence + rca + decision
  IN  IF total = 0 THEN 0
      ELSE (anomaly * q.precision + confidence * q.reasonable
             + rca * Greatest(0, q.rcaUseful - q.hallucinations \div 2)
             + decision * q.decisionRight) \div total

(* compute_quality.  Recall falls back to precision without a vote on an   *)
(* incident of high severity; the hallucination rate is of the larger of   *)
(* the RCA votes and the explicit answers.                                 *)
Quality(rows) ==
  LET voted     == Cast(rows, "anomaly")
      severe    == {r \in voted : r.severe}
      scored    == {r \in rows : r.engine # Unknown}
      expecting == {r \in rows : r.expected # Unknown}
      compared  == scored \cap expecting
      looped    == {r \in rows : r.iterations # Unknown}
      invented  == Cardinality({r \in rows : IsHallucination(r)})
      explicit  == Greatest(Cardinality(Cast(rows, "rca")),
                            Cardinality(Cast(rows, "hallucinated")))
  IN  [total           |-> Cardinality(rows),
       anomalyVotes    |-> Cardinality(voted),
       precision       |-> UpRate(rows, "anomaly"),
       fpRate          |-> Rate(Tally(rows, "anomaly", "down"), Cardinality(voted)),
       recall          |-> IF severe # {} THEN UpRate(severe, "anomaly")
                                          ELSE UpRate(rows, "anomaly"),
       confidenceVotes |-> Cardinality(Cast(rows, "confidence")),
       reasonable      |-> UpRate(rows, "confidence"),
       meanEngine      |-> Mean(scored, LAMBDA r : r.engine),
       meanExpected    |-> Mean(expecting, LAMBDA r : r.expected),
       meanError       |-> Mean(compared, LAMBDA r : Distance(r.engine, r.expected)),
       overconfident   |-> Cardinality({r \in scored : r.anomaly = "down"
                                                         /\ r.engine >= 70}),
       rcaVotes        |-> Cardinality(Cast(rows, "rca")),
       rcaUseful       |-> UpRate(rows, "rca"),
       hallucinations  |-> Rate(invented, IF explicit = 0 THEN invented ELSE explicit),
       decisionVotes   |-> Cardinality(Cast(rows, "decision")),
       decisionRight   |-> UpRate(rows, "decision"),
       meanIterations  |-> Mean(looped, LAMBDA r : r.iterations),
       handoffs        |-> Cardinality({r \in rows : r.handedOff})]

-----------------------------------------------------------------------------
SumOfWeights(w) == w["metrics"] + w["traces"] + w["logs"] + w["events"]

(* A slip: weights that add up to something else are left as they are.     *)
NormalizedMutant(w) == w

(* _normalize: the four weights as shares of the whole.                    *)
Normalized(w) ==
  LET total == SumOfWeights(w)
  IN  IF total = 0
      THEN [f \in Families |-> CASE f = "metrics" -> 4000 [] f = "traces" -> 3000
                                 [] f = "logs" -> 2000 [] OTHER -> 1000]
      ELSE [f \in Families |-> Rate(w[f], total)]

NoisyDetector(q) == q.anomalyVotes > 0 /\ q.fpRate >= FpWarn
Overconfident(q) == q.overconfident >= Greatest(2, q.total \div 5)
Miscalibrated(q) == /\ q.confidenceVotes >= MinSamples
                    /\ q.reasonable < 6000
                    /\ q.meanError >= 15 * Whole
Overshooting(q)  == q.meanEngine > q.meanExpected + 10 * Whole
Inventing(q)     == q.rcaVotes >= 3 /\ q.hallucinations >= HallucinationWarn
Misrouting(q)    == /\ q.decisionVotes >= MinSamples
                    /\ Whole - q.decisionRight >= DecisionWarn

(* The weights after the sections on overconfidence and on calibration.    *)
Rebalanced(q, w) ==
  IF ~Overconfident(q) THEN w
  ELSE [w EXCEPT !["metrics"] = Greatest(2500, @ - 500),
                 !["traces"]  = Least(4000, @ + 300),
                 !["logs"]    = Least(3000, @ + 200)]

Calibrated(q, w) ==
  CASE ~Miscalibrated(q) -> w
    [] Miscalibrated(q) /\ Overshooting(q) ->
         [w EXCEPT !["events"] = Greatest(500, @ - 200), !["traces"] = Least(4000, @ + 200)]
    [] OTHER -> [w EXCEPT !["metrics"] = Least(5000, @ + 300)]

(* suggest_tuning.  The samples counted are all the reviews, whatever they *)
(* vote on; the mild decrease needs that no section had anything to say,   *)
(* and suggests no error rate.                                             *)
EngineAdvice(rows) ==
  LET q       == Quality(rows)
      actions == {s \in {"thresholds", "weights", "calibrate", "llm", "bands"} :
                    CASE s = "thresholds" -> NoisyDetector(q)
                      [] s = "weights"    -> Overconfident(q)
                      [] s = "calibrate"  -> Miscalibrated(q)
                      [] s = "llm"        -> Inventing(q)
                      [] OTHER            -> Misrouting(q)}
      current == Normalized(Knobs.weights)
      advised == Normalized(Calibrated(q, Rebalanced(q, current)))
      noisy   == IF NoisyDetector(q) THEN Least(75, Knobs.medium + 5) ELSE Unknown
      silent  == [thresholds |-> Kept, medium |-> Unknown, high |-> Unknown,
                  weights |-> current]
  IN  CASE q.total < MinSamples -> silent
        [] q.total >= MinSamples /\ actions = {} ->
             [silent EXCEPT !.thresholds =
                IF q.fpRate <= 500 /\ q.precision >= 9000 THEN Lowered(Unknown) ELSE Kept]
        [] OTHER ->
             [thresholds |-> IF NoisyDetector(q) THEN Raised ELSE Kept,
              medium     |-> IF ~Inventing(q) THEN noisy
                             ELSE Greatest(IF noisy = Unknown THEN Knobs.medium ELSE noisy,
                                           Least(80, Knobs.medium + 5)),
              high       |-> IF Overconfident(q) THEN Least(95, Knobs.high + 5) ELSE Unknown,
              weights    |-> advised]
=============================================================================
