----------------------------- MODULE MCDiagnosis -----------------------------
(* Up to two rows and two traces around an anomaly; up to one row per      *)
(* service, a slow trace and four rates around an incident of checkout.    *)
EXTENDS Diagnosis, MCShop

MCWeight == [metrics |-> 40, traces |-> 30, logs |-> 20, events |-> 10]

\* 10000 * (1 - exp(-score / 3))
MCStrength(score) ==
  CASE score <= 0 -> 0 [] score = 1 -> 2834 [] score = 2 -> 4865
    [] score = 3 -> 6321 [] score = 5 -> 8111 [] OTHER -> 9502

Finding(score, methods, metric) ==
  [anomaly |-> TRUE, score |-> score, methods |-> methods, metric |-> metric,
   manual |-> FALSE, features |-> {metric}]

MCFindings == {Finding(5, 2, "error"), [Finding(9, 4, "rate") EXCEPT !.manual = TRUE]}

AnomalyRow(trace, found, change) == [trace |-> trace, found |-> found, change |-> change]
MCAnomalyRows == {AnomalyRow("none", {"errors", "all"}, "none"),
                  AnomalyRow("t1", {"errors", "all", "job"}, "none"),
                  AnomalyRow("none", {"all", "changes"}, "high")}
MCAnomalyTraces == {[id |-> "t1", ms |-> 900, error |-> TRUE],
                    [id |-> "t2", ms |-> 100, error |-> FALSE]}

\* one series stands for the queries of the other three
MCBreakable == ({"loki"} \X LogLabels) \cup ({"tempo"} \X SearchModes)
                 \cup ({"instant", "range"} \X {"rate"})

MCRates == {Healthy, [err |-> 30, lat |-> 1], [err |-> 12, lat |-> 8]}
MCRows  == {Row({"timeout"}, TRUE, "nowhere", "none", "none"),
            Row({"pool", "error"}, TRUE, "nowhere", "t2", "none"),
            Row({"cache"}, FALSE, "nowhere", "none", "deploy")}
MCSpans == {SlowTrace}
=============================================================================
