------------------------- MODULE MCIncidentManager --------------------------
(* Checkout calls payment.  a1 and a3 are of one series; a2 is a neighbour *)
(* of the same family under another name, and only the keywords say so.  *)
(* a4 is on that neighbour too, of another family.                         *)
EXTENDS IncidentManager, TLC

CONSTANTS a1, a2, a3, a4, checkout, payment

MCFourAnomalies == {a1, a2, a3, a4}

MCTwoAnomalies == {a1, a2}

MCMixedAnomalies == {a1, a4}

MCServices == {checkout, payment}

MCServiceOf ==
  [a \in Anomalies |-> IF a \in {a2, a4} THEN payment ELSE checkout]

MCMetricOf ==
  [a \in Anomalies |-> IF a = a2 THEN "charge_failures"
                        ELSE IF a = a4 THEN "p95_latency"
                        ELSE "http_error_rate"]

MCWords == "http_error_rate" :> {"error", "rate"}
           @@ "charge_failures" :> {"failure"}
           @@ "p95_latency" :> {"latency"}

MCMetrics == {MCMetricOf[a] : a \in Anomalies}

MCCritical == {a2} \cap Anomalies

(* The RCA engine starts investigating, an operator resolves.              *)
MCPatches == {[status |-> "investigating", cause |-> TRUE],
              [status |-> "resolved", cause |-> FALSE]}

MCResolve == {p \in MCPatches : p.status = "resolved"}

MCDependsOn == checkout :> {payment} @@ payment :> {}
=============================================================================
