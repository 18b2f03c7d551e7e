-------------------------- MODULE MCDecisionEngine --------------------------
(* Scores on both sides of each threshold; "metrics" is critical, "traces" *)
(* is not.                                                                 *)
EXTENDS DecisionEngine

CONSTANTS metrics, traces, inc

S(score, missing, chaos) ==
  [score |-> score, missing |-> missing, chaos |-> chaos]

MCAnswers ==
  { S(85, {}, TRUE), S(85, {traces}, FALSE), S(60, {traces}, TRUE),
    S(59, {}, FALSE), S(85, {metrics}, TRUE) }

Body(s, metric) ==
  [incident |-> inc, ticket |-> NoIncident, signals |-> s, metric |-> metric,
   force |-> "none", dry |-> FALSE]

MCInputs ==
  {Body(s, "if_chaos") : s \in {S(85, {}, TRUE), S(85, {traces}, FALSE),
                                S(60, {traces}, TRUE)}}
  \cup { Body(S(60, {}, FALSE), "other"), Body(S(85, {metrics}, FALSE), "known"),
         [Body(S(85, {traces}, FALSE), "other") EXCEPT !.dry = TRUE],
         [Body(S(60, {}, FALSE), "other") EXCEPT !.incident = NoIncident,
                                                 !.ticket = inc],
         [Body(S(59, {}, FALSE), "other") EXCEPT !.force = "handoff_exhausted"],
         [Body(S(59, {}, FALSE), "other") EXCEPT !.force = "rca_suggest"] }
=============================================================================
