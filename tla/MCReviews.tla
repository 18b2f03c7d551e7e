----------------------------- MODULE MCReviews -----------------------------
(* Two reviews of one severe incident the engine was sure of, on top of    *)
(* none or of two older ones that Engine QA wrote twice.                   *)
EXTENDS Reviews

Blank == [anomaly |-> "skip", confidence |-> "skip", rca |-> "skip",
          decision |-> "skip", hallucinated |-> "skip", action |-> "skip",
          expected |-> Unknown, comment |-> FALSE, correction |-> FALSE]

MCBodies ==
  {[Blank EXCEPT !.anomaly = "up", !.rca = "up", !.action = "up"],
   [Blank EXCEPT !.anomaly = "down", !.confidence = "down", !.expected = 40],
   [Blank EXCEPT !.rca = "down", !.correction = TRUE, !.decision = "down"],
   [Blank EXCEPT !.confidence = "down", !.expected = 95],
   [Blank EXCEPT !.correction = TRUE]}

MCPipeline == [i \in Incidents |->
  [severe |-> TRUE, engine |-> 80, iterations |-> 3, handedOff |-> TRUE]]

OldReview(id, vote) ==
  [id |-> id, incident |-> "old", anomaly |-> vote, confidence |-> "skip",
   rca |-> vote, decision |-> "up", hallucinated |-> "skip", correction |-> vote = "down",
   expected |-> Unknown, severe |-> FALSE, engine |-> 75, iterations |-> 1,
   handedOff |-> FALSE]
OldFeedback(id, vote) ==
  [id |-> id, incident |-> "old", anomaly |-> vote, rca |-> vote, action |-> "skip"]
Older(vote) ==
  [s \in Services |-> IF s = "qa" THEN {OldReview(id, vote) : id \in {-1, -2}}
                                  ELSE {OldFeedback(id, vote) : id \in {-1, -2}}]
MCDatabases == {[s \in Services |-> {}], Older("up"), Older("down")}

MCKnobs == [z |-> 250, err |-> 150, high |-> 85, medium |-> 60,
            weights |-> [metrics |-> 40, traces |-> 30, logs |-> 20, events |-> 10]]
=============================================================================
