------------------------------- MODULE Reviews -------------------------------
(***************************************************************************)
(* Reviews: an on-call engineer judges an incident in the feedback         *)
(* collector or in Engine QA.  Each service keeps the reviews in its own   *)
(* database and exports gauges computed from them; Engine QA writes every  *)
(* review a second time, to the collector, and the collector closes the    *)
(* ticket.  The handlers run in threads, so the steps of two reviews       *)
(* interleave; every call to another service may fail and is let go; both  *)
(* processes may die and start again from their database.  What is         *)
(* published is a function of the reviews counted (FeedbackStats, Quality, *)
(* Health): the gauges and the statistics a handler holds are kept here as *)
(* those reviews.                                                          *)
(***************************************************************************)
EXTENDS QualityAdvice

CONSTANTS Incidents,
          Bodies,             \* the reviews somebody may send
          Pipeline,           \* [Incidents -> severity, confidence, loop, handed off]
          Databases,          \* what the two databases may hold at the start
          MaxReviews,         \* reviews sent: bounds the run
          MaxFaults           \* failed calls and crashes: bounds the run

Ids      == 1..MaxReviews
Services == {"feedback", "qa"}
Statuses == {"investigating", "resolved", "false_positive"}
Handling == {"accepted", "stored", "computed", "recorded", "patched"}

ASSUME ReviewsAssumption ==
  /\ MaxReviews \in Nat /\ MaxFaults \in Nat
  /\ \A b \in Bodies : {b.anomaly, b.rca, b.action} \subseteq Votes
  /\ \A db \in Databases :
       /\ DOMAIN db = Services
       /\ \A s \in Services :
            /\ IsFiniteSet(db[s])
            /\ \A row \in db[s] : row.id \notin Ids /\ row.anomaly \in Votes

VARIABLES rows,      \* service -> the reviews in its database
          gauges,    \* service -> the reviews its gauges count
          request,   \* id -> the review sent and where to
          at,        \* service -> id -> where the handler of that service is
          computed,  \* service -> id -> the reviews a handler has counted
          ticket,    \* incident -> its status and its human feedback
          faults

vars == <<rows, gauges, request, at, computed, ticket, faults>>

Nothing == [none |-> TRUE]   \* no request
Nobody  == 0                 \* human_feedback that nobody wrote

(* A review without a vote is refused unless it says something; a lone     *)
(* correction says something to Engine QA only.                            *)
Empty(s, b) ==
  /\ b.anomaly = "skip" /\ b.rca = "skip" /\ ~b.comment
  /\ \/ s = "feedback" /\ b.action = "skip"
     \/ /\ s = "qa" /\ ~b.correction
        /\ b.confidence = "skip" /\ b.decision = "skip" /\ b.hallucinated = "skip"

(* A slip: a vote on the anomaly alone is not worth a second write.        *)
WorthPushingMutant(b) ==
  b.rca # "skip" \/ b.comment \/ b.correction

(* The second write carries the votes on the anomaly and on the RCA, the   *)
(* comment and the correction, and never a vote on the action.             *)
WorthPushing(b) ==
  b.anomaly # "skip" \/ b.rca # "skip" \/ b.comment \/ b.correction

FeedbackRow(id) ==
  LET r == request[id]
  IN  [id |-> id, incident |-> r.incident, anomaly |-> r.body.anomaly,
       rca |-> r.body.rca,
       action |-> IF r.service = "qa" THEN "skip" ELSE r.body.action]

(* The snapshot in a row of Engine QA: the severity comes from the         *)
(* incident, the rest also from the list of decisions; what neither gives  *)
(* stays unknown.                                                          *)
ReviewRow(id, unreachable) ==
  LET r     == request[id]
      b     == r.body
      known == Pipeline[r.incident]
      blind == {"incident", "decisions"} \subseteq unreachable
  IN  [id |-> id, incident |-> r.incident,
       anomaly |-> b.anomaly, confidence |-> b.confidence, rca |-> b.rca,
       decision |-> b.decision, hallucinated |-> b.hallucinated,
       correction |-> b.correction, expected |-> b.expected,
       severe     |-> "incident" \notin unreachable /\ known.severe,
       engine     |-> IF blind THEN Unknown ELSE known.engine,
       iterations |-> IF blind THEN Unknown ELSE known.iterations,
       handedOff  |-> ~blind /\ known.handedOff]

Verdict(row) == IF row.anomaly = "down" THEN "false_positive" ELSE "resolved"

-----------------------------------------------------------------------------
Init ==
  /\ rows \in Databases
  /\ gauges   = rows
  /\ request  = [id \in Ids |-> Nothing]
  /\ at       = [s \in Services |-> [id \in Ids |-> "idle"]]
  /\ computed = [s \in Services |-> [id \in Ids |-> {}]]
  /\ ticket   = [i \in Incidents |-> [status |-> "investigating", feedback |-> Nobody]]
  /\ faults   = 0

Goto(s, id, where) == at' = [at EXCEPT ![s][id] = where]

Fail(n) == faults + n <= MaxFaults /\ faults' = faults + n

(* POST /feedback and POST /qa/reviews; ids are given in the order sent.   *)
Send(s, id, i, b) ==
  /\ request[id] = Nothing
  /\ \A earlier \in 1..(id - 1) : request[earlier] # Nothing
  /\ request' = [request EXCEPT ![id] = [service |-> s, incident |-> i, body |-> b]]
  /\ Goto(s, id, IF Empty(s, b) THEN "refused" ELSE "accepted")
  /\ UNCHANGED <<rows, gauges, computed, ticket, faults>>

(* A slip: a database that another handler holds is let go like a call.    *)
StoreFeedbackMutant(id) ==
  /\ at["feedback"][id] = "accepted"
  /\ rows' = IF \E other \in Ids : at["feedback"][other] = "stored" THEN rows
             ELSE [rows EXCEPT !["feedback"] = @ \cup {FeedbackRow(id)}]
  /\ Goto("feedback", id, "stored")
  /\ UNCHANGED <<gauges, request, computed, ticket, faults>>

(* The incident is fetched and the row inserted.                           *)
StoreFeedback(id) ==
  /\ at["feedback"][id] = "accepted"
  /\ rows' = [rows EXCEPT !["feedback"] = @ \cup {FeedbackRow(id)}]
  /\ Goto("feedback", id, "stored")
  /\ UNCHANGED <<gauges, request, computed, ticket, faults>>

StoreReview(id, unreachable) ==
  /\ at["qa"][id] = "accepted"
  /\ Fail(Cardinality(unreachable))
  /\ rows' = [rows EXCEPT !["qa"] = @ \cup {ReviewRow(id, unreachable)}]
  /\ Goto("qa", id, "stored")
  /\ UNCHANGED <<gauges, request, computed, ticket>>

(* compute_stats, and quality, which sets the gauges on its way.           *)
Compute(s, id) ==
  /\ at[s][id] = "stored"
  /\ computed' = [computed EXCEPT ![s][id] = rows[s]]
  /\ gauges' = IF s = "qa" THEN [gauges EXCEPT ![s] = rows[s]] ELSE gauges
  /\ Goto(s, id, "computed")
  /\ UNCHANGED <<rows, request, ticket, faults>>

(* record_submission and record_review: the gauges are set from what was   *)
(* computed before, whatever was stored since.                             *)
Record(s, id) ==
  /\ at[s][id] = "computed"
  /\ gauges' = [gauges EXCEPT ![s] = computed[s][id]]
  /\ computed' = [computed EXCEPT ![s][id] = {}]
  /\ Goto(s, id, "recorded")
  /\ UNCHANGED <<rows, request, ticket, faults>>

(* The collector writes the feedback and closes the ticket.                *)
CloseTicket(id) ==
  LET row == FeedbackRow(id)
  IN  /\ at["feedback"][id] = "recorded"
      /\ ticket' = [ticket EXCEPT ![row.incident] =
                      [status |-> Verdict(row), feedback |-> id]]
      /\ Goto("feedback", id, "done")
      /\ UNCHANGED <<rows, gauges, request, computed, faults>>

(* Engine QA writes the feedback only.                                     *)
NoteReview(id) ==
  /\ at["qa"][id] = "recorded"
  /\ ticket' = [ticket EXCEPT ![request[id].incident].feedback = id]
  /\ Goto("qa", id, "patched")
  /\ UNCHANGED <<rows, gauges, request, computed, faults>>

(* The PATCH of either fails, which is logged.                             *)
PatchFails(s, id) ==
  /\ at[s][id] = "recorded"
  /\ Fail(1)
  /\ Goto(s, id, IF s = "qa" THEN "patched" ELSE "done")
  /\ UNCHANGED <<rows, gauges, request, computed, ticket>>

(* push_feedback_collector: nobody looks at the answer, so a call whose    *)
(* answer is lost or late is a call that arrived.                          *)
Push(id) ==
  /\ at["qa"][id] = "patched"
  /\ at' = [at EXCEPT !["qa"][id] = "done",
                      !["feedback"][id] =
                        IF WorthPushing(request[id].body) THEN "accepted" ELSE @]
  /\ UNCHANGED <<rows, gauges, request, computed, ticket, faults>>

PushFails(id) ==
  /\ at["qa"][id] = "patched"
  /\ WorthPushing(request[id].body)
  /\ Fail(1)
  /\ Goto("qa", id, "done")
  /\ UNCHANGED <<rows, gauges, request, computed, ticket>>

(* A slip: the scrape renders the gauges as they are.                      *)
ScrapeMutant(s) ==
  UNCHANGED <<rows, gauges, request, at, computed, ticket, faults>>

(* GET /metrics refreshes the gauges before it renders them.               *)
Scrape(s) ==
  /\ gauges' = [gauges EXCEPT ![s] = rows[s]]
  /\ UNCHANGED <<rows, request, at, computed, ticket, faults>>

(* A service dies with its handlers and starts from its database.          *)
Restart(s) ==
  /\ \E id \in Ids : at[s][id] \in Handling
  /\ Fail(1)
  /\ at' = [at EXCEPT ![s] =
              [id \in Ids |-> IF @[id] \in Handling THEN "killed" ELSE @[id]]]
  /\ computed' = [computed EXCEPT ![s] = [id \in Ids |-> {}]]
  /\ gauges' = [gauges EXCEPT ![s] = rows[s]]
  /\ UNCHANGED <<rows, request, ticket>>

Handle(s, id) ==
  \/ s = "feedback" /\ (StoreFeedback(id) \/ CloseTicket(id))
  \/ s = "qa" /\ \/ \E u \in SUBSET {"incident", "decisions"} : StoreReview(id, u)
                 \/ NoteReview(id) \/ Push(id) \/ PushFails(id)
  \/ Compute(s, id)
  \/ Record(s, id)
  \/ PatchFails(s, id)

Next ==
  \/ \E s \in Services, id \in Ids, i \in Incidents, b \in Bodies : Send(s, id, i, b)
  \/ \E s \in Services, id \in Ids : Handle(s, id)
  \/ \E s \in Services : Scrape(s) \/ Restart(s)

(* A handler ends because each of its calls has a timeout; Prometheus      *)
(* scrapes on a schedule.                                                  *)
Fairness ==
  /\ \A s \in Services : WF_vars(Scrape(s))
  /\ \A s \in Services, id \in Ids : WF_vars(Handle(s, id))

Spec == Init /\ [][Next]_vars /\ Fairness

-----------------------------------------------------------------------------
(* What a ticket says of a review is on record: a ticket closed by         *)
(* feedback (apply_feedback) has a review in the collector's database with *)
(* that verdict on that incident, whatever failed or was killed.           *)
ClosedByAStoredVote ==
  \A i \in Incidents :
    ticket[i].status # "investigating" =>
      \E row \in rows["feedback"] :
        row.incident = i /\ Verdict(row) = ticket[i].status

Quiet == \A s \in Services, id \in Ids : at[s][id] \notin Handling

OnlyThroughEngineQA ==
  \A id \in Ids : request[id] = Nothing \/ request[id].service = "qa"

(* The double write keeps the advisors of one mind: when every review came *)
(* through Engine QA and nothing failed, Engine QA never advises to lower  *)
(* what the collector advises to raise, nor to raise what the collector    *)
(* would lower (push_feedback_collector, and the two tuning modules).      *)
AdvisorsAgree ==
  Quiet /\ faults = 0 /\ OnlyThroughEngineQA =>
    LET collector == FeedbackAdvice(rows["feedback"])
        engine    == EngineAdvice(rows["qa"]).thresholds
    IN  /\ collector = Raised  => engine = Raised
        /\ collector = Lowered(Knobs.err) => engine # Raised

(* What Engine QA says is usable as it stands: the blended health is a     *)
(* rate although the hallucination rate in it may exceed one, the weights  *)
(* advised are shares of one, and the medium band stays below the high one *)
(* (compute_quality, suggest_tuning, _normalize).                          *)
AdviceKeepsItsScale ==
  LET a      == EngineAdvice(rows["qa"])
      medium == IF a.medium = Unknown THEN Knobs.medium ELSE a.medium
      high   == IF a.high = Unknown THEN Knobs.high ELSE a.high
  IN  /\ Health(Quality(rows["qa"])) \in 0..Whole
      /\ Distance(Whole, SumOfWeights(a.weights)) <= 2
      /\ medium < high

(* Two handlers may publish out of order, and the older statistics win;    *)
(* the gauges are right again in the end, because a scrape recomputes      *)
(* them (GET /metrics).                                                    *)
GaugesSettle == <>[](\A s \in Services : gauges[s] = rows[s])

(* "Do not raise thresholds on thin data" (engine-qa/app/tuning.py): to    *)
(* raise them takes as many votes on the anomaly as a sample needs.  The   *)
(* code counts every review, those that skip the anomaly too.              *)
RaisedOnEnoughVotes ==
  EngineAdvice(rows["qa"]).thresholds = Raised =>
    Cardinality(Cast(rows["qa"], "anomaly")) >= MinSamples
=============================================================================
