--------------------------- MODULE DecisionEngine ---------------------------
(***************************************************************************)
(* The decision engine: one POST /decide runs a bounded loop over a policy *)
(* table, asks the anomaly detector once for more context, and then        *)
(* proposes a remediation, asks the RCA engine (Bedrock) or escalates.     *)
(*                                                                         *)
(* decide is a synchronous endpoint: each request has a thread, and they   *)
(* share only the services they call.  Every HTTP call is a step; it can   *)
(* fail, or be carried out with its answer lost.  An analysis of the RCA   *)
(* engine whose caller gave up goes on.                                    *)
(*                                                                         *)
(* A PATCH of the ticket is one step here; what it races with inside       *)
(* incident-manager is in IncidentManager.  Notes and descriptions are     *)
(* kept as far as who wrote them.  rca_wait, rca_force and                 *)
(* patch_incident_context are on, as they are by default.                  *)
(***************************************************************************)
EXTENDS Integers

CONSTANTS Requests,              \* POST /decide, in whichever thread
          Incidents, NoIncident,
          Context,               \* what missing_context can name
          CriticalMissing,       \* critical_missing_context
          Inputs,                \* bodies of requests
          Answers,               \* what POST /score can answer
          ConfidenceHigh, ConfidenceMedium,
          MaxIterations,
          EnableLlm, EnableContextRefresh, EnableAutoRemediation,
          MaxFaults              \* bound: failed or lost calls, crashes

Actions == {"auto_remediate_gated", "rca_suggest", "escalate_oncall",
            "enrich_context", "handoff_exhausted"}

(* What the policy looks at: the confidence, what is missing, and whether  *)
(* the explanation or the events speak of chaos.                           *)
Signals == [score : 0 .. 100, missing : SUBSET Context, chaos : BOOLEAN]

(* ticket is the incident of the request's anomaly; metric says which of   *)
(* KNOWN_PATTERNS the metric's name and value can match.                   *)
Input == [incident : Incidents \cup {NoIncident},
          ticket : Incidents \cup {NoIncident},
          signals : Signals,
          metric : {"known", "if_chaos", "other"},
          force : Actions \cup {"none"},
          dry : BOOLEAN]                           \* skip_side_effects

Jobs == Requests \X {1, 2}      \* run_rca and analyze_incident_direct

ASSUME DecisionAssumption ==
  /\ NoIncident \notin Incidents
  /\ CriticalMissing \subseteq Context
  /\ Inputs \subseteq Input /\ Answers \subseteq Signals
  /\ ConfidenceHigh \in Int /\ ConfidenceMedium \in Int
  /\ ConfidenceMedium <= ConfidenceHigh
  /\ MaxIterations \in Int /\ MaxFaults \in Nat
  /\ {EnableLlm, EnableContextRefresh, EnableAutoRemediation}
       \subseteq BOOLEAN

VARIABLES
  \* incident-manager and remediation
  ticket,     \* [Incidents -> [status, severe, notes, explained]]
  proposals,  \* who proposed: requests, or jobs of the RCA engine
  \* the request threads
  pc, req,
  incident,   \* decision.incident_id
  signals,    \* confidence, missing and signals
  round,      \* iteration
  enriched,   \* enriched_once
  chosen,     \* what the loop ended with
  action, escalated, llm, patched,   \* of the EngineDecision
  opinion,    \* llm_confidence against min_llm_confidence
  call,       \* which of the two calls to the RCA engine
  seen,       \* the description escalate read
  \* the RCA engine
  job,        \* [Jobs -> JobStates]
  answer,     \* [Jobs -> Opinions]
  \* history
  fresh,      \* the last the detector said of the anomaly
  scored,     \* calls of POST /score
  faults

outside  == <<ticket, proposals>>
locals   == <<req, incident, signals, round, enriched, chosen, action,
              escalated, llm, patched, opinion, call, seen>>
analysis == <<job, answer>>
vars     == <<ticket, proposals, pc, req, incident, signals, round, enriched,
              chosen, action, escalated, llm, patched, opinion, call, seen,
              job, answer, fresh, scored, faults>>

PC == {"idle", "resolving", "deciding", "enriching", "acting", "proposing",
       "announcing", "asking", "waiting", "annotating", "reading",
       "escalating", "done", "gone"}
JobStates == {"absent", "gathering", "persisting", "suggesting", "finished"}
Opinions  == {"none", "unsure", "sure"}
Blank     == [score |-> 0, missing |-> {}, chaos |-> FALSE]
NoRequest == [incident |-> NoIncident, ticket |-> NoIncident,
              signals |-> Blank, metric |-> "other", force |-> "none",
              dry |-> TRUE]

Init ==
  /\ ticket = [i \in Incidents |->
                 [status |-> "open", severe |-> FALSE, notes |-> "none",
                  explained |-> {}]]
  /\ proposals = {}
  /\ pc = [r \in Requests |-> "idle"]
  /\ req = [r \in Requests |-> NoRequest]
  /\ incident = [r \in Requests |-> NoIncident]
  /\ signals = [r \in Requests |-> Blank]
  /\ round = [r \in Requests |-> 1]
  /\ enriched = [r \in Requests |-> FALSE]
  /\ chosen = [r \in Requests |-> "escalate_oncall"]
  /\ action = [r \in Requests |-> "escalate_oncall"]
  /\ escalated = [r \in Requests |-> FALSE]
  /\ llm = [r \in Requests |-> FALSE]
  /\ patched = [r \in Requests |-> FALSE]
  /\ opinion = [r \in Requests |-> "none"]
  /\ call = [r \in Requests |-> 1]
  /\ seen = [r \in Requests |-> {}]
  /\ job = [j \in Jobs |-> "absent"]
  /\ answer = [j \in Jobs |-> "none"]
  /\ fresh = [r \in Requests |-> Blank]
  /\ scored = [r \in Requests |-> 0]
  /\ faults = 0

-----------------------------------------------------------------------------
(* The policy *)

Rounds == IF MaxIterations < 1 THEN 1 ELSE MaxIterations

Band(score) ==
  IF score >= ConfidenceHigh THEN "high"
  ELSE IF score >= ConfidenceMedium THEN "medium"
  ELSE "low"

(* find_known_pattern, with the metric of request r and signals s          *)
KnownPattern(r, s) ==
  \/ req[r].metric = "known"
  \/ req[r].metric = "if_chaos" /\ s.chaos

Ask == IF EnableLlm THEN "rca_suggest" ELSE "escalate_oncall"

(* select_action                                                           *)
SelectAction(s, known, n) ==
  IF n > Rounds THEN "handoff_exhausted"
  ELSE IF s.missing \cap CriticalMissing # {} THEN "escalate_oncall"
  ELSE IF Band(s.score) = "high" /\ known THEN "auto_remediate_gated"
  ELSE IF Band(s.score) \in {"high", "medium"} THEN Ask
  ELSE "escalate_oncall"

(* DECISION_TABLE, the documentation of the policy: in which bands, with   *)
(* or without a pattern, with or without the critical context.             *)
DecisionTable ==
  { [bands |-> {"high"}, known |-> {TRUE}, context |-> TRUE,
     action |-> "auto_remediate_gated"],
    [bands |-> {"high"}, known |-> {FALSE}, context |-> TRUE, action |-> Ask],
    [bands |-> {"medium"}, known |-> BOOLEAN, context |-> TRUE, action |-> Ask],
    [bands |-> {"low"}, known |-> BOOLEAN, context |-> TRUE,
     action |-> "escalate_oncall"],
    [bands |-> {"high", "medium", "low"}, known |-> BOOLEAN, context |-> FALSE,
     action |-> "escalate_oncall"] }

-----------------------------------------------------------------------------
(* The loop *)

Goto(r, l) == pc' = [pc EXCEPT ![r] = l]

Fault == faults < MaxFaults /\ faults' = faults + 1

(* decide begins.                                                          *)
Decide(r) ==
  /\ pc[r] = "idle"
  /\ \E in \in Inputs :
       /\ req' = [req EXCEPT ![r] = in]
       /\ incident' = [incident EXCEPT ![r] = in.incident]
       /\ signals' = [signals EXCEPT ![r] = in.signals]
       /\ fresh' = [fresh EXCEPT ![r] = in.signals]
  /\ Goto(r, "resolving")
  /\ UNCHANGED <<outside, round, enriched, chosen, action, escalated, llm,
                 patched, opinion, call, seen, analysis, scored, faults>>

(* find_incident_by_anomaly sees the last 30 tickets, if it is answered;   *)
(* force_action skips the loop.                                            *)
Resolve(r) ==
  /\ pc[r] = "resolving"
  /\ \/ UNCHANGED incident
     \/ /\ incident[r] = NoIncident /\ ~req[r].dry
        /\ incident' = [incident EXCEPT ![r] = req[r].ticket]
  /\ \/ /\ req[r].force = "none"
        /\ Goto(r, "deciding")
        /\ UNCHANGED <<chosen, action>>
     \/ /\ req[r].force # "none"
        /\ Goto(r, "acting")
        /\ chosen' = [chosen EXCEPT ![r] = req[r].force]
        /\ action' = [action EXCEPT ![r] = req[r].force]
  /\ UNCHANGED <<outside, req, signals, round, enriched, escalated, llm,
                 patched, opinion, call, seen, analysis, fresh, scored, faults>>

(* One turn of the loop: the policy's action, unless it is an RCA that     *)
(* more context could spare.                                               *)
Evaluate(r) ==
  LET selected == SelectAction(signals[r], KnownPattern(r, signals[r]), round[r])
      thin == /\ selected = "rca_suggest" /\ EnableContextRefresh
              /\ ~enriched[r] /\ signals[r].missing # {} /\ round[r] < Rounds
  IN
  /\ pc[r] = "deciding"
  /\ \/ thin /\ Goto(r, "enriching") /\ UNCHANGED <<chosen, action>>
     \/ /\ ~thin
        /\ chosen' = [chosen EXCEPT ![r] = selected]
        /\ action' = [action EXCEPT ![r] =
             IF selected = "handoff_exhausted" THEN "escalate_oncall"
                                               ELSE selected]
        /\ Goto(r, "acting")
  /\ UNCHANGED <<outside, req, incident, signals, round, enriched, escalated,
                 llm, patched, opinion, call, seen, analysis, fresh, scored,
                 faults>>

(* Mutant: the loop keeps the old missing_context.                         *)
EnrichStale(r) ==
  /\ pc[r] = "enriching"
  /\ \E s \in Answers :
       /\ fresh' = [fresh EXCEPT ![r] = s]
       /\ signals' = [signals EXCEPT ![r] =
                        [s EXCEPT !.missing = signals[r].missing]]
  /\ enriched' = [enriched EXCEPT ![r] = TRUE]
  /\ scored' = [scored EXCEPT ![r] = @ + 1]
  /\ round' = [round EXCEPT ![r] = @ + 1]
  /\ Goto(r, "deciding")
  /\ UNCHANGED <<outside, req, incident, chosen, action, escalated, llm,
                 patched, opinion, call, seen, analysis, faults>>

(* _enrich: POST /score; without an answer the old values stay.            *)
Refresh(r) ==
  \/ /\ \E s \in Answers : /\ signals' = [signals EXCEPT ![r] = s]
                           /\ fresh' = [fresh EXCEPT ![r] = s]
     /\ UNCHANGED faults
  \/ Fault /\ UNCHANGED <<signals, fresh>>

(* The loop enriches once, and decides again.                              *)
Enrich(r) ==
  /\ pc[r] = "enriching"
  /\ Refresh(r)
  /\ enriched' = [enriched EXCEPT ![r] = TRUE]
  /\ scored' = [scored EXCEPT ![r] = @ + 1]
  /\ round' = [round EXCEPT ![r] = @ + 1]
  /\ Goto(r, "deciding")
  /\ UNCHANGED <<outside, req, incident, chosen, action, escalated, llm,
                 patched, opinion, call, seen, analysis>>

-----------------------------------------------------------------------------
(* Carrying the action out *)

Targeted(r) == ~req[r].dry /\ incident[r] # NoIncident

ActRemediate(r) ==
  /\ pc[r] = "acting" /\ action[r] = "auto_remediate_gated"
  /\ Goto(r, IF Targeted(r) /\ EnableAutoRemediation THEN "proposing"
                                                       ELSE "done")
  /\ UNCHANGED <<outside, locals, analysis, fresh, scored, faults>>

(* Mutant: without a ticket the decision stays rca_suggest.                *)
ActRcaMutant(r) ==
  /\ pc[r] = "acting" /\ action[r] = "rca_suggest"
  /\ llm' = [llm EXCEPT ![r] = TRUE]
  /\ IF req[r].dry \/ ~EnableLlm
       THEN Goto(r, "done") /\ UNCHANGED escalated
       ELSE /\ escalated' = [escalated EXCEPT ![r] = incident[r] = NoIncident]
            /\ Goto(r, IF incident[r] = NoIncident THEN "done" ELSE "asking")
  /\ UNCHANGED <<outside, req, incident, signals, round, enriched, chosen,
                 action, patched, opinion, call, seen, analysis, fresh, scored,
                 faults>>

(* llm_called is set before it is known whether there is anything to ask.  *)
ActRca(r) ==
  /\ pc[r] = "acting" /\ action[r] = "rca_suggest"
  /\ llm' = [llm EXCEPT ![r] = TRUE]
  /\ IF ~req[r].dry /\ EnableLlm /\ incident[r] = NoIncident
       THEN /\ action' = [action EXCEPT ![r] = "escalate_oncall"]
            /\ escalated' = [escalated EXCEPT ![r] = TRUE]
       ELSE UNCHANGED <<action, escalated>>
  /\ Goto(r, IF Targeted(r) /\ EnableLlm THEN "asking" ELSE "done")
  /\ UNCHANGED <<outside, req, incident, signals, round, enriched, chosen,
                 patched, opinion, call, seen, analysis, fresh, scored, faults>>

ActEscalate(r) ==
  /\ pc[r] = "acting"
  /\ action[r] \notin {"auto_remediate_gated", "rca_suggest"}
  /\ escalated' = [escalated EXCEPT ![r] = TRUE]
  /\ Goto(r, IF Targeted(r) THEN "reading" ELSE "done")
  /\ UNCHANGED <<outside, req, incident, signals, round, enriched, chosen,
                 action, llm, patched, opinion, call, seen, analysis, fresh,
                 scored, faults>>

(* A call is carried out, or carried out with its answer lost, or not.     *)
Call(done, undone) ==
  \/ done /\ UNCHANGED faults
  \/ Fault /\ (done \/ undone)

(* propose_remediation; its failure is logged.                             *)
Propose(r) ==
  /\ pc[r] = "proposing"
  /\ Call(proposals' = proposals \cup {<<r, 0>>}, UNCHANGED proposals)
  /\ Goto(r, "announcing")
  /\ UNCHANGED <<ticket, locals, analysis, fresh, scored>>

(* The tickets after a PATCH of status and notes of i.                     *)
Noted(i, status, by) ==
  [ticket EXCEPT ![i] = [@ EXCEPT !.status = status, !.notes = by]]

(* patch_incident; incident_patched is set whatever came of it.            *)
Note(r, status) ==
  /\ Call(ticket' = Noted(incident[r], status, "engine"), UNCHANGED ticket)
  /\ patched' = [patched EXCEPT ![r] = TRUE]
  /\ Goto(r, "done")
  /\ UNCHANGED <<proposals, req, incident, signals, round, enriched, chosen,
                 action, escalated, llm, opinion, call, seen, analysis, fresh,
                 scored>>

Announce(r) == pc[r] = "announcing" /\ Note(r, "remediating")
Annotate(r) == pc[r] = "annotating" /\ Note(r, "investigating")

(* Without an answer the second call is made, then it goes on without.     *)
GiveUpCall(r) ==
  /\ call' = [call EXCEPT ![r] = 2]
  /\ Goto(r, IF call[r] = 1 THEN "asking" ELSE "annotating")

(* run_rca, then analyze_incident_direct                                   *)
AskRca(r) ==
  /\ pc[r] = "asking"
  /\ \/ /\ job' = [job EXCEPT ![<<r, call[r]>>] = "gathering"]
        /\ Goto(r, "waiting")
        /\ UNCHANGED <<call, faults>>
     \/ /\ Fault /\ GiveUpCall(r)
        /\ UNCHANGED job
  /\ UNCHANGED <<outside, req, incident, signals, round, enriched, chosen,
                 action, escalated, llm, patched, opinion, seen, answer, fresh,
                 scored>>

(* Mutant: an answer without a result is waited for.                       *)
HearResult(r) ==
  LET said == answer[<<r, call[r]>>] IN
  /\ pc[r] = "waiting" /\ job[<<r, call[r]>>] = "finished" /\ said = "sure"
  /\ opinion' = [opinion EXCEPT ![r] = said]
  /\ Goto(r, "annotating")
  /\ UNCHANGED <<outside, req, incident, signals, round, enriched, chosen,
                 action, escalated, llm, patched, call, seen, analysis, fresh,
                 scored, faults>>

(* The answer of the RCA engine; an unsure one is escalated.               *)
HearRca(r) ==
  LET said == answer[<<r, call[r]>>] IN
  /\ pc[r] = "waiting" /\ job[<<r, call[r]>>] = "finished"
  /\ opinion' = [opinion EXCEPT ![r] = said]
  /\ \/ /\ said = "unsure"
        /\ action' = [action EXCEPT ![r] = "escalate_oncall"]
        /\ escalated' = [escalated EXCEPT ![r] = TRUE]
        /\ Goto(r, "reading")
     \/ /\ said # "unsure"
        /\ Goto(r, "annotating")
        /\ UNCHANGED <<action, escalated>>
  /\ UNCHANGED <<outside, req, incident, signals, round, enriched, chosen, llm,
                 patched, call, seen, analysis, fresh, scored, faults>>

(* Timeout or HTTP error; the analysis itself may go on.                   *)
LoseRca(r) ==
  /\ pc[r] = "waiting"
  /\ Fault /\ GiveUpCall(r)
  /\ UNCHANGED <<outside, req, incident, signals, round, enriched, chosen,
                 action, escalated, llm, patched, opinion, seen, analysis,
                 fresh, scored>>

(* _execute_escalate: GET the description; without an answer it is empty.  *)
ReadDescription(r) ==
  /\ pc[r] = "reading"
  /\ \/ /\ seen' = [seen EXCEPT ![r] = ticket[incident[r]].explained]
        /\ UNCHANGED faults
     \/ seen' = [seen EXCEPT ![r] = {}] /\ Fault
  /\ Goto(r, "escalating")
  /\ UNCHANGED <<outside, req, incident, signals, round, enriched, chosen,
                 action, escalated, llm, patched, opinion, call, analysis,
                 fresh, scored>>

(* Mutant: incident_patched whatever the PATCH returned.                   *)
PatchEscalationMutant(r) ==
  /\ pc[r] = "escalating"
  /\ Call(ticket' = [ticket EXCEPT ![incident[r]] =
            [status |-> "investigating", severe |-> TRUE, notes |-> "engine",
             explained |-> seen[r] \cup {r}]],
          UNCHANGED ticket)
  /\ patched' = [patched EXCEPT ![r] = TRUE]
  /\ Goto(r, "done")
  /\ UNCHANGED <<proposals, req, incident, signals, round, enriched, chosen,
                 action, escalated, llm, opinion, call, seen, analysis, fresh,
                 scored>>

(* ... and PATCH status, severity, notes and the longer description.       *)
PatchEscalation(r) ==
  LET written == ticket' = [ticket EXCEPT ![incident[r]] =
        [status |-> "investigating", severe |-> TRUE, notes |-> "engine",
         explained |-> seen[r] \cup {r}]]
  IN
  /\ pc[r] = "escalating"
  /\ \/ /\ written
        /\ patched' = [patched EXCEPT ![r] = TRUE]
        /\ UNCHANGED faults
     \/ /\ Fault
        /\ written \/ UNCHANGED ticket
        /\ UNCHANGED patched
  /\ Goto(r, "done")
  /\ UNCHANGED <<proposals, req, incident, signals, round, enriched, chosen,
                 action, escalated, llm, opinion, call, seen, analysis, fresh,
                 scored>>

(* The process dies; decisions are kept in memory only.                    *)
Crash(r) ==
  /\ pc[r] \notin {"idle", "done", "gone"}
  /\ Fault
  /\ Goto(r, "gone")
  /\ UNCHANGED <<outside, locals, analysis, fresh, scored>>

-----------------------------------------------------------------------------
(* RCAEngine.analyze_incident, forced and persisting *)

(* get_incident, evidence, and Bedrock or the rules; without the incident  *)
(* the answer is an error, with no result in it.                           *)
Analyse(j) ==
  /\ job[j] = "gathering"
  /\ \/ /\ \E o \in {"unsure", "sure"} : answer' = [answer EXCEPT ![j] = o]
        /\ job' = [job EXCEPT ![j] = "persisting"]
        /\ UNCHANGED faults
     \/ /\ Fault
        /\ job' = [job EXCEPT ![j] = "finished"]
        /\ UNCHANGED answer
  /\ UNCHANGED <<outside, pc, locals, fresh, scored>>

(* persist_rca; if it fails the result is returned all the same, and not   *)
(* fanned out.                                                             *)
PersistRca(j) ==
  LET written == ticket' = Noted(incident[j[1]], "investigating", "rca") IN
  /\ job[j] = "persisting"
  /\ \/ /\ written
        /\ job' = [job EXCEPT ![j] = "suggesting"]
        /\ UNCHANGED faults
     \/ /\ Fault
        /\ written \/ UNCHANGED ticket
        /\ job' = [job EXCEPT ![j] = "finished"]
  /\ UNCHANGED <<proposals, pc, locals, answer, fresh, scored>>

(* _fanout_remediation, best effort                                        *)
SuggestRemediation(j) ==
  /\ job[j] = "suggesting"
  /\ Call(proposals' = proposals \cup {j}, UNCHANGED proposals)
  /\ job' = [job EXCEPT ![j] = "finished"]
  /\ UNCHANGED <<ticket, pc, locals, answer, fresh, scored>>

-----------------------------------------------------------------------------

Step(r) ==
  \/ Resolve(r) \/ Evaluate(r) \/ Enrich(r)
  \/ ActRemediate(r) \/ ActRca(r) \/ ActEscalate(r)
  \/ Propose(r) \/ Announce(r) \/ Annotate(r)
  \/ AskRca(r) \/ HearRca(r) \/ LoseRca(r)
  \/ ReadDescription(r) \/ PatchEscalation(r)

JobStep(j) == Analyse(j) \/ PersistRca(j) \/ SuggestRemediation(j)

Next ==
  \/ \E r \in Requests : Decide(r) \/ Step(r) \/ Crash(r)
  \/ \E j \in Jobs : JobStep(j)

Spec == Init /\ [][Next]_vars

(* Threads of both services go on.  Nothing is assumed of faults: a call   *)
(* that is answered does not have to time out.                             *)
FairSpec ==
  /\ Spec
  /\ \A r \in Requests : WF_vars(Step(r))
  /\ \A j \in Jobs : WF_vars(JobStep(j))

-----------------------------------------------------------------------------
(* Properties *)

Ticket == [status : {"open", "remediating", "investigating"},
           severe : BOOLEAN, notes : {"none", "engine", "rca"},
           explained : SUBSET Requests]

TypeOK ==
  /\ ticket \in [Incidents -> Ticket]
  /\ proposals \subseteq Requests \X {0, 1, 2}
  /\ pc \in [Requests -> PC]
  /\ req \in [Requests -> Input]
  /\ incident \in [Requests -> Incidents \cup {NoIncident}]
  /\ signals \in [Requests -> Signals]
  /\ round \in [Requests -> Nat]
  /\ enriched \in [Requests -> BOOLEAN]
  /\ chosen \in [Requests -> Actions]
  /\ action \in [Requests -> Actions]
  /\ escalated \in [Requests -> BOOLEAN]
  /\ llm \in [Requests -> BOOLEAN]
  /\ patched \in [Requests -> BOOLEAN]
  /\ opinion \in [Requests -> Opinions]
  /\ call \in [Requests -> {1, 2}]
  /\ seen \in [Requests -> SUBSET Requests]
  /\ job \in [Jobs -> JobStates]
  /\ answer \in [Jobs -> Opinions]
  /\ fresh \in [Requests -> Signals]
  /\ scored \in [Requests -> Nat]
  /\ faults \in Nat

Looping == {"idle", "resolving", "deciding", "enriching"}

(* What DECISION_TABLE says of signals s for request r.                    *)
Permitted(r, s, a) ==
  \E row \in DecisionTable :
    /\ Band(s.score) \in row.bands
    /\ KnownPattern(r, s) \in row.known
    /\ row.context <=> s.missing \cap CriticalMissing = {}
    /\ a = row.action

(* Unless an action is forced, what a decision carries out is what the     *)
(* documented table says of the freshest signals the detector gave for the *)
(* anomaly, not of those the loop began with: no automation and no Bedrock *)
(* on a confidence or a context that has been withdrawn.                   *)
DecisionFollowsTable ==
  \A r \in Requests :
    pc[r] \notin Looping \cup {"gone"} /\ req[r].force = "none" =>
      Permitted(r, fresh[r], chosen[r])

(* The loop is bounded: at most one POST /score, answered or not, and at   *)
(* most max_iterations turns; so it never leaves the loop undecided.       *)
EnrichedAtMostOnce ==
  \A r \in Requests : scored[r] <= 1 /\ round[r] <= Rounds

(* A decision tells one story: it is escalated exactly if its action is    *)
(* not one of the automatic ones, also when it was demoted on the way; an  *)
(* automatic action is the one the policy chose, and no RCA that was       *)
(* unsure stands as a suggestion.                                          *)
OutcomeIsConsistent ==
  \A r \in Requests : pc[r] = "done" =>
    /\ escalated[r] <=> action[r] \notin {"auto_remediate_gated", "rca_suggest"}
    /\ ~escalated[r] => action[r] = chosen[r] /\ opinion[r] # "unsure"
    /\ llm[r] <=> chosen[r] = "rca_suggest"

(* An escalation that says it patched the ticket did: the ticket is of     *)
(* high severity, whatever other requests and late analyses wrote to it.   *)
EscalationReachesTicket ==
  \A r \in Requests :
    pc[r] = "done" /\ escalated[r] /\ patched[r] => ticket[incident[r]].severe

ProposalsFor(r) == {p \in proposals : p[1] = r}

(* As long as nothing fails, a decision leads to at most one proposal of   *)
(* remediations: the engine's own, or that of a single analysis.           *)
OneProposalPerDecision ==
  faults = 0 =>
    \A r \in Requests : \A p, q \in ProposalsFor(r) : p = q

(* Every request is answered, unless its process dies.                     *)
DecisionsFinish ==
  \A r \in Requests : pc[r] = "resolving" ~> pc[r] \in {"done", "gone"}

(* clients.py:4-5, "degrades (e.g. escalate if RCA is down on medium       *)
(* path)": a decision that asked the RCA engine and got no result is       *)
(* escalated.  Does not hold: the empty result is stored and the ticket    *)
(* is annotated as if there were suggestions.                              *)
RcaDownEscalates ==
  \A r \in Requests :
    pc[r] = "done" /\ chosen[r] = "rca_suggest" /\ Targeted(r)
      /\ opinion[r] = "none"
    => escalated[r]

-----------------------------------------------------------------------------
(* The inductive invariant of the proofs *)

(* The detector is asked again only by a request that has not asked yet.   *)
LoopInv ==
  \A r \in Requests :
    /\ scored[r] = IF enriched[r] THEN 1 ELSE 0
    /\ round[r] <= Rounds
    /\ pc[r] = "enriching" => ~enriched[r] /\ round[r] < Rounds

(* What the loop works on is what the detector said last.                  *)
FreshInv == signals = fresh

Automatic == {"auto_remediate_gated", "rca_suggest"}

(* How far the EngineDecision of request r has got.                        *)
OutcomeInv(r) ==
  /\ pc[r] \in Looping => ~escalated[r] /\ ~llm[r] /\ opinion[r] = "none"
  /\ pc[r] = "acting" =>
       /\ ~escalated[r] /\ ~llm[r] /\ opinion[r] = "none"
       /\ {action[r], chosen[r]} \cap Automatic # {} => action[r] = chosen[r]
  /\ pc[r] \in {"proposing", "announcing"} =>
       /\ ~escalated[r] /\ ~llm[r] /\ opinion[r] = "none"
       /\ action[r] = "auto_remediate_gated" /\ chosen[r] = action[r]
  /\ pc[r] \in {"asking", "waiting", "annotating"} =>
       /\ ~escalated[r] /\ llm[r] /\ opinion[r] # "unsure"
       /\ action[r] = "rca_suggest" /\ chosen[r] = action[r]
  /\ pc[r] \in {"reading", "escalating"} =>
       /\ escalated[r] /\ action[r] \notin Automatic
       /\ llm[r] <=> chosen[r] = "rca_suggest"

(* A request that calls anybody about a ticket has one; its PATCH is last. *)
TargetInv(r) ==
  /\ pc[r] \in {"proposing", "announcing", "asking", "waiting", "annotating",
                "reading", "escalating"} => incident[r] \in Incidents
  /\ patched[r] /\ escalated[r] => incident[r] \in Incidents
  /\ patched[r] => pc[r] = "done"

(* Who has an analysis, and who has proposed.                              *)
JobInv(r) ==
  /\ \A k \in {1, 2} : job[<<r, k>>] # "absent" =>
       /\ incident[r] \in Incidents /\ chosen[r] = "rca_suggest"
       /\ pc[r] \notin Looping \cup {"acting"}
  /\ call[r] = 2 => faults > 0
  /\ call[r] = 1 => job[<<r, 2>>] = "absent"
  /\ pc[r] = "asking" => job[<<r, call[r]>>] = "absent"
  /\ pc[r] \in Looping \cup {"acting"} => call[r] = 1
  /\ \A k \in {1, 2} : <<r, k>> \in proposals => job[<<r, k>>] = "finished"
  /\ <<r, 0>> \in proposals =>
       chosen[r] = "auto_remediate_gated" /\ pc[r] \notin Looping \cup {"acting"}

IInv ==
  /\ TypeOK /\ LoopInv /\ FreshInv
  /\ \A r \in Requests : OutcomeInv(r) /\ TargetInv(r) /\ JobInv(r)
  /\ DecisionFollowsTable /\ OutcomeIsConsistent /\ EscalationReachesTicket
=============================================================================
