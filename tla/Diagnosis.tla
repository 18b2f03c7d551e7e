------------------------------ MODULE Diagnosis ------------------------------
(***************************************************************************)
(* Diagnosis: the pure judgements of the system over every situation a     *)
(* small shop can get into.  The detector's confidence in an anomaly and   *)
(* the RCA engine's in a cause are functions of what the backends show;    *)
(* here the situation changes one report, one failure or one rate at a     *)
(* time, and the properties say what that may do to the judgements.        *)
(*                                                                         *)
(* The subject is an anomaly of one service, as Confidence describes its   *)
(* surroundings, or an incident of it, as Evidence does, or the prompt     *)
(* that the evidence of an incident has to fit into.                       *)
(***************************************************************************)
EXTENDS Confidence

CONSTANTS Findings,             \* what the hybrid detector may have found
          AnomalyRows, AnomalyTraces,
          Series, Breakable,    \* RED series that may appear, queries that may fail
          \* of RuleFallback
          DependsOn, Canonical(_), MaxLogLines, MaxTraceDetails,
          MaxNeighborLogLines, MaxNeighborTraces, NoService, Patterns,
          BlobRows, ErrElevated, ErrHigh, LatElevated, ErrMargin, LatMargin,
          Ticket,               \* the service of the ticket
          ShownRates, ShownRows, ShownTraces,   \* what a service may show
          MaxRows,              \* bound: log rows around an anomaly
          MaxBroken,            \* bound: queries that fail or are garbled
          \* of PromptBlock: the rest of the payload, the budget report, its
          \* included counts, and max_chars
          FixedSize, NoteSize, CountsSize, Budget,
          RecordSizes,
          MaxRecords            \* bound: records competing for the prompt

Incident == INSTANCE RuleFallback

VARIABLES subject,    \* "anomaly", "incident" or "prompt"
          finding,    \* the anomaly that is judged
          world       \* what the backends would answer

vars == <<subject, finding, world>>

Shop == DOMAIN DependsOn

(* Scores are counts of sigmas, strengths are shares, every trace has an   *)
(* id and a duration, rates are numbers (Unknown is one), a pattern has a  *)
(* priority, a base confidence and finitely many phrases.                  *)
ASSUME DiagnosisAssumption ==
  /\ Findings # {}
  /\ \A f \in Findings :
       /\ f.anomaly \in BOOLEAN /\ {f.score, f.methods} \subseteq Nat
       /\ f.features \subseteq Red
       /\ Strength(f.score) \in 0..Whole
  /\ Series \subseteq Red /\ Breakable \subseteq Queries
  /\ \A r \in AnomalyRows : r.found \subseteq LogLabels
  /\ \A t \in AnomalyTraces : t.id # NoTrace /\ t.ms \in Nat
  /\ ShownRates # {} /\ \A r \in ShownRates : {r.err, r.lat} \subseteq Int
  /\ Len(Patterns) \in Nat /\ DOMAIN Patterns = 1..Len(Patterns)
  /\ \A i \in DOMAIN Patterns :
       /\ {Patterns[i].priority, Patterns[i].base} \subseteq Int
       /\ IsFiniteSet(Patterns[i].phrases)
  /\ {ErrMargin, LatMargin} \subseteq Int
  /\ {FixedSize, NoteSize, CountsSize, Budget} \subseteq Nat
  /\ RecordSizes \subseteq Nat
  /\ Ticket \in Shop /\ {MaxRows, MaxBroken} \subseteq Nat /\ MaxRecords \in Nat

Init ==
  /\ finding \in Findings
  /\ \/ /\ subject = "anomaly"
        /\ world = [instant |-> {}, ranged |-> {}, logs |-> <<>>,
                    traces |-> <<>>, down |-> {}, failed |-> {}, garbled |-> {}]
     \/ /\ subject = "incident"
        /\ finding = CHOOSE f \in Findings : TRUE
        /\ world = [rates |-> [s \in Shop |-> CHOOSE r \in ShownRates : TRUE],
                    logs |-> [s \in Shop |-> <<>>],
                    traces |-> [s \in Shop |-> <<>>],
                    down |-> {}, garbled |-> {}]
     \/ /\ subject = "prompt"
        /\ finding = CHOOSE f \in Findings : TRUE
        /\ world = [lists |-> [kind \in 1..5 |-> <<>>], down |-> {}]

Becomes(new) == world' = new /\ UNCHANGED <<subject, finding>>

(* What can happen around an anomaly: the newest row or trace comes first. *)
SeriesAppears(metric) ==
  /\ subject = "anomaly" /\ metric \notin world.instant
  /\ \E history \in {{}, {metric}} :
       Becomes([world EXCEPT !.instant = @ \cup {metric},
                             !.ranged = @ \cup history])

RowArrives(row) ==
  /\ subject = "anomaly" /\ Len(world.logs) < MaxRows
  /\ Becomes([world EXCEPT !.logs = <<row>> \o @])

TraceArrives(trace) ==
  /\ subject = "anomaly"
  /\ \A i \in DOMAIN world.traces : world.traces[i].id # trace.id
  /\ Becomes([world EXCEPT !.traces = <<trace>> \o @])

(* A query around an anomaly fails, or its answer is not what it should be.*)
QueryBreaks(query) ==
  /\ subject = "anomaly"
  /\ BackendOf(query) \notin world.down
  /\ query \notin world.failed \cup world.garbled
  /\ Cardinality(world.failed \cup world.garbled) < MaxBroken
  /\ \/ Becomes([world EXCEPT !.failed = @ \cup {query}])
     \/ /\ query \in Unguarded
        /\ Becomes([world EXCEPT !.garbled = @ \cup {query}])

(* What can happen around an incident.                                     *)
RateChanges(service, rates) ==
  /\ subject = "incident" /\ world.rates[service] # rates
  /\ Becomes([world EXCEPT !.rates[service] = rates])

ServiceLogs(service, row) ==
  /\ subject = "incident" /\ world.logs[service] = <<>>
  /\ Becomes([world EXCEPT !.logs[service] = <<row>>])

ServiceTraced(trace) ==
  /\ subject = "incident" /\ world.traces[Ticket] = <<>>
  /\ Becomes([world EXCEPT !.traces[Ticket] = <<trace>>])

Garbled(backend) ==
  /\ subject = "incident" /\ backend \notin world.garbled
  /\ Becomes([world EXCEPT !.garbled = @ \cup {backend}])

(* One more record of error logs, neighbour logs, traces, neighbour traces  *)
(* or change events competes for the prompt.                               *)
RecordGathered(kind, size) ==
  /\ subject = "prompt"
  /\ Incident!Total([k \in 1..5 |-> Len(world.lists[k])]) < MaxRecords
  /\ Becomes([world EXCEPT !.lists[kind] = Append(@, size)])

(* A backend stops answering.                                              *)
Outage(backend) ==
  /\ subject # "prompt"
  /\ backend \notin world.down
  /\ Becomes([world EXCEPT !.down = @ \cup {backend}])

Next ==
  \/ \E metric \in Series : SeriesAppears(metric)
  \/ \E row \in AnomalyRows : RowArrives(row)
  \/ \E trace \in AnomalyTraces : TraceArrives(trace)
  \/ \E query \in Breakable : QueryBreaks(query)
  \/ \E service \in Shop : \/ \E rates \in ShownRates : RateChanges(service, rates)
                           \/ \E row \in ShownRows : ServiceLogs(service, row)
  \/ \E trace \in ShownTraces : ServiceTraced(trace)
  \/ \E backend \in {"prometheus", "tempo"} : Garbled(backend)
  \/ \E kind \in 1..5, size \in RecordSizes : RecordGathered(kind, size)
  \/ \E backend \in Backends : Outage(backend)

Spec == Init /\ [][Next]_vars

-----------------------------------------------------------------------------
(* The detector's decision about the finding, and the rules' about the     *)
(* ticket.                                                                 *)
Judged(surroundings) == Build(finding, Gather(surroundings, finding.features))
Decision == Judged(world)
Evidence == Incident!Gather(world, Ticket)
Rca      == Incident!RuleBasedRca(Evidence)

(* "Cap at +15 so pure 'loud metric, empty context' cannot look certain":  *)
(* without a log, a trace and an event the confidence stays below 40,      *)
(* which also keeps the severity at medium, however many methods agree,    *)
(* however large the score, however complete the metrics.                  *)
LoudMetricIsNotEnough ==
  subject = "anomaly" =>
    LET decision == Decision
        seen == decision.signals
    IN  seen.logs = <<>> /\ seen.traces = <<>> /\ seen.events = <<>> =>
          /\ decision.confidence < Percent(40)
          /\ decision.severity <= 2

(* "Backend source down -> treat as missing (do not invent confidence)":   *)
(* with any queries failing already, an anomaly is not judged with more    *)
(* confidence when a backend stops answering at all, nor when one of its   *)
(* answers becomes garbled.  A source that was lost to a garbled answer is *)
(* left out: it is penalised, and a backend that is down is not.           *)
Silenced(backend) == [world EXCEPT !.down = @ \cup {backend}]
Mangled(query)    == [world EXCEPT !.garbled = @ \cup {query}]

SourceOf(family) ==
  CASE family = "metrics" -> "prometheus" [] family = "traces" -> "tempo" [] OTHER -> "loki"

LostSources == {SourceOf(family) : family \in Gather(world, finding.features).lost}

LossIsNotRewarded ==
  subject = "anomaly" =>
    LET confidence == Decision.confidence
    IN  /\ \A backend \in Backends \ LostSources :
             Judged(Silenced(backend)).confidence <= confidence
        /\ \A query \in Breakable \cap Unguarded :
             Judged(Mangled(query)).confidence <= confidence

(* "Failures are non-fatal: we record sources_ok / gather_errors and still *)
(* score (with penalties)": a query that fails does not raise confidence.  *)
(* The code falls back on the next, broader query: without the error rows  *)
(* it takes all of them, which are more, or better traced.                 *)
FailureIsPenalised ==
  subject = "anomaly" /\ world.garbled = {} =>
    \A query \in Breakable :
      Judged([world EXCEPT !.failed = @ \cup {query}]).confidence
        <= Decision.confidence

(* "Do not invent a concrete infra root without metrics/logs/traces": a    *)
(* confidence above 55 has a pattern of the catalog or a sick dependency   *)
(* behind it, and an answer from incomplete evidence is never above 40.    *)
CertaintyIsGrounded ==
  subject = "incident" =>
    LET evidence == Evidence
        rca == Incident!RuleBasedRca(evidence)
    IN  /\ rca.confidence > 55 =>
             \E i \in DOMAIN rca.causes :
               rca.causes[i].kind \in {"dependency", "pattern", "shared"}
        /\ evidence.errors # {} => rca.confidence <= 40

-----------------------------------------------------------------------------
Prompt == Incident!PromptBlock(world.lists, FixedSize, NoteSize, CountsSize, Budget)
NoEvidence == [kind \in 1..5 |-> <<>>]

(* "Drop only tail records, choosing the currently largest list each       *)
(* round": a prompt with evidence in it is within the budget, holds the    *)
(* most relevant records of each kind, and no kind pays for another one: a *)
(* list that lost a record would, with it, be at least as long as every    *)
(* other list that is left.                                                *)
NoKindIsStarved ==
  subject = "prompt" =>
    LET prompt == Prompt
        total(s) == Incident!Total(s)
        extra == IF prompt = world.lists THEN 0 ELSE NoteSize + CountsSize
    IN  prompt # NoEvidence =>
          /\ FixedSize + Incident!Size(prompt) + extra <= Budget
          /\ \A kind \in 1..5 :
               LET back == SubSeq(world.lists[kind], 1, Len(prompt[kind]) + 1)
               IN  prompt[kind] # world.lists[kind] =>
                     \A other \in 1..5 : total(prompt[other]) <= total(back)

(* "Return bounded, valid JSON while preserving highest-priority evidence":*)
(* all the evidence is dropped only if not even the first record of a list *)
(* fits.  The code appends the included counts after it trimmed the lists  *)
(* to the budget, and drops everything when they do not fit any more.      *)
PriorityEvidenceSurvives ==
  subject = "prompt" /\ Prompt = NoEvidence =>
    \A kind \in 1..5 :
      \/ world.lists[kind] = <<>>
      \/ FixedSize + NoteSize + CountsSize + Head(world.lists[kind]) > Budget
=============================================================================
