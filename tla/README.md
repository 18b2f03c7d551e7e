# A TLA+ model of the AIOps control plane

The repository is a demo shop (checkout, payment, inventory and a fraud scorer)
watched by a control plane that detects anomalies in metrics, opens incident
tickets, decides what to do about them, analyses root causes and proposes or
executes remediations:

    anomaly-detector --Redis queue / webhook--> incident-manager --HTTP--> decision-engine
                                                     ^   |                     |   |
                                                     |   | (direct RCA)        |   v
    demo services <--/chaos, docker-- remediation <--+---+---- HTTP ------- rca-engine
                                          |          |
                                          +--PATCH---+        feedback-collector, engine-qa

Every service is a FastAPI process with a SQLite file of its own; the Redis
lists carry anomalies (detector to incident-manager) and optionally incidents
and decisions. Synchronous endpoints run on a thread pool, a consumer is one
more thread or task, and nothing is shared between services but HTTP and Redis.
What is hard about it is therefore not any algorithm. It is what several
threads and services do to the same row when each reads it, calls somebody, and
writes it back; and what is left after a crash, a lost reply or a redelivery.

This directory holds TLA+ modules translated from the source, TLC
configurations that check them on small instances, and proofs that TLAPS checks
for all values of the constants. `PROJECT.json` maps every definition to its
lines, and lists runs, mutants, hazards, findings and theorems.

## Inventory

State, operations, interactions, the hard part and what correct means, per
component, with the modules that model it. What is left out is under "Not
modelled" below.

| component | state | operations | talks to | hard part | correct means |
|---|---|---|---|---|---|
| **Reliable queue** (`shared/aiops_shared/redis_client.py` and the consumer loops) - `ReliableQueue`, `Delivery` | source, in-flight and dead-letter list, retry key per payload | enqueue, reserve, acknowledge, retry or dead-letter, recover in-flight | Redis, one command at a time | crashes between commands, lost replies, TTL of the retry key, fallback commands | nothing acknowledged that was not handled; nothing dead-lettered early; nothing lost; FIFO |
| **incident-manager** (`aiops-services/incident-manager`) - `IncidentManager` | tables `incidents`, `processed_anomalies` | consume an anomaly, from-anomaly webhook, create, PATCH, correlate by series and topology, fan out | queue, decision-engine, rca-engine | consumer and API threads on one table, read in one transaction and write in another, redelivery | one ticket per anomaly, one fan-out per ticket, attribution, counts, dates |
| **remediation** (`aiops-services/remediation`) - `Remediation` | tables `remediation_actions`, `remediation_resource_locks` | propose, approve, execute, reject, false positive | /chaos of the services, Docker, incident-manager | same action executed twice, lock expiry, lost replies, verify and roll back | mutual exclusion, approval of high-risk actions, truthful outcomes, locks come free |
| **Topology, shared models** (`topology.py`, `models.py`) - used by `IncidentManager` | static map of dependencies | neighbours of a service | - | - | - |
| **Demo /chaos** (`apps/*`) - in `Remediation` | injected faults | read, set | - | somebody else injects meanwhile | - |
| **decision-engine** (`aiops-services/decision-engine`) - `DecisionEngine` | the last 100 decisions, in memory | decide: policy, enrich, propose / ask RCA / escalate | anomaly-detector, rca-engine, incident-manager, remediation | bounded loop on values that change, lost replies, fallbacks, patches of a ticket others patch | decisions follow the table on fresh signals; at most one enrichment; a decision says what it did; escalation when RCA is down |
| **rca-engine** (`aiops-services/rca-engine`) - `RcaEngine`, `Evidence`, `RuleFallback`, seen from its caller in `DecisionEngine` | analyses under way, credentials | analyse on request or from the queue, gather evidence, model or rules, persist, propose | Prometheus, Loki, Tempo, Bedrock, incident-manager, remediation | overlapping analyses, a skip decided on a stale ticket, retries, incomplete evidence, a prompt budget | only stored causes are proposed; a recent one is not analysed again; the better of two answers; no certainty without evidence |
| **anomaly-detector** (`aiops-services/anomaly-detector`) - `Detector`, `HybridDetector`, `Confidence` | windows per series, cooldowns, checkpoint | poll, judge, learn, publish, save, restore, POST /detect, confidence and severity | Prometheus, Loki, Tempo, Redis, webhook | cooldown before publication, pruning, a checkpoint written while an API thread learns, outages that look like empty answers | no alert twice in a cooldown, a lasting breach always published, baselines kept, no certainty from a loud metric or an outage |
| **feedback-collector**, **engine-qa** (`aiops-services/feedback-collector`, `engine-qa`) - `Reviews`, `QualityAdvice` | a table of reviews each, gauges | review, statistics, gauges, close or annotate the ticket, second write, tuning advice | incident-manager, each other, decision-engine, Prometheus | racing handlers, a double write that may get lost, crashes between the steps, rates over different denominators | a ticket is closed on record, advisors agree, advice stays on its scale, gauges settle |
| **RCA pattern catalogue** (`shared/aiops_shared/rca_patterns.py`, `config/rca_patterns.yaml`) - a constant of `RuleFallback` | none (YAML, regular expressions) | match | - | priority, shared roots | - |
| telemetry, deep links, consoles, evaluation, scripts | none of their own | - | - | - | - |

## Modules

| module | what it is |
|---|---|
| `Delivery` | what the queue promises per payload: unsent, pending, done, dead or lost |
| `ReliableQueue` | the lists, retry keys and the worker's loop, Redis command by command |
| `ReliableQueueProofs` | inductive invariant, safety, refinement of `Delivery` |
| `Intake` | what the incident manager promises per anomaly: its place, and whether it is announced |
| `IncidentManager` | tickets, delivery markers, handler threads, fan-out |
| `IncidentManagerProofs` | inductive invariant, safety, refinement of `Intake` |
| `Remediation` | action rows, locks, request threads, chaos state, the ticket's status |
| `RemediationProofs` | inductive invariant, safety, truth of outcomes |
| `DecisionEngine` | the decide loop and its policy, the calls of its three outcomes, the analyses of the RCA engine, what both write to the ticket |
| `DecisionEngineProofs` | inductive invariant, safety |
| `HybridDetector` | how one scrape is judged and learned: vote, rolling z-score, results per method |
| `Detector` | the detector's worker: poll, cooldown, publication, checkpoint, POST /detect |
| `DetectorProofs` | inductive invariant, cooldown, baselines |
| `Confidence` | context around an anomaly, its completeness, confidence, severity |
| `Evidence` | what the RCA engine gathers about a service and its neighbours, and the prompt's budget |
| `RuleFallback` | root cause analysis by rules, and how remediation classifies its actions |
| `RcaEngine` | analyses of tickets: skip, model, weighing, persist, propose; the queue's consumer |
| `RcaEngineProofs` | inductive invariant, proposals, repetition |
| `Diagnosis` | `Confidence`, `RuleFallback` and the prompt over every situation of a small shop |
| `DiagnosisProofs` | that each judgement keeps its promise in every situation |
| `QualityAdvice` | statistics and tuning advice of both review services |
| `Reviews` | their handlers, step by step, with restarts and scrapes |
| `ReviewsProofs` | inductive invariant, closed tickets, the advice of both tuners |
| `MC*` | the instances the configurations use (`MCShop`: the shop of `MCRcaEngine` and `MCDiagnosis`) |

Who uses whom: `Detector` EXTENDS `HybridDetector`; `RuleFallback` EXTENDS
`Evidence`, `RcaEngine` EXTENDS `RuleFallback`; `Diagnosis` EXTENDS `Confidence`
and takes `RuleFallback` as an instance; `Reviews` EXTENDS `QualityAdvice`;
`ReliableQueue` is shown to implement `Delivery`, and `IncidentManager` to
implement `Intake`. The services meet at the
ticket, and each module has the part of the ticket its service reads or writes.

### ReliableQueue

`queue`, `processing`, `dlq` and `retries` are the four Redis keys of one queue;
`pc`, `cur`, `attempts`, `recovered` the worker. `Enqueue` is `enqueue`;
`Start`, `RecoverOne`, `Recovered` are the start-up of a consumer with
`recover_inflight`; `Reserve` is BLMOVE with its fallback; `HandlerReturns` and
`HandlerRaises` are the `try` of the loop; `AckRemove` and `AckClear` are
`acknowledge`; `CountAttempt`, `RemoveReservation`, `Requeue`, `DeadLetter` and
`ForgetAttempts` are `retry_or_dead_letter`. `CommandFails`, `Crash` and
`RetryKeyExpires` are the environment; in addition every command can be applied
with its reply lost (`Replied`), in which case the loop's exception handler goes
back to polling and the payload stays where it is.

Payloads are numbers in the order of sending and pairwise different, which they
are in the program since each carries an id. One live worker per queue: that is
what docker-compose starts. `done`, `ok`, `fails` and `faults` are history.

### IncidentManager

`tickets` is the table `incidents`: a ticket's number is its position, so
insertion order stands for `created_at`. `processed` is `processed_anomalies`.
Each thread has a program counter, the anomaly it handles, the target ticket
and `snap`, the row as it read it. `Receive` to `Return` are `handle_anomaly`
with one action per SQL transaction or HTTP call: `FindSeries` is
`find_open_correlated`, `FindCascade` is `find_open_for_services` and the family
test, `UpdateForAnomaly` and `InsertForAnomaly` are the two transactions that
commit row and marker together, `AlreadyProcessed` their other outcomes, `Push`
and `PushRca` are `fanout_new_incident`. `Create`, `PatchRead` and `PatchWrite`
are the API. `WindowPasses` lets the oldest ticket leave the correlation window.

The queue under the consumer is the promise of `ReliableQueue`, seen from
outside: a set of payloads from which one stays until it is acknowledged.
`MaxFaults` is at most `queue_max_retries`, so nothing is dead-lettered.
A metric's name is what its keywords say about its family. Title, summary,
scores and notes are left out, and so is the Redis fan-out of incidents
(`enable_redis_incident_fanout`, off by default). A second worker process is
one more member of `ApiThreads`: the code is the same and so is the database.

`Intake` knows nothing of threads, transactions and copies: an anomaly opens a
ticket or joins one in one step and may be announced in another. `Opened` maps the
table to it (of a row, the series and the source, which no write-back changes),
`place` is `processed`, and `announced` is `pushes`. Lookups, PATCHes, crashes,
redeliveries, acknowledgements and the passing of the window are stutters.

### Remediation

`rows` holds the status of every action, `locks` the owner of every resource
key, `chaos` what is injected into each service, `ticket` the status of the
incident. A request thread has a program counter, the action, the status in its
copy of the row (`copy`), the chaos state it read (`snapshot`) and the proposals
it has still to insert. `Load`, `WriteBlocked`, `AcquireLock`, `Record`,
`ReleaseLock`, `NoteOnTicket` are `service.execute`; `ActQuietly`, `Restart`,
`TakeSnapshot`, `PostReset`, `VerifyReset`, `RollBack` are the executor.
`Approve`/`WriteApproval`, `Reject` and the false-positive steps are the other
endpoints. `Reject` is one step, since what it writes does not depend on what it
read. `Crash` ends a request at any step, `LockExpires` deletes a lock nobody
alive holds, `Inject` is somebody's chaos, `Close` an operator who resolves.

A live request is shorter than the lock's TTL: at most five HTTP calls with a
timeout of 8 s, and `docker restart`, against 120 s. `fault_mode`, which a
latency reset clears too, is counted with the latency. What a target's health
answers is left open: verification can fail at any time. Operator
authentication, notes and result texts are left out.

### DecisionEngine

A request thread of `POST /decide` has the locals of `decide` (`signals`:
confidence, missing context and whether explanation or events speak of chaos;
`round`, `enriched`) and the fields of its `EngineDecision` that anybody acts on
(`action`, `escalated`, `llm`, `patched`, `opinion`). `Decide`, `Resolve`,
`Evaluate`, `Enrich` are the loop, with `SelectAction` for the policy and
`DecisionTable` for the table the policy is documented by. `ActRemediate`,
`ActRca` and `ActEscalate` begin the three executions, up to the first call;
then there is one action per HTTP call: `Propose`, `Announce`; `AskRca`,
`HearRca`, `LoseRca`, `Annotate`; `ReadDescription`, `PatchEscalation`. `Jobs`
are the analyses in the RCA engine, one for `run_rca` and one for
`analyze_incident_direct`: `Analyse`, `PersistRca` and `SuggestRemediation` are
`analyze_incident`, and go on when the caller has given up or died.

`ticket` has status, whether the severity was raised, who wrote
`remediation_notes` last and which escalations stand in the description. A PATCH
is one step here; the race inside incident-manager between its read and its
write is in `IncidentManager`. `rca_wait`, `rca_force` and
`patch_incident_context` have their defaults, and decisions are kept in memory
only, so a crash ends a request. The policy's branch for an exhausted budget
cannot be reached inside the loop (`EnrichedAtMostOnce`, a theorem, is why), and
so the statements after the loop are not in the model. The queue in front of the
optional Redis consumer is `ReliableQueue`.

### HybridDetector and Detector

`HybridDetector` judges one scrape. Samples are integers and the rolling z-score
is exact (squares are compared, no root is taken); what EWMA, STL and the
isolation forest say is an input, as far as their guards let them speak. `Vote`
is `_recompute_vote`. `Detector` keeps of a window its length up to
`MinSamples`, since from there on the statistical methods may say anything, and
uses the same `Vote` to bound what they can decide together.

`pc`, `services`, `alerts`, `channels` are the poll thread: `BeginPoll`,
`Evaluate` (scrape, judge and learn one service), `Notify` (cooldown and
pruning of `_last_fired`), one `Publish` per channel, `BeginSave` and `Save`.
`api` is the thread of POST /detect; it learns a sample while the poll thread
may be in the middle of `snapshot()`, which is why a save is two steps and may
see either value, or fail because a dictionary changed. `Start` restores the
checkpoint or fails to. Time is in cooldowns: an age of 0 is within one, 2 is
two or more. `world` holds the series that are beyond their threshold.

### Confidence, Evidence, RuleFallback and Diagnosis

These are the pure judgements. A world is what the backends would answer; a
backend may be down, and it may answer with a body of the wrong shape, which is
the only way into `gather_errors`. In `Confidence` a single query may fail too:
the helpers catch that, and go on to the next, broader query (`GatherLogs`,
`Visit`), so that a failure changes what is found and not only how much. What is
wrong with the body of a range query or a trace search escapes the helpers and
costs the family its source (`Escapes`, `lost`): lower quality, two penalties. A
log line is the set of words the code looks for in it, a pattern of the
catalogue the set of words it matches. `Confidence` follows
`confidence_scorer.py` in hundredths of points, `RuleFallback` follows
`rule_fallback.py` in points and tenths; where the code rounds, divisions round
down. `1 - exp(-x/3)` is the constant `Strength`. `PromptBlock` is the trimming
of evidence in `to_prompt_block`, with sizes for records; `Round` is one turn of
its loop, and `Trimmed` as many turns as there are records, since a turn that
finds nothing to do changes nothing. `Diagnosis` has no code of its own: its
actions change the world one report, outage, failing query or rate at a time, so
that TLC visits every situation.

### RcaEngine

`analyses` holds for every thread what `analyze_incident` has in its locals:
`Ask` is a request, `Enqueue` and `Reserve` the queue and its consumer, `Fetch`
the ticket with the skip, `GatherEvidence` and `RunModel` up to the call of
Bedrock, `Answered`, `CallFails`, `Unreadable` what may come of it (`AfterFailure`
is the retry, `Weighed` the comparison with the rules), `Persist`,
`PersistFails`, `ReturnOnly` and `Propose` the rest. `Touch` is anybody else who
changes the ticket, which moves `updated_at`, the date the skip looks at.
`stored` and `storedAge` are history. Age is in minutes up to the skip period.
What the worlds contain is gathered and analysed by `Evidence` and
`RuleFallback`, so actions proposed are the ones the rules suggest, and
`Classify` is what remediation makes of them.

### QualityAdvice and Reviews

`rows` are the two databases, `at` where the handler of a review is in each of
the two services, `computed` the reviews a handler has counted but not yet
published, `gauges` the reviews the gauges were computed from (numbers are a
function of reviews, so the reviews are kept). `StoreFeedback`, `Compute`,
`Record`, `CloseTicket` are POST /feedback; `StoreReview`, `Compute`, `Record`,
`NoteReview`, `Push` are POST /qa/reviews, whose `Push` starts a handler in the
collector. Any call may fail and is let go; a service may be restarted.
`QualityAdvice` has the statistics and the advice of both tuners, with rates in
1/10000, the places the code rounds to. Weights are normalised as the code does.

## Runs

| run | instance | shows |
|---|---|---|
| `queue` | 4 payloads, the second poison, 1 retry, recovery limit 1, 4 faults | types, the safety properties, refinement of `Delivery`, and that everything settles |
| `incidents` | consumer and one API thread, 2 anomalies, 1 manual ticket, resolving PATCHes, 1 fault | refinement of `Intake` (no second ticket or push, none for a repetition), attribution and counting under interleaving |
| `incidents_serial` | consumer alone, 4 anomalies of 3 metrics on 2 services, 2 faults, direct RCA on | the ticket reflects what was delivered; one open ticket per cascade; every anomaly ends in a ticket |
| `remediation` | 2 threads, a latency reset and a restart of one service, 1 fault | mutual exclusion, approval, truthful outcomes, no lock forgotten |
| `remediation_live` | 1 thread, an error reset, a custom action, a false positive, no verification, 1 fault | requests are answered, locks come free |
| `remediation_reject` | 1 thread, 1 action | finding: a rejection is overwritten |
| `decisions` | 2 requests about one ticket, 9 bodies (one without incident id, one dry, two forced), 5 answers of the detector, 1 fault | decisions follow the table on fresh signals, say what they did, reach the ticket, and end |
| `detector` | 2 services with one guarded series each, 2 channels, windows of 1 sample, pruning from the second entry on, 2 faults | no storm within a cooldown, no save that forgets, a lasting breach is published again and again |
| `rca` | 1 request thread and the consumer on one ticket, 2 requests, 2 attempts, a skip period of 2, a sure and a weak answer, a cascade and a blind world, 1 fault | only stored causes are proposed; no repetition; the better of two answers; every message has its turn |
| `rca_restart_advice` | the same | finding: advice against a restart becomes a restart |
| `diagnosis` | 2 findings, 2 series, up to 2 rows and 2 traces around an anomaly, 1 query of it that fails or is garbled; 1 row per service, 4 rates, 1 trace and garbled answers around an incident; 5 records of 3 sizes for a prompt of 12 | confidence needs context, a lost backend or answer adds none, certainty is grounded, trimming is fair |
| `reviews` | 2 reviews of 5 bodies through either service, on 0 or 2 older ones, 1 fault | tickets are closed on record, advisors agree, advice keeps its scale, gauges settle |

Nine more configurations are counterexamples of findings or of observations
below; each ends with a violation of the one property it names and is
reproduced with `tlc -config <cfg> <module>`:

| configuration | property | shows |
|---|---|---|
| `MCReliableQueueLoss.cfg` | `NeverDisappears` | a failing payload can be in no list |
| `MCIncidentManagerStale.cfg` | `MergeKeepsDiagnosis` | a merge undoes a concurrent PATCH |
| `MCIncidentManagerCrash.cfg` | `AckedWasFannedOut` | a ticket that is never handed over |
| `MCRemediationAlias.cfg` | `MutationsAreSerialized` | two names of one service, two locks |
| `MCDecisionEngineDown.cfg` | `RcaDownEscalates` | a decision nobody analysed is not escalated |
| `MCDetectorRestore.cfg` | `RestartKeepsBaseline` | a failed restore costs the baseline |
| `MCDiagnosisPrompt.cfg` | `PriorityEvidenceSurvives` | a prompt without evidence although some would fit |
| `MCDiagnosisFailure.cfg` | `FailureIsPenalised` | a query that fails raises the confidence |
| `MCReviewsThin.cfg` | `RaisedOnEnoughVotes` | one vote raises the thresholds |

Every property of a passing run has a mutant in `PROJECT.json`: a definition
changed the way a plausible bug would change it, under which TLC finds the
property violated.

### Bounds, and why they are enough

- *Queue.* Reordering needs a payload before and one after the poison one;
  recovery with its limit needs two reservations in flight, hence two lost
  replies; four faults leave two more to hit the retry key and the
  acknowledgement of the same payload. `MaxRetries = 1` separates the first
  failure from the last. `recovered < RecoverLimit` is reached with limit 1.
- *Incidents.* The races are between two threads, and two anomalies are enough
  for one to be merged, in the wrong or right ticket, while the other is
  delivered twice. `a1` and `a4` are neighbours of different families; the
  serial run has two anomalies of one series, one of a neighbour and the same
  family under another metric name, and one of another family. Windows pass at
  any time. A hand-made ticket may be of an anomaly's own series or of its
  cascade, so both kinds of merge are raced. `MaxManual` bounds hand-made
  tickets, `MaxFaults` the crashes and errors.
- *Remediation.* Two requests, of one or of two actions, are enough for a lock
  to be contended, left behind and released by the wrong one; one fault is a
  crash, a lost reply, a failed write or an injection at any place. The restart
  changes chaos under the same lock and is the high-risk action.
  Safety holds for any number of everything by the theorems below.
- *Decisions.* Two requests and their analyses are enough for one to write the
  ticket between any two steps of the other. Scores lie on and below both
  thresholds, one missing context is critical and one is not, and the detector
  may raise, lower or withdraw everything. One fault is a lost or failed call
  or a crash anywhere; losing both calls to the RCA engine needs two, which
  `MCDecisionEngineDown.cfg` has.
- *Detector.* With one entry allowed and two series every firing of the second
  prunes; with one sample a window is warm from the second poll on, so both
  states of the statistical methods occur before and after a restore. Two faults
  are a crash and a failed restore, or a failed save, or a failed publication
  and a restart. The safety properties are theorems for any number of these.
- *RCA.* Two analyses overlap in every way, the second from the same or the
  other source; an age of 2 separates fresh, older and no longer recent; in one
  world the rules are surer than the weak answer, in the other less sure, and
  two attempts separate a retry from the last failure. `Touch` and time are not
  bounded.
- *Diagnosis.* Two rows or traces are enough for the newest to differ from the
  best, and for logs that match and do not match a trace; three services are a
  ticket's, a dependency's and a shared dependency's. The two findings are one
  that a trace id matters for and one whose bonus is capped, each with its
  metric as the detector's feature. Any backends may be down on top of one query
  that fails or is garbled, and the property looks at one more loss; the queries
  of one series stand for those of the others, and the theorem has no bound.
  Five records of sizes 1 to 3 against a budget of 12 with 4 fixed reach the
  trimming of one list, of several, and of all.
- *Reviews.* Two reviews race in one service and meet across the two; two older
  ones put either tuner just at its sample limit, so that the new reviews move
  it over, in both directions.
- `SYMMETRY` is used in `remediation` only, over threads, and no temporal
  property is checked there.

`CHECK_DEADLOCK FALSE` is said where the system really stops: the producer of
the queue has a last payload and the serial consumer a last anomaly; a decision
engine stops when each request has its answer, and the requests of `rca` are
bounded likewise; a detector whose faults are used up, and a situation of
`diagnosis` to which nothing can be added, are ends. In the other runs requests,
operators or scrapes always can do something.

### Fairness

- `ReliableQueue`: weak fairness of `Start`, because the container is restarted
  (`restart: unless-stopped`), and of the worker's loop, a `while` around a
  blocking pop. Nothing of producers or faults.
- `IncidentManager`: weak fairness of the consumer's steps, the same loop. A
  handler that raises is redelivered; since faults are bounded it ends.
  Nothing is assumed of API threads or clients.
- `Remediation`: weak fairness of a request thread's own steps, none of which
  waits for another thread (a held lock is answered with "blocked"), and of
  `LockExpires`, the passing of time. Nothing of the arrival of requests,
  rejections or injections.

- `DecisionEngine`: weak fairness of each request's own steps and of each
  analysis, threads that wait only for answers; an answer not given is a fault
  or an analysis that ends. Nothing of the arrival of requests, of faults, or of
  timeouts: a call that is answered need not time out.
- `Detector`: weak fairness of `Start` (the container is restarted), of the poll
  thread's own steps without their failures (a loop that waits for nobody but
  calls with a timeout), and of the passing of time. Nothing of POST /detect, of
  the world or of faults.
- `RcaEngine`: weak fairness of each thread's own steps, failures included (each
  call has a timeout), and of `Reserve`, the consumer's polling. Nothing of
  requests, of `Touch`, or of an answer being good.
- `Reviews`: weak fairness of each handler (each call has a timeout) and of
  `Scrape`, which Prometheus does on a schedule. Nothing of reviews or restarts.
- `Diagnosis` has no fairness: it enumerates situations.

## Theorems

All proofs are checked by TLAPS. Every safety invariant of a passing run has a
theorem. The assumptions on constants are the named `ASSUME`s of the modules,
which say what type each constant has, that each service is its own endpoint,
that the catalogue's phrases are finitely many, and that an older review has an
id of its own; and those a theorem states itself, which are given below.
N payloads, threads, anomalies, services, actions, reviews, records and faults are
arbitrary.

**Queue.** `IInv` = types, `OnePlace` (a payload is in at most one of queue,
in-flight, done, dead), `OnlySent`, `WorkerInv` (what the program counter says
about the payload held) and `AttemptsInv` (the retry key never runs ahead of
the failures). The last is why `DeadLetterEarned` is not inductive alone: a
lost reply of INCR counts an attempt, but only after a failure. From it follow
`TypeCorrect`, `AcksAreEarned`, `DeadLettersAreEarned`, `NoLoss`, the action
property `SettledFinality`, and `Refinement`: every step is a step of `Delivery`
or leaves its status, `ok` and `fails` unchanged. `OrderIsKept` adds that without
a fault the list is in the order of sending, a retry included, and that whatever
was sent is settled, in the list or held (`FifoInv`).

**Incidents.** `IInv` adds `ThreadInv` (a stale copy never differs from its row
in service, metric or source anomaly; a target chosen is one the anomaly may be
attributed to) and `PushInv` (nobody pushes before the marker is committed, and
then only the thread that committed it). From it follow `TypeCorrect`,
`NoDuplicateTicket`, `NoDuplicatePush` and `LocalAttribution`. Three stronger
properties need invariants of their own on top. `TicketsAreAnnounced` assumes
that somebody is to be told (`DecisionEnabled \/ RcaEnabled`); its invariant
follows a new row from the commit to the push. `OccurrencesAreReal` counts: a
stale copy never claims more than was merged by the time it was read
(`CountInv`). `OneTicketPerCascade` and `TicketsShowDeliveries` assume that the
consumer alone handles anomalies (`ApiThreads = {}`) and that the topology is
used; then what a search found is still true when its result is written
(`SoloInv`). With a second handler neither holds: both can search before either
inserts, or merge from copies of the same row. `IntakeIsKept` is the refinement
of `Intake`, for any number of threads. It needs `HeraldInv`, since the decision
to announce is taken where the ticket is looked up and carried out after it was
written: who is about to announce opened the ticket or is of its cascade.

**Remediation.** `IInv` adds `CurInv`, `LockInv` (the lock of a key belongs to
the action of the request inside), `ApprovalInv` (every row and every copy whose
status only an approved high-risk action can have belongs to one) and
`ResetInv`. From it follow `TypeCorrect`, `LockedSectionsExclude`,
`ApprovalIsRequired` and `LocksAreReturned`. `OutcomesAreReal` proves
`OutcomeIsTrue` under one more assumption, `OneNamePerEndpoint`: without it two
requests mutate one service at once, which is the finding of
`MCRemediationAlias.cfg`.

**Decisions.** `IInv` adds `LoopInv` (who may still enrich), `FreshInv` (the loop
works on what the detector said last), and for each request `OutcomeInv` (how
far the decision has got, which is why a demotion cannot leave two stories),
`TargetInv` (whoever calls about a ticket has one; the PATCH is the last step)
and `JobInv` (an analysis belongs to a decision that chose RCA; a second one
needs a fault). The lemma `PolicyIsTable` compares policy and table for every
threshold and context. From it follow `TypeCorrect`, `FollowsTable`,
`EnrichesOnce`, `OutcomeConsistent`, `EscalationReaches` and `OneProposal`.

**Detector.** `CooldownHolds` needs `CooldownInv`: a firing the cooldown still
covers is an entry of `_last_fired`, which the pruning must not drop
(`RecordFiringType` is the lemma). `BaselineSurvives` needs `ImageInv`: a save
under way has seen nothing the detector does not know, although POST /detect
learns meanwhile. `FlowInv` says what the loop's variables hold. From it follow
`TypeCorrect`, `CooldownIsKept` and `BaselineIsKept`.

**RCA.** `AnalysesInv`: an analysis that stores has a result, one that proposes
has stored it, an unforced one past the fetch found no recent RCA. `TicketsInv`:
a ticket was changed no earlier than an RCA was stored in it (`IsDated`), which
is why a skip that looks at `updated_at` errs to the safe side: others can make
it skip longer, never shorter. From it follow `TypeCorrect`, `ProposalsAreStored`
and `AnalysesAreNotRepeated`, in which what the rules compute plays no part, and
`WeakAnswersAreWeighed`, which needs only that an answer and a judgement of the
rules have a confidence in `Nat` (`EngineAssumption`, `RulesAssumption`).

**Reviews.** `RowKept` carries the row of a collector's handler from the insert
to the PATCH. From it follows `TicketsAreClosedOnRecord`. `TheAdvisorsAgree`
needs an invariant for the time without faults (`PInv`): each database is one of
the older ones grown by exactly the reviews whose handlers have got past the
insert (`GrownFrom`), and a handler of the collector is the second write of one
of Engine QA. When all is quiet both have grown by the same reviews, so they
tally the same votes on the anomaly, and the two thresholds on the same number
decide. It assumes that the two databases tallied the same at the start, since
the collector keeps what came to it directly, and `Raised # Lowered(Knobs.err)`:
thresholds beyond the range of the advice are moved to its end by either advice,
so that both may be the same numbers. It also assumes `FpWarn > 500`, a warn
level above the 5 % at which the collector lowers (the default is 25 %): the
collector compares the rate as it is and Engine QA the rate rounded to four
places (`RoundingKeepsTheSide`). `AdviceIsUsable` is arithmetic: a rate over
finitely many reviews is in `0..Whole` (`UpRateType`), a blend of rates is one
(`HealthIsARate`), four rounded shares add up to `Whole` but for two units
(`NormalizedAddsUp`), and a band is moved by five points at most
(`BandsStayApart`). It assumes that the bands in force are further apart than
that, and within 100, as the defaults are: with bands five points apart the
advice would make them equal.

**Judgements.** The situations of `Diagnosis` are exactly those of the right type
(`TypeOK`, invariant by `InitTyped` and `StepTyped`), so what remains is to prove
each promise of one arbitrary situation.

- `LossesDoNotPersuade`: a context that shows less of some families (`Poorer`)
  has no quality that is higher (`PoorerEarnsLess`) and no penalty less
  (`PoorerLosesMore`), and one more backend down (`SilencePoorer`) or one more
  garbled answer (`GarblingPoorer`) makes a context poorer, whatever queries fail
  already. That is not obvious, since the error rows are preferred to all rows
  and the traces to the rows in the choice of the trace id; and it is not true of
  one query that fails, which is finding 13. A source that was lost to a garbled
  answer is exempt: it is penalised, and a backend that is down is not, so that
  going down altogether lifts the penalty.
- `MetricsAloneDoNotConvince` assumes `Weight["metrics"] < 55`; the default is
  40. Metrics earn their weight at most, agreeing methods 15, and what is missing
  costs at least 30 (`BareContextIsPenalised`).
- `RulesClaimWhatTheyShow`: each stage of `rule_based_rca` hands on a list that
  names a pattern or a dependency, or a confidence of at most 55 (`Sound`), and an
  incomplete gathering at most 40 (`ErrorsAreCapped`).
- `NoKindPaysForAnother`: `Fair` is the invariant of the trimming loop. It holds of
  the lists untouched and is kept by each `Round`, because only the largest list
  loses a record (`RoundIsFair`, `LargestOfAll`).

Induction over data is done over a set of numbers (`SetInduction`: the set of n of
which a formula holds), since the induction rules of the library take an operator
as a parameter, which the provers installed cannot instantiate. `Iteration` gives
the function a recursion defines, `TotalIsASum` and `TrimmedIsFair` use it, and
`SomePlaceWins` is why a largest element exists. No module with a proof declares a
`RECURSIVE` operator.

Proved and in no run: `TypeOK` of all modules but the queue's (whose run checks
it), `PushedAtMostOnce` (which `ImplementsIntake` includes), `SettledIsFinal`,
`EnrichedAtMostOnce` and `OneProposalPerDecision`.

Only model-checked: everything under fairness (`EventuallySettled`,
`EventuallyProcessed`, `RequestsAreAnswered`, `LocksComeFree`, `DecisionsFinish`,
`BreachIsPublished`, `MessagesAreHandled`, `GaugesSettle`), which is outside what
TLAPS supports.

## Findings

Statements of the repository that do not hold of its code, quoted with their
lines in `PROJECT.json`. Where a configuration is named its counterexample
shows it; the others come from reading the code for the model.

1. *Poison payloads "reach a DLQ instead of disappearing".* `retry_or_dead_letter`
   takes the payload off the in-flight list before it writes it anywhere else.
   What does hold, and is proved, is `NoLossBeforeFailure`.
2. *A merge only updates the "metric snapshot".* It writes all columns of a row
   read two transactions earlier and undoes a PATCH in between.
3. *"Single control-plane fan-out after a new ticket".* At most once is proved;
   a crash between commit and push makes it zero, since the redelivery finds
   the marker.
4. *"Rejected action cannot be executed".* A rejection between the executor's
   read and its write is overwritten with executed.
5. *"Per-service lock serializes mutations".* The lock is per target name, and
   every unknown name is sent to checkout.
6. *"Escalate if RCA is down on medium path".* When both calls to the RCA
   engine fail the empty result is kept, the confidence of no model is not too
   low, and the ticket is annotated as if there were suggestions.
7. *Advice is inverted* (`rca_restart_advice`). "Do not restart X until
   dependency is healthy" is sent to remediation, which finds the word restart
   and files a restart of X.
8. *"Preserving highest-priority evidence"* (`MCDiagnosisPrompt.cfg`). The
   included counts are added after the evidence was trimmed to the budget, and
   when they do not fit all the evidence is dropped. What holds is
   `NoKindIsStarved`.
9. *"Do not raise thresholds on thin data"* (`MCReviewsThin.cfg`). The gate counts
   reviews, the rate counts votes.
10. *"Restore detector baselines after restart"* (`MCDetectorRestore.cfg`). A start
    while Redis does not answer goes on without, and the next save overwrites
    what could have been restored. What holds, and is proved, is
    `BaselineSurvives`.
11. *"If a backend is down we record `gather_errors`".* The queries catch their own
    exceptions; a backend that is down looks like one with nothing to say, in
    the detector's gatherer as well. What `LossIsNotRewarded` shows is that the
    loss of a whole backend does not raise the detector's confidence; the loss
    of one query can (finding 13).
12. *"Keep current status".* Feedback that is not a false positive resolves the
    ticket whatever its status is.
13. *"Failures are non-fatal: we record `sources_ok` / `gather_errors` and still
    score (with penalties)"* (`MCDiagnosisFailure.cfg`). A query that fails is
    caught on the spot and the next, broader one is taken. When the one for
    error rows fails all rows are taken, which are more, or better traced; when
    a trace search fails the share of error traces may grow. Nothing is
    recorded, and the confidence rises.

Observations the models make visible, where no document promises otherwise:

- A late RCA or a note after an execution sets the status of a ticket a human
  has closed. Two unforced analyses that begin together both run.
- The RCA consumer acknowledges a message whatever `analyze_incident` answered;
  an analysis that could not read the ticket is not retried.
- A neighbour's logs count for blaming it when they contain any error word,
  also when the neighbour is healthy by its rates (`PeerScore`).
- A Prometheus that is down is not missed by the penalty for "no metrics at
  all", since a history is listed for every series, of no points when there is
  none (`GatherMetrics`). Metrics that were lost to a garbled answer are, if the
  detector has no feature to put in their place.
- A threshold outside the range of the tuning advice is moved to the range's
  end, in whichever direction that is (`Raised`, `Lowered`).
- Engine QA's hallucination rate may exceed one, since its numerator and its
  denominator count different reviews; the blended health clamps it.

## Not modelled

- *Floating-point statistics* (EWMA, STL, isolation forest): their verdicts are
  inputs, since TLC has no reals and the properties do not depend on them.
- *The ticket across services.* Each module has the steps of its own service on
  the ticket, with the other writers as an environment; one product of
  incident-manager, decision engine, RCA and remediation has more states than
  TLC can visit with a fault anywhere. The texts in `remediation_notes`, which
  three services overwrite, are in no model.
- *Texts*: prompts, parsing of the model's JSON, notes, summaries, formatting. A
  regular expression is the set of words it looks for.
- *The look-up of the incident with its retries* in the decision engine's opt-in
  consumer, and the opt-in Redis fan-out of incidents.
- *User interfaces*, whose requests are the requests the models take as inputs;
  telemetry and deep links, which keep no state; evaluation and load scripts,
  which run outside the system.
- *The shop's own endpoints*, load generators for the demo; their `/chaos` state is
  in `Remediation`.
