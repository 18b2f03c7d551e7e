------------------------------ MODULE RcaEngine ------------------------------
(***************************************************************************)
(* The RCA engine's analyses of tickets.  Each is started by a request, or *)
(* by the optional consumer of the incident queue, and goes through fetch, *)
(* gather, model, persist and fan-out; they run side by side on threads of *)
(* one process and meet at the ticket.                                     *)
(*                                                                         *)
(* Age counts minutes up to SkipAge, from which on an RCA is no longer     *)
(* recent.                                                                 *)
(***************************************************************************)
EXTENDS RuleFallback

CONSTANTS Incidents,
          ServiceOf,            \* [Incidents -> Services]: of the ticket
          Threads,              \* threads that serve requests
          Shown,                \* [Worlds -> what the backends then show]
          Answers,              \* what Bedrock may answer: confidence, actions
          MinBedrockConfidence, MaxAttempts, SkipAge,
          MaxRequests,          \* bound: requests and queued messages
          MaxFaults             \* bound: failed calls and restarts

Queue   == "queue"              \* the consumer's thread
Workers == Threads \cup {Queue}

Worlds  == DOMAIN Shown

ASSUME EngineAssumption ==
  /\ Incidents # {} /\ ServiceOf \in [Incidents -> Services]
  /\ Queue \notin Threads
  /\ MinBedrockConfidence \in Nat /\ MaxAttempts \in Nat \ {0}
  /\ SkipAge \in Nat \ {0} /\ MaxRequests \in Nat /\ MaxFaults \in Nat
  /\ \A answer \in Answers :
       "confidence" \in DOMAIN answer /\ answer.confidence \in Nat

VARIABLES
  analyses,     \* [Workers -> record]: the analysis a thread is in
  credentials,  \* _credentials_available: looked up once per process
  queue,        \* messages that wait in redis_queue_incidents
  tickets,      \* the incident manager's: rca, age (updated_at), status
  proposals,    \* what remediation was sent
  stored,       \* history: what was persisted
  storedAge,    \* history: [Incidents -> 0..SkipAge]: since the last persist
  asked, faults

vars == <<analyses, credentials, queue, tickets, proposals, stored,
          storedAge, asked, faults>>

NoResult == [causes |-> <<>>, confidence |-> 0, actions |-> <<>>, trace |-> NoTrace]
NoRca    == [mode |-> "none", result |-> NoResult, rules |-> -1]

Unstarted(i) == [pc |-> "idle", incident |-> i, forced |-> FALSE,
                 by_rules |-> FALSE, persist |-> TRUE, fresh |-> FALSE,
                 world |-> "none", attempt |-> 0, rca |-> NoRca]
Idle == Unstarted(CHOOSE i \in Incidents : TRUE)

Init ==
  /\ analyses = [w \in Workers |-> Idle]
  /\ credentials = "unknown"
  /\ queue = {}
  /\ tickets = [i \in Incidents |-> [rca |-> NoRca, age |-> 0, status |-> "open"]]
  /\ proposals = {} /\ stored = {}
  /\ storedAge = [i \in Incidents |-> SkipAge]
  /\ asked = 0 /\ faults = 0

Fault == faults < MaxFaults /\ faults' = faults + 1

Move(w, analysis) == analyses' = [analyses EXCEPT ![w] = analysis]

-----------------------------------------------------------------------------
(* POST /rca/analyze, in the background or not, and /analyze-incident.     *)
Ask(w, i, forced, by_rules, persist) ==
  /\ asked < MaxRequests /\ analyses[w].pc = "idle"
  /\ asked' = asked + 1
  /\ Move(w, [Unstarted(i) EXCEPT !.pc = "fetch", !.forced = forced,
                                  !.by_rules = by_rules, !.persist = persist])
  /\ UNCHANGED <<credentials, queue, tickets, proposals, stored, storedAge,
                 faults>>

(* The incident manager's fan-out.                                         *)
Enqueue(i) ==
  /\ asked < MaxRequests
  /\ asked' = asked + 1
  /\ queue' = queue \cup {i}
  /\ UNCHANGED <<analyses, credentials, tickets, proposals, stored, storedAge,
                 faults>>

(* The consumer: unforced.  What analyze_incident answers is not looked    *)
(* at, so every message it ends with is acknowledged.                      *)
Reserve(i) ==
  /\ analyses[Queue].pc = "idle" /\ i \in queue
  /\ queue' = queue \ {i}
  /\ Move(Queue, [Unstarted(i) EXCEPT !.pc = "fetch"])
  /\ UNCHANGED <<credentials, tickets, proposals, stored, storedAge, asked,
                 faults>>

(* Mutant: an RCA is recent whenever the ticket has just been created or   *)
(* changed, and a later one is not.                                        *)
RecentlyAnalyzedMutant(ticket) == ticket.rca.mode # "none" /\ ticket.age = 0

(* _recently_analyzed: by the ticket's updated_at, not the RCA's time.     *)
RecentlyAnalyzed(ticket) == ticket.rca.mode # "none" /\ ticket.age < SkipAge

(* The ticket cannot be read, is left alone, or goes on to the gathering.  *)
Fetch(w) ==
  LET a == analyses[w]
      skip == ~a.forced /\ RecentlyAnalyzed(tickets[a.incident])
  IN  /\ a.pc = "fetch"
      /\ \/ Fault /\ Move(w, Idle)
         \/ /\ skip /\ Move(w, Idle)
            /\ UNCHANGED faults
         \/ /\ ~skip
            /\ Move(w, [a EXCEPT !.pc = "gather",
                                 !.fresh = storedAge[a.incident] < SkipAge])
            /\ UNCHANGED faults
      /\ UNCHANGED <<credentials, queue, tickets, proposals, stored, storedAge,
                     asked>>

(* What is gathered for a ticket in each world, and what the rules make of *)
(* it.                                                                     *)
Judged(world, i) ==
  LET pack == Gather(Shown[world], ServiceOf[i])
  IN  [world |-> world, incident |-> i, primary |-> pack.primary,
       rules |-> RuleBasedRca(pack)]

Judgements == {Judged(x[1], x[2]) : x \in Worlds \X Incidents}

Judgement(a) ==
  CHOOSE j \in Judgements : j.world = a.world /\ j.incident = a.incident

(* The confidence of the rules is a number, whatever they are shown.       *)
ASSUME RulesAssumption == \A j \in Judgements : j.rules.confidence \in Nat

GatherEvidence(w) ==
  LET a == analyses[w]
  IN  /\ a.pc = "gather"
      /\ \E world \in Worlds :
           Move(w, [a EXCEPT !.pc = "model", !.world = world])
      /\ UNCHANGED <<credentials, queue, tickets, proposals, stored, storedAge,
                     asked, faults>>

-----------------------------------------------------------------------------
(* A trace neither the model nor the rules chose is the pack's.            *)
Ready(a, mode, result, rules) ==
  [a EXCEPT !.pc = "persist",
            !.world = "none", !.attempt = 0,
            !.rca = [mode |-> mode, rules |-> rules,
                     result |-> [result EXCEPT !.trace =
                                   IF @ = NoTrace THEN Judgement(a).primary
                                                  ELSE @]]]

ByRules(a) == Ready(a, "rule_based", Judgement(a).rules, -1)

(* _run_model up to the call: rules by request, or without credentials.    *)
RunModel(w) ==
  LET a == analyses[w]
  IN  /\ a.pc = "model"
      /\ IF a.by_rules THEN UNCHANGED credentials
         ELSE credentials' \in IF credentials = "unknown"
                                 THEN {"found", "missing"} ELSE {credentials}
      /\ Move(w, IF ~a.by_rules /\ credentials' = "found"
                   THEN [a EXCEPT !.pc = "converse", !.attempt = 1]
                   ELSE ByRules(a))
      /\ UNCHANGED <<queue, tickets, proposals, stored, storedAge, asked, faults>>

(* Mutant: the model's answer is kept whenever there is one.               *)
WeighedMutant(a, answer, rules) == Ready(a, "bedrock", answer, -1)

(* An answer of low confidence gives way to rules that are as confident;   *)
(* they take its trace if they have none.                                  *)
Weighed(a, answer, rules) ==
  IF answer.confidence < MinBedrockConfidence
    THEN IF rules.confidence >= answer.confidence
           THEN Ready(a, "rule_based",
                      [rules EXCEPT !.trace = IF @ = NoTrace THEN answer.trace ELSE @],
                      rules.confidence)
           ELSE Ready(a, "bedrock", answer, rules.confidence)
    ELSE Ready(a, "bedrock", answer, -1)

(* BedrockRCAClient.analyze.                                               *)
Answered(w) ==
  LET a == analyses[w]
  IN  /\ a.pc = "converse"
      /\ \E answer \in Answers :
           Move(w, Weighed(a, answer, Judgement(a).rules))
      /\ UNCHANGED <<credentials, queue, tickets, proposals, stored, storedAge,
                     asked, faults>>

(* Mutant: after the last attempt the model is run again.                  *)
AfterFailureMutant(a) ==
  IF a.attempt < MaxAttempts THEN [a EXCEPT !.attempt = @ + 1]
                             ELSE [a EXCEPT !.pc = "model", !.attempt = 0]

(* A call that may be repeated, until the attempts are used up.            *)
AfterFailure(a) ==
  IF a.attempt < MaxAttempts THEN [a EXCEPT !.attempt = @ + 1] ELSE ByRules(a)

CallFails(w) ==
  /\ analyses[w].pc = "converse"
  /\ Move(w, AfterFailure(analyses[w]))
  /\ UNCHANGED <<credentials, queue, tickets, proposals, stored, storedAge,
                 asked, faults>>

(* An empty answer, or one parse_rca_json cannot read, is not retried.     *)
Unreadable(w) ==
  /\ analyses[w].pc = "converse"
  /\ Move(w, ByRules(analyses[w]))
  /\ UNCHANGED <<credentials, queue, tickets, proposals, stored, storedAge,
                 asked, faults>>

-----------------------------------------------------------------------------
(* persist_rca: one PATCH of cause, confidence, notes and status, whatever *)
(* became of the ticket since it was fetched.                              *)
Persist(w) ==
  LET a == analyses[w]
  IN  /\ a.pc = "persist" /\ a.persist
      /\ tickets' = [tickets EXCEPT ![a.incident] =
                       [rca |-> a.rca, age |-> 0, status |-> "investigating"]]
      /\ stored' = stored \cup {[incident |-> a.incident, rca |-> a.rca]}
      /\ storedAge' = [storedAge EXCEPT ![a.incident] = 0]
      /\ Move(w, [a EXCEPT !.pc = "propose"])
      /\ UNCHANGED <<credentials, queue, proposals, asked, faults>>

(* Mutant: a failed PATCH is logged and the actions are proposed.          *)
PersistFailsMutant(w) ==
  LET a == analyses[w]
  IN  /\ a.pc = "persist" /\ a.persist /\ Fault
      /\ Move(w, [a EXCEPT !.pc = "propose"])
      /\ UNCHANGED <<credentials, queue, tickets, proposals, stored, storedAge,
                     asked>>

(* The PATCH fails: the answer says partial, and nothing is proposed.      *)
PersistFails(w) ==
  LET a == analyses[w]
  IN  /\ a.pc = "persist" /\ a.persist /\ Fault
      /\ Move(w, Idle)
      /\ UNCHANGED <<credentials, queue, tickets, proposals, stored, storedAge,
                     asked>>

(* persist=false: the result is only returned.                             *)
ReturnOnly(w) ==
  /\ analyses[w].pc = "persist" /\ ~analyses[w].persist
  /\ Move(w, Idle)
  /\ UNCHANGED <<credentials, queue, tickets, proposals, stored, storedAge,
                 asked, faults>>

(* _fanout_remediation: a failure is logged.                               *)
Propose(w) ==
  LET a == analyses[w]
  IN  /\ a.pc = "propose"
      /\ \/ /\ proposals' = proposals \cup {[incident |-> a.incident, rca |-> a.rca]}
            /\ UNCHANGED faults
         \/ Fault /\ UNCHANGED proposals
      /\ Move(w, Idle)
      /\ UNCHANGED <<credentials, queue, tickets, stored, storedAge, asked>>

-----------------------------------------------------------------------------
(* An operator resolves the ticket, or an anomaly is merged into it.       *)
Touch(i) ==
  /\ tickets[i].status # "resolved"
  /\ \E status \in {tickets[i].status, "resolved"} :
       tickets' = [tickets EXCEPT ![i].age = 0, ![i].status = status]
  /\ UNCHANGED <<analyses, credentials, queue, proposals, stored, storedAge,
                 asked, faults>>

Older(age) == IF age < SkipAge THEN age + 1 ELSE age

Tick ==
  /\ \E i \in Incidents : storedAge[i] < SkipAge \/ tickets[i].age < SkipAge
  /\ tickets' = [i \in Incidents |-> [tickets[i] EXCEPT !.age = Older(@)]]
  /\ storedAge' = [i \in Incidents |-> Older(storedAge[i])]
  /\ UNCHANGED <<analyses, credentials, queue, proposals, stored, asked, faults>>

(* The process is restarted: its threads are gone, and recover_inflight    *)
(* puts the consumer's message back.                                       *)
Restart ==
  /\ Fault
  /\ queue' = IF analyses[Queue].pc = "idle" THEN queue
              ELSE queue \cup {analyses[Queue].incident}
  /\ analyses' = [w \in Workers |-> Idle]
  /\ credentials' = "unknown"
  /\ UNCHANGED <<tickets, proposals, stored, storedAge, asked>>

Request == \E w \in Threads, i \in Incidents, forced, by_rules, persist \in BOOLEAN :
             Ask(w, i, forced, by_rules, persist)

(* The next step of an analysis.                                           *)
Work(w) ==
  \/ Fetch(w)   \/ GatherEvidence(w) \/ RunModel(w)
  \/ Answered(w) \/ CallFails(w) \/ Unreadable(w)
  \/ Persist(w) \/ PersistFails(w) \/ ReturnOnly(w) \/ Propose(w)

Next ==
  \/ Request \/ Tick \/ Restart
  \/ \E i \in Incidents : Enqueue(i) \/ Reserve(i) \/ Touch(i)
  \/ \E w \in Workers : Work(w)

(* Every call of an analysis has a timeout, and the consumer polls.        *)
Fairness ==
  /\ \A w \in Workers : WF_vars(Work(w))
  /\ WF_vars(\E i \in Incidents : Reserve(i))

Spec == Init /\ [][Next]_vars /\ Fairness

-----------------------------------------------------------------------------
PastFetch == {"gather", "model", "converse", "persist", "propose"}
Phases    == PastFetch \cup {"idle", "fetch"}

(* Every variable has its type.                                            *)
TypeOK ==
  /\ \A w \in Workers :
       /\ analyses[w].pc \in Phases
       /\ analyses[w].incident \in Incidents
       /\ {analyses[w].forced, analyses[w].by_rules, analyses[w].persist,
           analyses[w].fresh} \subseteq BOOLEAN
       /\ analyses[w].attempt \in 0..MaxAttempts
  /\ credentials \in {"unknown", "found", "missing"}
  /\ queue \subseteq Incidents
  /\ \A i \in Incidents :
       /\ tickets[i].age \in 0..SkipAge
       /\ tickets[i].status \in {"open", "investigating", "resolved"}
  /\ storedAge \in [Incidents -> 0..SkipAge]
  /\ asked \in 0..MaxRequests /\ faults \in 0..MaxFaults

(* Remediation only hears of actions whose cause was written to the        *)
(* ticket: a result that could not be stored, or was not to be, proposes   *)
(* nothing, however many analyses of the ticket overlap.                   *)
ProposedWasStored == proposals \subseteq stored

(* "Dedup: skip re-analysis if confidence already set within N minutes":   *)
(* an unforced analysis that began after another was stored does not run   *)
(* within SkipAge of it, even though the test reads the ticket's           *)
(* updated_at, which other writers move.                                   *)
NoRedundantAnalysis ==
  \A w \in Workers :
    analyses[w].pc \in PastFetch /\ ~analyses[w].forced => ~analyses[w].fresh

(* What is stored is never a weak answer of the model for which the rules  *)
(* were as confident, and rules that replaced an answer were.              *)
BetterOfBoth ==
  \A s \in stored :
    s.rca.mode = "bedrock" /\ s.rca.result.confidence < MinBedrockConfidence =>
      /\ s.rca.rules # -1
      /\ s.rca.rules < s.rca.result.confidence

(* Every message of the queue gets its turn, across retries of the model   *)
(* and restarts of the process.                                            *)
MessagesAreHandled ==
  \A i \in Incidents :
    i \in queue ~> i \notin queue /\ analyses[Queue].pc = "idle"

(* "Do not restart X until its dependency is healthy" is not proposed as a *)
(* restart of X: an action that advises against something is not           *)
(* classified as that thing.                                               *)
AdviceIsNotInverted ==
  \A p \in proposals : \A k \in DOMAIN p.rca.result.actions :
    LET action == p.rca.result.actions[k]
    IN  action.negated =>
          Classify(action, ServiceOf[p.incident]).type \notin action.words
=============================================================================
