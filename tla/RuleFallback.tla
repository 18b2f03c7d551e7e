---------------------------- MODULE RuleFallback ----------------------------
(***************************************************************************)
(* RuleFallback: the deterministic root cause analysis, from an evidence   *)
(* pack to a cause, a confidence and suggested actions, and how the        *)
(* remediation service classifies those actions.                           *)
(*                                                                         *)
(* A text is the set of words that matter to somebody who reads it.  A     *)
(* cause is a record of its kind and the service it blames; an action a    *)
(* record of its words, the service it names first, and whether it says    *)
(* not to do it.                                                           *)
(***************************************************************************)
EXTENDS Evidence

CONSTANTS Patterns,        \* the catalog, in file order
          BlobRows,        \* rows the pattern matcher reads
          ErrElevated, ErrHigh, LatElevated, ErrMargin, LatMargin

ErrorWords      == {"error", "fail", "timeout", "exception", "fatal"}
DependencyWords == {"error", "timeout", "pool", "fail", "saturated", "lock"}

AtLeast(a, b) == IF a >= b THEN a ELSE b
AtMost(a, b)  == IF a <= b THEN a ELSE b

NoCause == [kind |-> "none", service |-> NoService]
Words(rows) == UNION {rows[i].words : i \in DOMAIN rows}

(* The service a row is attributed to: its label, else one it mentions.    *)
Source(row) ==
  CASE row.neighbor # NoService -> row.neighbor
    [] row.label # NoService    -> row.label
    [] OTHER                    -> row.mentions

-----------------------------------------------------------------------------
(* _prefer_dependency_root.  Scores are in tenths.                         *)
PeerScore(pack, peer) ==
  LET rates == pack.neighbor_rates[peer]
      floor(x) == AtLeast(x, 0)
      sicker == /\ rates.err >= floor(pack.rates.err) + ErrMargin
                /\ rates.err >= 10
      slower == /\ rates.lat >= floor(pack.rates.lat) + LatMargin
                /\ rates.lat >= 5
      rows == SelectSeq(pack.neighbor_logs,
                        LAMBDA r : r.neighbor = peer \/ r.label = peer)
  IN  (IF sicker THEN rates.err ELSE 0)
        + (IF slower THEN rates.lat ELSE 0)
        + (IF Words(rows) \cap DependencyWords # {} THEN 20 ELSE 0)

(* The upstream blamed, or NoService.                                      *)
DependencyRoot(pack) ==
  LET upstream == pack.topology.upstream
      score(i) == IF upstream[i] \in DOMAIN pack.neighbor_rates
                    THEN PeerScore(pack, upstream[i]) ELSE 0
      best == {i \in DOMAIN upstream :
                 /\ score(i) >= 10
                 /\ \A j \in DOMAIN upstream :
                      score(j) < score(i) \/ (score(j) = score(i) /\ i <= j)}
  IN  IF best = {} THEN NoService ELSE upstream[CHOOSE i \in best : TRUE]

-----------------------------------------------------------------------------
(* PatternCatalog.match_logs for one pattern.                              *)
Phrases(pattern, rows) == pattern.phrases \cap Words(Limited(rows, BlobRows))

ChangeHit(pattern, events) ==
  \E i \in DOMAIN events : events[i].type \in pattern.changes

MatchScore(pattern, rows, events) ==
  pattern.priority + 5 * Cardinality(Phrases(pattern, rows))
    + (IF ChangeHit(pattern, events) THEN 8 ELSE 0)

(* The first pattern with the best score, 0 if none matches.               *)
BestMatch(rows, events) ==
  LET hits == {i \in DOMAIN Patterns :
                 Phrases(Patterns[i], rows) # {} \/ ChangeHit(Patterns[i], events)}
      score(i) == MatchScore(Patterns[i], rows, events)
  IN  IF hits = {} THEN 0
      ELSE CHOOSE i \in hits :
             \A j \in hits : score(j) < score(i) \/ (score(j) = score(i) /\ i <= j)

(* _service_hint_from_logs.                                                *)
ServiceHint(rows, fallback) ==
  LET named == SelectSeq(rows, LAMBDA r : Source(r) # NoService)
  IN  IF named = <<>> THEN fallback ELSE Source(Head(named))

(* A phrase of a shared resource while two services of the shop log.       *)
Shop == {"checkout", "payment", "inventory"}

SharedRoot(pattern, rows) ==
  LET label(r) == IF r.neighbor # NoService THEN r.neighbor ELSE r.label
      seen == {label(rows[i]) : i \in DOMAIN rows} \ {NoService}
      named == {rows[i].mentions : i \in DOMAIN rows}
  IN  /\ pattern.shared /\ Phrases(pattern, rows) # {}
      /\ Cardinality(seen) >= 2
      /\ Cardinality(seen \cap Shop) >= 2 \/ {"checkout", "payment"} \subseteq named

(* The service a match blames: the forced one, that of the row that holds  *)
(* the phrase, the one of the change event, else the first row's.          *)
BlamedByPattern(pattern, pack, rows) ==
  LET phrases == Phrases(pattern, rows)
      saying == SelectSeq(rows, LAMBDA r : r.words \cap phrases # {}
                                            /\ Source(r) # NoService)
      events == SelectSeq(pack.change_events,
                          LAMBDA e : e.type \in pattern.changes)
      hint == CASE pattern.force # NoService -> pattern.force
                [] pattern.prefer_logs -> ServiceHint(rows, pack.service)
                [] OTHER -> pack.service
  IN  CASE phrases = {} /\ events[1].service # NoService -> events[1].service
        [] phrases # {} /\ pattern.prefer_logs /\ pattern.force = NoService
             /\ saying # <<>> /\ ~SharedRoot(pattern, rows) -> Source(Head(saying))
        [] OTHER -> hint

-----------------------------------------------------------------------------
Action(words, target) == [words |-> words, target |-> target, negated |-> FALSE]

DependencyActions(peer, service) ==
  <<Action({"investigate"}, peer),
    [words |-> {"restart"}, target |-> service, negated |-> TRUE],
    Action({"open neighbors"}, NoService)>>

PatternActions(pattern, service) ==
  [i \in DOMAIN pattern.actions |-> Action(pattern.actions[i], service)]
    \o <<Action({"open logs"}, NoService)>>

Checklist(service) ==
  <<Action({"open grafana"}, service), Action({"check"}, NoService),
    Action({"inspect"}, NoService), Action({"rerun"}, NoService)>>

ErrorIsElevated(pack) == pack.rates.err >= ErrElevated

(* The payment service is known to be fine, and the ticket is of checkout. *)
PaymentHealthy(pack) ==
  /\ pack.service = "checkout"
  /\ "payment" \in DOMAIN pack.neighbor_rates
  /\ pack.neighbor_rates["payment"].err \in 0..4

Elevated(pack, kind) ==
  [kind |-> IF PaymentHealthy(pack) THEN "local" ELSE kind,
   service |-> pack.service]

(* Causes, confidence and actions so far: what each stage hands on.        *)
Stage(causes, confidence, actions) ==
  [causes |-> causes, confidence |-> confidence, actions |-> actions]

AfterTopology(pack) ==
  LET peer == DependencyRoot(pack)
  IN  IF peer = NoService THEN Stage(<<>>, 25, <<>>)
      ELSE Stage(<<[kind |-> "dependency", service |-> peer]>>,
                 AtMost(72, 55 + PeerScore(pack, peer) \div 10),
                 DependencyActions(peer, pack.service))

(* A match goes in front of the topology's cause only with a score of 90.  *)
AfterLogs(pack, rows, before) ==
  LET match == BestMatch(rows, pack.change_events)
      seen == before.confidence + (IF rows # <<>> THEN 10 ELSE 0)
      pattern == Patterns[match]
      blamed == BlamedByPattern(pattern, pack, rows)
      bit == IF SharedRoot(pattern, rows)
               THEN [kind |-> "shared", service |-> NoService]
               ELSE [kind |-> "pattern", service |-> blamed]
      leads == \/ before.causes = <<>>
               \/ MatchScore(pattern, rows, pack.change_events) >= 90
      bare == /\ rows # <<>> /\ Words(rows) \cap ErrorWords # {}
              /\ ErrorIsElevated(pack)
  IN  CASE match # 0 ->
             Stage(IF leads THEN <<bit>> \o before.causes
                            ELSE before.causes \o <<bit>>,
                   AtLeast(seen, pattern.base),
                   before.actions \o PatternActions(pattern, blamed))
        [] match = 0 /\ bare ->
             Stage(Append(before.causes, Elevated(pack, "elevated")),
                   AtLeast(seen, 50), Append(before.actions, Action({"open logs"}, NoService)))
        [] OTHER -> [before EXCEPT !.confidence = seen]

AfterTraces(pack, traces, before) ==
  LET slow == \E i \in DOMAIN traces : traces[i].ms >= 500
      blames == slow /\ before.causes = <<>>
  IN  IF traces = <<>> THEN before
      ELSE Stage(IF blames THEN <<[kind |-> "slow_trace", service |-> pack.service]>>
                           ELSE before.causes,
                 before.confidence + 5,
                 IF blames THEN <<Action({"open trace"}, NoService)>> ELSE before.actions)

(* Mutant: the confidence of an incomplete gathering is left as it is.     *)
AfterGatherErrorsMutant(pack, before) ==
  IF before.causes = <<>> /\ pack.errors # {}
    THEN Stage(<<[kind |-> "insufficient", service |-> pack.service]>>,
               before.confidence, <<Action({"restore"}, NoService)>>)
    ELSE before

(* An incomplete gathering caps the confidence.                            *)
AfterGatherErrors(pack, before) ==
  LET only_slow == \A i \in DOMAIN before.causes :
                     before.causes[i].kind = "slow_trace"
  IN  CASE pack.errors = {} -> before
        [] pack.errors # {} /\ before.causes = <<>> ->
             Stage(<<[kind |-> "insufficient", service |-> pack.service]>>,
                   AtMost(before.confidence, 30),
                   Append(before.actions, Action({"restore"}, NoService)))
        [] pack.errors # {} /\ before.causes # <<>> /\ only_slow
             /\ ErrorIsElevated(pack) ->
             Stage(<<[kind |-> "incomplete", service |-> pack.service]>>, 40,
                   Append(before.actions, Action({"restore"}, NoService)))
        [] OTHER -> [before EXCEPT !.confidence = AtMost(@, 40)]

(* The metrics alone, when nothing else named a cause.                     *)
AfterMetrics(pack, rows, before) ==
  CASE before.causes # <<>> -> before
    [] before.causes = <<>> /\ ErrorIsElevated(pack) ->
         Stage(<<IF pack.rates.err >= ErrHigh
                   THEN Elevated(pack, "elevated")
                   ELSE [kind |-> "elevated", service |-> pack.service]>>,
               AtLeast(before.confidence,
                       IF pack.rates.err >= ErrHigh THEN 55 ELSE 50),
               IF pack.rates.err >= ErrHigh
                 THEN <<Action({"check"}, pack.service),
                        Action({"inspect"}, NoService)>>
                 ELSE <<>>)
    [] before.causes = <<>> /\ ~ErrorIsElevated(pack)
         /\ pack.rates.lat >= LatElevated ->
         Stage(<<[kind |-> "latency", service |-> pack.service]>>,
               AtLeast(before.confidence, 45), <<>>)
    [] OTHER -> Stage(<<[kind |-> "insufficient", service |-> pack.service]>>,
                      AtMost(before.confidence, 30), <<Action({"rerun"}, NoService)>>)

(* rule_based_rca.                                                         *)
RuleBasedRca(pack) ==
  LET rows   == pack.logs \o pack.neighbor_logs
      traces == pack.traces \o pack.neighbor_traces
      final  == AfterMetrics(pack, rows,
                  AfterGatherErrors(pack,
                    AfterTraces(pack, traces,
                      AfterLogs(pack, rows, AfterTopology(pack)))))
  IN  [causes |-> final.causes,
       confidence |-> AtLeast(5, AtMost(75, final.confidence)),
       actions |-> Limited(FoldLeft(AddMissing, <<>>,
                                    IF final.actions = <<>>
                                      THEN Checklist(pack.service)
                                      ELSE final.actions), 8),
       trace |-> CASE pack.primary # NoTrace -> pack.primary
                   [] rows # <<>> /\ rows[1].trace # NoTrace -> rows[1].trace
                   [] OTHER -> SelectPrimaryTrace(traces, <<>>)]

-----------------------------------------------------------------------------
(* classify_action: the first high-risk word decides, whatever the rest of *)
(* the text says; a text with none of the words is a high-risk custom one. *)
HighWords == <<"restart", "scale", "rollback", "drain">>
LowWords  == {"reset", "check", "inspect", "open grafana", "investigate"}

Classify(action, default_service) ==
  LET target == IF action.target = NoService THEN default_service ELSE action.target
      high == {i \in DOMAIN HighWords : HighWords[i] \in action.words}
      low  == LowWords \cap action.words
  IN  [target |-> target,
       type |-> CASE high # {} -> HighWords[CHOOSE i \in high : \A j \in high : i <= j]
                  [] high = {} /\ "reset" \in low -> "reset"
                  [] high = {} /\ low # {} /\ "reset" \notin low -> "log_only"
                  [] OTHER -> "custom",
       risk |-> IF high = {} /\ low # {} THEN "low" ELSE "high"]
=============================================================================
