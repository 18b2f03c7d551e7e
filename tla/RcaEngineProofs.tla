--------------------------- MODULE RcaEngineProofs ---------------------------
(***************************************************************************)
(* What is proved of RcaEngine for every set of incidents, threads and     *)
(* worlds: the types of its control state, that nothing is proposed that   *)
(* was not stored, that an unforced analysis never repeats a recent one,   *)
(* and that the better of two answers is stored.  Of what the rules        *)
(* compute, only that their confidence is a number plays a part in it.     *)
(***************************************************************************)
EXTENDS RcaEngine, TLAPS

Fields == {"pc", "incident", "forced", "by_rules", "persist", "fresh",
           "world", "attempt", "rca"}

(* A record an analysis may be in: what an EXCEPT needs to know of it.     *)
IsAnalysis(a) ==
  /\ a = [f \in Fields |-> a[f]]
  /\ a.pc \in Phases /\ a.incident \in Incidents
  /\ {a.forced, a.by_rules, a.persist, a.fresh} \subseteq BOOLEAN
  /\ a.attempt \in 0..MaxAttempts

(* One that stores has a result, one that proposes has stored it, and an   *)
(* unforced one found no recent RCA.                                       *)
IsSound(a, written) ==
  /\ a.pc \in {"persist", "propose"} => a.rca.mode # "none"
  /\ a.pc = "propose" => [incident |-> a.incident, rca |-> a.rca] \in written
  /\ a.pc \in PastFetch /\ ~a.forced => ~a.fresh

AnalysesInv ==
  /\ analyses = [w \in Workers |-> analyses[w]]
  /\ \A w \in Workers : IsAnalysis(analyses[w]) /\ IsSound(analyses[w], stored)
  /\ ProposedWasStored

(* A ticket was changed no earlier than an RCA was stored in it.           *)
IsDated(ticket, age) ==
  /\ ticket = [f \in {"rca", "age", "status"} |-> ticket[f]]
  /\ ticket.status \in {"open", "investigating", "resolved"}
  /\ ticket.age \in 0..SkipAge /\ ticket.age <= age
  /\ age < SkipAge => ticket.rca.mode # "none"

TicketsInv ==
  /\ tickets = [i \in Incidents |-> tickets[i]]
  /\ storedAge \in [Incidents -> 0..SkipAge]
  /\ \A i \in Incidents : IsDated(tickets[i], storedAge[i])

RestInv ==
  /\ credentials \in {"unknown", "found", "missing"}
  /\ queue \subseteq Incidents
  /\ asked \in 0..MaxRequests /\ faults \in 0..MaxFaults

IInv == AnalysesInv /\ TicketsInv /\ RestInv

USE EngineAssumption

-----------------------------------------------------------------------------
LEMMA IInvImplies == IInv => TypeOK /\ NoRedundantAnalysis /\ ProposedWasStored
BY DEF IInv, AnalysesInv, TicketsInv, RestInv, IsAnalysis, IsSound, IsDated,
       TypeOK, NoRedundantAnalysis

LEMMA UnstartedIs ==
  ASSUME NEW i \in Incidents
  PROVE  /\ IsAnalysis(Unstarted(i))
         /\ Unstarted(i).pc = "idle" /\ Unstarted(i).incident = i
BY DEF Unstarted, Fields, IsAnalysis, Phases, PastFetch

(* What an analysis is after its phase or another field has changed.       *)
LEMMA WithPhase ==
  ASSUME NEW a, IsAnalysis(a), NEW pc \in Phases
  PROVE  LET b == [a EXCEPT !.pc = pc]
         IN  /\ IsAnalysis(b) /\ b.pc = pc
             /\ b.forced = a.forced /\ b.fresh = a.fresh
             /\ b.incident = a.incident /\ b.rca = a.rca
BY DEF IsAnalysis, Fields

LEMMA WithForced ==
  ASSUME NEW a, IsAnalysis(a), NEW flag \in BOOLEAN
  PROVE  LET b == [a EXCEPT !.forced = flag]
         IN  /\ IsAnalysis(b) /\ b.forced = flag
             /\ b.pc = a.pc /\ b.fresh = a.fresh
<1> DEFINE b == [a EXCEPT !.forced = flag]
<1>1. b = [g \in Fields |-> IF g = "forced" THEN flag ELSE a[g]]
  BY DEF IsAnalysis, Fields
<1> HIDE DEF b
<1>2. b = [g \in Fields |-> b[g]] /\ b.forced = flag
      /\ \A g \in Fields \ {"forced"} : b[g] = a[g]
  BY <1>1 DEF Fields
<1>3. IsAnalysis(b)
  BY <1>2 DEF IsAnalysis, Fields
<1> QED BY <1>2, <1>3 DEF b, Fields

LEMMA WithByRules ==
  ASSUME NEW a, IsAnalysis(a), NEW flag \in BOOLEAN
  PROVE  LET b == [a EXCEPT !.by_rules = flag]
         IN  /\ IsAnalysis(b) /\ b.by_rules = flag
             /\ b.pc = a.pc /\ b.forced = a.forced /\ b.fresh = a.fresh
<1> DEFINE b == [a EXCEPT !.by_rules = flag]
<1>1. b = [g \in Fields |-> IF g = "by_rules" THEN flag ELSE a[g]]
  BY DEF IsAnalysis, Fields
<1> HIDE DEF b
<1>2. b = [g \in Fields |-> b[g]] /\ b.by_rules = flag
      /\ \A g \in Fields \ {"by_rules"} : b[g] = a[g]
  BY <1>1 DEF Fields
<1>3. IsAnalysis(b)
  BY <1>2 DEF IsAnalysis, Fields
<1> QED BY <1>2, <1>3 DEF b, Fields

LEMMA WithPersist ==
  ASSUME NEW a, IsAnalysis(a), NEW flag \in BOOLEAN
  PROVE  LET b == [a EXCEPT !.persist = flag]
         IN  /\ IsAnalysis(b) /\ b.persist = flag
             /\ b.pc = a.pc /\ b.forced = a.forced /\ b.fresh = a.fresh
<1> DEFINE b == [a EXCEPT !.persist = flag]
<1>1. b = [g \in Fields |-> IF g = "persist" THEN flag ELSE a[g]]
  BY DEF IsAnalysis, Fields
<1> HIDE DEF b
<1>2. b = [g \in Fields |-> b[g]] /\ b.persist = flag
      /\ \A g \in Fields \ {"persist"} : b[g] = a[g]
  BY <1>1 DEF Fields
<1>3. IsAnalysis(b)
  BY <1>2 DEF IsAnalysis, Fields
<1> QED BY <1>2, <1>3 DEF b, Fields

LEMMA WithFresh ==
  ASSUME NEW a, IsAnalysis(a), NEW flag \in BOOLEAN
  PROVE  LET b == [a EXCEPT !.fresh = flag]
         IN  /\ IsAnalysis(b) /\ b.fresh = flag
             /\ b.pc = a.pc /\ b.forced = a.forced
<1> DEFINE b == [a EXCEPT !.fresh = flag]
<1>1. b = [g \in Fields |-> IF g = "fresh" THEN flag ELSE a[g]]
  BY DEF IsAnalysis, Fields
<1> HIDE DEF b
<1>2. b = [g \in Fields |-> b[g]] /\ b.fresh = flag
      /\ \A g \in Fields \ {"fresh"} : b[g] = a[g]
  BY <1>1 DEF Fields
<1>3. IsAnalysis(b)
  BY <1>2 DEF IsAnalysis, Fields
<1> QED BY <1>2, <1>3 DEF b, Fields

LEMMA FaultIs == ASSUME RestInv, Fault PROVE faults' \in 0..MaxFaults
BY DEF RestInv, Fault

(* A thread that moves to a sound record leaves sound analyses.            *)
LEMMA MoveKeeps ==
  ASSUME AnalysesInv, NEW w \in Workers, NEW x, IsAnalysis(x),
         IsSound(x, stored'), Move(w, x),
         stored \subseteq stored', proposals' \subseteq stored'
  PROVE  AnalysesInv'
<1>1. analyses = [v \in Workers |-> analyses[v]]
  BY DEF AnalysesInv
<1>2. analyses' = [v \in Workers |-> IF v = w THEN x ELSE analyses[v]]
  BY <1>1 DEF Move
<1>3. \A v \in Workers : IsAnalysis(analyses'[v])
  BY <1>2 DEF AnalysesInv
<1>4. \A v \in Workers : IsSound(analyses'[v], stored')
  <2> SUFFICES ASSUME NEW v \in Workers PROVE IsSound(analyses'[v], stored')
    OBVIOUS
  <2>1. CASE v = w
    BY <2>1, <1>2
  <2>2. CASE v # w
    <3>1. analyses'[v] = analyses[v] /\ IsSound(analyses[v], stored)
      BY <2>2, <1>2 DEF AnalysesInv
    <3> QED BY <3>1 DEF IsSound
  <2> QED BY <2>1, <2>2
<1> QED
  BY <1>2, <1>3, <1>4 DEF AnalysesInv, ProposedWasStored

LEMMA IdleIs == IsAnalysis(Idle) /\ \A written : IsSound(Idle, written)
<1>1. PICK i \in Incidents : Idle = Unstarted(i)
  BY DEF Idle
<1> QED BY <1>1, UnstartedIs DEF IsSound, PastFetch

(* Ready and what it is made of keep the record, and give it a result.     *)
LEMMA ReadyIs ==
  ASSUME NEW a, IsAnalysis(a), NEW mode \in {"rule_based", "bedrock"},
         NEW result, NEW rules
  PROVE  LET b == Ready(a, mode, result, rules)
         IN  /\ IsAnalysis(b)
             /\ b.pc = "persist" /\ b.rca.mode # "none"
             /\ b.forced = a.forced /\ b.fresh = a.fresh
<1> DEFINE traced == [result EXCEPT !.trace =
                        IF @ = NoTrace THEN Judgement(a).primary ELSE @]
           rca == [mode |-> mode, rules |-> rules, result |-> traced]
           b == [a EXCEPT !.pc = "persist", !.world = "none", !.attempt = 0,
                          !.rca = rca]
<1>1. Ready(a, mode, result, rules) = b
  BY DEF Ready
<1>2. rca.mode # "none"
  BY Zenon
<1> HIDE DEF rca
<1>3. b = [f \in Fields |-> CASE f = "pc" -> "persist" [] f = "world" -> "none"
                              [] f = "attempt" -> 0 [] f = "rca" -> rca
                              [] OTHER -> a[f]]
  BY DEF IsAnalysis, Fields
<1> HIDE DEF b
<1>4. /\ b.pc = "persist" /\ b.attempt = 0 /\ b.rca = rca
      /\ \A f \in {"incident", "forced", "by_rules", "persist", "fresh"} :
            b[f] = a[f]
  BY <1>3 DEF Fields
<1>5. IsAnalysis(b)
  BY <1>3, <1>4 DEF IsAnalysis, Fields, Phases, PastFetch
<1> QED
  BY <1>1, <1>2, <1>4, <1>5

LEMMA ByRulesIs ==
  ASSUME NEW a, IsAnalysis(a)
  PROVE  /\ IsAnalysis(ByRules(a))
         /\ ByRules(a).pc = "persist" /\ ByRules(a).rca.mode # "none"
         /\ ByRules(a).forced = a.forced /\ ByRules(a).fresh = a.fresh
BY ReadyIs DEF ByRules

LEMMA WeighedIs ==
  ASSUME NEW a, IsAnalysis(a), NEW answer, NEW rules
  PROVE  LET b == Weighed(a, answer, rules)
         IN  /\ IsAnalysis(b)
             /\ b.pc = "persist" /\ b.rca.mode # "none"
             /\ b.forced = a.forced /\ b.fresh = a.fresh
<1> DEFINE traced == [rules EXCEPT !.trace = IF @ = NoTrace THEN answer.trace ELSE @]
<1>1. CASE /\ answer.confidence < MinBedrockConfidence
           /\ rules.confidence >= answer.confidence
  <2>1. Weighed(a, answer, rules)
          = Ready(a, "rule_based", traced, rules.confidence)
    BY <1>1 DEF Weighed
  <2> HIDE DEF traced
  <2> QED BY <2>1, ReadyIs
<1>2. CASE /\ answer.confidence < MinBedrockConfidence
           /\ ~(rules.confidence >= answer.confidence)
  <2>1. Weighed(a, answer, rules) = Ready(a, "bedrock", answer, rules.confidence)
    BY <1>2 DEF Weighed
  <2> QED BY <2>1, ReadyIs
<1>3. CASE ~(answer.confidence < MinBedrockConfidence)
  <2>1. Weighed(a, answer, rules) = Ready(a, "bedrock", answer, -1)
    BY <1>3 DEF Weighed
  <2> QED BY <2>1, ReadyIs
<1> QED BY <1>1, <1>2, <1>3

-----------------------------------------------------------------------------
(* The steps that leave tickets and proposals alone.                       *)
LEMMA QuietStep ==
  ASSUME IInv, NEW w \in Workers, NEW x, IsAnalysis(x), IsSound(x, stored),
         Move(w, x), RestInv',
         UNCHANGED <<tickets, proposals, stored, storedAge>>
  PROVE  IInv'
<1>1. AnalysesInv'
  BY MoveKeeps DEF IInv, AnalysesInv, ProposedWasStored
<1>2. TicketsInv'
  BY DEF IInv, TicketsInv
<1> QED BY <1>1, <1>2 DEF IInv

LEMMA AskStep ==
  ASSUME IInv, NEW w \in Threads, NEW i \in Incidents,
         NEW forced \in BOOLEAN, NEW by_rules \in BOOLEAN, NEW persist \in BOOLEAN,
         Ask(w, i, forced, by_rules, persist)
  PROVE  IInv'
<1> DEFINE a == [Unstarted(i) EXCEPT !.pc = "fetch"]
           b == [a EXCEPT !.forced = forced]
           c == [b EXCEPT !.by_rules = by_rules]
           x == [c EXCEPT !.persist = persist]
<1>1. IsAnalysis(x) /\ x.pc = "fetch"
  <2>1. IsAnalysis(a) /\ a.pc = "fetch"
    BY UnstartedIs, WithPhase DEF Phases
  <2> HIDE DEF a
  <2>2. IsAnalysis(b) /\ b.pc = "fetch"
    BY <2>1, WithForced
  <2> HIDE DEF b
  <2>3. IsAnalysis(c) /\ c.pc = "fetch"
    BY <2>2, WithByRules
  <2> HIDE DEF c
  <2> QED BY <2>3, WithPersist
<1>2. Move(w, x) /\ UNCHANGED <<tickets, proposals, stored, storedAge>>
  BY DEF Ask
<1> HIDE DEF x
<1>3. IsSound(x, stored)
  BY <1>1 DEF IsSound, PastFetch
<1>4. RestInv'
  BY DEF Ask, IInv, RestInv
<1> QED BY <1>1, <1>2, <1>3, <1>4, QuietStep DEF Workers

LEMMA ReserveStep ==
  ASSUME IInv, NEW i \in Incidents, Reserve(i)
  PROVE  IInv'
<1> DEFINE x == [Unstarted(i) EXCEPT !.pc = "fetch"]
<1>1. IsAnalysis(x) /\ x.pc = "fetch"
  BY UnstartedIs, WithPhase DEF Phases
<1>2. Move(Queue, x) /\ UNCHANGED <<tickets, proposals, stored, storedAge>>
  BY DEF Reserve
<1> HIDE DEF x
<1>3. IsSound(x, stored)
  BY <1>1 DEF IsSound, PastFetch
<1>4. RestInv'
  BY DEF Reserve, IInv, RestInv
<1> QED BY <1>1, <1>2, <1>3, <1>4, QuietStep DEF Workers

(* An analysis that goes past the fetch is forced or found nothing recent, *)
(* because the ticket is at least as young as the RCA stored in it.        *)
LEMMA FetchStep ==
  ASSUME IInv, NEW w \in Workers, Fetch(w)
  PROVE  IInv'
<1> DEFINE a == analyses[w]
           recent == storedAge[a.incident] < SkipAge
           b == [a EXCEPT !.pc = "gather"]
           x == [b EXCEPT !.fresh = recent]
<1>1. IsAnalysis(a) /\ IsSound(a, stored)
  BY DEF IInv, AnalysesInv
<1>2. UNCHANGED <<tickets, proposals, stored, storedAge>>
  BY DEF Fetch
<1>3. RestInv'
  BY FaultIs DEF Fetch, IInv, RestInv
<1>4. CASE Move(w, Idle)
  BY <1>2, <1>3, <1>4, IdleIs, QuietStep
<1>5. CASE Move(w, x) /\ ~(~a.forced /\ RecentlyAnalyzed(tickets[a.incident]))
  <2> recent \in BOOLEAN
    OBVIOUS
  <2>3. a.forced \/ ~recent
    <3>1. IsDated(tickets[a.incident], storedAge[a.incident])
      BY <1>1 DEF IInv, TicketsInv, IsAnalysis
    <3>2. storedAge[a.incident] \in Nat
      BY <1>1 DEF IInv, TicketsInv, IsAnalysis
    <3> QED BY <1>5, <3>1, <3>2 DEF IsDated, RecentlyAnalyzed
  <2> HIDE DEF recent
  <2>0. IsAnalysis(b) /\ b.pc = "gather" /\ b.forced = a.forced
    BY <1>1, WithPhase DEF Phases, PastFetch
  <2> HIDE DEF b
  <2>1. /\ IsAnalysis(x) /\ x.pc = "gather" /\ x.forced = a.forced
        /\ x.fresh = recent
    BY <2>0, WithFresh
  <2> HIDE DEF x
  <2>4. IsSound(x, stored)
    BY <2>1, <2>3 DEF IsSound
  <2> QED BY <1>2, <1>3, <1>5, <2>1, <2>4, QuietStep
<1> QED BY <1>4, <1>5 DEF Fetch

LEMMA GatherStep ==
  ASSUME IInv, NEW w \in Workers, GatherEvidence(w)
  PROVE  IInv'
<1> DEFINE a == analyses[w]
<1>1. IsAnalysis(a) /\ IsSound(a, stored) /\ a.pc = "gather"
  BY DEF IInv, AnalysesInv, GatherEvidence
<1>2. PICK world \in Worlds : Move(w, [a EXCEPT !.pc = "model", !.world = world])
  BY DEF GatherEvidence
<1> DEFINE x == [a EXCEPT !.pc = "model", !.world = world]
<1>3. IsAnalysis(x)
  BY <1>1 DEF IsAnalysis, Fields, Phases, PastFetch
<1>4. x.pc = "model" /\ x.forced = a.forced /\ x.fresh = a.fresh
  BY <1>1 DEF IsAnalysis, Fields
<1>5. Move(w, x)
  BY <1>2
<1> HIDE DEF x
<1>6. IsSound(x, stored)
  BY <1>1, <1>4 DEF IsSound, PastFetch
<1> QED BY <1>3, <1>5, <1>6, QuietStep DEF GatherEvidence, IInv, RestInv

(* From the model to a result: a sound analysis stays one.                 *)
LEMMA ModelStep ==
  ASSUME IInv, NEW w \in Workers,
         RunModel(w) \/ Answered(w) \/ CallFails(w) \/ Unreadable(w)
  PROVE  IInv'
<1> DEFINE a == analyses[w]
<1>1. IsAnalysis(a) /\ IsSound(a, stored) /\ a.pc \in {"model", "converse"}
  BY DEF IInv, AnalysesInv, RunModel, Answered, CallFails, Unreadable
<1>2. UNCHANGED <<tickets, proposals, stored, storedAge>>
  BY DEF RunModel, Answered, CallFails, Unreadable
<1>3. RestInv'
  BY DEF IInv, RestInv, RunModel, Answered, CallFails, Unreadable
<1>4. ASSUME NEW x, Move(w, x), IsAnalysis(x), x.pc = "persist",
             x.rca.mode # "none", x.forced = a.forced, x.fresh = a.fresh
      PROVE  IInv'
  <2>1. IsSound(x, stored)
    BY <1>1, <1>4 DEF IsSound, PastFetch
  <2> QED BY <1>2, <1>3, <1>4, <2>1, QuietStep
<1>5. CASE Move(w, ByRules(a))
  BY <1>1, <1>4, <1>5, ByRulesIs
<1>6. CASE \E answer \in Answers : Move(w, Weighed(a, answer, Judgement(a).rules))
  <2>1. PICK answer \in Answers : Move(w, Weighed(a, answer, Judgement(a).rules))
    BY <1>6
  <2> QED BY <1>1, <1>4, <2>1, WeighedIs
<1>7. ASSUME NEW b, Move(w, b), IsAnalysis(b), b.pc = "converse",
             b.forced = a.forced, b.fresh = a.fresh
      PROVE  IInv'
  <2>1. IsSound(b, stored)
    BY <1>1, <1>7 DEF IsSound, PastFetch
  <2> QED BY <1>2, <1>3, <1>7, <2>1, QuietStep
<1>8. CASE Move(w, [a EXCEPT !.pc = "converse", !.attempt = 1])
  <2> DEFINE b == [a EXCEPT !.pc = "converse", !.attempt = 1]
  <2>1. b = [f \in Fields |-> IF f = "pc" THEN "converse"
                              ELSE IF f = "attempt" THEN 1 ELSE a[f]]
    BY <1>1 DEF IsAnalysis, Fields
  <2> HIDE DEF b
  <2>2. /\ b = [f \in Fields |-> b[f]] /\ b.pc = "converse" /\ b.attempt = 1
        /\ \A f \in Fields \ {"pc", "attempt"} : b[f] = a[f]
    BY <2>1 DEF Fields
  <2>3. IsAnalysis(b) /\ b.forced = a.forced /\ b.fresh = a.fresh
    BY <1>1, <2>2 DEF IsAnalysis, Fields, Phases, PastFetch
  <2>4. Move(w, b)
    BY <1>8 DEF b
  <2> QED BY <1>7, <2>2, <2>3, <2>4
<1>9. CASE a.attempt < MaxAttempts /\ a.pc = "converse"
             /\ Move(w, [a EXCEPT !.attempt = @ + 1])
  <2> DEFINE b == [a EXCEPT !.attempt = @ + 1]
  <2>1. b = [f \in Fields |-> IF f = "attempt" THEN a.attempt + 1 ELSE a[f]]
    BY <1>1 DEF IsAnalysis, Fields
  <2> HIDE DEF b
  <2>2. /\ b = [f \in Fields |-> b[f]] /\ b.attempt = a.attempt + 1
        /\ \A f \in Fields \ {"attempt"} : b[f] = a[f]
    BY <2>1 DEF Fields
  <2>3. /\ IsAnalysis(b) /\ b.forced = a.forced /\ b.fresh = a.fresh
        /\ b.pc = "converse"
    BY <1>1, <1>9, <2>2 DEF IsAnalysis, Fields, Phases, PastFetch
  <2>4. Move(w, b)
    BY <1>9 DEF b
  <2> QED BY <1>7, <2>3, <2>4
<1> QED
  BY <1>5, <1>6, <1>8, <1>9
  DEF RunModel, Answered, CallFails, Unreadable, AfterFailure

(* What is written to the ticket is what may be proposed from now on.      *)
LEMMA PersistStep ==
  ASSUME IInv, NEW w \in Workers, Persist(w)
  PROVE  IInv'
<1> DEFINE a == analyses[w]
           x == [a EXCEPT !.pc = "propose"]
<1>1. IsAnalysis(a) /\ IsSound(a, stored) /\ a.pc = "persist"
  BY DEF IInv, AnalysesInv, Persist
<1>2. IsAnalysis(x) /\ x.pc = "propose" /\ x.incident = a.incident
      /\ x.rca = a.rca /\ x.forced = a.forced /\ x.fresh = a.fresh
  <2>1. "propose" \in Phases
    BY DEF Phases, PastFetch
  <2>2. IsAnalysis(a)
    BY <1>1
  <2> HIDE DEF a
  <2> QED BY <2>1, <2>2, WithPhase
<1>3. Move(w, x) /\ stored' = stored \cup {[incident |-> a.incident, rca |-> a.rca]}
      /\ proposals' = proposals
  BY DEF Persist
<1> HIDE DEF x
<1>4. IsSound(x, stored')
  BY <1>1, <1>2, <1>3 DEF IsSound, PastFetch
<1>5. AnalysesInv'
  <2>1. proposals' \subseteq stored' /\ stored \subseteq stored'
    BY <1>3 DEF IInv, AnalysesInv, ProposedWasStored
  <2> QED BY <1>2, <1>3, <1>4, <2>1, MoveKeeps DEF IInv
<1>6. TicketsInv'
  <2> DEFINE i == a.incident
             t == [rca |-> a.rca, age |-> 0, status |-> "investigating"]
  <2>1. i \in Incidents /\ a.rca.mode # "none"
    BY <1>1 DEF IsAnalysis, IsSound
  <2>2. /\ tickets' = [tickets EXCEPT ![i] = t]
        /\ storedAge' = [storedAge EXCEPT ![i] = 0]
    BY DEF Persist
  <2>3. IsDated(t, 0)
    BY <2>1 DEF IsDated
  <2> HIDE DEF t
  <2> QED BY <2>1, <2>2, <2>3 DEF IInv, TicketsInv
<1>7. RestInv'
  BY DEF Persist, IInv, RestInv
<1> QED BY <1>5, <1>6, <1>7 DEF IInv

LEMMA EndStep ==
  ASSUME IInv, NEW w \in Workers,
         PersistFails(w) \/ ReturnOnly(w)
  PROVE  IInv'
<1>1. RestInv'
  BY FaultIs DEF PersistFails, ReturnOnly, IInv, RestInv
<1>2. Move(w, Idle) /\ UNCHANGED <<tickets, proposals, stored, storedAge>>
  BY DEF PersistFails, ReturnOnly
<1> QED BY <1>1, <1>2, IdleIs, QuietStep

LEMMA ProposeStep ==
  ASSUME IInv, NEW w \in Workers, Propose(w)
  PROVE  IInv'
<1> DEFINE a == analyses[w]
           p == [incident |-> a.incident, rca |-> a.rca]
<1>1. p \in stored /\ stored' = stored
  <2>1. a.pc = "propose" /\ stored' = stored
    BY DEF Propose
  <2>2. IsSound(a, stored)
    BY DEF IInv, AnalysesInv
  <2> QED BY <2>1, <2>2 DEF IsSound
<1>2. Move(w, Idle) /\ proposals' \subseteq proposals \cup {p}
  BY DEF Propose
<1> HIDE DEF p
<1>3. AnalysesInv'
  <2>1. proposals' \subseteq stored' /\ stored \subseteq stored'
    BY <1>1, <1>2 DEF IInv, AnalysesInv, ProposedWasStored
  <2> QED BY <1>2, <2>1, IdleIs, MoveKeeps DEF IInv
<1>4. TicketsInv' /\ RestInv'
  BY FaultIs DEF Propose, IInv, TicketsInv, RestInv
<1> QED BY <1>3, <1>4 DEF IInv

-----------------------------------------------------------------------------
(* The steps outside the analyses.                                         *)
LEMMA EnqueueStep ==
  ASSUME IInv, NEW i \in Incidents, Enqueue(i)
  PROVE  IInv'
BY DEF Enqueue, IInv, AnalysesInv, ProposedWasStored, TicketsInv, RestInv

LEMMA TouchStep ==
  ASSUME IInv, NEW i \in Incidents, Touch(i)
  PROVE  IInv'
<1>1. PICK status \in {tickets[i].status, "resolved"} :
        tickets' = [tickets EXCEPT ![i].age = 0, ![i].status = status]
  BY DEF Touch
<1>2. IsDated(tickets[i], storedAge[i]) /\ storedAge[i] \in 0..SkipAge
  BY DEF IInv, TicketsInv
<1> DEFINE t == [rca |-> tickets[i].rca, age |-> 0, status |-> status]
<1>3. tickets' = [tickets EXCEPT ![i] = t]
  <2> DEFINE u == [tickets[i] EXCEPT !.age = 0, !.status = status]
  <2>1. tickets' = [tickets EXCEPT ![i] = u]
    BY <1>1 DEF IInv, TicketsInv
  <2>2. u = t
    <3>1. u = [f \in {"rca", "age", "status"} |->
                 IF f = "status" THEN status
                 ELSE IF f = "age" THEN 0 ELSE tickets[i][f]]
      BY <1>2 DEF IsDated
    <3> HIDE DEF u
    <3>2. u = [f \in {"rca", "age", "status"} |-> u[f]]
          /\ u.rca = tickets[i].rca /\ u.age = 0 /\ u.status = status
      BY <3>1
    <3> QED BY <3>2
  <2> HIDE DEF u, t
  <2> QED BY <2>1, <2>2
<1>4. IsDated(t, storedAge[i])
  BY <1>2 DEF IsDated
<1> HIDE DEF t
<1>5. TicketsInv'
  BY <1>3, <1>4 DEF Touch, IInv, TicketsInv
<1> QED
  BY <1>5 DEF Touch, IInv, AnalysesInv, ProposedWasStored, RestInv

LEMMA TickStep ==
  ASSUME IInv, Tick
  PROVE  IInv'
<1>1. TicketsInv'
  <2>1. /\ tickets' = [i \in Incidents |-> [tickets[i] EXCEPT !.age = Older(@)]]
        /\ storedAge' = [i \in Incidents |-> Older(storedAge[i])]
    BY DEF Tick
  <2>2. ASSUME NEW i \in Incidents
        PROVE  /\ storedAge'[i] \in 0..SkipAge
               /\ IsDated(tickets'[i], storedAge'[i])
    <3>1. IsDated(tickets[i], storedAge[i]) /\ storedAge[i] \in 0..SkipAge
      BY DEF IInv, TicketsInv
    <3> DEFINE t == [tickets[i] EXCEPT !.age = Older(@)]
    <3>2. /\ t = [f \in {"rca", "age", "status"} |-> t[f]]
          /\ t.age = Older(tickets[i].age) /\ t.status = tickets[i].status
          /\ t.rca = tickets[i].rca
      BY <3>1 DEF IsDated
    <3>3. tickets'[i] = t /\ storedAge'[i] = Older(storedAge[i])
      BY <2>1
    <3> HIDE DEF t
    <3>4. IsDated(t, Older(storedAge[i])) /\ Older(storedAge[i]) \in 0..SkipAge
      BY <3>1, <3>2 DEF IsDated, Older
    <3> QED BY <3>3, <3>4
  <2>3. storedAge' \in [Incidents -> 0..SkipAge]
        /\ tickets' = [i \in Incidents |-> tickets'[i]]
    BY <2>1, <2>2
  <2> QED BY <2>2, <2>3 DEF TicketsInv
<1> QED
  BY <1>1 DEF Tick, IInv, AnalysesInv, ProposedWasStored, RestInv

LEMMA RestartStep ==
  ASSUME IInv, Restart
  PROVE  IInv'
<1>1. AnalysesInv'
  BY IdleIs DEF Restart, IInv, AnalysesInv, ProposedWasStored
<1>2. RestInv'
  <2>1. analyses[Queue].incident \in Incidents
    BY DEF IInv, AnalysesInv, IsAnalysis, Workers
  <2> QED BY <2>1, FaultIs DEF Restart, IInv, RestInv
<1> QED
  BY <1>1, <1>2 DEF Restart, IInv, TicketsInv

-----------------------------------------------------------------------------
LEMMA InitInv == Init => IInv
<1> SUFFICES ASSUME Init PROVE IInv
  OBVIOUS
<1>1. AnalysesInv
  BY IdleIs DEF Init, AnalysesInv, ProposedWasStored
<1>2. TicketsInv
  <2>1. \A i \in Incidents : IsDated(tickets[i], storedAge[i])
    BY DEF Init, IsDated
  <2> QED BY <2>1 DEF Init, TicketsInv
<1> QED BY <1>1, <1>2 DEF Init, IInv, RestInv

LEMMA NextInv == IInv /\ [Next]_vars => IInv'
<1> SUFFICES ASSUME IInv, [Next]_vars PROVE IInv'
  OBVIOUS
<1>1. CASE UNCHANGED vars
  BY <1>1 DEF vars, IInv, AnalysesInv, ProposedWasStored, TicketsInv, RestInv
<1>2. CASE Request
  BY <1>2, AskStep DEF Request
<1>3. CASE Tick \/ Restart
  BY <1>3, TickStep, RestartStep
<1>4. CASE \E i \in Incidents : Enqueue(i) \/ Reserve(i) \/ Touch(i)
  BY <1>4, EnqueueStep, ReserveStep, TouchStep
<1>5. CASE \E w \in Workers : Work(w)
  BY <1>5, FetchStep, GatherStep, ModelStep, PersistStep, EndStep, ProposeStep
  DEF Work
<1> QED BY <1>1, <1>2, <1>3, <1>4, <1>5 DEF Next

(* The control state of the analyses and of the tickets keeps its type.    *)
THEOREM TypeCorrect == Spec => []TypeOK
<1>1. IInv => TypeOK
  BY IInvImplies
<1> QED BY <1>1, InitInv, NextInv, PTL DEF Spec

(* However analyses of a ticket overlap, fail and are restarted, remedial  *)
(* actions are only proposed for a cause that was written to the ticket.   *)
THEOREM ProposalsAreStored == Spec => []ProposedWasStored
<1>1. IInv => ProposedWasStored
  BY IInvImplies
<1> QED BY <1>1, InitInv, NextInv, PTL DEF Spec

(* An unforced analysis never gets past its fetch within SkipAge of an RCA *)
(* that was stored before it, whoever else changes the ticket.             *)
THEOREM AnalysesAreNotRepeated == Spec => []NoRedundantAnalysis
<1>1. IInv => NoRedundantAnalysis
  BY IInvImplies
<1> QED BY <1>1, InitInv, NextInv, PTL DEF Spec

-----------------------------------------------------------------------------
(* The better of the model's and the rules' answers                        *)

IsBetter(rca) ==
  rca.mode = "bedrock" /\ rca.result.confidence < MinBedrockConfidence =>
    rca.rules # -1 /\ rca.rules < rca.result.confidence

(* What is about to be stored is as good as what is, and an analysis that  *)
(* may turn to the rules knows what was seen.                              *)
IsWeighed(a) ==
  /\ a.pc = "persist" => IsBetter(a.rca)
  /\ a.pc \in {"model", "converse"} => a.world \in Worlds

BetterInv == BetterOfBoth /\ \A w \in Workers : IsWeighed(analyses[w])

LEMMA BetterMove ==
  ASSUME IInv, BetterInv, NEW w \in Workers, NEW x, Move(w, x), IsWeighed(x),
         UNCHANGED stored
  PROVE  BetterInv'
<1>1. analyses' = [v \in Workers |-> IF v = w THEN x ELSE analyses[v]]
  BY DEF Move, IInv, AnalysesInv
<1>2. ASSUME NEW v \in Workers PROVE IsWeighed(analyses'[v])
  <2>1. CASE v = w
    BY <1>1, <2>1
  <2>2. CASE v # w
    BY <1>1, <2>2 DEF BetterInv
  <2> QED BY <2>1, <2>2
<1> QED BY <1>2 DEF BetterInv, BetterOfBoth, IsWeighed, IsBetter

(* What Ready stores, whatever trace it adds.                              *)
LEMMA ReadyStores ==
  ASSUME NEW a, IsAnalysis(a), NEW mode, NEW result, NEW rules
  PROVE  LET b == Ready(a, mode, result, rules)
         IN  /\ b.pc = "persist" /\ b.rca.mode = mode /\ b.rca.rules = rules
             /\ "confidence" \in DOMAIN result =>
                  b.rca.result.confidence = result.confidence
<1> DEFINE traced == [result EXCEPT !.trace =
                        IF @ = NoTrace THEN Judgement(a).primary ELSE @]
           rca == [mode |-> mode, rules |-> rules, result |-> traced]
           b == [a EXCEPT !.pc = "persist", !.world = "none", !.attempt = 0,
                          !.rca = rca]
<1>1. Ready(a, mode, result, rules) = b
  BY DEF Ready
<1>2. "confidence" \in DOMAIN result => traced.confidence = result.confidence
  OBVIOUS
<1> HIDE DEF traced
<1>3. rca.mode = mode /\ rca.rules = rules /\ rca.result = traced
  OBVIOUS
<1> HIDE DEF rca
<1>4. b = [f \in Fields |-> CASE f = "pc" -> "persist" [] f = "world" -> "none"
                              [] f = "attempt" -> 0 [] f = "rca" -> rca
                              [] OTHER -> a[f]]
  BY DEF IsAnalysis, Fields
<1> HIDE DEF b
<1>5. b.pc = "persist" /\ b.rca = rca
  BY <1>4 DEF Fields
<1> QED BY <1>1, <1>2, <1>3, <1>5

LEMMA ByRulesIsWeighed ==
  ASSUME NEW a, IsAnalysis(a)
  PROVE  IsWeighed(ByRules(a))
BY ReadyStores DEF ByRules, IsWeighed, IsBetter

LEMMA JudgementIs ==
  ASSUME NEW a, a.world \in Worlds, a.incident \in Incidents
  PROVE  Judgement(a).rules.confidence \in Nat
<1>1. Judged(a.world, a.incident) \in Judgements
  <2>1. <<a.world, a.incident>> \in Worlds \X Incidents
    OBVIOUS
  <2> QED BY <2>1 DEF Judgements
<1>2. /\ Judged(a.world, a.incident).world = a.world
      /\ Judged(a.world, a.incident).incident = a.incident
  BY DEF Judged
<1>3. Judgement(a) \in Judgements
  BY <1>1, <1>2 DEF Judgement
<1> QED BY <1>3, RulesAssumption

LEMMA WeighedIsWeighed ==
  ASSUME NEW a, IsAnalysis(a), NEW answer \in Answers, NEW rules,
         rules.confidence \in Nat
  PROVE  IsWeighed(Weighed(a, answer, rules))
<1> DEFINE traced == [rules EXCEPT !.trace = IF @ = NoTrace THEN answer.trace ELSE @]
<1>1. CASE /\ answer.confidence < MinBedrockConfidence
           /\ rules.confidence >= answer.confidence
  <2>1. Weighed(a, answer, rules)
          = Ready(a, "rule_based", traced, rules.confidence)
    BY <1>1 DEF Weighed
  <2> HIDE DEF traced
  <2> QED BY <2>1, ReadyStores DEF IsWeighed, IsBetter
<1>2. CASE /\ answer.confidence < MinBedrockConfidence
           /\ ~(rules.confidence >= answer.confidence)
  <2>1. Weighed(a, answer, rules) = Ready(a, "bedrock", answer, rules.confidence)
    BY <1>2 DEF Weighed
  <2>2. rules.confidence # -1 /\ rules.confidence < answer.confidence
    BY <1>2
  <2> QED BY <2>1, <2>2, ReadyStores DEF IsWeighed, IsBetter
<1>3. CASE ~(answer.confidence < MinBedrockConfidence)
  <2>1. Weighed(a, answer, rules) = Ready(a, "bedrock", answer, -1)
    BY <1>3 DEF Weighed
  <2> QED BY <1>3, <2>1, ReadyStores DEF IsWeighed, IsBetter
<1> QED BY <1>1, <1>2, <1>3

LEMMA IdleIsWeighed == IsWeighed(Idle)
BY DEF Idle, Unstarted, IsWeighed

LEMMA BetterStep ==
  ASSUME IInv, BetterInv, [Next]_vars
  PROVE  BetterInv'
<1>1. ASSUME NEW w \in Workers
      PROVE  IsAnalysis(analyses[w]) /\ IsWeighed(analyses[w])
  BY DEF IInv, AnalysesInv, BetterInv
<1>2. CASE Request
  <2>1. PICK w \in Threads, i \in Incidents, forced, by_rules, persist \in BOOLEAN :
          Ask(w, i, forced, by_rules, persist)
    BY <1>2 DEF Request
  <2> DEFINE x == [Unstarted(i) EXCEPT !.pc = "fetch", !.forced = forced,
                                       !.by_rules = by_rules, !.persist = persist]
  <2>2. x.pc = "fetch"
    BY DEF Unstarted
  <2>3. Move(w, x) /\ UNCHANGED stored
    BY <2>1 DEF Ask
  <2> HIDE DEF x
  <2>4. IsWeighed(x)
    BY <2>2 DEF IsWeighed
  <2> QED BY <2>3, <2>4, BetterMove DEF Workers
<1>3. ASSUME NEW i \in Incidents, Reserve(i) PROVE BetterInv'
  <2> DEFINE x == [Unstarted(i) EXCEPT !.pc = "fetch"]
  <2>1. x.pc = "fetch"
    BY DEF Unstarted
  <2>2. Move(Queue, x) /\ UNCHANGED stored
    BY <1>3 DEF Reserve
  <2> HIDE DEF x
  <2>3. IsWeighed(x)
    BY <2>1 DEF IsWeighed
  <2> QED BY <2>2, <2>3, BetterMove DEF Workers
<1>4. ASSUME NEW w \in Workers, Fetch(w) PROVE BetterInv'
  <2> DEFINE a == analyses[w]
             x == [a EXCEPT !.pc = "gather",
                            !.fresh = storedAge[a.incident] < SkipAge]
  <2>1. UNCHANGED stored /\ (Move(w, Idle) \/ Move(w, x))
    BY <1>4 DEF Fetch
  <2>2. x.pc = "gather"
    BY <1>1 DEF IsAnalysis, Fields
  <2> HIDE DEF x
  <2>3. IsWeighed(x)
    BY <2>2 DEF IsWeighed
  <2> QED BY <2>1, <2>3, IdleIsWeighed, BetterMove
<1>5. ASSUME NEW w \in Workers, GatherEvidence(w) PROVE BetterInv'
  <2> DEFINE a == analyses[w]
  <2>1. PICK world \in Worlds :
          Move(w, [a EXCEPT !.pc = "model", !.world = world])
    BY <1>5 DEF GatherEvidence
  <2> DEFINE x == [a EXCEPT !.pc = "model", !.world = world]
  <2>2. x.pc = "model" /\ x.world = world
    BY <1>1 DEF IsAnalysis, Fields
  <2>3. Move(w, x) /\ UNCHANGED stored
    BY <1>5, <2>1 DEF GatherEvidence
  <2> HIDE DEF x
  <2>4. IsWeighed(x)
    BY <2>2 DEF IsWeighed
  <2> QED BY <2>3, <2>4, BetterMove
<1>6. ASSUME NEW w \in Workers,
             RunModel(w) \/ Answered(w) \/ CallFails(w) \/ Unreadable(w)
      PROVE  BetterInv'
  <2> DEFINE a == analyses[w]
             b == [a EXCEPT !.pc = "converse", !.attempt = 1]
             c == [a EXCEPT !.attempt = @ + 1]
  <2>1. /\ IsAnalysis(a) /\ a.world \in Worlds /\ UNCHANGED stored
        /\ a.pc \in {"model", "converse"} /\ a.incident \in Incidents
    BY <1>1, <1>6 DEF RunModel, Answered, CallFails, Unreadable, IsWeighed, IsAnalysis
  <2>2. IsWeighed(ByRules(a))
    BY <2>1, ByRulesIsWeighed
  <2>3. \A answer \in Answers : IsWeighed(Weighed(a, answer, Judgement(a).rules))
    BY <2>1, JudgementIs, WeighedIsWeighed
  <2>4. b.pc = "converse" /\ b.world = a.world
    BY <2>1 DEF IsAnalysis, Fields
  <2>5. c.pc = a.pc /\ c.world = a.world
    BY <2>1 DEF IsAnalysis, Fields
  <2>6. \/ Move(w, ByRules(a)) \/ Move(w, b) \/ Move(w, c)
        \/ \E answer \in Answers : Move(w, Weighed(a, answer, Judgement(a).rules))
    BY <1>6 DEF RunModel, Answered, CallFails, Unreadable, AfterFailure
  <2> HIDE DEF b, c
  <2>7. IsWeighed(b) /\ IsWeighed(c)
    BY <2>1, <2>4, <2>5 DEF IsWeighed
  <2> QED BY <2>1, <2>2, <2>3, <2>6, <2>7, BetterMove
<1>7. ASSUME NEW w \in Workers, Persist(w) PROVE BetterInv'
  <2> DEFINE a == analyses[w]
             s == [incident |-> a.incident, rca |-> a.rca]
             x == [a EXCEPT !.pc = "propose"]
  <2>1. IsBetter(a.rca) /\ s.rca = a.rca
    BY <1>1, <1>7 DEF Persist, IsWeighed
  <2>2. Move(w, x) /\ stored' = stored \cup {s}
    BY <1>7 DEF Persist
  <2>3. x.pc = "propose"
    BY <1>1 DEF IsAnalysis, Fields
  <2> HIDE DEF x, s
  <2>4. BetterOfBoth'
    BY <2>1, <2>2 DEF BetterInv, BetterOfBoth, IsBetter
  <2>5. analyses' = [v \in Workers |-> IF v = w THEN x ELSE analyses[v]]
    BY <2>2 DEF Move, IInv, AnalysesInv
  <2>6. IsWeighed(x)
    BY <2>3 DEF IsWeighed
  <2>7. \A v \in Workers : IsWeighed(analyses'[v])
    BY <1>1, <2>5, <2>6
  <2> QED BY <2>4, <2>7 DEF BetterInv, IsWeighed, IsBetter
<1>8. ASSUME NEW w \in Workers, PersistFails(w) \/ ReturnOnly(w) \/ Propose(w)
      PROVE  BetterInv'
  BY <1>8, IdleIsWeighed, BetterMove DEF PersistFails, ReturnOnly, Propose
<1>9. CASE Restart
  BY <1>9, IdleIsWeighed DEF Restart, BetterInv, BetterOfBoth, IsWeighed, IsBetter
<1>10. CASE UNCHANGED <<analyses, stored>>
  BY <1>10 DEF BetterInv, BetterOfBoth, IsWeighed, IsBetter
<1> QED
  BY <1>2, <1>3, <1>4, <1>5, <1>6, <1>7, <1>8, <1>9, <1>10
  DEF Next, Work, Enqueue, Touch, Tick, vars

(* Through retries, overlapping analyses and restarts, a weak answer of    *)
(* the model is stored only when the rules were weaker still.              *)
THEOREM WeakAnswersAreWeighed == Spec => []BetterOfBoth
<1>1. Init => BetterInv
  BY IdleIsWeighed DEF Init, BetterInv, BetterOfBoth
<1>2. BetterInv => BetterOfBoth
  BY DEF BetterInv
<1> QED BY <1>1, <1>2, InitInv, NextInv, BetterStep, PTL DEF Spec
=============================================================================
