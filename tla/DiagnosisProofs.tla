--------------------------- MODULE DiagnosisProofs ---------------------------
(***************************************************************************)
(* What the judgements promise in every situation, whatever the rows,      *)
(* traces, rates, patterns and weights are.  The situations reachable are  *)
(* those of the right type, so each invariant is a fact about one          *)
(* situation: what the gatherers return of it, and what the scores make of *)
(* that.                                                                   *)
(***************************************************************************)
EXTENDS Diagnosis, TLAPS, FiniteSetTheorems, WellFoundedInduction

AnomalyWorlds ==
  [instant : SUBSET Red, ranged : SUBSET Red, logs : Seq(AnomalyRows),
   traces : Seq(AnomalyTraces), down : SUBSET Backends, failed : SUBSET Queries,
   garbled : SUBSET Queries]

IncidentWorlds ==
  [rates : [Shop -> ShownRates], logs : [Shop -> Seq(ShownRows)],
   traces : [Shop -> Seq(ShownTraces)], down : SUBSET Backends,
   garbled : SUBSET {"prometheus", "tempo"}]

PromptWorlds == [lists : [1..5 -> Seq(RecordSizes)], down : SUBSET Backends]

TypeOK ==
  /\ finding \in Findings
  /\ \/ subject = "anomaly"  /\ world \in AnomalyWorlds
     \/ subject = "incident" /\ world \in IncidentWorlds
     \/ subject = "prompt"   /\ world \in PromptWorlds

LEMMA InitTyped == Init => TypeOK
<1> SUFFICES ASSUME Init PROVE TypeOK
  OBVIOUS
<1>1. (CHOOSE f \in Findings : TRUE) \in Findings /\ (CHOOSE r \in ShownRates : TRUE) \in ShownRates
  BY DiagnosisAssumption
<1>2. \A S : <<>> \in Seq(S)
  OBVIOUS
<1>3. finding \in Findings
  BY <1>1 DEF Init
<1>4. CASE subject = "anomaly"
  <2>1. world = [instant |-> {}, ranged |-> {}, logs |-> <<>>, traces |-> <<>>, down |-> {},
                 failed |-> {}, garbled |-> {}]
    BY <1>4 DEF Init
  <2>2. world \in AnomalyWorlds
    BY <1>2, <2>1 DEF AnomalyWorlds
  <2> QED BY <1>3, <1>4, <2>2 DEF TypeOK
<1>5. CASE subject = "incident"
  <2>1. PICK r : r = CHOOSE x \in ShownRates : TRUE
    OBVIOUS
  <2>2. world = [rates |-> [s \in Shop |-> r], logs |-> [s \in Shop |-> <<>>],
                 traces |-> [s \in Shop |-> <<>>], down |-> {}, garbled |-> {}]
    BY <1>5, <2>1 DEF Init
  <2>3. world \in IncidentWorlds
    BY <1>1, <1>2, <2>1, <2>2 DEF IncidentWorlds
  <2> QED BY <1>3, <1>5, <2>3 DEF TypeOK
<1>6. CASE subject = "prompt"
  <2>1. world = [lists |-> [kind \in 1..5 |-> <<>>], down |-> {}]
    BY <1>6 DEF Init
  <2>2. world \in PromptWorlds
    BY <1>2, <2>1 DEF PromptWorlds
  <2> QED BY <1>3, <1>6, <2>2 DEF TypeOK
<1> QED BY <1>4, <1>5, <1>6 DEF Init

LEMMA StepTyped == TypeOK /\ [Next]_vars => TypeOK'
<1> SUFFICES ASSUME TypeOK, [Next]_vars PROVE TypeOK'
  OBVIOUS
<1>0. CASE UNCHANGED vars
  BY <1>0 DEF TypeOK, vars
<1>1. ASSUME NEW metric \in Series, SeriesAppears(metric) PROVE TypeOK'
  <2>1. metric \in Red
    BY DiagnosisAssumption
  <2>2. world \in AnomalyWorlds /\ subject = "anomaly" /\ finding \in Findings
    BY <1>1 DEF SeriesAppears, TypeOK
  <2>3. PICK history \in {{}, {metric}} :
          Becomes([world EXCEPT !.instant = @ \cup {metric}, !.ranged = @ \cup history])
    BY <1>1 DEF SeriesAppears
  <2>4. world.instant \cup {metric} \in SUBSET Red /\ world.ranged \cup history \in SUBSET Red
    BY <2>1, <2>2 DEF AnomalyWorlds
  <2>5. [world EXCEPT !.instant = @ \cup {metric}, !.ranged = @ \cup history] \in AnomalyWorlds
    BY <2>2, <2>4 DEF AnomalyWorlds
  <2> QED BY <2>2, <2>3, <2>5 DEF Becomes, TypeOK
<1>2. ASSUME NEW row \in AnomalyRows, RowArrives(row) PROVE TypeOK'
  <2>1. <<row>> \o world.logs \in Seq(AnomalyRows)
    BY <1>2 DEF RowArrives, TypeOK, AnomalyWorlds
  <2> QED BY <1>2, <2>1 DEF RowArrives, Becomes, TypeOK, AnomalyWorlds
<1>3. ASSUME NEW trace \in AnomalyTraces, TraceArrives(trace) PROVE TypeOK'
  <2>1. <<trace>> \o world.traces \in Seq(AnomalyTraces)
    BY <1>3 DEF TraceArrives, TypeOK, AnomalyWorlds
  <2> QED BY <1>3, <2>1 DEF TraceArrives, Becomes, TypeOK, AnomalyWorlds
<1>4. ASSUME NEW service \in Shop, NEW rates \in ShownRates, RateChanges(service, rates)
      PROVE  TypeOK'
  BY <1>4 DEF RateChanges, Becomes, TypeOK, IncidentWorlds
<1>5. ASSUME NEW service \in Shop, NEW row \in ShownRows, ServiceLogs(service, row)
      PROVE  TypeOK'
  <2>1. <<row>> \in Seq(ShownRows)
    OBVIOUS
  <2> QED BY <1>5, <2>1 DEF ServiceLogs, Becomes, TypeOK, IncidentWorlds
<1>6. ASSUME NEW trace \in ShownTraces, ServiceTraced(trace) PROVE TypeOK'
  <2>1. <<trace>> \in Seq(ShownTraces)
    OBVIOUS
  <2> QED BY <1>6, <2>1 DEF ServiceTraced, Becomes, TypeOK, IncidentWorlds
<1>7. ASSUME NEW backend \in {"prometheus", "tempo"}, Garbled(backend) PROVE TypeOK'
  BY <1>7 DEF Garbled, Becomes, TypeOK, IncidentWorlds
<1>8. ASSUME NEW kind \in 1..5, NEW size \in RecordSizes, RecordGathered(kind, size)
      PROVE  TypeOK'
  <2>1. world \in PromptWorlds
    BY <1>8 DEF RecordGathered, TypeOK
  <2>2. Append(world.lists[kind], size) \in Seq(RecordSizes)
    BY <2>1 DEF PromptWorlds
  <2> QED BY <1>8, <2>1, <2>2 DEF RecordGathered, Becomes, TypeOK, PromptWorlds
<1>9. ASSUME NEW backend \in Backends, Outage(backend) PROVE TypeOK'
  <2>1. /\ world' = [world EXCEPT !.down = @ \cup {backend}]
        /\ subject' = subject /\ finding' = finding
    BY <1>9 DEF Outage, Becomes
  <2>2. world \in AnomalyWorlds => world' \in AnomalyWorlds
    BY <2>1 DEF AnomalyWorlds
  <2>3. world \in IncidentWorlds => world' \in IncidentWorlds
    BY <2>1 DEF IncidentWorlds
  <2>4. world \in PromptWorlds => world' \in PromptWorlds
    BY <2>1 DEF PromptWorlds
  <2> QED BY <2>1, <2>2, <2>3, <2>4 DEF TypeOK
<1>10. ASSUME NEW query \in Breakable, QueryBreaks(query) PROVE TypeOK'
  <2>1. query \in Queries /\ world \in AnomalyWorlds /\ subject = "anomaly"
    BY <1>10, DiagnosisAssumption DEF QueryBreaks, TypeOK
  <2>2. CASE Becomes([world EXCEPT !.failed = @ \cup {query}])
    BY <2>1, <2>2 DEF Becomes, TypeOK, AnomalyWorlds
  <2>3. CASE Becomes([world EXCEPT !.garbled = @ \cup {query}])
    BY <2>1, <2>3 DEF Becomes, TypeOK, AnomalyWorlds
  <2> QED BY <1>10, <2>2, <2>3 DEF QueryBreaks
<1> QED BY <1>0, <1>1, <1>2, <1>3, <1>4, <1>5, <1>6, <1>7, <1>8, <1>9, <1>10 DEF Next

LEMMA Typed == Spec => []TypeOK
BY InitTyped, StepTyped, PTL DEF Spec

-----------------------------------------------------------------------------
(* Induction over the natural numbers, for a set of them.                  *)
LEMMA SetInduction ==
  ASSUME NEW T, 0 \in T, \A n \in T : n \in Nat => n + 1 \in T
  PROVE  Nat \subseteq T
<1> SUFFICES ASSUME Nat \ T # {} PROVE FALSE
  OBVIOUS
<1> DEFINE R == {p \in Nat \X Nat : p[1] < p[2]}
<1>1. IsWellFoundedOn(R, Nat)
  BY NatLessThanWellFounded DEF OpToRel
<1>2. PICK x \in Nat \ T : \A y \in Nat \ T : ~ (<<y, x>> \in R)
  <2> HIDE DEF R
  <2> QED BY <1>1, WFMin
<1>3. x # 0 /\ x - 1 \in Nat /\ x - 1 < x /\ (x - 1) + 1 = x
  BY <1>2
<1>4. <<x - 1, x>> \in R
  BY <1>2, <1>3
<1>5. x - 1 \in T
  BY <1>2, <1>3, <1>4
<1> QED BY <1>2, <1>3, <1>5

(* The k-th smallest of a set of numbers.                                  *)
Ranked(P) ==
  \A k \in 1..Cardinality(P) : \E i \in P : Cardinality({j \in P : j <= i}) = k

LEMMA EveryRankIsTaken ==
  ASSUME NEW n \in Nat, NEW P \in SUBSET (1..n)
  PROVE  Ranked(P) /\ IsFiniteSet(P)
<1> DEFINE T == {m \in Nat : \A Q \in SUBSET (1..m) : Ranked(Q) /\ IsFiniteSet(Q)}
<1>1. 0 \in T
  <2>1. \A Q \in SUBSET (1..0) : Q = {}
    OBVIOUS
  <2>2. Ranked({}) /\ IsFiniteSet({})
    <3>1. Cardinality({}) = 0 /\ IsFiniteSet({})
      BY FS_EmptySet
    <3> QED BY <3>1 DEF Ranked
  <2> QED BY <2>1, <2>2
<1>2. ASSUME NEW m \in T PROVE m + 1 \in T
  <2> SUFFICES ASSUME NEW Q \in SUBSET (1..(m + 1)) PROVE Ranked(Q) /\ IsFiniteSet(Q)
    OBVIOUS
  <2> DEFINE O == Q \ {m + 1}
  <2>1. m \in Nat /\ O \in SUBSET (1..m)
    OBVIOUS
  <2>2. Ranked(O) /\ IsFiniteSet(O)
    BY <2>1
  <2>3. CASE m + 1 \notin Q
    <3>1. O = Q
      BY <2>3
    <3> QED BY <2>2, <3>1
  <2>4. CASE m + 1 \in Q
    <3>1. Q = O \cup {m + 1} /\ m + 1 \notin O
      BY <2>4
    <3>2. IsFiniteSet(Q) /\ Cardinality(Q) = Cardinality(O) + 1 /\ Cardinality(O) \in Nat
      <4> HIDE DEF O
      <4> QED BY <2>2, <3>1, FS_AddElement, FS_CardinalityType
    <3>3. ASSUME NEW k \in 1..Cardinality(Q)
          PROVE  \E i \in Q : Cardinality({j \in Q : j <= i}) = k
      <4>1. CASE k = Cardinality(O) + 1
        <5>1. \A j \in Q : j <= m + 1
          BY <2>1
        <5>2. {j \in Q : j <= m + 1} = Q
          BY <5>1
        <5> QED BY <2>4, <3>2, <4>1, <5>2
      <4>2. CASE k # Cardinality(O) + 1
        <5>1. k \in 1..Cardinality(O)
          BY <3>2, <4>2
        <5>2. PICK i \in O : Cardinality({j \in O : j <= i}) = k
          BY <2>2, <5>1 DEF Ranked
        <5>3. {j \in Q : j <= i} = {j \in O : j <= i}
          BY <2>1, <5>2
        <5> QED BY <5>2, <5>3
      <4> QED BY <4>1, <4>2
    <3> QED BY <3>2, <3>3 DEF Ranked
  <2> QED BY <2>3, <2>4
<1> HIDE DEF T
<1>3. Nat \subseteq T
  BY <1>1, <1>2, SetInduction
<1> QED BY <1>3 DEF T

(* What is picked of a sequence is a sequence of its elements.             *)
LEMMA PickedType ==
  ASSUME NEW S, NEW s \in Seq(S), NEW places \in SUBSET DOMAIN s
  PROVE  /\ Picked(s, places) \in Seq(S)
         /\ Cardinality(places) \in Nat
         /\ Len(Picked(s, places)) = Cardinality(places)
         /\ places = {} => Picked(s, places) = <<>>
<1>1. places \in SUBSET (1..Len(s)) /\ Len(s) \in Nat
  OBVIOUS
<1>2. Ranked(places) /\ IsFiniteSet(places)
  BY <1>1, EveryRankIsTaken
<1>3. Cardinality(places) \in Nat
  BY <1>2, FS_CardinalityType
<1> DEFINE place(k) == CHOOSE i \in places : Cardinality({j \in places : j <= i}) = k
<1>4. \A k \in 1..Cardinality(places) : place(k) \in places
  BY <1>2 DEF Ranked
<1>5. Picked(s, places) = [k \in 1..Cardinality(places) |-> s[place(k)]]
  BY DEF Picked
<1> HIDE DEF place
<1>6. \A k \in 1..Cardinality(places) : s[place(k)] \in S
  <2>1. \A i \in places : s[i] \in S
    BY <1>1
  <2> QED BY <1>4, <2>1
<1>7. Picked(s, places) \in Seq(S) /\ Len(Picked(s, places)) = Cardinality(places)
  <2> DEFINE n == Cardinality(places)
  <2> HIDE DEF n
  <2>1. n \in Nat /\ Picked(s, places) = [k \in 1..n |-> s[place(k)]]
    BY <1>3, <1>5 DEF n
  <2> QED BY <1>6, <2>1 DEF n
<1>8. places = {} => Cardinality(places) = 0
  BY FS_EmptySet
<1> QED BY <1>3, <1>7, <1>8

(* Of a finite set of places, the first of those with the largest value.   *)
Winner(P, f, i) == \A j \in P : f[j] < f[i] \/ (f[j] = f[i] /\ i <= j)

LEMMA SomePlaceWins ==
  ASSUME NEW n \in Nat, NEW P \in SUBSET (1..n), P # {}, NEW f, \A i \in P : f[i] \in Int
  PROVE  \E i \in P : Winner(P, f, i)
<1> DEFINE T == {m \in Nat : \A Q \in SUBSET (1..m) :
                   Q # {} /\ (\A i \in Q : f[i] \in Int) => \E i \in Q : Winner(Q, f, i)}
<1>1. 0 \in T
  <2>1. \A Q \in SUBSET (1..0) : Q = {}
    OBVIOUS
  <2> QED BY <2>1
<1>2. ASSUME NEW m \in T PROVE m + 1 \in T
  <2> SUFFICES ASSUME NEW Q \in SUBSET (1..(m + 1)), Q # {}, \A i \in Q : f[i] \in Int
               PROVE  \E i \in Q : Winner(Q, f, i)
    OBVIOUS
  <2> DEFINE O == Q \ {m + 1}
  <2>1. m \in Nat /\ O \in SUBSET (1..m) /\ \A i \in O : f[i] \in Int
    OBVIOUS
  <2>2. CASE m + 1 \notin Q
    <3>1. O = Q
      BY <2>2
    <3> QED BY <2>1, <3>1
  <2>3. CASE O = {}
    <3>1. Q = {m + 1}
      BY <2>3
    <3>2. Winner(Q, f, m + 1)
      BY <2>1, <3>1 DEF Winner
    <3> QED BY <3>1, <3>2
  <2>4. CASE m + 1 \in Q /\ O # {}
    <3>1. PICK i \in O : Winner(O, f, i)
      BY <2>1, <2>4
    <3>2. /\ Q = O \cup {m + 1} /\ f[i] \in Int /\ f[m + 1] \in Int
          /\ \A j \in Q : f[j] \in Int /\ j <= m + 1
          /\ i \in Q /\ i <= m + 1
      BY <2>1, <2>4
    <3> HIDE DEF O
    <3>3. CASE f[m + 1] > f[i]
      <4>1. ASSUME NEW j \in O PROVE f[j] < f[m + 1]
        BY <3>1, <3>2, <3>3 DEF Winner
      <4>2. Winner(Q, f, m + 1)
        BY <3>2, <4>1 DEF Winner
      <4> QED BY <2>4, <4>2
    <3>4. CASE ~(f[m + 1] > f[i])
      <4>1. f[m + 1] < f[i] \/ (f[m + 1] = f[i] /\ i <= m + 1)
        BY <3>2, <3>4
      <4>2. Winner(Q, f, i)
        BY <3>1, <3>2, <4>1 DEF Winner
      <4> QED BY <3>2, <4>2
    <3> QED BY <3>3, <3>4
  <2> QED BY <2>2, <2>3, <2>4
<1> HIDE DEF T
<1>3. Nat \subseteq T
  BY <1>1, <1>2, SetInduction
<1> QED BY <1>3 DEF T

LEMMA FirstOfType ==
  ASSUME NEW S, NEW s \in Seq(S), NEW n \in Nat
  PROVE  /\ FirstOf(s, n) \in Seq(S)
         /\ Len(FirstOf(s, n)) = Least(n, Len(s))
         /\ n > 0 /\ FirstOf(s, n) = <<>> => s = <<>>
         /\ FirstOf(<<>>, n) = <<>>
BY DEF FirstOf, Least

LEMMA FirstAnswerOfTwo ==
  ASSUME NEW a, NEW b
  PROVE  FirstAnswer(<<a, b>>) = IF a # <<>> THEN a ELSE b
<1> DEFINE answers == <<a, b>>
           given   == {i \in DOMAIN answers : answers[i] # <<>>}
           first   == CHOOSE i \in given : \A j \in given : i <= j
<1>1. /\ DOMAIN answers = {1, 2} /\ answers[1] = a /\ answers[2] = b
  OBVIOUS
<1>2. FirstAnswer(<<a, b>>) = IF given = {} THEN <<>> ELSE answers[first]
  BY DEF FirstAnswer
<1>3. CASE a # <<>>
  <2>1. 1 \in given /\ \A j \in given : 1 <= j
    BY <1>1, <1>3
  <2>2. first \in given /\ \A j \in given : first <= j
    BY <2>1
  <2>3. first = 1
    BY <1>1, <2>1, <2>2
  <2> QED BY <1>1, <1>2, <1>3, <2>1, <2>3
<1>4. CASE a = <<>> /\ b # <<>>
  <2>1. given = {2}
    BY <1>1, <1>4
  <2>2. first = 2
    BY <2>1
  <2> QED BY <1>1, <1>2, <1>4, <2>1, <2>2
<1>5. CASE a = <<>> /\ b = <<>>
  <2>1. given = {}
    BY <1>1, <1>5
  <2> QED BY <1>2, <1>5, <2>1
<1> QED BY <1>3, <1>4, <1>5

LEMMA FirstAnswerType ==
  ASSUME NEW S, NEW n \in Nat, NEW answers, DOMAIN answers = 1..n,
         \A i \in 1..n : answers[i] \in Seq(S)
  PROVE  /\ FirstAnswer(answers) \in Seq(S)
         /\ (\A i \in 1..n : answers[i] = <<>>) => FirstAnswer(answers) = <<>>
<1> DEFINE given == {i \in DOMAIN answers : answers[i] # <<>>}
           first == CHOOSE i \in given : \A j \in given : i <= j
<1>1. FirstAnswer(answers) = IF given = {} THEN <<>> ELSE answers[first]
  BY DEF FirstAnswer
<1>2. CASE given = {}
  <2>1. <<>> \in Seq(S)
    OBVIOUS
  <2> QED BY <1>1, <1>2, <2>1
<1>3. CASE given # {}
  <2>1. PICK f : f = [i \in 1..n |-> 0]
    OBVIOUS
  <2>2. \A i \in given : f[i] \in Int
    BY <2>1
  <2>3. given \in SUBSET (1..n)
    OBVIOUS
  <2>4. \E i \in given : Winner(given, f, i)
    <3> HIDE DEF given
    <3> QED BY <1>3, <2>2, <2>3, SomePlaceWins
  <2>5. \E i \in given : \A j \in given : i <= j
    BY <2>1, <2>3, <2>4 DEF Winner
  <2>6. first \in given
    BY <2>5
  <2> HIDE DEF first
  <2> QED BY <1>1, <1>3, <2>3, <2>6
<1> QED BY <1>2, <1>3

-----------------------------------------------------------------------------
(* What the gatherers of the detector return, one backend apart from the   *)
(* others.                                                                 *)
LEMMA EmptyPrefix == \A n \in Nat : FirstOf(<<>>, n) = <<>>
BY FirstOfType, <<>> \in Seq({})

LEMMA Kinds ==
  /\ \A m \in Red : /\ <<"instant", m>> \in Queries /\ BackendOf(<<"instant", m>>) = "prometheus"
                    /\ <<"range", m>> \in Queries /\ BackendOf(<<"range", m>>) = "prometheus"
  /\ \A l \in LogLabels : <<"loki", l>> \in Queries /\ BackendOf(<<"loki", l>>) = "loki"
  /\ \A m \in SearchModes : <<"tempo", m>> \in Queries /\ BackendOf(<<"tempo", m>>) = "tempo"
<1>1. \A m \in Red : <<"instant", m>> \in MetricQueries /\ <<"range", m>> \in MetricQueries
  BY DEF MetricQueries
<1>2. \A x : <<"loki", x>> \notin MetricQueries /\ <<"tempo", x>> \notin MetricQueries
  BY DEF MetricQueries
<1>3. /\ \A l \in LogLabels : <<"loki", l>> \in {"loki"} \X LogLabels
      /\ \A m \in SearchModes : <<"tempo", m>> \in {"tempo"} \X SearchModes
  OBVIOUS
<1>4. \A x : <<"loki", x>>[1] = "loki" /\ <<"tempo", x>>[1] = "tempo"
  OBVIOUS
<1> QED BY <1>1, <1>2, <1>3, <1>4 DEF Queries, BackendOf

Surroundings(w) ==
  /\ w.instant \in SUBSET Red /\ w.logs \in Seq(AnomalyRows)
  /\ w.traces \in Seq(AnomalyTraces)

LEMMA RowsType ==
  ASSUME NEW w, w.logs \in Seq(AnomalyRows), NEW label \in LogLabels, NEW limit \in Nat
  PROVE  /\ Rows(w, label, limit) \in Seq(AnomalyRows)
         /\ "loki" \in w.down => Rows(w, label, limit) = <<>>
<1>1. PICK P : P = {i \in DOMAIN w.logs : label \in w.logs[i].found}
  OBVIOUS
<1>2. Picked(w.logs, P) \in Seq(AnomalyRows)
  BY <1>1, PickedType
<1>3. FirstOf(Picked(w.logs, P), limit) \in Seq(AnomalyRows) /\ <<>> \in Seq(AnomalyRows)
  BY <1>2, FirstOfType
<1>4. Rows(w, label, limit) = IF Answered(w, <<"loki", label>>)
                              THEN FirstOf(Picked(w.logs, P), limit) ELSE <<>>
  BY <1>1 DEF Rows
<1>5. "loki" \in w.down => ~Answered(w, <<"loki", label>>)
  BY Kinds DEF Answered
<1> QED BY <1>3, <1>4, <1>5

LEMMA LogsGathered ==
  ASSUME NEW w, w.logs \in Seq(AnomalyRows)
  PROVE  /\ GatherLogs(w) \in Seq(AnomalyRows)
         /\ "loki" \in w.down => GatherLogs(w) = <<>>
<1>1. /\ DOMAIN LogQueries = 1..4 /\ 4 \in Nat
      /\ \A k \in 1..4 : LogQueries[k] \in LogLabels
  BY DEF LogQueries, LogLabels
<1>2. MaxLogs \in Nat
  BY WeightAssumption
<1>3. PICK answers : answers = [k \in DOMAIN LogQueries |-> Rows(w, LogQueries[k], MaxLogs)]
  OBVIOUS
<1>4. GatherLogs(w) = FirstAnswer(answers)
  BY <1>3 DEF GatherLogs
<1>5. DOMAIN answers = 1..4 /\ \A k \in 1..4 : answers[k] = Rows(w, LogQueries[k], MaxLogs)
  BY <1>1, <1>3
<1>6. \A k \in 1..4 : /\ answers[k] \in Seq(AnomalyRows)
                      /\ "loki" \in w.down => answers[k] = <<>>
  BY <1>1, <1>2, <1>5, RowsType
<1>7. FirstAnswer(answers) \in Seq(AnomalyRows)
      /\ ((\A i \in 1..4 : answers[i] = <<>>) => FirstAnswer(answers) = <<>>)
  <2>1. DOMAIN answers = 1..4 /\ \A i \in 1..4 : answers[i] \in Seq(AnomalyRows)
    BY <1>5, <1>6
  <2> QED BY <1>1, <2>1, FirstAnswerType
<1> QED BY <1>4, <1>6, <1>7

TraceHits == [id : {t.id : t \in AnomalyTraces}, ms : Nat, mode : SearchModes]

Nothing == [traces |-> <<>>, lost |-> FALSE]
Wreck   == [traces |-> <<>>, lost |-> TRUE]

Collected(sofar) ==
  /\ sofar = [traces |-> sofar.traces, lost |-> sofar.lost]
  /\ sofar.traces \in Seq(TraceHits) /\ sofar.lost \in BOOLEAN
  /\ sofar.lost => sofar = Wreck

LEMMA FoundType ==
  ASSUME NEW w, w.traces \in Seq(AnomalyTraces), NEW mode \in SearchModes
  PROVE  Found(w, mode) \in Seq(TraceHits)
<1>1. PICK P : P = {i \in DOMAIN w.traces :
                     CASE mode = "error" -> w.traces[i].error
                       [] mode = "slow"  -> w.traces[i].ms > 200
                       [] mode = "tags"  -> w.traces[i].ms >= 100
                       [] OTHER          -> TRUE}
  OBVIOUS
<1>2. PICK hits : hits = FirstOf(Picked(w.traces, P), MaxTraces)
  OBVIOUS
<1>3. hits \in Seq(AnomalyTraces)
  <2>1. Picked(w.traces, P) \in Seq(AnomalyTraces) /\ MaxTraces \in Nat
    BY <1>1, PickedType, WeightAssumption
  <2> QED BY <1>2, <2>1, FirstOfType
<1>4. Found(w, mode) = [i \in DOMAIN hits |-> [id |-> hits[i].id, ms |-> hits[i].ms, mode |-> mode]]
  BY <1>1, <1>2 DEF Found
<1>5. \A i \in DOMAIN hits : [id |-> hits[i].id, ms |-> hits[i].ms, mode |-> mode] \in TraceHits
  <2> SUFFICES ASSUME NEW i \in DOMAIN hits
               PROVE  [id |-> hits[i].id, ms |-> hits[i].ms, mode |-> mode] \in TraceHits
    OBVIOUS
  <2>1. PICK t \in AnomalyTraces : t = hits[i]
    BY <1>3
  <2>2. t.ms \in Nat
    BY DiagnosisAssumption
  <2> QED BY <2>1, <2>2 DEF TraceHits
<1> QED BY <1>3, <1>4, <1>5

LEMMA CollectType ==
  /\ \A found \in Seq(TraceHits) : Collect(found) \in Seq(TraceHits)
  /\ Collect(<<>>) = <<>>
<1>1. \A found \in Seq(TraceHits) : Collect(found) \in Seq(TraceHits)
  BY PickedType DEF Collect
<1>2. Collect(<<>>) = Picked(<<>>, {})
  BY DEF Collect
<1>3. <<>> \in Seq({}) /\ {} \in SUBSET DOMAIN <<>>
  OBVIOUS
<1> QED BY <1>1, <1>2, <1>3, PickedType

(* What one search does, by cases.                                         *)
Added(w, sofar, mode) ==
  FirstOf(Collect(sofar.traces \o IF Answered(w, <<"tempo", mode>>) THEN Found(w, mode) ELSE <<>>),
          MaxTraces)

LEMMA VisitCases ==
  ASSUME NEW w, NEW sofar, NEW mode
  PROVE  Visit(w, sofar, mode)
           = IF sofar.lost \/ Len(sofar.traces) >= MaxTraces THEN sofar
             ELSE IF Escapes(w, <<"tempo", mode>>) THEN Wreck
             ELSE [traces |-> Added(w, sofar, mode), lost |-> FALSE]
<1>1. PICK full, bad : /\ full = (sofar.lost \/ Len(sofar.traces) >= MaxTraces)
                       /\ bad = Escapes(w, <<"tempo", mode>>)
  OBVIOUS
<1>2. full \in BOOLEAN /\ bad \in BOOLEAN
  BY <1>1 DEF Escapes
<1>3. Visit(w, sofar, mode)
        = CASE full -> sofar
            [] ~full /\ bad -> Wreck
            [] OTHER -> [traces |-> Added(w, sofar, mode), lost |-> FALSE]
  BY <1>1 DEF Visit, Added, Wreck
<1> QED BY <1>1, <1>2, <1>3

LEMMA VisitType ==
  ASSUME NEW w, w.traces \in Seq(AnomalyTraces), NEW sofar, Collected(sofar),
         NEW mode \in SearchModes
  PROVE  /\ Collected(Visit(w, sofar, mode))
         /\ "tempo" \in w.down /\ sofar = Nothing => Visit(w, sofar, mode) = Nothing
<1>1. MaxTraces \in Nat
  BY WeightAssumption
<1>2. Added(w, sofar, mode) \in Seq(TraceHits)
  <2>1. PICK more : more = IF Answered(w, <<"tempo", mode>>) THEN Found(w, mode) ELSE <<>>
    OBVIOUS
  <2>2. more \in Seq(TraceHits)
    BY <2>1, FoundType
  <2>3. sofar.traces \o more \in Seq(TraceHits)
    BY <2>2 DEF Collected
  <2>4. Collect(sofar.traces \o more) \in Seq(TraceHits)
    BY <2>3, CollectType
  <2>5. FirstOf(Collect(sofar.traces \o more), MaxTraces) \in Seq(TraceHits)
    BY <1>1, <2>4, FirstOfType
  <2> QED BY <2>1, <2>5 DEF Added
<1>3. Collected(Wreck)
  BY DEF Collected, Wreck
<1>4. Collected([traces |-> Added(w, sofar, mode), lost |-> FALSE])
  BY <1>2 DEF Collected
<1>5. Collected(Visit(w, sofar, mode))
  BY <1>3, <1>4, VisitCases
<1>6. ASSUME "tempo" \in w.down, sofar = Nothing PROVE Visit(w, sofar, mode) = Nothing
  <2>1. ~Answered(w, <<"tempo", mode>>) /\ ~Escapes(w, <<"tempo", mode>>)
    BY <1>6, Kinds DEF Answered, Escapes
  <2>2. sofar.traces = <<>> /\ sofar.lost = FALSE
    BY <1>6 DEF Nothing
  <2>3. <<>> \o <<>> = <<>>
    OBVIOUS
  <2>4. Added(w, sofar, mode) = <<>>
    BY <1>1, <2>1, <2>2, <2>3, CollectType, EmptyPrefix DEF Added
  <2>5. Visit(w, sofar, mode) \in {sofar, [traces |-> <<>>, lost |-> FALSE]}
    BY <2>1, <2>2, <2>4, VisitCases
  <2> QED BY <1>6, <2>5 DEF Nothing
<1> QED BY <1>5, <1>6

(* The results of the four searches one after the other.                   *)
Errors(w) == Visit(w, Nothing, "error")
Slow(w)   == Visit(w, Errors(w), "slow")
Any(w)    == Visit(w, Slow(w), "any")

LEMMA TracesGathered ==
  ASSUME NEW w, w.traces \in Seq(AnomalyTraces)
  PROVE  /\ Collected(Errors(w)) /\ Collected(Slow(w)) /\ Collected(Any(w))
         /\ GatherTraces(w) = Visit(w, Any(w), "tags")
         /\ Collected(GatherTraces(w))
         /\ "tempo" \in w.down => GatherTraces(w) = Nothing
<1>1. GatherTraces(w) = Visit(w, Any(w), "tags")
  BY DEF GatherTraces, Any, Slow, Errors, Nothing
<1>2. "error" \in SearchModes /\ "slow" \in SearchModes /\ "any" \in SearchModes
      /\ "tags" \in SearchModes
  BY DEF SearchModes
<1>3. Collected(Nothing)
  BY DEF Collected, Nothing
<1>4. /\ Collected(Errors(w))
      /\ "tempo" \in w.down => Errors(w) = Nothing
  BY <1>2, <1>3, VisitType DEF Errors
<1>5. /\ Collected(Slow(w))
      /\ "tempo" \in w.down => Slow(w) = Nothing
  BY <1>2, <1>4, VisitType DEF Slow
<1>6. /\ Collected(Any(w))
      /\ "tempo" \in w.down => Any(w) = Nothing
  BY <1>2, <1>5, VisitType DEF Any
<1> QED BY <1>1, <1>2, <1>4, <1>5, <1>6, VisitType

LEMMA EventsOfRows ==
  /\ \A rows \in Seq(AnomalyRows) : EventsFromLogs(rows) \in Seq(AnomalyRows)
  /\ EventsFromLogs(<<>>) = <<>>
<1>1. ASSUME NEW S, NEW rows \in Seq(S)
      PROVE  /\ EventsFromLogs(rows) \in Seq(S)
             /\ rows = <<>> => EventsFromLogs(rows) = <<>>
  <2>1. PICK P : P = {i \in DOMAIN rows : rows[i].change # "none"}
    OBVIOUS
  <2>2. /\ Picked(rows, P) \in Seq(S)
        /\ rows = <<>> => Picked(rows, P) = <<>>
    BY <2>1, PickedType
  <2>3. EventsFromLogs(rows) = FirstOf(Picked(rows, P), 15)
    BY <2>1 DEF EventsFromLogs
  <2>4. 15 \in Nat
    OBVIOUS
  <2> QED BY <2>2, <2>3, <2>4, FirstOfType, EmptyPrefix
<1>2. <<>> \in Seq({})
  OBVIOUS
<1> QED BY <1>1, <1>2

LEMMA EventsGathered ==
  ASSUME NEW w, w.logs \in Seq(AnomalyRows)
  PROVE  /\ GatherEvents(w) \in Seq(AnomalyRows)
         /\ "loki" \in w.down => GatherEvents(w) = <<>>
<1>1. PICK rows : rows = Rows(w, "changes", 15)
  OBVIOUS
<1>2. rows \in Seq(AnomalyRows) /\ ("loki" \in w.down => rows = <<>>)
  <2>1. "changes" \in LogLabels /\ 15 \in Nat
    BY DEF LogLabels
  <2> QED BY <1>1, <2>1, RowsType
<1>3. GatherEvents(w) = EventsFromLogs(rows)
  BY <1>1 DEF GatherEvents
<1> QED BY <1>2, <1>3, EventsOfRows

(* A trace that was kept gives its id; without traces and rows there is    *)
(* none.                                                                   *)
LEMMA PrimaryOfTraces ==
  ASSUME NEW traces \in Seq(TraceHits), NEW logs
  PROVE  /\ traces # <<>> => SelectPrimaryTraceId(traces, logs) # NoTrace
         /\ traces = <<>> /\ logs = <<>> => SelectPrimaryTraceId(traces, logs) = NoTrace
<1>1. CASE traces # <<>>
  <2> DEFINE longest == {i \in DOMAIN traces :
                           \A j \in DOMAIN traces : traces[j].ms <= traces[i].ms}
             ms    == [i \in DOMAIN traces |-> traces[i].ms]
             first == CHOOSE i \in longest : \A j \in longest : i <= j
  <2>1. /\ Len(traces) \in Nat /\ DOMAIN traces = 1..Len(traces) /\ DOMAIN traces # {}
    BY <1>1
  <2>2. \A i \in DOMAIN traces : ms[i] \in Int /\ traces[i].id # NoTrace
    <3> SUFFICES ASSUME NEW i \in DOMAIN traces PROVE ms[i] \in Int /\ traces[i].id # NoTrace
      OBVIOUS
    <3>1. PICK t \in TraceHits : t = traces[i]
      OBVIOUS
    <3> QED BY <3>1, DiagnosisAssumption DEF TraceHits
  <2>3. PICK i \in DOMAIN traces : Winner(DOMAIN traces, ms, i)
    <3> HIDE DEF ms
    <3> QED BY <2>1, <2>2, SomePlaceWins
  <2>4. i \in longest /\ \A j \in longest : i <= j
    BY <2>2, <2>3 DEF Winner
  <2>5. first \in longest
    BY <2>4
  <2>6. SelectPrimaryTraceId(traces, logs) = traces[first].id
    BY <1>1 DEF SelectPrimaryTraceId
  <2> HIDE DEF first
  <2> QED BY <1>1, <2>2, <2>5, <2>6
<1>2. CASE traces = <<>> /\ logs = <<>>
  BY <1>2 DEF SelectPrimaryTraceId
<1> QED BY <1>1, <1>2

(* The context of an anomaly.                                              *)
Context(signals) ==
  /\ signals.instant \in SUBSET Red
  /\ signals.lost \in SUBSET {"metrics", "traces"}
  /\ signals.listed = ("metrics" \notin signals.lost)
  /\ signals.logs \in Seq(AnomalyRows) /\ signals.events \in Seq(AnomalyRows)
  /\ signals.traces \in Seq(TraceHits)
  /\ signals.traces # <<>> => signals.primary # NoTrace
  /\ signals.traces = <<>> /\ signals.logs = <<>> => signals.primary = NoTrace

EventsOf(w) == FirstAnswer(<<GatherEvents(w), EventsFromLogs(GatherLogs(w))>>)

LEMMA ContextGathered ==
  ASSUME NEW w, Surroundings(w), NEW features \in SUBSET Red
  PROVE  LET signals == Gather(w, features)
         IN  /\ Context(signals)
             /\ signals.instant = GatherMetrics(w, features).instant
             /\ "metrics" \in signals.lost <=> ~GatherMetrics(w, features).listed
             /\ signals.logs = GatherLogs(w) /\ signals.events = EventsOf(w)
             /\ signals.traces = GatherTraces(w).traces
             /\ "traces" \in signals.lost <=> GatherTraces(w).lost
             /\ signals.primary = SelectPrimaryTraceId(signals.traces, signals.logs)
<1>1. PICK signals, metrics, visited :
        /\ signals = Gather(w, features) /\ metrics = GatherMetrics(w, features)
        /\ visited = GatherTraces(w)
  OBVIOUS
<1>2. GatherLogs(w) \in Seq(AnomalyRows)
  BY LogsGathered DEF Surroundings
<1>3. visited.traces \in Seq(TraceHits) /\ visited.lost \in BOOLEAN
  BY <1>1, TracesGathered DEF Surroundings, Collected
<1>4. EventsOf(w) \in Seq(AnomalyRows)
  <2>1. GatherEvents(w) \in Seq(AnomalyRows) /\ EventsFromLogs(GatherLogs(w)) \in Seq(AnomalyRows)
    BY <1>2, EventsGathered, EventsOfRows DEF Surroundings
  <2> QED BY <2>1, FirstAnswerOfTwo DEF EventsOf
<1>5. metrics.listed \in BOOLEAN /\ metrics.instant \in SUBSET Red
  BY <1>1 DEF GatherMetrics, Surroundings
<1>6. signals = [instant |-> metrics.instant, ranged |-> metrics.ranged,
                 listed |-> metrics.listed, logs |-> GatherLogs(w),
                 traces |-> visited.traces, events |-> EventsOf(w),
                 primary |-> SelectPrimaryTraceId(visited.traces, GatherLogs(w)),
                 lost |-> (IF metrics.listed THEN {} ELSE {"metrics"})
                            \cup (IF visited.lost THEN {"traces"} ELSE {})]
  BY <1>1 DEF Gather, EventsOf
<1>7. /\ signals.instant = metrics.instant /\ signals.listed = metrics.listed
      /\ signals.logs = GatherLogs(w) /\ signals.events = EventsOf(w)
      /\ signals.traces = visited.traces
      /\ signals.primary = SelectPrimaryTraceId(signals.traces, signals.logs)
      /\ signals.lost = (IF metrics.listed THEN {} ELSE {"metrics"})
                          \cup (IF visited.lost THEN {"traces"} ELSE {})
  BY <1>6
<1>8. /\ signals.lost \in SUBSET {"metrics", "traces"}
      /\ "metrics" \in signals.lost <=> ~metrics.listed
      /\ "traces" \in signals.lost <=> visited.lost
  BY <1>3, <1>5, <1>7
<1>9. /\ signals.traces # <<>> => signals.primary # NoTrace
      /\ signals.traces = <<>> /\ signals.logs = <<>> => signals.primary = NoTrace
  BY <1>3, <1>7, PrimaryOfTraces
<1>10. Context(signals)
  BY <1>2, <1>3, <1>4, <1>5, <1>7, <1>8, <1>9 DEF Context
<1> QED BY <1>1, <1>7, <1>8, <1>10

-----------------------------------------------------------------------------
(* The qualities are shares; nothing gathered earns nothing.               *)
LEMMA CountType ==
  ASSUME NEW S, NEW s \in Seq(S), NEW P \in SUBSET DOMAIN s
  PROVE  Cardinality(P) \in Nat
BY PickedType

LEMMA RedIsFinite ==
  ASSUME NEW P \in SUBSET Red
  PROVE  IsFiniteSet(P) /\ Cardinality(P) \in Nat
<1>1. IsFiniteSet({"error"})
  BY FS_Singleton
<1>2. IsFiniteSet({"error"} \cup {"rate"})
  BY <1>1, FS_AddElement
<1>3. IsFiniteSet(({"error"} \cup {"rate"}) \cup {"p95"})
  BY <1>2, FS_AddElement
<1>4. IsFiniteSet((({"error"} \cup {"rate"}) \cup {"p95"}) \cup {"p99"})
  BY <1>3, FS_AddElement
<1>5. Red = (({"error"} \cup {"rate"}) \cup {"p95"}) \cup {"p99"}
  BY DEF Red
<1>6. IsFiniteSet(Red)
  BY <1>4, <1>5
<1> QED BY <1>6, FS_Subset, FS_CardinalityType

LEMMA QuotientOfShare ==
  ASSUME NEW k \in Nat, NEW a \in Nat, NEW n \in Nat \ {0}
  PROVE  (k * a) \div n \in Nat
<1>1. PICK x : x = k * a
  OBVIOUS
<1>2. x \in Nat
  BY <1>1
<1>3. x \div n \in Nat
  BY <1>2
<1> QED BY <1>1, <1>3

(* A damped share is one, and at most as much; the more is lost the less.  *)
LEMMA DampedShare ==
  ASSUME NEW a, NEW b, NEW family, NEW percent \in 0..100, NEW x \in Nat, NEW y \in Nat,
         y <= x, family \in a.lost => family \in b.lost
  PROVE  /\ Damped(a, family, percent, x) \in Nat
         /\ Damped(a, family, percent, x) <= x
         /\ Damped(b, family, percent, y) <= Damped(a, family, percent, x)
<1>1. PICK p, q : p = percent * x /\ q = percent * y
  OBVIOUS
<1>2. p \in Nat /\ q \in Nat /\ q <= p /\ p <= 100 * x /\ q <= 100 * y
  <2>1. \A k \in 0..100, u, v \in Nat : u <= v => /\ k * u \in Nat /\ k * v \in Nat
                                                  /\ k * u <= k * v /\ k * u <= 100 * u
    OBVIOUS
  <2> QED BY <1>1, <2>1
<1>3. p \div 100 \in Nat /\ q \div 100 \in Nat /\ q \div 100 <= p \div 100
      /\ p \div 100 <= x /\ q \div 100 <= y
  BY <1>2
<1>4. /\ Damped(a, family, percent, x) = IF family \in a.lost THEN p \div 100 ELSE x
      /\ Damped(b, family, percent, y) = IF family \in b.lost THEN q \div 100 ELSE y
  BY <1>1 DEF Damped
<1> QED BY <1>3, <1>4

TracesWorth(t) ==
  LET n        == Len(t)
      errorish == Cardinality({i \in DOMAIN t : t[i].mode = "error" \/ t[i].ms > 500})
  IN  800 * Least(5, n) + (IF n = 0 THEN 0 ELSE (2500 * errorish) \div n)

IdWorth(primary) == IF primary # NoTrace THEN 3500 ELSE 0

TracesGiven(signals) == IdWorth(signals.primary) + TracesWorth(signals.traces)

LEMMA TraceQuality ==
  ASSUME NEW signals, Context(signals)
  PROVE  /\ QualityTraces(signals) = Damped(signals, "traces", 30, TracesGiven(signals))
         /\ TracesGiven(signals) \in Nat /\ QualityTraces(signals) \in Nat
         /\ TracesWorth(signals.traces) \in Nat
         /\ signals.traces = <<>> => TracesWorth(signals.traces) = 0
<1>1. PICK n, errorish :
        /\ n = Len(signals.traces)
        /\ errorish = Cardinality({i \in DOMAIN signals.traces :
                        signals.traces[i].mode = "error" \/ signals.traces[i].ms > 500})
  OBVIOUS
<1>2. n \in Nat /\ errorish \in Nat /\ (signals.traces = <<>> => n = 0)
  BY <1>1, CountType DEF Context
<1>3. PICK found, share :
        /\ found = 800 * Least(5, n)
        /\ share = IF n = 0 THEN 0 ELSE (2500 * errorish) \div n
  OBVIOUS
<1>4. found \in Nat /\ (n = 0 => found = 0)
  BY <1>2, <1>3 DEF Least
<1>5. share \in Nat /\ (n = 0 => share = 0)
  <2>1. CASE n = 0
    BY <1>3, <2>1
  <2>2. CASE n # 0
    <3>1. PICK most : most = 2500
      OBVIOUS
    <3>2. most \in Nat /\ n \in Nat \ {0}
      BY <1>2, <2>2, <3>1
    <3>3. (most * errorish) \div n \in Nat
      BY <1>2, <3>2, QuotientOfShare
    <3> QED BY <1>3, <2>2, <3>1, <3>3
  <2> QED BY <2>1, <2>2
<1>6. TracesWorth(signals.traces) = found + share
  BY <1>1, <1>3 DEF TracesWorth
<1>7. PICK id : id = IdWorth(signals.primary)
  OBVIOUS
<1>8. id \in Nat
  BY <1>7, 3500 \in Nat DEF IdWorth
<1>9. QualityTraces(signals) = Damped(signals, "traces", 30, id + found + share)
  BY <1>1, <1>3, <1>7 DEF QualityTraces, CountOf, IdWorth
<1>10. found + share \in Nat /\ id + found + share = id + (found + share)
       /\ id + (found + share) \in Nat /\ (n = 0 => found + share = 0)
  BY <1>4, <1>5, <1>8
<1>11. TracesGiven(signals) = id + (found + share)
  BY <1>6, <1>7 DEF TracesGiven
<1>12. Damped(signals, "traces", 30, id + (found + share)) \in Nat
  BY <1>10, DampedShare, 30 \in 0..100, id + (found + share) <= id + (found + share)
<1> QED BY <1>2, <1>6, <1>9, <1>10, <1>11, <1>12

LEMMA LogQuality ==
  ASSUME NEW signals, Context(signals)
  PROVE  /\ QualityLogs(signals) \in Nat
         /\ signals.logs = <<>> => QualityLogs(signals) = 0
<1>1. PICK n, traced :
        /\ n = Len(signals.logs)
        /\ traced = Cardinality({i \in DOMAIN signals.logs : signals.logs[i].trace # NoTrace})
  OBVIOUS
<1>2. n \in Nat /\ traced \in Nat /\ (signals.logs = <<>> => n = 0)
  BY <1>1, CountType DEF Context
<1>3. QualityLogs(signals) = IF n = 0 THEN 0 ELSE 550 * Least(10, n) + (4500 * traced) \div n
  <2>1. "logs" \notin signals.lost
    BY DEF Context
  <2> QED BY <1>1, <2>1 DEF QualityLogs, CountOf, Damped
<1>4. ASSUME n # 0 PROVE (4500 * traced) \div n \in Nat
  <2>1. PICK most : most = 4500
    OBVIOUS
  <2>2. most \in Nat /\ n \in Nat \ {0}
    BY <1>2, <1>4, <2>1
  <2>3. (most * traced) \div n \in Nat
    BY <1>2, <2>2, QuotientOfShare
  <2> QED BY <2>1, <2>3
<1>5. 550 * Least(10, n) \in Nat
  BY <1>2 DEF Least
<1> QED BY <1>2, <1>3, <1>4, <1>5

LEMMA EventQuality ==
  ASSUME NEW signals, Context(signals)
  PROVE  /\ QualityEvents(signals) \in Nat
         /\ signals.events = <<>> => QualityEvents(signals) = 0
<1>1. PICK n, high :
        /\ n = Len(signals.events)
        /\ high = Cardinality({i \in DOMAIN signals.events : signals.events[i].change = "high"})
  OBVIOUS
<1>2. n \in Nat /\ high \in Nat /\ (signals.events = <<>> => n = 0)
  BY <1>1, CountType DEF Context
<1>3. QualityEvents(signals) = IF n = 0 THEN 0 ELSE 5000 + (5000 * Least(3, n + high)) \div 3
  BY <1>1 DEF QualityEvents, CountOf
<1>4. Least(3, n + high) \in Nat
  BY <1>2 DEF Least
<1>5. (5000 * Least(3, n + high)) \div 3 \in Nat
  BY <1>4, QuotientOfShare, 5000 \in Nat, 3 \in Nat \ {0}
<1>6. 5000 + (5000 * Least(3, n + high)) \div 3 \in Nat
  BY <1>5, 5000 \in Nat
<1> QED BY <1>2, <1>3, <1>6

(* More metrics are never worth less, and a quality is a share at most.    *)
LEMMA WholeType == Whole \in Nat /\ Whole = 100 * 100
BY DEF Whole, Percent

LEMMA MetricQuality ==
  ASSUME NEW f \in Findings, NEW a, a.instant \in SUBSET Red
  PROVE  /\ QualityMetrics(a, f) \in Nat
         /\ QualityMetrics(a, f) <= Whole
         /\ \A b : (b.instant \in SUBSET a.instant /\ ("metrics" \in a.lost => "metrics" \in b.lost))
                     => QualityMetrics(b, f) <= QualityMetrics(a, f)
<1> DEFINE Strong     == Greatest(IF f.anomaly THEN 1500 ELSE 0, Strength(f.score))
           Covered(n) == Greatest((Whole * n) \div 3, IF f.anomaly THEN 3500 ELSE 0)
           Kept(s, n) == Damped(s, "metrics", 40, Covered(n))
           Blend(c)   == Least(Whole, (55 * c + 45 * Strong) \div 100)
<1>1. Strong \in Nat
  <2>1. PICK st : st = Strength(f.score)
    OBVIOUS
  <2>2. st \in Nat
    <3>1. \A n \in Nat : 0..n \subseteq Nat
      OBVIOUS
    <3> QED BY <2>1, <3>1, DiagnosisAssumption, WholeType
  <2> QED BY <2>1, <2>2, 1500 \in Nat DEF Greatest
<1>2. \A n \in Nat : Covered(n) \in Nat
  <2> SUFFICES ASSUME NEW n \in Nat PROVE Covered(n) \in Nat
    OBVIOUS
  <2>1. (Whole * n) \div 3 \in Nat
    BY WholeType, QuotientOfShare, 3 \in Nat \ {0}
  <2> QED BY <2>1, 3500 \in Nat DEF Greatest
<1>3. \A m, n \in Nat : m <= n => Covered(m) <= Covered(n)
  <2> SUFFICES ASSUME NEW m \in Nat, NEW n \in Nat, m <= n PROVE Covered(m) <= Covered(n)
    OBVIOUS
  <2>1. PICK x, y, least :
          x = (Whole * m) \div 3 /\ y = (Whole * n) \div 3
          /\ least = IF f.anomaly THEN 3500 ELSE 0
    OBVIOUS
  <2>2. x \in Nat /\ y \in Nat /\ x <= y
    <3>1. PICK p, q : p = Whole * m /\ q = Whole * n
      OBVIOUS
    <3>2. p \in Nat /\ q \in Nat /\ p <= q
      BY <3>1, WholeType
    <3> QED BY <2>1, <3>1, <3>2
  <2>3. least \in Nat
    BY <2>1, 3500 \in Nat
  <2> QED BY <2>1, <2>2, <2>3 DEF Greatest
<1> HIDE DEF Strong, Covered
<1>10. \A s, m, n : m \in Nat /\ n \in Nat /\ m <= n =>
         /\ Kept(s, n) \in Nat
         /\ \A t : ("metrics" \in s.lost => "metrics" \in t.lost) => Kept(t, m) <= Kept(s, n)
  <2> SUFFICES ASSUME NEW s, NEW m \in Nat, NEW n \in Nat, m <= n
               PROVE  /\ Kept(s, n) \in Nat
                      /\ \A t : ("metrics" \in s.lost => "metrics" \in t.lost) =>
                                Kept(t, m) <= Kept(s, n)
    OBVIOUS
  <2>1. Covered(m) \in Nat /\ Covered(n) \in Nat /\ Covered(m) <= Covered(n) /\ 40 \in 0..100
    BY <1>2, <1>3
  <2>2. Kept(s, n) \in Nat
    BY <2>1, DampedShare, Covered(n) <= Covered(n)
  <2>3. ASSUME NEW t, "metrics" \in s.lost => "metrics" \in t.lost
        PROVE  Kept(t, m) <= Kept(s, n)
    BY <2>1, <2>3, DampedShare
  <2> QED BY <2>2, <2>3
<1> HIDE DEF Kept
<1>4. \A c \in Nat : Blend(c) \in Nat /\ Blend(c) <= Whole
  BY <1>1, WholeType DEF Least
<1>5. \A c, d \in Nat : c <= d => Blend(c) <= Blend(d)
  BY <1>1, WholeType DEF Least
<1>6. \A b : QualityMetrics(b, f) =
               IF Cardinality(b.instant) = 0 /\ ~f.anomaly THEN 0
               ELSE Blend(Kept(b, Cardinality(b.instant)))
  BY DEF QualityMetrics, Covered, Strong, Kept
<1> HIDE DEF Blend
<1>7. Cardinality(a.instant) \in Nat
  BY RedIsFinite
<1>8. QualityMetrics(a, f) \in Nat /\ QualityMetrics(a, f) <= Whole
  <2>1. Kept(a, Cardinality(a.instant)) \in Nat
    BY <1>7, <1>10
  <2> QED BY <1>4, <1>6, <2>1, WholeType
<1>9. ASSUME NEW b, b.instant \in SUBSET a.instant, "metrics" \in a.lost => "metrics" \in b.lost
      PROVE  QualityMetrics(b, f) <= QualityMetrics(a, f)
  <2>1. PICK m, n : m = Cardinality(b.instant) /\ n = Cardinality(a.instant)
    OBVIOUS
  <2>2. m \in Nat /\ n \in Nat /\ m <= n
    BY <1>9, <2>1, RedIsFinite, FS_Subset
  <2>3. Blend(Kept(b, m)) <= Blend(Kept(a, n)) /\ Blend(Kept(a, n)) \in Nat
    <3>1. Kept(b, m) \in Nat /\ Kept(a, n) \in Nat /\ Kept(b, m) <= Kept(a, n)
      BY <1>9, <1>10, <2>2
    <3> QED BY <1>4, <1>5, <3>1
  <2>4. QualityMetrics(b, f) = IF m = 0 /\ ~f.anomaly THEN 0 ELSE Blend(Kept(b, m))
    BY <1>6, <2>1
  <2>5. QualityMetrics(a, f) = IF n = 0 /\ ~f.anomaly THEN 0 ELSE Blend(Kept(a, n))
    BY <1>6, <2>1
  <2> QED BY <1>8, <2>2, <2>3, <2>4, <2>5
<1> QED BY <1>8, <1>9

LEMMA BonusType ==
  ASSUME NEW f \in Findings
  PROVE  AlgorithmBonus(f) \in Int /\ AlgorithmBonus(f) <= 1500
<1>1. f.score \in Nat /\ f.methods \in Nat
  BY DiagnosisAssumption
<1>2. PICK consensus, magnitude :
        /\ consensus = Least(800, 300 * (Greatest(1, f.methods) - 1))
        /\ magnitude = Least(700, 120 * f.score)
  OBVIOUS
<1>3. consensus \in Int /\ magnitude \in Int
  BY <1>1, <1>2 DEF Least, Greatest
<1>4. magnitude \div 2 \in Int
  BY <1>3
<1>5. consensus + magnitude \div 2 \in Int
  BY <1>3, <1>4
<1>6. AlgorithmBonus(f) = IF f.anomaly THEN Least(1500, consensus + magnitude \div 2) ELSE 0
  BY <1>2 DEF AlgorithmBonus
<1> QED BY <1>5, <1>6 DEF Least

(* What each penalty comes to.                                             *)
FewMetrics(a, f) ==
  (a.instant = {} /\ "metrics" \in a.lost) \/ QualityMetrics(a, f) < 2000
MetricsDue(a, f) == IF FewMetrics(a, f) THEN 2500 ELSE 0
TraceDue(a, f) ==
  IF HasTraceId(a) THEN 0 ELSE IF f.metric \in {"p95", "p99", "error"} THEN 1875 ELSE 1500
LogsDue(a) == IF QualityLogs(a) < 500 THEN 1000 ELSE 0
EventsDue(a) ==
  IF a.events = <<>> /\ QualityTraces(a) < 2000 /\ QualityLogs(a) < 2000 THEN 500 ELSE 0
LossDue(a) == 1600 * Cardinality(a.lost)

LEMMA PenaltyCases ==
  ASSUME NEW f, NEW a, Context(a)
  PROVE  /\ Penalty("insufficient_metrics", a, f) = MetricsDue(a, f)
         /\ Penalty("missing_trace_id", a, f) = TraceDue(a, f)
         /\ Penalty("missing_related_logs", a, f) = LogsDue(a)
         /\ Penalty("missing_change_events", a, f) = EventsDue(a)
         /\ Penalty("source_down", a, f) = LossDue(a)
         /\ Cardinality(a.lost) \in Nat
         /\ \A b : b.lost \in SUBSET a.lost => Cardinality(b.lost) <= Cardinality(a.lost)
<1>1. Percent(25) = 2500 /\ Percent(15) = 1500 /\ Percent(10) = 1000 /\ Percent(5) = 500
      /\ 2 * Percent(8) = 1600
  BY DEF Percent
<1>2. a.listed = ("metrics" \notin a.lost) /\ a.lost \in SUBSET {"metrics", "traces"}
  BY DEF Context
<1>3. IsFiniteSet(a.lost)
  <2>1. IsFiniteSet({"metrics"} \cup {"traces"})
    BY FS_Singleton, FS_AddElement
  <2>2. {"metrics"} \cup {"traces"} = {"metrics", "traces"}
    OBVIOUS
  <2> QED BY <1>2, <2>1, <2>2, FS_Subset
<1>4. Cardinality(a.lost) \in Nat
      /\ \A b : b.lost \in SUBSET a.lost => Cardinality(b.lost) <= Cardinality(a.lost)
  BY <1>3, FS_Subset, FS_CardinalityType
<1>5. Penalty("source_down", a, f) = LossDue(a)
  BY <1>1 DEF Penalty, LossDue
<1>6. Penalty("insufficient_metrics", a, f) = MetricsDue(a, f)
  <2>1. ~a.listed <=> "metrics" \in a.lost
    BY <1>2
  <2> QED BY <1>1, <2>1 DEF Penalty, MetricsDue, FewMetrics
<1>7. Penalty("missing_trace_id", a, f) = TraceDue(a, f)
  BY <1>1 DEF Penalty, TraceDue
<1>8. Penalty("missing_related_logs", a, f) = LogsDue(a)
  BY <1>1 DEF Penalty, LogsDue
<1>9. Penalty("missing_change_events", a, f) = EventsDue(a)
  BY <1>1 DEF Penalty, EventsDue
<1> QED BY <1>4, <1>5, <1>6, <1>7, <1>8, <1>9

(* A context with less in it.                                              *)
Poorer(b, a) ==
  /\ Context(a) /\ Context(b)
  /\ b.instant \subseteq a.instant /\ a.lost \subseteq b.lost
  /\ b.logs \in {a.logs, <<>>} /\ b.events \in {a.events, <<>>}
  /\ b.traces \in {a.traces, <<>>}
  /\ b.primary # NoTrace => a.primary # NoTrace

LEMMA PoorerEarnsLess ==
  ASSUME NEW f \in Findings, NEW a, NEW b, Poorer(b, a)
  PROVE  /\ QualityMetrics(b, f) <= QualityMetrics(a, f)
         /\ QualityTraces(b) <= QualityTraces(a)
         /\ QualityLogs(b) <= QualityLogs(a)
         /\ QualityEvents(b) <= QualityEvents(a)
<1>1. Context(a) /\ Context(b)
  BY DEF Poorer
<1>2. QualityMetrics(b, f) <= QualityMetrics(a, f)
  <2>1. a.instant \in SUBSET Red /\ b.instant \in SUBSET a.instant
        /\ ("metrics" \in a.lost => "metrics" \in b.lost)
    BY DEF Poorer, Context
  <2>2. \A c : (c.instant \in SUBSET a.instant /\ ("metrics" \in a.lost => "metrics" \in c.lost))
                => QualityMetrics(c, f) <= QualityMetrics(a, f)
    BY <2>1, MetricQuality
  <2> QED BY <2>1, <2>2
<1>3. QualityTraces(b) <= QualityTraces(a)
  <2>1. PICK x, y, p, q :
          /\ x = IdWorth(b.primary) /\ y = IdWorth(a.primary)
          /\ p = TracesWorth(b.traces) /\ q = TracesWorth(a.traces)
    OBVIOUS
  <2>2. x \in Nat /\ y \in Nat /\ x <= y
    BY <2>1, 3500 \in Nat DEF IdWorth, Poorer
  <2>3. p \in Nat /\ q \in Nat /\ p <= q
    BY <1>1, <2>1, TraceQuality DEF Poorer
  <2>4. PICK u, v : u = x + p /\ v = y + q
    OBVIOUS
  <2>5. u \in Nat /\ v \in Nat /\ u <= v
    BY <2>2, <2>3, <2>4
  <2>6. /\ QualityTraces(b) = Damped(b, "traces", 30, u)
        /\ QualityTraces(a) = Damped(a, "traces", 30, v)
    BY <1>1, <2>1, <2>4, TraceQuality DEF TracesGiven
  <2>7. "traces" \in a.lost => "traces" \in b.lost
    BY DEF Poorer
  <2>8. 30 \in 0..100
    OBVIOUS
  <2>9. Damped(b, "traces", 30, u) <= Damped(a, "traces", 30, v)
    BY <2>5, <2>7, <2>8, DampedShare
  <2> QED BY <2>6, <2>9
<1>4. QualityLogs(b) <= QualityLogs(a)
  <2>1. QualityLogs(a) \in Nat /\ QualityLogs(b) \in Nat /\ (b.logs = <<>> => QualityLogs(b) = 0)
    BY <1>1, LogQuality
  <2>2. "logs" \notin a.lost /\ "logs" \notin b.lost
    BY <1>1 DEF Context
  <2>3. b.logs = a.logs => QualityLogs(b) = QualityLogs(a)
    BY <2>2 DEF QualityLogs, Damped
  <2> QED BY <2>1, <2>3 DEF Poorer
<1>5. QualityEvents(b) <= QualityEvents(a)
  <2>1. /\ QualityEvents(a) \in Nat /\ QualityEvents(b) \in Nat
        /\ b.events = <<>> => QualityEvents(b) = 0
    BY <1>1, EventQuality
  <2>2. b.events = a.events => QualityEvents(b) = QualityEvents(a)
    BY DEF QualityEvents
  <2> QED BY <2>1, <2>2 DEF Poorer
<1> QED BY <1>2, <1>3, <1>4, <1>5

LEMMA PoorerLosesMore ==
  ASSUME NEW f \in Findings, NEW a, NEW b, Poorer(b, a)
  PROVE  /\ Penalties(a, f) \in Int /\ Penalties(b, f) \in Int
         /\ Penalties(a, f) <= Penalties(b, f)
<1>1. Context(a) /\ Context(b)
  BY DEF Poorer
<1>2. PICK i, t, l, e, d, j, u, m, g, h :
        /\ i = Penalty("insufficient_metrics", a, f) /\ j = Penalty("insufficient_metrics", b, f)
        /\ t = Penalty("missing_trace_id", a, f)     /\ u = Penalty("missing_trace_id", b, f)
        /\ l = Penalty("missing_related_logs", a, f) /\ m = Penalty("missing_related_logs", b, f)
        /\ e = Penalty("missing_change_events", a, f) /\ g = Penalty("missing_change_events", b, f)
        /\ d = Penalty("source_down", a, f)          /\ h = Penalty("source_down", b, f)
  OBVIOUS
<1>10. /\ i = MetricsDue(a, f) /\ j = MetricsDue(b, f)
       /\ t = TraceDue(a, f)   /\ u = TraceDue(b, f)
       /\ l = LogsDue(a)       /\ m = LogsDue(b)
       /\ e = EventsDue(a)     /\ g = EventsDue(b)
       /\ d = LossDue(a)       /\ h = LossDue(b)
  BY <1>1, <1>2, PenaltyCases
<1>3. /\ QualityMetrics(a, f) \in Nat /\ QualityMetrics(b, f) \in Nat
      /\ QualityTraces(a) \in Nat /\ QualityTraces(b) \in Nat
      /\ QualityLogs(a) \in Nat /\ QualityLogs(b) \in Nat
  <2>1. a.instant \in SUBSET Red /\ b.instant \in SUBSET Red
    BY <1>1 DEF Context
  <2> QED BY <1>1, <2>1, MetricQuality, TraceQuality, LogQuality
<1>4. i \in Int /\ j \in Int /\ i <= j
  <2>1. FewMetrics(a, f) => FewMetrics(b, f)
    <3>1. QualityMetrics(a, f) < 2000 => QualityMetrics(b, f) < 2000
      BY <1>3, PoorerEarnsLess
    <3>2. a.instant = {} => b.instant = {}
      BY DEF Poorer
    <3>3. "metrics" \in a.lost => "metrics" \in b.lost
      BY DEF Poorer
    <3> QED BY <3>1, <3>2, <3>3 DEF FewMetrics
  <2>2. i = (IF FewMetrics(a, f) THEN 2500 ELSE 0) /\ j = (IF FewMetrics(b, f) THEN 2500 ELSE 0)
    BY <1>10 DEF MetricsDue
  <2> QED BY <2>1, <2>2
<1>5. t \in Int /\ u \in Int /\ t <= u
  <2>1. HasTraceId(b) => HasTraceId(a)
    <3>1. CASE b.primary # NoTrace
      BY <3>1 DEF HasTraceId, Poorer
    <3>2. CASE b.traces # <<>>
      BY <3>2 DEF HasTraceId, Poorer
    <3>3. CASE \E k \in DOMAIN b.logs : b.logs[k].trace # NoTrace
      BY <3>3 DEF HasTraceId, Poorer
    <3> QED BY <3>1, <3>2, <3>3 DEF HasTraceId
  <2>2. PICK most : most = IF f.metric \in {"p95", "p99", "error"} THEN 1875 ELSE 1500
    OBVIOUS
  <2>3. most \in Nat
    BY <2>2
  <2>4. t = (IF HasTraceId(a) THEN 0 ELSE most) /\ u = (IF HasTraceId(b) THEN 0 ELSE most)
    BY <1>10, <2>2 DEF TraceDue
  <2> QED BY <2>1, <2>3, <2>4
<1>6. l \in Int /\ m \in Int /\ l <= m
  <2>1. /\ l = IF QualityLogs(a) < 500 THEN 1000 ELSE 0
        /\ m = IF QualityLogs(b) < 500 THEN 1000 ELSE 0
    BY <1>10 DEF LogsDue
  <2> QED BY <1>3, <2>1, PoorerEarnsLess
<1>7. e \in Int /\ g \in Int /\ e <= g
  <2>1. a.events = <<>> => b.events = <<>>
    BY DEF Poorer
  <2>2. PICK la, lb, ta, tb :
          /\ la = QualityLogs(a) /\ lb = QualityLogs(b)
          /\ ta = QualityTraces(a) /\ tb = QualityTraces(b)
    OBVIOUS
  <2>3. /\ la \in Nat /\ lb \in Nat /\ ta \in Nat /\ tb \in Nat
        /\ lb <= la /\ tb <= ta
    BY <1>3, <2>2, PoorerEarnsLess
  <2>4. /\ e = IF a.events = <<>> /\ ta < 2000 /\ la < 2000 THEN 500 ELSE 0
        /\ g = IF b.events = <<>> /\ tb < 2000 /\ lb < 2000 THEN 500 ELSE 0
    BY <1>10, <2>2 DEF EventsDue
  <2> QED BY <2>1, <2>3, <2>4
<1>8. d \in Int /\ h \in Int /\ d <= h
  <2>1. PICK x, y : x = Cardinality(a.lost) /\ y = Cardinality(b.lost)
    OBVIOUS
  <2>2. x \in Nat /\ y \in Nat /\ (a.lost \in SUBSET b.lost => x <= y)
    BY <1>1, <2>1, PenaltyCases
  <2>3. a.lost \in SUBSET b.lost
    BY DEF Poorer
  <2>4. d = 1600 * x /\ h = 1600 * y
    BY <1>10, <2>1 DEF LossDue
  <2> QED BY <2>2, <2>3, <2>4
<1>9. Penalties(a, f) = i + t + l + e + d /\ Penalties(b, f) = j + u + m + g + h
  BY <1>2 DEF Penalties
<1> QED BY <1>4, <1>5, <1>6, <1>7, <1>8, <1>9

LEMMA WeightType ==
  /\ Weight["metrics"] \in Nat /\ Weight["traces"] \in Nat
  /\ Weight["logs"] \in Nat /\ Weight["events"] \in Nat
BY WeightAssumption DEF Families

(* The score that a weighted sum s of qualities comes to.                  *)
ScoreOf(s, f, a) ==
  Greatest(0, Least(Whole, (s \div 100 + AlgorithmBonus(f)) - Penalties(a, f)))

LEMMA PoorerIsLessSure ==
  ASSUME NEW f \in Findings, NEW a, NEW b, Poorer(b, a)
  PROVE  Score(b, f) <= Score(a, f)
<1>1. PICK m, t, l, e, n, u, k, g :
        /\ m = QualityMetrics(a, f) /\ n = QualityMetrics(b, f)
        /\ t = QualityTraces(a)     /\ u = QualityTraces(b)
        /\ l = QualityLogs(a)       /\ k = QualityLogs(b)
        /\ e = QualityEvents(a)     /\ g = QualityEvents(b)
  OBVIOUS
<1>2. /\ m \in Nat /\ t \in Nat /\ l \in Nat /\ e \in Nat
      /\ n \in Nat /\ u \in Nat /\ k \in Nat /\ g \in Nat
      /\ n <= m /\ u <= t /\ k <= l /\ g <= e
  <2>1. Context(a) /\ Context(b) /\ a.instant \in SUBSET Red /\ b.instant \in SUBSET Red
    BY DEF Poorer, Context
  <2> QED BY <1>1, <2>1, MetricQuality, TraceQuality, LogQuality, EventQuality, PoorerEarnsLess
<1>3. ASSUME NEW w \in Nat, NEW x \in Nat, NEW y \in Nat, x <= y
      PROVE  w * x \in Nat /\ w * y \in Nat /\ w * x <= w * y
  BY <1>3
<1>4. PICK wm, wt, wl, we : /\ wm = Weight["metrics"] /\ wt = Weight["traces"]
                            /\ wl = Weight["logs"]    /\ we = Weight["events"]
  OBVIOUS
<1>5. wm \in Nat /\ wt \in Nat /\ wl \in Nat /\ we \in Nat
  BY <1>4, WeightType
<1>6. PICK sa, sb : /\ sa = wm * m + wt * t + wl * l + we * e
                    /\ sb = wm * n + wt * u + wl * k + we * g
  OBVIOUS
<1>7. sa \in Nat /\ sb \in Nat /\ sb <= sa
  <2>1. wm * n \in Nat /\ wm * m \in Nat /\ wm * n <= wm * m
    BY <1>2, <1>3, <1>5
  <2>2. wt * u \in Nat /\ wt * t \in Nat /\ wt * u <= wt * t
    BY <1>2, <1>3, <1>5
  <2>3. wl * k \in Nat /\ wl * l \in Nat /\ wl * k <= wl * l
    BY <1>2, <1>3, <1>5
  <2>4. we * g \in Nat /\ we * e \in Nat /\ we * g <= we * e
    BY <1>2, <1>3, <1>5
  <2> QED BY <1>6, <2>1, <2>2, <2>3, <2>4
<1>8. PICK bonus, pa, pb : /\ bonus = AlgorithmBonus(f)
                           /\ pa = Penalties(a, f) /\ pb = Penalties(b, f)
  OBVIOUS
<1>9. bonus \in Int /\ pa \in Int /\ pb \in Int /\ pa <= pb
  BY <1>8, BonusType, PoorerLosesMore
<1>10. /\ Score(a, f) = Greatest(0, Least(Whole, (sa \div 100 + bonus) - pa))
       /\ Score(b, f) = Greatest(0, Least(Whole, (sb \div 100 + bonus) - pb))
  <2>1. /\ sa = Weight["metrics"] * QualityMetrics(a, f) + Weight["traces"] * QualityTraces(a)
                  + Weight["logs"] * QualityLogs(a) + Weight["events"] * QualityEvents(a)
        /\ sb = Weight["metrics"] * QualityMetrics(b, f) + Weight["traces"] * QualityTraces(b)
                  + Weight["logs"] * QualityLogs(b) + Weight["events"] * QualityEvents(b)
    BY <1>1, <1>4, <1>6
  <2>2. /\ Score(a, f) = ScoreOf(sa, f, a)
        /\ Score(b, f) = ScoreOf(sb, f, b)
    BY <2>1 DEF Score, ScoreOf
  <2>3. /\ ScoreOf(sa, f, a) = Greatest(0, Least(Whole, (sa \div 100 + bonus) - pa))
        /\ ScoreOf(sb, f, b) = Greatest(0, Least(Whole, (sb \div 100 + bonus) - pb))
    BY <1>8 DEF ScoreOf
  <2> QED BY <1>8, <2>2, <2>3
<1>11. sa \div 100 \in Int /\ sb \div 100 \in Int /\ sb \div 100 <= sa \div 100
  BY <1>7
<1>12. PICK x, y : x = (sb \div 100 + bonus) - pb /\ y = (sa \div 100 + bonus) - pa
  OBVIOUS
<1>13. x \in Int /\ y \in Int /\ x <= y
  BY <1>9, <1>11, <1>12
<1> QED BY <1>10, <1>12, <1>13, WholeType DEF Greatest, Least

-----------------------------------------------------------------------------
(* What two worlds with the same data gather, when the queries of a        *)
(* backend fare alike in both.                                             *)
SameData(v, w) == v.instant = w.instant /\ v.ranged = w.ranged /\ v.logs = w.logs /\ v.traces = w.traces

Alike(v, w, backend) ==
  \A q \in Queries : BackendOf(q) = backend =>
    (Answered(v, q) <=> Answered(w, q)) /\ (Escapes(v, q) <=> Escapes(w, q))

LEMMA AlikeMetrics ==
  ASSUME NEW v, NEW w, SameData(v, w), Alike(v, w, "prometheus"), Surroundings(w), NEW features
  PROVE  /\ GatherMetrics(v, features).instant = GatherMetrics(w, features).instant
         /\ GatherMetrics(v, features).listed = GatherMetrics(w, features).listed
<1>1. \A m \in Red : /\ Answered(v, <<"instant", m>>) <=> Answered(w, <<"instant", m>>)
                     /\ Escapes(v, <<"range", m>>) <=> Escapes(w, <<"range", m>>)
  BY Kinds DEF Alike
<1>2. PICK raised : raised = (\E m \in Red : Escapes(w, <<"range", m>>))
  OBVIOUS
<1>3. (\E m \in Red : Escapes(v, <<"range", m>>)) = raised
  BY <1>1, <1>2
<1>4. {m \in v.instant : Answered(v, <<"instant", m>>)} = {m \in w.instant : Answered(w, <<"instant", m>>)}
  BY <1>1 DEF SameData, Surroundings
<1> QED BY <1>2, <1>3, <1>4 DEF GatherMetrics

LEMMA AlikeLogs ==
  ASSUME NEW v, NEW w, SameData(v, w), Alike(v, w, "loki")
  PROVE  GatherLogs(v) = GatherLogs(w) /\ GatherEvents(v) = GatherEvents(w)
<1>1. ASSUME NEW label \in LogLabels, NEW limit PROVE Rows(v, label, limit) = Rows(w, label, limit)
  <2>1. Answered(v, <<"loki", label>>) <=> Answered(w, <<"loki", label>>)
    BY Kinds DEF Alike
  <2>2. v.logs = w.logs
    BY DEF SameData
  <2> QED BY <2>1, <2>2 DEF Rows
<1>2. \A k \in DOMAIN LogQueries : LogQueries[k] \in LogLabels
  BY DEF LogQueries, LogLabels
<1>3. [k \in DOMAIN LogQueries |-> Rows(v, LogQueries[k], MaxLogs)]
        = [k \in DOMAIN LogQueries |-> Rows(w, LogQueries[k], MaxLogs)]
  BY <1>1, <1>2
<1>4. Rows(v, "changes", 15) = Rows(w, "changes", 15)
  BY <1>1 DEF LogLabels
<1> QED BY <1>3, <1>4 DEF GatherLogs, GatherEvents

(* One more garbled answer either costs all the traces or is never read.   *)
Behind(x, y) == x = Wreck \/ x = y

LEMMA VisitBehind ==
  ASSUME NEW v, NEW w, v.traces = w.traces, NEW x, NEW y, Behind(x, y), NEW mode \in SearchModes,
         Answered(v, <<"tempo", mode>>) <=> Answered(w, <<"tempo", mode>>),
         Escapes(w, <<"tempo", mode>>) => Escapes(v, <<"tempo", mode>>)
  PROVE  /\ Behind(Visit(v, x, mode), Visit(w, y, mode))
         /\ x = y /\ (Escapes(w, <<"tempo", mode>>) <=> Escapes(v, <<"tempo", mode>>)) =>
              Visit(v, x, mode) = Visit(w, y, mode)
<1>1. Wreck.lost = TRUE
  BY DEF Wreck
<1>2. Visit(v, Wreck, mode) = Wreck
  BY <1>1, VisitCases
<1>3. Found(v, mode) = Found(w, mode)
  BY DEF Found
<1>4. Added(v, y, mode) = Added(w, y, mode)
  BY <1>3 DEF Added
<1>5. Visit(v, y, mode) \in {Visit(w, y, mode), Wreck}
  BY <1>4, VisitCases
<1>6. (Escapes(w, <<"tempo", mode>>) <=> Escapes(v, <<"tempo", mode>>)) =>
        Visit(v, y, mode) = Visit(w, y, mode)
  BY <1>4, VisitCases
<1> QED BY <1>2, <1>5, <1>6 DEF Behind

LEMMA TracesBehind ==
  ASSUME NEW v, NEW w, SameData(v, w), Surroundings(w),
         \A mode \in SearchModes :
           /\ Answered(v, <<"tempo", mode>>) <=> Answered(w, <<"tempo", mode>>)
           /\ Escapes(w, <<"tempo", mode>>) => Escapes(v, <<"tempo", mode>>)
  PROVE  /\ Behind(GatherTraces(v), GatherTraces(w))
         /\ Alike(v, w, "tempo") => GatherTraces(v) = GatherTraces(w)
<1>1. "error" \in SearchModes /\ "slow" \in SearchModes /\ "any" \in SearchModes
      /\ "tags" \in SearchModes
  BY DEF SearchModes
<1>2. v.traces = w.traces /\ w.traces \in Seq(AnomalyTraces)
  BY DEF SameData, Surroundings
<1>3. Alike(v, w, "tempo") => \A mode \in SearchModes :
         Escapes(w, <<"tempo", mode>>) <=> Escapes(v, <<"tempo", mode>>)
  BY Kinds DEF Alike
<1> DEFINE Beside(x, y) == Behind(x, y) /\ (Alike(v, w, "tempo") => x = y)
<1>9. ASSUME NEW x, NEW y, Beside(x, y), NEW mode \in SearchModes
      PROVE  Beside(Visit(v, x, mode), Visit(w, y, mode))
  <2>1. /\ Answered(v, <<"tempo", mode>>) <=> Answered(w, <<"tempo", mode>>)
        /\ Escapes(w, <<"tempo", mode>>) => Escapes(v, <<"tempo", mode>>)
    OBVIOUS
  <2>2. Behind(x, y) /\ (Alike(v, w, "tempo") => x = y)
    BY <1>9
  <2>3. /\ Behind(Visit(v, x, mode), Visit(w, y, mode))
        /\ x = y /\ (Escapes(w, <<"tempo", mode>>) <=> Escapes(v, <<"tempo", mode>>)) =>
             Visit(v, x, mode) = Visit(w, y, mode)
    BY <1>2, <2>1, <2>2, VisitBehind
  <2> QED BY <1>3, <2>2, <2>3
<1>4. Beside(Errors(v), Errors(w))
  <2>1. Beside(Nothing, Nothing)
    BY DEF Behind
  <2> HIDE DEF Beside
  <2> QED BY <1>1, <1>9, <2>1 DEF Errors
<1> HIDE DEF Beside
<1>5. Beside(Slow(v), Slow(w))
  BY <1>1, <1>4, <1>9 DEF Slow
<1>6. Beside(Any(v), Any(w))
  BY <1>1, <1>5, <1>9 DEF Any
<1>7. GatherTraces(v) = Visit(v, Any(v), "tags") /\ GatherTraces(w) = Visit(w, Any(w), "tags")
  BY <1>2, TracesGathered
<1>8. Beside(Visit(v, Any(v), "tags"), Visit(w, Any(w), "tags"))
  BY <1>1, <1>6, <1>9
<1> QED BY <1>7, <1>8 DEF Beside

(* What makes a context poorer, from what was gathered of each family.     *)
LEMMA GatheredPoorer ==
  ASSUME NEW v, NEW w, Surroundings(v), Surroundings(w), NEW features \in SUBSET Red,
         GatherMetrics(v, features).instant \subseteq GatherMetrics(w, features).instant,
         GatherMetrics(v, features).listed => GatherMetrics(w, features).listed,
         \/ GatherLogs(v) = GatherLogs(w) /\ GatherEvents(v) = GatherEvents(w)
         \/ GatherLogs(v) = <<>> /\ GatherEvents(v) = <<>>,
         \/ GatherTraces(v) = GatherTraces(w)
         \/ GatherTraces(v) = Wreck
         \/ GatherTraces(v) = Nothing /\ ~GatherTraces(w).lost
  PROVE  Poorer(Gather(v, features), Gather(w, features))
<1>1. PICK a, b : a = Gather(w, features) /\ b = Gather(v, features)
  OBVIOUS
<1>2. /\ Context(a) /\ Context(b)
      /\ a.instant = GatherMetrics(w, features).instant
      /\ b.instant = GatherMetrics(v, features).instant
      /\ "metrics" \in a.lost <=> ~GatherMetrics(w, features).listed
      /\ "metrics" \in b.lost <=> ~GatherMetrics(v, features).listed
      /\ a.logs = GatherLogs(w) /\ b.logs = GatherLogs(v)
      /\ a.events = EventsOf(w) /\ b.events = EventsOf(v)
      /\ a.traces = GatherTraces(w).traces /\ b.traces = GatherTraces(v).traces
      /\ "traces" \in a.lost <=> GatherTraces(w).lost
      /\ "traces" \in b.lost <=> GatherTraces(v).lost
      /\ a.primary = SelectPrimaryTraceId(a.traces, a.logs)
      /\ b.primary = SelectPrimaryTraceId(b.traces, b.logs)
  BY <1>1, ContextGathered
<1>3. /\ Nothing.traces = <<>> /\ Nothing.lost = FALSE
      /\ Wreck.traces = <<>> /\ Wreck.lost = TRUE
  BY DEF Nothing, Wreck
<1>4. b.instant \subseteq a.instant
  BY <1>2
<1>5. a.lost \subseteq b.lost
  <2>1. a.lost \subseteq {"metrics", "traces"}
    BY <1>2 DEF Context
  <2>2. "metrics" \in a.lost => "metrics" \in b.lost
    BY <1>2
  <2>3. "traces" \in a.lost => "traces" \in b.lost
    BY <1>2, <1>3
  <2> QED BY <2>1, <2>2, <2>3
<1>6. b.logs \in {a.logs, <<>>} /\ b.traces \in {a.traces, <<>>}
  BY <1>2, <1>3
<1>7. b.events \in {a.events, <<>>}
  <2>1. CASE GatherLogs(v) = GatherLogs(w) /\ GatherEvents(v) = GatherEvents(w)
    BY <1>2, <2>1 DEF EventsOf
  <2>2. CASE GatherLogs(v) = <<>> /\ GatherEvents(v) = <<>>
    <3>1. EventsOf(v) = FirstAnswer(<<<<>>, <<>>>>)
      BY <2>2, EventsOfRows DEF EventsOf
    <3> QED BY <1>2, <3>1, FirstAnswerOfTwo
  <2> QED BY <2>1, <2>2
<1>8. b.primary # NoTrace => a.primary # NoTrace
  <2>1. CASE a.traces # <<>>
    BY <1>2, <2>1 DEF Context
  <2>2. CASE a.traces = <<>>
    <3>1. b.traces = <<>>
      BY <1>6, <2>2
    <3>2. b.logs = <<>> => b.primary = NoTrace
      BY <1>2, <3>1 DEF Context
    <3>3. b.logs = a.logs => b.primary = a.primary
      BY <1>2, <2>2, <3>1
    <3> QED BY <1>6, <3>2, <3>3
  <2> QED BY <2>1, <2>2
<1> QED BY <1>1, <1>2, <1>4, <1>5, <1>6, <1>7, <1>8 DEF Poorer

(* A backend that falls silent, whatever of it failed before, leaves its   *)
(* family empty, and the others as they are.                               *)
LEMMA SilencePoorer ==
  ASSUME world \in AnomalyWorlds, finding \in Findings, NEW backend \in Backends \ LostSources
  PROVE  Poorer(Gather(Silenced(backend), finding.features), Gather(world, finding.features))
<1>1. PICK v, w, features : v = Silenced(backend) /\ w = world /\ features = finding.features
  OBVIOUS
<1>2. /\ SameData(v, w) /\ v.down = w.down \cup {backend}
      /\ v.failed = w.failed /\ v.garbled = w.garbled
  BY <1>1 DEF Silenced, AnomalyWorlds, SameData
<1>3. Surroundings(v) /\ Surroundings(w)
  BY <1>1, <1>2 DEF Surroundings, AnomalyWorlds, SameData
<1>4. features \in SUBSET Red
  BY <1>1, DiagnosisAssumption
<1>5. \A other : other # backend => Alike(v, w, other)
  BY <1>2 DEF Alike, Answered, Escapes
<1>6. \A q \in Queries : BackendOf(q) = backend => ~Answered(v, q) /\ ~Escapes(v, q)
  BY <1>2 DEF Answered, Escapes
<1>7. PICK lost : lost = Gather(w, features).lost
  OBVIOUS
<1>8. /\ "metrics" \in lost <=> ~GatherMetrics(w, features).listed
      /\ "traces" \in lost <=> GatherTraces(w).lost
  BY <1>3, <1>4, <1>7, ContextGathered
<1>9. LostSources = {SourceOf(family) : family \in lost}
  BY <1>1, <1>7 DEF LostSources
<1>10. backend # "tempo" => GatherTraces(v) = GatherTraces(w)
  <2> SUFFICES ASSUME backend # "tempo" PROVE GatherTraces(v) = GatherTraces(w)
    OBVIOUS
  <2>1. Alike(v, w, "tempo")
    BY <1>5
  <2>2. \A mode \in SearchModes :
          /\ Answered(v, <<"tempo", mode>>) <=> Answered(w, <<"tempo", mode>>)
          /\ Escapes(w, <<"tempo", mode>>) => Escapes(v, <<"tempo", mode>>)
    BY <2>1, Kinds DEF Alike
  <2> QED BY <1>2, <1>3, <2>1, <2>2, TracesBehind
<1>11. backend # "loki" => GatherLogs(v) = GatherLogs(w) /\ GatherEvents(v) = GatherEvents(w)
  BY <1>2, <1>5, AlikeLogs
<1>12. backend # "prometheus" =>
         /\ GatherMetrics(v, features).instant = GatherMetrics(w, features).instant
         /\ GatherMetrics(v, features).listed = GatherMetrics(w, features).listed
  BY <1>2, <1>3, <1>5, AlikeMetrics
<1>13. CASE backend = "prometheus"
  <2>1. GatherMetrics(w, features).listed
    <3>1. "metrics" \notin lost
      BY <1>9, <1>13 DEF SourceOf
    <3> QED BY <1>8, <3>1
  <2>2. \A m \in Red : ~Escapes(v, <<"range", m>>) /\ ~Answered(v, <<"instant", m>>)
    BY <1>6, <1>13, Kinds
  <2>3. GatherMetrics(v, features).instant = features
    <3>1. {m \in v.instant : Answered(v, <<"instant", m>>)} = {}
      BY <1>3, <2>2 DEF Surroundings
    <3> QED BY <2>2, <3>1 DEF GatherMetrics
  <2>4. features \subseteq GatherMetrics(w, features).instant
    BY DEF GatherMetrics
  <2> QED BY <1>1, <1>3, <1>4, <1>10, <1>11, <1>13, <2>1, <2>3, <2>4, GatheredPoorer
<1>14. CASE backend = "loki"
  <2>1. GatherLogs(v) = <<>> /\ GatherEvents(v) = <<>>
    BY <1>2, <1>3, <1>14, LogsGathered, EventsGathered DEF Surroundings
  <2> QED BY <1>1, <1>3, <1>4, <1>10, <1>12, <1>14, <2>1, GatheredPoorer
<1>15. CASE backend = "tempo"
  <2>1. GatherTraces(v) = Nothing
    BY <1>2, <1>3, <1>15, TracesGathered DEF Surroundings
  <2>2. ~GatherTraces(w).lost
    <3>1. "traces" \notin lost
      BY <1>9, <1>15 DEF SourceOf
    <3> QED BY <1>8, <3>1
  <2> QED BY <1>1, <1>3, <1>4, <1>11, <1>12, <1>15, <2>1, <2>2, GatheredPoorer
<1> QED BY <1>13, <1>14, <1>15 DEF Backends

(* A garbled answer loses its whole family, or is not read.                *)
LEMMA GarblingPoorer ==
  ASSUME world \in AnomalyWorlds, finding \in Findings, NEW query
  PROVE  Poorer(Gather(Mangled(query), finding.features), Gather(world, finding.features))
<1>1. PICK v, w, features : v = Mangled(query) /\ w = world /\ features = finding.features
  OBVIOUS
<1>2. /\ SameData(v, w) /\ v.down = w.down /\ v.failed = w.failed
      /\ v.garbled = w.garbled \cup {query}
  BY <1>1 DEF Mangled, AnomalyWorlds, SameData
<1>3. Surroundings(v) /\ Surroundings(w)
  BY <1>1, <1>2 DEF Surroundings, AnomalyWorlds, SameData
<1>4. features \in SUBSET Red
  BY <1>1, DiagnosisAssumption
<1>5. \A q : (Answered(v, q) <=> Answered(w, q)) /\ (Escapes(w, q) => Escapes(v, q))
  BY <1>2 DEF Answered, Escapes
<1>6. GatherLogs(v) = GatherLogs(w) /\ GatherEvents(v) = GatherEvents(w)
  <2>1. ASSUME NEW label, NEW limit PROVE Rows(v, label, limit) = Rows(w, label, limit)
    BY <1>2, <1>5 DEF Rows, SameData
  <2> QED BY <2>1 DEF GatherLogs, GatherEvents
<1>7. Behind(GatherTraces(v), GatherTraces(w))
  BY <1>2, <1>3, <1>5, TracesBehind
<1>8. /\ GatherMetrics(v, features).instant \subseteq GatherMetrics(w, features).instant
      /\ GatherMetrics(v, features).listed => GatherMetrics(w, features).listed
  <2>1. PICK x, y : /\ x = (\E m \in Red : Escapes(v, <<"range", m>>))
                    /\ y = (\E m \in Red : Escapes(w, <<"range", m>>))
    OBVIOUS
  <2>2. y => x
    BY <1>5, <2>1
  <2>3. {m \in v.instant : Answered(v, <<"instant", m>>)} = {m \in w.instant : Answered(w, <<"instant", m>>)}
    BY <1>2, <1>5 DEF SameData
  <2> QED BY <2>1, <2>2, <2>3 DEF GatherMetrics
<1> QED BY <1>1, <1>3, <1>4, <1>6, <1>7, <1>8, GatheredPoorer DEF Behind

(* Neither a backend that stops answering, whichever of its queries failed *)
(* before, nor an answer of the wrong shape makes an anomaly look more     *)
(* certain: what a family would have shown only ever adds to a quality or  *)
(* lifts a penalty, and without the traces the primary trace id can only   *)
(* be lost.                                                                *)
THEOREM LossesDoNotPersuade == Spec => []LossIsNotRewarded
<1>1. ASSUME TypeOK PROVE LossIsNotRewarded
  <2> SUFFICES ASSUME subject = "anomaly"
               PROVE  /\ \A backend \in Backends \ LostSources :
                           Judged(Silenced(backend)).confidence <= Decision.confidence
                      /\ \A query \in Breakable \cap Unguarded :
                           Judged(Mangled(query)).confidence <= Decision.confidence
    BY DEF LossIsNotRewarded
  <2>1. world \in AnomalyWorlds /\ finding \in Findings
    BY <1>1 DEF TypeOK
  <2>2. \A w : Judged(w).confidence = Score(Gather(w, finding.features), finding)
    BY DEF Judged, Build
  <2>3. ASSUME NEW v, Poorer(Gather(v, finding.features), Gather(world, finding.features))
        PROVE  Judged(v).confidence <= Decision.confidence
    BY <2>1, <2>2, <2>3, PoorerIsLessSure DEF Decision
  <2>4. ASSUME NEW backend \in Backends \ LostSources
        PROVE  Judged(Silenced(backend)).confidence <= Decision.confidence
    BY <2>1, <2>3, SilencePoorer
  <2>5. ASSUME NEW query \in Breakable \cap Unguarded
        PROVE  Judged(Mangled(query)).confidence <= Decision.confidence
    BY <2>1, <2>3, GarblingPoorer
  <2> QED BY <2>4, <2>5
<1> QED BY <1>1, Typed, PTL

-----------------------------------------------------------------------------
(* Metrics alone: what the least of the penalties comes to.                *)
BareContext(a) == Context(a) /\ a.logs = <<>> /\ a.traces = <<>> /\ a.events = <<>>

LEMMA BareContextIsPenalised ==
  ASSUME NEW f \in Findings, NEW a, BareContext(a)
  PROVE  Penalties(a, f) \in Int /\ Penalties(a, f) >= 3000
<1>1. Context(a) /\ ~HasTraceId(a)
  BY DEF BareContext, Context, HasTraceId
<1>2. QualityTraces(a) = 0 /\ QualityLogs(a) = 0 /\ QualityMetrics(a, f) \in Nat
  <2>1. a.primary = NoTrace /\ a.instant \in SUBSET Red
    BY DEF BareContext, Context
  <2>2. TracesGiven(a) = 0
    BY <1>1, <2>1, TraceQuality DEF BareContext, IdWorth, TracesGiven
  <2>3. QualityTraces(a) = 0
    BY <1>1, <2>2, TraceQuality DEF Damped
  <2>4. QualityLogs(a) = 0
    BY <1>1, LogQuality DEF BareContext
  <2>5. QualityMetrics(a, f) \in Nat
    BY <2>1, MetricQuality
  <2> QED BY <2>3, <2>4, <2>5
<1>3. PICK i, t, l, e, d :
        /\ i = Penalty("insufficient_metrics", a, f)  /\ t = Penalty("missing_trace_id", a, f)
        /\ l = Penalty("missing_related_logs", a, f)  /\ e = Penalty("missing_change_events", a, f)
        /\ d = Penalty("source_down", a, f)
  OBVIOUS
<1>4. /\ i = MetricsDue(a, f) /\ t = TraceDue(a, f) /\ l = LogsDue(a) /\ e = EventsDue(a)
      /\ d = LossDue(a) /\ Cardinality(a.lost) \in Nat
  BY <1>1, <1>3, PenaltyCases
<1>5. i \in Nat /\ d \in Nat
  <2>1. PICK x : x = Cardinality(a.lost)
    OBVIOUS
  <2>2. x \in Nat /\ d = 1600 * x
    BY <1>4, <2>1 DEF LossDue
  <2>3. i \in {0, 2500}
    BY <1>4 DEF MetricsDue
  <2> QED BY <2>2, <2>3
<1>6. t \in Nat /\ t >= 1500
  BY <1>1, <1>4 DEF TraceDue
<1>7. l = 1000 /\ e = 500
  <2>1. a.events = <<>>
    BY DEF BareContext
  <2> QED BY <1>2, <1>4, <2>1 DEF LogsDue, EventsDue
<1>8. Penalties(a, f) = i + t + l + e + d
  BY <1>3 DEF Penalties
<1> QED BY <1>5, <1>6, <1>7, <1>8

LEMMA BareContextIsDoubted ==
  ASSUME NEW f \in Findings, NEW a, BareContext(a), Weight["metrics"] < 55
  PROVE  Score(a, f) \in Int /\ Score(a, f) < Percent(40)
<1>1. PICK m, wm : m = QualityMetrics(a, f) /\ wm = Weight["metrics"]
  OBVIOUS
<1>2. m \in Nat /\ m <= Whole /\ wm \in Nat /\ wm < 55
  <2>1. a.instant \in SUBSET Red
    BY DEF BareContext, Context
  <2> QED BY <1>1, <2>1, MetricQuality, WeightType
<1>3. PICK s : s = wm * m
  OBVIOUS
<1>4. PICK t, l, e : t = QualityTraces(a) /\ l = QualityLogs(a) /\ e = QualityEvents(a)
  OBVIOUS
<1>5. t = 0 /\ l = 0 /\ e = 0
  <2>1. a.primary = NoTrace /\ Context(a)
    BY DEF BareContext, Context
  <2>2. TracesGiven(a) = 0
    BY <2>1, TraceQuality DEF BareContext, IdWorth, TracesGiven
  <2>3. t = 0
    BY <1>4, <2>1, <2>2, TraceQuality DEF Damped
  <2> QED BY <1>4, <2>1, <2>3, LogQuality, EventQuality DEF BareContext
<1>6. s \in Nat /\ s \div 100 \in Int /\ s \div 100 <= 5400
  <2>1. s \in Nat
    BY <1>2, <1>3
  <2>2. s <= 54 * m
    <3>1. \A w, q \in Nat : w < 55 => w * q <= 54 * q
      OBVIOUS
    <3> QED BY <1>2, <1>3, <3>1
  <2>3. m <= 100 * 100
    BY <1>2, WholeType
  <2>4. s <= 5400 * 100
    BY <1>2, <2>1, <2>2, <2>3
  <2> QED BY <2>1, <2>4
<1>7. Score(a, f) = ScoreOf(s, f, a)
  <2>1. PICK wt, wl, we : wt = Weight["traces"] /\ wl = Weight["logs"] /\ we = Weight["events"]
    OBVIOUS
  <2>2. wt \in Nat /\ wl \in Nat /\ we \in Nat
    BY <2>1, WeightType
  <2>3. \A n \in Nat : n * 0 = 0
    OBVIOUS
  <2>4. wt * t = 0 /\ wl * l = 0 /\ we * e = 0
    BY <1>5, <2>2, <2>3
  <2>5. s = wm * m + wt * t + wl * l + we * e
    BY <1>3, <1>6, <2>4
  <2>6. s = Weight["metrics"] * QualityMetrics(a, f) + Weight["traces"] * QualityTraces(a)
                + Weight["logs"] * QualityLogs(a) + Weight["events"] * QualityEvents(a)
    BY <1>1, <1>4, <2>1, <2>5
  <2>7. Score(a, f)
          = ScoreOf(Weight["metrics"] * QualityMetrics(a, f) + Weight["traces"] * QualityTraces(a)
                      + Weight["logs"] * QualityLogs(a) + Weight["events"] * QualityEvents(a), f, a)
    BY DEF Score, ScoreOf
  <2> QED BY <2>6, <2>7
<1>8. PICK bonus, lost : bonus = AlgorithmBonus(f) /\ lost = Penalties(a, f)
  OBVIOUS
<1>9. bonus \in Int /\ bonus <= 1500 /\ lost \in Int /\ lost >= 3000
  BY <1>8, BonusType, BareContextIsPenalised
<1>10. PICK x : x = (s \div 100 + bonus) - lost
  OBVIOUS
<1>11. x \in Int /\ x <= 3900
  BY <1>6, <1>9, <1>10
<1>12. ScoreOf(s, f, a) = Greatest(0, Least(Whole, x))
  BY <1>8, <1>10 DEF ScoreOf
<1>13. Percent(40) = 4000
  BY DEF Percent
<1> QED BY <1>7, <1>11, <1>12, <1>13, WholeType DEF Greatest, Least

(* A metric without surroundings is not enough, as long as the metrics     *)
(* weigh less than 55 of the 100 percent: at their best they earn as many  *)
(* points, the methods 15 more, and what is missing costs at least 30.     *)
THEOREM MetricsAloneDoNotConvince ==
  ASSUME Weight["metrics"] < 55
  PROVE  Spec => []LoudMetricIsNotEnough
<1>1. ASSUME TypeOK PROVE LoudMetricIsNotEnough
  <2>1. PICK decision, a : decision = Decision /\ a = Gather(world, finding.features)
    OBVIOUS
  <2> SUFFICES ASSUME subject = "anomaly", decision.signals.logs = <<>>,
                      decision.signals.traces = <<>>, decision.signals.events = <<>>
               PROVE  decision.confidence < Percent(40) /\ decision.severity <= 2
    BY <2>1 DEF LoudMetricIsNotEnough
  <2>2. world \in AnomalyWorlds /\ finding \in Findings
    BY <1>1 DEF TypeOK
  <2>3. Context(a)
    <3>1. Surroundings(world) /\ finding.features \in SUBSET Red
      BY <2>2, DiagnosisAssumption DEF AnomalyWorlds, Surroundings
    <3> QED BY <2>1, <3>1, ContextGathered
  <2>4. /\ decision.confidence = Score(a, finding)
        /\ decision.severity = SeverityFromScore(finding, Score(a, finding))
        /\ decision.signals = TrimSignals(a)
    BY <2>1 DEF Decision, Judged, Build
  <2>5. /\ TrimSignals(a).logs = FirstOf(a.logs, 10)
        /\ TrimSignals(a).traces = FirstOf(a.traces, 8)
        /\ TrimSignals(a).events = FirstOf(a.events, 8)
    <3>1. PICK signals : signals = a
      OBVIOUS
    <3> QED BY <2>1, <3>1 DEF TrimSignals, Gather
  <2>6. BareContext(a)
    <3>1. /\ FirstOf(a.logs, 10) = <<>> /\ FirstOf(a.traces, 8) = <<>>
          /\ FirstOf(a.events, 8) = <<>>
      BY <2>4, <2>5
    <3>2. /\ a.logs \in Seq(AnomalyRows) /\ a.events \in Seq(AnomalyRows)
          /\ a.traces \in Seq(TraceHits)
      BY <2>3 DEF Context
    <3>3. 10 \in Nat /\ 8 \in Nat /\ 10 > 0 /\ 8 > 0
      OBVIOUS
    <3>4. a.logs = <<>>
      BY <3>1, <3>2, <3>3, FirstOfType
    <3>5. a.traces = <<>>
      BY <3>1, <3>2, <3>3, FirstOfType
    <3>6. a.events = <<>>
      BY <3>1, <3>2, <3>3, FirstOfType
    <3> QED BY <2>3, <3>4, <3>5, <3>6 DEF BareContext
  <2>7. Score(a, finding) \in Int /\ Score(a, finding) < Percent(40)
    BY <2>2, <2>6, BareContextIsDoubted
  <2>8. SeverityFromScore(finding, Score(a, finding)) <= 2
    <3>1. PICK c : c = Score(a, finding)
      OBVIOUS
    <3>2. c \in Int /\ c < Percent(40) /\ ~(c >= Percent(70))
      BY <2>7, <3>1 DEF Percent
    <3>3. PICK base : base = CASE finding.manual \/ finding.score >= 5 ->
                                    IF finding.score >= 8 THEN 4 ELSE 3
                               [] 2 * finding.score >= 3 * SeverityThreshold -> 3
                               [] finding.score >= SeverityThreshold -> 2
                               [] OTHER -> 1
      OBVIOUS
    <3>4. base \in {1, 2, 3, 4}
      BY <3>3
    <3>5. SeverityFromScore(finding, c)
            = CASE c < Percent(40) /\ base >= 3 -> 2
                [] c >= Percent(70) /\ base = 2 -> 3
                [] OTHER -> base
      BY <3>3 DEF SeverityFromScore
    <3> QED BY <3>1, <3>2, <3>4, <3>5
  <2> QED BY <2>4, <2>7, <2>8
<1> QED BY <1>1, Typed, PTL

-----------------------------------------------------------------------------
(* The rules: what they read of the evidence.                              *)
RatesShown(rates) == rates.err \in Int /\ rates.lat \in Int

LEMMA RatesAreShown ==
  ASSUME NEW w, w.rates \in [Shop -> ShownRates], NEW s
  PROVE  RatesShown(Incident!Rates(w, s))
<1>1. \A r \in ShownRates : RatesShown(r)
  BY DiagnosisAssumption DEF RatesShown
<1>2. RatesShown([err |-> Incident!Unknown, lat |-> Incident!Unknown])
  BY DEF RatesShown, Incident!Unknown
<1>3. CASE s \in Shop /\ "prometheus" \notin w.down
  BY <1>1, <1>3 DEF Incident!Rates, Incident!Services, Shop
<1>4. CASE ~(s \in Shop /\ "prometheus" \notin w.down)
  BY <1>2, <1>4 DEF Incident!Rates, Incident!Services, Shop
<1> QED BY <1>3, <1>4

PeersShown(pack) ==
  \A p \in DOMAIN pack.neighbor_rates : RatesShown(pack.neighbor_rates[p])

LEMMA EvidenceShowsPeers ==
  ASSUME NEW w, w.rates \in [Shop -> ShownRates], NEW service
  PROVE  PeersShown(Incident!Gather(w, service))
<1>1. PICK pack, P : /\ pack = Incident!Gather(w, service)
                     /\ P = DOMAIN pack.neighbor_rates
  OBVIOUS
<1>2. \A p \in P : pack.neighbor_rates[p] = Incident!Rates(w, p)
  BY <1>1 DEF Incident!Gather
<1> QED BY <1>1, <1>2, RatesAreShown DEF PeersShown

LEMMA PeerScoreType ==
  ASSUME NEW pack, PeersShown(pack), NEW peer \in DOMAIN pack.neighbor_rates
  PROVE  Incident!PeerScore(pack, peer) \in Int
<1>1. PICK e, l : e = pack.neighbor_rates[peer].err /\ l = pack.neighbor_rates[peer].lat
  OBVIOUS
<1>2. e \in Int /\ l \in Int
  BY <1>1 DEF PeersShown, RatesShown
<1>3. \E a \in {e, 0}, b \in {l, 0}, c \in {20, 0} :
        Incident!PeerScore(pack, peer) = a + b + c
  BY <1>1 DEF Incident!PeerScore
<1> QED BY <1>2, <1>3

LEMMA RootIsAPeer ==
  ASSUME NEW pack, Incident!DependencyRoot(pack) # NoService
  PROVE  Incident!DependencyRoot(pack) \in DOMAIN pack.neighbor_rates
<1> DEFINE up == pack.topology.upstream
           score(i) == IF up[i] \in DOMAIN pack.neighbor_rates
                         THEN Incident!PeerScore(pack, up[i]) ELSE 0
           best == {i \in DOMAIN up :
                      /\ score(i) >= 10
                      /\ \A j \in DOMAIN up :
                           score(j) < score(i) \/ (score(j) = score(i) /\ i <= j)}
<1>1. Incident!DependencyRoot(pack)
        = IF best = {} THEN NoService ELSE up[CHOOSE i \in best : TRUE]
  BY DEF Incident!DependencyRoot
<1>2. best # {}
  BY <1>1
<1>3. PICK i : i = CHOOSE k \in best : TRUE
  OBVIOUS
<1>4. i \in best
  BY <1>2, <1>3
<1>5. up[i] \in DOMAIN pack.neighbor_rates
  <2>1. score(i) >= 10
    BY <1>4
  <2>2. ~(0 >= 10)
    OBVIOUS
  <2> QED BY <2>1, <2>2
<1> QED BY <1>1, <1>2, <1>3, <1>5

LEMMA SameCardinality == \A S : Incident!Cardinality(S) = Cardinality(S)
BY DEF Cardinality, Incident!Cardinality

LEMMA MatchIsAPattern ==
  ASSUME NEW rows, NEW events, Incident!BestMatch(rows, events) # 0
  PROVE  Incident!BestMatch(rows, events) \in DOMAIN Patterns
<1> DEFINE hits == {i \in DOMAIN Patterns :
                      \/ Incident!Phrases(Patterns[i], rows) # {}
                      \/ Incident!ChangeHit(Patterns[i], events)}
           score == [i \in DOMAIN Patterns |-> Incident!MatchScore(Patterns[i], rows, events)]
           wins(i) == \A j \in hits :
                        \/ Incident!MatchScore(Patterns[j], rows, events)
                             < Incident!MatchScore(Patterns[i], rows, events)
                        \/ (/\ Incident!MatchScore(Patterns[j], rows, events)
                                 = Incident!MatchScore(Patterns[i], rows, events)
                            /\ i <= j)
<1>1. Incident!BestMatch(rows, events)
        = IF hits = {} THEN 0 ELSE CHOOSE i \in hits : wins(i)
  BY DEF Incident!BestMatch
<1>2. hits # {}
  BY <1>1
<1>3. \A i \in hits : score[i] \in Int
  <2> SUFFICES ASSUME NEW i \in DOMAIN Patterns
               PROVE  Incident!MatchScore(Patterns[i], rows, events) \in Int
    OBVIOUS
  <2>1. PICK n, r : /\ n = Cardinality(Incident!Phrases(Patterns[i], rows))
                    /\ r = Patterns[i].priority
    OBVIOUS
  <2>2. n \in Nat
    <3>1. IsFiniteSet(Patterns[i].phrases)
      BY DiagnosisAssumption
    <3>2. Incident!Phrases(Patterns[i], rows) \subseteq Patterns[i].phrases
      BY DEF Incident!Phrases
    <3> QED BY <2>1, <3>1, <3>2, FS_Subset, FS_CardinalityType
  <2>3. r \in Int
    BY <2>1, DiagnosisAssumption
  <2>4. Incident!MatchScore(Patterns[i], rows, events)
          = r + 5 * n + (IF Incident!ChangeHit(Patterns[i], events) THEN 8 ELSE 0)
    BY <2>1, SameCardinality DEF Incident!MatchScore
  <2> QED BY <2>2, <2>3, <2>4
<1>4. Len(Patterns) \in Nat /\ hits \in SUBSET (1..Len(Patterns))
  BY DiagnosisAssumption
<1>5. \E i \in hits : wins(i)
  <2>1. \A i \in hits : score[i] = Incident!MatchScore(Patterns[i], rows, events)
    OBVIOUS
  <2> HIDE DEF hits, score
  <2>2. \E i \in hits : Winner(hits, score, i)
    BY <1>2, <1>3, <1>4, SomePlaceWins
  <2> QED BY <2>1, <2>2 DEF Winner
<1> HIDE DEF hits, wins
<1>6. Incident!BestMatch(rows, events) \in hits
  BY <1>1, <1>2, <1>5
<1> QED BY <1>6 DEF hits

(* What a stage of the rules hands on: a list of causes, and a confidence  *)
(* that is a number, and at most c unless a cause grounds it.              *)
Grounded(causes) ==
  \E i \in DOMAIN causes : causes[i].kind \in {"dependency", "pattern", "shared"}

IsList(causes) == \E S : causes \in Seq(S)

IsStage(stage) == "causes" \in DOMAIN stage /\ "confidence" \in DOMAIN stage

Sound(stage, c) ==
  /\ IsStage(stage) /\ IsList(stage.causes) /\ stage.confidence \in Int
  /\ Grounded(stage.causes) \/ stage.confidence <= c

LEMMA ListOfOne == \A b : IsList(<<b>>) /\ (\E i \in DOMAIN <<b>> : <<b>>[i] = b)
<1> SUFFICES ASSUME NEW b PROVE IsList(<<b>>) /\ (\E i \in DOMAIN <<b>> : <<b>>[i] = b)
  OBVIOUS
<1>1. <<b>> \in Seq({b}) /\ 1 \in DOMAIN <<b>> /\ <<b>>[1] = b
  OBVIOUS
<1> QED BY <1>1 DEF IsList

LEMMA EmptyIsUngrounded == IsList(<<>>) /\ ~Grounded(<<>>)
<1>1. <<>> \in Seq({}) /\ DOMAIN <<>> = {}
  OBVIOUS
<1> QED BY <1>1 DEF IsList, Grounded

(* A cause added in front or at the end stays in the list, with the others.*)
LEMMA CausesAreKept ==
  ASSUME NEW causes, IsList(causes), NEW b
  PROVE  /\ IsList(<<b>> \o causes) /\ IsList(causes \o <<b>>) /\ IsList(Append(causes, b))
         /\ Grounded(causes) => /\ Grounded(<<b>> \o causes) /\ Grounded(causes \o <<b>>)
                                /\ Grounded(Append(causes, b))
         /\ b.kind \in {"dependency", "pattern", "shared"} =>
              Grounded(<<b>> \o causes) /\ Grounded(causes \o <<b>>)
<1>1. PICK R : causes \in Seq(R)
  BY DEF IsList
<1>2. PICK S : S = R \cup {b}
  OBVIOUS
<1>3. causes \in Seq(S) /\ <<b>> \in Seq(S) /\ b \in S
  BY <1>1, <1>2
<1>4. PICK n : n = Len(causes)
  OBVIOUS
<1>5. n \in Nat /\ DOMAIN causes = 1..n
  BY <1>3, <1>4
<1>6. /\ <<b>> \o causes \in Seq(S) /\ causes \o <<b>> \in Seq(S)
      /\ Append(causes, b) \in Seq(S)
  BY <1>3
<1>7. /\ DOMAIN (<<b>> \o causes) = 1..(n + 1) /\ (<<b>> \o causes)[1] = b
      /\ \A i \in 1..n : (<<b>> \o causes)[i + 1] = causes[i]
  BY <1>3, <1>4, <1>5
<1>8. /\ DOMAIN (causes \o <<b>>) = 1..(n + 1) /\ (causes \o <<b>>)[n + 1] = b
      /\ \A i \in 1..n : (causes \o <<b>>)[i] = causes[i]
  BY <1>3, <1>4, <1>5
<1>9. /\ DOMAIN Append(causes, b) = 1..(n + 1)
      /\ \A i \in 1..n : Append(causes, b)[i] = causes[i]
  BY <1>3, <1>4, <1>5
<1>10. \A i \in 1..n : i \in 1..(n + 1) /\ i + 1 \in 1..(n + 1)
  BY <1>5
<1>11. 1 \in 1..(n + 1) /\ n + 1 \in 1..(n + 1)
  BY <1>5
<1>12. /\ IsList(<<b>> \o causes) /\ IsList(causes \o <<b>>) /\ IsList(Append(causes, b))
  BY <1>6 DEF IsList
<1>13. ASSUME Grounded(causes)
       PROVE  Grounded(<<b>> \o causes) /\ Grounded(causes \o <<b>>) /\ Grounded(Append(causes, b))
  <2>1. PICK i \in 1..n : causes[i].kind \in {"dependency", "pattern", "shared"}
    BY <1>5, <1>13 DEF Grounded
  <2> QED BY <1>7, <1>8, <1>9, <1>10, <2>1 DEF Grounded
<1>14. ASSUME b.kind \in {"dependency", "pattern", "shared"}
       PROVE  Grounded(<<b>> \o causes) /\ Grounded(causes \o <<b>>)
  BY <1>7, <1>8, <1>11, <1>14 DEF Grounded
<1> QED BY <1>12, <1>13, <1>14

LEMMA StageOf ==
  \A causes, confidence, actions :
    /\ IsStage(Incident!Stage(causes, confidence, actions))
    /\ Incident!Stage(causes, confidence, actions).causes = causes
    /\ Incident!Stage(causes, confidence, actions).confidence = confidence
BY DEF Incident!Stage, IsStage

(* A stage that changes the confidence only.                               *)
LEMMA StageOfConfidence ==
  ASSUME NEW before, IsStage(before), NEW confidence
  PROVE  LET stage == [before EXCEPT !.confidence = confidence]
         IN  IsStage(stage) /\ stage.causes = before.causes /\ stage.confidence = confidence
BY DEF IsStage

LEMMA TopologyIsSound ==
  ASSUME NEW pack, PeersShown(pack)
  PROVE  Sound(Incident!AfterTopology(pack), 25)
<1>1. PICK peer, stage : peer = Incident!DependencyRoot(pack) /\ stage = Incident!AfterTopology(pack)
  OBVIOUS
<1>2. CASE peer = NoService
  <2>1. IsStage(stage) /\ stage.causes = <<>> /\ stage.confidence = 25
    BY <1>1, <1>2, StageOf DEF Incident!AfterTopology
  <2> QED BY <1>1, <2>1, EmptyIsUngrounded DEF Sound
<1>3. CASE peer # NoService
  <2>1. PICK b, score : /\ b = [kind |-> "dependency", service |-> peer]
                        /\ score = Incident!PeerScore(pack, peer)
    OBVIOUS
  <2>2. IsStage(stage) /\ stage.causes = <<b>> /\ stage.confidence = Incident!AtMost(72, 55 + score \div 10)
    BY <1>1, <1>3, <2>1, StageOf DEF Incident!AfterTopology
  <2>3. score \in Int
    BY <1>1, <1>3, <2>1, RootIsAPeer, PeerScoreType
  <2>4. stage.confidence \in Int
    BY <2>2, <2>3 DEF Incident!AtMost
  <2>5. IsList(<<b>>) /\ Grounded(<<b>>)
    <3>1. b.kind = "dependency"
      BY <2>1
    <3> QED BY <3>1, ListOfOne DEF Grounded
  <2> QED BY <1>1, <2>2, <2>4, <2>5 DEF Sound
<1> QED BY <1>2, <1>3

LEMMA BetterOfTwo ==
  \A a, b \in Int :
    /\ Incident!AtLeast(a, b) \in Int /\ Incident!AtMost(a, b) \in Int
    /\ Incident!AtMost(a, b) <= a /\ Incident!AtMost(a, b) <= b
    /\ Incident!AtLeast(a, b) = a \/ Incident!AtLeast(a, b) = b
    /\ a <= Incident!AtLeast(a, b) /\ b <= Incident!AtLeast(a, b)
BY DEF Incident!AtLeast, Incident!AtMost

LEMMA LogsAreSound ==
  ASSUME NEW pack, NEW rows, NEW before, Sound(before, 25)
  PROVE  Sound(Incident!AfterLogs(pack, rows, before), 50)
<1> DEFINE stage   == Incident!AfterLogs(pack, rows, before)
           match   == Incident!BestMatch(rows, pack.change_events)
           pattern == Patterns[match]
           blamed  == Incident!BlamedByPattern(pattern, pack, rows)
           seen    == before.confidence + (IF rows # <<>> THEN 10 ELSE 0)
           bit     == IF Incident!SharedRoot(pattern, rows)
                        THEN [kind |-> "shared", service |-> NoService]
                        ELSE [kind |-> "pattern", service |-> blamed]
           leads   == \/ before.causes = <<>>
                      \/ Incident!MatchScore(pattern, rows, pack.change_events) >= 90
           causes  == IF leads THEN <<bit>> \o before.causes ELSE before.causes \o <<bit>>
           more    == Append(before.causes, Incident!Elevated(pack, "elevated"))
           most    == Incident!AtLeast(seen, 50)
<1>1. seen \in Int /\ (Grounded(before.causes) \/ seen <= 35)
  BY DEF Sound
<1>2. CASE match # 0
  <2>1. PICK actions : actions = before.actions \o Incident!PatternActions(pattern, blamed)
    OBVIOUS
  <2>2. stage = Incident!Stage(causes, Incident!AtLeast(seen, pattern.base), actions)
    BY <1>2, <2>1 DEF Incident!AfterLogs
  <2>3. bit.kind \in {"dependency", "pattern", "shared"}
    OBVIOUS
  <2>4. pattern.base \in Int
    BY <1>2, MatchIsAPattern, DiagnosisAssumption
  <2> HIDE DEF stage, match, pattern, seen, bit, leads
  <2>5. causes = <<bit>> \o before.causes \/ causes = before.causes \o <<bit>>
    OBVIOUS
  <2>6. IsList(causes) /\ Grounded(causes)
    BY <2>3, <2>5, CausesAreKept DEF Sound
  <2> HIDE DEF causes
  <2>7. /\ IsStage(stage) /\ stage.causes = causes
        /\ stage.confidence = Incident!AtLeast(seen, pattern.base)
    BY <2>2, StageOf
  <2>8. stage.confidence \in Int
    BY <1>1, <2>4, <2>7, BetterOfTwo
  <2>9. Sound(stage, 50)
    BY <2>6, <2>7, <2>8 DEF Sound
  <2> QED BY <2>9 DEF stage
<1>3. CASE match = 0
  <2>1. \/ stage = Incident!Stage(more, most, Append(before.actions,
                                               Incident!Action({"open logs"}, NoService)))
        \/ stage = [before EXCEPT !.confidence = seen]
    BY <1>3 DEF Incident!AfterLogs
  <2> HIDE DEF stage, match, seen
  <2>2. most \in Int /\ (most = seen \/ most = 50)
    BY <1>1 DEF Incident!AtLeast
  <2>3. IsList(more) /\ (Grounded(before.causes) => Grounded(more))
    BY CausesAreKept DEF Sound
  <2> HIDE DEF more, most
  <2>4. ASSUME NEW actions, stage = Incident!Stage(more, most, actions)
        PROVE  Sound(stage, 50)
    <3>1. IsStage(stage) /\ stage.confidence = most /\ stage.causes = more
      BY <2>4, StageOf
    <3> QED BY <1>1, <2>2, <2>3, <3>1 DEF Sound
  <2>5. ASSUME stage = [before EXCEPT !.confidence = seen]
        PROVE  Sound(stage, 50)
    <3>1. IsStage(stage) /\ stage.causes = before.causes /\ stage.confidence = seen
      BY <2>5, StageOfConfidence DEF Sound
    <3> QED BY <1>1, <3>1 DEF Sound
  <2>6. Sound(stage, 50)
    BY <2>1, <2>4, <2>5
  <2> QED BY <2>6 DEF stage
<1> QED BY <1>2, <1>3

LEMMA TracesAreSound ==
  ASSUME NEW pack, NEW traces, NEW before, Sound(before, 50)
  PROVE  Sound(Incident!AfterTraces(pack, traces, before), 55)
<1>1. PICK stage : stage = Incident!AfterTraces(pack, traces, before)
  OBVIOUS
<1>2. before.confidence \in Int /\ IsList(before.causes)
      /\ (Grounded(before.causes) \/ before.confidence <= 50)
  BY DEF Sound
<1>3. PICK b : b = [kind |-> "slow_trace", service |-> pack.service]
  OBVIOUS
<1>4. \/ stage = before
      \/ /\ IsStage(stage) /\ stage.confidence = before.confidence + 5
         /\ \/ stage.causes = before.causes
            \/ before.causes = <<>> /\ stage.causes = <<b>>
  <2>1. \/ stage = before
        \/ \E actions :
             \/ stage = Incident!Stage(before.causes, before.confidence + 5, actions)
             \/ /\ before.causes = <<>>
                /\ stage = Incident!Stage(<<b>>, before.confidence + 5, actions)
    BY <1>1, <1>3 DEF Incident!AfterTraces
  <2> QED BY <2>1, StageOf
<1>5. before.causes = <<>> => before.confidence <= 50
  BY <1>2, EmptyIsUngrounded
<1>6. IsStage(stage) /\ IsList(stage.causes)
  BY <1>2, <1>4, ListOfOne DEF Sound
<1>7. stage.confidence \in Int /\ stage.confidence <= before.confidence + 5
  BY <1>2, <1>4
<1>8. stage.causes = before.causes \/ before.causes = <<>>
  BY <1>4
<1> QED BY <1>1, <1>2, <1>5, <1>6, <1>7, <1>8 DEF Sound

(* An incomplete gathering leaves a cause and at most 40.                  *)
LEMMA ErrorsAreCapped ==
  ASSUME NEW pack, NEW before, Sound(before, 55)
  PROVE  LET stage == Incident!AfterGatherErrors(pack, before)
         IN  /\ Sound(stage, 55)
             /\ pack.errors # {} => stage.confidence <= 40 /\ stage.causes # <<>>
<1> DEFINE stage == Incident!AfterGatherErrors(pack, before)
           only  == \A i \in DOMAIN before.causes : before.causes[i].kind = "slow_trace"
           some  == [kind |-> "insufficient", service |-> pack.service]
           part  == [kind |-> "incomplete", service |-> pack.service]
           next  == Append(before.actions, Incident!Action({"restore"}, NoService))
<1>1. /\ IsStage(before) /\ before.confidence \in Int
      /\ \A c \in Int : Incident!AtMost(before.confidence, c) \in Int
      /\ \A c \in Int : Incident!AtMost(before.confidence, c) <= c
      /\ \A c \in Int : Incident!AtMost(before.confidence, c) <= before.confidence
  BY BetterOfTwo DEF Sound
<1>2. /\ pack.errors = {} => stage = before
      /\ pack.errors # {} =>
           \/ stage = Incident!Stage(<<some>>, Incident!AtMost(before.confidence, 30), next)
           \/ stage = Incident!Stage(<<part>>, 40, next)
           \/ /\ before.causes # <<>>
              /\ stage = [before EXCEPT !.confidence = Incident!AtMost(@, 40)]
  BY DEF Incident!AfterGatherErrors
<1>3. \A b : <<b>> # <<>>
  OBVIOUS
<1> HIDE DEF stage, some, part, next
<1>4. CASE pack.errors = {}
  BY <1>2, <1>4 DEF stage
<1>5. CASE stage = Incident!Stage(<<some>>, Incident!AtMost(before.confidence, 30), next)
  <2>1. PICK c : c = Incident!AtMost(before.confidence, 30)
    OBVIOUS
  <2>2. c \in Int /\ c <= 30
    BY <1>1, <2>1
  <2>3. IsStage(stage) /\ stage.causes = <<some>> /\ stage.confidence = c
    BY <1>5, <2>1, StageOf
  <2> QED BY <1>3, <2>2, <2>3, ListOfOne DEF Sound, stage
<1>6. CASE stage = Incident!Stage(<<part>>, 40, next)
  <2>1. IsStage(stage) /\ stage.causes = <<part>> /\ stage.confidence = 40
    BY <1>6, StageOf
  <2> QED BY <1>3, <2>1, ListOfOne DEF Sound, stage
<1>7. CASE /\ before.causes # <<>>
           /\ stage = [before EXCEPT !.confidence = Incident!AtMost(@, 40)]
  <2>1. PICK c : c = Incident!AtMost(before.confidence, 40)
    OBVIOUS
  <2>2. c \in Int /\ c <= 40
    BY <1>1, <2>1
  <2>3. stage = [before EXCEPT !.confidence = c]
    BY <1>7, <2>1
  <2>4. IsStage(stage) /\ stage.causes = before.causes /\ stage.confidence = c
    BY <1>1, <2>3, StageOfConfidence
  <2> QED BY <1>7, <2>2, <2>4 DEF Sound, stage
<1> QED BY <1>2, <1>4, <1>5, <1>6, <1>7

(* The metrics alone ground nothing, and give at most 55.                  *)
LEMMA MetricsAreSound ==
  ASSUME NEW pack, NEW rows, NEW before, Sound(before, 55)
  PROVE  LET stage == Incident!AfterMetrics(pack, rows, before)
         IN  /\ Sound(stage, 55)
             /\ before.causes # <<>> => stage = before
<1> DEFINE stage == Incident!AfterMetrics(pack, rows, before)
           had   == before.confidence
<1>1. before.causes # <<>> => stage = before
  BY DEF Incident!AfterMetrics
<1>2. CASE before.causes # <<>>
  BY <1>1, <1>2
<1>3. CASE before.causes = <<>>
  <2>1. had \in Int /\ had <= 55
    BY <1>3, EmptyIsUngrounded DEF Sound
  <2>2. \E b, confidence, actions :
          /\ stage = Incident!Stage(<<b>>, confidence, actions)
          /\ \/ confidence = Incident!AtLeast(had, 55) \/ confidence = Incident!AtLeast(had, 50)
             \/ confidence = Incident!AtLeast(had, 45) \/ confidence = Incident!AtMost(had, 30)
    <3>1. CASE Incident!ErrorIsElevated(pack)
      <4>1. stage = Incident!Stage(
                <<IF pack.rates.err >= ErrHigh
                    THEN Incident!Elevated(pack, "elevated")
                    ELSE [kind |-> "elevated", service |-> pack.service]>>,
                Incident!AtLeast(had, IF pack.rates.err >= ErrHigh THEN 55 ELSE 50),
                IF pack.rates.err >= ErrHigh
                  THEN <<Incident!Action({"check"}, pack.service),
                         Incident!Action({"inspect"}, NoService)>>
                  ELSE <<>>)
        BY <1>3, <3>1 DEF Incident!AfterMetrics
      <4> QED BY <4>1
    <3>2. CASE ~Incident!ErrorIsElevated(pack)
      <4>1. \/ stage = Incident!Stage(<<[kind |-> "latency", service |-> pack.service]>>,
                                     Incident!AtLeast(had, 45), <<>>)
            \/ stage = Incident!Stage(<<[kind |-> "insufficient", service |-> pack.service]>>,
                                     Incident!AtMost(had, 30),
                                     <<Incident!Action({"rerun"}, NoService)>>)
        BY <1>3, <3>2 DEF Incident!AfterMetrics
      <4> QED BY <4>1
    <3> QED BY <3>1, <3>2
  <2> HIDE DEF stage, had
  <2>3. PICK b, confidence, actions :
          /\ stage = Incident!Stage(<<b>>, confidence, actions)
          /\ \/ confidence = Incident!AtLeast(had, 55) \/ confidence = Incident!AtLeast(had, 50)
             \/ confidence = Incident!AtLeast(had, 45) \/ confidence = Incident!AtMost(had, 30)
    BY <2>2
  <2>4. confidence \in Int /\ confidence <= 55
    BY <2>1, <2>3 DEF Incident!AtLeast, Incident!AtMost
  <2>5. IsStage(stage) /\ stage.causes = <<b>> /\ stage.confidence = confidence
    BY <2>3, StageOf
  <2>6. Sound(stage, 55)
    BY <2>4, <2>5, ListOfOne DEF Sound
  <2> QED BY <1>3, <2>6 DEF stage
<1> QED BY <1>2, <1>3

(* Every stage is sound, so the judgement of the rules is.                 *)
THEOREM RulesClaimWhatTheyShow == Spec => []CertaintyIsGrounded
<1>1. ASSUME TypeOK PROVE CertaintyIsGrounded
  <2> SUFFICES ASSUME subject = "incident" PROVE CertaintyIsGrounded
    BY DEF CertaintyIsGrounded
  <2>1. PICK pack, rows, traces :
          /\ pack = Evidence /\ rows = pack.logs \o pack.neighbor_logs
          /\ traces = pack.traces \o pack.neighbor_traces
    OBVIOUS
  <2>2. PeersShown(pack)
    <3>1. world \in IncidentWorlds
      BY <1>1 DEF TypeOK
    <3>2. world.rates \in [Shop -> ShownRates]
      BY <3>1 DEF IncidentWorlds
    <3> QED BY <2>1, <3>2, EvidenceShowsPeers DEF Evidence
  <2>3. PICK first, second, third, fourth, final :
          /\ first  = Incident!AfterTopology(pack)
          /\ second = Incident!AfterLogs(pack, rows, first)
          /\ third  = Incident!AfterTraces(pack, traces, second)
          /\ fourth = Incident!AfterGatherErrors(pack, third)
          /\ final  = Incident!AfterMetrics(pack, rows, fourth)
    OBVIOUS
  <2>4. Sound(third, 55)
    BY <2>2, <2>3, TopologyIsSound, LogsAreSound, TracesAreSound
  <2>5. Sound(fourth, 55) /\ (pack.errors # {} => fourth.confidence <= 40 /\ fourth.causes # <<>>)
    BY <2>3, <2>4, ErrorsAreCapped
  <2>6. Sound(final, 55) /\ (fourth.causes # <<>> => final = fourth)
    BY <2>3, <2>5, MetricsAreSound
  <2>7. PICK rca : rca = Incident!RuleBasedRca(pack)
    OBVIOUS
  <2>8. /\ rca.causes = final.causes
        /\ rca.confidence = Incident!AtLeast(5, Incident!AtMost(75, final.confidence))
    BY <2>1, <2>3, <2>7 DEF Incident!RuleBasedRca
  <2>9. PICK c : c = final.confidence
    OBVIOUS
  <2>10. c \in Int /\ (Grounded(rca.causes) \/ c <= 55) /\ (pack.errors # {} => c <= 40)
    BY <2>5, <2>6, <2>8, <2>9 DEF Sound
  <2>11. /\ rca.confidence > 55 => c > 55
         /\ c <= 40 => rca.confidence <= 40
    BY <2>8, <2>9, <2>10 DEF Incident!AtLeast, Incident!AtMost
  <2>12. rca.confidence > 55 =>
           \E i \in DOMAIN rca.causes :
             rca.causes[i].kind \in {"dependency", "pattern", "shared"}
    BY <2>10, <2>11 DEF Grounded
  <2>13. pack.errors # {} => rca.confidence <= 40
    BY <2>10, <2>11
  <2> QED BY <2>1, <2>7, <2>12, <2>13 DEF CertaintyIsGrounded
<1> QED BY <1>1, Typed, PTL

-----------------------------------------------------------------------------
(* The prompt.  A function defined by recursion over 0..m exists when its  *)
(* step stays within a set, which is what Total and Trimmed rest on.       *)
Iterates(f, X, x, F, m) ==
  f \in [0..m -> X] /\ f[0] = x /\ \A n \in 1..m : f[n] = F[n][f[n - 1]]

LEMMA Iteration ==
  ASSUME NEW X, NEW x \in X, NEW F \in [Nat -> [X -> X]], NEW m \in Nat
  PROVE  \E f : Iterates(f, X, x, F, m)
<1> DEFINE T == {k \in Nat : \E f : Iterates(f, X, x, F, k)}
<1>1. 0 \in T
  <2>1. PICK f : f = [n \in 0..0 |-> x]
    OBVIOUS
  <2>2. Iterates(f, X, x, F, 0)
    BY <2>1 DEF Iterates
  <2> QED BY <2>2
<1>2. ASSUME NEW k \in T PROVE k + 1 \in T
  <2>1. PICK f : f \in [0..k -> X] /\ f[0] = x /\ \A n \in 1..k : f[n] = F[n][f[n - 1]]
    BY DEF Iterates
  <2>2. PICK g : g = [n \in 0..(k + 1) |-> IF n = k + 1 THEN F[k + 1][f[k]] ELSE f[n]]
    OBVIOUS
  <2>3. k \in Nat /\ k \in 0..k /\ F[k + 1][f[k]] \in X
    BY <2>1
  <2>4. g \in [0..(k + 1) -> X]
    <3>1. ASSUME NEW n \in 0..(k + 1) PROVE g[n] \in X
      <4>1. CASE n = k + 1
        BY <2>2, <2>3, <4>1
      <4>2. CASE n # k + 1
        <5>1. n \in 0..k
          BY <2>3, <4>2
        <5>2. f[n] \in X
          BY <2>1, <5>1
        <5>3. g[n] = f[n]
          BY <2>2, <4>2
        <5> QED BY <5>2, <5>3
      <4> QED BY <4>1, <4>2
    <3> QED BY <2>2, <3>1
  <2>5. g[0] = x
    BY <2>1, <2>2, <2>3
  <2>6. ASSUME NEW n \in 1..(k + 1) PROVE g[n] = F[n][g[n - 1]]
    <3>1. n - 1 \in 0..k /\ n - 1 # k + 1 /\ n \in 0..(k + 1) /\ n - 1 \in 0..(k + 1)
      BY <2>3
    <3>2. g[n - 1] = f[n - 1]
      BY <2>2, <3>1
    <3>3. CASE n = k + 1
      <4>1. n - 1 = k
        BY <2>3, <3>3
      <4> QED BY <2>2, <3>1, <3>2, <3>3, <4>1
    <3>4. CASE n # k + 1
      <4>1. n \in 1..k
        BY <2>3, <3>4
      <4> QED BY <2>1, <2>2, <3>1, <3>2, <3>4, <4>1
    <3> QED BY <3>3, <3>4
  <2>7. Iterates(g, X, x, F, k + 1)
    BY <2>4, <2>5, <2>6 DEF Iterates
  <2> QED BY <2>3, <2>7
<1> HIDE DEF T
<1>3. Nat \subseteq T
  BY <1>1, <1>2, SetInduction
<1> QED BY <1>3 DEF T

(* The partial sums of a list.                                             *)
SumsOf(list, g) ==
  /\ g \in [0..Len(list) -> Nat] /\ g[0] = 0
  /\ \A n \in 1..Len(list) : g[n] = g[n - 1] + list[n]

LEMMA TotalIsASum ==
  ASSUME NEW list \in Seq(Nat)
  PROVE  /\ \E g : SumsOf(list, g) /\ Incident!Total(list) = g[Len(list)]
         /\ Incident!Total(list) \in Nat
<1>1. PICK m : m = Len(list)
  OBVIOUS
<1>2. m \in Nat /\ \A n \in 1..m : list[n] \in Nat
  BY <1>1
<1>3. PICK f \in [0..m -> Nat] : f[0] = 0 /\ \A n \in 1..m : f[n] = f[n - 1] + list[n]
  <2>1. PICK F : F = [n \in Nat |-> [x \in Nat |-> IF n \in 1..m THEN x + list[n] ELSE 0]]
    OBVIOUS
  <2>2. F \in [Nat -> [Nat -> Nat]]
    <3>1. \A n, x \in Nat : (IF n \in 1..m THEN x + list[n] ELSE 0) \in Nat
      BY <1>2
    <3> QED BY <2>1, <3>1
  <2>3. PICK f \in [0..m -> Nat] : f[0] = 0 /\ \A n \in 1..m : f[n] = F[n][f[n - 1]]
    <3>1. PICK x, X : x = 0 /\ X = Nat
      OBVIOUS
    <3>2. x \in X /\ F \in [Nat -> [X -> X]] /\ m \in Nat
      BY <1>2, <2>2, <3>1
    <3>3. PICK f : Iterates(f, X, x, F, m)
      BY <3>2, Iteration
    <3> QED BY <3>1, <3>3 DEF Iterates
  <2>4. ASSUME NEW n \in 1..m PROVE f[n] = f[n - 1] + list[n]
    <3>1. n \in Nat /\ n - 1 \in 0..m
      BY <1>2
    <3>2. <<n, f[n - 1]>> \in Nat \X Nat
      BY <2>3, <3>1
    <3>3. F[n][f[n - 1]] = f[n - 1] + list[n]
      BY <2>1, <3>1, <3>2
    <3> QED BY <2>3, <3>3
  <2>5. f \in [0..m -> Nat] /\ f[0] = 0 /\ \A n \in 1..m : f[n] = f[n - 1] + list[n]
    BY <2>3, <2>4
  <2> QED BY <2>5
<1>4. PICK h : h = CHOOSE sum : sum = [n \in 0..Len(list) |->
                                       IF n = 0 THEN 0 ELSE sum[n - 1] + list[n]]
  OBVIOUS
<1>5. f = [n \in 0..m |-> IF n = 0 THEN 0 ELSE f[n - 1] + list[n]]
  <2>1. ASSUME NEW n \in 0..m PROVE f[n] = IF n = 0 THEN 0 ELSE f[n - 1] + list[n]
    <3>1. n # 0 => n \in 1..m
      BY <1>2
    <3> QED BY <1>3, <3>1
  <2> QED BY <1>3, <2>1
<1>6. h = [n \in 0..m |-> IF n = 0 THEN 0 ELSE h[n - 1] + list[n]]
  BY <1>1, <1>4, <1>5
<1>7. h[0] = 0 /\ \A n \in 1..m : h[n] = h[n - 1] + list[n]
  <2>1. 0 \in 0..m /\ \A n \in 1..m : n \in 0..m /\ n # 0
    BY <1>2
  <2>2. h[0] = 0
    BY <1>6, <2>1
  <2>3. ASSUME NEW n \in 1..m PROVE h[n] = h[n - 1] + list[n]
    <3>1. h[n] = IF n = 0 THEN 0 ELSE h[n - 1] + list[n]
      BY <1>6, <2>1, Zenon
    <3> QED BY <2>1, <3>1
  <2> QED BY <2>2, <2>3
<1>8. \A n \in 0..m : h[n] \in Nat
  <2> DEFINE T == {n \in Nat : n <= m => h[n] \in Nat}
  <2>1. 0 \in T
    BY <1>7
  <2>2. ASSUME NEW n \in T PROVE n + 1 \in T
    <3>1. CASE n + 1 <= m
      <4>1. n \in Nat /\ n <= m /\ n + 1 \in 1..m /\ (n + 1) - 1 = n
        BY <1>2, <3>1
      <4>2. h[n + 1] = h[n] + list[n + 1]
        BY <1>7, <4>1
      <4> QED BY <1>2, <4>1, <4>2
    <3>2. CASE ~(n + 1 <= m)
      BY <3>2
    <3> QED BY <3>1, <3>2
  <2> HIDE DEF T
  <2>3. Nat \subseteq T
    BY <2>1, <2>2, SetInduction
  <2> QED BY <1>2, <2>3 DEF T
<1>9. SumsOf(list, h)
  BY <1>1, <1>6, <1>7, <1>8 DEF SumsOf
<1>10. Incident!Total(list) = h[Len(list)]
  BY <1>4 DEF Incident!Total
<1>11. h[m] \in Nat
  BY <1>2, <1>8
<1> QED BY <1>1, <1>9, <1>10, <1>11

LEMMA TotalOfNothing == Incident!Total(<<>>) = 0
<1>1. <<>> \in Seq(Nat) /\ Len(<<>>) = 0
  OBVIOUS
<1>2. PICK g : SumsOf(<<>>, g) /\ Incident!Total(<<>>) = g[Len(<<>>)]
  BY <1>1, TotalIsASum
<1> QED BY <1>1, <1>2 DEF SumsOf

(* Without its last record a list is not longer.                           *)
LEMMA TotalOfTheRest ==
  ASSUME NEW s \in Seq(Nat), s # <<>>
  PROVE  /\ SubSeq(s, 1, Len(s) - 1) \in Seq(Nat)
         /\ Len(SubSeq(s, 1, Len(s) - 1)) = Len(s) - 1
         /\ Incident!Total(SubSeq(s, 1, Len(s) - 1)) <= Incident!Total(s)
<1>1. PICK m, r : m = Len(s) /\ r = SubSeq(s, 1, Len(s) - 1)
  OBVIOUS
<1>2. m \in Nat /\ m # 0 /\ m - 1 \in Nat /\ \A n \in 1..m : s[n] \in Nat
  BY <1>1
<1>3. r \in Seq(Nat) /\ Len(r) = m - 1 /\ \A n \in 1..(m - 1) : r[n] = s[n]
  BY <1>1, <1>2
<1>4. PICK g, h : /\ SumsOf(s, g) /\ Incident!Total(s) = g[Len(s)]
                  /\ SumsOf(r, h) /\ Incident!Total(r) = h[Len(r)]
  BY <1>3, TotalIsASum
<1>5. \A n \in 0..(m - 1) : h[n] = g[n]
  <2> DEFINE T == {n \in Nat : n <= m - 1 => h[n] = g[n]}
  <2>1. 0 \in T
    BY <1>4 DEF SumsOf
  <2>2. ASSUME NEW n \in T PROVE n + 1 \in T
    <3>1. CASE n + 1 <= m - 1
      <4>1. n \in Nat /\ n <= m - 1 /\ n + 1 \in 1..m /\ n + 1 \in 1..(m - 1) /\ (n + 1) - 1 = n
        BY <1>2, <3>1
      <4>2. g[n + 1] = g[n] + s[n + 1] /\ h[n + 1] = h[n] + r[n + 1]
        BY <1>1, <1>3, <1>4, <4>1 DEF SumsOf
      <4>3. h[n + 1] = g[n + 1]
        BY <1>3, <4>1, <4>2
      <4> QED BY <4>1, <4>3
    <3>2. CASE ~(n + 1 <= m - 1)
      BY <3>2
    <3> QED BY <3>1, <3>2
  <2> HIDE DEF T
  <2>3. Nat \subseteq T
    BY <2>1, <2>2, SetInduction
  <2>4. ASSUME NEW n \in 0..(m - 1) PROVE h[n] = g[n]
    <3>1. n \in Nat /\ n <= m - 1 /\ n \in T
      BY <1>2, <2>3
    <3> QED BY <3>1 DEF T
  <2> QED BY <2>4
<1>6. m - 1 \in 0..(m - 1) /\ m \in 1..m /\ m - 1 \in 0..m
  BY <1>2
<1>7. PICK x, y, z : x = g[m - 1] /\ y = s[m] /\ z = g[m]
  OBVIOUS
<1>8. x \in Nat /\ y \in Nat /\ z = x + y
  BY <1>1, <1>2, <1>4, <1>6, <1>7 DEF SumsOf
<1>9. Incident!Total(r) = x /\ Incident!Total(s) = z
  BY <1>1, <1>3, <1>4, <1>5, <1>6, <1>7
<1> QED BY <1>1, <1>3, <1>8, <1>9

Lists == [1..5 -> Seq(Nat)]

LEMMA SizeType ==
  ASSUME NEW lists \in Lists
  PROVE  Incident!Size(lists) \in Nat
<1>1. PICK t : t = [i \in 1..5 |-> Incident!Total(lists[i])]
  OBVIOUS
<1>2. \A i \in 1..5 : Incident!Total(lists[i]) \in Nat
  BY TotalIsASum DEF Lists
<1>3. t \in Seq(Nat)
  BY <1>1, <1>2
<1>4. Incident!Size(lists) = Incident!Total(t)
  <2>1. DOMAIN lists = 1..5
    BY DEF Lists
  <2> QED BY <1>1, <2>1 DEF Incident!Size
<1> QED BY <1>3, <1>4, TotalIsASum

(* The largest list is one of those with a record, and no list is longer.  *)
LEMMA LargestOfAll ==
  ASSUME NEW kept \in Lists, \E i \in 1..5 : kept[i] # <<>>
  PROVE  LET k == Incident!Largest(kept)
         IN  /\ k \in 1..5 /\ kept[k] # <<>>
             /\ \A j \in 1..5 : Incident!Total(kept[j]) <= Incident!Total(kept[k])
<1> DEFINE candidates == {i \in DOMAIN kept : kept[i] # <<>>}
           wins(i) == \A j \in candidates :
                        \/ Incident!Total(kept[j]) < Incident!Total(kept[i])
                        \/ Incident!Total(kept[j]) = Incident!Total(kept[i]) /\ i <= j
           total == [i \in 1..5 |-> Incident!Total(kept[i])]
<1>1. PICK k : k = CHOOSE i \in candidates : wins(i)
  OBVIOUS
<1>2. k = Incident!Largest(kept)
  BY <1>1 DEF Incident!Largest
<1>3. DOMAIN kept = 1..5 /\ \A i \in 1..5 : Incident!Total(kept[i]) \in Nat
  BY TotalIsASum DEF Lists
<1>4. candidates \in SUBSET (1..5) /\ candidates # {} /\ 5 \in Nat
  BY <1>3
<1>5. \A i \in 1..5 : total[i] = Incident!Total(kept[i]) /\ total[i] \in Int
  BY <1>3
<1>6. \E i \in candidates : wins(i)
  <2> HIDE DEF candidates, total
  <2>1. \A i \in candidates : total[i] \in Int
    BY <1>4, <1>5
  <2>2. PICK i \in candidates : Winner(candidates, total, i)
    BY <1>4, <2>1, SomePlaceWins
  <2>3. wins(i)
    BY <1>4, <1>5, <2>2 DEF Winner
  <2> QED BY <2>3
<1>7. k \in candidates /\ wins(k)
  <2> HIDE DEF candidates, wins
  <2> QED BY <1>1, <1>6
<1>8. ASSUME NEW j \in 1..5 PROVE Incident!Total(kept[j]) <= Incident!Total(kept[k])
  <2>1. k \in 1..5
    BY <1>4, <1>7
  <2>2. CASE kept[j] = <<>>
    <3>1. Incident!Total(kept[j]) = 0
      BY <2>2, TotalOfNothing
    <3> QED BY <1>3, <2>1, <3>1
  <2>3. CASE kept[j] # <<>>
    <3>1. j \in candidates
      BY <1>3, <2>3
    <3>2. PICK a, b : a = Incident!Total(kept[j]) /\ b = Incident!Total(kept[k])
      OBVIOUS
    <3>3. a \in Nat /\ b \in Nat /\ (a < b \/ a = b)
      BY <1>3, <1>7, <2>1, <3>1, <3>2
    <3> QED BY <3>2, <3>3
  <2> QED BY <2>2, <2>3
<1> QED BY <1>2, <1>3, <1>7, <1>8

(* The invariant of the loop: what is kept of a list is its beginning, and *)
(* with one more record it would be at least as long as what is kept of    *)
(* any other list.                                                         *)
Back(list, n) == SubSeq(list, 1, n + 1)

Fair(lists, kept) ==
  /\ kept \in Lists
  /\ \A k \in 1..5 :
       /\ Len(kept[k]) <= Len(lists[k])
       /\ kept[k] = SubSeq(lists[k], 1, Len(kept[k]))
       /\ kept[k] # lists[k] =>
            \A j \in 1..5 : Incident!Total(kept[j])
                             <= Incident!Total(Back(lists[k], Len(kept[k])))

LEMMA ShorterBeginning ==
  ASSUME NEW s \in Seq(Nat), NEW n \in Nat, n <= Len(s), n # 0
  PROVE  SubSeq(SubSeq(s, 1, n), 1, n - 1) = SubSeq(s, 1, n - 1)
<1>1. PICK t : t = SubSeq(s, 1, n)
  OBVIOUS
<1>2. t \in Seq(Nat) /\ Len(t) = n /\ \A i \in 1..n : t[i] = s[i]
  BY <1>1
<1>3. PICK a, b : a = SubSeq(t, 1, n - 1) /\ b = SubSeq(s, 1, n - 1)
  OBVIOUS
<1>4. n - 1 \in Nat /\ n - 1 <= Len(s) /\ n - 1 <= Len(t)
  BY <1>2
<1>5. /\ a \in Seq(Nat) /\ Len(a) = n - 1 /\ \A i \in 1..(n - 1) : a[i] = t[i]
      /\ b \in Seq(Nat) /\ Len(b) = n - 1 /\ \A i \in 1..(n - 1) : b[i] = s[i]
  BY <1>2, <1>3, <1>4
<1>6. \A i \in 1..(n - 1) : i \in 1..n
  BY <1>4
<1>7. \A i \in 1..(n - 1) : a[i] = b[i]
  BY <1>2, <1>5, <1>6
<1>8. a = b
  BY <1>4, <1>5, <1>7
<1> QED BY <1>1, <1>3, <1>8

LEMMA RoundIsFair ==
  ASSUME NEW lists \in Lists, NEW kept, Fair(lists, kept), NEW room
  PROVE  Fair(lists, Incident!Round(kept, room))
<1>1. kept \in Lists /\ DOMAIN kept = 1..5
  BY DEF Fair, Lists
<1>2. CASE Incident!Round(kept, room) = kept
  BY <1>2
<1>3. CASE Incident!Round(kept, room) # kept
  <2>1. PICK k, rest, new :
          /\ k = Incident!Largest(kept) /\ rest = SubSeq(kept[k], 1, Len(kept[k]) - 1)
          /\ new = Incident!Round(kept, room)
    OBVIOUS
  <2>2. \E i \in 1..5 : kept[i] # <<>>
    BY <1>1, <1>3 DEF Incident!Round
  <2>3. new = [kept EXCEPT ![k] = rest]
    BY <1>3, <2>1 DEF Incident!Round
  <2>4. /\ k \in 1..5 /\ kept[k] # <<>>
        /\ \A j \in 1..5 : Incident!Total(kept[j]) <= Incident!Total(kept[k])
    BY <1>1, <2>1, <2>2, LargestOfAll
  <2>5. PICK n : n = Len(kept[k])
    OBVIOUS
  <2>6. kept[k] \in Seq(Nat) /\ lists[k] \in Seq(Nat)
    BY <1>1, <2>4 DEF Lists
  <2>7. /\ rest \in Seq(Nat) /\ Len(rest) = n - 1
        /\ Incident!Total(rest) <= Incident!Total(kept[k])
    BY <2>1, <2>4, <2>5, <2>6, TotalOfTheRest
  <2>8. n \in Nat /\ n # 0 /\ n <= Len(lists[k]) /\ kept[k] = SubSeq(lists[k], 1, n)
    <3>1. n <= Len(lists[k]) /\ kept[k] = SubSeq(lists[k], 1, n)
      BY <2>4, <2>5 DEF Fair
    <3>2. n \in Nat /\ n # 0
      BY <2>4, <2>5, <2>6
    <3> QED BY <3>1, <3>2
  <2>9. new[k] = rest /\ \A j \in 1..5 : j # k => new[j] = kept[j]
    BY <1>1, <2>3, <2>4
  <2>10. new \in Lists
    BY <1>1, <2>3, <2>7 DEF Lists
  <2>11. \A j \in 1..5 : /\ Incident!Total(new[j]) \in Nat /\ Incident!Total(kept[j]) \in Nat
                         /\ Incident!Total(new[j]) <= Incident!Total(kept[j])
    <3> SUFFICES ASSUME NEW j \in 1..5
                 PROVE  /\ Incident!Total(new[j]) \in Nat /\ Incident!Total(kept[j]) \in Nat
                        /\ Incident!Total(new[j]) <= Incident!Total(kept[j])
      OBVIOUS
    <3>1. new[j] \in Seq(Nat) /\ kept[j] \in Seq(Nat)
      BY <1>1, <2>10 DEF Lists
    <3>2. Incident!Total(new[j]) \in Nat /\ Incident!Total(kept[j]) \in Nat
      BY <3>1, TotalIsASum
    <3>3. CASE j = k
      BY <2>7, <2>9, <3>2, <3>3
    <3>4. CASE j # k
      BY <2>9, <3>2, <3>4
    <3> QED BY <3>2, <3>3, <3>4
  <2>12. ASSUME NEW i \in 1..5
         PROVE  /\ Len(new[i]) <= Len(lists[i])
                /\ new[i] = SubSeq(lists[i], 1, Len(new[i]))
                /\ new[i] # lists[i] =>
                     \A j \in 1..5 : Incident!Total(new[j])
                                      <= Incident!Total(Back(lists[i], Len(new[i])))
    <3>1. CASE i = k
      <4>1. Len(new[i]) = n - 1 /\ new[i] = rest
        BY <2>7, <2>9, <3>1
      <4>2. Len(new[i]) <= Len(lists[i])
        BY <2>6, <2>8, <3>1, <4>1
      <4>3. new[i] = SubSeq(lists[i], 1, Len(new[i]))
        <5>1. rest = SubSeq(SubSeq(lists[k], 1, n), 1, n - 1)
          BY <2>1, <2>5, <2>8
        <5>2. rest = SubSeq(lists[k], 1, n - 1)
          BY <2>6, <2>8, <5>1, ShorterBeginning
        <5> QED BY <3>1, <4>1, <5>2
      <4>4. Back(lists[i], Len(new[i])) = kept[k]
        <5>1. (n - 1) + 1 = n
          BY <2>8
        <5> QED BY <2>8, <3>1, <4>1, <5>1 DEF Back
      <4>5. ASSUME NEW j \in 1..5
            PROVE  Incident!Total(new[j]) <= Incident!Total(Back(lists[i], Len(new[i])))
        <5>1. PICK a, b, c : /\ a = Incident!Total(new[j]) /\ b = Incident!Total(kept[j])
                             /\ c = Incident!Total(kept[k])
          OBVIOUS
        <5>2. a \in Nat /\ b \in Nat /\ c \in Nat /\ a <= b /\ b <= c
          BY <2>4, <2>11, <5>1
        <5> QED BY <4>4, <5>1, <5>2
      <4> QED BY <4>2, <4>3, <4>5
    <3>2. CASE i # k
      <4>1. new[i] = kept[i]
        BY <2>9, <3>2
      <4>2. Len(new[i]) <= Len(lists[i]) /\ new[i] = SubSeq(lists[i], 1, Len(new[i]))
        BY <4>1 DEF Fair
      <4>3. ASSUME new[i] # lists[i], NEW j \in 1..5
            PROVE  Incident!Total(new[j]) <= Incident!Total(Back(lists[i], Len(new[i])))
        <5>1. PICK back, a, b, c :
                /\ back = Back(lists[i], Len(new[i])) /\ a = Incident!Total(new[j])
                /\ b = Incident!Total(kept[j]) /\ c = Incident!Total(back)
          OBVIOUS
        <5>2. b <= c
          BY <4>1, <4>3, <5>1 DEF Fair
        <5>3. back \in Seq(Nat)
          <6>1. lists[i] \in Seq(Nat) /\ kept[i] \in Seq(Nat) /\ kept[i] # lists[i]
            BY <1>1, <4>1, <4>3 DEF Lists
          <6>2. PICK m, p : m = Len(kept[i]) /\ p = Len(lists[i])
            OBVIOUS
          <6>3. m \in Nat /\ p \in Nat /\ m <= p
            BY <4>1, <4>2, <6>1, <6>2
          <6>4. m # p
            <7>1. SubSeq(lists[i], 1, Len(lists[i])) = lists[i]
              BY <6>1
            <7> QED BY <4>1, <4>2, <6>1, <6>2, <7>1
          <6>5. m + 1 \in Nat /\ m + 1 <= p
            BY <6>3, <6>4
          <6>6. SubSeq(lists[i], 1, m + 1) \in Seq(Nat)
            BY <6>1, <6>2, <6>5
          <6> QED BY <4>1, <5>1, <6>2, <6>6 DEF Back
        <5>4. c \in Nat
          BY <5>1, <5>3, TotalIsASum
        <5>5. a \in Nat /\ b \in Nat /\ a <= b
          BY <2>11, <5>1
        <5>6. a <= c
          BY <5>2, <5>4, <5>5
        <5> QED BY <5>1, <5>6
      <4> QED BY <4>2, <4>3
    <3> QED BY <3>1, <3>2
  <2>13. Fair(lists, new)
    BY <2>10, <2>12 DEF Fair
  <2> QED BY <2>1, <2>13
<1> QED BY <1>2, <1>3

LEMMA TrimmedIsFair ==
  ASSUME NEW lists \in Lists, NEW room
  PROVE  Fair(lists, Incident!Trimmed(lists, room))
<1>1. PICK m : m = Incident!Total([i \in DOMAIN lists |-> Len(lists[i])])
  OBVIOUS
<1>2. m \in Nat
  <2>1. PICK t : t = [i \in 1..5 |-> Len(lists[i])]
    OBVIOUS
  <2>2. t \in Seq(Nat) /\ DOMAIN lists = 1..5
    <3>1. \A i \in 1..5 : Len(lists[i]) \in Nat
      BY DEF Lists
    <3> QED BY <2>1, <3>1 DEF Lists
  <2> QED BY <1>1, <2>1, <2>2, TotalIsASum
<1>3. Fair(lists, lists)
  <2>1. \A k \in 1..5 : Len(lists[k]) <= Len(lists[k])
                        /\ lists[k] = SubSeq(lists[k], 1, Len(lists[k]))
    BY DEF Lists
  <2> QED BY <2>1 DEF Fair
<1> DEFINE X == {kept \in Lists : Fair(lists, kept)}
<1>4. \A kept \in X : Incident!Round(kept, room) \in X
  BY RoundIsFair DEF Fair
<1>5. PICK f : /\ f \in [0..m -> X] /\ f[0] = lists
               /\ \A n \in 1..m : f[n] = Incident!Round(f[n - 1], room)
  <2>1. PICK F : F = [n \in Nat |-> [kept \in X |-> Incident!Round(kept, room)]]
    OBVIOUS
  <2>2. F \in [Nat -> [X -> X]] /\ lists \in X
    BY <1>3, <1>4, <2>1
  <2> HIDE DEF X
  <2>3. PICK f : Iterates(f, X, lists, F, m)
    BY <1>2, <2>2, Iteration
  <2>4. f \in [0..m -> X] /\ f[0] = lists /\ \A n \in 1..m : f[n] = F[n][f[n - 1]]
    BY <2>3 DEF Iterates
  <2>5. ASSUME NEW n \in 1..m PROVE f[n] = Incident!Round(f[n - 1], room)
    <3>1. n \in Nat /\ n - 1 \in 0..m
      BY <1>2
    <3>2. f[n - 1] \in X
      BY <2>4, <3>1
    <3>3. F[n][f[n - 1]] = Incident!Round(f[n - 1], room)
      BY <2>1, <3>1, <3>2
    <3> QED BY <2>4, <3>3
  <2> QED BY <2>4, <2>5
<1>6. PICK h : h = CHOOSE kept : kept = [n \in 0..m |->
                     IF n = 0 THEN lists ELSE Incident!Round(kept[n - 1], room)]
  OBVIOUS
<1>7. f = [n \in 0..m |-> IF n = 0 THEN lists ELSE Incident!Round(f[n - 1], room)]
  <2>1. ASSUME NEW n \in 0..m
        PROVE  f[n] = IF n = 0 THEN lists ELSE Incident!Round(f[n - 1], room)
    <3>1. n # 0 => n \in 1..m
      BY <1>2
    <3> QED BY <1>5, <3>1
  <2> QED BY <1>5, <2>1
<1>8. h = [n \in 0..m |-> IF n = 0 THEN lists ELSE Incident!Round(h[n - 1], room)]
  BY <1>6, <1>7
<1> HIDE DEF X
<1>9. \A n \in 0..m : h[n] \in X
  <2> DEFINE T == {n \in Nat : n <= m => h[n] \in X}
  <2>1. 0 \in T
    <3>1. 0 \in 0..m
      BY <1>2
    <3>2. h[0] = lists /\ f[0] \in X
      BY <1>5, <1>8, <3>1
    <3> QED BY <1>5, <3>2
  <2>2. ASSUME NEW n \in T PROVE n + 1 \in T
    <3>1. CASE n + 1 <= m
      <4>1. n \in Nat /\ n <= m /\ n + 1 \in 0..m /\ n + 1 # 0 /\ (n + 1) - 1 = n
        BY <1>2, <3>1
      <4>2. h[n + 1] = Incident!Round(h[n], room)
        BY <1>8, <4>1
      <4>3. h[n] \in X
        BY <4>1
      <4>4. h[n + 1] \in X
        BY <1>4, <4>2, <4>3
      <4> QED BY <4>1, <4>4
    <3>2. CASE ~(n + 1 <= m)
      BY <3>2
    <3> QED BY <3>1, <3>2
  <2> HIDE DEF T
  <2>3. Nat \subseteq T
    BY <2>1, <2>2, SetInduction
  <2>4. ASSUME NEW n \in 0..m PROVE h[n] \in X
    <3>1. n \in Nat /\ n <= m /\ n \in T
      BY <1>2, <2>3
    <3> QED BY <3>1 DEF T
  <2> QED BY <2>4
<1>10. Incident!Trimmed(lists, room) = h[m]
  BY <1>1, <1>6 DEF Incident!Trimmed
<1>11. h[m] \in X
  <2>1. m \in 0..m
    BY <1>2
  <2> QED BY <1>9, <2>1
<1> QED BY <1>10, <1>11 DEF X

(* No kind of evidence pays for another one in the prompt, and what is in  *)
(* the prompt fits: the loop keeps the lists fair in every round, and the  *)
(* last check is made on what is sent.                                     *)
THEOREM NoKindPaysForAnother == Spec => []NoKindIsStarved
<1>1. ASSUME TypeOK PROVE NoKindIsStarved
  <2> SUFFICES ASSUME subject = "prompt", Prompt # NoEvidence
               PROVE  /\ FixedSize + Incident!Size(Prompt)
                           + (IF Prompt = world.lists THEN 0 ELSE NoteSize + CountsSize) <= Budget
                      /\ \A kind \in 1..5 : Prompt[kind] # world.lists[kind] =>
                           \A other \in 1..5 :
                             Incident!Total(Prompt[other])
                               <= Incident!Total(SubSeq(world.lists[kind], 1, Len(Prompt[kind]) + 1))
    BY DEF NoKindIsStarved
  <2>1. PICK lists, prompt, trimmed :
          /\ lists = world.lists /\ prompt = Prompt
          /\ trimmed = Incident!Trimmed(lists, Budget - FixedSize - NoteSize)
    OBVIOUS
  <2>2. lists \in Lists
    <3>1. world \in PromptWorlds
      BY <1>1 DEF TypeOK
    <3>2. lists \in [1..5 -> Seq(RecordSizes)] /\ RecordSizes \subseteq Nat
      BY <2>1, <3>1, DiagnosisAssumption DEF PromptWorlds
    <3>3. ASSUME NEW k \in 1..5 PROVE lists[k] \in Seq(Nat)
      <4>1. PICK list : list = lists[k]
        OBVIOUS
      <4>2. list \in Seq(RecordSizes) /\ RecordSizes \subseteq Nat
        BY <3>2, <4>1
      <4>3. Len(list) \in Nat /\ \A i \in 1..Len(list) : list[i] \in RecordSizes
        BY <4>2
      <4>4. \A i \in 1..Len(list) : list[i] \in Nat
        BY <4>2, <4>3
      <4>5. list = [i \in 1..Len(list) |-> list[i]]
        BY <4>2
      <4>6. list \in Seq(Nat)
        BY <4>3, <4>4, <4>5
      <4> QED BY <4>1, <4>6
    <3> QED BY <3>2, <3>3 DEF Lists
  <2>3. Fair(lists, trimmed)
    BY <2>1, <2>2, TrimmedIsFair
  <2>4. \/ prompt = lists /\ FixedSize + Incident!Size(lists) <= Budget
        \/ prompt = trimmed /\ FixedSize + NoteSize + CountsSize + Incident!Size(trimmed) <= Budget
        \/ prompt = NoEvidence
    <3>1. NoEvidence = [i \in DOMAIN lists |-> <<>>]
      BY <2>2 DEF NoEvidence, Lists
    <3>2. prompt = Incident!PromptBlock(lists, FixedSize, NoteSize, CountsSize, Budget)
      BY <2>1 DEF Prompt
    <3> QED BY <2>1, <3>1, <3>2 DEF Incident!PromptBlock
  <2>5. CASE prompt = lists /\ FixedSize + Incident!Size(lists) <= Budget
    <3>1. Incident!Size(lists) \in Nat /\ FixedSize \in Nat
      BY <2>2, SizeType, DiagnosisAssumption
    <3>2. FixedSize + Incident!Size(lists) + 0 <= Budget
      BY <2>5, <3>1
    <3> QED BY <2>1, <2>5, <3>2
  <2>6. CASE prompt = trimmed /\ FixedSize + NoteSize + CountsSize + Incident!Size(trimmed) <= Budget
    <3>1. PICK z, e : /\ z = Incident!Size(trimmed)
                      /\ e = IF prompt = lists THEN 0 ELSE NoteSize + CountsSize
      OBVIOUS
    <3>2. z \in Nat /\ {FixedSize, NoteSize, CountsSize, Budget} \subseteq Nat
      BY <2>3, <3>1, SizeType, DiagnosisAssumption DEF Fair
    <3>3. FixedSize + z + e <= Budget
      <4>1. PICK x, n, c, b : x = FixedSize /\ n = NoteSize /\ c = CountsSize /\ b = Budget
        OBVIOUS
      <4>2. x \in Nat /\ n \in Nat /\ c \in Nat /\ b \in Nat
        BY <3>2, <4>1
      <4>3. x + n + c + z <= b /\ (e = 0 \/ e = n + c)
        BY <2>6, <3>1, <4>1
      <4>4. x + z + e <= b
        BY <3>2, <4>2, <4>3
      <4> QED BY <4>1, <4>4
    <3>4. \A kind \in 1..5 : trimmed[kind] # lists[kind] =>
            \A other \in 1..5 : Incident!Total(trimmed[other])
                                 <= Incident!Total(Back(lists[kind], Len(trimmed[kind])))
      BY <2>3 DEF Fair
    <3> QED BY <2>1, <2>6, <3>1, <3>3, <3>4 DEF Back
  <2> QED BY <2>1, <2>4, <2>5, <2>6
<1> QED BY <1>1, Typed, PTL
=============================================================================
