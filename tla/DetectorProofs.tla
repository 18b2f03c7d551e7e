--------------------------- MODULE DetectorProofs ---------------------------
(***************************************************************************)
(* What TLAPS proves of the detector's worker, for every set of services,  *)
(* metrics, channels and bounds.                                           *)
(***************************************************************************)
EXTENDS Detector, TLAPS

(* A firing that the cooldown still covers is an entry of _last_fired.     *)
CooldownInv == \A k \in Keys : quiet[k] = 0 => lastFired[k] = 0

(* A save under way has seen nothing the detector does not know.           *)
ImageInv ==
  pc = "saving" => \A k \in Series : image.samples[k] <= samples[k]

(* There is a service while one is evaluated, and an alert while one is    *)
(* published.                                                              *)
FlowInv == /\ pc \in {"alerting", "publishing"} => services # <<>>
           /\ pc = "publishing" => alerts # <<>>

IInv == /\ TypeOK /\ FlowInv /\ CooldownInv /\ CooldownHolds
        /\ ImageInv /\ BaselineSurvives

USE DetectorAssumption, WorkerAssumption

LEMMA MoreType ==
  ASSUME NEW n \in 0..MinSamples
  PROVE  More(n) \in 0..MinSamples /\ n <= More(n)
  BY DEF More, Enough

LEMMA NothingType ==
  /\ Nothing.samples \in [Series -> 0..MinSamples]
  /\ Nothing.rows \in [Services -> 0..MinSamples]
  /\ Nothing \in [samples : [Series -> 0..MinSamples],
                  rows : [Services -> 0..MinSamples]]
  /\ NoImage \in [samples : [Series -> 0..MinSamples], disturbed : BOOLEAN]
  BY DEF Nothing, NoImage

LEMMA InOrderType ==
  ASSUME NEW metrics
  PROVE  InOrder(metrics) \in Seq(Metrics)
<1> DEFINE Only(m) == IF m \in metrics THEN <<m>> ELSE <<>>
<1>0. ASSUME NEW m \in Metrics
      PROVE  Only(m) \in Seq(Metrics)
  <2>1. <<m>> \in Seq(Metrics) /\ <<>> \in Seq(Metrics)
    OBVIOUS
  <2> QED BY <2>1
<1>1. /\ Only("rate") \in Seq(Metrics) /\ Only("error") \in Seq(Metrics)
      /\ Only("p95") \in Seq(Metrics) /\ Only("p99") \in Seq(Metrics)
      /\ Only("multivariate") \in Seq(Metrics)
  <2>1. {"rate", "error", "p95", "p99", "multivariate"} \subseteq Metrics
    BY DEF Metrics, Univariate, Latencies
  <2> HIDE DEF Only
  <2> QED BY <1>0, <2>1
<1>2. InOrder(metrics) = Only("rate") \o Only("error") \o Only("p95")
                           \o Only("p99") \o Only("multivariate")
  BY DEF InOrder
<1>3. ASSUME NEW s \in Seq(Metrics), NEW t \in Seq(Metrics)
      PROVE  s \o t \in Seq(Metrics)
  BY <1>3
<1> HIDE DEF Only
<1>4. Only("rate") \o Only("error") \in Seq(Metrics)
  BY <1>1, <1>3
<1>5. Only("rate") \o Only("error") \o Only("p95") \in Seq(Metrics)
  BY <1>1, <1>3, <1>4
<1>6. Only("rate") \o Only("error") \o Only("p95") \o Only("p99")
        \in Seq(Metrics)
  BY <1>1, <1>3, <1>5
<1> QED BY <1>1, <1>2, <1>3, <1>6

LEMMA RecordFiringType ==
  ASSUME NEW fired \in [Keys -> Ages], NEW k \in Keys
  PROVE  /\ RecordFiring(fired, k) \in [Keys -> Ages]
         /\ RecordFiring(fired, k)[k] = 0
         /\ \A j \in Keys : fired[j] = 0 => RecordFiring(fired, k)[j] = 0
<1> DEFINE all == [fired EXCEPT ![k] = 0]
           many == Cardinality({j \in Keys : all[j] # Never}) > MaxTracked
<1>1. /\ all \in [Keys -> Ages] /\ all[k] = 0
      /\ \A j \in Keys : fired[j] = 0 => all[j] = 0
  BY DEF Ages, Never
<1>2. RecordFiring(fired, k)
        = IF many THEN [j \in Keys |-> IF all[j] = 2 THEN Never ELSE all[j]]
                  ELSE all
  BY DEF RecordFiring
<1> HIDE DEF all, many
<1>3. CASE many
  <2> DEFINE kept == [j \in Keys |-> IF all[j] = 2 THEN Never ELSE all[j]]
  <2>1. kept \in [Keys -> Ages]
    BY <1>1 DEF Ages, Never
  <2>2. kept[k] = 0 /\ \A j \in Keys : fired[j] = 0 => kept[j] = 0
    BY <1>1
  <2>3. RecordFiring(fired, k) = kept
    BY <1>2, <1>3
  <2> HIDE DEF kept
  <2> QED BY <2>1, <2>2, <2>3
<1>4. CASE ~many
  BY <1>1, <1>2, <1>4
<1> QED BY <1>3, <1>4

LEMMA InitIInv == Init => IInv
<1> SUFFICES ASSUME Init PROVE IInv
  OBVIOUS
<1>1. /\ api \in [series : Series \cup {Idle.series},
                  to : Seq({"redis", "decisions", "webhook"})]
      /\ services \in Seq(Services) /\ alerts \in Seq(Metrics)
      /\ channels \in Seq({"redis", "decisions", "webhook"})
  BY DEF Init, Idle
<1>2. lastFired \in [Keys -> Ages] /\ quiet \in [Keys -> 0..2]
  BY DEF Init, Ages, Never
<1>3. faults \in 0..MaxFaults /\ world \subseteq Guarded
  BY DEF Init
<1>4. TypeOK
  BY <1>1, <1>2, <1>3, NothingType DEF Init, TypeOK
<1>5. FlowInv /\ CooldownInv /\ CooldownHolds /\ ImageInv /\ BaselineSurvives
  BY DEF Init, FlowInv, CooldownInv, CooldownHolds, ImageInv, BaselineSurvives
<1> QED BY <1>4, <1>5 DEF IInv

(***************************************************************************)
(* Every step preserves the invariant.                                     *)
(***************************************************************************)
LEMMA StartStep == IInv /\ Start => IInv'
<1> SUFFICES ASSUME IInv, Start PROVE IInv'
  OBVIOUS
<1>1. /\ checkpoint.samples \in [Series -> 0..MinSamples]
      /\ checkpoint.rows \in [Services -> 0..MinSamples]
      /\ faults \in 0..MaxFaults /\ lostBaseline \in BOOLEAN
  BY DEF IInv, TypeOK
<1>2. CASE /\ samples' = checkpoint.samples /\ rows' = checkpoint.rows
           /\ lostBaseline' = lostBaseline /\ faults' = faults
  <2>1. TypeOK'
    <3>1. lastFired' \in [Keys -> Ages] /\ quiet' \in [Keys -> 0..2]
      BY DEF Start, Ages, Never
    <3> QED BY <1>1, <1>2, <3>1 DEF IInv, Start, TypeOK
  <2>2. BaselineSurvives'
    BY <1>1, <1>2 DEF Start, BaselineSurvives
  <2> QED BY <2>1, <2>2 DEF IInv, Start, FlowInv, CooldownInv, CooldownHolds,
                            ImageInv
<1>3. CASE /\ Fault /\ lostBaseline' = TRUE
           /\ samples' = Nothing.samples /\ rows' = Nothing.rows
  <2>1. TypeOK'
    <3>1. lastFired' \in [Keys -> Ages] /\ quiet' \in [Keys -> 0..2]
      BY DEF Start, Ages, Never
    <3>2. faults' \in 0..MaxFaults
      BY <1>1, <1>3 DEF Fault
    <3> QED BY <1>3, <3>1, <3>2, NothingType DEF IInv, Start, TypeOK
  <2> QED BY <1>3, <2>1 DEF IInv, Start, FlowInv, CooldownInv, CooldownHolds,
                            ImageInv, BaselineSurvives
<1> QED BY <1>2, <1>3 DEF Start

LEMMA BeginPollStep == IInv /\ BeginPoll => IInv'
<1> SUFFICES ASSUME IInv, BeginPoll PROVE IInv'
  OBVIOUS
<1>1. /\ pc = "idle" /\ pc' = "polling"
      /\ services' = Watched /\ unreachable' = FALSE
      /\ UNCHANGED <<alerts, channels, samples, rows, lastFired, image, api,
                     world, checkpoint, quiet, stormed, lostBaseline, faults>>
  BY DEF BeginPoll, memory, history
<1>2. TypeOK'
  BY <1>1 DEF IInv, TypeOK
<1> QED BY <1>1, <1>2 DEF IInv, FlowInv, CooldownInv, CooldownHolds, ImageInv,
                          BaselineSurvives

LEMMA EvaluateStep == IInv /\ Evaluate => IInv'
<1> SUFFICES ASSUME IInv, Evaluate PROVE IInv'
  OBVIOUS
<1> DEFINE s == Head(services)
<1>1. PICK present \in SUBSET Scraped[s] :
        /\ Scrape(s, present)
        /\ \E anomalous \in SUBSET ResultsOf(present) :
             alerts' = InOrder(anomalous)
        /\ samples' = [k \in Series |->
             IF k[1] = s /\ k[2] \in present
               THEN More(samples[k]) ELSE samples[k]]
        /\ rows' = [rows EXCEPT ![s] =
             IF HasRow(present) THEN More(@) ELSE @]
  BY DEF Evaluate
<1>2. /\ pc = "polling" /\ pc' = "alerting" /\ services # <<>>
      /\ UNCHANGED <<services, channels, lastFired, image, api, world, checkpoint,
                     quiet, stormed, lostBaseline>>
  BY DEF Evaluate, history
<1>3. /\ samples \in [Series -> 0..MinSamples]
      /\ rows \in [Services -> 0..MinSamples]
      /\ faults \in 0..MaxFaults /\ unreachable \in BOOLEAN
      /\ services \in Seq(Services)
  BY DEF IInv, TypeOK
<1>4. alerts' \in Seq(Metrics)
  BY <1>1, InOrderType
<1>5. faults' \in 0..MaxFaults /\ unreachable' \in BOOLEAN
  <2>1. Scrape(s, present)
    BY <1>1
  <2> HIDE DEF s
  <2>2. /\ faults' = faults \/ Fault
        /\ unreachable' = unreachable \/ unreachable' = TRUE
    BY <2>1 DEF Scrape
  <2>3. faults' \in 0..MaxFaults
    BY <1>3, <2>2 DEF Fault
  <2> QED BY <1>3, <2>2, <2>3
<1>6. s \in Services
  BY <1>2, <1>3
<1> HIDE DEF s
<1>7. /\ samples' \in [Series -> 0..MinSamples]
      /\ \A k \in Series : samples[k] <= samples'[k]
  <2>1. \A k \in Series : /\ samples[k] \in 0..MinSamples
                          /\ More(samples[k]) \in 0..MinSamples
                          /\ samples[k] <= More(samples[k])
    BY <1>3, MoreType
  <2> QED BY <1>1, <2>1
<1>8. /\ rows' \in [Services -> 0..MinSamples]
      /\ \A t \in Services : rows[t] <= rows'[t]
  <2>1. /\ More(rows[s]) \in 0..MinSamples /\ rows[s] <= More(rows[s])
        /\ \A t \in Services : rows[t] \in 0..MinSamples
    BY <1>3, <1>6, MoreType
  <2> QED BY <1>1, <1>3, <1>6, <2>1
<1>9. TypeOK'
  BY <1>2, <1>4, <1>5, <1>7, <1>8 DEF IInv, TypeOK
<1>10. BaselineSurvives'
  <2>1. /\ checkpoint.samples \in [Series -> 0..MinSamples]
        /\ checkpoint.rows \in [Services -> 0..MinSamples]
    BY DEF IInv, TypeOK
  <2>2. SUFFICES ASSUME ~lostBaseline
                 PROVE  /\ \A j \in Series : checkpoint.samples[j] <= samples'[j]
                        /\ \A t \in Services : checkpoint.rows[t] <= rows'[t]
    BY <1>2 DEF BaselineSurvives
  <2>3. /\ \A j \in Series : checkpoint.samples[j] <= samples[j]
        /\ \A t \in Services : checkpoint.rows[t] <= rows[t]
    BY <1>2, <2>2 DEF IInv, BaselineSurvives
  <2>4. /\ \A j \in Series : checkpoint.samples[j] \in Nat /\ samples[j] \in Nat
                             /\ samples'[j] \in Nat
        /\ \A t \in Services : checkpoint.rows[t] \in Nat /\ rows[t] \in Nat
                               /\ rows'[t] \in Nat
    BY <1>3, <1>7, <1>8, <2>1
  <2>5. ASSUME NEW j \in Series PROVE checkpoint.samples[j] <= samples'[j]
    BY <1>7, <2>3, <2>4
  <2>6. ASSUME NEW t \in Services PROVE checkpoint.rows[t] <= rows'[t]
    BY <1>8, <2>3, <2>4
  <2> QED BY <2>5, <2>6
<1> QED BY <1>2, <1>9, <1>10
        DEF IInv, FlowInv, CooldownInv, CooldownHolds, ImageInv

LEMMA NotifyStep == IInv /\ Notify => IInv'
<1> SUFFICES ASSUME IInv, Notify PROVE IInv'
  OBVIOUS
<1> DEFINE k == <<Head(services), Head(alerts)>>
<1>1. /\ pc = "alerting" /\ alerts # <<>>
      /\ UNCHANGED <<services, unreachable, samples, rows, image, api, world,
                     checkpoint, lostBaseline, faults>>
  BY DEF Notify, memory
<1>2. k \in Keys
  BY <1>1 DEF IInv, TypeOK, FlowInv, Keys
<1>3. CASE /\ Cooling(k) /\ alerts' = Tail(alerts)
           /\ UNCHANGED <<pc, channels, lastFired, quiet, stormed>>
  <2>1. alerts' \in Seq(Metrics)
    BY <1>1, <1>3 DEF IInv, TypeOK
  <2>2. TypeOK'
    BY <1>1, <1>3, <2>1 DEF IInv, TypeOK
  <2> QED BY <1>1, <1>3, <2>2 DEF IInv, FlowInv, CooldownInv, CooldownHolds,
                                   ImageInv, BaselineSurvives
<1>4. CASE /\ ~Cooling(k)
           /\ lastFired' = RecordFiring(lastFired, k)
           /\ quiet' = [quiet EXCEPT ![k] = 0]
           /\ stormed' = (stormed \/ quiet[k] = 0)
           /\ \E confidence \in 0..MinConfidence :
                channels' = IF Passes(confidence) THEN Channels ELSE <<>>
           /\ pc' = "publishing" /\ alerts' = alerts
  <2> HIDE DEF k
  <2>1. lastFired \in [Keys -> Ages] /\ quiet \in [Keys -> 0..2]
    BY DEF IInv, TypeOK
  <2>2. ~stormed'
    BY <1>2, <1>4 DEF IInv, Cooling, CooldownInv, CooldownHolds
  <2>3. /\ lastFired' \in [Keys -> Ages] /\ lastFired'[k] = 0
        /\ \A j \in Keys : lastFired[j] = 0 => lastFired'[j] = 0
    BY <1>2, <1>4, <2>1, RecordFiringType
  <2>4. quiet' \in [Keys -> 0..2] /\ \A j \in Keys : j # k => quiet'[j] = quiet[j]
    BY <1>2, <1>4, <2>1
  <2>5. CooldownInv'
    BY <2>3, <2>4 DEF IInv, CooldownInv
  <2>6. channels' \in Seq({"redis", "decisions", "webhook"})
    BY <1>4
  <2>7. TypeOK'
    BY <1>1, <1>4, <2>2, <2>3, <2>4, <2>6 DEF IInv, TypeOK
  <2> QED BY <1>1, <1>4, <2>2, <2>5, <2>7
          DEF IInv, FlowInv, CooldownHolds, ImageInv, BaselineSurvives
<1> QED BY <1>3, <1>4 DEF Notify

(* The rest of the poll, up to the save: alerts and channels run out.      *)
LEMMA AlertingStep ==
  IInv /\ (EvaluationFails \/ ServiceDone \/ Publish \/ PublishFails \/ Published)
    => IInv'
<1> SUFFICES ASSUME IInv, EvaluationFails \/ ServiceDone \/ Publish
                           \/ PublishFails \/ Published
             PROVE  IInv'
  OBVIOUS
<1>1. /\ UNCHANGED <<unreachable, samples, rows, lastFired, image, api, world,
                     checkpoint, quiet, stormed, lostBaseline>>
      /\ pc \in {"alerting", "publishing"}
      /\ pc' \in {"alerting", "publishing", "polling"}
      /\ faults' \in {faults, faults + 1}
      /\ (faults' # faults => faults < MaxFaults)
  BY DEF EvaluationFails, ServiceDone, Publish, PublishFails, Published, memory,
         history, Fault
<1>2. /\ services \in Seq(Services) /\ services # <<>>
      /\ alerts \in Seq(Metrics)
      /\ channels \in Seq({"redis", "decisions", "webhook"})
      /\ faults \in 0..MaxFaults
      /\ pc = "publishing" => alerts # <<>>
  BY <1>1 DEF IInv, TypeOK, FlowInv
<1>3. /\ services' \in Seq(Services) /\ alerts' \in Seq(Metrics)
      /\ channels' \in Seq({"redis", "decisions", "webhook"})
      /\ FlowInv'
  <2>3. CASE EvaluationFails
    BY <1>2, <2>3 DEF EvaluationFails, FlowInv
  <2>4. CASE ServiceDone
    <3>1. /\ services' = Tail(services) /\ alerts' = alerts /\ channels' = channels
          /\ pc' = "polling"
      BY <2>4 DEF ServiceDone
    <3>2. services' \in Seq(Services)
      BY <1>2, <3>1
    <3> QED BY <1>2, <3>1, <3>2 DEF FlowInv
  <2>5. CASE Publish \/ PublishFails
    <3>1. /\ services' = services /\ alerts' = alerts /\ channels' = Tail(channels)
          /\ pc' = pc /\ channels # <<>>
      BY <2>5 DEF Publish, PublishFails
    <3>2. channels' \in Seq({"redis", "decisions", "webhook"})
      BY <1>2, <3>1
    <3> QED BY <1>2, <3>1, <3>2 DEF FlowInv
  <2>6. CASE Published
    <3>1. /\ services' = services /\ alerts' = Tail(alerts) /\ channels' = channels
          /\ pc' = "alerting" /\ pc = "publishing"
      BY <2>6 DEF Published
    <3>2. alerts' \in Seq(Metrics)
      BY <1>2, <3>1
    <3> QED BY <1>2, <3>1, <3>2 DEF FlowInv
  <2> QED BY <2>3, <2>4, <2>5, <2>6
<1>7. TypeOK'
  <2>1. faults' \in 0..MaxFaults
    BY <1>1, <1>2
  <2>2. pc' \in {"down", "idle", "polling", "alerting", "publishing", "saving"}
    BY <1>1
  <2>3. /\ unreachable' \in BOOLEAN /\ world' \subseteq Guarded
        /\ samples' \in [Series -> 0..MinSamples]
        /\ rows' \in [Services -> 0..MinSamples]
        /\ lastFired' \in [Keys -> Ages] /\ quiet' \in [Keys -> 0..2]
        /\ stormed' \in BOOLEAN /\ lostBaseline' \in BOOLEAN
    BY <1>1 DEF IInv, TypeOK
  <2>4. /\ image' \in [samples : [Series -> 0..MinSamples], disturbed : BOOLEAN]
        /\ api' \in [series : Series \cup {Idle.series},
                     to : Seq({"redis", "decisions", "webhook"})]
        /\ checkpoint' \in [samples : [Series -> 0..MinSamples],
                            rows : [Services -> 0..MinSamples]]
    BY <1>1 DEF IInv, TypeOK
  <2> QED BY <1>3, <2>1, <2>2, <2>3, <2>4 DEF TypeOK
<1> QED BY <1>1, <1>3, <1>7
        DEF IInv, CooldownInv, CooldownHolds, ImageInv, BaselineSurvives

LEMMA SavingStep == IInv /\ (BeginSave \/ Save \/ SaveFails \/ Stop) => IInv'
<1> SUFFICES ASSUME IInv, BeginSave \/ Save \/ SaveFails \/ Stop PROVE IInv'
  OBVIOUS
<1>1. /\ samples \in [Series -> 0..MinSamples] /\ rows \in [Services -> 0..MinSamples]
      /\ image.samples \in [Series -> 0..MinSamples]
      /\ checkpoint.samples \in [Series -> 0..MinSamples]
      /\ checkpoint.rows \in [Services -> 0..MinSamples]
      /\ faults \in 0..MaxFaults
  BY DEF IInv, TypeOK
<1>2. UNCHANGED <<services, unreachable, alerts, channels, samples, rows,
                  lastFired, api, world, quiet, stormed, lostBaseline>>
  BY DEF BeginSave, Save, SaveFails, Stop, memory, history
<1>3. CASE BeginSave
  <2>1. /\ pc' = "saving" /\ checkpoint' = checkpoint /\ faults' = faults
        /\ image' = [samples |-> samples, disturbed |-> FALSE] /\ pc # "down"
    BY <1>3 DEF BeginSave
  <2>2. TypeOK'
    BY <1>1, <1>2, <2>1 DEF IInv, TypeOK
  <2>3. ImageInv'
    BY <1>1, <1>2, <2>1 DEF ImageInv
  <2> QED BY <1>2, <2>1, <2>2, <2>3 DEF IInv, FlowInv, CooldownInv, CooldownHolds,
                                        BaselineSurvives
<1>4. CASE Save
  <2>1. PICK seen \in [Series -> 0..MinSamples] :
          /\ \A k \in Series : seen[k] \in {image.samples[k], samples[k]}
          /\ checkpoint' = [samples |-> seen, rows |-> rows]
    BY <1>4 DEF Save
  <2>2. pc = "saving" /\ pc' = "idle" /\ image' = NoImage /\ faults' = faults
    BY <1>4 DEF Save
  <2>3. ASSUME NEW k \in Series PROVE seen[k] <= samples[k]
    <3>1. seen[k] = image.samples[k] \/ seen[k] = samples[k]
      BY <2>1
    <3>2. samples[k] \in Nat
      BY <1>1
    <3>3. image.samples[k] <= samples[k]
      BY <2>2 DEF IInv, ImageInv
    <3> QED BY <3>1, <3>2, <3>3
  <2>4. TypeOK'
    BY <1>1, <1>2, <2>1, <2>2, NothingType DEF IInv, TypeOK
  <2>5. BaselineSurvives'
    BY <1>1, <1>2, <2>1, <2>3 DEF BaselineSurvives
  <2> QED BY <1>2, <2>2, <2>4, <2>5 DEF IInv, FlowInv, CooldownInv, CooldownHolds,
                                        ImageInv
<1>5. CASE SaveFails
  <2>1. /\ pc = "saving" /\ pc' = "idle" /\ image' = NoImage
        /\ checkpoint' = checkpoint
    BY <1>5 DEF SaveFails
  <2>2. faults' \in 0..MaxFaults
    BY <1>1, <1>5 DEF SaveFails, Fault
  <2>3. TypeOK'
    BY <1>1, <1>2, <2>1, <2>2, NothingType DEF IInv, TypeOK
  <2> QED BY <1>2, <2>1, <2>3 DEF IInv, FlowInv, CooldownInv, CooldownHolds,
                                  ImageInv, BaselineSurvives
<1>6. CASE Stop
  <2>1. /\ pc' = "down" /\ image' = image
        /\ checkpoint' \in {checkpoint, [samples |-> samples, rows |-> rows]}
    BY <1>6 DEF Stop
  <2>2. faults' \in 0..MaxFaults
    BY <1>1, <1>6 DEF Stop, Fault
  <2>3. checkpoint' \in [samples : [Series -> 0..MinSamples],
                        rows : [Services -> 0..MinSamples]]
    <3>1. checkpoint \in [samples : [Series -> 0..MinSamples],
                         rows : [Services -> 0..MinSamples]]
      BY DEF IInv, TypeOK
    <3>2. CASE checkpoint' = checkpoint
      BY <3>1, <3>2
    <3>3. CASE checkpoint' = [samples |-> samples, rows |-> rows]
      BY <1>1, <3>3
    <3> QED BY <2>1, <3>2, <3>3
  <2>4. TypeOK'
    <3>1. /\ image' \in [samples : [Series -> 0..MinSamples], disturbed : BOOLEAN]
          /\ api' \in [series : Series \cup {Idle.series},
                       to : Seq({"redis", "decisions", "webhook"})]
      BY <1>2, <2>1 DEF IInv, TypeOK
    <3>2. /\ services' \in Seq(Services) /\ unreachable' \in BOOLEAN
          /\ alerts' \in Seq(Metrics)
          /\ channels' \in Seq({"redis", "decisions", "webhook"})
          /\ samples' \in [Series -> 0..MinSamples]
          /\ rows' \in [Services -> 0..MinSamples]
          /\ lastFired' \in [Keys -> Ages] /\ quiet' \in [Keys -> 0..2]
          /\ world' \subseteq Guarded
          /\ stormed' \in BOOLEAN /\ lostBaseline' \in BOOLEAN
      BY <1>2 DEF IInv, TypeOK
    <3> QED BY <2>1, <2>2, <2>3, <3>1, <3>2 DEF TypeOK
  <2> QED BY <1>2, <2>1, <2>4 DEF IInv, FlowInv, CooldownInv, CooldownHolds,
                                  ImageInv, BaselineSurvives
<1> QED BY <1>3, <1>4, <1>5, <1>6

LEMMA ApiStep == IInv /\ ((\E k \in Series : ForceDetect(k)) \/ ForcePublish) => IInv'
<1> SUFFICES ASSUME IInv, (\E k \in Series : ForceDetect(k)) \/ ForcePublish
             PROVE  IInv'
  OBVIOUS
<1>1. UNCHANGED <<pc, services, unreachable, alerts, channels, rows, lastFired,
                  world, checkpoint, quiet, stormed, lostBaseline, faults>>
  BY DEF ForceDetect, ForcePublish, memory, history
<1>2. /\ samples \in [Series -> 0..MinSamples]
      /\ image \in [samples : [Series -> 0..MinSamples], disturbed : BOOLEAN]
      /\ checkpoint.samples \in [Series -> 0..MinSamples]
      /\ api \in [series : Series \cup {Idle.series},
                  to : Seq({"redis", "decisions", "webhook"})]
  BY DEF IInv, TypeOK
<1>3. ASSUME NEW k \in Series, ForceDetect(k) PROVE IInv'
  <2>1. /\ samples' = [samples EXCEPT ![k] = More(@)]
        /\ image' = IF pc = "saving" THEN [image EXCEPT !.disturbed = TRUE]
                                     ELSE image
        /\ \E confidence \in 0..MinConfidence :
             api' = [series |-> k,
                     to |-> IF Passes(confidence) THEN Channels ELSE <<>>]
    BY <1>3 DEF ForceDetect
  <2>2. More(samples[k]) \in 0..MinSamples /\ samples[k] <= More(samples[k])
    BY <1>2, MoreType
  <2>3. /\ samples' \in [Series -> 0..MinSamples]
        /\ \A j \in Series : samples[j] <= samples'[j]
    <3>1. samples' \in [Series -> 0..MinSamples]
      BY <1>2, <2>1, <2>2
    <3>2. ASSUME NEW j \in Series PROVE samples[j] <= samples'[j]
      <4>1. samples[j] \in Nat
        BY <1>2
      <4>2. CASE j = k
        BY <1>2, <2>1, <2>2, <4>2
      <4>3. CASE j # k
        <5>1. samples'[j] = samples[j]
          BY <1>2, <2>1, <4>3
        <5> QED BY <4>1, <5>1
      <4> QED BY <4>2, <4>3
    <3> QED BY <3>1, <3>2
  <2>4. /\ image' \in [samples : [Series -> 0..MinSamples], disturbed : BOOLEAN]
        /\ image'.samples = image.samples
    BY <1>2, <2>1
  <2>5. api' \in [series : Series \cup {Idle.series},
                 to : Seq({"redis", "decisions", "webhook"})]
    BY <2>1
  <2>6. TypeOK'
    BY <1>1, <2>3, <2>4, <2>5 DEF IInv, TypeOK
  <2>7. \A j \in Series : /\ image.samples[j] \in Nat /\ samples[j] \in Nat
                          /\ samples'[j] \in Nat /\ checkpoint.samples[j] \in Nat
    BY <1>2, <2>3
  <2>8. ImageInv'
    BY <1>1, <2>3, <2>4, <2>7 DEF IInv, ImageInv
  <2>9. BaselineSurvives'
    <3>1. SUFFICES ASSUME pc # "down", ~lostBaseline
                   PROVE  \A j \in Series : checkpoint.samples[j] <= samples'[j]
      BY <1>1 DEF IInv, BaselineSurvives
    <3>2. \A j \in Series : checkpoint.samples[j] <= samples[j]
      BY <3>1 DEF IInv, BaselineSurvives
    <3> QED BY <2>3, <2>7, <3>2
  <2> QED BY <1>1, <2>6, <2>8, <2>9 DEF IInv, FlowInv, CooldownInv, CooldownHolds
<1>4. CASE ForcePublish
  <2>1. samples' = samples /\ image' = image
    BY <1>4 DEF ForcePublish, memory
  <2>2. api' \in [series : Series \cup {Idle.series},
                 to : Seq({"redis", "decisions", "webhook"})]
    <3>1. CASE Len(api.to) > 1
      <4>1. api' = [api EXCEPT !.to = Tail(@)]
        BY <1>4, <3>1 DEF ForcePublish
      <4>2. Tail(api.to) \in Seq({"redis", "decisions", "webhook"})
        BY <1>2, <3>1
      <4> QED BY <1>2, <4>1, <4>2
    <3>2. CASE ~(Len(api.to) > 1)
      BY <1>2, <1>4, <3>2 DEF ForcePublish, Idle
    <3> QED BY <3>1, <3>2
  <2>3. TypeOK'
    BY <1>1, <2>1, <2>2 DEF IInv, TypeOK
  <2> QED BY <1>1, <2>1, <2>3 DEF IInv, FlowInv, CooldownInv, CooldownHolds,
                                  ImageInv, BaselineSurvives
<1> QED BY <1>3, <1>4

LEMMA TickStep == IInv /\ Tick => IInv'
<1> SUFFICES ASSUME IInv, Tick PROVE IInv'
  OBVIOUS
<1>1. /\ quiet' = Older(quiet) /\ lastFired' = Older(lastFired)
      /\ UNCHANGED <<pc, services, unreachable, alerts, channels, samples, rows,
                     image, api, world, checkpoint, stormed, lostBaseline, faults>>
  BY DEF Tick, memory
<1>2. lastFired \in [Keys -> 0..3] /\ quiet \in [Keys -> 0..2]
  BY DEF IInv, TypeOK, Ages, Never
<1>3. /\ lastFired' \in [Keys -> 0..3] /\ quiet' \in [Keys -> 0..2]
      /\ \A k \in Keys : quiet'[k] # 0
  BY <1>1, <1>2 DEF Older
<1>4. TypeOK'
  BY <1>1, <1>3 DEF IInv, TypeOK, Ages, Never
<1> QED BY <1>1, <1>3, <1>4 DEF IInv, FlowInv, CooldownInv, CooldownHolds, ImageInv,
                                BaselineSurvives

LEMMA OutsideStep ==
  IInv /\ ((\E k \in Guarded : WorldChanges(k)) \/ Crash) => IInv'
<1> SUFFICES ASSUME IInv, (\E k \in Guarded : WorldChanges(k)) \/ Crash
             PROVE  IInv'
  OBVIOUS
<1>1. ASSUME NEW k \in Guarded, WorldChanges(k) PROVE IInv'
  <2>1. /\ world' \subseteq Guarded
        /\ UNCHANGED <<pc, services, unreachable, alerts, channels, samples, rows,
                       lastFired, image, api, checkpoint, quiet, stormed,
                       lostBaseline, faults>>
    BY <1>1 DEF WorldChanges, memory, history, IInv, TypeOK
  <2>2. TypeOK'
    BY <2>1 DEF IInv, TypeOK
  <2> QED BY <2>1, <2>2 DEF IInv, FlowInv, CooldownInv, CooldownHolds, ImageInv,
                            BaselineSurvives
<1>2. CASE Crash
  <2>1. /\ pc' = "down" /\ services' = <<>> /\ unreachable' = FALSE
        /\ alerts' = <<>> /\ channels' = <<>> /\ image' = NoImage /\ api' = Idle
        /\ UNCHANGED <<samples, rows, lastFired, world, checkpoint, quiet, stormed,
                       lostBaseline>>
    BY <1>2 DEF Crash, memory, history
  <2>2. faults' \in 0..MaxFaults
    BY <1>2 DEF Crash, Fault, IInv, TypeOK
  <2>3. api' \in [series : Series \cup {Idle.series},
                 to : Seq({"redis", "decisions", "webhook"})]
    BY <2>1 DEF Idle
  <2>4. TypeOK'
    <3>1. /\ services' \in Seq(Services) /\ alerts' \in Seq(Metrics)
          /\ channels' \in Seq({"redis", "decisions", "webhook"})
      BY <2>1
    <3> QED BY <2>1, <2>2, <2>3, <3>1, NothingType DEF IInv, TypeOK
  <2> QED BY <2>1, <2>4 DEF IInv, FlowInv, CooldownInv, CooldownHolds, ImageInv,
                            BaselineSurvives
<1> QED BY <1>1, <1>2

LEMMA NextIInv == IInv /\ [Next]_vars => IInv'
<1> SUFFICES ASSUME IInv, [Next]_vars PROVE IInv'
  OBVIOUS
<1>1. CASE Next
  BY <1>1, StartStep, BeginPollStep, EvaluateStep, NotifyStep, AlertingStep,
     SavingStep, ApiStep, TickStep, OutsideStep DEF Next, Poll
<1>2. CASE UNCHANGED vars
  <2>1. UNCHANGED <<pc, services, unreachable, alerts, channels, samples, rows,
                    lastFired, image, api, world, checkpoint, quiet, stormed,
                    lostBaseline, faults>>
    BY <1>2 DEF vars
  <2>2. TypeOK'
    BY <2>1 DEF IInv, TypeOK
  <2> QED BY <2>1, <2>2 DEF IInv, FlowInv, CooldownInv, CooldownHolds, ImageInv,
                            BaselineSurvives
<1> QED BY <1>1, <1>2

LEMMA Invariance == Spec => []IInv
  BY InitIInv, NextIInv, PTL DEF Spec

-----------------------------------------------------------------------------
(* Every variable of the worker keeps its type.                            *)
THEOREM TypeCorrect == Spec => []TypeOK
<1>1. IInv => TypeOK
  BY DEF IInv
<1> QED BY <1>1, Invariance, PTL

(* The poll thread never fires twice within a cooldown, for any number of  *)
(* series, whatever is pruned from _last_fired.                            *)
THEOREM CooldownIsKept == Spec => []CooldownHolds
<1>1. IInv => CooldownHolds
  BY DEF IInv
<1> QED BY <1>1, Invariance, PTL

(* No save makes the checkpoint shorter than it could be restored, while   *)
(* no restore has failed.                                                  *)
THEOREM BaselineIsKept == Spec => []BaselineSurvives
<1>1. IInv => BaselineSurvives
  BY DEF IInv
<1> QED BY <1>1, Invariance, PTL
=============================================================================
