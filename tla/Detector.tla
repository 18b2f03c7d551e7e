------------------------------ MODULE Detector ------------------------------
(***************************************************************************)
(* The anomaly detector's worker: a poll thread that scrapes every watched *)
(* service, judges and learns the samples, publishes what is anomalous and *)
(* not cooling down, and saves a checkpoint of what it learned; and POST   *)
(* /detect, an API thread on the same detector, notifier and checkpoint.   *)
(*                                                                         *)
(* Of a window only its length counts here, up to MinSamples, from which   *)
(* on the statistical methods speak; what they then say is open, and how   *)
(* their verdicts are counted is HybridDetector's Vote.  `world` holds the *)
(* series that are beyond their absolute threshold.                        *)
(*                                                                         *)
(* Time is counted in cooldowns: an age of 0 is less than one cooldown, 2  *)
(* is two or more, and Never is for what has not happened.                 *)
(***************************************************************************)
EXTENDS HybridDetector

CONSTANTS Watched,        \* watched_service_list, a sequence
          Scraped,        \* [services -> SUBSET Univariate]: has templates for
          Channels,       \* enabled channels of the notifier, in its order
          MinConfidence,  \* min_confidence_to_notify: 0 lets everything pass
          MaxTracked,     \* entries of _last_fired above which it is pruned
          MaxFaults       \* bound: failed calls, exceptions, ends of the process

Services == {Watched[i] : i \in DOMAIN Watched}
Series   == {k \in Services \X Univariate : k[2] \in Scraped[k[1]]}
Keys     == Services \X Metrics
Guarded  == {k \in Series : HasThreshold(k[2])}

ASSUME WorkerAssumption ==
  /\ Watched \in Seq(Services)
  /\ Scraped \in [Services -> SUBSET Univariate]
  /\ Channels \in Seq({"redis", "decisions", "webhook"})
  /\ MinConfidence \in Nat /\ MaxTracked \in Nat /\ MaxFaults \in Nat

VARIABLES
  \* the process: worker and engine
  pc,           \* what the poll thread does next, "down" without a process
  services,     \* services the poll has still to evaluate
  unreachable,  \* _host_unreachable
  alerts,       \* metrics of Head(services) still to be notified
  channels,     \* channels the current event has still to go to
  samples,      \* [Series -> 0..MinSamples]: length of the series' window
  rows,         \* [Services -> 0..MinSamples]: length of the feature history
  lastFired,    \* [Keys -> Ages]: _last_fired
  image,        \* the series when snapshot() began, and whether any has
                \* been changed since
  api,          \* the request thread: series and channels still to go to
  \* outside
  world,        \* Guarded series beyond their threshold now
  checkpoint,   \* detector_state_key in Redis
  \* history
  quiet,        \* [Keys -> 0..2]: since the poll last fired in this process
  stormed,      \* the poll fired twice within a cooldown
  lostBaseline, \* a restore has failed
  faults

memory  == <<samples, rows>>
history == <<quiet, stormed, lostBaseline>>
vars    == <<pc, services, unreachable, alerts, channels, samples, rows,
             lastFired, image, api, world, checkpoint, quiet, stormed,
             lostBaseline, faults>>

Never == 3
Ages  == 0..Never
Idle == [series |-> <<"none", "none">>, to |-> <<>>]

Nothing == [samples |-> [k \in Series |-> 0], rows |-> [s \in Services |-> 0]]
NoImage == [samples |-> Nothing.samples, disturbed |-> FALSE]

Init ==
  /\ pc = "down" /\ services = <<>> /\ unreachable = FALSE
  /\ alerts = <<>> /\ channels = <<>>
  /\ samples = Nothing.samples /\ rows = Nothing.rows
  /\ lastFired = [k \in Keys |-> Never]
  /\ image = NoImage /\ api = Idle
  /\ world = {} /\ checkpoint = Nothing
  /\ quiet = [k \in Keys |-> 2]
  /\ stormed = FALSE /\ lostBaseline = FALSE /\ faults = 0

Fault == faults < MaxFaults /\ faults' = faults + 1

-----------------------------------------------------------------------------
(* Mutant: the windows are not restored.                                   *)
StartMutant ==
  /\ pc = "down"
  /\ pc' = "idle"
  /\ samples' = Nothing.samples /\ rows' = checkpoint.rows
  /\ lastFired' = [k \in Keys |-> Never]
  /\ quiet' = [k \in Keys |-> 2]
  /\ UNCHANGED <<services, unreachable, alerts, channels, image, api, world,
                 checkpoint, stormed, lostBaseline, faults>>

(* start: restore_into reads the checkpoint.  If that fails the exception  *)
(* is logged and the detector starts with nothing.  A series without       *)
(* values is not restored, which is how it looks here anyway.              *)
Start ==
  /\ pc = "down"
  /\ pc' = "idle"
  /\ \/ /\ samples' = checkpoint.samples /\ rows' = checkpoint.rows
        /\ UNCHANGED <<lostBaseline, faults>>
     \/ /\ Fault /\ lostBaseline' = TRUE
        /\ samples' = Nothing.samples /\ rows' = Nothing.rows
  /\ lastFired' = [k \in Keys |-> Never]
  /\ quiet' = [k \in Keys |-> 2]
  /\ UNCHANGED <<services, unreachable, alerts, channels, image, api, world,
                 checkpoint, stormed>>

(* _run and _poll_once, up to the loop over the services.                  *)
BeginPoll ==
  /\ pc = "idle"
  /\ pc' = "polling" /\ services' = Watched /\ unreachable' = FALSE
  /\ UNCHANGED <<alerts, channels, memory, lastFired, image, api, world,
                 checkpoint, history, faults>>

(* The metrics asked for before the i-th, in the order of scrape_service.  *)
AskedBefore(i) == {<<"rate", "error", "p95", "p99">>[j] : j \in 1..(i - 1)}

(* What scrape_service may return.  A series beyond its threshold has      *)
(* traffic, so only a failing query hides it; a refused connection ends    *)
(* the scraping of this poll.                                              *)
Scrape(s, present) ==
  \/ /\ unreachable /\ present = {}
     /\ UNCHANGED <<unreachable, faults>>
  \/ /\ ~unreachable
     /\ \A m \in Scraped[s] : <<s, m>> \in world => m \in present
     /\ UNCHANGED <<unreachable, faults>>
  \/ /\ ~unreachable /\ Fault
     /\ UNCHANGED unreachable
  \/ /\ ~unreachable /\ Fault
     /\ \E i \in 1..4 : present \subseteq AskedBefore(i)
     /\ unreachable' = TRUE

Enough(n) == n = MinSamples

(* One more sample.                                                        *)
More(n) == IF Enough(n) THEN n ELSE n + 1

Breached(s, present, m) ==
  <<s, IF m = "error" THEN m
       ELSE IF "p99" \in present THEN "p99" ELSE "p95">> \in world

(* The methods that may speak about a metric, see JudgeSample: STL only    *)
(* after two periods and on a seasonal series.                             *)
Speakers(s, m) ==
  LET n == samples[<<s, m>>]
      statistics == IF Enough(n) THEN {"zscore", "ewma_zscore"} ELSE {}
      threshold  == IF HasThreshold(m) THEN {"threshold"} ELSE {}
      seasonal   == IF Enough(More(n)) THEN {{}, {"stl"}} ELSE {{}}
  IN  {statistics \cup threshold \cup stl : stl \in seasonal}

(* Whether a result may turn out anomalous (v = TRUE) or not.              *)
MayBe(s, present, m, v) ==
  IF m = "multivariate"
    THEN v => Enough(rows[s])
    ELSE \E who \in Speakers(s, m) : \E flags \in [who -> BOOLEAN] :
           /\ "threshold" \in who =>
                flags["threshold"] = Breached(s, present, m)
           /\ Vote(flags) = v

HasRow(present) ==
  {"rate", "error"} \subseteq present /\ present \cap Latencies # {}

ResultsOf(present) ==
  present \cup (IF HasRow(present) THEN {"multivariate"} ELSE {})

(* The order of the results: that of the scrape, the joint one last.       *)
InOrder(metrics) ==
  LET Only(m) == IF m \in metrics THEN <<m>> ELSE <<>>
  IN  Only("rate") \o Only("error") \o Only("p95") \o Only("p99")
        \o Only("multivariate")

(* _evaluate_service, up to its loop over the results.                     *)
Evaluate ==
  /\ pc = "polling" /\ services # <<>>
  /\ LET s == Head(services) IN
     \E present \in SUBSET Scraped[s] :
       /\ Scrape(s, present)
       /\ \E anomalous \in SUBSET ResultsOf(present) :
            /\ \A m \in ResultsOf(present) :
                 MayBe(s, present, m, m \in anomalous)
            /\ alerts' = InOrder(anomalous)
       /\ samples' = [k \in Series |-> IF k[1] = s /\ k[2] \in present
                                         THEN More(samples[k]) ELSE samples[k]]
       /\ rows' = [rows EXCEPT ![s] = IF HasRow(present) THEN More(@) ELSE @]
  /\ pc' = "alerting"
  /\ UNCHANGED <<services, channels, lastFired, image, api, world, checkpoint,
                 history>>

(* An exception in an evaluation ends it for this service.                 *)
EvaluationFails ==
  /\ pc = "alerting" /\ alerts # <<>>
  /\ Fault
  /\ alerts' = <<>>
  /\ UNCHANGED <<pc, services, unreachable, channels, memory, lastFired, image,
                 api, world, checkpoint, history>>

ServiceDone ==
  /\ pc = "alerting" /\ alerts = <<>>
  /\ pc' = "polling" /\ services' = Tail(services)
  /\ UNCHANGED <<unreachable, alerts, channels, memory, lastFired, image, api,
                 world, checkpoint, history, faults>>

(* The confidence gate of publish_decision.                                *)
Passes(confidence) == confidence >= MinConfidence

(* Mutant: an entry of _last_fired suppresses whatever its age.            *)
CoolingMutant(k) == lastFired[k] # Never

Cooling(k) == lastFired[k] = 0

(* Mutant: too many entries, and all of them are dropped.                  *)
RecordFiringMutant(fired, k) ==
  IF Cardinality({j \in Keys : fired[j] # Never}) > MaxTracked
    THEN [j \in Keys |-> Never]
    ELSE [fired EXCEPT ![k] = 0]

(* The new _last_fired: k fires now, and when there are too many entries   *)
(* those of two cooldowns ago and older are dropped.                       *)
RecordFiring(fired, k) ==
  LET all == [fired EXCEPT ![k] = 0]
  IN  IF Cardinality({j \in Keys : all[j] # Never}) > MaxTracked
        THEN [j \in Keys |-> IF all[j] = 2 THEN Never ELSE all[j]]
        ELSE all

(* _maybe_notify, up to the first channel.  The cooldown starts here,      *)
(* before anything is published.                                           *)
Notify ==
  /\ pc = "alerting" /\ alerts # <<>>
  /\ LET k == <<Head(services), Head(alerts)>> IN
     \/ /\ Cooling(k)
        /\ alerts' = Tail(alerts)
        /\ UNCHANGED <<pc, channels, lastFired, quiet, stormed>>
     \/ /\ ~Cooling(k)
        /\ lastFired' = RecordFiring(lastFired, k)
        /\ quiet' = [quiet EXCEPT ![k] = 0]
        /\ stormed' = (stormed \/ quiet[k] = 0)
        /\ \E confidence \in 0..MinConfidence :
             channels' = IF Passes(confidence) THEN Channels ELSE <<>>
        /\ pc' = "publishing"
        /\ UNCHANGED alerts
  /\ UNCHANGED <<services, unreachable, memory, image, api, world, checkpoint,
                 lostBaseline, faults>>

(* publish_decision: one channel after the other, a failure is logged.     *)
Publish ==
  /\ pc = "publishing" /\ channels # <<>>
  /\ channels' = Tail(channels)
  /\ UNCHANGED <<pc, services, unreachable, alerts, memory, lastFired, image,
                 api, world, checkpoint, history, faults>>

PublishFails ==
  /\ pc = "publishing" /\ channels # <<>>
  /\ Fault
  /\ channels' = Tail(channels)
  /\ UNCHANGED <<pc, services, unreachable, alerts, memory, lastFired, image,
                 api, world, checkpoint, history>>

Published ==
  /\ pc = "publishing" /\ channels = <<>>
  /\ pc' = "alerting" /\ alerts' = Tail(alerts)
  /\ UNCHANGED <<services, unreachable, channels, memory, lastFired, image, api,
                 world, checkpoint, history, faults>>

(* save, at the end of a poll: snapshot() begins to walk over the series.  *)
BeginSave ==
  /\ pc = "polling" /\ services = <<>>
  /\ pc' = "saving"
  /\ image' = [samples |-> samples, disturbed |-> FALSE]
  /\ UNCHANGED <<services, unreachable, alerts, channels, memory, lastFired, api,
                 world, checkpoint, history, faults>>

(* The walk sees each series before or after a sample POST /detect learned *)
(* meanwhile.                                                              *)
Save ==
  /\ pc = "saving"
  /\ pc' = "idle" /\ image' = NoImage
  /\ \E seen \in [Series -> 0..MinSamples] :
       /\ \A k \in Series : seen[k] \in {image.samples[k], samples[k]}
       /\ checkpoint' = [samples |-> seen, rows |-> rows]
  /\ UNCHANGED <<services, unreachable, alerts, channels, memory, lastFired, api,
                 world, history, faults>>

(* Redis fails, or the walk meets a dictionary or deque that POST /detect  *)
(* has changed under it.  Either is logged.                                *)
SaveFails ==
  /\ pc = "saving"
  /\ pc' = "idle" /\ image' = NoImage
  /\ \/ Fault
     \/ image.disturbed /\ UNCHANGED faults
  /\ UNCHANGED <<services, unreachable, alerts, channels, memory, lastFired, api,
                 world, checkpoint, history>>

(* stop, between two polls and after the last request: a last save, and    *)
(* the process ends.                                                       *)
Stop ==
  /\ pc = "idle" /\ api = Idle /\ Fault
  /\ pc' = "down"
  /\ checkpoint' \in {checkpoint, [samples |-> samples, rows |-> rows]}
  /\ UNCHANGED <<services, unreachable, alerts, channels, memory, lastFired,
                 image, api, world, history>>

-----------------------------------------------------------------------------
(* POST /detect: force_detect learns the sample and publishes whatever the *)
(* verdict and the cooldown are.                                           *)
ForceDetect(k) ==
  /\ pc # "down" /\ api = Idle
  /\ samples' = [samples EXCEPT ![k] = More(@)]
  /\ \E confidence \in 0..MinConfidence :
       api' = [series |-> k,
               to |-> IF Passes(confidence) THEN Channels ELSE <<>>]
  /\ image' = IF pc = "saving" THEN [image EXCEPT !.disturbed = TRUE] ELSE image
  /\ UNCHANGED <<pc, services, unreachable, alerts, channels, rows, lastFired,
                 world, checkpoint, history, faults>>

ForcePublish ==
  /\ api # Idle
  /\ api' = IF Len(api.to) > 1 THEN [api EXCEPT !.to = Tail(@)] ELSE Idle
  /\ UNCHANGED faults
  /\ UNCHANGED <<pc, services, unreachable, alerts, channels, memory, lastFired,
                 image, world, checkpoint, history>>

-----------------------------------------------------------------------------
(* Time passes.                                                            *)
Older(ages) ==
  [k \in Keys |-> IF ages[k] < 2 THEN ages[k] + 1 ELSE ages[k]]

Tick ==
  /\ Older(quiet) # quiet \/ Older(lastFired) # lastFired
  /\ quiet' = Older(quiet) /\ lastFired' = Older(lastFired)
  /\ UNCHANGED <<pc, services, unreachable, alerts, channels, memory, image, api,
                 world, checkpoint, stormed, lostBaseline, faults>>

WorldChanges(k) ==
  /\ world' = IF k \in world THEN world \ {k} ELSE world \cup {k}
  /\ UNCHANGED <<pc, services, unreachable, alerts, channels, memory, lastFired,
                 image, api, checkpoint, history, faults>>

Crash ==
  /\ pc # "down" /\ Fault
  /\ pc' = "down" /\ services' = <<>> /\ unreachable' = FALSE
  /\ alerts' = <<>> /\ channels' = <<>> /\ image' = NoImage /\ api' = Idle
  /\ UNCHANGED <<memory, lastFired, world, checkpoint, history>>

-----------------------------------------------------------------------------
Poll == \/ BeginPoll \/ Evaluate \/ ServiceDone \/ Notify \/ Publish
        \/ Published \/ BeginSave \/ Save

Next ==
  \/ Start \/ Poll
  \/ EvaluationFails \/ PublishFails \/ SaveFails
  \/ \E k \in Series : ForceDetect(k)
  \/ ForcePublish
  \/ Tick \/ \E k \in Guarded : WorldChanges(k)
  \/ Stop \/ Crash

(* The container is restarted, the poll thread is a loop that waits for    *)
(* nobody but the services it calls with a timeout, and time passes.       *)
Fairness == /\ WF_vars(Start) /\ WF_vars(Tick)
            /\ WF_vars(Poll)

Spec == Init /\ [][Next]_vars /\ Fairness

-----------------------------------------------------------------------------
TypeOK ==
  /\ pc \in {"down", "idle", "polling", "alerting", "publishing", "saving"}
  /\ services \in Seq(Services) /\ unreachable \in BOOLEAN
  /\ alerts \in Seq(Metrics) /\ channels \in Seq({"redis", "decisions", "webhook"})
  /\ samples \in [Series -> 0..MinSamples] /\ rows \in [Services -> 0..MinSamples]
  /\ lastFired \in [Keys -> Ages] /\ quiet \in [Keys -> 0..2]
  /\ image \in [samples : [Series -> 0..MinSamples], disturbed : BOOLEAN]
  /\ api \in [series : Series \cup {Idle.series},
               to : Seq({"redis", "decisions", "webhook"})]
  /\ world \subseteq Guarded
  /\ checkpoint \in [samples : [Series -> 0..MinSamples],
                     rows : [Services -> 0..MinSamples]]
  /\ stormed \in BOOLEAN /\ lostBaseline \in BOOLEAN
  /\ faults \in 0..MaxFaults

(* The poll does not fire twice for one series and metric within a         *)
(* cooldown, however many series are tracked and pruned meanwhile.         *)
CooldownHolds == ~stormed

(* What the detector knows is never behind its checkpoint, so that no save *)
(* replaces a learned baseline by a shorter one - unless a restore failed, *)
(* after which the next save does (worker.py:58, state_store.py:24).       *)
BaselineSurvives ==
  (pc # "down" /\ ~lostBaseline) =>
    /\ \A k \in Series : checkpoint.samples[k] <= samples[k]
    /\ \A s \in Services : checkpoint.rows[s] <= rows[s]

(* README.md:415 of the repository promises that baselines are restored    *)
(* after a restart; a start while Redis does not answer breaks it for good *)
(* (worker.py:58-60, state_store.py:42-45): the first save overwrites what *)
(* could have been restored later.                                         *)
RestartKeepsBaseline ==
  pc # "down" => \A k \in Series : checkpoint.samples[k] <= samples[k]

(* The series whose own value the threshold judges.                        *)
Judged == {k \in Guarded : k[2] # "p95" \/ "p99" \notin Scraped[k[1]]}

Reaches(k) ==
  /\ pc = "publishing" /\ services # <<>> /\ alerts # <<>> /\ channels # <<>>
  /\ k = <<Head(services), Head(alerts)>> /\ Head(channels) = "redis"
  /\ Publish

(* A series that stays beyond its threshold is published again and again,  *)
(* although a cooldown starts before the publication it is for, which may  *)
(* fail, and restarts when the process does.                               *)
BreachIsPublished ==
  \A k \in Judged : <>[](k \in world) => []<><<Reaches(k)>>_vars
=============================================================================
