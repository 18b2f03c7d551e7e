------------------------------ MODULE Evidence ------------------------------
(***************************************************************************)
(* Evidence: what the RCA engine gathers about a ticket's service and its  *)
(* neighbours, and how much of it fits into a prompt.                      *)
(*                                                                         *)
(* A world says, for every service, what the backends would answer: error  *)
(* rate in percent and p95 in tenths of a second (Unknown without a        *)
(* series), log rows newest first, traces with their spans.  A backend may *)
(* be down, or garbled: it answers 200 with a body of the wrong shape.     *)
(***************************************************************************)
EXTENDS Integers, SequencesExt

CONSTANTS DependsOn,         \* depends_on of every service of the catalog
          Canonical(_),      \* resolve_name: aliases to names
          MaxLogLines, MaxTraces, MaxTraceDetails,
          MaxNeighborLogLines, MaxNeighborTraces,
          NoService, NoTrace

Services == DOMAIN DependsOn
Unknown  == -1

ASSUME EvidenceAssumption ==
  /\ DependsOn \in [Services -> Seq(Services)]
  /\ {MaxLogLines, MaxTraces, MaxTraceDetails,
      MaxNeighborLogLines, MaxNeighborTraces} \subseteq Nat

(* The first n elements, or all of them.                                   *)
Limited(s, n) == SubSeq(s, 1, IF Len(s) <= n THEN Len(s) ELSE n)

FirstGiven(answers) ==
  LET given == {i \in DOMAIN answers : answers[i] # <<>>}
  IN  IF given = {} THEN <<>>
      ELSE answers[CHOOSE i \in given : \A j \in given : i <= j]

(* What F makes of each element, one sequence after the other.             *)
Each(s, F(_)) == FlattenSeq([i \in DOMAIN s |-> F(s[i])])

AddMissing(s, x) == IF Contains(s, x) THEN s ELSE Append(s, x)

-----------------------------------------------------------------------------
(* _summarize_otlp_trace: a call between services is a span whose parent   *)
(* is a span of another service.                                           *)
SummarizeOtlpTrace(spans) ==
  [edges    |-> {<<call[1].service, call[2].service>> :
                   call \in {pair \in spans \X spans :
                               /\ pair[1].id = pair[2].parent
                               /\ pair[1].service # pair[2].service}},
   errors   |-> {s \in spans : s.error},
   critical |-> {s \in spans : \A t \in spans : t.ms <= s.ms}]

(* infer_edges_from_traces: the calls seen, and the root of a trace as a   *)
(* caller of the service.                                                  *)
InferEdges(service, traces) ==
  UNION {(IF i <= MaxTraceDetails
            THEN SummarizeOtlpTrace(traces[i].spans).edges ELSE {})
           \cup (IF traces[i].root \notin {NoService, service}
                   THEN {<<traces[i].root, service>>} ELSE {}) :
         i \in DOMAIN traces}

(* TopologyCatalog.neighborhood, and with_inferred_edges.  A service the   *)
(* catalog does not know has the neighbours its traces show.               *)
Upstream(service) ==
  LET name == Canonical(service)
  IN  IF name \in Services THEN DependsOn[name] ELSE <<>>

Callers(service) == {s \in Services : Contains(DependsOn[s], Canonical(service))}

WithInferredEdges(service, edges) ==
  LET name == Canonical(service)
      known == ToSet(Upstream(service))
      called == {Canonical(e[2]) : e \in {d \in edges : Canonical(d[1]) = name}}
      callers == {Canonical(e[1]) : e \in {d \in edges : Canonical(d[2]) = name}}
  IN  [upstream   |-> Upstream(service)
                        \o SetToSeq(called \ (known \cup {name})),
       downstream |-> SetToSeq((Callers(service) \cup callers) \ {name})]

(* all_neighbors: dependencies first.                                      *)
AllNeighbors(topology) ==
  topology.upstream
    \o SelectSeq(topology.downstream,
                 LAMBDA s : ~Contains(topology.upstream, s))

-----------------------------------------------------------------------------
(* The query helpers catch what a backend raises, so an outage is an empty *)
(* answer; only a body of the wrong shape gets past them.                  *)
Rates(world, service) ==
  IF service \in Services /\ "prometheus" \notin world.down
    THEN world.rates[service]
    ELSE [err |-> Unknown, lat |-> Unknown]

(* _gather_logs: the service's error rows, else all its rows, else the     *)
(* error rows of whoever logs.                                             *)
GatherLogs(world, service) ==
  LET own == IF service \in Services THEN world.logs[service] ELSE <<>>
      everyone == Each(SetToSeq(Services), LAMBDA s : world.logs[s])
      errors(rows) == SelectSeq(rows, LAMBDA r : r.error)
  IN  IF "loki" \in world.down THEN <<>>
      ELSE Limited(FirstGiven(<<errors(own), own, errors(everyone)>>),
                 MaxLogLines)

GatherTraces(world, service) ==
  IF service \in Services /\ "tempo" \notin world.down
    THEN Limited(world.traces[service], MaxTraces) ELSE <<>>

(* _select_primary_trace_id: the longest trace, else the first of a row.   *)
SelectPrimaryTrace(traces, rows) ==
  LET traced == SelectSeq(rows, LAMBDA r : r.trace # NoTrace)
      longest == {i \in DOMAIN traces :
                    \A j \in DOMAIN traces : traces[j].ms <= traces[i].ms}
  IN  IF traces # <<>>
        THEN traces[CHOOSE i \in longest : \A j \in longest : i <= j].id
      ELSE IF traced # <<>> THEN Head(traced).trace
      ELSE NoTrace

(* _attach_topology_and_neighbors labels a neighbour's rows with its name  *)
(* unless they carry one.                                                  *)
Labelled(row, peer) ==
  [row EXCEPT !.label = IF @ = NoService THEN peer ELSE @, !.neighbor = peer]

ExtractChangeEvents(rows) ==
  LET changed == SelectSeq(rows, LAMBDA r : r.change # "none")
      event(r) == [type |-> r.change,
                   service |-> IF r.label # NoService THEN r.label ELSE r.neighbor]
  IN  Limited([i \in DOMAIN changed |-> event(changed[i])], 15)

(* EvidenceGatherer.gather: every part is tried, whatever became of the    *)
(* others.                                                                 *)
Gather(world, service) ==
  LET broken(backend) == backend \in world.garbled \ world.down
      rates(s) == IF broken("prometheus")
                    THEN [err |-> Unknown, lat |-> Unknown] ELSE Rates(world, s)
      found(s) == IF broken("tempo") THEN <<>> ELSE GatherTraces(world, s)
      logs     == GatherLogs(world, service)
      traces   == found(service)
      topology == WithInferredEdges(service, InferEdges(service, traces))
      peers    == AllNeighbors(topology)
      neighbor_logs ==
        Each(peers, LAMBDA p :
                      LET rows == Limited(GatherLogs(world, p), MaxNeighborLogLines)
                      IN  [i \in DOMAIN rows |-> Labelled(rows[i], p)])
  IN  [service |-> service,
       rates |-> rates(service), logs |-> logs, traces |-> traces,
       primary |-> SelectPrimaryTrace(traces, logs),
       topology |-> topology,
       neighbor_rates |-> [p \in IF broken("prometheus") THEN {} ELSE ToSet(peers)
                             |-> rates(p)],
       neighbor_logs |-> neighbor_logs,
       neighbor_traces |-> Each(peers, LAMBDA p : Limited(found(p), MaxNeighborTraces)),
       change_events |-> ExtractChangeEvents(logs \o neighbor_logs),
       errors |-> {b \in {"prometheus", "tempo"} : broken(b)}]

-----------------------------------------------------------------------------
(* to_prompt_block.  The five lists hold records of the given sizes, most  *)
(* relevant first; `fixed` is the rest of the payload, `note` what the     *)
(* budget report adds, `counts` what its included counts add.  Sizes are   *)
(* in characters.                                                          *)
Total(list) ==
  LET sum[n \in 0..Len(list)] == IF n = 0 THEN 0 ELSE sum[n - 1] + list[n]
  IN  sum[Len(list)]

Size(lists) == Total([i \in DOMAIN lists |-> Total(lists[i])])

(* Mutant: the list with the most records is taken for the largest.        *)
LargestMutant(lists) ==
  LET candidates == {i \in DOMAIN lists : lists[i] # <<>>}
  IN  CHOOSE i \in candidates :
        \A j \in candidates : \/ Len(lists[j]) < Len(lists[i])
                              \/ Len(lists[j]) = Len(lists[i]) /\ i <= j

Largest(lists) ==
  LET candidates == {i \in DOMAIN lists : lists[i] # <<>>}
  IN  CHOOSE i \in candidates :
        \A j \in candidates : \/ Total(lists[j]) < Total(lists[i])
                              \/ Total(lists[j]) = Total(lists[i]) /\ i <= j

(* One round of the loop drops the last record of the largest list.        *)
Round(kept, room) ==
  IF Size(kept) <= room \/ \A i \in DOMAIN kept : kept[i] = <<>>
    THEN kept
    ELSE [kept EXCEPT ![Largest(kept)] = SubSeq(@, 1, Len(@) - 1)]

Trimmed(lists, room) ==
  LET rounds == Total([i \in DOMAIN lists |-> Len(lists[i])])
      kept[n \in 0..rounds] == IF n = 0 THEN lists ELSE Round(kept[n - 1], room)
  IN  kept[rounds]

(* What of the lists reaches the prompt: everything, the lists trimmed     *)
(* just enough, or nothing, when the included counts do not fit any more.  *)
PromptBlock(lists, fixed, note, counts, budget) ==
  LET trimmed == Trimmed(lists, budget - fixed - note)
  IN  CASE fixed + Size(lists) <= budget -> lists
        [] /\ fixed + Size(lists) > budget
           /\ fixed + note + counts + Size(trimmed) <= budget -> trimmed
        [] OTHER -> [i \in DOMAIN lists |-> <<>>]
=============================================================================
