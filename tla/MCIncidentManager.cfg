\* The queue consumer and the webhook deliver the same two anomalies while
\* the API thread also creates a ticket by hand and resolves tickets.
SPECIFICATION Spec
CONSTANTS
  a1 = a1
  a2 = a2
  a3 = a3
  a4 = a4
  checkout = checkout
  payment = payment
  Anomalies <- MCMixedAnomalies
  Services <- MCServices
  Metrics <- MCMetrics
  ServiceOf <- MCServiceOf
  MetricOf <- MCMetricOf
  Words <- MCWords
  Critical <- MCCritical
  DependsOn <- MCDependsOn
  Consumer = consumer
  NoAnomaly = NoAnomaly
  NoService = NoService
  NoRow = NoRow
  ApiThreads = {api}
  Patches <- MCResolve
  MaxManual = 1
  MaxFaults = 1
  EnableTopology = TRUE
  DecisionEnabled = TRUE
  RcaEnabled = TRUE
  EnableDirectRca = FALSE
INVARIANTS
  OneTicketPerAnomaly
  NoSilentTicket
  AttributionIsLocal
  NoDoubleCounting
PROPERTY
  ImplementsIntake
