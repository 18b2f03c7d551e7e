\* The queue consumer alone, with direct RCA as well.
\* CHECK_DEADLOCK FALSE: it has nothing to do once every payload is handled.
SPECIFICATION FairSpec
CONSTANTS
  a1 = a1
  a2 = a2
  a3 = a3
  a4 = a4
  checkout = checkout
  payment = payment
  Anomalies <- MCFourAnomalies
  Services <- MCServices
  Metrics <- MCMetrics
  ServiceOf <- MCServiceOf
  MetricOf <- MCMetricOf
  Words <- MCWords
  Critical <- MCCritical
  DependsOn <- MCDependsOn
  Consumer = consumer
  NoAnomaly = NoAnomaly
  NoService = NoService
  NoRow = NoRow
  ApiThreads = {}
  Patches = {}
  MaxManual = 0
  MaxFaults = 2
  EnableTopology = TRUE
  DecisionEnabled = TRUE
  RcaEnabled = TRUE
  EnableDirectRca = TRUE
INVARIANTS
  TicketReflectsDeliveries
  OneOpenTicketPerCascade
PROPERTY
  EventuallyProcessed
CHECK_DEADLOCK FALSE
