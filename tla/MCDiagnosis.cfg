\* Every situation of up to two rows around an anomaly and one per service
\* around an incident; a world from which nothing more can happen is an end.
SPECIFICATION Spec
CONSTANTS
  Weight <- MCWeight
  Strength <- MCStrength
  SeverityThreshold = 3
  MaxLogs = 3
  NoTrace = "none"
  Findings <- MCFindings
  AnomalyRows <- MCAnomalyRows
  AnomalyTraces <- MCAnomalyTraces
  DependsOn <- MCDependsOn
  Canonical <- MCCanonical
  MaxLogLines = 3
  MaxTraces = 3
  MaxTraceDetails = 2
  MaxNeighborLogLines = 1
  MaxNeighborTraces = 1
  NoService = "nowhere"
  Patterns <- MCPatterns
  BlobRows = 6
  ErrElevated = 10
  ErrHigh = 20
  LatElevated = 5
  ErrMargin = 5
  LatMargin = 2
  Ticket = "checkout"
  ShownRates <- MCRates
  ShownRows <- MCRows
  ShownTraces <- MCSpans
  MaxRows = 2
  MaxBroken = 1
  Series = {"rate", "p95"}
  Breakable <- MCBreakable
  FixedSize = 4
  NoteSize = 1
  CountsSize = 1
  Budget = 12
  RecordSizes = {1, 2, 3}
  MaxRecords = 5
INVARIANTS LoudMetricIsNotEnough LossIsNotRewarded CertaintyIsGrounded
           NoKindIsStarved
CHECK_DEADLOCK FALSE
