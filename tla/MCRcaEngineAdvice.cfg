\* One ticket, one request thread beside the consumer, two requests or
\* messages, changes of the ticket without a bound, one fault.
SPECIFICATION Spec
CONSTANTS
  DependsOn <- MCDependsOn
  Canonical <- MCCanonical
  Patterns <- MCPatterns
  ServiceOf <- MCServiceOf
  Shown <- MCShown
  Answers <- MCAnswers
  MaxLogLines = 3
  MaxTraces = 2
  MaxTraceDetails = 2
  MaxNeighborLogLines = 1
  MaxNeighborTraces = 1
  NoService = "nowhere"
  NoTrace = "none"
  BlobRows = 6
  ErrElevated = 10
  ErrHigh = 20
  LatElevated = 5
  ErrMargin = 5
  LatMargin = 2
  Incidents = {i1}
  Threads = {t1}
  MinBedrockConfidence = 40
  MaxAttempts = 2
  SkipAge = 2
  MaxRequests = 2
  MaxFaults = 1
INVARIANT AdviceIsNotInverted
CHECK_DEADLOCK FALSE
