\* Two decisions about one ticket.
\* CHECK_DEADLOCK FALSE: each request is answered once.
SPECIFICATION FairSpec
CONSTANTS
  metrics = metrics
  traces = traces
  inc = inc
  NoIncident = NoIncident
  Requests = {r1, r2}
  Incidents = {inc}
  Context = {metrics, traces}
  CriticalMissing = {metrics}
  Inputs <- MCInputs
  Answers <- MCAnswers
  ConfidenceHigh = 85
  ConfidenceMedium = 60
  MaxIterations = 3
  EnableLlm = TRUE
  EnableContextRefresh = TRUE
  EnableAutoRemediation = TRUE
  MaxFaults = 1
INVARIANTS
  DecisionFollowsTable
  OutcomeIsConsistent
  
PROPERTY
  DecisionsFinish
CHECK_DEADLOCK FALSE
