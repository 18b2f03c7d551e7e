SPECIFICATION Spec
CONSTANTS
  Incidents = {"i1"}
  Bodies <- MCBodies
  Pipeline <- MCPipeline
  Databases <- MCDatabases
  Knobs <- MCKnobs
  MinSamples = 2
  FpWarn = 2500
  HallucinationWarn = 2000
  DecisionWarn = 3000
  MaxReviews = 2
  MaxFaults = 1
INVARIANTS ClosedByAStoredVote AdvisorsAgree AdviceKeepsItsScale
PROPERTIES GaugesSettle
