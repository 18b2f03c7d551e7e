SPECIFICATION Spec
CONSTANTS
  WindowSize = 2
  MinSamples = 1
  ZScoreThreshold = 3
  StlPeriod = 2
  HybridVote = "any"
  ErrorThreshold = 1
  LatencyThreshold = 1
  Watched <- MCWatched
  Scraped <- MCScraped
  Channels <- MCChannels
  MinConfidence = 0
  MaxTracked = 1
  MaxFaults = 2
INVARIANTS
  CooldownHolds
  BaselineSurvives
PROPERTIES
  BreachIsPublished
CHECK_DEADLOCK FALSE
