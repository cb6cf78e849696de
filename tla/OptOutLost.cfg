SPECIFICATION FairSpec
CONSTANTS
  r1 = r1
  r2 = r2
  Runners <- OneRunner
  Intent <- Meaning
  MaxRetries = 0
  Scenarios <- LostEvent
PROPERTIES
  OptOutsSuppressed
