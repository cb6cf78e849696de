SPECIFICATION FairSpec
CONSTANTS
  r1 = r1
  r2 = r2
  Runners <- TwoRunners
  Intent <- Meaning
  MaxRetries = 1
  Scenarios <- Cases
INVARIANT Consistent NothingOpenOnceClosed OneAnswerEach
PROPERTIES
  ReadIsStored
  StopHeard
  WarmLeadReachesRohit
