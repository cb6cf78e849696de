SPECIFICATION FairSpec
CONSTANTS
  r1 = r1
  r2 = r2
  Runners <- TwoRunners
  Profile <- Branches
  Verdict <- Verdicts
  Strategies <- Two
  Listed <- Queried
  Suggest = "similar"
  PerRun <- Each
  Cooldown <- Days
  Reveals <- Found
  DailyCap = 2
  InspectLimit = 1
  MaxAttempts = 2
  MaxCrashes = 1
  Scenarios <- Cases
INVARIANT ClaimsInOrder HuntsWithinCap
PROPERTIES
  OptOutCoversBusiness
  EveryLeadJudged
  RotationCovers
