CONSTANTS
  Visits = {1, 2}
  Comments = {1, 2}
  Scenes <- AllScenes
  MinScore = 50
  MaxAttempts = 2
  MaxDrafts = 3
  None = None
SPECIFICATION FairSpec
CHECK_DEADLOCK FALSE
INVARIANT ClaimsObserved ReachedOnce
PROPERTY ContactSettles
