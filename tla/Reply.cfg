CONSTANTS
  p1 = p1
  p2 = p2
  o1 = o1
  o2 = o2
  f1 = f1
  f2 = f2
  r1 = r1
  r2 = r2
  h1 = h1
  Workers = {p1, p2}
  Actions = {r1}
  HumanHold = TRUE
  Initials = {}
  FollowUps = {}
  Replies = {r1}
  FollowUpNumber <- NumberF
  NoAction = NoAction
  MaxAttempts = 2
  MaxFollowUps = 1
  HumanMsgs = {h1}
  Modes = {"AUTONOMOUS"}
  Edits = FALSE
  Disturbances = {"crash", "suppression", "prospect"}
SPECIFICATION Spec
INVARIANT OneCopyOfEachText
SYMMETRY Processes
PROPERTY OnlyStragglersAfterTakeover OnlyClaimedAfterSuppression ImplementsContract
