CONSTANTS
  p1 = p1
  p2 = p2
  o1 = o1
  o2 = o2
  f1 = f1
  f2 = f2
  r1 = r1
  r2 = r2
  h1 = h1
  Workers = {p1}
  Actions = {o1, f1, f2}
  HumanHold = FALSE
  Initials = {o1}
  FollowUps = {f1, f2}
  Replies = {}
  FollowUpNumber <- NumberF
  NoAction = NoAction
  MaxAttempts = 1
  MaxFollowUps = 2
  HumanMsgs = {}
  Modes = {"AUTONOMOUS"}
  Edits = FALSE
  Disturbances = {"crash", "prospect"}
SPECIFICATION FairSpec
INVARIANT FollowUpsInOrder
PROPERTY NoFollowUpOnceReplied ExecutionEnds
