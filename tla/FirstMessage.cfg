CONSTANTS
  p1 = p1
  p2 = p2
  o1 = o1
  o2 = o2
  f1 = f1
  f2 = f2
  r1 = r1
  r2 = r2
  h1 = h1
  Workers = {p1}
  Actions = {o1, o2}
  HumanHold = FALSE
  Initials = {o1, o2}
  FollowUps = {}
  Replies = {}
  FollowUpNumber <- NumberF
  NoAction = NoAction
  MaxAttempts = 2
  MaxFollowUps = 1
  HumanMsgs = {h1}
  Modes = {"APPROVAL"}
  Edits = FALSE
  Disturbances = {"crash", "claim", "reject", "expiry", "suppression"}
SYMMETRY Drafts
SPECIFICATION Spec
INVARIANT OneFirstMessage NoStrandedLead
