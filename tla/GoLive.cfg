CONSTANTS
  e1 = e1
  e2 = e2
  Threads = {e1, e2}
  Cli = Cli
  Scenes <- AllScenes
  Need = 1
  Unset = Unset
SYMMETRY ThreadSymmetry
SPECIFICATION Spec
INVARIANT StartsFromSaved RunsAsSet NeverUnchecked
