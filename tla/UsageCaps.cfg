SPECIFICATION Spec
CONSTANTS
  r1 = r1
  r2 = r2
  p1 = p1
  p2 = p2
  s1 = s1
  s2 = s2
  k1 = k1
  k2 = k2
  NoAction = NoAction
  Runners <- TwoRunners
  Processes <- TwoProcesses
  Sends <- TwoSends
  Reads <- TwoReads
  Rank <- InOrder
  BrowserOnly <- TwoReads
  ApiFirst = {}
  HOUR = 1
  LEASE = 0
  Spacing = 1
  Caps = {0, 1, 2}
  UnitCap = 2
  MaxUnits = 2
  PerTick = 1
  MaxTime = 2
  Scenarios <- AnyScenario
SYMMETRY Interchangeable
INVARIANT TypeOK WithinLimits OneCopyOfEach PauseHolds
