CONSTANTS
  k1 = k1
  k2 = k2
  t1 = t1
  t2 = t2
  Desk = Desk
  NoTask = NoTask
  NoLane = NoLane
  Lanes = {"API", "BROWSER"}
  Browsers = {"BROWSER"}
  Sessions <- Permits
  Ticks = {k1}
  Tasks = {t1}
  Routes <- BothRoutes
  Writes = {}
  Reported = {"SUCCESS", "RESTRICTED", "RATE_LIMITED", "NO_BUTTON", "FAILED"}
  SignalLimit = 2
  DriftLimit = 1
  Cooldown = 1
  RetryAfter = {0}
  Day = 2
  MaxTime = 2
  MaxSignals = 3
  Events = {"crash", "login", "check"}
SPECIFICATION FairSpec
INVARIANT TypeOK RepeatedSignalsHalt
PROPERTY LoginGetsTheLane
