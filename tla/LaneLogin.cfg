CONSTANTS
  k1 = k1
  k2 = k2
  t1 = t1
  t2 = t2
  Desk = Desk
  NoTask = NoTask
  NoLane = NoLane
  Lanes = {"API", "BROWSER"}
  Browsers = {"BROWSER"}
  Sessions <- Permits
  Ticks = {k1, k2}
  Tasks = {t1, t2}
  Routes <- BothRoutes
  Writes = {t2}
  Reported = {"SUCCESS", "BARRIER", "REFUSED"}
  SignalLimit = 2
  DriftLimit = 1
  Cooldown = 1
  RetryAfter = {0}
  Day = 2
  MaxTime = 0
  MaxSignals = 3
  Events = {"login", "check", "operator"}
SPECIFICATION Spec
SYMMETRY TickSymmetry
INVARIANT WindowIsAlone OnlyStragglersOnHaltedLane ParkedBehindHaltedLane LoginLeavesNoHalt BarrierIsAlerted
