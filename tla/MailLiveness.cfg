SPECIFICATION FairSpec
CONSTANTS
  Paths = {p1}
  Contents = {c1, c2}
  Monitors = {m1, m2}
  Nothing = Nothing
  Targets = {Nothing, p1}
  Events = {"create", "rewrite", "delete", "lock", "signal"}
  MaxEvents = 3
  MaxFaults = 0
  MaxRestarts = 0
PROPERTIES
  NothingLingers
  SignalEnds
CHECK_DEADLOCK FALSE
