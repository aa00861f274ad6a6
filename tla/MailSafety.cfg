SPECIFICATION Spec
CONSTANTS
  Paths = {p1}
  Contents = {c1, c2}
  Monitors = {m1, m2}
  Nothing = Nothing
  Targets = {Nothing, p1}
  Events = {"create", "rewrite", "delete", "lock", "signal"}
  MaxEvents = 3
  MaxFaults = 1
  MaxRestarts = 0
INVARIANTS
  TypeOK
  OneMonitorPerFile
  MailedOncePerFile
  StableWhenMailed
  TrackedMeansMonitored
PROPERTY
  ImplementsDelivery
SYMMETRY MCSymmetry
CHECK_DEADLOCK FALSE
