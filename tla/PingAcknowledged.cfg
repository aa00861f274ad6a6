SPECIFICATION ClientsSpec
CONSTANTS
  c1 = c1
  c2 = c2
  c3 = c3
  Peers = {c1, c2, c3}
  Nobody = Nobody
  MaxFrames = 1
  MaxStarts = 0
  Frames <- MCFrames
  Casts <- MCCasts
INVARIANT
  PingsAcknowledged
CHECK_DEADLOCK FALSE
