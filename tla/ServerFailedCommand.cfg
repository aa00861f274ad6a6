SPECIFICATION Spec
CONSTANTS
  Peers = {c1}
  Nobody = Nobody
  MaxFrames = 1
  MaxStarts = 0
  Frames <- MCCoding
INVARIANT
  SuccessMeansSucceeded
CHECK_DEADLOCK FALSE
