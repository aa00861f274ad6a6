SPECIFICATION Spec
CONSTANTS
  Peers = {c1, c2}
  Nobody = Nobody
  MaxFrames = 2
  MaxStarts = 1
  Frames <- MCAllFrames
INVARIANTS
  TypeOK
  RepliesBelong
  OneReplyPerFrame
  OneCommandPerLife
PROPERTY
  ImplementsService
SYMMETRY MCSymmetry
CHECK_DEADLOCK FALSE
