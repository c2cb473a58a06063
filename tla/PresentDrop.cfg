SPECIFICATION Spec
CONSTANTS
  Clients = {c1, c2}
  NBuf = 2
  MaxFlips = 2
  MaxFrames = 3
  LateDone = FALSE
INVARIANT NoFrameDropped
