SPECIFICATION FairSpec
CONSTANTS
  Clients = {c1, c2}
  NBuf = 2
  MaxFlips = 2
  MaxFrames = 3
  LateDone = TRUE
INVARIANTS NoTearing ShownRendered ShownInOrder
PROPERTY EveryFrameShown
