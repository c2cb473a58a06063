SPECIFICATION FairSpec
CONSTANTS
  NJobs = 3
  NChunks = 1
  MaxStalls = 2
  Overlap = TRUE
  Prompt = TRUE
  MayStorm = TRUE
  MayHang = FALSE
  MayDie = TRUE
  SelfTest = FALSE
INVARIANT NoEarlyDone
PROPERTY EveryListEnds
