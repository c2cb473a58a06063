SPECIFICATION BoFairSpec
CONSTANTS
  NSlots = 2
  MaxJobs = 2
  MaxGen = 1
  MaxDeps = 0
  Ops = {"CL","TFU","CSD","JOIN"}
  Modes = {"PIPELINE"}
  RenderSems = FALSE
  MayHang = {0}
  CsdMayStick = TRUE
  MaxBos = 1
  MaxOpens = 1
  ListMax = 2
INVARIANTS
  HandleRefs
  BlockIdle
  IdleWhileAlive
  UsedIsMapped
PROPERTY
  FlushedIsReturned
