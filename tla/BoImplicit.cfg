SPECIFICATION BoSpec
CONSTANTS
  NSlots = 2
  MaxJobs = 3
  MaxGen = 1
  MaxDeps = 0
  Ops = {"TFU","CSD","JOIN"}
  Modes = {"PIPELINE"}
  RenderSems = FALSE
  MayHang = {}
  CsdMayStick = FALSE
  MaxBos = 1
  MaxOpens = 0
  ListMax = 2
INVARIANT NoSharedUse
