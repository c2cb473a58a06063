SPECIFICATION BoSpec
CONSTANTS
  NSlots = 1
  MaxJobs = 5
  MaxGen = 1
  MaxDeps = 0
  Ops = {"CL", "RCL", "TFU"}
  Modes = {"PIPELINE"}
  RenderSems = FALSE
  MayHang = {0}
  CsdMayStick = FALSE
  MaxBos = 1
  MaxOpens = 0
  ListMax = 2
INVARIANT BlockIdle
