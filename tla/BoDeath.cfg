SPECIFICATION BoSpec
CONSTANTS
  NSlots = 2
  MaxJobs = 2
  MaxGen = 1
  MaxDeps = 0
  Ops = {"TFU","CSD"}
  Modes = {"PIPELINE"}
  RenderSems = FALSE
  MayHang = {}
  CsdMayStick = FALSE
  MaxBos = 1
  MaxOpens = 1
  ListMax = 2
INVARIANT IdleIsIdle
