SPECIFICATION BoSpec
CONSTANTS
  NSlots = 2
  MaxJobs = 3
  MaxGen = 1
  MaxDeps = 0
  Ops = {"TFU"}
  Modes = {"PIPELINE"}
  RenderSems = FALSE
  MayHang = {}
  CsdMayStick = FALSE
  MaxBos = 1
  MaxOpens = 0
  ListMax = 0
INVARIANT IdleWhileAlive
