SPECIFICATION Spec
CONSTANTS
  NSlots = 2
  MaxJobs = 4
  MaxGen = 1
  MaxDeps = 1
  Ops = {"RCL", "CSD", "JOIN"}
  Modes = {"PIPELINE"}
  RenderSems = FALSE
  MayHang = {}
  CsdMayStick = TRUE
INVARIANT DeadFlushed
