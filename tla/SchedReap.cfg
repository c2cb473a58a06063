SPECIFICATION Spec
CONSTANTS
  NSlots = 1
  MaxJobs = 4
  MaxGen = 1
  MaxDeps = 0
  Ops = {"CL", "RCL"}
  Modes = {"PIPELINE"}
  RenderSems = FALSE
  MayHang = {0}
  CsdMayStick = FALSE
INVARIANT NoEarlySignal
