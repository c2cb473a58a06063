SPECIFICATION Spec
CONSTANTS
  NSlots = 1
  MaxJobs = 4
  MaxGen = 2
  MaxDeps = 0
  Ops = {"CL", "RCL", "CSD", "NOP"}
  Modes = {"PIPELINE", "SERIAL"}
  RenderSems = FALSE
  MayHang = {0, 1}
  CsdMayStick = TRUE
INVARIANTS
  NoRenderOfFailedBin
  RowKeptWhileRunning
PROPERTIES
  SerialAlone
