SPECIFICATION FairSpec
CONSTANTS
  NSlots = 2
  MaxJobs = 3
  MaxGen = 1
  MaxDeps = 1
  Ops = {"CL", "TFU", "JOIN", "SELFTEST"}
  Modes = {"PIPELINE"}
  RenderSems = TRUE
  MayHang = {0, 2}
  CsdMayStick = FALSE
INVARIANTS
  NoEarlySignal
  DepsFinished
  DeadFlushed
PROPERTIES
  PageIsTimeline
  EveryJobLeaves
