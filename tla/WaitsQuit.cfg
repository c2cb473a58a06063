SPECIFICATION Spec
CONSTANTS
  NClients = 1
  Lines = {0}
  NHandles = 0
  Rids = {r1, r2}
  Threads = {t1, t2}
  MaxSeq = 1
  MaxGen = 1
  Ops = {"SUBMIT", "FENCE"}
  MayFail = {}
  CanQuit = TRUE
INVARIANT CleanExit
CHECK_DEADLOCK FALSE
