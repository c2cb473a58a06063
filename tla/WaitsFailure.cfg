SPECIFICATION Spec
CONSTANTS
  NClients = 1
  Lines = {0, 1}
  NHandles = 0
  Rids = {r1}
  Threads = {t1}
  MaxSeq = 1
  MaxGen = 1
  Ops = {"SUBMIT", "FENCE"}
  MayFail = {0, 1}
  CanQuit = FALSE
INVARIANT FailureIsTold
