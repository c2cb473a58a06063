SPECIFICATION Spec
CONSTANTS
  NClients = 1
  Lines = {0}
  NHandles = 1
  Rids = {r1, r2}
  Threads = {t1}
  MaxSeq = 1
  MaxGen = 1
  Ops = {"SUBMIT", "SYNC", "SYNCOPS"}
  MayFail = {}
  CanQuit = FALSE
INVARIANT DestroyedWaiterFails
