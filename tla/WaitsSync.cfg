SPECIFICATION FairSpec
CONSTANTS
  NClients = 1
  Lines = {0}
  NHandles = 2
  Rids = {r1, r2}
  Threads = {t1}
  MaxSeq = 1
  MaxGen = 1
  Ops = {"SUBMIT", "SYNC", "SYNCOPS", "CLOSE"}
  MayFail = {}
  CanQuit = FALSE
INVARIANTS
  NoOrphanWait
PROPERTIES
  EveryRequestAnswered
