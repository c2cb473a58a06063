SPECIFICATION FairSpec
CONSTANTS
  NClients = 1
  Lines = {0}
  NHandles = 1
  Rids = {r1, r2}
  Threads = {t1, t2}
  MaxSeq = 1
  MaxGen = 2
  Ops = {"SUBMIT", "FENCE", "BO", "SYNC", "SYNCOPS", "CLOSE"}
  MayFail = {0}
  CanQuit = TRUE
INVARIANTS
  OneHolder
  OkMeansDone
PROPERTIES
  EveryRequestAnswered
CHECK_DEADLOCK FALSE
