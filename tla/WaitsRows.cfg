SPECIFICATION Spec
CONSTANTS
  NClients = 1
  Lines = {0, 1}
  NHandles = 0
  Rids = {r1, r2, r3}
  Threads = {t1, t2}
  MaxSeq = 1
  MaxGen = 2
  Ops = {"SUBMIT", "FENCE", "BO", "CLOSE"}
  MayFail = {0}
  CanQuit = TRUE
SYMMETRY Symmetry
CHECK_DEADLOCK FALSE
INVARIANTS
  TypeOK
  OneHolder
  OkMeansDone
  NoOrphanWait
