SPECIFICATION Spec
SYMMETRY Alike
CONSTANTS
  RSlots = {s1}
  RThreads = {t1, t2}
  MaxR = 2
  MaxGen = 2
  VNames = {v1}
  KClients = {a}
  MaxK = 2
  MaxNames = 1
  Planes = 1
INVARIANTS TypeOK ImportOfItsClient ShownIsReferenced LockedPartsOnly
