SPECIFICATION Spec
SYMMETRY Alike
CONSTANTS
  RSlots = {s1}
  RThreads = {t1, t2}
  MaxR = 2
  MaxGen = 1
  VNames = {v1}
  KClients = {a, b}
  MaxK = 2
  MaxNames = 1
  Planes = 1
INVARIANTS OneImportPerName MappingsExact DescriptorsExact AliasKeepsSource ReapHasRoom
