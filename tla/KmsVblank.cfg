SPECIFICATION FairSpec
CONSTANTS
  Clients = {a}
  Requests = {"FLIP", "READ", "WAIT", "EVENT", "QUIT"}
  Sources = {"irq"}
  HvsThere = TRUE
  MaxFresh = 2
  MaxAhead = 1
  EvqLen = 1
  MaxParked = 1
  ReadSize = 1
INVARIANTS
  GateNoticed
  NoReaderLeft
  OneEventPerFlip
PROPERTIES
  EveryCommitEnds
  EveryParkedAnswered
CHECK_DEADLOCK FALSE
