SPECIFICATION FairSpec
CONSTANTS
  Clients = {a}
  Bos = {b1}
  Fbs = {f1, f2}
  Planes = {"primary"}
  Primary = "primary"
  Modes = {"native"}
  None = None
  Keep = Keep
  MaxLag = 2
  Prompt = FALSE
  MayFail = FALSE
  Gated = TRUE
PROPERTY EveryCommitEnds
