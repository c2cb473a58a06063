SPECIFICATION Spec
CONSTANTS
  Clients = {a}
  Bos = {b1}
  Fbs = {f1}
  Planes = {"primary", "cursor"}
  Primary = "primary"
  Modes = {"native", "low"}
  None = None
  Keep = Keep
  MaxLag = 1
  Prompt = TRUE
  MayFail = FALSE
  Gated = FALSE
INVARIANT LowModeIsUsed
