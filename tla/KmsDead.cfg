SPECIFICATION Spec
CONSTANTS
  Clients = {a, b}
  Bos = {b1, b2}
  Fbs = {f1, f2}
  Planes = {"primary", "cursor"}
  Primary = "primary"
  Modes = {"native", "low"}
  None = None
  Keep = Keep
  MaxLag = 1
  Prompt = TRUE
  MayFail = FALSE
  Gated = TRUE
INVARIANT DeadNotShown
