SPECIFICATION Spec
CONSTANTS
  Clients = {a, b}
  Bos = {b1, b2}
  Fbs = {f1, f2}
  Planes = {"primary"}
  Primary = "primary"
  Modes = {"native"}
  None = None
  Keep = Keep
  MaxLag = 2
  Prompt = FALSE
  MayFail = FALSE
  Gated = FALSE
PROPERTY CompletedOnScreen
