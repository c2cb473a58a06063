SPECIFICATION Spec
CONSTANTS
  NJobs = 2
  NChunks = 2
  MaxStalls = 2
  Overlap = TRUE
  Prompt = TRUE
  MayStorm = TRUE
  MayHang = TRUE
  MayDie = TRUE
  SelfTest = TRUE
INVARIANTS ChunkPartition ChunksOutliveBin OneGrantPerStall
