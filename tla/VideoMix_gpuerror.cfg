CONSTANTS
  r1 = r1
  r2 = r2
  g1 = g1
  g2 = g2
  Inputs = {r1, r2}
  Encoders = {g1, g2}
  Divisor <- MCDivisor
  GpuDivisor <- MCGpuDivisor
  CacheSize = 2
  NumTextures = 2
  WaitFrames = 1
  NumStages = 2
  MaxCount = 2
  MaxTick = 5
  MaxFailures = 1
  MaxUses = 2
  MaxMixed = 3
  Overlap = FALSE
  MayFail = TRUE
CHECK_DEADLOCK FALSE
SPECIFICATION FairSpec
PROPERTY KeepsEncoding
