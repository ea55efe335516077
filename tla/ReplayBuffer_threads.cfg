SPECIFICATION Spec
CONSTANTS
  Video = Video
  Tracks = {}
  PtsLag = 1
  KeySizes = {2}
  DeltaSizes = {1}
  AudioSizes = {1}
  MaxTime = 2
  MaxSize = 8
  MaxGop = 2
  Latency = 1
  HorizonTs = 5
  MaxStarts = 1
  MaxSaves = 2
  GuardedSaves = TRUE
  EncoderMayFail = FALSE
  MuxMayFail = TRUE
  ThreadMayFail = FALSE
\* the horizon ends a behaviour, and so does an output that is gone
CHECK_DEADLOCK FALSE
INVARIANTS
  RingCounters ClipDecodable DestroyedQuiet  SaveExclusive
PROPERTIES
  SavedMeansSaved HandlerReturns SaveServed StopCompletes
