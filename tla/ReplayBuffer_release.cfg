SPECIFICATION Spec
CONSTANTS
  Video = Video
  Tracks = {}
  PtsLag = 1
  KeySizes = {2}
  DeltaSizes = {1}
  AudioSizes = {1}
  MaxTime = 2
  MaxSize = 50
  MaxGop = 2
  Latency = 0
  HorizonTs = 3
  MaxStarts = 1
  MaxSaves = 0
  GuardedSaves = TRUE
  EncoderMayFail = FALSE
  MuxMayFail = FALSE
  ThreadMayFail = FALSE
\* the horizon ends a behaviour, and so does an output that is gone
CHECK_DEADLOCK FALSE
PROPERTY
  ReleaseDestroys
