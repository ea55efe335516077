SPECIFICATION Spec
CONSTANTS
  NumTracks = 2
  VideoFrame = 2
  AudioFrame = 3
  PtsLag = 1
  Priming = 1
  MaxGop = 2
  Boot = 10
  VideoLatency = 4
  AudioLatency = 0
  Jitter = 4
  MaxAge = 6
  Horizon = 12
  MaxSessions = 2
CHECK_DEADLOCK FALSE
INVARIANT EveryTrackInSync
