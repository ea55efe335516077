SPECIFICATION Spec
CONSTANTS
  NumTracks = 2
  VideoFrame = 2
  AudioFrame = 3
  PtsLag = 1
  Priming = 0
  MaxGop = 2
  Boot = 10
  VideoLatency = 2
  AudioLatency = 3
  Jitter = 2
  MaxAge = 8
  Horizon = 14
  MaxSessions = 1
CHECK_DEADLOCK FALSE
INVARIANTS SentInOrder
