SPECIFICATION Spec
CONSTANTS
  Video = Video
  Tracks = {t1}
  PtsLag = 1
  KeySizes = {2}
  DeltaSizes = {1}
  AudioSizes = {1}
  MaxTime = 3
  MaxSize = 50
  MaxGop = 2
  Latency = 0
  HorizonTs = 6
  MaxStarts = 1
  MaxSaves = 1
  GuardedSaves = FALSE
  EncoderMayFail = TRUE
  MuxMayFail = FALSE
  ThreadMayFail = TRUE
\* the horizon ends a behaviour, and so does an output that is gone
CHECK_DEADLOCK FALSE
INVARIANTS
  TypeOK RingKeepsWindow PacketRefs
  ClipIsInsertion ClipOrdered
