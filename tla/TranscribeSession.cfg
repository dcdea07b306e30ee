SPECIFICATION MCSpec
CONSTANTS
  Buffers = 6
  QueueSize = 2
  Hop = 2
  Window = 5
  Silence = 1
  ErrorLimit = 2
  s1 = s1
  s2 = s2
  c1 = c1
  c2 = c2
  Sessions = {s1, s2}
  Commands = {c1, c2}
  Casts <- AllCasts
  Span = 9
  Voices = {2, 6, 9}
  Join = 2
  Create = 3
  Match = 1
  MaxClusters = 3
  MaxClips = 1
  MaxTurns = 3
  MaxTrouble = 1
  None = None
INVARIANTS
  RecordingComplete
  BacklogReceived
  CaptionKept
  AnchorHolds
  ClipsBacked
  AskedOnce
PROPERTIES
  NothingWrittenTwice
  StopEnds
CHECK_DEADLOCK FALSE
