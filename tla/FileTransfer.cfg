SPECIFICATION MCSpec
CONSTANTS
  Chunks = 3
  Click = {k1, k2}
  None = None
  a = a
  b = b
  i1 = i1
  i2 = i2
  Jobs = {a, b}
  Ids = {i1, i2}
  Casts <- AllCasts
  Leftover <- Found
  Stuck = {4}
  Length = 4
  Capacity = 2
  FrameSize = 2
  Feeds = 2
  Sweeps = 1
  ErrorLimit = 2
  Nil = Nil
INVARIANTS
  SuccessIsTrue
  FailureIsTrue
  WrittenOnlyIfAccepted
  NoChunkMissed
  Reachable
  NothingSkipped
PROPERTIES
  TransferEnds
  WorkersEnd
CHECK_DEADLOCK FALSE
