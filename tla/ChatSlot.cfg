SPECIFICATION Spec
CONSTANTS
  Conversation = {c1, c2}
  Recorded = {c1}
  Runs = 2
  Cycle = {k1, k2}
  None = None
  Width = 1
  Segments = 2
  Timers = 1
  Stops = 1
SYMMETRY Symmetry
INVARIANTS
  TakenByLiveWork
PROPERTY
  NothingSkipped
CHECK_DEADLOCK FALSE
