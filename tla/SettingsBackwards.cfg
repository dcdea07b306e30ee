SPECIFICATION GossipSpec
CONSTANTS
  d1 = d1
  d2 = d2
  Device = {d1, d2}
  Network = {n1}
  Item = {i1}
  Scenes <- SwapOnce
  Loader = {l1}
  LastStamp = 2
  NoConfig = NoConfig
PROPERTY
  NeverBackwards
CHECK_DEADLOCK FALSE
