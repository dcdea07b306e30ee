SPECIFICATION GossipSpec
CONSTANTS
  d1 = d1
  d2 = d2
  Device = {d1, d2}
  Network = {n1, n2}
  Item = {i1}
  Scenes <- RoamAndSwap
  Loader = {l1}
  LastStamp = 3
  NoConfig = NoConfig
PROPERTY
  Converges
CHECK_DEADLOCK FALSE
