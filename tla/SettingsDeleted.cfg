SPECIFICATION BuriedSpec
CONSTANTS
  d1 = d1
  d2 = d2
  Device = {d1, d2}
  Network = {n1}
  Item = {i1}
  Scenes <- Delete
  Loader = {l1}
  LastStamp = 1
  NoConfig = NoConfig
PROPERTY
  DeletedStaysDeleted
CHECK_DEADLOCK FALSE
