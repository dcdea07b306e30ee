SPECIFICATION Spec
CONSTANTS
  Procs = {p1, p2}
  Versions <- Releases
  Base <- V1
  Assets <- Published
  None = None
  Torn = Torn
  Systems = {"unix", "windows"}
  Policies = {"patch"}
  MaxEvents = 1
INVARIANTS
  InstalledWhole
PROPERTIES
  NoStaleRollback
  NewestReachesDisk
CHECK_DEADLOCK FALSE
