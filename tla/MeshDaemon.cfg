SPECIFICATION Spec
CONSTANTS
  Apps = {a1, a2}
  Callers = {a1}
  Slots = {d1, d2}
  Shared = shared
  None = none
  Bins = 2
  Works = {2}
  Systems = {"unix", "windows"}
  MaxEvents = 3
INVARIANTS OwnedDies
PROPERTIES Reconnects CallsKeepTheirPromise
CHECK_DEADLOCK FALSE
