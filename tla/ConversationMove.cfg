SPECIFICATION Spec
CONSTANTS
  Device = {d1, d2}
  Turn = {t1, t2}
  Call = {c1, c2}
  Nobody = Nobody
  MovesOverlap = FALSE
SYMMETRY Symmetry
INVARIANTS
  NeverLost
  SavedTurnsKept
PROPERTY
  ImplementsOwnership
CHECK_DEADLOCK FALSE
