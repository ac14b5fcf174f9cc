SPECIFICATION Spec
CONSTANTS
  Keys = {k1, k2}
  Public = {k1}
  Credentials = {c1, c2}
  Refreshers = {r1}
  Removals = {d1}
  Viewers = {v1}
  None = None
CHECK_DEADLOCK FALSE
  
PROPERTIES OnlyRacingRefreshUndoes
SYMMETRY Symmetry
