\* One process; rotate-key may choose another password.
CONSTANTS
  p = p
  q = q
  w = w
  v = v
  None = None
  Empty = Empty
  Mixed = Mixed
  Process = {p}
  Password = {w, v}
  MaxRuns = 3
  MaxDraws = 5
SPECIFICATION Spec
INVARIANTS DamageConfined
CHECK_DEADLOCK FALSE
