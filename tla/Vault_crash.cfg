\* Two processes over one directory, killed anywhere; one password.
CONSTANTS
  p = p
  q = q
  w = w
  v = v
  None = None
  Empty = Empty
  Mixed = Mixed
  Process = {p, q}
  Password = {w}
  MaxRuns = 4
  MaxDraws = 6
SPECIFICATION Spec
INVARIANTS TypeOK DamageConfined ReceivedMatchesMeta
SYMMETRY MCProcesses
CHECK_DEADLOCK FALSE
