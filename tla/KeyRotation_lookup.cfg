\* p rotates its key; q looks it up by address.
CONSTANTS
  p = p
  q = q
  Peer = {p, q}
  None = None
  MaxKey <- MCOneRotation
  MaxRuns <- MCTwo
  MaxBoots <- MCOne
SPECIFICATION Spec
INVARIANTS LookupFindsActive
CHECK_DEADLOCK FALSE
