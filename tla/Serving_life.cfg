\* Two peers that start, stop and die, and a scan.
CONSTANTS
  p = p
  q = q
  None = None
  Peer = {p, q}
  Port = {1, 2}
  MaxStarts = 3
SPECIFICATION Spec
INVARIANTS TypeOK AdvertisedIsListening OrderlyEndTidies SteadyIsFound
SYMMETRY MCPeers
CHECK_DEADLOCK FALSE
