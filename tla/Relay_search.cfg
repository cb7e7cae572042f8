\* Two peers, one of which rotates its key, at two addresses; two list-files beside
\* a request-file.
CONSTANTS
  o = o
  h = h
  f = f
  d = d
  None = None
  Peer = {o, h}
  FileId = {f}
  Address = {1, 2}
  MaxLists = 2
  Request = {d}
  MaxStarts = 2
  Rotating = {o}
  MaxBook = 3
SPECIFICATION FairSpec
INVARIANTS TypeOK SearchIsComplete
PROPERTY RequestEnds
CHECK_DEADLOCK FALSE
