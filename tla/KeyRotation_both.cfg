\* Two peers that both may rotate their key once.
CONSTANTS
  p = p
  q = q
  Peer = {p, q}
  None = None
  MaxKey <- MCBothRotate
  MaxRuns <- MCTwo
  MaxBoots <- MCOneTwo
SPECIFICATION FairSpec
INVARIANTS TypeOK RevocationFollowsRotation
PROPERTIES RevokedForGood RotationEnds
CHECK_DEADLOCK FALSE
