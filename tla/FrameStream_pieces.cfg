\* Three frames in one direction, in all pieces.
CONSTANTS
  Body <- MCBodies
  MaxFrame = 3
  MaxSends = 3
SPECIFICATION FairSpec
INVARIANTS TypeOK
PROPERTIES ImplementsQueue FrameArrives
CHECK_DEADLOCK FALSE
