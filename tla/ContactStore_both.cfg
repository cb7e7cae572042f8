\* Two handler threads and a command beside them; two rotations in a row, of
\* contacts the user has.
CONSTANTS
  t1 = t1
  t2 = t2
  c1 = c1
  f1 = f1
  f2 = f2
  f3 = f3
  None = None
  Thread = {t1, t2}
  Command = {c1}
  Fp = {f1, f2, f3}
  Successor <- MCTwoRotations
  Old = {f1, f2}
  MaxMessages = 2
  MaxBoots = 2
SYMMETRY MCSymmetry
SPECIFICATION Spec
INVARIANTS TypeOK VerifiedOnlyByUser AckedSurvives ReadableWhenSerial VerifiedUntilReplaced
PROPERTIES ImplementsStanding
CHECK_DEADLOCK FALSE
