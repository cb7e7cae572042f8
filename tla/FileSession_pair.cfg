\* Two connections of one peer; files that fill two chunks, one, or none.
CONSTANTS
  a = a
  s1 = s1
  s2 = s2
  None = None
  Session = {s1, s2}
  Client = {a}
  ClientOf <- MCSameClient
  Unsettled = {a}
  FileId = {1, 2, 3}
  Content <- MCLengthContents
  Shared <- MCLengths
  Versions <- MCLengthEdits
  FileOwner <- MCOldOwners
  MaxKey = 1
  MaxBoots = 1
  ChunkSize = 2
SPECIFICATION Spec
INVARIANTS AlarmHasCause DataOnlyAfterConsent KeyAgreement NonceNeverReused SavedIsPublished
SYMMETRY MCSameSessions
CHECK_DEADLOCK FALSE
