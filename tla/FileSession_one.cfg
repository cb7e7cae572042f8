\* One connection; the server may have rotated its key and restart, its user may
\* edit or delete the file at any time; fair scheduling of both programs.
CONSTANTS
  a = a
  s1 = s1
  s2 = s2
  None = None
  Session = {s1}
  Client = {a}
  ClientOf <- MCOneClient
  Unsettled = {}
  FileId = {1}
  Content <- MCContents
  Shared <- MCOneFile
  Versions <- MCEdits
  FileOwner <- MCOldOwner
  MaxKey = 2
  MaxBoots = 2
  ChunkSize = 2
SPECIFICATION FairSpec
INVARIANTS TypeOK AlarmHasCause
PROPERTIES ImplementsDownload RevokedStaysOut RequestTerminates HandlerReleased
CHECK_DEADLOCK FALSE
