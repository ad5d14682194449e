SPECIFICATION MCFairSpec
CONSTANTS
  s1 = s1
  s2 = s2
  s3 = s3
  Sources = {s1, s2}
  NoSource = NoSource
  Retries = 1
  MaxCommands = 2
  MaxFaults = 1
  MaxMoves = 1
  FewSources = {s1, s2}
  OseeSources = {s1, s2}
  OseeTransports = 3
  OseeQueue = 4
  OseeMoves = 1
  OseeCommands = 1
  OseeFaults = 1
  DeckCommands = 1
  DeckFaults = 0
  DeckMoves = 1
  Unmapped = {s2}
  GspTop = 4
  H1 = 3
  H2 = 4
  GspPieces = 3
  GspSessions = 2
  GspLength = 4
  GspRecv = 4
PROPERTIES BackendsFollow NobodyWaits
CHECK_DEADLOCK FALSE
