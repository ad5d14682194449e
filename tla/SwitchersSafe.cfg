SPECIFICATION MCSpec
CONSTANTS
  s1 = s1
  s2 = s2
  s3 = s3
  Sources = {s1, s2, s3}
  NoSource = NoSource
  Retries = 1
  MaxCommands = 2
  MaxFaults = 2
  MaxMoves = 1
  FewSources = {s1, s2}
  OseeSources = {s1}
  OseeTransports = 3
  OseeQueue = 3
  OseeMoves = 0
  OseeCommands = 1
  OseeFaults = 1
  DeckCommands = 4
  DeckFaults = 0
  DeckMoves = 0
  Unmapped = {}
  GspTop = 4
  H1 = 3
  H2 = 4
  GspPieces = 3
  GspSessions = 2
  GspLength = 4
  GspRecv = 4
INVARIANTS SessionInv FeedbackInv ParserInv
PROPERTIES ImplementsContract
CHECK_DEADLOCK FALSE
