SPECIFICATION Spec
CONSTANTS
  s1 = s1
  s2 = s2
  Sources = {s1, s2}
  NoSource = NoSource
  IdMax = 3
  MaxCommands = 2
  MaxFaults = 1
  MaxMoves = 1
  QueueMax = 3
  HandshakesFail = TRUE
  Reorders = TRUE
  MayRestart = TRUE
SYMMETRY SourceSymmetry
INVARIANTS AckIsHonest SoleReader
PROPERTIES ImplementsContract
