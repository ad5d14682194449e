SPECIFICATION MCSpec
CONSTANTS
  b1 = b1
  b2 = b2
  p1 = p1
  p2 = p2
  Browsers = {b1, b2}
  Posts = {p1, p2}
  Lifetime <- MCLifetime
  MaxTokens = 2
  MaxSessions = 2
  MaxTime = 2
  Width = 4
  Addresses = {5, 6}
  Interfaces = {"eth0", "wlan0"}
  Helpers = {1}
  MaxStarts = 4
SYMMETRY Symmetry
INVARIANTS ConfirmInv NetworkInv
PROPERTIES AnswerIsReal
CHECK_DEADLOCK FALSE
