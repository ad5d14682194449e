SPECIFICATION MCSpec
CONSTANTS
  b1 = b1
  b2 = b2
  Browsers = {b1, b2}
  Passwords <- MCPasswords
  Lifetime = 1
  MaxFailures = 2
  Cooldown = 2
  MaxGen = 3
  MaxSessions = 2
  MaxAttempts = 1
  MaxTime = 1
  cam1 = cam1
  cam2 = cam2
  in1 = in1
  in2 = in2
  aux = aux
  btn = btn
  h1 = h1
  one = one
  t1 = t1
  Example <- MCExample
  Cameras <- MCCameras
  Inputs <- MCInputs
  DeckExtras = {aux}
  Buttons = {btn}
  Hosts = {h1}
  Presets = {one}
  Imports <- MCImports
  HandWritten <- MCHandWritten
  MaxSaves = 4
  MaxCrashes = 2
  Size <- MCSize
  MaxEvents = 3
  MaxApplies = 2
  MaxWrites = 3
  Tabs = {t1}
SYMMETRY Symmetry
INVARIANTS AuthInv LimiterMatches StoreInv FilesInv ViewInv
PROPERTIES NothingLost
CHECK_DEADLOCK FALSE
