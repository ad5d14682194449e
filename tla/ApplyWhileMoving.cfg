SPECIFICATION Spec
CONSTANTS
  s1 = s1
  s2 = s2
  c1 = c1
  c2 = c2
  Sources = {s1, s2}
  NoSource = NoSource
  Cameras = {c1, c2}
  NoCamera = NoCamera
  Configs <- GoodConfigs
  MaxApplies = 1
  CalmOperator = FALSE
INVARIANT StillWhenReleased
