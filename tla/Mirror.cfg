SPECIFICATION MCSpec
CONSTANTS
  in1 = in1
  in2 = in2
  in3 = in3
  camA = camA
  camB = camB
  Sources = {in1, in2, in3}
  Foreign = {}
  NoSource = NoSource
  Cameras = {camA, camB}
  Enabled = {camA, camB}
  NoCamera = NoCamera
  Mapping <- MCMapping
  NoSnapshot = NoSnapshot
  StopOnSwitch = TRUE
  SendMayFail = FALSE
INVARIANTS FlagsExact ActiveFollowsPreview SafeExit
PROPERTIES MirrorConverges PreviewSettles MirrorFollows
CHECK_DEADLOCK FALSE
