SPECIFICATION Spec
CONSTANTS
  in1 = in1
  in2 = in2
  in3 = in3
  camA = camA
  camB = camB
  camC = camC
  Sources = {in1, in2, in3}
  foreign = foreign
  Foreign = {foreign}
  NoSource = NoSource
  Cameras = {camA, camB, camC}
  Enabled = {camA, camB}
  NoCamera = NoCamera
  Mapping <- MCMappingDisabled
  NoSnapshot = NoSnapshot
  StopOnSwitch = TRUE
  SendMayFail = TRUE
INVARIANTS MotionInv
PROPERTIES NewCameraDoesNotInherit RecallSurvivesRelease ImplementsMotionControl
