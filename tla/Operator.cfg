SPECIFICATION MCSpec
CONSTANTS
  Environments <- MCEnvironments
  MaxCommands <- MCCommands
  MaxFaults <- MCFaults
  SeqNumbers = 4
  One = 3600
  Notches = 3
  Flat = 0
  AxisConfigs <- MCConfigs
INVARIANTS FatalOnlyByWeb LinkIsExact StillAfterExit MappingInv
PROPERTIES FurtherIsFaster
CHECK_DEADLOCK FALSE
