SPECIFICATION MCSpec
CONSTANTS
  Tasks = {"a", "b", "c"}
  Concurrency = 2
  StickAxes = {"pan", "zoom"}
  QueueSize = 2
  MaxPlugs <- MCPlugs
  MaxFailures = 1
  MaxPresses = 2
INVARIANTS ScanInv StickInv
PROPERTIES CancelIsKept DevicesSettle
