SPECIFICATION GateSpec
CONSTANTS
  Gates <- TwoGates
  Versions = {"v1", "v2"}
  First = "v1"
  MaxRuns = 3
  MaxChanges = 2
  MaxDeaths = 1
INVARIANTS
  RecordIsFrozen
  LaunchedIsResolved
  DriftStopsLaunch
CHECK_DEADLOCK FALSE
