SPECIFICATION FairSyncSpec
CONSTANTS
  Epochs = 2
  KeptEpoch = 2
  Measurements <- FewMeasurements
  MaxStarts = 2
  MaxStops = 1
  MaxSyncs = 1
INVARIANT BestIsSelected
CHECK_DEADLOCK FALSE
