SPECIFICATION FairSyncSpec
CONSTANTS
  Epochs = 3
  KeptEpoch = 2
  Measurements <- FewMeasurements
  MaxStarts = 3
  MaxStops = 2
  MaxSyncs = 1
INVARIANTS
  SelectionIsEarliestBest
  FullSplitReadsSelection
  OneRowPerEpoch
  EscapesOnlyWhenCut
  BestAgreesUnlessCut
  
  SyncedIsUploaded
PROPERTIES
  FinishesUnlessCut
CHECK_DEADLOCK FALSE
