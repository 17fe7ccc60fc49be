SPECIFICATION VerifyFairSpec
CONSTANTS
  Paths <- AllPaths
  Versions = {0, 1}
  Tests <- TwoTests
  Impact <- RulesOf
  Good <- GoodTrees
  GpuTests <- GpuCommands
  Scientific <- ScientificTests
  Gates <- TwoGates
  Visible <- Opposite
  Identities <- Uuids
  First <- Committed
  MaxRuns = 2
  MaxEdits = 2
  MaxKills = 1
INVARIANTS
  SkipIsSound
  GreenIsGreen
  GpuTestsApart
PROPERTIES
  GateEnds
CHECK_DEADLOCK FALSE
