SPECIFICATION VerifySpec
CONSTANTS
  Paths <- AllPaths
  Versions = {0, 1}
  Tests <- TwoTests
  Impact <- RulesOf
  Good <- GoodTrees
  GpuTests = {}
  Scientific = {}
  Gates <- OneGate
  Visible <- Blind
  Identities <- Blind
  First <- Committed
  MaxRuns = 2
  MaxEdits = 3
  MaxKills = 0
INVARIANT ChangedSkipIsSound
CHECK_DEADLOCK FALSE
