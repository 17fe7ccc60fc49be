SPECIFICATION Spec
CONSTANTS
  Campaigns = {"c1"}
  Jobs <- MixJobs
  Gpus <- OneGpu
  Runs <- TwoRuns
  None = None
  Cpu = Cpu
  CampaignOf <- MixCampaignOf
  RunCampaign <- TwoRunsCampaign
  Deps <- MixDeps
  Position <- MixPosition
  LaunchRank <- MixPosition
  Fits <- MixFits
  Cost <- MixCost
  MaxAttempts <- MixAttempts
  CpuJobs = {"summary"}
  External = {"remote"}
  BoundedProbe = {"remote"}
  Scoped = {"remote"}
  Failures <- Technical
  MaxSpawns = 3
  MaxStops = 1
  MaxKills = 1
INVARIANTS
  DependenciesMarked
  SpawnBudget
PROPERTIES
  TerminalIsFinal
  ImplementsDag
