SPECIFICATION FairSpec
CONSTANTS
  Campaigns = {"c1", "c2"}
  Jobs <- SoloJobs
  Gpus <- OneGpu
  Runs <- TwoRuns
  None = None
  Cpu = Cpu
  CampaignOf <- SoloCampaignOf
  RunCampaign <- TwoRunsApart
  Deps <- SoloDeps
  Position <- SoloPosition
  LaunchRank <- SoloPosition
  Fits <- SoloFits
  Cost <- SoloCost
  MaxAttempts <- SoloRetry
  CpuJobs = {}
  External = {}
  BoundedProbe = {}
  Scoped = {}
  Failures <- AnyFailure
  MaxSpawns = 3
  MaxStops = 0
  MaxKills = 0
INVARIANTS
  TrackedGpuExclusive
PROPERTIES
  CampaignEnds
