SPECIFICATION Spec
CONSTANTS
  Campaigns = {"c1"}
  Jobs <- LoneJobs
  Gpus <- OneGpu
  Runs <- OneRun
  None = None
  Cpu = Cpu
  CampaignOf <- LoneCampaignOf
  RunCampaign <- OneRunCampaign
  Deps <- LoneDeps
  Position <- LonePosition
  LaunchRank <- LonePosition
  Fits <- LoneFits
  Cost <- LoneCost
  MaxAttempts <- LoneAttempts
  CpuJobs = {}
  External = {}
  BoundedProbe = {}
  Scoped = {}
  Failures <- AnyFailure
  MaxSpawns = 1
  MaxStops = 0
  MaxKills = 0
INVARIANTS
  FirstCompletionWins
