SPECIFICATION Spec
CONSTANTS
  Campaigns = {"c1"}
  Jobs <- DagJobs
  Gpus <- TwoGpus
  Runs <- OneRun
  None = None
  Cpu = Cpu
  CampaignOf <- DagCampaignOf
  RunCampaign <- OneRunCampaign
  Deps <- DagDeps
  Position <- DagPosition
  LaunchRank <- DagLaunchRank
  Fits <- DagFits
  Cost <- DagCost
  MaxAttempts <- DagAttempts
  CpuJobs = {}
  External = {}
  BoundedProbe = {}
  Scoped = {}
  Failures <- AnyFailure
  MaxSpawns = 4
  MaxStops = 0
  MaxKills = 0
INVARIANTS
  TypeOK
  GpuExclusive
  ParentEndsFirst
  NoDuplicateWorker
  WorkConserving
  NoLeakAfterLastAttempt
