SPECIFICATION FairSpec
CONSTANTS
  Campaigns = {"c1"}
  Jobs <- WatchedJobs
  CampaignOf <- WatchedCampaignOf
  Deps <- WatchedDeps
  MaxAttempts <- OneAttempt
  Services = {"service"}
  Manual = {"shell"}
  EmitExisting = {}
  Outcomes <- EndsOfJobs
  MaxManual = 1
  MaxMishaps = 1
INVARIANTS
  CursorIsBacked
  HookAfterJobs
  HookBudget
PROPERTIES
  EndIsTold
