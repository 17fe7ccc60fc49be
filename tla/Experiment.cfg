SPECIFICATION ExpFairSpec
CONSTANTS
  Jobs <- CampaignJobs
  Deps <- CampaignDeps
  MaxAttempts <- CampaignAttempts
  Required = {"train", "other"}
  ResultJobs = {"eval"}
  Registered <- AllOrNothing
  Recorded <- RecordedClasses
  MaxPost = 2
  MaxRecovery = 1
  MaxLeases <- FewLeases
  MaxDisturbed <- FewDisturbed
INVARIANTS
  RootCause
  OneOwner
  StartsBounded
  FinalIsBacked
  ScienceIsNotRepaired
PROPERTIES
  Settles
CHECK_DEADLOCK FALSE
