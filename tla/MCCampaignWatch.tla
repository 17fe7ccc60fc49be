-------------------------- MODULE MCCampaignWatch ---------------------------
(***************************************************************************)
(* A campaign of a training job and its evaluation.                        *)
(***************************************************************************)
EXTENDS CampaignWatch, TLC

WatchedJobs == {"train", "eval"}
WatchedCampaignOf == [j \in WatchedJobs |-> "c1"]
WatchedDeps == "train" :> {} @@ "eval" :> {"train"}
OneAttempt == [j \in WatchedJobs |-> 1]

EndsOfJobs == {"completed", "failed", "blocked"}
=============================================================================
