--------------------------- MODULE MCOrchestrator ---------------------------
(***************************************************************************)
(* Small instances of Orchestrator for TLC.                                *)
(***************************************************************************)
EXTENDS Orchestrator, TLC

AnyFailure == {"technical", "fatal", "failed"}
Technical == {"technical"}

OneGpu == {"g0"}
TwoGpus == {"g0", "g1"}
G0First(J) == [j \in J |-> "g0" :> 1 @@ "g1" :> 2]

OneRun == {"r1"}
TwoRuns == {"r1", "r2"}
\* Every invocation is for the same campaign / the second one is for c2.
OneRunCampaign == [r \in OneRun |-> "c1"]
TwoRunsCampaign == [r \in TwoRuns |-> "c1"]
TwoRunsApart == [r \in TwoRuns |-> IF r = "r2" THEN "c2" ELSE "c1"]

\* A training job with a retry, its evaluation (listed first in the manifest),
\* and an independent job that is placed first, on the one GPU "eval" can use.
DagJobs == {"train", "eval", "other"}
DagCampaignOf == [j \in DagJobs |-> "c1"]
DagDeps == [j \in DagJobs |-> IF j = "eval" THEN {"train"} ELSE {}]
DagPosition == "eval" :> 1 @@ "train" :> 2 @@ "other" :> 3
DagLaunchRank == "other" :> 1 @@ "train" :> 2 @@ "eval" :> 3
DagFits == "train" :> TwoGpus @@ "eval" :> {"g1"} @@ "other" :> {"g1"}
DagCost == G0First(DagJobs)
DagAttempts == "train" :> 2 @@ "eval" :> 1 @@ "other" :> 1

\* Two campaigns of one job each that want the same GPU.
SoloJobs == {"mine", "rival"}
SoloCampaignOf == "mine" :> "c1" @@ "rival" :> "c2"
SoloDeps == [j \in SoloJobs |-> {}]
SoloPosition == "mine" :> 1 @@ "rival" :> 2
SoloFits == [j \in SoloJobs |-> OneGpu]
SoloCost == [j \in SoloJobs |-> "g0" :> 1]
SoloRetry == "mine" :> 2 @@ "rival" :> 1

\* A remote job, and a CPU job that summarises it.
MixJobs == {"remote", "summary"}
MixCampaignOf == [j \in MixJobs |-> "c1"]
MixDeps == [j \in MixJobs |-> IF j = "summary" THEN {"remote"} ELSE {}]
MixPosition == "remote" :> 1 @@ "summary" :> 2
MixFits == "remote" :> OneGpu @@ "summary" :> {}
MixCost == [j \in MixJobs |-> "g0" :> 1]
MixAttempts == [j \in MixJobs |-> 1]

\* A single job.
LoneJobs == {"job"}
LoneCampaignOf == [j \in LoneJobs |-> "c1"]
LoneDeps == [j \in LoneJobs |-> {}]
LonePosition == [j \in LoneJobs |-> 1]
LoneFits == [j \in LoneJobs |-> OneGpu]
LoneCost == [j \in LoneJobs |-> "g0" :> 1]
LoneAttempts == [j \in LoneJobs |-> 1]
=============================================================================
