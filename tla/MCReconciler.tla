---------------------------- MODULE MCReconciler -----------------------------
(***************************************************************************)
(* Two training jobs, one of which may be retried, and their evaluation.   *)
(***************************************************************************)
EXTENDS Reconciler, TLC

CampaignJobs == {"train", "other", "eval"}
CampaignDeps == "train" :> {} @@ "other" :> {} @@ "eval" :> {"train", "other"}
CampaignAttempts == "train" :> 2 @@ "other" :> 1 @@ "eval" :> 1
RecordedClasses ==
  "train" :> {"scientific", "retryable"} @@ "other" :> {"retryable"}
  @@ "eval" :> {"scientific", "retryable"}
AllOrNothing == {Parts, {}}
\* One more than a single process may use up, or a recovery.
FewLeases == [m \in Modes, r \in {{}, ResultJobs} |-> IF m = "single" THEN 3 ELSE 2]
\* One, but none beside the evaluation that an external owner looks at.
FewDisturbed == [m \in Modes, r \in {{}, ResultJobs} |-> IF m = "external" /\ r # {} THEN 0 ELSE 1]
=============================================================================
