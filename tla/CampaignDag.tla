---------------------------- MODULE CampaignDag -----------------------------
(***************************************************************************)
(* What the state file of a campaign promises to whoever reads it (status, *)
(* the reconciler, the campaign watch): from one saved state to the next   *)
(* every job makes at most one legal move of its life cycle, its launch    *)
(* and its blocking are justified by the saved states of its dependencies, *)
(* and no job is launched more often than its retry policy allows.         *)
(* Orchestrator implements this specification.                             *)
(***************************************************************************)
EXTENDS Naturals

CONSTANTS
  Jobs,        \* the jobs
  Deps,        \* the dependencies of each job
  MaxAttempts  \* retry_policy.max_attempts of each job

\* _check_dependencies: in any set of jobs one has no dependency in the set.
Acyclic == \A S \in SUBSET Jobs : S # {} => \E j \in S : Deps[j] \cap S = {}

ASSUME DagAssumption ==
  /\ Deps \in [Jobs -> SUBSET Jobs] /\ Acyclic
  /\ MaxAttempts \in [Jobs -> Nat \ {0}]

VARIABLES
  st,          \* the saved status of each job
  n            \* the number of attempts of each job

vars == <<st, n>>

Broken == {"failed", "blocked", "orphaned"}
Terminal == {"completed"} \cup Broken
Status == {"pending", "running"} \cup Terminal
Attempts == UNION {0..MaxAttempts[j] : j \in Jobs}

Init ==
  /\ st = [j \in Jobs |-> "pending"]
  /\ n = [j \in Jobs |-> 0]

-----------------------------------------------------------------------------
(* The moves of a job between two saved states                             *)

Moves(j, from, to) == st[j] \in from /\ st'[j] \in to /\ n'[j] = n[j]

Keeps(j) == st'[j] = st[j] /\ n'[j] = n[j]
Ends(j) == Moves(j, {"running"}, {"completed", "failed", "orphaned"})
\* A completion marker left by an attempt that no saved state knows.
Recovers(j) == Moves(j, {"pending"}, {"completed"})
\* The technical retry is still to be placed.
Retries(j) == Moves(j, {"running"}, {"pending"}) /\ n[j] < MaxAttempts[j]
\* Mutant: a job is blocked although nothing it needs is broken.
BlocksIdly(j) == Moves(j, {"pending"}, {"blocked"})
Blocks(j) == Moves(j, {"pending"}, {"blocked"}) /\ \E d \in Deps[j] : st'[d] \in Broken
\* A first launch, or the relaunch of a technical failure in the same tick.
Launches(j) ==
  /\ st[j] \in {"pending", "running"} /\ st'[j] = "running"
  /\ n[j] < MaxAttempts[j] /\ n'[j] = n[j] + 1
  /\ \A d \in Deps[j] : st'[d] = "completed"

Next ==
  /\ st' \in [Jobs -> Status] /\ n' \in [Jobs -> Attempts]
  /\ \A j \in Jobs : \/ Keeps(j) \/ Ends(j) \/ Recovers(j)
                     \/ Retries(j) \/ Blocks(j) \/ Launches(j)

Spec == Init /\ [][Next]_vars

-----------------------------------------------------------------------------
(* Properties                                                              *)

TypeOK == st \in [Jobs -> Status] /\ n \in [Jobs -> Attempts]

\* A job that was ever launched has all its dependencies completed, a job
\* that is blocked has a dependency that failed, was blocked or orphaned, and
\* a job that waits has an attempt left (ready_jobs, reconcile_running).
Justified ==
  \A j \in Jobs :
    /\ n[j] > 0 => \A d \in Deps[j] : st[d] = "completed"
    /\ st[j] = "blocked" => \E d \in Deps[j] : st[d] \in Broken
    /\ st[j] = "pending" => n[j] < MaxAttempts[j]
    /\ st[j] \in {"running", "failed", "orphaned"} => n[j] > 0

\* A blocked job has a root cause: somewhere in the campaign a job failed or
\* was orphaned (the failure summary of a campaign is never only "blocked").
RootCause ==
  (\E j \in Jobs : st[j] = "blocked") => \E d \in Jobs : st[d] \in {"failed", "orphaned"}
=============================================================================
