----------------------------- MODULE Reconciler ------------------------------
(***************************************************************************)
(* scripts/reconcile_experiment.py: scheduled wakes decide from the saved  *)
(* campaign (CampaignDag), or from a local training process, what becomes  *)
(* of an experiment, start its postprocess or its recovery command under a *)
(* lease, and record the outcome in experiment-state.json.  A wake may die *)
(* anywhere; the launch gate rewrites the same file without the lock.      *)
(*                                                                         *)
(* Wakes exclude each other by a lock, so one of them is modelled at a     *)
(* time.  The two markers are registered together or not at all, and carry *)
(* the identity of the experiment; pids are not reused.                    *)
(***************************************************************************)
EXTENDS CampaignDag, Sequences, FiniteSets

CONSTANTS
  Required,     \* required_training_jobs
  ResultJobs,   \* terminal_result_jobs, if the experiment declares them
  Registered,   \* what an experiment may have registered of Parts
  Recorded,     \* the failure classes that an attempt of each job may record
  MaxPost,      \* --max-postprocess-attempts
  MaxRecovery,  \* recovery.max_attempts
  MaxLeases,    \* bound: leases ever taken, by mode and results
  MaxDisturbed  \* bound: wakes that die and launches that the gate records, so too

Classes == {"scientific", "retryable", "unknown"}
Modes == {"single", "dag", "external"}
Parts == {"markers", "post", "recovery"}

ASSUME ReconcilerAssumption ==
  /\ Required \subseteq Jobs /\ Required # {} /\ ResultJobs \subseteq Jobs \ Required
  /\ Registered \subseteq SUBSET Parts /\ Recorded \in [Jobs -> SUBSET Classes]
  /\ {MaxPost, MaxRecovery} \subseteq Nat \ {0}
  /\ {MaxLeases, MaxDisturbed} \subseteq [Modes \X {{}, ResultJobs} -> Nat]

VARIABLES
  mode,      \* "single" process, or who owns the postprocess of a campaign: "dag", "external"
  results,   \* the declared result jobs
  known,     \* what is registered, a command unchanged since the launch
  class,     \* the failure class that the attempts of each job recorded
  training,  \* the training process of a single-process experiment
  complete,  \* the final state that the completion marker tells
  failure,   \* is there a failure marker
  exp,       \* experiment-state.json
  rpc,       \* where the wake that holds the lock is
  mem,       \* the state as it has it
  leases,    \* every lease ever taken, with the process that was started under it
  expired,   \* how many of the leases have run out: they last equally long
  gate,      \* the launch gate's copy of the state
  disturbed,
  slips,     \* history: wakes that died with a process started
  undone     \* history: writes of the gate that undid an update

expConfig == <<mode, results, known>>
world == <<vars, class, training, complete, failure>>
wake == <<rpc, mem>>
counters == <<disturbed, slips, undone>>
expVars == <<expConfig, world, exp, wake, leases, expired, gate, counters>>

Final == {"PUSHED", "AWAITING_RESEARCH_REVIEW"}
Closed == Final \cup {"NEEDS_RESEARCH_DECISION", "NEEDS_TECHNICAL_RECOVERY"}
Nobody == 0  \* and no lease
NoState == [state |-> "none", lease |-> Nobody, attempts |-> 0, rlease |-> Nobody, rattempts |-> 0]

\* Legacy single-process states are written when the training process starts.
ExpInit ==
  /\ Init /\ class = [j \in Jobs |-> "unknown"]
  /\ mode \in Modes
  /\ results \in IF mode = "single" THEN {{}} ELSE {{}, ResultJobs}
  /\ known \in Registered
  /\ training = "alive" /\ complete = "none" /\ failure = FALSE
  /\ exp = [NoState EXCEPT !.state = IF mode = "single" THEN "TRAINING" ELSE "LAUNCHING"]
  /\ rpc = "free" /\ mem = NoState /\ leases = <<>> /\ expired = 0 /\ gate = NoState
  /\ disturbed = 0 /\ slips = 0 /\ undone = 0

-----------------------------------------------------------------------------
(* What a wake reads                                                       *)

Active == \E j \in Required : st[j] \in {"pending", "running"}
Failures == {j \in Required \cup results : st[j] \in Broken}
TrainingFailed == Required \cap Failures # {}
ResultsActive == \E j \in results : st[j] \in {"pending", "running"}
\* Mutant: the results of the DAG are not looked at.
NoResultFailed == FALSE
ResultsFailed == results \cap Failures # {}

\* Mutant: one retryable failure is enough for a recovery.
AnyRetryable ==
  IF \E j \in Failures : class[j] = "retryable" THEN "retryable" ELSE "unknown"
\* campaign_failure_class: a job without an attempt (a blocked one) is unknown.
FailureClass ==
  IF \E j \in Failures : class[j] = "scientific" THEN "scientific"
  ELSE IF \A j \in Failures : class[j] = "retryable" THEN "retryable" ELSE "unknown"

\* Mutant: the expiry of a lease is never noticed.
EverTaken(l) == l # Nobody
IsActive(l) == l > expired
Alive(l) == l # Nobody /\ leases[l].alive

Save(s) == exp' = s
Release == rpc' = "free" /\ mem' = NoState
CloseAs(state) == Save([mem EXCEPT !.state = state, !.lease = Nobody]) /\ Release
\* needs a decision; clear_recovery_lease.
GiveUp(state) == Save([mem EXCEPT !.state = state, !.rlease = Nobody]) /\ Release
GoesTo(pc, s) == rpc' = pc /\ mem' = s

-----------------------------------------------------------------------------
(* The steps of a wake                                                     *)

Wake ==
  /\ rpc = "free"
  /\ GoesTo("decide", exp)
  /\ UNCHANGED <<exp, leases>>

\* Terminal and unactionable states are saved as they were read.
Idle ==
  /\ rpc = "decide"
  /\ \/ mem.state \in Closed
     \/ mode = "single" /\ mem.state = "TRAINING_FAILED"
     \/ mode = "single" /\ mem.state = "TRAINING" /\ training = "alive"
  /\ Save(mem) /\ Release
  /\ UNCHANGED leases

Decides(m) == rpc = "decide" /\ mem.state \notin Closed /\ mode = m

\* A dead pid is a success only with its completion evidence.
TrainingEnded ==
  /\ Decides("single") /\ mem.state = "TRAINING" /\ training # "alive"
  /\ IF training = "complete"
       THEN GoesTo("markers", [mem EXCEPT !.state = "TRAINING_SUCCESS"]) /\ UNCHANGED exp
       ELSE Save([mem EXCEPT !.state = "TRAINING_FAILED"]) /\ Release
  /\ UNCHANGED leases

Postprocessing ==
  /\ Decides("single") /\ mem.state \in {"TRAINING_SUCCESS", "EVALUATING"}
  /\ GoesTo("markers", mem)
  /\ UNCHANGED <<exp, leases>>

DecidesCampaign == Decides("dag") \/ Decides("external")

CampaignActive ==
  /\ DecidesCampaign /\ Active
  /\ Save([mem EXCEPT !.state = IF @ = "LAUNCHING" THEN @ ELSE "TRAINING"]) /\ Release
  /\ UNCHANGED leases

Failed == DecidesCampaign /\ ~Active /\ TrainingFailed

\* Mutant: a recovery that could not be started is not counted.
NotCounted(a) == a
Counted(a) == a + 1
NewLease == Len(leases) + 1
Takes(kind, alive) == leases' = Append(leases, [kind |-> kind, alive |-> alive])

\* delegate_recovery.
RecoveryLeased ==
  /\ Failed /\ IsActive(mem.rlease)
  /\ Save([mem EXCEPT !.state = "TRAINING_FAILED"]) /\ Release
  /\ UNCHANGED leases
RecoveryRefused ==
  /\ Failed /\ ~IsActive(mem.rlease)
  /\ FailureClass # "retryable" \/ mem.rattempts >= MaxRecovery \/ "recovery" \notin known
  /\ GiveUp("NEEDS_RESEARCH_DECISION")
  /\ UNCHANGED leases
RecoveryStarts ==
  /\ Failed /\ ~IsActive(mem.rlease) /\ Len(leases) < MaxLeases[mode, results]
  /\ FailureClass = "retryable" /\ mem.rattempts < MaxRecovery /\ "recovery" \in known
  /\ LET s == [mem EXCEPT !.rlease = NewLease, !.rattempts = Counted(@)] IN
     \/ /\ Takes("recovery", TRUE)
        /\ GoesTo("record", [s EXCEPT !.state = "TRAINING"]) /\ UNCHANGED exp
     \/ /\ Takes("none", FALSE)
        /\ Save([s EXCEPT !.state = "TRAINING_FAILED"]) /\ Release

Succeeded == DecidesCampaign /\ ~Active /\ ~TrainingFailed
Success == [mem EXCEPT !.state = "TRAINING_SUCCESS", !.rlease = Nobody]

\* The registered command goes through the markers and the lease.
CampaignSucceeded ==
  /\ Succeeded /\ mode = "external"
  /\ Save(Success) /\ GoesTo("markers", Success)
  /\ UNCHANGED leases

\* The results of the DAG, then its markers, the failure marker first.
DagSucceeded ==
  /\ Succeeded /\ mode = "dag"
  /\ \/ /\ ResultsActive
        /\ Save([Success EXCEPT !.state = "EVALUATING"]) /\ Release
     \/ /\ ~ResultsActive /\ ResultsFailed
        /\ GiveUp(IF FailureClass = "retryable" THEN "NEEDS_TECHNICAL_RECOVERY"
                  ELSE "NEEDS_RESEARCH_DECISION")
     \/ /\ ~ResultsActive /\ ~ResultsFailed
        /\ GoesTo("dagMarkers", Success) /\ UNCHANGED exp
  /\ UNCHANGED leases

DagMarkers ==
  /\ rpc = "dagMarkers"
  /\ IF failure THEN CloseAs("NEEDS_RESEARCH_DECISION")
     ELSE IF complete # "none" THEN CloseAs(complete)
     ELSE /\ Save([mem EXCEPT !.state = IF "markers" \in known THEN "EVALUATING"
                                      ELSE "NEEDS_RESEARCH_DECISION"])
          /\ Release
  /\ UNCHANGED leases

Markers ==
  /\ rpc = "markers"
  /\ IF complete # "none" THEN CloseAs(complete)
     ELSE IF failure THEN CloseAs("NEEDS_RESEARCH_DECISION")
     ELSE GoesTo(IF mem.state = "EVALUATING" THEN "watch" ELSE "claim", mem) /\ UNCHANGED exp
  /\ UNCHANGED leases

\* Mutant: only the lease of the postprocess is looked at.
LeaseOnly(l) == IsActive(l)
Busy(l) == Alive(l) \/ IsActive(l)

\* A postprocess that died may be started again, a bounded number of times; the
\* wake saves TRAINING_SUCCESS, releases the lock and calls reconcile again.
Watch ==
  /\ rpc = "watch"
  /\ IF Busy(mem.lease) THEN Save(mem) /\ Release
     ELSE IF mem.attempts >= MaxPost THEN CloseAs("NEEDS_RESEARCH_DECISION")
     ELSE Save([mem EXCEPT !.state = "TRAINING_SUCCESS"]) /\ Release
  /\ UNCHANGED leases

Handover == {"markers", "post"} \subseteq known
Unregistered ==
  /\ rpc = "claim" /\ ~IsActive(mem.lease) /\ ~Handover
  /\ CloseAs("NEEDS_RESEARCH_DECISION")
  /\ UNCHANGED leases

\* acquire_lease, and the registered command.
Claim ==
  /\ rpc = "claim"
  /\ \/ /\ IsActive(mem.lease)
        /\ Save(mem) /\ Release /\ UNCHANGED leases
     \/ /\ ~IsActive(mem.lease) /\ Handover /\ Len(leases) < MaxLeases[mode, results]
        /\ LET s == [mem EXCEPT !.state = "EVALUATING", !.lease = NewLease, !.attempts = Counted(@)] IN
           \/ Takes("post", TRUE) /\ GoesTo("record", s) /\ UNCHANGED exp
           \/ Takes("none", FALSE) /\ Save(s) /\ Release

Record ==
  /\ rpc = "record"
  /\ Save(mem) /\ Release
  /\ UNCHANGED leases

WakeSteps ==
  \/ Wake \/ Idle \/ TrainingEnded \/ Postprocessing \/ CampaignActive
  \/ RecoveryLeased \/ RecoveryRefused \/ RecoveryStarts \/ CampaignSucceeded
  \/ DagSucceeded \/ DagMarkers \/ Markers \/ Watch
  \/ Unregistered \/ Claim \/ Record

Reconcile ==
  /\ WakeSteps
  /\ UNCHANGED <<expConfig, world, expired, gate, counters>>

Undisturbed == disturbed < MaxDisturbed[mode, results]

\* The lock goes with the process, a started command lives on.
Crash ==
  /\ rpc # "free" /\ Undisturbed
  /\ disturbed' = disturbed + 1
  /\ slips' = slips + IF rpc = "record" THEN 1 ELSE 0
  /\ Release
  /\ UNCHANGED <<expConfig, world, exp, leases, expired, gate, undone>>

-----------------------------------------------------------------------------
(* The launch gate, the commands, the campaign, and time                   *)

\* update_experiment_state_launch: it reads and rewrites the file, unlocked.
GateReads ==
  /\ mode # "single" /\ gate = NoState /\ Undisturbed
  /\ gate' = exp /\ disturbed' = disturbed + 1
  /\ UNCHANGED <<expConfig, world, exp, wake, leases, expired, slips, undone>>

GateWrites ==
  /\ gate # NoState
  /\ \E state \in {"TRAINING", "LAUNCH_FAILED"} : Save([gate EXCEPT !.state = state])
  /\ gate' = NoState
  /\ undone' = undone + IF gate = exp THEN 0 ELSE 1
  /\ UNCHANGED <<expConfig, world, wake, leases, expired, disturbed, slips>>

\* The result jobs of a DAG, or the postprocess command, tell how it ended.
MayMark ==
  /\ "markers" \in known
  /\ IF mode = "dag" THEN \E j \in Jobs \ Required : n[j] > 0
     ELSE \E l \in DOMAIN leases : leases[l].kind = "post" /\ leases[l].alive
MarkerWritten ==
  /\ MayMark
  /\ \/ complete = "none" /\ complete' \in Final /\ UNCHANGED failure
     \/ ~failure /\ failure' = TRUE /\ UNCHANGED complete
  /\ UNCHANGED <<expConfig, vars, class, training, exp, wake, leases, expired, gate, counters>>

CommandEnds ==
  /\ \E l \in DOMAIN leases : leases[l].alive /\ leases' = [leases EXCEPT ![l].alive = FALSE]
  /\ UNCHANGED <<expConfig, world, exp, wake, expired, gate, counters>>

LeaseExpires ==
  /\ expired < Len(leases) /\ expired' = expired + 1
  /\ UNCHANGED <<expConfig, world, exp, wake, leases, gate, counters>>

TrainingEnds ==
  /\ mode = "single" /\ training = "alive"
  /\ training' \in {"complete", "failed"}
  /\ UNCHANGED <<expConfig, vars, class, complete, failure, exp, wake, leases, expired, gate, counters>>

\* A saved tick of the orchestrator, that changes one job; an attempt that
\* failed has its class.  With an external owner no other job is looked at.
Campaign ==
  /\ mode # "single"
  /\ \E j \in IF mode = "dag" THEN Jobs ELSE Required \cup results :
     \E status \in Status, c \in Recorded[j] :
       /\ st' = [st EXCEPT ![j] = status]
       /\ n' = [n EXCEPT ![j] = IF status = "running" THEN @ + 1 ELSE @]
       /\ class' = [class EXCEPT ![j] = IF status \in {"failed", "orphaned"} THEN c ELSE @]
       /\ Next /\ ~Keeps(j)
  /\ UNCHANGED <<expConfig, training, complete, failure, exp, wake, leases, expired, gate, counters>>

ExpNext ==
  \/ Reconcile \/ Crash \/ GateReads \/ GateWrites \/ MarkerWritten
  \/ CommandEnds \/ LeaseExpires \/ TrainingEnds \/ Campaign

ExpSpec == ExpInit /\ [][ExpNext]_expVars

\* Wakes are scheduled for ever and go on, commands end and leases run out.
ExpFairSpec ==
  /\ ExpSpec
  /\ WF_expVars(Reconcile) /\ WF_expVars(GateWrites)
  /\ WF_expVars(CommandEnds) /\ WF_expVars(LeaseExpires)

-----------------------------------------------------------------------------
(* Properties                                                              *)

Leases == 0..Len(leases)
State == [state : Closed \cup {"none", "LAUNCHING", "LAUNCH_FAILED", "TRAINING", "TRAINING_FAILED",
                              "TRAINING_SUCCESS", "EVALUATING"},
          lease : Leases, attempts : Nat, rlease : Leases, rattempts : Nat]

\* Each variable has its shape, and every lease that a copy names was taken.
ExpTypeOK ==
  /\ TypeOK /\ class \in [Jobs -> Classes]
  /\ mode \in Modes /\ results \in {{}, ResultJobs} /\ known \subseteq Parts
  /\ training \in {"alive", "complete", "failed"}
  /\ complete \in Final \cup {"none"} /\ failure \in BOOLEAN
  /\ leases \in Seq([kind : {"post", "recovery", "none"}, alive : BOOLEAN])
  /\ exp \in State /\ mem \in State /\ gate \in State /\ exp.state # "none"
  /\ rpc \in {"free", "decide", "markers", "dagMarkers", "watch", "claim", "record"}
  /\ expired \in Leases
  /\ disturbed \in Nat /\ slips \in Nat /\ undone \in Nat

Started(kind) == {l \in DOMAIN leases : leases[l].kind = kind}
Running(kind) == {l \in Started(kind) : leases[l].alive}

\* A command is started beside an older one of its kind only when the lease of
\* the older one ran out, and beside a living postprocess of a single process
\* never (active_lease, process_alive in EVALUATING).
OneOwner ==
  slips = 0 /\ undone = 0 =>
    \A kind \in {"post", "recovery"} : \A k, l \in Running(kind) :
      k < l => k <= expired /\ (kind = "post" => mode # "single")

\* Over all wakes, deaths and expired leases, recoveries stay within their
\* limit, and so do the postprocesses of a single process: each death in the
\* window before the attempt is recorded costs one more, and each write of the
\* gate that undoes an update at most the whole limit once more
\* (delegate_recovery, --max-postprocess-attempts).
StartsBounded ==
  /\ Cardinality(Started("recovery")) <= MaxRecovery * (undone + 1) + slips
  /\ mode = "single" => Cardinality(Started("post")) <= MaxPost + slips

\* An experiment is final only with its completion marker, all of its required
\* jobs completed and, if its DAG owns the results, the result jobs as well;
\* whatever the gate wrote in between (completed_final_state and its callers).
FinalIsBacked ==
  exp.state \in Final =>
    /\ exp.state = complete
    /\ mode = "single" => training = "complete"
    /\ mode # "single" => \A j \in Required : st[j] = "completed"
    /\ mode = "dag" => \A j \in results : st[j] = "completed"

\* A recovery command is never run on an experiment with a failure that an
\* attempt recorded as anything else than technical and retryable
\* (campaign_failure_class).
ScienceIsNotRepaired ==
  Started("recovery") # {} =>
    \A j \in Required : st[j] \in {"failed", "orphaned"} => class[j] = "retryable"

\* Once its training has failed, or a single process is over, an experiment is
\* in the end left in a state that no wake changes any more.
Over == IF mode = "single" THEN training # "alive" ELSE ~Active /\ TrainingFailed
Settled == exp.state \in Closed \/ (mode = "single" /\ exp.state = "TRAINING_FAILED")
Settles == Over ~> []Settled
=============================================================================
