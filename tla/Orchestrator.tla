---------------------------- MODULE Orchestrator ----------------------------
(***************************************************************************)
(* The manifest-driven campaign controller of                              *)
(* .agents/skills/multi-gpu-experiment-orchestrator/scripts/orchestrate.py *)
(*                                                                         *)
(* A `run` invocation starts a controller process.  A controller repeats a *)
(* tick under the campaign's state lock: read the state file, reconcile    *)
(* the running jobs against the files their workers leave, plan, launch    *)
(* workers on reserved GPUs, save.  Workers are processes of their own     *)
(* that outlive the controller.  A tick is split where another process can *)
(* act between two reads of what one worker writes, and between launches.  *)
(* Left out: the content of markers (a marker is valid or absent), events, *)
(* timing, the legacy marker paths.                                        *)
(***************************************************************************)
EXTENDS Naturals, FiniteSets

CONSTANTS
  Campaigns,      \* campaigns (one manifest and one state file each)
  Jobs,           \* all jobs of all campaigns
  Gpus,           \* the (host, gpu index) slots
  Runs,           \* the `run` invocations; each starts at most one controller
  None, Cpu,      \* no process / the slot of a job with gpu_count = 0
  CampaignOf,     \* the campaign of each job
  RunCampaign,    \* the campaign of each run invocation
  Deps,           \* the dependencies of each job
  Position,       \* position of a job in manifest["jobs"]
  LaunchRank,     \* rank of a job by (-estimated_work, job_id)
  Fits,           \* GPUs a job's host, host_constraints and gpu allow
  Cost,           \* rank of a GPU for a job by (score, host, index)
  MaxAttempts,    \* retry_policy.max_attempts
  CpuJobs,        \* jobs with gpu_count = 0
  External,       \* jobs with executor.type = external_probe
  BoundedProbe,   \* external jobs that declare probe_timeout_seconds
  Scoped,         \* jobs that declare attempt_scoped_output
  Failures,       \* bound: the ways a scientific process may fail
  MaxSpawns,      \* bound: worker processes ever started
  MaxStops,       \* bound: controllers that stop before their campaign ends
  MaxKills        \* bound: workers that die without a word

Pids == 1..MaxSpawns
NoPid == 0
Slots == Gpus \cup {Cpu}
JobsOf(c) == {j \in Jobs : CampaignOf[j] = c}

ASSUME NamesAssumption ==
  /\ None \notin Runs /\ Cpu \notin Gpus /\ None \notin Slots
  /\ Failures \subseteq {"technical", "fatal", "failed"}
  /\ MaxSpawns \in Nat /\ MaxStops \in Nat /\ MaxKills \in Nat
ASSUME ManifestAssumption ==
  /\ CampaignOf \in [Jobs -> Campaigns]
  /\ RunCampaign \in [Runs -> Campaigns]
  /\ Deps \in [Jobs -> SUBSET Jobs]
  /\ \A j \in Jobs : \A d \in Deps[j] : CampaignOf[d] = CampaignOf[j]
  /\ \A S \in SUBSET Jobs : S # {} => \E j \in S : Deps[j] \cap S = {}
  /\ Position \in [Jobs -> Nat] /\ LaunchRank \in [Jobs -> Nat]
  /\ \A j, k \in Jobs : j # k => /\ Position[j] # Position[k]
                                 /\ LaunchRank[j] # LaunchRank[k]
  /\ Fits \in [Jobs -> SUBSET Gpus]
  /\ Cost \in [Jobs -> [Gpus -> Nat]]
  /\ MaxAttempts \in [Jobs -> Nat \ {0}]
  /\ CpuJobs \subseteq Jobs /\ External \subseteq Jobs /\ Scoped \subseteq Jobs
  /\ BoundedProbe \subseteq External

Terminal == {"completed", "failed", "blocked", "orphaned"}
Broken == {"failed", "blocked", "orphaned"}
Status == {"pending", "running"} \cup Terminal

\* A job's entry in the state file, its last attempt included.
Record == [status: Status, attempts: Nat, pid: Pids \cup {NoPid}, confirmed: BOOLEAN]
NewRecord == [status |-> "pending", attempts |-> 0, pid |-> NoPid, confirmed |-> FALSE]

Becomes(rec, status) == [rec EXCEPT !.status = status]
Confirmed(rec, seen) == [rec EXCEPT !.confirmed = @ \/ seen]

WorkerPc == {"start", "wait", "confirm", "probe", "promote", "mark", "okreport", "failreport"}
\* What the attempt's own scientific process (local child or remote run) did.
ExecState == {"none", "starting", "live", "done", "technical", "fatal", "failed"}
\* What start_worker fixes for a worker process.
Launched == [job: Jobs, attempt: Nat, slot: Slots, parent: Runs]

VARIABLES
  \* the controller's files
  disk,        \* state["jobs"] as saved
  ctrlPid,     \* state["controller_pid"] of each campaign
  \* the locks
  holder,      \* who holds the state lock of a campaign
  resv,        \* who holds the reservation flock of a GPU
  \* the run invocations and their controllers
  launcher, ctl,
  \* the tick in progress in a campaign
  work,        \* state["jobs"] in memory; equals disk outside a tick
  todo,        \* running jobs reconcile_running has still to visit
  read,        \* which of its reads reconcile_running does next
  queue,       \* ready jobs still to place
  taken,       \* `occupied` of controller_tick
  \* the worker processes
  spawned, info, pc, exec,
  \* the files of the workers
  marker,      \* a valid completion marker exists
  output,      \* the canonical output directory exists
  failure,     \* the technical failure marker
  result,      \* attempt-n.result.json (there are at most MaxSpawns attempts)
  hostOk,      \* the slot the host confirmation marker names
  \* bounds
  stops, kills

ctlVars == <<launcher, ctl, ctrlPid>>
tickVars == <<work, todo, read, queue, taken>>
procVars == <<spawned, info, pc, exec>>
fileVars == <<marker, output, failure, result, hostOk>>
boundVars == <<stops, kills>>
vars == <<disk, ctlVars, holder, resv, tickVars, procVars, fileVars, boundVars>>

Init ==
  /\ disk = [j \in Jobs |-> NewRecord]
  /\ ctrlPid = [c \in Campaigns |-> None]
  /\ holder = [c \in Campaigns |-> None]
  /\ resv = [g \in Gpus |-> None]
  /\ launcher = [r \in Runs |-> "new"]
  /\ ctl = [r \in Runs |-> "unborn"]
  /\ work = disk
  /\ todo = [c \in Campaigns |-> {}]
  /\ read = [c \in Campaigns |-> "marker"]
  /\ queue = [c \in Campaigns |-> {}]
  /\ taken = [c \in Campaigns |-> {}]
  /\ spawned = 0
  /\ info = [p \in Pids |-> None]
  /\ pc = [p \in Pids |-> "unborn"]
  /\ exec = [p \in Pids |-> "none"]
  /\ marker = [j \in Jobs |-> FALSE]
  /\ output = [j \in Jobs |-> FALSE]
  /\ failure = [j \in Jobs |-> "none"]
  /\ result = [j \in Jobs |-> [n \in Pids |-> "none"]]
  /\ hostOk = [j \in Jobs |-> None]
  /\ stops = 0
  /\ kills = 0

-----------------------------------------------------------------------------
(* Processes and locks                                                     *)

CtlAlive(r) == ctl[r] \notin {"unborn", "dead"}
\* os.kill(pid, 0) also succeeds for a zombie that nobody has waited for.
PidAlive(p) == p # NoPid /\ pc[p] \notin {"unborn", "gone"}
WorkerRuns(p) == pc[p] \in WorkerPc

\* An exited worker stays a zombie of the controller that started it until
\* that controller starts another process or ends.
Exited(p) == IF CtlAlive(info[p].parent) THEN "zombie" ELSE "gone"
Reap(r) == [p \in Pids |-> IF pc[p] = "zombie" /\ info[p].parent = r THEN "gone" ELSE pc[p]]

\* release_slot: a controller can free only the handles it holds.
KeepSlot(r, s) == resv  \* Mutant
ReleaseSlot(r, s) == [g \in Gpus |-> IF g = s /\ resv[g] = r THEN None ELSE resv[g]]
ReleaseAll(r) == [g \in Gpus |-> IF resv[g] = r THEN None ELSE resv[g]]

LockFree(c) == holder[c] = None

AllTerminal(st, c) == \A j \in JobsOf(c) : st[j].status \in Terminal

-----------------------------------------------------------------------------
(* run_controller: the launching process                                   *)

\* First locked section of a detached `run`: nothing to do when the campaign
\* has ended or the recorded controller is alive.
RunCheck(r) ==
  LET c == RunCampaign[r] IN
  /\ launcher[r] = "new" /\ LockFree(c)
  /\ launcher' = [launcher EXCEPT ![r] =
       IF AllTerminal(disk, c) \/ (ctrlPid[c] # None /\ CtlAlive(ctrlPid[c]))
       THEN "end" ELSE "spawn"]
  /\ UNCHANGED <<ctl, ctrlPid, disk, holder, resv, tickVars, procVars, fileVars, boundVars>>

RunSpawn(r) ==
  /\ launcher[r] = "spawn"
  /\ launcher' = [launcher EXCEPT ![r] = "record"]
  /\ ctl' = [ctl EXCEPT ![r] = "sleep"]
  /\ UNCHANGED <<ctrlPid, disk, holder, resv, tickVars, procVars, fileVars, boundVars>>

\* Second locked section: store controller_pid.
RunRecord(r) ==
  LET c == RunCampaign[r] IN
  /\ launcher[r] = "record" /\ LockFree(c)
  /\ launcher' = [launcher EXCEPT ![r] = "end"]
  /\ ctrlPid' = [ctrlPid EXCEPT ![c] = r]
  /\ UNCHANGED <<ctl, disk, holder, resv, tickVars, procVars, fileVars, boundVars>>

\* `run --foreground` loops at once and records no pid.
RunForeground(r) ==
  /\ launcher[r] = "new"
  /\ launcher' = [launcher EXCEPT ![r] = "end"]
  /\ ctl' = [ctl EXCEPT ![r] = "sleep"]
  /\ UNCHANGED <<ctrlPid, disk, holder, resv, tickVars, procVars, fileVars, boundVars>>

-----------------------------------------------------------------------------
(* controller_tick                                                         *)

\* The jobs reconcile_running visits.  Mutant: all that were ever started.
StartedEver(st, c) == {j \in JobsOf(c) : st[j].pid # NoPid}
InFlight(st, c) == {j \in JobsOf(c) : st[j].status = "running"}

TickBegin(r) ==
  LET c == RunCampaign[r] IN
  /\ ctl[r] = "sleep" /\ LockFree(c)
  /\ holder' = [holder EXCEPT ![c] = r]
  /\ ctl' = [ctl EXCEPT ![r] = "reconcile"]
  /\ todo' = [todo EXCEPT ![c] = InFlight(disk, c)]
  /\ read' = [read EXCEPT ![c] = "marker"]
  /\ UNCHANGED <<launcher, ctrlPid, disk, resv, work, queue, taken, procVars, fileVars, boundVars>>

\* reconcile_running is about to do its read k for job j.
Visiting(r, j, k) ==
  LET c == RunCampaign[r] IN
  /\ ctl[r] = "reconcile" /\ holder[c] = r
  /\ j \in todo[c] /\ read[c] = k
  /\ \A i \in todo[c] : Position[j] <= Position[i]

\* The visit of j ends with this record, freeing its GPU or not.
Settle(r, j, rec, release) ==
  LET c == RunCampaign[r] IN
  /\ work' = [work EXCEPT ![j] = rec]
  /\ resv' = IF release THEN ReleaseSlot(r, info[work[j].pid].slot) ELSE resv
  /\ todo' = [todo EXCEPT ![c] = @ \ {j}]
  /\ read' = [read EXCEPT ![c] = "marker"]

\* The visit goes on with read k.
Proceed(r, k) ==
  /\ read' = [read EXCEPT ![RunCampaign[r]] = k]
  /\ UNCHANGED <<todo, resv>>

\* A host confirmation marker for the same slot confirms the current attempt;
\* then a valid completion marker completes the job.
ReadMarker(r, j) ==
  LET rec == Confirmed(work[j], j \in External /\ hostOk[j] = info[work[j].pid].slot) IN
  /\ Visiting(r, j, "marker")
  /\ \/ /\ marker[j]
        /\ Settle(r, j, Becomes(rec, "completed"), TRUE)
     \/ /\ ~marker[j]
        /\ work' = [work EXCEPT ![j] = rec]
        /\ Proceed(r, "result")
  /\ UNCHANGED <<ctlVars, disk, holder, queue, taken, procVars, fileVars, boundVars>>

\* Mutants: the failure marker is believed before the worker has ended; a
\* failure report is overlooked.
ResultOrMarker(j) ==
  IF failure[j] = "retryable" THEN "failed" ELSE result[j][work[j].attempts]
ResultIfCompleted(j) ==
  IF result[j][work[j].attempts] = "failed" THEN "none" ELSE result[j][work[j].attempts]
ResultOf(j) == result[j][work[j].attempts]

\* Mutant: one attempt too many.
CanRetryOnceMore(j) == failure[j] = "retryable" /\ work[j].attempts <= MaxAttempts[j]
CanRetry(j) == failure[j] = "retryable" /\ work[j].attempts < MaxAttempts[j]

\* The result file of the current attempt: a success without a marker is
\* marker_invalid, a retryable technical failure goes back to pending and
\* keeps its reservation, anything else fails the job.
ReadResult(r, j) ==
  /\ Visiting(r, j, "result")
  /\ \/ /\ ResultOf(j) = "none"
        /\ Proceed(r, "pid") /\ UNCHANGED work
     \/ /\ ResultOf(j) = "failed" /\ CanRetry(j)
        /\ Settle(r, j, Becomes(work[j], "pending"), FALSE)
     \/ /\ ResultOf(j) = "completed" \/ (ResultOf(j) = "failed" /\ ~CanRetry(j))
        /\ Settle(r, j, Becomes(work[j], "failed"), TRUE)
  /\ UNCHANGED <<ctlVars, disk, holder, queue, taken, procVars, fileVars, boundVars>>

CheckPid(r, j) ==
  /\ Visiting(r, j, "pid")
  /\ IF PidAlive(work[j].pid)
     THEN Settle(r, j, work[j], FALSE)
     ELSE Settle(r, j, Becomes(work[j], "orphaned"), TRUE)
  /\ UNCHANGED <<ctlVars, disk, holder, queue, taken, procVars, fileVars, boundVars>>

\* ready_jobs visits the manifest in order, so a job is blocked in this pass
\* by a dependency that is broken or that the pass has blocked before it.
BlockedIn(st, c) ==
  LET pending == {j \in JobsOf(c) : st[j].status = "pending"}
      Closed(S) == \A j \in pending :
        (\E d \in Deps[j] : \/ st[d].status \in Broken
                            \/ d \in S /\ Position[d] < Position[j]) => j \in S
  IN {j \in pending : \A S \in SUBSET pending : Closed(S) => j \in S}

\* Mutant: a child is ready when its parents are not known to be broken.
ReadyUnlessBroken(st, c) ==
  {j \in JobsOf(c) : st[j].status = "pending" /\ \A d \in Deps[j] : st[d].status \notin Broken}
ReadyIn(st, c) ==
  {j \in JobsOf(c) : st[j].status = "pending" /\ \A d \in Deps[j] : st[d].status = "completed"}

\* The pending jobs that have a completion marker are recovered, those with a
\* broken dependency are blocked, and the ready ones are queued.
Planned(c) ==
  LET recovered == [j \in Jobs |->
        IF CampaignOf[j] = c /\ work[j].status = "pending" /\ marker[j]
        THEN Becomes(work[j], "completed") ELSE work[j]]
  IN [j \in Jobs |-> IF j \in BlockedIn(recovered, c)
                     THEN Becomes(recovered[j], "blocked") ELSE recovered[j]]

\* Mutants: `occupied` starts empty; it also counts jobs that have ended.
OccupiedByNobody(st, c) == {}
OccupiedEver(st, c) == {info[st[j].pid].slot : j \in {i \in JobsOf(c) : st[i].pid # NoPid}}
Occupied(st, c) == {info[st[j].pid].slot : j \in {i \in JobsOf(c) : st[i].status = "running"}}

Plan(r) ==
  LET c == RunCampaign[r] IN
  /\ ctl[r] = "reconcile" /\ holder[c] = r /\ todo[c] = {}
  /\ work' = Planned(c)
  /\ queue' = [queue EXCEPT ![c] = ReadyIn(work', c)]
  /\ taken' = [taken EXCEPT ![c] = Occupied(work', c)]
  /\ ctl' = [ctl EXCEPT ![r] = "launch"]
  /\ UNCHANGED <<launcher, ctrlPid, disk, holder, resv, todo, read, procVars, fileVars, boundVars>>

\* controller_tick is about to place job j.
Placing(r, j) ==
  LET c == RunCampaign[r] IN
  /\ ctl[r] = "launch" /\ holder[c] = r
  /\ j \in queue[c]
  /\ \A i \in queue[c] : LaunchRank[j] <= LaunchRank[i]

\* assign_slot: the cheapest admissible slot that this tick has not ruled out.
BestSlots(j, occupied) ==
  IF j \in CpuJobs THEN {Cpu}
  ELSE {g \in Fits[j] \ occupied : \A h \in Fits[j] \ occupied : Cost[j][g] <= Cost[j][h]}

\* claim_slot
ClaimIgnored(r, s) == TRUE  \* Mutant: the reservation is not respected
Claimable(r, s) == \A g \in Gpus : g = s => resv[g] \in {None, r}

Skip(r, j) ==
  LET c == RunCampaign[r] IN
  /\ Placing(r, j)
  /\ BestSlots(j, taken[c]) = {}
  /\ queue' = [queue EXCEPT ![c] = @ \ {j}]
  /\ UNCHANGED <<ctlVars, disk, holder, resv, work, todo, read, taken, procVars, fileVars, boundVars>>

ClaimFails(r, j) ==
  LET c == RunCampaign[r] IN
  /\ Placing(r, j)
  /\ \E s \in BestSlots(j, taken[c]) :
       /\ ~Claimable(r, s)
       /\ taken' = [taken EXCEPT ![c] = @ \cup {s}]
  /\ queue' = [queue EXCEPT ![c] = @ \ {j}]
  /\ UNCHANGED <<ctlVars, disk, holder, resv, work, todo, read, procVars, fileVars, boundVars>>

NextAttempt(j) == work[j].attempts + 1

\* start_worker drops the failure marker of the last attempt (not its result
\* file), and starts a process; starting one reaps the controller's zombies.
Spawn(r, j) ==
  LET c == RunCampaign[r]
      p == spawned + 1
      n == NextAttempt(j)
  IN
  /\ Placing(r, j) /\ spawned < MaxSpawns
  /\ \E s \in BestSlots(j, taken[c]) :
       /\ Claimable(r, s)
       /\ resv' = [g \in Gpus |-> IF g = s THEN r ELSE resv[g]]
       /\ taken' = [taken EXCEPT ![c] = @ \cup {s}]
       /\ info' = [info EXCEPT ![p] = [job |-> j, attempt |-> n, slot |-> s, parent |-> r]]
  /\ failure' = [failure EXCEPT ![j] = "none"]
  /\ spawned' = p
  /\ pc' = [Reap(r) EXCEPT ![p] = "start"]
  /\ work' = [work EXCEPT ![j] =
       [status |-> "running", attempts |-> n, pid |-> p, confirmed |-> FALSE]]
  /\ queue' = [queue EXCEPT ![c] = @ \ {j}]
  /\ UNCHANGED <<ctlVars, disk, holder, todo, read, exec, marker, output, result, hostOk, boundVars>>

\* save_state and unlock; a controller whose campaign has ended exits and
\* releases its reservations.
Save(r) ==
  LET c == RunCampaign[r]
      done == AllTerminal(work, c)
  IN
  /\ ctl[r] = "launch" /\ holder[c] = r /\ queue[c] = {}
  /\ disk' = [j \in Jobs |-> IF CampaignOf[j] = c THEN work[j] ELSE disk[j]]
  /\ holder' = [holder EXCEPT ![c] = None]
  /\ taken' = [taken EXCEPT ![c] = {}]
  /\ ctl' = [ctl EXCEPT ![r] = IF done THEN "dead" ELSE "sleep"]
  /\ resv' = IF done THEN ReleaseAll(r) ELSE resv
  /\ pc' = IF done THEN Reap(r) ELSE pc
  /\ UNCHANGED <<launcher, ctrlPid, work, todo, read, queue, spawned, info, exec, fileVars, boundVars>>

\* A controller stops before its campaign has ended: --once, a signal, a
\* crash.  The kernel drops its locks; what it had in memory is gone.
Stop(r) ==
  LET c == RunCampaign[r] IN
  /\ CtlAlive(r) /\ stops < MaxStops
  /\ stops' = stops + 1
  /\ ctl' = [ctl EXCEPT ![r] = "dead"]
  /\ resv' = ReleaseAll(r)
  /\ pc' = Reap(r)
  /\ IF holder[c] = r
     THEN /\ holder' = [holder EXCEPT ![c] = None]
          /\ work' = [j \in Jobs |-> IF CampaignOf[j] = c THEN disk[j] ELSE work[j]]
          /\ todo' = [todo EXCEPT ![c] = {}]
          /\ queue' = [queue EXCEPT ![c] = {}]
          /\ taken' = [taken EXCEPT ![c] = {}]
     ELSE UNCHANGED <<holder, work, todo, queue, taken>>
  /\ UNCHANGED <<launcher, ctrlPid, disk, read, spawned, info, exec, fileVars, kills>>

-----------------------------------------------------------------------------
(* worker and the scientific process it starts                             *)

JobOf(p) == info[p].job
AfterSuccess(j) == IF j \in Scoped THEN "promote" ELSE "mark"
Goto(p, l) == pc' = [pc EXCEPT ![p] = l]

\* Mutant: the marker holds the failure class instead of the verdict.
EmitClass(j, outcome) == failure' = [failure EXCEPT ![j] = outcome]
\* The failure marker a scientific process leaves for an outcome.
Emit(j, outcome) ==
  failure' = [failure EXCEPT ![j] = CASE outcome = "technical" -> "retryable"
                                      [] outcome = "fatal" -> "fatal"
                                      [] OTHER -> @]
\* The retryable marker the worker itself writes.
WorkerFails(p) == /\ failure' = [failure EXCEPT ![JobOf(p)] = "retryable"]
                  /\ Goto(p, "failreport")

\* The command starts.  An external launcher only hands the work over, and
\* may itself fail.
Start(p) ==
  /\ pc[p] = "start"
  /\ \/ /\ JobOf(p) \notin External
        /\ exec' = [exec EXCEPT ![p] = "live"]
        /\ Goto(p, "wait") /\ UNCHANGED failure
     \/ /\ JobOf(p) \in External
        /\ exec' = [exec EXCEPT ![p] = "starting"]
        /\ Goto(p, "confirm") /\ UNCHANGED failure
     \/ /\ JobOf(p) \in External
        /\ \E outcome \in Failures :
             /\ exec' = [exec EXCEPT ![p] = outcome]
             /\ Emit(JobOf(p), outcome)
        /\ Goto(p, "failreport")
  /\ UNCHANGED <<ctlVars, disk, holder, resv, tickVars, spawned, info, marker, output,
                 result, hostOk, boundVars>>

\* A remote process comes up, at any time after the hand-over.
RemoteStart(p) ==
  /\ exec[p] = "starting"
  /\ exec' = [exec EXCEPT ![p] = "live"]
  /\ UNCHANGED <<ctlVars, disk, holder, resv, tickVars, spawned, info, pc, fileVars, boundVars>>

\* A scientific process ends, whether or not its worker still waits for it.
Finish(p) ==
  /\ exec[p] = "live"
  /\ \E outcome \in {"done"} \cup Failures :
       /\ exec' = [exec EXCEPT ![p] = outcome]
       /\ Emit(JobOf(p), outcome)
       /\ pc' = [pc EXCEPT ![p] = IF @ # "wait" THEN @
                                  ELSE IF outcome = "done" THEN AfterSuccess(JobOf(p))
                                  ELSE "failreport"]
  /\ UNCHANGED <<ctlVars, disk, holder, resv, tickVars, spawned, info, marker, output,
                 result, hostOk, boundVars>>

\* The probes of an external job may find any remote run of the job: what they
\* report is compared with the job and the slot, never with the attempt.
RemoteRuns(p) == {q \in 1..spawned : info[q].job = info[p].job}

\* wait_for_host_confirmation: proof of a live remote process on the slot,
\* or the deadline.
Confirm(p) ==
  /\ pc[p] = "confirm"
  /\ \E q \in RemoteRuns(p) : exec[q] = "live" /\ info[q].slot = info[p].slot
  /\ hostOk' = [hostOk EXCEPT ![JobOf(p)] = info[p].slot]
  /\ Goto(p, "probe")
  /\ UNCHANGED <<ctlVars, disk, holder, resv, tickVars, spawned, info, exec, marker, output,
                 failure, result, boundVars>>

ConfirmTimeout(p) ==
  /\ pc[p] = "confirm"
  /\ WorkerFails(p)
  /\ UNCHANGED <<ctlVars, disk, holder, resv, tickVars, spawned, info, exec, marker, output,
                 result, hostOk, boundVars>>

ProbeSucceeds(p) ==
  /\ pc[p] = "probe"
  /\ \E q \in RemoteRuns(p) : exec[q] = "done"
  /\ Goto(p, AfterSuccess(JobOf(p)))
  /\ UNCHANGED <<ctlVars, disk, holder, resv, tickVars, spawned, info, exec, fileVars, boundVars>>

ProbeTimeout(p) ==
  /\ pc[p] = "probe" /\ JobOf(p) \in BoundedProbe
  /\ Goto(p, "failreport")
  /\ UNCHANGED <<ctlVars, disk, holder, resv, tickVars, spawned, info, exec, fileVars, boundVars>>

\* promote_attempt_output: the canonical path is never overwritten, and the
\* directory of the attempt, which its process creates once it runs, must exist.
SameAttempt(p) == {q \in RemoteRuns(p) : info[q].attempt = info[p].attempt}
Promote(p) ==
  /\ pc[p] = "promote"
  /\ \/ /\ ~output[JobOf(p)] /\ \E q \in SameAttempt(p) : exec[q] \notin {"none", "starting"}
        /\ output' = [output EXCEPT ![JobOf(p)] = TRUE]
        /\ Goto(p, "mark") /\ UNCHANGED failure
     \/ /\ output[JobOf(p)] \/ \A q \in SameAttempt(p) : exec[q] # "done"
        /\ WorkerFails(p) /\ UNCHANGED output
  /\ UNCHANGED <<ctlVars, disk, holder, resv, tickVars, spawned, info, exec, marker,
                 result, hostOk, boundVars>>

Mark(p) ==
  /\ pc[p] = "mark"
  /\ marker' = [marker EXCEPT ![JobOf(p)] = TRUE]
  /\ Goto(p, "okreport")
  /\ UNCHANGED <<ctlVars, disk, holder, resv, tickVars, spawned, info, exec, output,
                 failure, result, hostOk, boundVars>>

\* The result file, then the end of the worker.
Report(p) ==
  /\ pc[p] \in {"okreport", "failreport"}
  /\ result' = [result EXCEPT ![JobOf(p)][info[p].attempt] =
       IF pc[p] = "okreport" THEN "completed" ELSE "failed"]
  /\ Goto(p, Exited(p))
  /\ UNCHANGED <<ctlVars, disk, holder, resv, tickVars, spawned, info, exec, marker, output,
                 failure, hostOk, boundVars>>

\* The worker is killed; the process it started is not.
Kill(p) ==
  /\ WorkerRuns(p) /\ kills < MaxKills
  /\ kills' = kills + 1
  /\ Goto(p, Exited(p))
  /\ UNCHANGED <<ctlVars, disk, holder, resv, tickVars, spawned, info, exec, fileVars, stops>>

-----------------------------------------------------------------------------
\* Every controller is gone, and no process is left to act but workers that
\* repeat a probe without a deadline.
AtRest ==
  /\ \A r \in Runs : launcher[r] = "end" /\ ~CtlAlive(r)
  /\ \A p \in Pids : pc[p] \in WorkerPc => pc[p] = "probe" /\ JobOf(p) \notin BoundedProbe
  /\ \A p \in Pids : exec[p] \notin {"starting", "live"}

Rest == AtRest /\ UNCHANGED vars

LauncherStep(r) == RunCheck(r) \/ RunSpawn(r) \/ RunRecord(r)
TickStep(r) ==
  \/ TickBegin(r) \/ Plan(r) \/ Save(r)
  \/ \E j \in Jobs : \/ ReadMarker(r, j) \/ ReadResult(r, j) \/ CheckPid(r, j)
                     \/ Skip(r, j) \/ ClaimFails(r, j) \/ Spawn(r, j)
WorkerStep(p) ==
  \/ Start(p) \/ RemoteStart(p) \/ Finish(p) \/ Confirm(p) \/ ConfirmTimeout(p)
  \/ ProbeSucceeds(p) \/ ProbeTimeout(p) \/ Promote(p) \/ Mark(p) \/ Report(p)

Next ==
  \/ \E r \in Runs : LauncherStep(r) \/ RunForeground(r) \/ TickStep(r) \/ Stop(r)
  \/ \E p \in Pids : WorkerStep(p) \/ Kill(p)
  \/ Rest

Spec == Init /\ [][Next]_vars

\* A controller that runs keeps polling; a worker keeps working, and what it
\* waits for ends or times out.  Nobody has to invoke `run`, and nothing has to stop or die.
Fairness ==
  /\ \A r \in Runs : WF_vars(RunSpawn(r)) /\ WF_vars(RunRecord(r)) /\ WF_vars(TickStep(r))
  /\ \A p \in Pids : WF_vars(WorkerStep(p))

FairSpec == Spec /\ Fairness

-----------------------------------------------------------------------------
(* Properties                                                              *)

\* Every variable has the shape the code gives it.
TypeOK ==
  /\ disk \in [Jobs -> Record] /\ work \in [Jobs -> Record]
  /\ ctrlPid \in [Campaigns -> Runs \cup {None}]
  /\ holder \in [Campaigns -> Runs \cup {None}]
  /\ resv \in [Gpus -> Runs \cup {None}]
  /\ launcher \in [Runs -> {"new", "spawn", "record", "end"}]
  /\ ctl \in [Runs -> {"unborn", "sleep", "reconcile", "launch", "dead"}]
  /\ todo \in [Campaigns -> SUBSET Jobs]
  /\ read \in [Campaigns -> {"marker", "result", "pid"}]
  /\ queue \in [Campaigns -> SUBSET Jobs]
  /\ taken \in [Campaigns -> SUBSET Slots]
  /\ spawned \in 0..MaxSpawns
  /\ info \in [Pids -> Launched \cup {None}]
  /\ pc \in [Pids -> WorkerPc \cup {"unborn", "zombie", "gone"}]
  /\ exec \in [Pids -> ExecState \cup {"none"}]
  /\ marker \in [Jobs -> BOOLEAN] /\ output \in [Jobs -> BOOLEAN]
  /\ failure \in [Jobs -> {"none", "retryable", "fatal"}]
  /\ result \in [Jobs -> [Pids -> {"none", "completed", "failed"}]]
  /\ hostOk \in [Jobs -> Slots \cup {None}]
  /\ stops \in 0..MaxStops /\ kills \in 0..MaxKills

\* The job's current attempt, as the controller's bookkeeping has it.
Running(j) == work[j].status = "running"
SlotOf(j) == info[work[j].pid].slot
ParentOf(j) == info[work[j].pid].parent

\* Two running jobs never have the same GPU if they are of one campaign
\* (`occupied`, also when they were started by controllers that are gone), or
\* if the controllers that started them are alive (flock), whoever else
\* stopped, was restarted or lost its state.
TrackedGpuExclusive ==
  \A i, j \in Jobs :
    /\ i # j /\ Running(i) /\ Running(j) /\ SlotOf(i) # Cpu
    /\ \/ CampaignOf[i] = CampaignOf[j]
       \/ CtlAlive(ParentOf(i)) /\ CtlAlive(ParentOf(j))
    => SlotOf(i) # SlotOf(j)

\* As long as no controller stops before its campaign has ended, two scientific
\* processes are never live on one GPU, whichever campaigns they belong to.
GpuExclusive ==
  stops = 0 => \A p, q \in 1..spawned :
    p # q /\ exec[p] = "live" /\ exec[q] = "live" =>
      info[p].slot # info[q].slot \/ info[p].slot = Cpu

\* A worker is started only for a job all of whose dependencies left a valid
\* completion marker.
DependenciesMarked ==
  \A p \in 1..spawned : \A d \in Deps[JobOf(p)] : marker[d]

\* A child never computes while a process of one of its parents is live.
ParentEndsFirst ==
  \A p, q \in 1..spawned :
    exec[p] = "live" /\ JobOf(q) \in Deps[JobOf(p)] => exec[q] # "live"

\* No job is started more often than its retry policy allows, plus once for
\* every controller that stopped between starting a worker and saving.
AttemptsOf(j) == {p \in 1..spawned : JobOf(p) = j}
SpawnBudget == \A j \in Jobs : Cardinality(AttemptsOf(j)) <= MaxAttempts[j] + stops

\* What the state file says of a finished job is final.
TerminalIsFinal ==
  [][\A j \in Jobs : disk[j].status \in Terminal => disk'[j].status = disk[j].status]_vars

\* A job with a valid completion marker is not recorded as failed or orphaned.
FirstCompletionWins ==
  \A j \in Jobs : marker[j] => disk[j].status \notin {"failed", "orphaned"}

\* A job that is being run is not started again.
NoDuplicateWorker ==
  \A p, q \in 1..spawned : p # q /\ WorkerRuns(p) /\ WorkerRuns(q) => JobOf(p) # JobOf(q)

\* A campaign with a controller reaches the end of all its jobs.
CampaignEnds ==
  \A c \in Campaigns :
    (\E r \in Runs : RunCampaign[r] = c /\ CtlAlive(r)) ~> AllTerminal(disk, c)

\* A tick leaves a ready job unplaced only if every GPU it may use is running
\* another job of the campaign or reserved by another controller.
WorkConserving ==
  \A r \in Runs :
    LET c == RunCampaign[r] IN
    ctl[r] = "launch" /\ queue[c] = {} =>
      \A j \in ReadyIn(work, c) : j \notin CpuJobs /\ \A g \in Fits[j] :
        resv[g] \notin {None, r} \/ \E i \in JobsOf(c) : Running(i) /\ SlotOf(i) = g

\* A controller that sleeps keeps no reservation for a job whose last allowed
\* attempt has ended (a retry may leave one behind: see the README).
NoLeakAfterLastAttempt ==
  \A r \in Runs : \A g \in Gpus :
    ctl[r] = "sleep" /\ resv[g] = r =>
      \E p \in 1..spawned :
        /\ info[p].parent = r /\ info[p].slot = g
        /\ \/ Running(JobOf(p)) /\ work[JobOf(p)].pid = p
           \/ info[p].attempt < MaxAttempts[JobOf(p)]

\* The saved state of every campaign goes through the legal moves of its jobs,
\* whatever controllers and workers crash or race.
Dag == INSTANCE CampaignDag WITH
  st <- [j \in Jobs |-> disk[j].status], n <- [j \in Jobs |-> disk[j].attempts]
ImplementsDag == Dag!Spec
=============================================================================
