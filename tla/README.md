# Verification of the ARD experiment control plane

The repository is a research platform for adversarial robust distillation. Most
of its Python is numerical (training steps, attacks, offline analyses). Its core
*system* logic is what keeps unattended GPU experiments going: processes that
share JSON files, flocks, checkpoints, Git branches and pids, and that may be
killed, raced or restarted at any point. This directory specifies that logic in
TLA+, model-checks small instances with TLC, and proves the central safety
properties for every value of the constants with TLAPS.

Line numbers refer to the sources named in `PROJECT.json` ("map"). In this file
`orchestrate.py` is
`.agents/skills/multi-gpu-experiment-orchestrator/scripts/orchestrate.py`.

## 1. Inventory

| Component | State it keeps | Operations | Interacts with | What is hard | What makes it correct |
|---|---|---|---|---|---|
| **Campaign orchestrator** `orchestrate.py` | the state file (jobs, attempts, `controller_pid`), the state lock, one reservation flock per GPU, per-job marker, failure marker, host confirmation and `attempt-n.result.json`, canonical output directory | `run` (detached, foreground, `--once`), `controller_tick` = `reconcile_running`, recovery of markers, `ready_jobs`, `assign_slot`, `claim_slot`, `start_worker`, save; `worker` = command, host confirmation, probe, promotion, marker, result | starts workers and controllers; its state file is read by the reconciler, the watch and status | several `run`s race; a controller may die inside a tick; workers outlive it; files are read at different moments; remote runs outlive their worker | GPUs are exclusive; a child starts only after valid markers of all parents; a job that has ended stays so; attempts are bounded; a campaign with a controller ends |
| **Experiment reconciler** `scripts/reconcile_experiment.py` | `experiment-state.json`, its non-blocking lock, a postprocess lease and a recovery lease | one bounded `reconcile` per wake: settle training, hand over postprocess, delegate recovery | reads the orchestrator's state file; starts the postprocess and recovery commands, which write markers; the launch gate writes the same file | a death between starting a command and saving it; leases that expire while the command lives; an unlocked second writer | one owner of the postprocess; bounded starts; final states have their evidence; findings are not "repaired" |
| **Terminal event publisher** `scripts/publish_experiment_terminal_event.py` | a results worktree (event files, commits), the remote branch, the pull request | lock, check, write event, commit, push, ensure pull request | run by the postprocess | a failure after each of the steps; several clones push to one branch | an event is published once, and a retry finishes what a failed publication began |
| **Campaign watch** `scripts/ardx/campaign_watch.py` | a cursor file, one shared by the systemd service and manual `--once` invocations; a copy in each watcher's memory | diff the campaign's state, print events, run hooks, save the cursor | reads the orchestrator's state file without its lock | a crash between hook and cursor; a lost cursor; watchers that overwrite each other's cursor | what the cursor counts was told; the end of a campaign is told; its hook comes after its jobs |
| **Production launch gate** `production-launch-gate/scripts/launch_gate.py`, `launch_ledger.py` | `resolved-manifest.json`, `freeze.json`, smoke reports, an append-only ledger, a registry of signatures | resolve, smoke (canary), freeze, revalidate, hand over, promote a signature, update `experiment-state.json` | starts the orchestrator; writes what the reconciler works on | what was validated may change before it is used; nothing locks the gate directory | nothing is launched that differs from what was resolved, smoked and frozen |
| **Trainer and checkpoints** `src/ard/engine/`, `src/ard/cli/train.py` | `last.pt`, `best.pt`, `best-ema.pt`, kept epochs, `epoch-metrics.jsonl`, `never-learned.json` | train an epoch, select, save, record, guard, evaluate, resume | sample store, tracking | a death between the files of one epoch; several resumes from several files | selection is that of one uninterrupted trajectory; an epoch is recorded once; a completed run is whole |
| **Tracking and offline sync** `src/ard/tracking/adapter.py`, `scripts/sync_wandb.py` | the run manifest (status, sync status, segments, cursor), `completion.json` | attach, log, finish, sync | trainer, W&B | a failed or repeated sync; two writers of one manifest | a run keeps its identity; what counts as synced was uploaded |
| **Verification gate and pass cache** `src/ard/testing/`, `scripts/verify.py` | `results.jsonl`, one flock per GPU | select tests from the diff, skip recorded passes, run, record | the tree on disk, Git | the tree changes while tests run; locks of several devices | a skipped test is one that passes on this tree; GPU tests do not meet |
| **Per-sample state store** `src/ard/state/sample_store.py` | committed and pending records | stage, merge at the end of an epoch, restore | trainer, checkpoints | ranks must merge the same records in the same order | exactly the samples of the epoch are merged |
| **Legacy campaign worker** `tools/internal/legacy_campaign/` | a state file with a lock, a worker per host | claim, launch, adopt, reassign, recover | local processes and remote hosts | an archive: not installed, not imported, its tests not run | one owner per job |
| **Command lines and configuration** `src/ard/cli/`, `src/ard/config/` | none | parse, validate, call the trainer | everything above | sequential | validation of fields |
| **Numerics** attacks, objectives, targets, signals, models | tensors | floating point | trainer | not concurrent | outside of what a finite model can say |
| **Data and protocols** `src/ard/data/`, `src/ard/protocols/` | dataset files | pure index computations | trainer | sequential | file formats |
| **Distillation banks** `src/ard/distillation/` | one artifact per run | batch computation | trainer | sequential | numerical |
| **Offline analyses** `src/ard/analysis/` and most of `scripts/` | none | one-shot statistics over finished runs | files of finished runs | sequential | numerical |
| **Remote host skill** `.agents/skills/run-on-ferret/` | none | shell around ssh and rsync | orchestrator's external jobs | | external here |

The hazards each of these is exposed to are in `PROJECT.json`, at the line where
they bite and with the properties that cover them.

## 2. Modules and plan

| Module | Models | Proofs | Instance |
|---|---|---|---|
| `CampaignDag` | what a campaign's state file promises its readers (abstract) | `ReconcilerProofs` | inside `Experiment.cfg` |
| `Orchestrator` | controllers, workers, remote runs; implements `CampaignDag` | `OrchestratorProofs`, `OrchestratorSlotProofs` | `MCOrchestrator` |
| `CampaignWatch` | watchers and their cursor, over `CampaignDag` | `CampaignWatchProofs` | `MCCampaignWatch` |
| `Reconciler` | wakes, leases, the gate's unlocked write, over `CampaignDag` | `ReconcilerProofs` | `MCReconciler` |
| `Publisher` | publications, clones, the remote branch | `PublisherProofs` | `MCPublisher` |
| `LaunchGate` | concurrent invocations of the gate and edits | `LaunchGateProofs` | `MCLaunchGate` |
| `TrainingRun` | one run with its files, over crashes and resumes | `RunSyncProofs` | `MCRunSync` |
| `RunSync` | the offline sync beside `TrainingRun` | `RunSyncProofs` | `MCRunSync` |
| `VerifyGate` | concurrent verifications, the pass cache, GPU locks | `VerifyGateProofs` | `MCVerifyGate` |

Composition: `Orchestrator` instantiates `CampaignDag` as its abstract
specification (`ImplementsDag`), and `CampaignWatch` and `Reconciler` take
`CampaignDag` as the environment they observe, so they rely on nothing that the
orchestrator was not checked to provide; `CampaignsAreLegal` proves that the
jobs beside the reconciler are a run of it. `RunSync` composes the sync with
`TrainingRun`. `Reconciler` contains the launch gate's update of
`experiment-state.json`; `LaunchGate` models the gate's own directory.

What is left, in order: a model of the reservations alone, for deadlocks between
two campaigns that keep reservations for retries, which the instances here are
too small for; hand-run bundles of the watch (`scan_run`). Every safety invariant
and action property that a run checks is also a theorem (section 5).

## 3. How the models correspond to the code

### `Orchestrator`

| Code | Model |
|---|---|
| `state["jobs"]` on disk, in memory during a tick | `disk`, `work` (equal outside a tick: `IdleInv` of the proofs) |
| `state["controller_pid"]` | `ctrlPid` |
| `locked(state)`, `claim_slot`'s flock | `holder`, `resv`: owned by a process, gone when it ends |
| a `run` process, the controller it starts | `launcher`, `ctl` |
| `reconcile_running`: completion marker, then result file, then pid | `ReadMarker`, `ReadResult`, `CheckPid`: three steps, because a worker writes between them |
| recovery of markers, `ready_jobs`, `occupied` | `Plan` (`Planned`, `BlockedIn`, `ReadyIn`, `Occupied`) |
| the launch loop: `assign_slot`, `claim_slot`, `start_worker` | `Skip`, `ClaimFails`, `Spawn`: one step per job in the order of `LaunchRank` |
| `save_state`, end of the lock, exit when all jobs have ended | `Save` |
| `--once`, a signal or a crash of the controller, anywhere | `Stop` |
| `worker`: command, confirmation, probe, promotion, marker, result | `Start`, `Finish`, `Confirm`, `ConfirmTimeout`, `ProbeSucceeds`, `ProbeTimeout`, `Promote`, `Mark`, `Report`, and `Kill` |
| the remote process of an external job | `exec` with `RemoteStart` and `Finish`; it goes on when its worker has given up |
| `pid_alive` and zombies | `pc` "zombie" until the parent starts another process (`Reap`: `subprocess` polls what it has started before) or ends |

A job's record keeps its status, number of attempts, last pid and confirmation.
A marker is valid or absent. A worker's attempt number, slot and parent are what
`start_worker` fixes for it (`info`). Ranks stand for sort keys: `Position` for
the order in the manifest, `LaunchRank` for (-estimated_work, job_id), `Cost` for
the key of `assign_slot`.

Left out: content and identity fields of markers, the event log, timing and
summaries, the legacy marker paths, reuse of a pid by an unrelated process, a
launching `run` that dies between starting and recording its controller,
`preflight` and `validate`, which change no state.

### `CampaignDag`

What a reader of the state file may assume between two saved states of one
campaign: each job makes at most one of the moves `Keeps`, `Ends`, `Recovers`,
`Retries`, `Blocks`, `Launches`. Several jobs move at once, because the file is
saved once a tick. `Orchestrator` instantiates it with the statuses and attempt
counts of `disk` (`ImplementsDag`).

### `CampaignWatch`

| Code | Model |
|---|---|
| the state files of campaigns | `st`, `n`, `exists`, moved by `Register` and `Advance` as `CampaignDag` allows |
| the cursor file; its copy in a watcher | `cursor`; `mem` ("unseen" where it says nothing) |
| `emit_first_seen` | `loud` |
| `find_campaign_states`, then `scan_campaign` for each file | `Glob`, then one `Scan` for each campaign: state files move in between |
| an unreadable state file | `Unreadable` |
| the loop that prints and calls `fire_hook` | `out`, one `Emit` for each event |
| `save_cursor`, and the next pass or the end of the process | `Save` |
| SIGTERM, a kill, `BrokenPipeError` | `Interrupt`: memory and unprinted events are gone, the cursor file stays |
| systemd's restart, a `--once` invocation | `Start` |

`told` is a history of the events that were printed, or recorded in silence when
a cold start saw a campaign for the first time; `hooks` counts `fire_hook`. An
event is its subject and status. `classify_campaign` is `Summary`. Each pass
prints in the order of the scan; the model fixes only that a campaign comes
after its jobs.

### `Reconciler`

| Code | Model |
|---|---|
| `experiment-state.json`: state, leases, attempt counts | `exp`; what a wake has read of it and changed: `mem` |
| the wake that holds the reconciler's lock, and where it is | `rpc`; the lock is given up with the process (`Crash`) |
| registered markers and commands, and their digests | `known`: what is registered, a command unchanged since the launch |
| `reconcile`'s early returns for settled states | `Idle` |
| the single-process lifecycle | `TrainingEnded`, `Postprocessing`, `Markers`, `Watch`, `Claim`, `Record` |
| `reconcile_campaign_state` | `CampaignActive`, `Failed`, `Succeeded` and the actions that start with them |
| `campaign_failure_class` | `FailureClass` |
| `delegate_recovery` | `RecoveryLeased`, `RecoveryRefused`, `RecoveryStarts` |
| a started command before its pid and lease are saved | `rpc` = "record": `Crash` here loses the record, not the process |
| a lease, and then a refusal: markers or command not registered, command drift | `Handover` with `Unregistered` |
| `acquire_lease`, `active_lease`, `process_alive` | `Claim`, `IsActive`, `Alive`; leases are numbered in the order in which they are taken and last equally long, so `expired` is a number |
| `launch_gate.update_experiment_state_launch` | `GateReads`, `GateWrites`: two steps without the lock |
| completion and failure markers | `complete`, `failure`, written by result jobs of the DAG or by a postprocess |
| the orchestrator | `Campaign`, one move of `CampaignDag` and the failure class it recorded |

`mode` is the kind of experiment: one local process, a campaign whose DAG owns
the results, a campaign whose postprocess is external. A call of `reconcile`
that calls itself again after saving is two wakes, with the lock free between
them, as in the code. The result jobs of a campaign count for its failure class
with an external owner too, where a blocked one makes a recovery refused. The
two markers are registered together or not at all; a command that is not
registered and one that has drifted since the launch end alike and are one case.
Left out: the validation of markers and identities, wake failures before the
state is read, the event log.

### `Publisher`

| Code | Model |
|---|---|
| the publisher lock of a clone | `owner` |
| the clone's worktree, branch, and `origin/...` | `dirty`, `log`, `origin`; `remote` is the branch itself |
| `publish`: dirty check, fetch, event exists | `Refuse`, `Check` (same payload: "resume", other payload: "collision") |
| write, commit | `Write`, `CommitEvent` |
| `_ensure_remote_branch`: reachable, else push | `NothingToPush`, `Push`, `PushRejected` |
| `_ensure_pr` after a new event | `EnsurePr` |
| any step fails or the process dies; a push whose answer is lost | `Fail` |

A commit is its history, the sequence of the events it added, each with the
clone that made it: two clones that commit the same event make two commits,
because `published_at` and the dates differ, and the one that is pushed second
is not a fast-forward (`Stuck`). Left out: the validation of the result record,
the text of the pull request.

### `LaunchGate`

| Code | Model |
|---|---|
| campaign spec, source HEAD and work tree, config, parents, masks, orchestrator source | `spec`, `world` (versions instead of bytes) |
| `resolve_campaign` | the guard of `Begin` |
| `run_canary` | `Smoke`: on the bytes that are there |
| `freeze`: is the manifest there and equal, write it in place, `freeze.json` | `Freeze`, `Truncate`, `Write`, `Record` |
| `revalidate_frozen`, `validate_exact_smoke_report` | `Revalidate` |
| the hand-over of the frozen path | `Launch` |
| edits of an input, a new spec with all that it binds | `Change`, `Replan` |

`since`, `late` and `rewritten` are histories: how often each input changed since
an invocation began, which changed after its last look, and whether a frozen
manifest was replaced by a concurrent `freeze`.

### `TrainingRun` and `RunSync`

| Code | Model |
|---|---|
| weights, optimizer, RNG streams, sampler, sample state | `traj`: the sequence of what each epoch measured on the way to them |
| `last.pt`, a kept epoch, `best.pt`, `best-ema.pt` | `disk`; each is replaced atomically |
| `_guard_output` and a new run; `resume` from a file | `Start`, `Resume(f)` |
| `_reject_ema_selected_resume`, `_saved_selection_weights` | `StudentSelected`, `RecordedFiles` |
| `train_epoch`, validation, selection | `Train(m)` |
| `_final_full_split_evaluation` | `Evaluate`, `EvaluateRefuses` |
| `save_checkpoint`, once for each file | `Save` |
| `_record_epoch`: local row, then tracker | `RecordRow` or `RowConflicts`, `LogRow` |
| the never-learned guard, its seed on resume | `GuardPasses`, `GuardFires`, `Seed` |
| `_finalize`: last checks; `prepare_finish`; the run bundle and `finish` | `Complete`; `Finish`; `Bundle` |
| `finish(status="failed")` after an exception | `Fail`: it takes a `completed` or `sync_pending` back that `Finish` wrote, and `completion.json` |
| an exception, a kill | `Raise`, `Kill`: between any two writes, and between `Finish` and `Bundle` |
| `sync_wandb.main` | `SyncBegin`, `Upload`, `SaveCursor`, `Reread`, `Close`; a failure or kill anywhere: `SyncEnds` |

`cut` collects the epochs whose end, after `last.pt`, was cut off, and `rolled`
says that a run was resumed from another state than that of `last.pt`. The run
has a weight-EMA model and tracks offline. The model assumes that a sync and a
process of its run do not overlap: both rewrite the whole manifest, and nothing in
the code prevents it. A run that is resumed in the middle of a sync loses its new
segment; a sync that begins after `prepare_finish` wrote `sync_pending` and goes
on after the bundle failed marks a failed run as completed and synced.

### `VerifyGate`

| Code | Model |
|---|---|
| the work tree and HEAD | `work`, `head` |
| `changed_paths`, `select`, `failed_commands` | `Changed`, `Selected`, `FailedCommands`, read once in `Invoke` |
| `fingerprint`, `PassCache.has_pass`, `append` | `Contents`, `HasPass`, `Record` |
| `visible_gpu_identities`: a uuid, or name and index | `Identities`, beside the devices that are `Visible` |
| `GPULock` over these identities | `Lock`, one identity at a time |
| pytest starts, and ends with a verdict | `Start`, `Run`: what it finds is a function of the tree at that moment |
| a signal to the invocation | `Kill`: the flocks are free; the pytest child ends with it, or goes on in `orphans` |
| edits and commits by people | `Edit`, `Commit` |

Runtime, environment and external checkouts are part of every fingerprint and
do not change here; files are neither created nor deleted. `touched`, `slips`
and `slipped` are histories of edits under a running invocation. The identities
of one list are distinct: with a device listed twice the second `flock` would
wait for the first one of the same process for ever.

## 4. Runs

| Run | Instance | What it shows |
|---|---|---|
| `dag` | one controller, three jobs (a child listed before its parent, both the child and an independent job bound to the same GPU), two GPUs, one retry, all failures | type invariant; `GpuExclusive`; `ParentEndsFirst`; `NoDuplicateWorker`; `WorkConserving`; `NoLeakAfterLastAttempt` |
| `external` | two `run`s, a remote job with timeouts and attempt-scoped output, a CPU child, one stop, one killed worker | `DependenciesMarked`, `SpawnBudget`, `TerminalIsFinal`, `ImplementsDag` |
| `ends` | two campaigns, one GPU, all failures, a retry, fair scheduling | `TrackedGpuExclusive`, `CampaignEnds` |
| `watch` | one campaign of a training and an evaluation, a service and one `--once`, one mishap (interruption, unreadable file or lost cursor), fair service | `CursorIsBacked`, `HookAfterJobs`, `HookBudget`, `EndIsTold` |
| `experiment` | each of the three kinds, with markers and commands registered or not, with and without a result job; two trainings and an evaluation with all moves of `CampaignDag`; two postprocess attempts, one recovery; one wake that dies or one write of the gate | `RootCause`, `OneOwner`, `StartsBounded`, `FinalIsBacked`, `ScienceIsNotRepaired`, `Settles` |
| `publish` | four publications of two results from two clones, one event published by both, a collision, one without push, two failures | `EventOnce`, `SuccessIsPushed`, `GetsThrough` |
| `gate` | three invocations, two at a time, two edits, one death | `RecordIsFrozen`, `LaunchedIsResolved`, `DriftStopsLaunch` |
| `training` | three epochs, the second kept; three processes, two exceptions or kills anywhere; one sync | `SelectionIsEarliestBest`, `FullSplitReadsSelection`, `OneRowPerEpoch`, `EscapesOnlyWhenCut`, `BestAgreesUnlessCut`, `CompletedIsWhole`, `SyncedIsUploaded`, `FinishesUnlessCut` |
| `verify` | two invocations in any mode with the same GPUs in opposite order, a source and two tests, one of which the rules do not select for the source, two edits or commits, one kill | `SkipIsSound`, `GreenIsGreen`, `GpuTestsApart`, `GateEnds` |
| `race` | one job | `FirstCompletionWins` is violated |
| `stale_best` | two epochs, one kill | `BestIsSelected` is violated |
| `stale_pass` | two invocations, three edits or commits | `ChangedSkipIsSound` is violated |

**Bounds.** `Orchestrator`: `MaxSpawns` (workers ever started), `MaxStops`
(controllers that stop early), `MaxKills` (workers killed). `MaxSpawns` is at
least the number of starts the instance can reach where the run allows no stop,
so it never cuts a behaviour there; with a stop it allows one start that is lost
and what follows it. Two controllers, two GPUs and one retry let every pair of
actors and of attempts interleave; three jobs give a chain and a job beside it.
`CampaignWatch`: `MaxMishaps`, `MaxManual` (`--once` invocations).
`Reconciler`: `MaxDisturbed` (wakes that die and launches that the gate
records) and `MaxLeases` for each mode and set of result jobs: a lease more than
the attempts of a single process, and two for a campaign, where starts by an
external owner have no limit in the code; one disturbance, and none for an
external owner with a result job, which adds only that this job is classified.
What is registered is everything or nothing. `Publisher`: `MaxFailures`; two give a lost answer and a
death. `LaunchGate`: `MaxRuns`, `MaxChanges` (one change and its reversal, or two
inputs), `MaxDeaths`. `TrainingRun`: `MaxStarts`, `MaxStops`; three epochs let
the guard fire, an epoch improve, tie or lose, and a run be resumed twice.
`RunSync`: `MaxSyncs`. `VerifyGate`: `MaxRuns`, `MaxEdits`, `MaxKills`. The
theorems have no bounds but these constants, whose values they do not use.

**Deadlock** is checked for `Orchestrator` and `CampaignWatch`: their `Rest` is
enabled only when every invocation has ended, no remote process is left, and
the only workers left repeat a probe that declares no timeout. The other
configurations switch it off because the system there stops by design or by its
bounds: a run is terminal or out of processes, every publication succeeded, all
invocations of a gate ended, a wake waits for a lease beyond `MaxLeases`. What
must not stop is a liveness property there (`FinishesUnlessCut`, `GetsThrough`,
`GateEnds`, `Settles`).

**Fairness.** `Orchestrator.FairSpec`: weak fairness of a `run` past its
decision, of each controller's tick (it polls in a loop), and of each worker
(its command ends or its waits time out). Nobody has to invoke `run`; nothing has
to stop or die. Weak fairness suffices for the state lock: in `ends` each
campaign has one controller, so nobody else takes the lock for ever.
`CampaignWatch.FairSpec`: the service takes its next step, because systemd
restarts it (`Restart=always` in `systemd/ardx-watch.service`) and `--follow`
scans in a loop; manual watchers need not be invoked nor finish.
`ExpFairSpec`: wakes are scheduled for ever and go on, the gate completes a write
it began, commands end and leases run out; campaigns need not advance, so
`Settles` starts from a failed one. `PubFairSpec`: a publication that began goes
on, and it is repeated (the caller's contract), with strong fairness for the
lock of a clone, which several publications share. `FairSyncSpec`: a training
process goes on while it lives, a run that is down is resumed from `last.pt`,
and a sync that began ends. `VerifyFairSpec`: each invocation goes on; a flock is
granted to one of those who wait for it.

**Types.** `Orchestrator.TypeOK` is checked in `dag`; the type invariants of the
other modules are not listed in a run because they are proved.

### Where the code and its documentation differ

Three are runs that TLC must find violated, with the quoted text in
`PROJECT.json` ("findings"):

- `race`: a job whose worker writes its marker between two reads of
  `reconcile_running` is recorded as failed or orphaned, for ever.
- `stale_best`: after a kill between `last.pt` and `best.pt` the resumed run
  completes with the `best.pt` of an older epoch, or none.
- `stale_pass`: `--changed` skips a test for a pass that was recorded before
  another source file was changed and committed.

The following were met while modelling and are behaviours of the models; the
properties are stated so that they hold beside them.

- A controller that stops inside a tick loses what it has started; the next one
  starts the job again while the first worker runs. `SpawnBudget` counts one
  more start for each stop; `NoDuplicateWorker` holds without stops
  (`orchestrate.py` `SKILL.md:45-46` says running jobs are not relaunched).
- A reservation ends with the controller, not with the worker, so a GPU whose
  worker outlives its controller may be claimed by another campaign
  (`references/manifest.md:134-136`). `TrackedGpuExclusive` is about jobs whose
  controller lives.
- A host confirmation names no attempt: a retry on the same slot is confirmed by
  what the attempt before it left there (`references/manifest.md:126-127`), and
  the probe of a retry may find the remote process of an earlier attempt
  (`RemoteRuns`).
- A worker that dies without a result stays a zombie, passes `pid_alive`, and
  its campaign never ends; `CampaignEnds` is checked without killed workers.
- `WorkConserving` is checked for a campaign alone: when a claim fails because
  another campaign holds the cheapest slot, the job is not offered its
  second-best slot. `NoLeakAfterLastAttempt` speaks of last attempts: a
  technical retry keeps its reservation, and if it is then placed on a cheaper
  slot the first one stays with the controller until another of its jobs uses it.
- With an external postprocess owner the attempt limit of the postprocess is
  never consulted: `reconcile_campaign_state` sets TRAINING_SUCCESS at every
  wake. `StartsBounded` therefore bounds postprocesses of single processes only.
- The launch gate writes `experiment-state.json` without the reconciler's lock.
  A write that undoes an update may bring back the whole recovery budget; this
  is the `undone` term of `StartsBounded`.
- A failure with blocked dependents among the required jobs is never recovered,
  because a blocked job has no attempt and counts as unknown; and a completion
  marker that is written after a wake looked for it and before it finds the pid
  dead is overlooked at the last attempt.
- The gate's last look reads neither the work tree, nor masks, nor calibrations
  again (`production-launch-gate/SKILL.md:101`, `launch_gate.py:2866`): `Bound`
  leaves them out of `DriftStopsLaunch`. A `freeze` that dies while writing
  leaves a torn manifest that blocks its gate directory; two at the same time
  may replace each other's manifest (`rewritten`).
- A gate that is killed, unless the interrupt reaches its pytest too, frees its
  flocks while the pytest child goes on, and the next invocation runs on the same
  GPU, although `ard/testing/gpu_lock.py:3-6` says two gate processes cannot.
  `GpuTestsApart` exempts the test left behind. It speaks of devices that have
  one name for both invocations: the fallback `name:index` (line 29) counts within
  the visible list, so that it may name two devices alike or one differently
  (the pinned torch reports uuids).
- A publication that is repeated after its pull request failed succeeds without
  one; a clone whose process died between write and commit, or whose branch
  diverged from the remote one, stays refused until somebody repairs it
  (`Stuck`). This includes a clone that committed the same event as another one
  and pushed second: the contents agree and the commits do not.

## 5. Proofs

Each module of proofs holds for every value of the constants that satisfies the
named assumptions of its module, which say what the code has validated or what
is data: `NamesAssumption` and `ManifestAssumption` (`Orchestrator`: dependencies
stay within a campaign and have no cycle, order keys are distinct,
`max_attempts` is positive), `DagAssumption`, `WatchAssumption`,
`ReconcilerAssumption`, `PublisherAssumption`, `GateAssumption`,
`TrainingAssumption`, `SyncAssumption`, `VerifyAssumption`. TLC evaluates them in
the runs.

`OrchestratorProofs`
: `TypeInv` is `TypeOK` with `Born`: the pids below `spawned` are exactly those
  with an `info`, and the pid in a record was started for that record's job.
  Without `Born` a slot could not be read from a record. `TypeCorrect` follows.
  `MarkerInv` (a completed record, or a queued job's parent, has its marker)
  is inductive with it, because markers are never removed, and gives
  `DependenciesAreMarked`.

`OrchestratorSlotProofs` (slots and ticks)
: `TickInv` says that the lock makes a tick exclusive (`LockInv`), that memory
  equals the file outside a tick (`IdleInv`), what the work lists of a tick
  contain (`ListInv`), and that a tick changes no job that had ended
  (`FinalInv`); this gives `TerminalStatusIsFinal`. `SlotInv` adds that running
  records of a campaign name distinct GPUs (`Apart`), that the reservation of a
  running record is held by the parent of its worker while that lives (`Held`),
  that only live controllers hold reservations (`LifeInv`), and that `occupied`
  contains the GPUs of all running records while jobs are placed (`TakenInv`).
  `Apart` is not inductive alone: it needs `TakenInv` at a launch, `Held` for
  the GPUs of other campaigns, and `IdleInv` when a tick is abandoned.
  `InvCorrect` is the whole invariant, `TrackedGpusAreExclusive` its consequence.

`OrchestratorSlotProofs` (the contract of the files)
: `FilesFollowTheContract` is the refinement `Spec => ImplementsDag`: an initial
  state is an initial state of `CampaignDag`, a `Save` is a legal move of each
  job of the campaign at once, and every other step leaves the file alone.
  `LedgerInv` is what carries it from tick to save: memory is at every moment one
  legal move (`LegalMove`) ahead of the file, so no job is moved twice in one
  tick: what is still to be visited is as on disk (`SameAs`), and what is queued
  has its dependencies completed.

`OrchestratorSlotProofs` (starts and workers)
: `SpawnsStayInBudget` has one counter for each job: `BudgetInv` says that its
  starts are at most the attempts that the memory has counted plus `stops`, since
  only an abandoned tick loses an attempt it has counted, and it loses at most
  one of each job.
  `JobsAreNotRunTwice` needs to know where a start can come from: a job returns
  to the queue only on a result file, which its worker writes last. `CrewInv`
  says, while nothing stopped, that the attempts of a job are numbered in order
  (`Numbered`), that only the process of the last attempt may still run
  (`Crewed`), and that a marked job has no later attempt (`MarkedOnce`).
  `ParentsEndFirst` follows with `MarkerInv`: the dependencies of a started job
  have their markers, and the processes of a marked job have ended (`LiveInv`).
  `GpusAreExclusive` adds `EndedInv`, that a controller which ends without being
  stopped leaves only ended jobs behind: so every live process is that of a
  running record under a live controller, and `TrackedGpuExclusive` applies.
  The conditions are the ones under which the code provides the property, not
  ones of the proof: after a stop the next controller starts a running job again,
  a killed worker may leave its GPU process behind, and the remote process of an
  external job goes on when its worker has given up (sections 3 and 4).

`OrchestratorSlotProofs` (reservations and placement)
: `ReservationsAreNeeded`: `LeakInv` names for every reserved GPU the attempt it
  was reserved for, which is running or may be retried. It assumes
  `OneControllerEach`, one `run` invocation per campaign: two that both pass the
  check of `controller_pid` tick in turn, and the one that sees a job end
  releases its own descriptors only, not what the other reserved.
  `TicksAreWorkConserving`: `PlacedInv` says that in the launch phase `occupied`
  contains GPUs of running jobs only, and that a ready job that left the queue
  fits on no other GPU; `LeastNat` gives the cheapest slot that `Plan` picks. It
  assumes `OneController`, because a claim that another campaign refuses leaves
  the job waiting beside a free slot (section 4).

`ReconcilerProofs`
: `AlwaysJustified` is inductive as stated, because no legal move leaves a
  terminal status. `BlockedHasRootCause` uses that the graph has no cycle: a set
  of blocked jobs without a root cause would contain a job none of whose
  dependencies are in it; `CampaignsAreLegal` carries both over to experiments.
  For the reconciler, `WakeShapes` sorts the steps of a wake by what they make of
  the state it has read (`Outcome`, `Onward`, `Finishes`, `Starting`), and
  `Control` says in which state a wake is where. `BackedInv` then speaks of the
  saved state *and* the copy a wake works on: either may be final only with the
  marker and the completed jobs, and a wake that looks for markers has seen
  training, and the results of a DAG, complete; nothing of this is ever undone
  (`Grows`), so it outlives deaths and late writes. `Repairable` is
  `ScienceIsNotRepaired` with the fact that the required jobs are inactive, and
  so frozen, once a recovery was started. `StartsBounded` needs `RecoveryBudget`
  and `PostBudget`: what was started is at most what the saved state has
  counted, plus one while a start is unrecorded, plus deaths, plus the whole
  limit for each update that the gate undid; a wake's copy has it all counted;
  and a single process that waits for its postprocess has an attempt left
  (`Eligible`). `CommandsHaveOneOwner` needs `OwnerInv`, under the conditions that
  `OneOwner` names (no wake died with a command it had just started, the gate
  undid no update): the saved state knows every recovery whose lease is valid
  (`RecoveryKnown`) and every living postprocess (`PostKnown`), and two owners of
  one kind are apart by a lease (`Apart`).

`PublisherProofs`
: `PubInv`: who is underway holds the lock of its clone; before it writes, the
  branch of the clone does not tell of its event; before it pushes it does; each
  clone's branch and the remote one tell of a revision once; a clone's branch holds
  its own commits only, since nothing pulls; and what a clone believes of the
  remote branch is a prefix of it. `PushedIs` derives what a push
  puts there; `EventsAreToldOnce` and `SuccessesArePushed` follow. That a push
  takes nothing from the branch is Git's rule (`FastForward`), and no theorem.

`LaunchGateProofs`
: `RecordIsFrozen` and `LaunchedIsResolved` need `OneWriter`: as long as nobody
  replaced a manifest, at most one invocation is writing it, the file is torn
  meanwhile, and every invocation past its write holds what is frozen.
  `DriftStopsLaunch` needs `DriftInv`: an input that did not change since the
  invocation began still equals what it resolved and smoked, one that changed
  once differs from that, so the look at revalidation refuses it; only changes
  after that look (`late`) get through.

`RunSyncProofs`
: `RunInv` relates the trainer's memory, each file, the rows and the manifest
  from program point to program point: `SelectionIsEarliestBest` is inductive
  with the shape of the pending writes; `RowsInv` says that a row that is sent
  is in the local file, where a second one conflicts; `ManifestInv` that only a
  process past its last epoch writes a terminal status and that such a run is
  not resumed; `SyncInv` that what lies below the cursor, in the manifest and in
  the sync's copy of it, was uploaded, which needs that a run is not resumed
  under a sync. `SelectInv` follows the selection of the very trajectory in
  memory through the pending writes and the files (`SavingInv`, `Current`,
  `Consistent`, `LastIsCurrent`, `ReportInv`): `BestFilesAgree` speaks of what is
  between processes, and `FullSplitIsOfSelection` of the weights that the final
  evaluation reads, after every crash, resume and rollback. `GuardInv` says what
  the collapse guard remembers of the epochs it must compare (`FirstEpochInv`,
  `RememberInv`, `CaughtInv`), which a cut end of an epoch loses:
  `OnlyCutRunsEscape`.

`VerifyGateProofs`
: `SkipInv` says that each record of a pass, unless it slipped, was made on a
  tree that agrees with its fingerprint: a broad fingerprint covers the whole
  tree; one of `--changed` covers what differs from HEAD, so as long as nothing
  is committed it fixes the whole tree too. `HeldInv` says that identities are
  held by one invocation each, and all those a command needs while its test runs:
  `GpuTestsStayApart`, for the tests whose invocation lives.
  `GreenSoFar` says that what an invocation ran, skipped or left out passes on the
  tree it looked at, and gives `GreenMeansGreen`. For what it left out, this is
  claimed of `Covered` tests only: they pass on the first commit and read no file
  that does not select them. The rules (`RULES` of `ard/testing/impact.py`) do
  not cover every test: `tests/unit/test_tracking.py` imports `ard.config` and
  `ard.models`, whose changes do not select it. The CPU test of the instance is
  such a test, and may fail on a green verdict.

`CampaignWatchProofs`
: `CursorIsBacked` is not inductive, because a watcher saves what is in its
  memory: `Backed` says that what a watcher remembers was told or is queued to
  be printed, and `Save` needs the queue to be empty. `DeliveredAtLeastOnce`
  follows. `HookIsLast` adds `Accounted`: when the end of a campaign is queued,
  all its jobs have ended, which no move of `CampaignDag` undoes, and each of
  their ends is told or still queued. `HookOncePerLife` counts: the hook of a
  campaign has fired at most as often as services were started, less the lives
  that may still fire it (`MayFire`: a service that has not seen this end, or has
  it queued). The assumption is `WatchAssumption` (jobs and campaigns have
  distinct names, services are not manual watchers and finitely many, the bounds
  are naturals).

Only model-checked is liveness (`CampaignEnds`, `EndIsTold`, `Settles`,
`GetsThrough`, `FinishesUnlessCut`, `GateEnds`): the prover handles neither
fairness nor ENABLED. The properties of the runs that expect a violation are of
course not theorems. Each invariant of the proofs above was first checked by TLC on the
instances of the runs.

## 6. Not modelled

- *Numerics, data, configuration, analyses*, the great part of the lines of the
  repository: sequential computations on tensors, files and fields, without
  state that a step could leave wrong for another process. A finite model would
  restate them.
- *The per-sample state store*: its records are part of what a checkpoint holds
  (the opaque trajectory of `TrainingRun`); what remains is a fold over floats.
- *The legacy campaign worker*: an archive for provenance, unsupported and not
  imported by anything.
- *Parts of modelled components*: the promotion of runtime signatures and the
  preparation ledger of the launch gate, which
  `docs/CLAUDE_CODE_WORKFLOW.md:24-27` calls frozen; distributed training and the
  soft-label bank; online tracking and the retention of uploads; hand-run
  bundles of the watch. Of the verification gate: `--base`, `--non-scientific`,
  `--dry-run`, a pytest that collects nothing (exit code 5), new and deleted files,
  files of `docs/`, which no fingerprint of `--changed` covers; a test reads the
  tree at one moment of its run.
- *Deadlock between reservations* that two campaigns keep for retries: it needs
  two controllers with two jobs and two GPUs each, beyond what TLC finishes.
