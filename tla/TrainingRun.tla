---------------------------- MODULE TrainingRun -----------------------------
(***************************************************************************)
(* One training run with its output directory: ard.cli.train, Trainer.fit  *)
(* and Trainer.resume, the checkpoint files, the epoch rows, the tracking  *)
(* manifest and the never-learned guard.  A process may raise or be killed *)
(* between any two writes, and the run is resumed from a checkpoint file.  *)
(*                                                                         *)
(* The weights that an epoch leaves are identified by the trajectory that  *)
(* led to them: the sequence of what each epoch of it measured.  Tensors,  *)
(* RNG streams, the sampler and the per-sample state are part of these     *)
(* weights: a checkpoint holds all of them (REQUIRED_KEYS) and is replaced *)
(* atomically.  The run has a weight-EMA model and tracks offline.         *)
(***************************************************************************)
EXTENDS Integers, Sequences, FiniteSets

CONSTANTS
  Epochs,        \* training.epochs
  KeptEpoch,     \* training.checkpoint_epochs (one of them)
  Measurements,  \* what validation may measure after an epoch: [acc, ema, flat]
  MaxStarts,     \* bound: processes ever started
  MaxStops       \* bound: processes that raise or are killed

ASSUME TrainingAssumption ==
  /\ Epochs \in Nat \ {0} /\ KeptEpoch \in Nat
  /\ Measurements \subseteq [acc : Nat, ema : Nat, flat : BOOLEAN]
  /\ MaxStarts \in Nat /\ MaxStops \in Nat

VARIABLES
  subset,    \* training.selection_subset_size is set
  publish,   \* tracking.artifact_retention uploads the final checkpoints
  disk,      \* the checkpoint files
  rows,      \* epoch-metrics.jsonl
  sent,      \* how many rows of each epoch the tracker has received
  marker,    \* never-learned.json
  man,       \* run-bundle/manifest.json
  done,      \* run-bundle/completion.json
  pc,        \* where the process is
  mem,       \* the state of its Trainer
  todo,      \* the checkpoints it has still to write in this epoch
  copy,      \* its LocalTracker.manifest
  starts, stops,
  cut,       \* history: epochs whose end, after last.pt, was cut off
  rolled     \* history: the run was resumed from another state than last.pt's

fileVars == <<disk, rows, sent, marker, man, done>>
processVars == <<pc, mem, todo, copy>>
config == <<subset, publish>>
vars == <<config, fileVars, processVars, starts, stops, cut, rolled>>

Files == {"last", "kept", "best", "bestEma"}
EpochSet == 0..(Epochs - 1)
None == -1   \* no epoch selected yet, and -inf as the best metric
NoFile == [traj |-> <<>>, own |-> "none"]
NoRow == [acc |-> None, ema |-> None, flat |-> FALSE]
NoReport == [student |-> <<>>, ema |-> <<>>]

FreshTrainer ==
  [traj |-> <<>>, best |-> None, sel |-> None, bestE |-> None, selE |-> None,
   first |-> "unseen", report |-> NoReport]
NoManifest == [status |-> "absent", sync |-> "none", segs |-> 0, cursor |-> 0]
Terminal == {"sync_pending", "completed"}

Init ==
  /\ subset \in BOOLEAN /\ publish \in BOOLEAN
  /\ disk = [f \in Files |-> NoFile]
  /\ rows = [e \in EpochSet |-> NoRow] /\ sent = [e \in EpochSet |-> 0]
  /\ marker = FALSE /\ man = NoManifest /\ done = FALSE
  /\ pc = "down" /\ mem = FreshTrainer /\ todo = <<>> /\ copy = NoManifest
  /\ starts = 0 /\ stops = 0 /\ cut = {} /\ rolled = FALSE

-----------------------------------------------------------------------------
(* Starting and resuming                                                   *)

Exists(f) == disk[f].own # "none"
EpochOf(c) == Len(c.traj) - 1
Epoch == EpochOf(mem)

\* LocalTracker.__init__ and _start_wandb: a running manifest with a segment
\* more; of what sync_wandb keeps in it, sync_cursor is not carried over.
Attached == [status |-> "running", sync |-> "running", segs |-> man.segs + 1, cursor |-> 0]
Attach == man' = Attached /\ copy' = Attached /\ starts' = starts + 1

\* _guard_output: a directory that has anything in it is only resumed.
Start ==
  /\ pc = "down" /\ starts = 0
  /\ Attach
  /\ pc' = "train"
  /\ UNCHANGED <<config, disk, rows, sent, marker, done, mem, todo, stops, rolled>>

\* Mutant: a checkpoint that the EMA selected is resumed like any other.
AnyCheckpoint(f) == Exists(f)
\* _reject_ema_selected_resume.
StudentSelected(f) == disk[f].own = "student"

\* _saved_selection_weights: the file is of the epoch that selection recorded.
Holds(f, e) == Exists(f) /\ EpochOf(disk[f]) = e

\* Mutant: resuming does not look at the files that selection recorded.
NothingRecorded(c) == TRUE
\* Mutant: best-ema.pt is expected to be of the student's epoch.
RecordedByStudent(c) == subset => Holds("best", c.sel) /\ Holds("bestEma", c.sel)
RecordedFiles(c) == subset => Holds("best", c.sel) /\ Holds("bestEma", c.selE)

\* Mutant: epoch 0's values are not read back.
NoSeed(n) == "unseen"
\* seed_never_learned_observations.
Seed(n) == IF n # 1 \/ rows[0] = NoRow THEN "unseen"
           ELSE IF rows[0].flat THEN "flat" ELSE "live"

\* A resume of a terminal manifest only validates it and is left out.
Resume(f) ==
  /\ pc = "down" /\ starts \in 1..(MaxStarts - 1)
  /\ ~marker /\ StudentSelected(f) /\ man.status \notin Terminal
  /\ Attach
  /\ LET c == disk[f] IN
     /\ mem' = [traj |-> c.traj, best |-> c.best, sel |-> c.sel, bestE |-> c.bestE,
                selE |-> c.selE, first |-> Seed(Len(c.traj)), report |-> NoReport]
     /\ pc' = IF RecordedFiles(c) /\ Len(c.traj) < Epochs THEN "train" ELSE "fail"
     /\ rolled' = (rolled \/ c.traj # disk["last"].traj)
  /\ todo' = <<>>
  /\ UNCHANGED <<config, disk, rows, sent, marker, done, stops>>

-----------------------------------------------------------------------------
(* An epoch                                                                *)

\* Mutant: the latest of equally good epochs is selected.
BeatsOrTies(value, best) == value >= best
Beats(value, best) == value > best
Improved == mem.sel = Epoch
ImprovedEma == mem.selE = Epoch

\* Mutant: best-ema.pt is gated on the student's improvement.
WritesByStudent(sel, selE, e) ==
  <<"last">> \o (IF e + 1 = KeptEpoch THEN <<"kept">> ELSE <<>>)
  \o (IF sel = e THEN <<"best", "bestEma">> ELSE <<>>)
\* The checkpoints in the order in which fit writes them.
Writes(sel, selE, e) ==
  <<"last">> \o (IF e + 1 = KeptEpoch THEN <<"kept">> ELSE <<>>)
  \o (IF sel = e THEN <<"best">> ELSE <<>>) \o (IF selE = e THEN <<"bestEma">> ELSE <<>>)

NextEpoch == Len(mem.traj)

\* train_epoch, validate_epoch on the student and on the EMA, selection.
Train(m) ==
  /\ pc = "train"
  /\ LET e == NextEpoch
         better == Beats(m.acc, mem.best)
         betterE == Beats(m.ema, mem.bestE)
         sel == IF better THEN e ELSE mem.sel
         selE == IF betterE THEN e ELSE mem.selE
     IN /\ mem' = [mem EXCEPT !.traj = Append(@, m), !.sel = sel, !.selE = selE,
                              !.best = IF better THEN m.acc ELSE @,
                              !.bestE = IF betterE THEN m.ema ELSE @]
        /\ todo' = Writes(sel, selE, e)
        /\ pc' = IF subset /\ e + 1 = Epochs THEN "evaluate" ELSE "save"
  /\ UNCHANGED <<config, fileVars, copy, starts, stops, rolled>>

\* _final_full_split_evaluation: the weights of best.pt are those in memory
\* when this epoch improved, and else those of the file selection recorded.
CanEvaluate == (Improved \/ Holds("best", mem.sel)) /\ (ImprovedEma \/ Holds("bestEma", mem.selE))
Evaluate ==
  /\ pc = "evaluate" /\ CanEvaluate
  /\ mem' = [mem EXCEPT !.report =
       [student |-> IF Improved THEN mem.traj ELSE disk["best"].traj,
        ema |-> IF ImprovedEma THEN mem.traj ELSE disk["bestEma"].traj]]
  /\ pc' = "save"
  /\ UNCHANGED <<config, fileVars, todo, copy, starts, stops, rolled>>

EvaluateRefuses ==
  /\ pc = "evaluate" /\ ~CanEvaluate
  /\ pc' = "fail"
  /\ UNCHANGED <<config, fileVars, mem, todo, copy, starts, stops, rolled>>

Checkpoint ==
  [traj |-> mem.traj, best |-> mem.best, sel |-> mem.sel, bestE |-> mem.bestE,
   selE |-> mem.selE, own |-> "student"]
\* best-ema.pt tells the EMA's selection in the place of the student's.
Content(f) ==
  IF f # "bestEma" THEN Checkpoint
  ELSE [Checkpoint EXCEPT !.best = mem.bestE, !.sel = mem.selE, !.own = "ema"]

\* save_checkpoint: a temporary file, then os.replace.
Save ==
  /\ pc = "save"
  /\ disk' = [disk EXCEPT ![Head(todo)] = Content(Head(todo))]
  /\ todo' = Tail(todo)
  /\ pc' = IF Len(todo) = 1 THEN "row" ELSE "save"
  /\ UNCHANGED <<config, rows, sent, marker, man, done, mem, copy, starts, stops, rolled>>

\* Mutant: a second row of an epoch takes the place of the first.
RowAccepted == TRUE
\* EpochMetricStore.merge: rows tell how long the epoch took, so the row of an
\* epoch that was trained again is never the one that is there.
NoConflict == rows[Epoch] = NoRow

RecordRow ==
  /\ pc = "row" /\ NoConflict
  /\ rows' = [rows EXCEPT ![Epoch] = mem.traj[Len(mem.traj)]]
  /\ pc' = "log"
  /\ UNCHANGED <<config, disk, sent, marker, man, done, mem, todo, copy, starts, stops, rolled>>

RowConflicts ==
  /\ pc = "row" /\ ~NoConflict
  /\ pc' = "fail"
  /\ UNCHANGED <<config, fileVars, mem, todo, copy, starts, stops, rolled>>

\* log_metrics, and log_artifact of last.pt and best.pt in the final epoch.
LogRow ==
  /\ pc = "log"
  /\ sent' = [sent EXCEPT ![Epoch] = @ + 1]
  /\ man' = copy
  /\ pc' = IF publish /\ Epoch + 1 = Epochs /\ ~Exists("best") THEN "fail" ELSE "guard"
  /\ UNCHANGED <<config, disk, rows, marker, done, mem, todo, copy, starts, stops, rolled>>

Flat == mem.traj[Len(mem.traj)].flat
FirstSeen == IF Epoch = 0 THEN (IF Flat THEN "flat" ELSE "live") ELSE mem.first
\* never_learned_reason: epochs 0 and 1 were both observed and degenerate.
Fires == Epoch = 1 /\ mem.first = "flat" /\ Flat

GuardPasses ==
  /\ pc = "guard" /\ ~Fires
  /\ mem' = [mem EXCEPT !.first = FirstSeen]
  /\ pc' = IF Epoch + 1 = Epochs THEN "complete" ELSE "train"
  /\ UNCHANGED <<config, fileVars, todo, copy, starts, stops, rolled>>

GuardFires ==
  /\ pc = "guard" /\ Fires
  /\ marker' = TRUE
  /\ pc' = "fail"
  /\ UNCHANGED <<config, disk, rows, sent, man, done, mem, todo, copy, starts, stops, rolled>>

-----------------------------------------------------------------------------
(* The end of a process                                                    *)

\* _finalize: summary and artifacts, then completion.json.
Complete ==
  /\ pc = "complete"
  /\ man' = copy /\ done' = TRUE
  /\ pc' = "finish"
  /\ UNCHANGED <<config, disk, rows, sent, marker, mem, todo, copy, starts, stops, rolled>>

\* prepare_finish.
FinishAs(status, sync) ==
  /\ copy' = [copy EXCEPT !.status = status, !.sync = sync]
  /\ man' = copy'
  /\ UNCHANGED <<config, disk, rows, sent, marker, mem, todo, starts, stops, rolled>>

Finish ==
  /\ pc = "finish"
  /\ FinishAs("sync_pending", "sync_pending")
  /\ pc' = "bundle"
  /\ UNCHANGED done

\* log_artifact of the run bundle, and finish.
Bundle ==
  /\ pc = "bundle"
  /\ pc' = "down"
  /\ UNCHANGED <<config, fileVars, mem, todo, copy, starts, stops, rolled>>

\* Mutant: a failure is finished like a success.
FailureStatus == "sync_pending"
FailedStatus == "failed"
\* main's finally clause: finish(status="failed").
Fail ==
  /\ pc = "fail"
  /\ FinishAs(FailedStatus, IF copy.segs > 0 THEN "sync_pending" ELSE "failed")
  /\ pc' = "down" /\ done' = FALSE

\* An exception of this step: non-finite logits, a full disk, the tracker.
Raise ==
  /\ pc \notin {"down", "fail"} /\ stops < MaxStops
  /\ stops' = stops + 1
  /\ pc' = "fail"
  /\ UNCHANGED <<config, fileVars, mem, todo, copy, starts, rolled>>

Kill ==
  /\ pc # "down" /\ stops < MaxStops
  /\ stops' = stops + 1
  /\ pc' = "down"
  /\ UNCHANGED <<config, fileVars, mem, todo, copy, starts, rolled>>

-----------------------------------------------------------------------------
Step ==
  \/ \E m \in Measurements : Train(m)
  \/ Evaluate \/ EvaluateRefuses \/ Save \/ RecordRow \/ RowConflicts \/ LogRow
  \/ GuardPasses \/ GuardFires \/ Complete \/ Finish \/ Bundle \/ Fail

\* last.pt is written, and the epoch, or after the last one the run, is not over.
Ending ==
  \/ pc \in {"row", "log", "guard", "complete", "finish", "bundle"}
  \/ pc = "save" /\ Head(todo) # "last"
Cuts ==
  /\ Ending /\ marker' = marker
  /\ pc' = "fail" \/ (pc' = "down" /\ man'.status \notin Terminal)

CutOff == cut' = IF Cuts THEN cut \cup {Epoch} ELSE cut

RunNext == (Start \/ (\E f \in Files : Resume(f)) \/ Step \/ Raise \/ Kill) /\ CutOff

Spec == Init /\ [][RunNext]_vars

-----------------------------------------------------------------------------
(* Properties                                                              *)

Row == [acc : Nat \cup {None}, ema : Nat \cup {None}, flat : BOOLEAN]
Trainer ==
  [traj : Seq(Measurements), best : Int, sel : Int, bestE : Int, selE : Int,
   first : {"unseen", "flat", "live"},
   report : [student : Seq(Measurements), ema : Seq(Measurements)]]
SavedState ==
  [traj : Seq(Measurements), best : Int, sel : Int, bestE : Int, selE : Int,
   own : {"student", "ema"}]
Manifest ==
  [status : {"absent", "running", "failed"} \cup Terminal,
   sync : {"none", "running", "failed", "sync_pending", "synced"}, segs : Nat, cursor : Nat]

\* Each variable has its shape; no trajectory is longer than the run.
TypeOK ==
  /\ subset \in BOOLEAN /\ publish \in BOOLEAN
  /\ disk \in [Files -> SavedState \cup {NoFile}]
  /\ mem \in Trainer /\ Len(mem.traj) <= Epochs
  /\ \A f \in Files : Exists(f) => Len(disk[f].traj) \in 1..Epochs
  /\ rows \in [EpochSet -> Row] /\ sent \in [EpochSet -> Nat]
  /\ marker \in BOOLEAN /\ done \in BOOLEAN
  /\ man \in Manifest /\ copy \in Manifest
  /\ pc \in {"down", "train", "evaluate", "save", "row", "log", "guard", "complete",
             "finish", "bundle", "fail"}
  /\ todo \in Seq(Files)
  /\ starts \in Nat /\ stops \in Nat /\ cut \subseteq EpochSet /\ rolled \in BOOLEAN

Prefix(traj, e) == SubSeq(traj, 1, e + 1)

\* The record (best, sel) names the earliest of the best of some values.
EarliestBest(values, best, sel) ==
  DOMAIN values # {} =>
    /\ sel + 1 \in DOMAIN values /\ best = values[sel + 1]
    /\ \A i \in DOMAIN values : values[i] <= best /\ (i <= sel => values[i] < best)
Accs(traj) == [i \in 1..Len(traj) |-> traj[i].acc]
Emas(traj) == [i \in 1..Len(traj) |-> traj[i].ema]
Sound(c) == EarliestBest(Accs(c.traj), c.best, c.sel) /\ EarliestBest(Emas(c.traj), c.bestE, c.selE)

\* However often and from whichever file a run is resumed, what it records as
\* its best metric is the earliest best of all epochs that led to its weights,
\* also of those that earlier processes trained, and the student's record is
\* never replaced by the EMA's (fit, resume, _reject_ema_selected_resume).
SelectionIsEarliestBest ==
  /\ Sound(mem)
  /\ \A f \in Files : StudentSelected(f) => Sound(disk[f])

\* The final full-split evaluation of a run with a selection subset compares
\* the weights that selection recorded on this very trajectory, never those a
\* discarded or interrupted trajectory left in best.pt or best-ema.pt
\* (_final_full_split_evaluation, _saved_selection_weights, resume).
FullSplitReadsSelection ==
  mem.report # NoReport =>
    /\ mem.report.student = Prefix(mem.traj, mem.sel)
    /\ mem.report.ema = Prefix(mem.traj, mem.selE)

\* The tracker never gets a second row for an epoch, however often the epoch
\* is trained again after a crash or from an older checkpoint (_record_epoch).
OneRowPerEpoch == \A e \in EpochSet : sent[e] <= 1

\* A student that is constant after epochs 0 and 1 trains on only if the end of
\* one of these epochs was cut off, so that its row or the guard itself is
\* missing (the never-learned guard, its seed on resume).
EscapesOnlyWhenCut ==
  \A f \in Files :
    Len(disk[f].traj) > 2 /\ disk[f].traj[1].flat /\ disk[f].traj[2].flat => cut \cap {0, 1} # {}

\* Between processes best.pt is what the selection recorded in last.pt says,
\* unless an epoch was cut off after its last.pt or the run was resumed from
\* an older state.
BestAgreesUnlessCut ==
  pc = "down" /\ Exists("last") /\ cut = {} /\ ~rolled =>
    /\ disk["best"].traj = Prefix(disk["last"].traj, disk["last"].sel)
    /\ disk["bestEma"].traj = Prefix(disk["last"].traj, disk["last"].selE)

\* A manifest that says completed is that of a run that trained all of its
\* epochs, recorded the last of them and wrote its completion marker, and that
\* has a best.pt if it publishes one.
CompletedIsWhole ==
  man.status \in Terminal =>
    /\ done /\ Len(disk["last"].traj) = Epochs /\ rows[Epochs - 1] # NoRow
    /\ publish => Exists("best")

\* A cut off epoch may leave last.pt with a selection that best.pt does not
\* hold: claimed by README_FIRST.md is that an exact resume keeps best and last.
BestIsSelected ==
  man.status \in Terminal /\ ~rolled =>
    disk["best"].traj = Prefix(disk["last"].traj, disk["last"].sel)

\* A run that is never cut off and resumed from last.pt whenever it is down
\* finishes, or the guard stops it, once it has a checkpoint.
Finished == man.status \in Terminal \/ marker
FinishesUnlessCut ==
  [](cut = {} /\ ~rolled) => (Exists("last") ~> Finished)

=============================================================================
