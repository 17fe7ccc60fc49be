---------------------------- MODULE RunSyncProofs -----------------------------
(***************************************************************************)
(* A run and its sync, for any number of epochs, processes, crashes and    *)
(* syncs.  RunInv: the tracker gets one row per epoch, a completed         *)
(* manifest is that of a whole run, a synced one was uploaded, and the     *)
(* selection is the earliest best epoch of the trajectory.  SelectInv: the *)
(* selected files hold what was selected.  GuardInv: no degenerate student *)
(* gets past a guard that saw the ends of both epochs.                     *)
(***************************************************************************)
EXTENDS RunSync, SequenceTheorems, TLAPS

-----------------------------------------------------------------------------
(* Types                                                                   *)

LEMMA FreshIsTrainer == FreshTrainer \in Trainer /\ FreshTrainer.traj = <<>>
  BY DEF FreshTrainer, Trainer, None, NoReport

LEMMA ManifestsAreManifests ==
  ASSUME man \in Manifest
  PROVE  NoManifest \in Manifest /\ Attached \in Manifest
  BY DEF Manifest, NoManifest, Attached

LEMMA FinishedIsManifest ==
  ASSUME NEW m \in Manifest, NEW status \in {"failed", "sync_pending", "completed"},
         NEW sync \in {"failed", "sync_pending", "synced"}
  PROVE  [m EXCEPT !.status = status, !.sync = sync] \in Manifest
  BY DEF Manifest, Terminal

LEMMA TrainedIsTrainer ==
  ASSUME NEW t \in Trainer, NEW m \in Measurements, NEW sel \in Int, NEW selE \in Int,
         NEW best \in Int, NEW bestE \in Int
  PROVE  [t EXCEPT !.traj = Append(@, m), !.sel = sel, !.selE = selE, !.best = best,
                   !.bestE = bestE] \in Trainer
<1>1. Append(t.traj, m) \in Seq(Measurements)
  BY DEF Trainer
<1> QED BY <1>1 DEF Trainer

LEMMA ContentIsSaved ==
  ASSUME mem \in Trainer, NEW f
  PROVE  Content(f) \in SavedState /\ Content(f).traj = mem.traj
         /\ (f # "bestEma" => /\ Content(f).own = "student" /\ Content(f).sel = mem.sel
                              /\ Content(f).best = mem.best /\ Content(f).selE = mem.selE
                              /\ Content(f).bestE = mem.bestE)
         /\ (f = "bestEma" => Content(f).own = "ema")
<1> DEFINE c == Checkpoint
<1>1. c \in SavedState /\ c.traj = mem.traj /\ c.own = "student"
      /\ c.sel = mem.sel /\ c.best = mem.best /\ c.selE = mem.selE /\ c.bestE = mem.bestE
  BY DEF Checkpoint, Trainer, SavedState
<1>2. mem.bestE \in Int /\ mem.selE \in Int
  BY DEF Trainer
<1>3. Content(f) = IF f # "bestEma" THEN c
                   ELSE [c EXCEPT !.best = mem.bestE, !.sel = mem.selE, !.own = "ema"]
  BY DEF Content
<1> HIDE DEF c
<1> QED BY <1>1, <1>2, <1>3 DEF SavedState

LEMMA WritesBeginWithLast ==
  ASSUME NEW sel, NEW selE, NEW e
  PROVE  /\ Writes(sel, selE, e) \in Seq(Files) /\ Writes(sel, selE, e) # <<>>
         /\ Head(Writes(sel, selE, e)) = "last"
<1> DEFINE kept == IF e + 1 = KeptEpoch THEN <<"kept">> ELSE <<>>
           best == IF sel = e THEN <<"best">> ELSE <<>>
           bestEma == IF selE = e THEN <<"bestEma">> ELSE <<>>
<1>1. kept \in Seq(Files) /\ best \in Seq(Files) /\ bestEma \in Seq(Files)
  <2>1. \A x \in Files : <<x>> \in Seq(Files)
    OBVIOUS
  <2> QED BY <2>1, EmptySeq DEF Files
<1>2. <<"last">> \in Seq(Files) /\ Len(<<"last">>) = 1 /\ <<"last">>[1] = "last"
  BY DEF Files
<1>3. Writes(sel, selE, e) = ((<<"last">> \o kept) \o best) \o bestEma
  BY DEF Writes
<1> HIDE DEF kept, best, bestEma
<1>4. <<"last">> \o kept \in Seq(Files) /\ Len(<<"last">> \o kept) >= 1
      /\ (<<"last">> \o kept)[1] = "last"
  BY <1>1, <1>2
<1> DEFINE a == <<"last">> \o kept
<1> HIDE DEF a
<1>5. a \in Seq(Files) /\ Len(a) >= 1 /\ a[1] = "last"
  BY <1>4 DEF a
<1>6. a \o best \in Seq(Files) /\ Len(a \o best) >= 1 /\ (a \o best)[1] = "last"
  BY <1>1, <1>5
<1> DEFINE b == a \o best
<1> HIDE DEF b
<1>7. b \in Seq(Files) /\ Len(b) >= 1 /\ b[1] = "last"
  BY <1>6 DEF b
<1>8. b \o bestEma \in Seq(Files) /\ Len(b \o bestEma) >= 1 /\ (b \o bestEma)[1] = "last"
  BY <1>1, <1>7
<1> QED BY <1>3, <1>8 DEF a, b

-----------------------------------------------------------------------------
(* What the steps do to the data                                           *)

LEMMA TrainDoes ==
  ASSUME TypeOK, NEW m \in Measurements, Train(m)
  PROVE  /\ mem' \in Trainer /\ mem'.traj = Append(mem.traj, m)
         /\ mem'.sel = IF Beats(m.acc, mem.best) THEN Len(mem.traj) ELSE mem.sel
         /\ mem'.selE = IF Beats(m.ema, mem.bestE) THEN Len(mem.traj) ELSE mem.selE
         /\ mem'.best = IF Beats(m.acc, mem.best) THEN m.acc ELSE mem.best
         /\ mem'.bestE = IF Beats(m.ema, mem.bestE) THEN m.ema ELSE mem.bestE
         /\ todo' = Writes(mem'.sel, mem'.selE, Len(mem.traj))
         /\ pc' = IF subset /\ Len(mem.traj) + 1 = Epochs THEN "evaluate" ELSE "save"
<1> DEFINE e == Len(mem.traj)
           sel == IF Beats(m.acc, mem.best) THEN e ELSE mem.sel
           selE == IF Beats(m.ema, mem.bestE) THEN e ELSE mem.selE
           best == IF Beats(m.acc, mem.best) THEN m.acc ELSE mem.best
           bestE == IF Beats(m.ema, mem.bestE) THEN m.ema ELSE mem.bestE
<1>1. mem \in Trainer /\ e \in Int /\ m.acc \in Nat /\ m.ema \in Nat
  BY TrainingAssumption DEF TypeOK, Trainer
<1>2. mem.sel \in Int /\ mem.selE \in Int /\ mem.best \in Int /\ mem.bestE \in Int
  BY <1>1 DEF Trainer
<1>3. sel \in Int /\ selE \in Int /\ best \in Int /\ bestE \in Int
  BY <1>1, <1>2
<1>4. mem' = [mem EXCEPT !.traj = Append(@, m), !.sel = sel, !.selE = selE, !.best = best,
                         !.bestE = bestE]
      /\ todo' = Writes(sel, selE, e)
      /\ pc' = IF subset /\ e + 1 = Epochs THEN "evaluate" ELSE "save"
  BY DEF Train, NextEpoch
<1> HIDE DEF sel, selE, best, bestE
<1>5. mem' \in Trainer
  BY <1>1, <1>3, <1>4, TrainedIsTrainer
<1>6. mem'.traj = Append(mem.traj, m) /\ mem'.sel = sel /\ mem'.selE = selE /\ mem'.best = best
      /\ mem'.bestE = bestE
  BY <1>1, <1>4 DEF Trainer
<1> QED BY <1>4, <1>5, <1>6 DEF sel, selE, best, bestE

LEMMA EvaluateDoes ==
  ASSUME TypeOK, Evaluate
  PROVE  mem' \in Trainer /\ mem'.traj = mem.traj /\ mem'.sel = mem.sel /\ mem'.selE = mem.selE
         /\ mem'.best = mem.best /\ mem'.bestE = mem.bestE
<1> DEFINE student == IF Improved THEN mem.traj ELSE disk["best"].traj
           ema == IF ImprovedEma THEN mem.traj ELSE disk["bestEma"].traj
<1>1. \A f \in Files : disk[f].traj \in Seq(Measurements)
  <2> TAKE f \in Files
  <2>1. disk[f] \in SavedState \/ disk[f] = NoFile
    BY DEF TypeOK
  <2>2. NoFile.traj \in Seq(Measurements)
    BY EmptySeq DEF NoFile
  <2> QED BY <2>1, <2>2 DEF SavedState
<1>2. mem \in Trainer /\ mem.traj \in Seq(Measurements)
  BY DEF TypeOK, Trainer
<1>3. student \in Seq(Measurements) /\ ema \in Seq(Measurements)
  BY <1>1, <1>2 DEF Files
<1>4. mem' = [mem EXCEPT !.report = [student |-> student, ema |-> ema]]
  BY DEF Evaluate
<1> HIDE DEF student, ema
<1> QED BY <1>2, <1>3, <1>4 DEF Trainer

LEMMA SaveDoes ==
  ASSUME TypeOK, Save, todo # <<>>
  PROVE  /\ disk' \in [Files -> SavedState \cup {NoFile}]
         /\ disk'[Head(todo)] = Content(Head(todo)) /\ Head(todo) \in Files
         /\ \A f \in Files \ {Head(todo)} : disk'[f] = disk[f]
         /\ todo' \in Seq(Files) /\ (pc' = "save" => todo' # <<>>) /\ pc' \in {"save", "row"}
<1>1. todo \in Seq(Files) /\ disk \in [Files -> SavedState \cup {NoFile}] /\ mem \in Trainer
  BY DEF TypeOK
<1>2. Head(todo) \in Files /\ Tail(todo) \in Seq(Files) /\ (Len(todo) # 1 => Tail(todo) # <<>>)
  <2>1. Len(todo) \in Nat \ {0} /\ Len(Tail(todo)) = Len(todo) - 1
    BY <1>1, HeadTailProperties, EmptySeq
  <2>2. Len(todo) # 1 => Len(Tail(todo)) # 0
    BY <2>1
  <2> QED BY <1>1, <2>2, HeadTailProperties, EmptySeq
<1>3. Content(Head(todo)) \in SavedState
  BY <1>1, ContentIsSaved
<1> QED BY <1>1, <1>2, <1>3 DEF Save

LEMMA ResumeDoes ==
  ASSUME TypeOK, NEW f \in Files, Resume(f)
  PROVE  /\ mem' \in Trainer /\ disk[f] \in SavedState /\ disk[f].own = "student"
         /\ mem'.traj = disk[f].traj /\ mem'.sel = disk[f].sel /\ mem'.selE = disk[f].selE
         /\ mem'.best = disk[f].best /\ mem'.bestE = disk[f].bestE /\ mem'.report = NoReport
         /\ Len(mem'.traj) \in 1..Epochs
<1>1. disk[f].own = "student" /\ Exists(f)
  BY DEF Resume, StudentSelected, Exists
<1>2. disk[f] \in SavedState
  BY <1>1 DEF TypeOK, NoFile
<1>3. Seed(Len(disk[f].traj)) \in {"unseen", "flat", "live"}
  BY DEF Seed
<1>4. mem' = [traj |-> disk[f].traj, best |-> disk[f].best, sel |-> disk[f].sel,
              bestE |-> disk[f].bestE, selE |-> disk[f].selE,
              first |-> Seed(Len(disk[f].traj)), report |-> NoReport]
  BY DEF Resume
<1>5. mem' \in Trainer
  BY <1>2, <1>3, <1>4 DEF SavedState, Trainer, NoReport
<1> QED BY <1>1, <1>2, <1>4, <1>5 DEF TypeOK

LEMMA GuardDoes ==
  ASSUME TypeOK, GuardPasses
  PROVE  mem' \in Trainer /\ mem'.traj = mem.traj /\ mem'.sel = mem.sel /\ mem'.selE = mem.selE
         /\ mem'.best = mem.best /\ mem'.bestE = mem.bestE
<1>1. mem \in Trainer /\ mem' = [mem EXCEPT !.first = FirstSeen]
  BY DEF TypeOK, GuardPasses
<1>2. FirstSeen \in {"unseen", "flat", "live"}
  BY <1>1 DEF FirstSeen, Trainer
<1> QED BY <1>1, <1>2 DEF Trainer

-----------------------------------------------------------------------------
(* Where the process is, and what it has done by then                      *)

Inside == {"evaluate", "save", "row", "log", "guard", "complete", "finish", "bundle"}
Written == {"row", "log", "guard", "complete", "finish", "bundle"}
Whole ==
  /\ Len(disk["last"].traj) = Epochs /\ rows[Epochs - 1] # NoRow
  /\ publish => Exists("best")

Control ==
  /\ pc = "train" => Len(mem.traj) < Epochs
  /\ pc \in Inside => mem.traj # <<>>
  /\ pc \in {"evaluate", "save"} =>
       todo # <<>> /\ (Head(todo) = "last" \/ disk["last"].traj = mem.traj)
  /\ pc \in Written => disk["last"].traj = mem.traj
  /\ pc \in {"log", "guard"} => rows[Epoch] # NoRow
  /\ pc = "guard" /\ publish /\ Len(mem.traj) = Epochs => Exists("best")
  /\ pc \in {"complete", "finish", "bundle"} => Whole
  /\ pc \in {"finish", "bundle"} => done

LEMMA EpochIsEpoch ==
  ASSUME TypeOK, mem.traj # <<>>
  PROVE  Epoch \in EpochSet /\ Len(mem.traj) \in 1..Epochs
<1>1. Len(mem.traj) \in Nat \ {0} /\ Len(mem.traj) <= Epochs /\ Epochs \in Nat
  BY EmptySeq, TrainingAssumption DEF TypeOK, Trainer
<1> QED BY <1>1 DEF Epoch, EpochOf, EpochSet

LEMMA CutsAreEpochs ==
  ASSUME TypeOK, Control, CutOff
  PROVE  cut' \subseteq EpochSet
<1>1. Cuts => pc \in Inside
  BY DEF Cuts, Ending, Inside
<1> QED BY <1>1, EpochIsEpoch DEF Control, CutOff, TypeOK

\* Which files change with Save.
LEMMA SaveKeepsTypes ==
  ASSUME TypeOK, Control, Save
  PROVE  \A f \in Files : Exists(f)' => Len(disk'[f].traj) \in 1..Epochs
<1>1. pc = "save" /\ todo # <<>> /\ mem.traj # <<>>
  BY DEF Save, Control, Inside
<1>2. Content(Head(todo)).traj = mem.traj
  BY ContentIsSaved DEF TypeOK
<1> QED BY <1>1, <1>2, SaveDoes, EpochIsEpoch DEF TypeOK, Exists

LEMMA TypeStep ==
  ASSUME TypeOK, Control, RunNext
  PROVE  TypeOK'
<1>1. cut' \subseteq EpochSet
  BY CutsAreEpochs DEF RunNext
<1>2. UNCHANGED config
  BY DEF RunNext, Start, Resume, Step, Train, Evaluate, EvaluateRefuses, Save, RecordRow,
     RowConflicts, LogRow, GuardPasses, GuardFires, Complete, Finish, Bundle, Fail, FinishAs, Raise, Kill
<1>3. CASE Start
  BY <1>1, <1>2, <1>3, ManifestsAreManifests DEF Start, Attach, TypeOK, config, Exists
<1>4. CASE \E f \in Files : Resume(f)
  <2>1. mem' \in Trainer /\ Len(mem'.traj) <= Epochs
    BY <1>4, ResumeDoes, TrainingAssumption
  <2>2. pc' \in {"train", "fail"} /\ todo' = <<>> /\ rolled' \in BOOLEAN
    BY <1>4 DEF Resume, TypeOK
  <2>3. man' = Attached /\ copy' = Attached /\ starts' = starts + 1
        /\ UNCHANGED <<config, disk, rows, sent, marker, done, stops>>
    BY <1>4 DEF Resume, Attach
  <2> QED BY <1>1, <2>1, <2>2, <2>3, ManifestsAreManifests, EmptySeq DEF TypeOK, config, Exists
<1>5. ASSUME NEW m \in Measurements, Train(m) PROVE TypeOK'
  <2>1. Len(mem.traj) < Epochs /\ Len(mem.traj) \in Nat /\ Epochs \in Nat /\ mem.traj \in Seq(Measurements)
    BY <1>5, TrainingAssumption DEF Train, Control, TypeOK, Trainer
  <2>2. Len(Append(mem.traj, m)) <= Epochs
    BY <2>1, AppendProperties
  <2>3. todo' \in Seq(Files) /\ mem' \in Trainer /\ Len(mem'.traj) <= Epochs
        /\ pc' \in {"evaluate", "save"}
    BY <1>5, <2>2, TrainDoes, WritesBeginWithLast
  <2> QED BY <1>1, <1>2, <1>5, <2>3 DEF Train, TypeOK, fileVars, config, Exists
<1>6. CASE Evaluate
  BY <1>1, <1>2, <1>6, EvaluateDoes DEF Evaluate, TypeOK, fileVars, config, Exists
<1>7. CASE Save
  <2>1. todo # <<>>
    BY <1>7 DEF Save, Control
  <2> QED BY <1>1, <1>2, <1>7, <2>1, SaveDoes, SaveKeepsTypes DEF Save, TypeOK, config
<1>8. CASE RecordRow
  <2>1. mem.traj # <<>>
    BY <1>8 DEF RecordRow, Control, Inside
  <2>2. mem.traj[Len(mem.traj)] \in Measurements
    BY <2>1, EmptySeq, ElementOfSeq DEF TypeOK, Trainer
  <2>3. mem.traj[Len(mem.traj)] \in Row
    BY <2>2, TrainingAssumption DEF Row
  <2>4. rows' \in [EpochSet -> Row]
    BY <1>8, <2>3 DEF RecordRow, TypeOK
  <2> QED BY <1>1, <1>2, <1>8, <2>4 DEF RecordRow, TypeOK, config, Exists
<1>9. CASE LogRow
  <2>1. sent \in [EpochSet -> Nat] /\ sent' = [sent EXCEPT ![Epoch] = @ + 1]
    BY <1>9 DEF LogRow, TypeOK
  <2>2. \A e \in EpochSet : sent[e] + 1 \in Nat
    BY <2>1
  <2>3. sent' \in [EpochSet -> Nat]
    BY <2>1, <2>2, Zenon
  <2> QED BY <1>1, <1>2, <1>9, <2>3 DEF LogRow, TypeOK, config, Exists
<1>10. CASE GuardPasses
  BY <1>1, <1>2, <1>10, GuardDoes DEF GuardPasses, TypeOK, fileVars, config, Exists
<1>11. CASE EvaluateRefuses \/ RowConflicts \/ GuardFires \/ Complete
  BY <1>1, <1>2, <1>11 DEF EvaluateRefuses, RowConflicts, GuardFires, Complete, TypeOK, fileVars,
     config, Exists
<1>12. CASE Finish \/ Fail
  <2>1. \E status \in {"failed", "sync_pending"}, sync \in {"failed", "sync_pending"} :
          FinishAs(status, sync)
    BY <1>12 DEF Finish, Fail, FailedStatus
  <2>2. copy' \in Manifest /\ man' \in Manifest
    BY <2>1, FinishedIsManifest DEF FinishAs, TypeOK
  <2>3. done' \in BOOLEAN /\ pc' \in {"bundle", "down"}
    BY <1>12, <2>1 DEF Finish, Fail, TypeOK, FinishAs
  <2>4. UNCHANGED <<config, disk, rows, sent, marker, mem, todo, starts, stops, rolled>>
    BY <2>1 DEF FinishAs
  <2> QED BY <1>1, <2>2, <2>3, <2>4 DEF TypeOK, config, Exists
<1>13. CASE Bundle \/ Raise \/ Kill
  BY <1>1, <1>2, <1>13 DEF Bundle, Raise, Kill, TypeOK, fileVars, config, Exists
<1> QED BY <1>3, <1>4, <1>5, <1>6, <1>7, <1>8, <1>9, <1>10, <1>11, <1>12, <1>13 DEF RunNext, Step

\* Before the first process there is nothing.
Unstarted == starts = 0 => pc = "down" /\ mem = FreshTrainer

LEMMA UnstartedStep ==
  ASSUME TypeOK, Unstarted, RunNext
  PROVE  Unstarted'
<1>1. CASE Start \/ \E f \in Files : Resume(f)
  <2>1. starts' = starts + 1 /\ starts \in Nat
    BY <1>1 DEF Start, Resume, Attach, TypeOK
  <2>2. starts' # 0
    BY <2>1
  <2> QED BY <2>2 DEF Unstarted
<1>2. CASE Step \/ Raise \/ Kill
  <2>1. pc # "down" /\ UNCHANGED starts
    BY <1>2 DEF Step, Train, Evaluate, EvaluateRefuses, Save, RecordRow, RowConflicts, LogRow,
       GuardPasses, GuardFires, Complete, Finish, Bundle, Fail, FinishAs, Raise, Kill
  <2> QED BY <2>1 DEF Unstarted
<1> QED BY <1>1, <1>2 DEF RunNext

LEMMA ControlStep ==
  ASSUME TypeOK, Unstarted, Control, RunNext
  PROVE  Control'
<1>1. UNCHANGED config
  BY DEF RunNext, Start, Resume, Step, Train, Evaluate, EvaluateRefuses, Save, RecordRow,
     RowConflicts, LogRow, GuardPasses, GuardFires, Complete, Finish, Bundle, Fail, FinishAs, Raise, Kill
<1>2. CASE pc' \in {"down", "fail"}
  BY <1>2 DEF Control, Inside, Written
<1>3. CASE Start
  <2>1. Len(mem.traj) < Epochs
    BY <1>3, FreshIsTrainer, EmptySeq, TrainingAssumption DEF Start, Unstarted
  <2> QED BY <1>3, <2>1 DEF Start, Control, Inside, Written
<1>4. ASSUME NEW f \in Files, Resume(f), pc' = "train" PROVE Control'
  <2>1. Len(mem'.traj) < Epochs
    BY <1>4, ResumeDoes DEF Resume
  <2> QED BY <1>4, <2>1 DEF Control, Inside, Written
<1>5. ASSUME NEW m \in Measurements, Train(m) PROVE Control'
  <2>1. mem'.traj # <<>>
    BY <1>5, TrainDoes, AppendProperties DEF TypeOK, Trainer
  <2> QED BY <1>5, <2>1, TrainDoes, WritesBeginWithLast DEF Control, Inside, Written
<1>6. CASE Evaluate
  BY <1>6, EvaluateDoes DEF Evaluate, fileVars, Control, Inside, Written
<1>7. CASE Save
  <2>1. pc = "save" /\ todo # <<>> /\ mem.traj # <<>> /\ mem' = mem
        /\ (Head(todo) = "last" \/ disk["last"].traj = mem.traj)
    BY <1>7 DEF Save, Control, Inside
  <2>2. disk'["last"].traj = mem.traj
    BY <1>7, <2>1, SaveDoes, ContentIsSaved DEF TypeOK, Files
  <2> QED BY <1>7, <2>1, <2>2, SaveDoes DEF Control, Inside, Written
<1>8. CASE RecordRow
  <2>1. pc = "row" /\ pc' = "log" /\ mem' = mem /\ disk' = disk /\ mem.traj # <<>>
    BY <1>8 DEF RecordRow, Control, Inside
  <2>2. mem.traj[Len(mem.traj)] \in Measurements
    BY <2>1, EmptySeq, ElementOfSeq DEF TypeOK, Trainer
  <2>3. mem.traj[Len(mem.traj)] # NoRow
    BY <2>2, TrainingAssumption DEF NoRow, None
  <2>4. rows'[Epoch] # NoRow /\ Epoch' = Epoch
    BY <1>8, <2>1, <2>3, EpochIsEpoch DEF RecordRow, TypeOK, Epoch
  <2> QED BY <2>1, <2>4 DEF Control, Inside, Written
<1>9. CASE LogRow
  <2>1. pc = "log" /\ UNCHANGED <<mem, disk, rows, publish>> /\ mem.traj # <<>>
        /\ disk["last"].traj = mem.traj /\ rows[Epoch] # NoRow /\ Epoch' = Epoch
    BY <1>1, <1>9 DEF LogRow, Control, Inside, Written, config, Epoch
  <2>2. Epoch + 1 = Len(mem.traj)
    BY <2>1, EpochIsEpoch DEF Epoch, EpochOf
  <2>3. CASE pc' = "guard"
    <3>1. publish /\ Len(mem.traj) = Epochs => Exists("best")
      BY <1>9, <2>2, <2>3 DEF LogRow
    <3>2. Exists("best")' = Exists("best")
      BY <2>1 DEF Exists
    <3> QED BY <2>1, <2>3, <3>1, <3>2 DEF Control, Inside, Written
  <2> QED BY <1>2, <1>9, <2>3 DEF LogRow
<1>10. CASE GuardPasses
  <2>1. pc = "guard" /\ UNCHANGED <<disk, rows, publish>> /\ mem'.traj = mem.traj
        /\ mem.traj # <<>> /\ disk["last"].traj = mem.traj /\ rows[Epoch] # NoRow
        /\ (publish /\ Len(mem.traj) = Epochs => Exists("best"))
    BY <1>1, <1>10, GuardDoes DEF GuardPasses, Control, Inside, Written, config, fileVars
  <2>2. Epoch \in Int /\ Epoch + 1 = Len(mem.traj) /\ Len(mem.traj) \in 1..Epochs /\ Epochs \in Nat
    BY <2>1, EpochIsEpoch, TrainingAssumption DEF Epoch, EpochOf
  <2>3. CASE Epoch + 1 = Epochs
    <3>1. Epoch = Epochs - 1 /\ Len(mem.traj) = Epochs
      BY <2>2, <2>3
    <3>2. pc' = "complete"
      BY <1>10, <2>3 DEF GuardPasses
    <3>3. Whole'
      BY <2>1, <3>1 DEF Whole, Exists
    <3> QED BY <2>1, <3>2, <3>3 DEF Control, Inside, Written
  <2>4. CASE Epoch + 1 # Epochs
    <3>1. pc' = "train" /\ Len(mem'.traj) < Epochs
      BY <1>10, <2>1, <2>2, <2>4 DEF GuardPasses
    <3> QED BY <3>1 DEF Control, Inside, Written
  <2> QED BY <2>3, <2>4
<1>11. CASE Complete
  BY <1>1, <1>11 DEF Complete, Control, Inside, Written, Whole, Exists, config
<1>12. CASE EvaluateRefuses \/ RowConflicts \/ GuardFires \/ Bundle \/ Fail \/ Raise \/ Kill
  BY <1>2, <1>12 DEF EvaluateRefuses, RowConflicts, GuardFires, Bundle, Fail, FinishAs, Raise, Kill
<1>13. CASE Finish
  BY <1>1, <1>13 DEF Finish, FinishAs, Control, Inside, Written, Whole, Exists, config
<1> QED BY <1>2, <1>3, <1>4, <1>5, <1>6, <1>7, <1>8, <1>9, <1>10, <1>11, <1>12, <1>13
       DEF RunNext, Step, Resume

-----------------------------------------------------------------------------
(* The manifest, for the process and for the sync                          *)

ManifestInv ==
  /\ pc # "down" => man = copy /\ man.sync # "synced" /\ man.cursor = 0
  /\ pc \notin {"down", "bundle", "fail"} => man.status = "running" /\ man.sync = "running"
  /\ man.sync = "sync_pending" => man.status \in {"failed"} \cup Terminal
  /\ man.status \in Terminal => done /\ Whole

\* The manifest does not change while the sync has its copy of it.
SyncInv ==
  /\ spc # "idle" => pc = "down" /\ data = man /\ man.sync = "sync_pending"
  /\ \A i \in 1..man.cursor : i \in uploaded
  /\ spc = "cursor" => man.cursor + 1 \in uploaded
  /\ spc \in {"reread", "close"} \/ man.sync = "synced" => man.segs <= man.cursor

LEMMA ManifestRunStep ==
  ASSUME TypeOK, Control, ManifestInv, RunNext
  PROVE  ManifestInv'
<1>1. CASE Start \/ \E f \in Files : Resume(f)
  BY <1>1 DEF Start, Resume, Attach, Attached, ManifestInv, Terminal
<1>2. CASE Finish
  <2>1. man' = [copy EXCEPT !.status = "sync_pending", !.sync = "sync_pending"] /\ pc' = "bundle"
        /\ man' = copy' /\ UNCHANGED <<disk, rows, publish, done>> /\ pc = "finish"
    BY <1>2 DEF Finish, FinishAs, config
  <2>2. man'.status = "sync_pending" /\ man'.sync = "sync_pending" /\ man'.cursor = 0
    BY <2>1 DEF ManifestInv, TypeOK, Manifest
  <2>3. done' /\ Whole'
    BY <2>1 DEF Control, Whole, Exists
  <2> QED BY <2>1, <2>2, <2>3 DEF ManifestInv, Terminal
<1>3. CASE Fail
  <2>1. PICK sync : man' = [copy EXCEPT !.status = "failed", !.sync = sync] /\ pc' = "down"
    BY <1>3 DEF Fail, FinishAs, FailedStatus
  <2>2. man'.status = "failed"
    BY <2>1 DEF TypeOK, Manifest
  <2> QED BY <2>1, <2>2 DEF ManifestInv, Terminal
<1>4. CASE Bundle \/ Raise \/ Kill
  BY <1>4 DEF Bundle, Raise, Kill, ManifestInv, Whole, Exists, config, fileVars
<1>6. CASE /\ pc \notin {"down", "bundle", "fail"} /\ man' = man /\ copy' = copy
           /\ pc' \notin {"down", "bundle"}
  BY <1>6 DEF ManifestInv, Terminal
<1>5. CASE LogRow \/ Complete
  BY <1>5 DEF LogRow, Complete, ManifestInv, Terminal
<1> QED BY <1>1, <1>2, <1>3, <1>4, <1>5, <1>6
       DEF RunNext, Step, Train, Evaluate, EvaluateRefuses, Save, RecordRow, RowConflicts,
           GuardPasses, GuardFires, fileVars

\* What the sync leaves in the manifest.
LEMMA SyncSaves ==
  ASSUME SyncTypeOK, SyncInv, SyncStep
  PROVE  /\ UNCHANGED <<config, disk, rows, sent, marker, done, processVars, starts, stops, cut, rolled>>
         /\ man' \in Manifest /\ data' \in Manifest
         /\ spc' \in {"idle", "upload", "cursor", "reread", "close"}
         /\ man'.segs = man.segs
         /\ \/ man'.status = man.status /\ man'.sync = man.sync
            \/ /\ man'.sync = "synced" /\ man.sync = "sync_pending" /\ spc' = "idle"
               /\ man'.status = ClosedStatus(man.status)
<1>1. UNCHANGED <<config, disk, rows, sent, marker, done, processVars, starts, stops, cut, rolled>>
  BY DEF SyncStep
<1>2. man \in Manifest /\ data \in Manifest /\ NoManifest \in Manifest
  BY ManifestsAreManifests DEF SyncTypeOK, TypeOK
<1>3. CASE SyncBegin \/ Upload \/ Reread \/ SyncEnds
  BY <1>1, <1>2, <1>3 DEF SyncBegin, Upload, Reread, SyncEnds, SyncTypeOK
<1>4. CASE SaveCursor
  <2>1. man' = [data EXCEPT !.cursor = NextCursor] /\ data' = man' /\ NextCursor \in Nat /\ data = man
    BY <1>2, <1>4 DEF SaveCursor, NextCursor, Manifest, SyncInv
  <2>2. man' \in Manifest /\ man'.segs = man.segs /\ man'.status = man.status /\ man'.sync = man.sync
    BY <1>2, <2>1 DEF Manifest
  <2> QED BY <1>1, <1>4, <2>1, <2>2 DEF SaveCursor
<1>5. CASE Close
  <2>1. ClosedStatus(data.status) \in {"failed", "completed"}
    BY DEF ClosedStatus
  <2>2. data = man /\ man.sync = "sync_pending"
        /\ man' = [data EXCEPT !.sync = "synced", !.status = ClosedStatus(data.status)]
    BY <1>5 DEF Close, SyncInv
  <2>3. man' \in Manifest /\ man'.segs = man.segs /\ man'.sync = "synced"
        /\ man'.status = ClosedStatus(man.status)
    BY <1>2, <2>1, <2>2 DEF Manifest, Terminal
  <2> QED BY <1>1, <1>2, <1>5, <2>2, <2>3 DEF Close
<1> QED BY <1>3, <1>4, <1>5 DEF SyncStep

LEMMA ManifestSyncStep ==
  ASSUME SyncTypeOK, ManifestInv, SyncInv, SyncStep
  PROVE  ManifestInv'
<1>1. UNCHANGED <<config, disk, rows, done, pc, copy>>
  BY DEF SyncStep, processVars
<1>2. Whole' = Whole
  BY <1>1 DEF Whole, Exists, config
<1>3. pc # "down" => man' = man
  BY DEF SyncInv, ManifestInv, SyncStep, SyncBegin, Upload, SyncEnds, SaveCursor, Reread, Close
<1>4. man'.status \in Terminal => man.status \in Terminal
  BY SyncSaves DEF ClosedStatus, ManifestInv, Terminal
<1>5. man'.sync = "sync_pending" => man.sync = "sync_pending" /\ man'.status = man.status
  BY SyncSaves
<1> QED BY <1>1, <1>2, <1>3, <1>4, <1>5 DEF ManifestInv

LEMMA SyncSyncStep ==
  ASSUME SyncTypeOK, ManifestInv, SyncInv, SyncStep
  PROVE  SyncInv'
<1>1. UNCHANGED pc /\ man \in Manifest /\ man.cursor \in Nat /\ man.segs \in Nat
  BY DEF SyncStep, processVars, SyncTypeOK, TypeOK, Manifest
<1>2. CASE SyncBegin
  <2>1. pc = "down"
    BY <1>2 DEF SyncBegin, ManifestInv
  <2> QED BY <1>1, <1>2, <2>1 DEF SyncBegin, SyncInv
<1>3. CASE Upload
  <2>1. UNCHANGED man /\ data = man /\ uploaded' = uploaded \cup {man.cursor + 1}
        /\ spc = "upload" /\ spc' = "cursor" /\ data' = data
    BY <1>3 DEF Upload, SyncInv
  <2> QED BY <1>1, <2>1 DEF SyncInv
<1>4. CASE SyncEnds
  BY <1>1, <1>4 DEF SyncEnds, SyncInv
<1>5. CASE Reread
  BY <1>1, <1>5 DEF Reread, SyncInv
<1>6. CASE Close
  <2>1. man'.cursor = man.cursor /\ man'.segs = man.segs /\ spc = "close" /\ spc' = "idle"
        /\ UNCHANGED uploaded
    BY <1>1, <1>6 DEF Close, SyncInv, Manifest
  <2> QED BY <1>1, <2>1 DEF SyncInv
<1>7. CASE SaveCursor
  <2>1. spc = "cursor" /\ data = man /\ man' = [man EXCEPT !.cursor = man.cursor + 1]
        /\ data' = man' /\ UNCHANGED uploaded /\ man.sync = "sync_pending" /\ pc = "down"
        /\ man.cursor + 1 \in uploaded
    BY <1>7 DEF SaveCursor, NextCursor, SyncInv
  <2>2. man'.cursor = man.cursor + 1 /\ man'.segs = man.segs /\ man'.sync = man.sync
    BY <1>1, <2>1 DEF Manifest
  <2>3. spc' = IF man'.cursor < man'.segs THEN "upload" ELSE "reread"
    BY <1>7, <2>1 DEF SaveCursor
  <2>4. \A i \in 1..man'.cursor : i \in uploaded
    BY <1>1, <2>1, <2>2 DEF SyncInv
  <2>5. spc' = "reread" => man'.segs <= man'.cursor
    BY <1>1, <2>2, <2>3
  <2> QED BY <1>1, <2>1, <2>2, <2>3, <2>4, <2>5 DEF SyncInv
<1> QED BY <1>2, <1>3, <1>4, <1>5, <1>6, <1>7 DEF SyncStep

LEMMA SyncRunStep ==
  ASSUME TypeOK, ManifestInv, SyncInv, RunNext, UNCHANGED syncVars,
         pc = "down" /\ pc' # "down" => spc = "idle"
  PROVE  SyncInv'
<1>1. CASE Start \/ \E f \in Files : Resume(f)
  <2>1. man'.cursor = 0 /\ man'.sync = "running" /\ pc = "down" /\ pc' # "down"
    BY <1>1 DEF Start, Resume, Attach, Attached
  <2>2. spc' = "idle"
    BY <2>1 DEF syncVars
  <2> QED BY <2>1, <2>2 DEF SyncInv
<1>2. CASE Step \/ Raise \/ Kill
  <2>1. pc # "down"
    BY <1>2 DEF Step, Train, Evaluate, EvaluateRefuses, Save, RecordRow, RowConflicts, LogRow,
       GuardPasses, GuardFires, Complete, Finish, Bundle, Fail, FinishAs, Raise, Kill
  <2>2. spc' = "idle" /\ man = copy /\ man.cursor = 0 /\ man.sync # "synced"
    BY <2>1 DEF SyncInv, ManifestInv, syncVars
  <2>3. \/ man' = man
        \/ \E status, sync : /\ man' = [copy EXCEPT !.status = status, !.sync = sync]
                             /\ sync \in {"sync_pending", "failed"}
    <3>1. CASE Finish \/ Fail
      <4>1. \E status : \E sync \in {"sync_pending", "failed"} :
              copy' = [copy EXCEPT !.status = status, !.sync = sync] /\ man' = copy'
        BY <3>1 DEF Finish, Fail, FinishAs
      <4> QED BY <4>1
    <3>2. CASE Raise \/ Kill
      BY <3>2 DEF Raise, Kill, fileVars
    <3>3. CASE Step /\ ~Finish /\ ~Fail
      BY <2>2, <3>3 DEF Step, Train, Evaluate, EvaluateRefuses, Save, RecordRow, RowConflicts, LogRow,
         GuardPasses, GuardFires, Complete, Bundle, fileVars
    <3> QED BY <1>2, <3>1, <3>2, <3>3
  <2>4. man'.cursor = 0 /\ man'.sync # "synced"
    BY <2>2, <2>3 DEF TypeOK, Manifest
  <2> QED BY <2>2, <2>4 DEF SyncInv
<1> QED BY <1>1, <1>2 DEF RunNext

-----------------------------------------------------------------------------
(* One row per epoch                                                       *)

RowsInv ==
  /\ \A e \in EpochSet : sent[e] <= 1 /\ (sent[e] # 0 => rows[e] # NoRow)
  /\ pc = "log" => sent[Epoch] = 0

\* A row is recorded only where there is none, and sent only after that.
LEMMA RowsStep ==
  ASSUME TypeOK, Control, Control', RowsInv, RunNext
  PROVE  RowsInv'
<1>1. CASE RecordRow
  <2>1. mem.traj # <<>> /\ mem' = mem /\ sent' = sent /\ rows[Epoch] = NoRow /\ pc' = "log"
        /\ rows' = [rows EXCEPT ![Epoch] = mem.traj[Len(mem.traj)]]
    BY <1>1 DEF RecordRow, NoConflict, Control, Inside
  <2>2. Epoch \in EpochSet /\ Epoch' = Epoch /\ rows \in [EpochSet -> Row]
        /\ sent \in [EpochSet -> Nat]
    BY <2>1, EpochIsEpoch DEF Epoch, TypeOK
  <2>3. rows'[Epoch] # NoRow
    BY <2>1, <2>2 DEF Control
  <2>4. \A e \in EpochSet \ {Epoch} : rows'[e] = rows[e]
    BY <2>1, <2>2
  <2>5. sent[Epoch] = 0
    BY <2>1, <2>2 DEF RowsInv
  <2> QED BY <2>1, <2>2, <2>3, <2>4, <2>5 DEF RowsInv
<1>2. CASE LogRow
  <2>1. mem.traj # <<>> /\ rows' = rows /\ sent' = [sent EXCEPT ![Epoch] = @ + 1]
        /\ sent[Epoch] = 0 /\ rows[Epoch] # NoRow /\ pc' # "log"
    BY <1>2 DEF LogRow, Control, Inside, RowsInv
  <2>2. Epoch \in EpochSet /\ sent \in [EpochSet -> Nat]
    BY <2>1, EpochIsEpoch DEF TypeOK
  <2>3. sent'[Epoch] = 1 /\ \A e \in EpochSet \ {Epoch} : sent'[e] = sent[e]
    BY <2>1, <2>2
  <2> QED BY <2>1, <2>2, <2>3 DEF RowsInv
<1>3. CASE UNCHANGED <<rows, sent>> /\ pc' # "log"
  BY <1>3 DEF RowsInv
<1> QED BY <1>1, <1>2, <1>3
       DEF RunNext, Start, Resume, Step, Train, Evaluate, EvaluateRefuses, Save, RowConflicts,
           GuardPasses, GuardFires, Complete, Finish, Bundle, Fail, FinishAs, Raise, Kill, fileVars

-----------------------------------------------------------------------------
(* The selection                                                           *)

LEMMA EarliestBestExtends ==
  ASSUME NEW k \in Nat, NEW v \in [1..k -> Nat], NEW w \in [1..(k + 1) -> Nat],
         \A i \in 1..k : w[i] = v[i], NEW best \in Int, NEW sel \in Int,
         EarliestBest(v, best, sel), k = 0 => best = None
  PROVE  EarliestBest(w, IF w[k + 1] > best THEN w[k + 1] ELSE best,
                         IF w[k + 1] > best THEN k ELSE sel)
<1>1. w[k + 1] \in Nat /\ k + 1 \in DOMAIN w
  OBVIOUS
<1>2. CASE w[k + 1] > best
  <2>1. ASSUME NEW i \in 1..k PROVE w[i] < w[k + 1]
    <3>1. v[i] \in Nat /\ w[i] = v[i] /\ i \in DOMAIN v
      OBVIOUS
    <3>2. v[i] <= best
      BY <3>1 DEF EarliestBest
    <3> QED BY <1>1, <1>2, <3>1, <3>2
  <2> QED BY <1>1, <1>2, <2>1 DEF EarliestBest
<1>3. CASE ~(w[k + 1] > best)
  <2>1. k # 0
    BY <1>1, <1>3 DEF None
  <2>2. sel + 1 \in 1..k /\ best = v[sel + 1]
        /\ \A i \in 1..k : v[i] <= best /\ (i <= sel => v[i] < best)
    <3>1. DOMAIN v = 1..k /\ 1 \in DOMAIN v
      BY <2>1
    <3> QED BY <3>1, Zenon DEF EarliestBest
  <2>3. sel + 1 \in 1..(k + 1) /\ best = w[sel + 1]
    BY <2>2
  <2>4. \A i \in 1..k : w[i] <= best /\ (i <= sel => w[i] < best)
    BY <2>2
  <2>5. w[k + 1] <= best /\ ~(k + 1 <= sel)
    BY <1>1, <1>3, <2>2
  <2>6. DOMAIN w = 1..(k + 1) /\ \A i \in 1..(k + 1) : i \in 1..k \/ i = k + 1
    OBVIOUS
  <2>7. \A i \in DOMAIN w : w[i] <= best /\ (i <= sel => w[i] < best)
    BY <2>4, <2>5, <2>6
  <2>8. EarliestBest(w, best, sel)
    BY <2>3, <2>6, <2>7, Zenon DEF EarliestBest
  <2> QED BY <1>3, <2>8, Zenon
<1> QED BY <1>2, <1>3

FreshInv == mem.traj = <<>> => mem.best = None /\ mem.bestE = None

LEMMA TrainIsSound ==
  ASSUME TypeOK, FreshInv, Sound(mem), NEW m \in Measurements, Train(m)
  PROVE  Sound(mem') /\ mem'.traj # <<>>
<1> DEFINE k == Len(mem.traj)
<1>1. mem.traj \in Seq(Measurements) /\ k \in Nat /\ mem'.traj = Append(mem.traj, m)
      /\ mem'.traj \in Seq(Measurements) /\ Len(mem'.traj) = k + 1 /\ mem'.traj[k + 1] = m
      /\ \A i \in 1..k : mem'.traj[i] = mem.traj[i]
  <2>1. mem.traj \in Seq(Measurements) /\ mem'.traj = Append(mem.traj, m)
    BY TrainDoes DEF TypeOK, Trainer
  <2> QED BY <2>1, AppendProperties, LenProperties
<1>2. mem'.traj # <<>>
  BY <1>1, AppendProperties
<1>3. \A x \in Measurements : x.acc \in Nat /\ x.ema \in Nat
  BY TrainingAssumption
<1>4. (\A i \in 1..k : mem.traj[i] \in Measurements)
      /\ \A i \in 1..(k + 1) : mem'.traj[i] \in Measurements
  BY <1>1, ElementOfSeq
<1>5. mem.best \in Int /\ mem.sel \in Int /\ mem.bestE \in Int /\ mem.selE \in Int
  BY DEF TypeOK, Trainer
<1>6. k = 0 => mem.best = None /\ mem.bestE = None
  BY <1>1, EmptySeq DEF FreshInv
<1> DEFINE v == Accs(mem.traj)
           w == Accs(mem'.traj)
           x == Emas(mem.traj)
           y == Emas(mem'.traj)
<1>7. v \in [1..k -> Nat] /\ w \in [1..(k + 1) -> Nat] /\ (\A i \in 1..k : w[i] = v[i])
      /\ w[k + 1] = m.acc
  BY <1>1, <1>3, <1>4 DEF Accs
<1>8. x \in [1..k -> Nat] /\ y \in [1..(k + 1) -> Nat] /\ (\A i \in 1..k : y[i] = x[i])
      /\ y[k + 1] = m.ema
  BY <1>1, <1>3, <1>4 DEF Emas
<1>9. EarliestBest(v, mem.best, mem.sel) /\ EarliestBest(x, mem.bestE, mem.selE)
  BY DEF Sound
<1>10. mem'.best = (IF m.acc > mem.best THEN m.acc ELSE mem.best)
       /\ mem'.sel = (IF m.acc > mem.best THEN k ELSE mem.sel)
       /\ mem'.bestE = (IF m.ema > mem.bestE THEN m.ema ELSE mem.bestE)
       /\ mem'.selE = (IF m.ema > mem.bestE THEN k ELSE mem.selE)
  BY TrainDoes DEF Beats
<1> HIDE DEF v, w, x, y, k
<1>11. EarliestBest(w, mem'.best, mem'.sel)
  <2>1. EarliestBest(w, IF w[k + 1] > mem.best THEN w[k + 1] ELSE mem.best,
                        IF w[k + 1] > mem.best THEN k ELSE mem.sel)
    BY <1>1, <1>5, <1>6, <1>7, <1>9, EarliestBestExtends
  <2> QED BY <1>7, <1>10, <2>1
<1>12. EarliestBest(y, mem'.bestE, mem'.selE)
  <2>1. EarliestBest(y, IF y[k + 1] > mem.bestE THEN y[k + 1] ELSE mem.bestE,
                        IF y[k + 1] > mem.bestE THEN k ELSE mem.selE)
    BY <1>1, <1>5, <1>6, <1>8, <1>9, EarliestBestExtends
  <2> QED BY <1>8, <1>10, <2>1
<1> QED BY <1>2, <1>11, <1>12 DEF Sound, v, w, x, y, k

LEMMA SelectionStep ==
  ASSUME TypeOK, Unstarted, Control, FreshInv, SelectionIsEarliestBest, RunNext
  PROVE  SelectionIsEarliestBest' /\ FreshInv'
<1>1. ASSUME UNCHANGED <<disk, mem>> PROVE SelectionIsEarliestBest' /\ FreshInv'
  BY <1>1 DEF SelectionIsEarliestBest, Sound, StudentSelected, FreshInv
<1>2. CASE Start
  BY <1>1, <1>2 DEF Start
<1>3. ASSUME NEW f \in Files, Resume(f) PROVE SelectionIsEarliestBest' /\ FreshInv'
  <2>1. UNCHANGED disk /\ Sound(disk[f])
    BY <1>3 DEF Resume, SelectionIsEarliestBest
  <2>2. Sound(mem)'
    BY <1>3, <2>1, ResumeDoes DEF Sound
  <2>3. mem'.traj # <<>>
    BY <1>3, ResumeDoes, EmptySeq
  <2> QED BY <2>1, <2>2, <2>3 DEF SelectionIsEarliestBest, StudentSelected, FreshInv, Sound
<1>4. ASSUME NEW m \in Measurements, Train(m) PROVE SelectionIsEarliestBest' /\ FreshInv'
  <2>1. UNCHANGED disk
    BY <1>4 DEF Train, fileVars
  <2>2. Sound(mem') /\ mem'.traj # <<>>
    BY <1>4, TrainIsSound DEF SelectionIsEarliestBest
  <2> QED BY <2>1, <2>2 DEF SelectionIsEarliestBest, StudentSelected, FreshInv, Sound
<1>5. CASE Evaluate \/ GuardPasses
  <2>1. UNCHANGED disk
    BY <1>5 DEF Evaluate, GuardPasses, fileVars
  <2> QED BY <1>5, <2>1, EvaluateDoes, GuardDoes
          DEF SelectionIsEarliestBest, StudentSelected, FreshInv, Sound
<1>6. CASE Save
  <2>1. todo # <<>> /\ UNCHANGED mem
    BY <1>6 DEF Save, Control
  <2> DEFINE h == Head(todo)
  <2>2. disk'[h] = Content(h) /\ \A f \in Files \ {h} : disk'[f] = disk[f]
    BY <1>6, <2>1, SaveDoes
  <2>3. disk'[h].own = "student" => Sound(disk'[h])
    BY <2>2, ContentIsSaved DEF TypeOK, SelectionIsEarliestBest, Sound
  <2> QED BY <2>1, <2>2, <2>3 DEF SelectionIsEarliestBest, StudentSelected, FreshInv, Sound
<1> QED BY <1>1, <1>2, <1>3, <1>4, <1>5, <1>6
       DEF RunNext, Step, EvaluateRefuses, RecordRow, RowConflicts, LogRow, GuardFires, Complete,
           Finish, Bundle, Fail, FinishAs, Raise, Kill, fileVars

-----------------------------------------------------------------------------
(* The invariant, and what it says                                         *)

RunInv ==
  /\ Unstarted /\ Control /\ ManifestInv /\ SyncInv /\ RowsInv
  /\ SelectionIsEarliestBest /\ FreshInv

LEMMA InitIsFine == SyncInit => SyncTypeOK /\ RunInv
<1> SUFFICES ASSUME SyncInit PROVE SyncTypeOK /\ RunInv
  OBVIOUS
<1>1. NoManifest \in Manifest /\ NoRow \in Row /\ <<>> \in Seq(Files)
  BY EmptySeq DEF NoManifest, Manifest, NoRow, Row, None
<1>2. Len(FreshTrainer.traj) = 0 /\ 0 <= Epochs
  BY FreshIsTrainer, EmptySeq, TrainingAssumption
<1>3. SyncTypeOK
  BY <1>1, <1>2, FreshIsTrainer DEF SyncInit, Init, SyncTypeOK, TypeOK, Exists, NoFile
<1>4. Accs(<<>>) = Emas(<<>>) /\ DOMAIN Accs(<<>>) = {}
  BY EmptySeq DEF Accs, Emas
<1>5. Sound(FreshTrainer)
  BY <1>4, FreshIsTrainer DEF Sound, EarliestBest
<1>6. SelectionIsEarliestBest
  BY <1>5 DEF SyncInit, Init, SelectionIsEarliestBest, StudentSelected, NoFile
<1>7. Unstarted /\ Control /\ ManifestInv /\ SyncInv /\ RowsInv /\ FreshInv
  BY DEF SyncInit, Init, Unstarted, Control, Inside, Written, ManifestInv, NoManifest, Terminal,
     SyncInv, RowsInv, FreshInv, FreshTrainer
<1> QED BY <1>3, <1>6, <1>7 DEF RunInv

LEMMA RunInvStep ==
  ASSUME SyncTypeOK, RunInv, [SyncNext]_allVars
  PROVE  SyncTypeOK' /\ RunInv'
<1>1. CASE RunNext /\ UNCHANGED syncVars /\ (pc = "down" /\ pc' # "down" => spc = "idle")
  <2>1. TypeOK /\ TypeOK' /\ Control'
    BY <1>1, TypeStep, ControlStep DEF SyncTypeOK, RunInv
  <2>2. SyncTypeOK'
    BY <1>1, <2>1 DEF SyncTypeOK, syncVars
  <2> QED BY <1>1, <2>1, <2>2, UnstartedStep, ManifestRunStep, SyncRunStep, RowsStep, SelectionStep
          DEF RunInv
<1>2. CASE SyncStep
  <2>1. UNCHANGED <<config, disk, rows, sent, marker, done, processVars, starts, stops, cut, rolled>>
    BY <1>2 DEF SyncStep
  <2>2. ManifestInv' /\ SyncInv'
    BY <1>2, ManifestSyncStep, SyncSyncStep DEF RunInv
  <2>3. Unstarted' /\ Control' /\ RowsInv' /\ SelectionIsEarliestBest' /\ FreshInv'
    BY <2>1 DEF RunInv, Unstarted, Control, Inside, Written, RowsInv, SelectionIsEarliestBest,
       FreshInv, Whole, Exists, Epoch, StudentSelected, Sound, config, processVars
  <2>4. TypeOK'
    BY <1>2, <2>1, SyncSaves DEF RunInv, SyncTypeOK, TypeOK, Exists, config, processVars
  <2>5. SyncTypeOK'
    <3>1. man.cursor + 1 \in Nat
      BY DEF SyncTypeOK, TypeOK, Manifest
    <3>2. uploaded' \subseteq Nat /\ syncs' \in Nat
      BY <1>2, <3>1 DEF SyncStep, SyncBegin, Upload, SyncEnds, SaveCursor, Reread, Close,
         RunInv, SyncInv, SyncTypeOK
    <3> QED BY <1>2, <2>4, <3>2, SyncSaves DEF RunInv, SyncTypeOK
  <2> QED BY <2>2, <2>3, <2>5 DEF RunInv
<1>3. CASE UNCHANGED allVars
  BY <1>3 DEF allVars, vars, config, fileVars, processVars, syncVars, SyncTypeOK, TypeOK, RunInv,
     Unstarted, Control, Inside, Written, RowsInv, SelectionIsEarliestBest, FreshInv, Whole, Exists,
     Epoch, StudentSelected, Sound, ManifestInv, SyncInv
<1> QED BY <1>1, <1>2, <1>3 DEF SyncNext

LEMMA AlwaysRunInv == SyncSpec => [](SyncTypeOK /\ RunInv)
<1>1. SyncTypeOK /\ RunInv /\ [SyncNext]_allVars => (SyncTypeOK /\ RunInv)'
  BY RunInvStep
<1> QED BY <1>1, InitIsFine, PTL DEF SyncSpec

\* Every variable of a run and its sync keeps its shape.
THEOREM SyncTypeCorrect == SyncSpec => []SyncTypeOK
  BY AlwaysRunInv, PTL

\* The tracker never gets two rows of an epoch, for any number of crashes,
\* resumes and epochs (_record_epoch, EpochMetricStore.merge).
THEOREM RowsAreSentOnce == SyncSpec => []OneRowPerEpoch
<1>1. SyncTypeOK /\ RunInv => OneRowPerEpoch
  BY DEF RunInv, RowsInv, OneRowPerEpoch
<1> QED BY <1>1, AlwaysRunInv, PTL

\* A manifest says completed only of a whole run, also after a sync rewrote it
\* (prepare_finish, sync_wandb.main).
THEOREM CompletedRunIsWhole == SyncSpec => []CompletedIsWhole
<1>1. SyncTypeOK /\ RunInv => CompletedIsWhole
  BY DEF RunInv, ManifestInv, Whole, CompletedIsWhole
<1> QED BY <1>1, AlwaysRunInv, PTL

\* A manifest says synced only when W&B has every segment it lists, however
\* often the run was resumed and the sync killed (sync_wandb.main).
THEOREM SyncedRunIsUploaded == SyncSpec => []SyncedIsUploaded
<1>1. SyncTypeOK /\ RunInv => SyncedIsUploaded
  <2> SUFFICES ASSUME SyncTypeOK, RunInv, man.sync = "synced", NEW i \in 1..man.segs
               PROVE  i \in uploaded
    BY DEF SyncedIsUploaded
  <2>1. man.segs \in Nat /\ man.cursor \in Nat /\ man.segs <= man.cursor
    BY DEF SyncTypeOK, TypeOK, Manifest, RunInv, SyncInv
  <2> QED BY <2>1 DEF RunInv, SyncInv
<1> QED BY <1>1, AlwaysRunInv, PTL

\* However many epochs, processes and files a run was resumed from: what it
\* records as selected is the earliest best epoch of the trajectory that led
\* to its weights (fit, resume, _reject_ema_selected_resume).
THEOREM SelectsEarliestBest == SyncSpec => []SelectionIsEarliestBest
<1>1. SyncTypeOK /\ RunInv => SelectionIsEarliestBest
  BY DEF RunInv
<1> QED BY <1>1, AlwaysRunInv, PTL

-----------------------------------------------------------------------------
(* What an epoch has still to write                                        *)

\* The order in which fit writes the checkpoints of an epoch.
Rank == [f \in Files |->
  IF f = "last" THEN 1 ELSE IF f = "kept" THEN 2 ELSE IF f = "best" THEN 3 ELSE 4]
Ordered(q) == \A i, k \in 1..Len(q) : i < k => Rank[q[i]] < Rank[q[k]]

\* The files that the epoch writes, and those of them that are not yet written.
DueAt(sel, selE, e) ==
  {f \in Files : /\ f = "kept" => e + 1 = KeptEpoch
                 /\ f = "best" => sel = e
                 /\ f = "bestEma" => selE = e}
Due == DueAt(mem.sel, mem.selE, Epoch)
Saving == pc \in {"evaluate", "save"}
Left == IF Saving THEN Range(todo) ELSE {}

LEMMA RankIsNat == \A f \in Files : Rank[f] \in 1..4
  BY DEF Rank, Files

\* A file more at the end of an ordered list, or none.
LEMMA OrderedConcat ==
  ASSUME NEW q \in Seq(Files), Ordered(q), NEW f \in Files, NEW on \in BOOLEAN,
         \A g \in Range(q) : Rank[g] < Rank[f]
  PROVE  LET r == q \o (IF on THEN <<f>> ELSE <<>>) IN
         /\ r \in Seq(Files) /\ Ordered(r)
         /\ Range(r) = Range(q) \cup (IF on THEN {f} ELSE {})
<1> DEFINE s == IF on THEN <<f>> ELSE <<>>
           r == q \o s
<1>1. <<f>> \in Seq(Files) /\ Len(<<f>>) = 1 /\ <<f>>[1] = f
  OBVIOUS
<1>2. s \in Seq(Files) /\ Len(s) = (IF on THEN 1 ELSE 0)
  BY <1>1, EmptySeq
<1>3. /\ r \in Seq(Files) /\ Len(r) = Len(q) + Len(s)
      /\ \A i \in 1..(Len(q) + Len(s)) : r[i] = IF i <= Len(q) THEN q[i] ELSE s[i - Len(q)]
  <2> HIDE DEF s
  <2> QED BY <1>2, ConcatProperties
<1>4. Len(q) \in Nat /\ Range(q) = {q[i] : i \in 1..Len(q)} /\ Range(r) = {r[i] : i \in 1..Len(r)}
  <2> HIDE DEF r
  <2> QED BY <1>3, LenProperties, RangeEquality
<1>5. CASE on
  <2>1. s = <<f>> /\ s[1] = f
    BY <1>1, <1>5
  <2>2. Len(r) = Len(q) + 1 /\ r[Len(q) + 1] = f /\ \A i \in 1..Len(q) : r[i] = q[i]
    <3> HIDE DEF s, r
    <3> QED BY <1>2, <1>3, <1>4, <1>5, <2>1
  <2> HIDE DEF s, r
  <2>3. Range(r) = Range(q) \cup {f}
    BY <1>4, <2>2
  <2>4. \A i \in 1..Len(q) : Rank[q[i]] < Rank[f]
    BY <1>4
  <2>5. Ordered(r)
    BY <1>4, <2>2, <2>4 DEF Ordered
  <2> QED BY <1>3, <1>5, <2>3, <2>5 DEF r, s
<1>6. CASE ~on
  <2>1. r = q
    BY <1>6, ConcatEmptySeq
  <2> QED BY <1>6, <2>1
<1> QED BY <1>5, <1>6

LEMMA WritesAreDue ==
  ASSUME NEW sel \in Int, NEW selE \in Int, NEW e \in Int
  PROVE  Ordered(Writes(sel, selE, e)) /\ Range(Writes(sel, selE, e)) = DueAt(sel, selE, e)
<1> DEFINE isKept == e + 1 = KeptEpoch
           a == <<"last">>
           b == a \o (IF isKept THEN <<"kept">> ELSE <<>>)
           c == b \o (IF sel = e THEN <<"best">> ELSE <<>>)
           d == c \o (IF selE = e THEN <<"bestEma">> ELSE <<>>)
<1>1. a \in Seq(Files) /\ Ordered(a) /\ Range(a) = {"last"}
  BY DEF Files, Ordered, Range
<1>2. Rank["last"] = 1 /\ Rank["kept"] = 2 /\ Rank["best"] = 3 /\ Rank["bestEma"] = 4
  BY DEF Rank, Files
<1>3. "kept" \in Files /\ "best" \in Files /\ "bestEma" \in Files
  BY DEF Files
<1> HIDE DEF a, isKept
<1>4. b \in Seq(Files) /\ Ordered(b)
      /\ Range(b) = Range(a) \cup (IF isKept THEN {"kept"} ELSE {})
  <2>1. \A g \in Range(a) : Rank[g] < Rank["kept"]
    BY <1>1, <1>2
  <2>2. isKept \in BOOLEAN
    BY DEF isKept
  <2> QED BY <1>1, <1>3, <2>1, <2>2, OrderedConcat
<1> HIDE DEF b
<1>5. c \in Seq(Files) /\ Ordered(c)
      /\ Range(c) = Range(b) \cup (IF sel = e THEN {"best"} ELSE {})
  <2>1. \A g \in Range(b) : Rank[g] < Rank["best"]
    BY <1>1, <1>2, <1>4
  <2> QED BY <1>3, <1>4, <2>1, OrderedConcat
<1> HIDE DEF c
<1>6. d \in Seq(Files) /\ Ordered(d)
      /\ Range(d) = Range(c) \cup (IF selE = e THEN {"bestEma"} ELSE {})
  <2>1. \A g \in Range(c) : Rank[g] < Rank["bestEma"]
    BY <1>1, <1>2, <1>4, <1>5
  <2> QED BY <1>3, <1>5, <2>1, OrderedConcat
<1>7. Writes(sel, selE, e) = d
  BY DEF Writes, a, b, c, isKept
<1>8. DueAt(sel, selE, e) = {"last"} \cup (IF isKept THEN {"kept"} ELSE {})
        \cup (IF sel = e THEN {"best"} ELSE {}) \cup (IF selE = e THEN {"bestEma"} ELSE {})
  BY DEF DueAt, Files, isKept
<1> HIDE DEF d
<1> QED BY <1>1, <1>4, <1>5, <1>6, <1>7, <1>8

\* The head of an ordered list comes before all others, and is not among them.
LEMMA OrderedTail ==
  ASSUME NEW q \in Seq(Files), q # <<>>, Ordered(q)
  PROVE  /\ Head(q) \in Range(q) /\ Ordered(Tail(q)) /\ Range(Tail(q)) = Range(q) \ {Head(q)}
         /\ \A f \in Range(q) \ {Head(q)} : Rank[Head(q)] < Rank[f]
         /\ Len(q) = 1 => Range(q) = {Head(q)}
<1>1. Len(q) \in Nat \ {0} /\ Head(q) = q[1]
  BY EmptySeq
<1>2. Tail(q) \in Seq(Files) /\ Len(Tail(q)) = Len(q) - 1 /\ \A i \in 1..(Len(q) - 1) : Tail(q)[i] = q[i + 1]
  BY HeadTailProperties
<1>3. Range(q) = {q[i] : i \in 1..Len(q)} /\ Range(Tail(q)) = {Tail(q)[i] : i \in 1..(Len(q) - 1)}
  BY <1>2, RangeEquality
<1>4. \A i \in 1..Len(q) : q[i] \in Files /\ Rank[q[i]] \in 1..4
  BY RankIsNat, ElementOfSeq
<1>5. \A k \in 2..Len(q) : Rank[q[1]] < Rank[q[k]] /\ q[k] # q[1]
  BY <1>1, <1>4 DEF Ordered
<1>6. Ordered(Tail(q))
  BY <1>1, <1>2 DEF Ordered
<1>7. ASSUME NEW f PROVE f \in Range(Tail(q)) <=> f \in Range(q) \ {Head(q)}
  <2>1. f \in Range(Tail(q)) <=> \E k \in 2..Len(q) : f = q[k]
    <3>1. \A i \in 1..(Len(q) - 1) : i + 1 \in 2..Len(q) /\ Tail(q)[i] = q[i + 1]
      BY <1>1, <1>2
    <3>2. \A k \in 2..Len(q) : k - 1 \in 1..(Len(q) - 1) /\ Tail(q)[k - 1] = q[k]
      BY <1>1, <1>2
    <3>3. ASSUME f \in Range(Tail(q)) PROVE \E k \in 2..Len(q) : f = q[k]
      BY <1>3, <3>1, <3>3
    <3>4. ASSUME NEW k \in 2..Len(q), f = q[k] PROVE f \in Range(Tail(q))
      BY <1>3, <3>2, <3>4
    <3> QED BY <3>3, <3>4
  <2>2. f \in Range(q) <=> f = q[1] \/ \E k \in 2..Len(q) : f = q[k]
    BY <1>1, <1>3
  <2> QED BY <1>1, <1>5, <2>1, <2>2
<1>8. \A f \in Range(q) \ {Head(q)} : \E k \in 2..Len(q) : f = q[k]
  BY <1>1, <1>3
<1> QED BY <1>1, <1>3, <1>5, <1>6, <1>7, <1>8

-----------------------------------------------------------------------------
(* Prefixes of a trajectory, and the epoch that selection recorded          *)

LEMMA PrefixShape ==
  ASSUME NEW t \in Seq(Measurements), NEW s \in 0..(Len(t) - 1)
  PROVE  Prefix(t, s) \in Seq(Measurements) /\ Len(Prefix(t, s)) = s + 1
<1>1. \A i \in 1..(s + 1) : t[i] \in Measurements
  BY ElementOfSeq
<1> QED BY <1>1, SubSeqProperties DEF Prefix

LEMMA PrefixOfAll ==
  ASSUME NEW t \in Seq(Measurements), NEW s \in Int, s = Len(t) - 1
  PROVE  Prefix(t, s) = t
  BY SubSeqFull DEF Prefix

LEMMA PrefixOfAppend ==
  ASSUME NEW t \in Seq(Measurements), NEW m \in Measurements, NEW s \in 0..(Len(t) - 1)
  PROVE  Prefix(Append(t, m), s) = Prefix(t, s)
<1>1. Append(t, m) = t \o <<m>> /\ <<m>> \in Seq(Measurements)
  BY AppendIsConcat
<1>2. 1 \in 1..Len(t) /\ s + 1 \in 1..Len(t)
  OBVIOUS
<1> QED BY <1>1, <1>2, SubSeqOfConcat1 DEF Prefix

\* What selection recorded is an epoch of the trajectory.
LEMMA SelectedIsEpoch ==
  ASSUME NEW c, Sound(c), c.traj \in Seq(Measurements), c.traj # <<>>, c.sel \in Int, c.selE \in Int
  PROVE  c.sel \in 0..(Len(c.traj) - 1) /\ c.selE \in 0..(Len(c.traj) - 1)
<1>1. Len(c.traj) \in Nat \ {0}
  BY EmptySeq
<1>2. DOMAIN Accs(c.traj) = 1..Len(c.traj) /\ DOMAIN Emas(c.traj) = 1..Len(c.traj)
  BY DEF Accs, Emas
<1>3. DOMAIN Accs(c.traj) # {} /\ DOMAIN Emas(c.traj) # {}
  <2>1. 1 \in 1..Len(c.traj)
    BY <1>1
  <2> QED BY <1>2, <2>1
<1>4. c.sel + 1 \in 1..Len(c.traj) /\ c.selE + 1 \in 1..Len(c.traj)
  BY <1>2, <1>3 DEF Sound, EarliestBest
<1> QED BY <1>1, <1>4

\* The earliest best epoch is one only.
LEMMA EarliestBestUnique ==
  ASSUME NEW k \in Nat \ {0}, NEW v \in [1..k -> Nat], NEW sel \in Int, NEW other \in Int,
         NEW best, NEW mark, EarliestBest(v, best, sel), EarliestBest(v, mark, other)
  PROVE  sel = other
<1>1. DOMAIN v # {}
  OBVIOUS
<1>2. sel + 1 \in 1..k /\ other + 1 \in 1..k /\ best = v[sel + 1] /\ mark = v[other + 1]
  BY <1>1 DEF EarliestBest
<1>3. v[sel + 1] <= v[other + 1] /\ v[other + 1] <= v[sel + 1]
  BY <1>1, <1>2 DEF EarliestBest
<1>4. ~(sel + 1 <= other)
  BY <1>1, <1>2, <1>3 DEF EarliestBest
<1>5. ~(other + 1 <= sel)
  BY <1>1, <1>2, <1>3 DEF EarliestBest
<1> QED BY <1>4, <1>5

LEMMA SelectionIsUnique ==
  ASSUME NEW c, NEW d, Sound(c), Sound(d), c.traj = d.traj, c.traj \in Seq(Measurements),
         c.traj # <<>>, c.sel \in Int, c.selE \in Int, d.sel \in Int, d.selE \in Int
  PROVE  c.sel = d.sel /\ c.selE = d.selE
<1> DEFINE k == Len(c.traj)
           v == Accs(c.traj)
           w == Emas(c.traj)
<1>1. k \in Nat \ {0} /\ \A i \in 1..k : c.traj[i] \in Measurements
  BY EmptySeq, ElementOfSeq
<1>2. v \in [1..k -> Nat] /\ w \in [1..k -> Nat]
  BY <1>1, TrainingAssumption DEF Accs, Emas
<1>3. /\ EarliestBest(v, c.best, c.sel) /\ EarliestBest(v, d.best, d.sel)
      /\ EarliestBest(w, c.bestE, c.selE) /\ EarliestBest(w, d.bestE, d.selE)
  BY DEF Sound
<1> HIDE DEF k, v, w
<1> QED BY <1>1, <1>2, <1>3, EarliestBestUnique

-----------------------------------------------------------------------------
(* The files that selection recorded                                       *)

Alive == pc \notin {"down", "fail"}
Selected == {"best", "bestEma"}
\* The epoch that a state has recorded for one of the selected files.
Chosen(c, f) == IF f = "best" THEN c.sel ELSE c.selE
\* No epoch was cut off and the run was resumed from its last state only.
Straight == cut = {} /\ ~rolled
\* Between the first and the last write of an epoch.
HalfSaved == pc = "save" /\ "last" \notin Left

\* What is due and not left is written; each file is of the kind it is for.
SavingInv ==
  /\ Saving => Ordered(todo) /\ Left \subseteq Due /\ \A f \in Due \ Left : disk[f] = Content(f)
  /\ pc = "evaluate" => subset /\ Len(mem.traj) = Epochs
  /\ Exists("kept") => EpochOf(disk["kept"]) = KeptEpoch - 1
  /\ starts = 0 \/ mem.traj = <<>> => \A f \in Files : ~Exists(f)
  /\ \A f \in Files : Exists(f) => disk[f].own = IF f = "bestEma" THEN "ema" ELSE "student"

\* A selected file that is still to be written is of an earlier epoch; any
\* other holds the weights that selection recorded on this trajectory.
Current ==
  (subset \/ Straight) /\ Alive /\ mem.traj # <<>> =>
    \A f \in Selected :
      IF f \in Left THEN EpochOf(disk[f]) < Epoch
      ELSE disk[f].traj = Prefix(mem.traj, Chosen(mem, f))

\* With a selection subset, a selected file of the epoch that another file has
\* recorded is of the trajectory of that file, and cannot become so later.
Consistent ==
  subset =>
    \A f \in Files \ {"bestEma"} : \A g \in Selected : Exists(f) =>
      /\ Holds(g, Chosen(disk[f], g)) => disk[g].traj = Prefix(disk[f].traj, Chosen(disk[f], g))
      /\ \/ Chosen(disk[f], g) <= EpochOf(disk[g])
         \/ Chosen(disk[f], g) = EpochOf(disk[f])

LastIsCurrent ==
  Straight /\ ~HalfSaved /\ Exists("last") =>
    \A f \in Selected : disk[f].traj = Prefix(disk["last"].traj, Chosen(disk["last"], f))

ReportInv ==
  /\ mem.report # NoReport => Len(mem.traj) = Epochs
  /\ FullSplitReadsSelection

SelectInv == SavingInv /\ Current /\ Consistent /\ LastIsCurrent /\ ReportInv

LEMMA SelectInit == SyncInit => SelectInv
<1> SUFFICES ASSUME SyncInit PROVE SelectInv
  OBVIOUS
<1>1. mem = FreshTrainer /\ pc = "down" /\ \A f \in Files : ~Exists(f)
  BY DEF SyncInit, Init, Exists, NoFile
<1>2. mem.report = NoReport /\ "last" \in Files /\ "kept" \in Files
  BY <1>1 DEF FreshTrainer, Files
<1> QED BY <1>1, <1>2
       DEF SelectInv, SavingInv, Saving, Current, Alive, Consistent, LastIsCurrent, ReportInv,
           FullSplitReadsSelection

\* A run that goes straight on was straight, and its step cut nothing off.
LEMMA StraightBefore ==
  ASSUME RunNext, Straight'
  PROVE  Straight /\ ~Cuts
<1>1. CutOff /\ cut' = {} /\ ~rolled'
  BY DEF RunNext, Straight
<1>2. ~Cuts /\ cut = {}
  BY <1>1 DEF CutOff
<1>3. ~rolled
  BY <1>1 DEF RunNext, Start, Resume, Step, Train, Evaluate, EvaluateRefuses, Save, RecordRow,
     RowConflicts, LogRow, GuardPasses, GuardFires, Complete, Finish, Bundle, Fail, FinishAs, Raise, Kill
<1> QED BY <1>2, <1>3 DEF Straight

LEMMA LastIsHead ==
  ASSUME TypeOK, Control, SavingInv, Saving
  PROVE  "last" \in Left <=> Head(todo) = "last"
<1>1. todo \in Seq(Files) /\ todo # <<>> /\ Ordered(todo) /\ Left = Range(todo)
  BY DEF TypeOK, Control, SavingInv, Saving, Left
<1>2. Head(todo) \in Range(todo) /\ \A f \in Range(todo) \ {Head(todo)} : Rank[Head(todo)] < Rank[f]
  BY <1>1, OrderedTail
<1>3. Head(todo) \in Files /\ Rank["last"] = 1
  BY <1>1, HeadTailProperties DEF Rank, Files
<1> QED BY <1>1, <1>2, <1>3, RankIsNat

\* A step that leaves the files and what was trained as they are.
LEMMA SelectQuiet ==
  ASSUME SelectInv, UNCHANGED <<subset, disk>>,
         mem'.traj = mem.traj, mem'.sel = mem.sel, mem'.selE = mem.selE, mem'.report = mem.report,
         starts' = 0 => starts = 0, ~Saving',
         Alive' => (Alive /\ ~Saving) \/ mem.traj = <<>>,
         Straight' => Straight /\ ~HalfSaved
  PROVE  SelectInv'
<1>1. SavingInv'
  BY DEF SelectInv, SavingInv, Saving, Exists, EpochOf
<1>2. Current'
  <2> SUFFICES ASSUME (subset \/ Straight)', Alive', mem'.traj # <<>>, NEW f \in Selected
               PROVE  disk'[f].traj = Prefix(mem'.traj, Chosen(mem', f))
    BY DEF Current, Left
  <2>1. (subset \/ Straight) /\ Alive /\ f \notin Left
    BY DEF Left
  <2> QED BY <2>1 DEF SelectInv, Current, Chosen
<1>3. Consistent'
  BY DEF SelectInv, Consistent, Exists, Holds, Chosen, EpochOf
<1>4. LastIsCurrent'
  BY DEF SelectInv, LastIsCurrent, Exists, Chosen
<1>5. ReportInv'
  BY DEF SelectInv, ReportInv, FullSplitReadsSelection
<1> QED BY <1>1, <1>2, <1>3, <1>4, <1>5 DEF SelectInv

\* What the types and the selection say of the state in memory.
LEMMA MemIsSelected ==
  ASSUME TypeOK, SelectionIsEarliestBest, mem.traj # <<>>
  PROVE  /\ mem.traj \in Seq(Measurements) /\ Len(mem.traj) \in Nat \ {0} /\ Epoch = Len(mem.traj) - 1
         /\ \A f \in Selected : Chosen(mem, f) \in 0..Epoch
<1>1. mem.traj \in Seq(Measurements) /\ mem.sel \in Int /\ mem.selE \in Int
  BY DEF TypeOK, Trainer
<1>2. Len(mem.traj) \in Nat \ {0} /\ Epoch = Len(mem.traj) - 1
  BY <1>1, EmptySeq DEF Epoch, EpochOf
<1>3. mem.sel \in 0..(Len(mem.traj) - 1) /\ mem.selE \in 0..(Len(mem.traj) - 1)
  BY <1>1, SelectedIsEpoch DEF SelectionIsEarliestBest
<1> QED BY <1>1, <1>2, <1>3 DEF Chosen

LEMMA EvaluateSelects ==
  ASSUME TypeOK, RunInv, SelectInv, Evaluate, RunNext
  PROVE  SelectInv'
<1>1. /\ mem'.traj = mem.traj /\ mem'.sel = mem.sel /\ mem'.selE = mem.selE
      /\ mem'.best = mem.best /\ mem'.bestE = mem.bestE
      /\ pc = "evaluate" /\ pc' = "save" /\ UNCHANGED <<subset, disk, todo, starts>>
      /\ subset /\ Len(mem.traj) = Epochs /\ mem.traj # <<>>
  BY EvaluateDoes DEF Evaluate, config, fileVars, SelectInv, SavingInv, RunInv, Control, Inside
<1>2. Saving /\ Saving' /\ Left' = Left /\ Due' = Due
  BY <1>1 DEF Saving, Left, Due, Epoch, EpochOf
<1>3. \A f \in Files : Content(f)' = Content(f)
  BY <1>1 DEF Content, Checkpoint
<1>4. SavingInv'
  <2>1. Due \subseteq Files
    BY DEF Due, DueAt
  <2>2. Ordered(todo') /\ Left' \subseteq Due' /\ \A f \in Due' \ Left' : disk'[f] = Content(f)'
    BY <1>1, <1>2, <1>3, <2>1 DEF SelectInv, SavingInv
  <2> QED BY <1>1, <2>2 DEF SelectInv, SavingInv, Exists, EpochOf
<1>5. Straight' => Straight
  BY StraightBefore
<1>6. Current'
  BY <1>1, <1>2, <1>5 DEF SelectInv, Current, Alive, Chosen, Epoch, EpochOf
<1>7. Consistent'
  BY <1>1 DEF SelectInv, Consistent, Exists, Holds, Chosen, EpochOf
<1>8. LastIsCurrent'
  BY <1>1, <1>5 DEF SelectInv, LastIsCurrent, HalfSaved, Exists, Chosen
<1>9. ASSUME NEW f \in Selected,
             Chosen(mem, f) = Epoch \/ Holds(f, Chosen(mem, f))
      PROVE  (IF Chosen(mem, f) = Epoch THEN mem.traj ELSE disk[f].traj) = Prefix(mem.traj, Chosen(mem, f))
  <2>1. mem.traj \in Seq(Measurements) /\ Epoch = Len(mem.traj) - 1 /\ Chosen(mem, f) \in 0..Epoch
    BY <1>1, MemIsSelected DEF RunInv
  <2>2. CASE Chosen(mem, f) = Epoch
    BY <2>1, <2>2, PrefixOfAll
  <2>3. CASE Chosen(mem, f) # Epoch
    <3>1. f \notin Due
      BY <2>3 DEF Due, DueAt, Chosen, Selected
    <3>2. f \notin Left
      BY <1>2, <3>1 DEF SelectInv, SavingInv
    <3> QED BY <1>1, <2>3, <3>2 DEF SelectInv, Current, Alive
  <2> QED BY <2>2, <2>3
<1>10. ReportInv'
  <2>1. (Improved \/ Holds("best", mem.sel)) /\ (ImprovedEma \/ Holds("bestEma", mem.selE))
    BY DEF Evaluate, CanEvaluate
  <2>2. /\ (IF Improved THEN mem.traj ELSE disk["best"].traj) = Prefix(mem.traj, mem.sel)
        /\ (IF ImprovedEma THEN mem.traj ELSE disk["bestEma"].traj) = Prefix(mem.traj, mem.selE)
    BY <1>9, <2>1 DEF Improved, ImprovedEma, Chosen, Selected
  <2>3. mem' = [mem EXCEPT !.report =
          [student |-> IF Improved THEN mem.traj ELSE disk["best"].traj,
           ema |-> IF ImprovedEma THEN mem.traj ELSE disk["bestEma"].traj]]
    BY DEF Evaluate
  <2>4. mem'.report.student = Prefix(mem.traj, mem.sel) /\ mem'.report.ema = Prefix(mem.traj, mem.selE)
    BY <2>2, <2>3 DEF TypeOK, Trainer
  <2> QED BY <1>1, <2>4 DEF ReportInv, FullSplitReadsSelection
<1> QED BY <1>4, <1>6, <1>7, <1>8, <1>10 DEF SelectInv

LEMMA NoFileIsEarlier ==
  ASSUME TypeOK, NEW f \in Files, ~Exists(f)
  PROVE  EpochOf(disk[f]) = -1
<1>1. disk[f] = NoFile
  BY DEF TypeOK, Exists, SavedState
<1> QED BY <1>1, EmptySeq DEF NoFile, EpochOf

LEMMA TrainSelects ==
  ASSUME TypeOK, RunInv, SelectInv, NEW m \in Measurements, Train(m), RunNext
  PROVE  SelectInv'
<1> DEFINE e == Len(mem.traj)
<1>1. /\ pc = "train" /\ pc' \in {"evaluate", "save"} /\ UNCHANGED <<subset, disk, starts>>
      /\ pc' = "evaluate" => subset /\ e + 1 = Epochs
      /\ mem'.report = mem.report /\ mem' \in Trainer /\ mem'.traj = Append(mem.traj, m)
      /\ todo' = Writes(mem'.sel, mem'.selE, e)
  <2>1. pc' = IF subset /\ Len(mem.traj) + 1 = Epochs THEN "evaluate" ELSE "save"
    BY TrainDoes
  <2>2. mem'.report = mem.report /\ pc = "train" /\ UNCHANGED <<subset, disk, starts>>
    BY DEF Train, config, fileVars, TypeOK, Trainer
  <2> QED BY <2>1, <2>2, TrainDoes
<1>2. /\ mem.traj \in Seq(Measurements) /\ e \in Nat /\ e < Epochs
      /\ mem'.traj # <<>> /\ Len(mem'.traj) = e + 1 /\ Epoch' = e
  <2>1. mem.traj \in Seq(Measurements) /\ e < Epochs
    BY <1>1 DEF TypeOK, Trainer, RunInv, Control
  <2>2. Len(mem'.traj) = e + 1 /\ mem'.traj # <<>> /\ e \in Nat
    BY <1>1, <2>1, AppendProperties
  <2> QED BY <2>1, <2>2 DEF Epoch, EpochOf
<1>3. mem'.sel \in Int /\ mem'.selE \in Int
  BY <1>1 DEF Trainer
<1>4. Saving' /\ Left' = Due' /\ Ordered(todo')
  BY <1>1, <1>2, <1>3, WritesAreDue DEF Saving, Left, Due
<1>5. Straight' => Straight
  BY StraightBefore
<1>6. SavingInv'
  BY <1>1, <1>2, <1>4 DEF SelectInv, SavingInv, Exists, EpochOf
<1>7. ASSUME NEW f \in Selected, Chosen(mem', f) # e
      PROVE  mem.traj # <<>> /\ Chosen(mem', f) = Chosen(mem, f)
  <2>1. mem'.sel = (IF Beats(m.acc, mem.best) THEN e ELSE mem.sel)
        /\ mem'.selE = (IF Beats(m.ema, mem.bestE) THEN e ELSE mem.selE)
    BY TrainDoes
  <2>2. m.acc \in Nat /\ m.ema \in Nat
    BY TrainingAssumption
  <2>3. mem.traj = <<>> => Beats(m.acc, mem.best) /\ Beats(m.ema, mem.bestE)
    BY <2>2 DEF RunInv, FreshInv, None, Beats
  <2> HIDE DEF e
  <2> QED BY <1>7, <2>1, <2>3 DEF Chosen, Selected
<1>8. Current'
  <2> SUFFICES ASSUME (subset \/ Straight)', NEW f \in Selected
               PROVE  IF f \in Left' THEN EpochOf(disk'[f]) < Epoch'
                      ELSE disk'[f].traj = Prefix(mem'.traj, Chosen(mem', f))
    BY DEF Current
  <2>1. f \in Files /\ f \notin Left /\ disk' = disk /\ (subset \/ Straight)
    BY <1>1, <1>5 DEF Selected, Files, Left, Saving
  <2>2. ASSUME mem.traj # <<>>
        PROVE  /\ disk[f].traj = Prefix(mem.traj, Chosen(mem, f))
               /\ Chosen(mem, f) \in 0..(e - 1) /\ EpochOf(disk[f]) < e
    <3>1. disk[f].traj = Prefix(mem.traj, Chosen(mem, f))
      BY <1>1, <2>1, <2>2 DEF SelectInv, Current, Alive
    <3>2. Chosen(mem, f) \in 0..(e - 1)
      BY <2>2, MemIsSelected DEF RunInv
    <3>3. Len(disk[f].traj) = Chosen(mem, f) + 1
      BY <1>2, <3>1, <3>2, PrefixShape
    <3> QED BY <1>2, <3>1, <3>2, <3>3 DEF EpochOf
  <2>3. CASE f \in Left'
    <3>1. mem.traj = <<>> => EpochOf(disk[f]) = -1
      BY <2>1, NoFileIsEarlier DEF SelectInv, SavingInv
    <3> QED BY <1>2, <2>1, <2>2, <2>3, <3>1
  <2>4. CASE f \notin Left'
    <3>1. Chosen(mem', f) # e
      BY <1>2, <1>4, <2>1, <2>4 DEF Due, DueAt, Chosen, Selected
    <3>2. mem.traj # <<>> /\ Chosen(mem', f) = Chosen(mem, f)
      BY <1>7, <3>1
    <3>3. Prefix(mem'.traj, Chosen(mem, f)) = Prefix(mem.traj, Chosen(mem, f))
      BY <1>1, <1>2, <2>2, <3>2, PrefixOfAppend
    <3> QED BY <2>1, <2>2, <2>4, <3>2, <3>3
  <2> QED BY <2>3, <2>4
<1>9. Consistent'
  BY <1>1 DEF SelectInv, Consistent, Exists, Holds, Chosen, EpochOf
<1>10. LastIsCurrent'
  BY <1>1, <1>5 DEF SelectInv, LastIsCurrent, HalfSaved, Exists, Chosen
<1>11. ReportInv'
  BY <1>1, <1>2 DEF SelectInv, ReportInv, FullSplitReadsSelection
<1> QED BY <1>6, <1>8, <1>9, <1>10, <1>11 DEF SelectInv

LEMMA ResumeSelects ==
  ASSUME TypeOK, RunInv, SelectInv, NEW f \in Files, Resume(f), RunNext
  PROVE  SelectInv'
<1>1. /\ UNCHANGED <<subset, disk>> /\ pc = "down" /\ pc' \in {"train", "fail"} /\ starts' # 0
      /\ mem'.report = NoReport /\ mem'.traj = disk[f].traj /\ mem'.traj # <<>>
      /\ mem'.sel = disk[f].sel /\ mem'.selE = disk[f].selE /\ disk[f].own = "student"
      /\ mem'.traj \in Seq(Measurements) /\ mem'.sel \in Int /\ mem'.selE \in Int
  <2>1. starts' = starts + 1 /\ starts \in Nat
    BY DEF Resume, Attach, TypeOK
  <2>2. mem'.traj # <<>>
    BY ResumeDoes, EmptySeq
  <2> QED BY <2>1, <2>2, ResumeDoes DEF Resume, config, Trainer
<1>2. f \in Files \ {"bestEma"} /\ Exists(f)
  BY <1>1 DEF SelectInv, SavingInv, Exists
<1>3. SavingInv'
  BY <1>1 DEF SelectInv, SavingInv, Saving, Exists, EpochOf
<1>4. Current'
  <2> SUFFICES ASSUME (subset \/ Straight)', Alive', NEW g \in Selected
               PROVE  disk'[g].traj = Prefix(mem'.traj, Chosen(mem', g))
    BY <1>1 DEF Current, Left, Saving
  <2>1. Chosen(mem', g) = Chosen(disk[f], g)
    BY <1>1 DEF Chosen
  <2>2. CASE subset
    <3>1. Holds("best", disk[f].sel) /\ Holds("bestEma", disk[f].selE)
      BY <1>1, <2>2 DEF Resume, RecordedFiles, Alive
    <3>2. Holds(g, Chosen(disk[f], g))
      BY <3>1 DEF Chosen, Selected
    <3> QED BY <1>1, <1>2, <2>1, <2>2, <3>2 DEF SelectInv, Consistent
  <2>3. CASE ~subset
    <3>1. Straight /\ ~rolled'
      BY <1>1, <2>3, StraightBefore DEF Straight
    <3>2. disk[f].traj = disk["last"].traj
      BY <3>1 DEF Resume
    <3>3. Exists("last")
      BY <1>1, <3>2 DEF TypeOK, Files, Exists, NoFile, SavedState
    <3>4. disk["last"].own = "student" /\ "last" \in Files
      BY <3>3 DEF SelectInv, SavingInv, Files
    <3>5. Sound(disk["last"]) /\ Sound(disk[f])
      BY <1>1, <3>4 DEF RunInv, SelectionIsEarliestBest, StudentSelected
    <3>6. disk["last"].sel \in Int /\ disk["last"].selE \in Int
      BY <3>4 DEF TypeOK, NoFile, SavedState
    <3>7. disk["last"].sel = disk[f].sel /\ disk["last"].selE = disk[f].selE
      BY <1>1, <3>2, <3>5, <3>6, SelectionIsUnique
    <3>8. disk[g].traj = Prefix(disk["last"].traj, Chosen(disk["last"], g))
      BY <1>1, <3>1, <3>3 DEF SelectInv, LastIsCurrent, HalfSaved
    <3> QED BY <1>1, <2>1, <3>2, <3>7, <3>8 DEF Chosen
  <2> QED BY <2>2, <2>3
<1>5. Consistent'
  BY <1>1 DEF SelectInv, Consistent, Exists, Holds, Chosen, EpochOf
<1>6. LastIsCurrent'
  BY <1>1, StraightBefore DEF SelectInv, LastIsCurrent, HalfSaved, Exists, Chosen
<1>7. ReportInv'
  BY <1>1 DEF ReportInv, FullSplitReadsSelection
<1> QED BY <1>3, <1>4, <1>5, <1>6, <1>7 DEF SelectInv

\* What a write leaves: one file less to write, and that file as it should be.
LEMMA SaveWrites ==
  ASSUME TypeOK, RunInv, SavingInv, Save
  PROVE  LET h == Head(todo) IN
         /\ h \in Left /\ h \in Due /\ h \in Files
         /\ Left' = Left \ {h} /\ Due' = Due /\ "last" \notin Left'
         /\ pc' = "save" => Ordered(todo')
         /\ \A f \in Left \ {h} : Rank[h] < Rank[f]
         /\ disk'[h] = Content(h) /\ Content(h).traj = mem.traj
         /\ \A f \in Files \ {h} : disk'[f] = disk[f]
         /\ UNCHANGED <<subset, mem, starts>> /\ pc = "save" /\ pc' \in {"save", "row"}
         /\ pc' = "row" => Left' = {}
         /\ mem.traj # <<>>
<1> DEFINE h == Head(todo)
<1>1. pc = "save" /\ todo # <<>> /\ todo \in Seq(Files) /\ Ordered(todo) /\ mem.traj # <<>>
      /\ Left = Range(todo) /\ Left \subseteq Due
  BY DEF Save, RunInv, Control, Inside, TypeOK, SavingInv, Saving, Left
<1>2. /\ h \in Left /\ Range(Tail(todo)) = Left \ {h} /\ Ordered(Tail(todo))
      /\ \A f \in Left \ {h} : Rank[h] < Rank[f]
      /\ Len(todo) = 1 => Left = {h}
  BY <1>1, OrderedTail
<1>3. h \in Files /\ disk'[h] = Content(h) /\ \A f \in Files \ {h} : disk'[f] = disk[f]
  BY <1>1, SaveDoes
<1>4. todo' = Tail(todo) /\ pc' = (IF Len(todo) = 1 THEN "row" ELSE "save")
      /\ UNCHANGED <<subset, mem, starts>>
  BY DEF Save, config
<1>5. Content(h).traj = mem.traj
  BY ContentIsSaved DEF TypeOK
<1>6. Left' = Left \ {h}
  BY <1>2, <1>4 DEF Left, Saving
<1>7. "last" \notin Left'
  <2>1. Rank["last"] = 1 /\ Rank[h] \in 1..4
    BY <1>3, RankIsNat DEF Rank, Files
  <2> QED BY <1>2, <1>6, <2>1
<1>8. Due' = Due
  BY <1>4 DEF Due, Epoch, EpochOf
<1> QED BY <1>1, <1>2, <1>3, <1>4, <1>5, <1>6, <1>7, <1>8

LEMMA SaveKeepsSaving ==
  ASSUME TypeOK, RunInv, SavingInv, Save
  PROVE  SavingInv' /\ \A f \in Due \ Left' : disk'[f] = Content(f)
<1> DEFINE h == Head(todo)
<1>1. \A f \in Due \ Left' : f \in Files /\ disk'[f] = Content(f)
  <2> SUFFICES ASSUME NEW f \in Due, f \notin Left' PROVE f \in Files /\ disk'[f] = Content(f)
    OBVIOUS
  <2>1. f \in Files
    BY DEF Due, DueAt
  <2>2. CASE f = h
    BY <2>1, <2>2, SaveWrites
  <2>3. CASE f # h
    BY <2>1, <2>3, SaveWrites DEF SavingInv, Saving
  <2> QED BY <2>2, <2>3
<1>2. \A f \in Files : Content(f)' = Content(f)
  BY SaveWrites DEF Content, Checkpoint
<1>3. Saving' => Ordered(todo') /\ Left' \subseteq Due' /\ \A f \in Due' \ Left' : disk'[f] = Content(f)'
  BY <1>1, <1>2, SaveWrites DEF Saving, SavingInv
<1>4. Exists("kept")' => EpochOf(disk'["kept"]) = KeptEpoch - 1
  <2>1. CASE h = "kept"
    <3>1. Epoch + 1 = KeptEpoch /\ EpochOf(disk'["kept"]) = Epoch /\ Epoch \in Int
      BY <2>1, SaveWrites, EpochIsEpoch DEF Due, DueAt, Epoch, EpochOf
    <3> QED BY <3>1
  <2>2. CASE h # "kept"
    BY <2>2, SaveWrites DEF SavingInv, Exists, Files
  <2> QED BY <2>1, <2>2
<1>5. starts' # 0 /\ mem'.traj # <<>>
  BY SaveWrites DEF RunInv, Unstarted
<1>6. \A f \in Files : Exists(f)' => disk'[f].own = IF f = "bestEma" THEN "ema" ELSE "student"
  <2> SUFFICES ASSUME NEW f \in Files, Exists(f)'
               PROVE  disk'[f].own = IF f = "bestEma" THEN "ema" ELSE "student"
    OBVIOUS
  <2>1. CASE f = h
    BY <2>1, SaveWrites, ContentIsSaved DEF TypeOK
  <2>2. CASE f # h
    BY <2>2, SaveWrites DEF SavingInv, Exists
  <2> QED BY <2>1, <2>2
<1>7. pc' # "evaluate"
  BY SaveWrites
<1> QED BY <1>1, <1>3, <1>4, <1>5, <1>6, <1>7 DEF SavingInv

LEMMA SaveKeepsCurrent ==
  ASSUME TypeOK, RunInv, SelectInv, Save, RunNext
  PROVE  Current'
<1> DEFINE h == Head(todo)
<1> SUFFICES ASSUME (subset \/ Straight)', NEW f \in Selected
             PROVE  IF f \in Left' THEN EpochOf(disk'[f]) < Epoch'
                    ELSE disk'[f].traj = Prefix(mem'.traj, Chosen(mem', f))
  BY DEF Current
<1>1. (subset \/ Straight) /\ SavingInv
  BY StraightBefore, SaveWrites DEF SelectInv
<1>2. /\ f \in Files /\ mem' = mem /\ Epoch' = Epoch
      /\ IF f \in Left THEN EpochOf(disk[f]) < Epoch
         ELSE disk[f].traj = Prefix(mem.traj, Chosen(mem, f))
  BY <1>1, SaveWrites DEF SelectInv, Current, Alive, Selected, Files, Epoch, EpochOf
<1>3. CASE f = h
  <2>1. Chosen(mem, f) = Epoch
    BY <1>1, <1>3, SaveWrites DEF Due, DueAt, Chosen, Selected
  <2>2. Prefix(mem.traj, Epoch) = mem.traj
    BY <1>1, SaveWrites, MemIsSelected, PrefixOfAll DEF RunInv
  <2> QED BY <1>1, <1>2, <1>3, <2>1, <2>2, SaveWrites
<1>4. CASE f # h
  BY <1>1, <1>2, <1>4, SaveWrites
<1> QED BY <1>3, <1>4

LEMMA SaveKeepsConsistent ==
  ASSUME TypeOK, RunInv, SelectInv, Save, RunNext
  PROVE  Consistent'
<1> DEFINE h == Head(todo)
<1> SUFFICES ASSUME subset', NEW f \in Files \ {"bestEma"}, NEW g \in Selected, Exists(f)'
             PROVE  LET s == Chosen(disk'[f], g) IN
                    /\ disk'[g].own # "none" /\ EpochOf(disk'[g]) = s => disk'[g].traj = Prefix(disk'[f].traj, s)
                    /\ s <= EpochOf(disk'[g]) \/ s = EpochOf(disk'[f])
  BY DEF Consistent, Chosen, Holds, Exists, EpochOf
<1> DEFINE s == Chosen(disk'[f], g)
           holds == disk'[g].own # "none" /\ EpochOf(disk'[g]) = s
<1>1. subset /\ SavingInv /\ g \in Files /\ h \in Files /\ mem' = mem /\ Epoch \in Nat
      /\ Epoch = Len(mem.traj) - 1 /\ mem.traj \in Seq(Measurements) /\ Chosen(mem, g) \in 0..Epoch
  <2>1. SavingInv /\ SelectionIsEarliestBest
    BY DEF SelectInv, RunInv
  <2>2. subset /\ h \in Files /\ mem' = mem /\ mem.traj # <<>>
    BY <2>1, SaveWrites
  <2>3. /\ mem.traj \in Seq(Measurements) /\ Len(mem.traj) \in Nat \ {0}
        /\ Epoch = Len(mem.traj) - 1 /\ Chosen(mem, g) \in 0..Epoch
    BY <2>1, <2>2, MemIsSelected
  <2> QED BY <2>1, <2>2, <2>3 DEF Selected, Files
<1>2. Current /\ Current' /\ SavingInv' /\ \A x \in Due \ Left' : disk'[x] = Content(x)
  BY SaveKeepsCurrent, SaveKeepsSaving DEF SelectInv
<1>3. IF g \in Left' THEN EpochOf(disk'[g]) < Epoch ELSE disk'[g].traj = Prefix(mem.traj, Chosen(mem, g))
  BY <1>1, <1>2, SaveWrites DEF Current, Alive, Epoch, EpochOf
<1>4. g \in Left' => Chosen(mem, g) = Epoch
  BY <1>1, SaveWrites DEF SavingInv, Saving, Due, DueAt, Chosen, Selected
<1>5. \A x \in Files \ {"bestEma"} :
        Content(x).traj = mem.traj /\ Chosen(Content(x), g) = Chosen(mem, g)
  BY ContentIsSaved DEF TypeOK, Chosen
\* A file that holds what is in memory agrees with the selected ones.
<1>6. ASSUME disk'[f] = Content(f)
      PROVE  /\ holds => disk'[g].traj = Prefix(disk'[f].traj, s)
             /\ s <= EpochOf(disk'[g]) \/ s = EpochOf(disk'[f])
  <2>1. disk'[f].traj = mem.traj /\ s = Chosen(mem, g) /\ EpochOf(disk'[f]) = Epoch
    BY <1>1, <1>5, <1>6 DEF EpochOf
  <2>2. CASE g \in Left'
    <3>1. s = Epoch /\ EpochOf(disk'[g]) < Epoch
      BY <1>3, <1>4, <2>1, <2>2
    <3>2. ~holds
      BY <3>1, <1>1 DEF EpochOf
    <3>3. s = EpochOf(disk'[f])
      BY <2>1, <3>1, Zenon
    <3>4. s <= EpochOf(disk'[g]) \/ s = EpochOf(disk'[f])
      BY <3>3, Zenon
    <3>5. holds => disk'[g].traj = Prefix(disk'[f].traj, s)
      BY <3>2, Zenon
    <3> HIDE DEF s, holds
    <3> QED BY <3>4, <3>5
  <2>3. CASE g \notin Left'
    <3>1. disk'[g].traj = Prefix(mem.traj, s)
      BY <1>3, <2>1, <2>3
    <3>2. Len(disk'[g].traj) = s + 1
      BY <1>1, <2>1, <3>1, PrefixShape
    <3> QED BY <1>1, <2>1, <3>1, <3>2 DEF EpochOf
  <2> QED BY <2>2, <2>3
<1>7. CASE f = h
  BY <1>1, <1>6, <1>7, SaveWrites
<1>8. CASE f # h /\ g # h
  <2>1. disk'[f] = disk[f] /\ disk'[g] = disk[g]
    BY <1>1, <1>8, SaveWrites
  <2>2. Exists(f) /\ s = Chosen(disk[f], g)
    BY <2>1 DEF Exists
  <2>3. /\ Holds(g, Chosen(disk[f], g)) => disk[g].traj = Prefix(disk[f].traj, Chosen(disk[f], g))
        /\ Chosen(disk[f], g) <= EpochOf(disk[g]) \/ Chosen(disk[f], g) = EpochOf(disk[f])
    BY <1>1, <2>2 DEF SelectInv, Consistent
  <2>4. EpochOf(disk'[g]) = EpochOf(disk[g]) /\ EpochOf(disk'[f]) = EpochOf(disk[f])
    BY <2>1, Zenon DEF EpochOf
  <2> QED BY <2>1, <2>2, <2>3, <2>4, Zenon DEF Holds, Exists
\* The file just selected is of this epoch, which no other file has recorded.
<1>9. CASE f # h /\ g = h
  <2>1. disk'[f] = disk[f] /\ Exists(f) /\ s = Chosen(disk[f], g) /\ EpochOf(disk'[f]) = EpochOf(disk[f])
    BY <1>1, <1>9, SaveWrites DEF Exists, EpochOf
  <2>2. EpochOf(disk[g]) < Epoch /\ EpochOf(disk'[g]) = Epoch
    BY <1>1, <1>2, <1>9, SaveWrites DEF Current, Alive, EpochOf
  <2>3. disk[f] \in SavedState /\ s \in Int /\ EpochOf(disk[f]) \in Int /\ EpochOf(disk[g]) \in Int
    <3>1. disk[f] \in SavedState
      BY <2>1 DEF TypeOK, Exists, NoFile
    <3>2. disk[g].traj \in Seq(Measurements)
      <4>1. disk[g] \in SavedState \/ disk[g] = NoFile
        BY <1>1 DEF TypeOK
      <4>2. NoFile.traj \in Seq(Measurements)
        BY EmptySeq DEF NoFile
      <4> QED BY <4>1, <4>2 DEF SavedState
    <3> QED BY <2>1, <3>1, <3>2, LenProperties DEF SavedState, Chosen, EpochOf
  <2>4. s <= EpochOf(disk[g]) \/ s = EpochOf(disk[f])
    BY <1>1, <2>1 DEF SelectInv, Consistent
  <2>5. CASE disk'[f] = Content(f)
    BY <1>6, <2>5
  <2>6. CASE disk'[f] # Content(f)
    <3>1. f \notin Due \ Left'
      BY <1>2, <2>6
    <3>2. f # "last"
      BY <3>1, SaveWrites, <1>1 DEF Due, DueAt, Files
    <3>3. EpochOf(disk[f]) # Epoch
      <4>1. f \notin Left' => f \notin Due
        BY <3>1
      <4> Rank["kept"] = 2 /\ Rank["best"] = 3 /\ Rank["bestEma"] = 4 /\ g \in {"best", "bestEma"}
        BY DEF Rank, Files, Selected
      <4>0. Left' = Left \ {g} /\ \A x \in Left \ {g} : Rank[g] < Rank[x]
        BY <1>1, <1>9, SaveWrites
      <4>2. CASE f = "kept"
        <5>1. f \notin Left'
          BY <1>9, <4>0, <4>2
        <5>2. Epoch + 1 # KeptEpoch
          BY <4>1, <4>2, <5>1 DEF Due, DueAt, Files
        <5>3. EpochOf(disk[f]) = KeptEpoch - 1
          BY <1>1, <2>1, <4>2 DEF SavingInv
        <5> QED BY <1>1, <5>2, <5>3, TrainingAssumption
      <4>3. CASE f = "best"
        <5>1. g = "bestEma" /\ f \notin Left /\ f \notin Due
          BY <1>9, <4>0, <4>1, <4>3
        <5>2. mem.sel # Epoch /\ mem.sel = Chosen(mem, f) /\ f \in Selected
          BY <4>3, <5>1 DEF Due, DueAt, Files, Chosen, Selected
        <5>3. disk[f].traj = Prefix(mem.traj, mem.sel)
          BY <1>1, <1>2, <5>1, <5>2, SaveWrites DEF Current, Alive
        <5>4. mem.sel \in 0..Epoch
          BY <1>1, <5>2, SaveWrites, MemIsSelected DEF RunInv
        <5>5. Len(disk[f].traj) = mem.sel + 1
          BY <1>1, <5>3, <5>4, PrefixShape
        <5> QED BY <1>1, <5>2, <5>4, <5>5 DEF EpochOf
      <4> QED BY <3>2, <4>2, <4>3 DEF Files
    <3>4. s # Epoch
      BY <1>1, <2>2, <2>3, <2>4, <3>3
    <3>5. ~holds
      BY <2>2, <3>4
    <3>6. s <= Epoch \/ s = EpochOf(disk[f])
      BY <1>1, <2>2, <2>3, <2>4
    <3> QED BY <2>1, <2>2, <3>5, <3>6
  <2> QED BY <2>5, <2>6
<1> QED BY <1>7, <1>8, <1>9

LEMMA SaveSelects ==
  ASSUME TypeOK, RunInv, SelectInv, Save, RunNext
  PROVE  SelectInv'
<1>1. SavingInv' /\ Current' /\ Consistent' /\ SavingInv
  BY SaveKeepsSaving, SaveKeepsCurrent, SaveKeepsConsistent DEF SelectInv
<1>2. LastIsCurrent'
  <2> SUFFICES ASSUME Straight', ~HalfSaved', NEW f \in Selected
               PROVE  disk'[f].traj = Prefix(disk'["last"].traj, Chosen(disk'["last"], f))
    BY DEF LastIsCurrent
  <2>1. pc' = "row" /\ Left' = {}
    BY <1>1, SaveWrites DEF HalfSaved
  <2>2. "last" \in Due
    BY DEF Due, DueAt, Files
  <2>3. disk'["last"] = Content("last") /\ mem' = mem /\ mem.traj # <<>>
    BY <1>1, <2>1, <2>2, SaveKeepsSaving, SaveWrites
  <2>4. disk'["last"].traj = mem.traj /\ Chosen(disk'["last"], f) = Chosen(mem, f)
    BY <2>3, ContentIsSaved DEF TypeOK, Chosen
  <2>5. disk'[f].traj = Prefix(mem.traj, Chosen(mem, f))
    BY <1>1, <2>1, <2>3 DEF Current, Alive
  <2> QED BY <2>4, <2>5
<1>3. ReportInv'
  BY <1>1, SaveWrites DEF SelectInv, ReportInv, FullSplitReadsSelection
<1> QED BY <1>1, <1>2, <1>3 DEF SelectInv

\* A process that ends in the middle of writing an epoch cuts it off.
LEMMA HalfSavedIsCut ==
  ASSUME TypeOK, RunInv, SavingInv, HalfSaved, Raise \/ Kill
  PROVE  Cuts
<1>1. Saving /\ Head(todo) # "last" /\ pc = "save"
  BY LastIsHead DEF HalfSaved, Saving, RunInv
<1>2. pc' \in {"down", "fail"} /\ marker' = marker /\ man' = man
  BY DEF Raise, Kill, fileVars
<1>3. man.status \notin Terminal
  BY <1>1 DEF RunInv, ManifestInv, Terminal
<1> QED BY <1>1, <1>2, <1>3 DEF Cuts, Ending

LEMMA SelectStep ==
  ASSUME TypeOK, RunInv, SelectInv, RunNext
  PROVE  SelectInv'
<1>1. CASE Start
  <2>1. /\ UNCHANGED <<subset, disk, mem>> /\ mem.traj = <<>> /\ pc = "down" /\ pc' = "train"
        /\ starts' = starts + 1 /\ starts = 0
    BY <1>1, FreshIsTrainer DEF Start, Attach, config, RunInv, Unstarted
  <2> QED BY <2>1, StraightBefore, SelectQuiet DEF Saving, HalfSaved
<1>2. ASSUME NEW f \in Files, Resume(f) PROVE SelectInv'
  BY <1>2, ResumeSelects
<1>3. ASSUME NEW m \in Measurements, Train(m) PROVE SelectInv'
  BY <1>3, TrainSelects
<1>4. CASE Evaluate
  BY <1>4, EvaluateSelects
<1>5. CASE Save
  BY <1>5, SaveSelects
<1>6. CASE \/ RecordRow \/ RowConflicts \/ LogRow \/ GuardFires \/ Complete \/ Finish
           \/ Bundle \/ Fail
  <2>1. /\ UNCHANGED <<subset, disk, mem, starts>>
        /\ pc \in {"row", "log", "guard", "complete", "finish", "bundle", "fail"}
        /\ pc' \in {"down", "fail", "log", "guard", "finish", "bundle"}
        /\ pc = "fail" => pc' = "down"
    BY <1>6 DEF RecordRow, RowConflicts, LogRow, GuardFires, Complete, Finish, Bundle, Fail, FinishAs,
       config, fileVars
  <2> QED BY <2>1, StraightBefore, SelectQuiet DEF Saving, HalfSaved, Alive
<1>7. CASE GuardPasses
  <2>1. /\ UNCHANGED <<subset, disk, starts>> /\ pc = "guard" /\ pc' \in {"complete", "train"}
        /\ mem' = [mem EXCEPT !.first = FirstSeen]
    BY <1>7 DEF GuardPasses, config, fileVars
  <2>2. mem'.traj = mem.traj /\ mem'.sel = mem.sel /\ mem'.selE = mem.selE /\ mem'.report = mem.report
    BY <2>1 DEF TypeOK, Trainer
  <2> QED BY <2>1, <2>2, StraightBefore, SelectQuiet DEF Saving, HalfSaved, Alive
<1>8. CASE EvaluateRefuses \/ Raise \/ Kill
  <2>1. UNCHANGED <<subset, disk, mem, starts>> /\ pc' \in {"down", "fail"}
    BY <1>8 DEF EvaluateRefuses, Raise, Kill, config, fileVars
  <2>2. Straight' => ~HalfSaved
    BY <1>8, StraightBefore, HalfSavedIsCut DEF EvaluateRefuses, HalfSaved, SelectInv
  <2> QED BY <2>1, <2>2, StraightBefore, SelectQuiet DEF Saving, Alive
<1> QED BY <1>1, <1>2, <1>3, <1>4, <1>5, <1>6, <1>7, <1>8 DEF RunNext, Step

LEMMA SelectUnchanged ==
  ASSUME SelectInv, UNCHANGED <<config, disk, processVars, starts, cut, rolled>>
  PROVE  SelectInv'
  BY DEF SelectInv, SavingInv, Current, Consistent, LastIsCurrent, ReportInv, FullSplitReadsSelection,
     config, processVars, Saving, Left, Due, Epoch, EpochOf, Exists, Holds, Chosen, Alive, Straight,
     HalfSaved, Content, Checkpoint

LEMMA AlwaysSelectInv == SyncSpec => []SelectInv
<1>1. SyncTypeOK /\ RunInv /\ SelectInv /\ [SyncNext]_allVars => SelectInv'
  <2> SUFFICES ASSUME SyncTypeOK, RunInv, SelectInv, [SyncNext]_allVars PROVE SelectInv'
    OBVIOUS
  <2>1. CASE RunNext
    BY <2>1, SelectStep DEF SyncTypeOK
  <2>2. CASE SyncStep \/ UNCHANGED allVars
    BY <2>2, SelectUnchanged DEF SyncStep, allVars, vars, fileVars
  <2> QED BY <2>1, <2>2 DEF SyncNext
<1> QED BY <1>1, SelectInit, AlwaysRunInv, PTL DEF SyncSpec

\* The full-split evaluation compares the weights that selection recorded on
\* the trajectory it ends, from whichever files and however often the run was
\* resumed (_final_full_split_evaluation, _saved_selection_weights, resume).
THEOREM FullSplitIsOfSelection == SyncSpec => []FullSplitReadsSelection
<1>1. SelectInv => FullSplitReadsSelection
  BY DEF SelectInv, ReportInv
<1> QED BY <1>1, AlwaysSelectInv, PTL

\* Between processes best.pt and best-ema.pt hold what last.pt has selected,
\* for any number of epochs, unless an epoch was cut off after its last.pt or
\* the run resumed from an older state (fit, save_checkpoint).
THEOREM BestFilesAgree == SyncSpec => []BestAgreesUnlessCut
<1>1. SelectInv => BestAgreesUnlessCut
  BY DEF SelectInv, LastIsCurrent, BestAgreesUnlessCut, Straight, HalfSaved, Selected, Chosen
<1> QED BY <1>1, AlwaysSelectInv, PTL

-----------------------------------------------------------------------------
(* The never-learned guard                                                 *)

\* The student was constant after epochs 0 and 1.
Degenerate(t) == Len(t) >= 2 /\ t[1].flat /\ t[2].flat
\* After its last.pt an epoch goes on to its row and to the guard.
EndOf(e) == Epoch = e /\ (pc \in {"row", "log", "guard"} \/ (pc = "save" /\ Head(todo) # "last"))
\* The ends of epochs 0 and 1 were never cut off.
Observed == cut \cap {0, 1} = {}

\* Epoch 0 is trained once: all trajectories begin with it, and so do the rows.
FirstEpochInv ==
  /\ \A f \in Files : Exists(f) =>
       mem.traj # <<>> /\ disk[f].traj[1] = mem.traj[1] /\ Exists("last")
  /\ rows[0] # NoRow => mem.traj # <<>> /\ rows[0].flat = mem.traj[1].flat
  /\ Observed /\ Exists("last") => rows[0] # NoRow \/ EndOf(0)
  /\ Alive /\ ((pc = "train" /\ mem.traj # <<>>) \/ Epoch > 0) => Exists("last")

\* The guard remembers epoch 0, also in a process that resumed after it.
RememberInv ==
  /\ Observed /\ Alive /\ mem.traj # <<>> /\ mem.traj[1].flat
  /\ (Epoch = 0 /\ pc = "train") \/ (Epoch = 1 /\ pc \in {"evaluate", "save", "row", "log", "guard"})
  => mem.first = "flat"

\* A degenerate trajectory is on its way to the guard, or stopped by it.
CaughtInv ==
  Observed =>
    /\ \A f \in Files : Degenerate(disk[f].traj) =>
         Len(disk[f].traj) = 2 /\ (marker \/ (EndOf(1) /\ Degenerate(mem.traj)))
    /\ Alive /\ Degenerate(mem.traj) => Epoch = 1 /\ pc \in {"evaluate", "save", "row", "log", "guard"}

GuardInv == FirstEpochInv /\ RememberInv /\ CaughtInv

LEMMA NoFileIsFine == ~Degenerate(NoFile.traj)
  BY EmptySeq DEF NoFile, Degenerate

LEMMA FilesAreSaved ==
  ASSUME TypeOK, NEW f \in Files
  PROVE  /\ ~Exists(f) => disk[f] = NoFile
         /\ Exists(f) => disk[f].traj \in Seq(Measurements) /\ disk[f].traj # <<>>
<1>1. ~Exists(f) => disk[f] = NoFile
  BY DEF TypeOK, Exists, SavedState
<1>2. Exists(f) => disk[f] \in SavedState /\ Len(disk[f].traj) \in 1..Epochs
  BY DEF TypeOK, Exists, NoFile
<1> QED BY <1>1, <1>2, EmptySeq DEF SavedState

LEMMA GuardInit == SyncInit => GuardInv
<1> SUFFICES ASSUME SyncInit PROVE GuardInv
  OBVIOUS
<1>1. /\ \A f \in Files : ~Exists(f) /\ disk[f] = NoFile
      /\ "last" \in Files /\ pc = "down" /\ rows[0] = NoRow
  BY TrainingAssumption DEF SyncInit, Init, Exists, NoFile, EpochSet, Files
<1> QED BY <1>1, NoFileIsFine DEF GuardInv, FirstEpochInv, RememberInv, CaughtInv, Alive

LEMMA ObservedBefore ==
  ASSUME RunNext, Observed'
  PROVE  Observed /\ (Epoch \in {0, 1} => ~Cuts)
<1>1. CutOff
  BY DEF RunNext
<1> QED BY <1>1 DEF CutOff, Observed

\* A process that stops at the end of an epoch cuts it off.
LEMMA EndsAreCut ==
  ASSUME RunInv, RunNext, Observed', pc' \in {"down", "fail"}, marker' = marker,
         man'.status = man.status, NEW e \in {0, 1}
  PROVE  ~EndOf(e)
<1> SUFFICES ASSUME EndOf(e) PROVE FALSE
  OBVIOUS
<1>1. Ending /\ Epoch = e /\ pc # "down"
  BY DEF EndOf, Ending
<1>2. man'.status \notin Terminal
  BY <1>1 DEF EndOf, RunInv, ManifestInv, Terminal
<1> QED BY <1>1, <1>2, ObservedBefore DEF Cuts

\* A step to the end of a process.
LEMMA GuardStops ==
  ASSUME GuardInv, RunNext, UNCHANGED <<disk, rows, mem>>, pc' \in {"down", "fail"},
         marker => marker', Observed' => ~EndOf(0) /\ (~EndOf(1) \/ marker')
  PROVE  GuardInv'
<1>1. FirstEpochInv'
  BY ObservedBefore DEF GuardInv, FirstEpochInv, Alive, Exists
<1>2. RememberInv' /\ CaughtInv'
  BY ObservedBefore DEF GuardInv, RememberInv, CaughtInv, Alive
<1> QED BY <1>1, <1>2 DEF GuardInv

LEMMA FirstStays ==
  ASSUME TypeOK, NEW m \in Measurements, Train(m), mem.traj # <<>>
  PROVE  /\ mem'.traj # <<>> /\ mem'.traj[1] = mem.traj[1] /\ Len(mem'.traj) = Len(mem.traj) + 1
         /\ Len(mem.traj) \in Nat \ {0} /\ (Len(mem.traj) >= 2 => mem'.traj[2] = mem.traj[2])
<1>1. mem'.traj = Append(mem.traj, m) /\ mem.traj \in Seq(Measurements)
  BY TrainDoes DEF TypeOK, Trainer
<1>2. Len(mem.traj) \in Nat \ {0}
  BY <1>1, EmptySeq
<1> QED BY <1>1, <1>2, AppendProperties

LEMMA TrainGuards ==
  ASSUME TypeOK, RunInv, SelectInv, GuardInv, NEW m \in Measurements, Train(m), RunNext
  PROVE  GuardInv'
<1>1. /\ UNCHANGED <<disk, rows, marker>> /\ pc = "train" /\ pc' \in {"evaluate", "save"}
      /\ mem'.first = mem.first /\ mem'.traj = Append(mem.traj, m) /\ Alive
  BY TrainDoes DEF Train, fileVars, TypeOK, Trainer, Alive
<1>2. Observed' => Observed
  BY ObservedBefore
<1>3. ~EndOf(0) /\ ~EndOf(1)
  BY <1>1 DEF EndOf
<1>4. CASE mem.traj = <<>>
  <2>1. \A f \in Files : ~Exists(f) /\ disk[f] = NoFile
    BY <1>4, FilesAreSaved DEF SelectInv, SavingInv
  <2>2. rows[0] = NoRow
    BY <1>4 DEF GuardInv, FirstEpochInv
  <2>3. Len(mem'.traj) = 1
    BY <1>1, <1>4, EmptySeq, AppendProperties DEF TypeOK, Trainer
  <2>4. Epoch' = 0 /\ ~Degenerate(mem'.traj)
    BY <2>3 DEF Epoch, EpochOf, Degenerate
  <2>5. FirstEpochInv'
    BY <1>1, <2>1, <2>2, <2>4 DEF FirstEpochInv, Exists, Files
  <2> QED BY <1>1, <2>1, <2>4, <2>5, NoFileIsFine DEF GuardInv, RememberInv, CaughtInv
<1>5. CASE mem.traj # <<>>
  <2>1. /\ mem'.traj # <<>> /\ mem'.traj[1] = mem.traj[1] /\ Len(mem'.traj) = Len(mem.traj) + 1
        /\ Len(mem.traj) \in Nat \ {0} /\ (Len(mem.traj) >= 2 => mem'.traj[2] = mem.traj[2])
    BY <1>5, FirstStays
  <2>2. Epoch = Len(mem.traj) - 1 /\ Epoch' = Len(mem.traj)
    BY <2>1 DEF Epoch, EpochOf
  <2>3. FirstEpochInv'
    BY <1>1, <1>2, <1>3, <1>5, <2>1 DEF GuardInv, FirstEpochInv, Exists
  <2>4. RememberInv'
    <3> SUFFICES ASSUME Observed', mem'.traj[1].flat, Epoch' = 1 PROVE mem'.first = "flat"
      BY <1>1 DEF RememberInv
    <3>1. Epoch = 0
      BY <2>1, <2>2
    <3> QED BY <1>1, <1>2, <1>5, <2>1, <3>1 DEF GuardInv, RememberInv
  <2>5. ASSUME Observed', Degenerate(mem'.traj) PROVE Epoch' = 1
    <3>1. CASE Len(mem.traj) >= 2
      <4>1. Degenerate(mem.traj)
        BY <2>1, <2>5, <3>1 DEF Degenerate
      <4> QED BY <1>1, <1>2, <2>5, <4>1 DEF GuardInv, CaughtInv
    <3>2. CASE ~(Len(mem.traj) >= 2)
      <4>1. Len(mem'.traj) >= 2
        BY <2>5 DEF Degenerate
      <4>2. Len(mem.traj) = 1
        <5> DEFINE n == Len(mem.traj)
        <5>1. n \in Nat \ {0} /\ ~(n >= 2)
          BY <2>1, <3>2
        <5> HIDE DEF n
        <5>2. n = 1
          BY <5>1
        <5> QED BY <5>2 DEF n
      <4> QED BY <2>2, <4>2
    <3> QED BY <3>1, <3>2
  <2>6. CaughtInv'
    BY <1>1, <1>2, <1>3, <2>5 DEF GuardInv, CaughtInv
  <2> QED BY <2>3, <2>4, <2>6 DEF GuardInv
<1> QED BY <1>4, <1>5

LEMMA ResumeGuards ==
  ASSUME TypeOK, RunInv, SelectInv, GuardInv, NEW f \in Files, Resume(f), RunNext
  PROVE  GuardInv'
<1>1. /\ UNCHANGED <<disk, rows, marker>> /\ pc = "down" /\ pc' \in {"train", "fail"} /\ ~marker
      /\ mem'.traj = disk[f].traj /\ mem'.first = Seed(Len(disk[f].traj)) /\ Exists(f)
      /\ mem'.traj # <<>>
  BY ResumeDoes, EmptySeq DEF Resume, StudentSelected, Exists
<1>2. Observed' => Observed
  BY ObservedBefore
<1>3. mem.traj # <<>> /\ disk[f].traj[1] = mem.traj[1] /\ Exists("last") /\ ~EndOf(0) /\ ~EndOf(1)
  BY <1>1 DEF GuardInv, FirstEpochInv, EndOf
<1>4. FirstEpochInv'
  BY <1>1, <1>2, <1>3 DEF GuardInv, FirstEpochInv, Exists
<1>5. RememberInv'
  <2> SUFFICES ASSUME Observed', mem'.traj[1].flat, Epoch' = 0 PROVE mem'.first = "flat"
    BY <1>1 DEF RememberInv
  <2>1. Len(disk[f].traj) = 1
    <3>1. Len(disk[f].traj) \in Nat
      BY <1>1, FilesAreSaved, LenProperties
    <3> QED BY <1>1, <3>1 DEF Epoch, EpochOf
  <2>2. rows[0] # NoRow /\ rows[0].flat = mem.traj[1].flat
    BY <1>2, <1>3 DEF GuardInv, FirstEpochInv
  <2> QED BY <1>1, <1>3, <2>1, <2>2 DEF Seed
<1>6. CaughtInv'
  BY <1>1, <1>2, <1>3 DEF GuardInv, CaughtInv, Alive
<1> QED BY <1>4, <1>5, <1>6 DEF GuardInv

\* A step within the writing of an epoch and what follows it.
LEMMA WithinGuards ==
  ASSUME GuardInv, RunNext, UNCHANGED <<disk, rows, mem, marker>>, Alive,
         pc' \in {"save", "row", "log", "guard"}, pc \in {"evaluate", "row", "log"},
         pc # "evaluate" => pc' # "save"
  PROVE  GuardInv'
<1>1. \A e \in {0, 1} : EndOf(e) => EndOf(e)'
  BY DEF EndOf, Epoch, EpochOf
<1>2. FirstEpochInv'
  BY <1>1, ObservedBefore DEF GuardInv, FirstEpochInv, Exists, Epoch, EpochOf
<1>3. RememberInv' /\ CaughtInv'
  BY <1>1, ObservedBefore DEF GuardInv, RememberInv, CaughtInv, Alive, Epoch, EpochOf
<1> QED BY <1>2, <1>3 DEF GuardInv

LEMMA SaveGuards ==
  ASSUME TypeOK, TypeOK', RunInv, Control', SelectInv, GuardInv, Save, RunNext
  PROVE  GuardInv'
<1> DEFINE h == Head(todo)
<1>1. /\ h \in Files /\ disk'[h].traj = mem.traj /\ (\A f \in Files \ {h} : disk'[f] = disk[f])
      /\ UNCHANGED <<mem, rows, marker>> /\ pc = "save" /\ pc' \in {"save", "row"} /\ mem.traj # <<>>
      /\ "last" \notin Left' /\ SavingInv
  BY SaveWrites DEF SelectInv, Save
<1>2. \A e \in {0, 1} : Epoch = e => EndOf(e)'
  <2>1. pc' = "save" => Head(todo') # "last"
    <3> SUFFICES ASSUME pc' = "save" PROVE Head(todo') # "last"
      OBVIOUS
    <3>1. SavingInv'
      BY <1>1, SaveKeepsSaving
    <3>2. todo' # <<>> /\ todo' \in Seq(Files) /\ Ordered(todo') /\ Left' = Range(todo')
      BY <3>1 DEF SavingInv, Saving, Left, Control, TypeOK
    <3>3. Head(todo') \in Range(todo')
      BY <3>2, OrderedTail
    <3> QED BY <1>1, <3>2, <3>3
  <2> QED BY <1>1, <2>1 DEF EndOf, Epoch, EpochOf
<1>3. "last" \in Files /\ Exists("last")'
  <2>1. "last" \in Files
    BY DEF Files
  <2>2. disk'["last"].traj = mem.traj
    <3>1. h = "last" \/ disk["last"].traj = mem.traj
      BY <1>1 DEF RunInv, Control
    <3> QED BY <1>1, <2>1, <3>1
  <2>3. disk'["last"] # NoFile
    BY <1>1, <2>2 DEF NoFile
  <2> QED BY <2>1, <2>3, FilesAreSaved DEF TypeOK, Exists, SavedState, NoFile
<1>4. Observed' => Observed
  BY ObservedBefore
<1>5. \A e \in {0, 1} : EndOf(e) => Epoch = e
  BY DEF EndOf
<1>6. Epoch' = Epoch /\ Epoch \in Nat
  BY <1>1, MemIsSelected DEF Epoch, EpochOf, RunInv
<1>7. FirstEpochInv'
  <2>1. \A f \in Files : Exists(f)' => disk'[f].traj[1] = mem.traj[1]
    <3> SUFFICES ASSUME NEW f \in Files, Exists(f)' PROVE disk'[f].traj[1] = mem.traj[1]
      OBVIOUS
    <3>1. CASE f = h
      BY <1>1, <3>1
    <3>2. CASE f # h
      BY <1>1, <3>2 DEF GuardInv, FirstEpochInv, Exists
    <3> QED BY <3>1, <3>2
  <2>2. Observed' => rows[0] # NoRow \/ EndOf(0)'
    <3>1. CASE Epoch = 0
      BY <1>2, <3>1
    <3>2. CASE Epoch # 0
      <4>1. Exists("last")
        BY <1>1, <1>6, <3>2 DEF GuardInv, FirstEpochInv, Alive
      <4> QED BY <1>4, <1>5, <3>2, <4>1 DEF GuardInv, FirstEpochInv
    <3> QED BY <3>1, <3>2
  <2> QED BY <1>1, <1>3, <2>1, <2>2 DEF GuardInv, FirstEpochInv
<1>8. RememberInv'
  BY <1>1, <1>4, <1>6 DEF GuardInv, RememberInv, Alive
<1>9. CaughtInv'
  <2>1. Alive /\ (Observed' /\ Degenerate(mem.traj) => Epoch = 1)
    BY <1>1, <1>4 DEF GuardInv, CaughtInv, Alive
  <2>2. ASSUME Observed', NEW f \in Files, Degenerate(disk'[f].traj)
        PROVE  Len(disk'[f].traj) = 2 /\ (marker' \/ (EndOf(1)' /\ Degenerate(mem'.traj)))
    <3>1. CASE f = h
      <4>1. Degenerate(mem.traj) /\ Epoch = 1 /\ EndOf(1)'
        BY <1>1, <1>2, <2>1, <2>2, <3>1
      <4>2. Len(mem.traj) = 2
        BY <1>1, <4>1, MemIsSelected DEF RunInv
      <4> QED BY <1>1, <3>1, <4>1, <4>2
    <3>2. CASE f # h
      BY <1>1, <1>2, <1>4, <1>5, <2>2, <3>2 DEF GuardInv, CaughtInv
    <3> QED BY <3>1, <3>2
  <2> QED BY <1>1, <1>6, <2>1, <2>2 DEF CaughtInv
<1> QED BY <1>7, <1>8, <1>9 DEF GuardInv

LEMMA RowGuards ==
  ASSUME TypeOK, TypeOK', RunInv, Control', GuardInv, RecordRow, RunNext
  PROVE  GuardInv'
<1>1. /\ UNCHANGED <<disk, mem, marker>> /\ pc = "row" /\ pc' = "log" /\ mem.traj # <<>>
      /\ rows' = [rows EXCEPT ![Epoch] = mem.traj[Len(mem.traj)]]
      /\ Epoch' = Epoch /\ rows'[Epoch] # NoRow /\ Epoch = Len(mem.traj) - 1 /\ Epoch \in EpochSet
      /\ Len(mem.traj) \in Nat
  BY MemIsSelected, EpochIsEpoch DEF RecordRow, RunInv, Control, Inside, Epoch, EpochOf
<1>2. Observed' => Observed
  BY ObservedBefore
<1>3. rows' \in [EpochSet -> Row] /\ 0 \in EpochSet /\ \A e \in EpochSet \ {Epoch} : rows'[e] = rows[e]
  BY <1>1, TrainingAssumption DEF TypeOK, EpochSet
<1>4. \A e \in {0, 1} : EndOf(e) => EndOf(e)'
  BY <1>1 DEF EndOf
<1>5. Epoch = 0 => rows'[0].flat = mem.traj[1].flat
  BY <1>1, <1>3 DEF TypeOK
<1>6. FirstEpochInv'
  BY <1>1, <1>2, <1>3, <1>4, <1>5 DEF GuardInv, FirstEpochInv, Exists, Alive
<1>7. RememberInv' /\ CaughtInv'
  BY <1>1, <1>2, <1>4 DEF GuardInv, RememberInv, CaughtInv, Alive
<1> QED BY <1>6, <1>7 DEF GuardInv

LEMMA PassGuards ==
  ASSUME TypeOK, RunInv, GuardInv, GuardPasses, RunNext
  PROVE  GuardInv'
<1>1. /\ UNCHANGED <<disk, rows, marker>> /\ pc = "guard" /\ pc' \in {"complete", "train"} /\ ~Fires
      /\ mem'.traj = mem.traj /\ mem'.first = FirstSeen /\ mem.traj # <<>> /\ rows[Epoch] # NoRow
      /\ Epoch' = Epoch /\ Epoch = Len(mem.traj) - 1 /\ disk["last"].traj = mem.traj
      /\ Len(mem.traj) \in Nat
  BY MemIsSelected DEF GuardPasses, fileVars, RunInv, Control, Inside, Written, Epoch, EpochOf, TypeOK, Trainer
<1>2. Observed' => Observed
  BY ObservedBefore
<1>3. Exists("last")
  BY <1>1, FilesAreSaved DEF NoFile, Files
\* Nothing degenerate gets past the guard while all ends were observed.
<1>4. ASSUME Observed' PROVE ~Degenerate(mem.traj)
  <2> SUFFICES ASSUME Degenerate(mem.traj) PROVE FALSE
    OBVIOUS
  <2>1. Epoch = 1 /\ mem.traj[1].flat /\ mem.traj[2].flat
    BY <1>1, <1>2, <1>4 DEF GuardInv, CaughtInv, Alive, Degenerate
  <2>2. mem.first = "flat"
    BY <1>1, <1>2, <1>4, <2>1 DEF GuardInv, RememberInv, Alive
  <2>3. Flat
    BY <1>1, <2>1 DEF Flat
  <2> QED BY <1>1, <2>1, <2>2, <2>3 DEF Fires
<1>5. FirstEpochInv'
  <2>1. EndOf(0) => rows[0] # NoRow
    BY <1>1 DEF EndOf
  <2> QED BY <1>1, <1>2, <1>3, <2>1 DEF GuardInv, FirstEpochInv, Exists
<1>6. RememberInv'
  BY <1>1 DEF RememberInv, FirstSeen, Flat
<1>7. CaughtInv'
  BY <1>1, <1>2, <1>4 DEF GuardInv, CaughtInv
<1> QED BY <1>5, <1>6, <1>7 DEF GuardInv

LEMMA GuardStep ==
  ASSUME TypeOK, TypeOK', RunInv, Control', SelectInv, GuardInv, RunNext
  PROVE  GuardInv'
<1>1. CASE Start
  <2>1. /\ UNCHANGED <<disk, rows, mem, marker>> /\ mem.traj = <<>> /\ pc' = "train" /\ "last" \in Files
        /\ \A f \in Files : ~Exists(f) /\ disk[f] = NoFile
    BY <1>1, FreshIsTrainer, FilesAreSaved DEF Start, RunInv, Unstarted, SelectInv, SavingInv, Files
  <2>2. ~Degenerate(mem.traj) /\ Epoch' = -1
    BY <2>1, EmptySeq DEF Degenerate, Epoch, EpochOf
  <2> QED BY <2>1, <2>2, NoFileIsFine DEF GuardInv, FirstEpochInv, RememberInv, CaughtInv, Exists
<1>2. ASSUME NEW f \in Files, Resume(f) PROVE GuardInv'
  BY <1>2, ResumeGuards
<1>3. ASSUME NEW m \in Measurements, Train(m) PROVE GuardInv'
  BY <1>3, TrainGuards
<1>4. CASE Evaluate
  <2>1. /\ UNCHANGED <<disk, rows, marker>> /\ pc = "evaluate" /\ pc' = "save"
        /\ mem'.traj = mem.traj /\ mem'.first = mem.first
    BY <1>4 DEF Evaluate, fileVars, TypeOK, Trainer
  <2>2. ~EndOf(0) /\ ~EndOf(1) /\ Epoch' = Epoch
    BY <2>1 DEF EndOf, Epoch, EpochOf
  <2>3. FirstEpochInv' /\ RememberInv' /\ CaughtInv'
    BY <2>1, <2>2, ObservedBefore DEF GuardInv, FirstEpochInv, RememberInv, CaughtInv, Alive, Exists
  <2> QED BY <2>3 DEF GuardInv
<1>5. CASE Save
  BY <1>5, SaveGuards
<1>6. CASE RecordRow
  BY <1>6, RowGuards
<1>7. CASE LogRow /\ pc' = "guard"
  BY <1>7, WithinGuards DEF LogRow, Alive
<1>8. CASE GuardPasses
  BY <1>8, PassGuards
<1>9. CASE Complete
  <2>1. /\ UNCHANGED <<disk, rows, mem, marker>> /\ pc = "complete" /\ pc' = "finish"
    BY <1>9 DEF Complete
  <2>2. ~EndOf(0) /\ ~EndOf(1) /\ Epoch' = Epoch
    BY <2>1 DEF EndOf, Epoch, EpochOf
  <2>3. FirstEpochInv' /\ RememberInv' /\ CaughtInv'
    BY <2>1, <2>2, ObservedBefore DEF GuardInv, FirstEpochInv, RememberInv, CaughtInv, Alive, Exists
  <2> QED BY <2>3 DEF GuardInv
<1>10. CASE GuardFires
  <2>1. /\ UNCHANGED <<disk, rows, mem>> /\ pc' = "fail" /\ marker' /\ Epoch = 1
    BY <1>10 DEF GuardFires, Fires
  <2> QED BY <2>1, GuardStops DEF EndOf
<1>11. CASE EvaluateRefuses \/ RowConflicts \/ (LogRow /\ pc' = "fail") \/ Raise \/ Kill
  <2>1. UNCHANGED <<disk, rows, mem, marker>> /\ pc' \in {"down", "fail"} /\ pc # "down"
        /\ (man' = man \/ man' = copy)
    BY <1>11 DEF EvaluateRefuses, RowConflicts, LogRow, Raise, Kill, fileVars
  <2>2. man'.status = man.status
    BY <2>1 DEF RunInv, ManifestInv
  <2> QED BY <2>1, <2>2, EndsAreCut, GuardStops
<1>12. CASE Bundle \/ Fail
  <2>1. UNCHANGED <<disk, rows, mem, marker>> /\ pc \in {"bundle", "fail"} /\ pc' = "down"
    BY <1>12 DEF Bundle, Fail, FinishAs, fileVars
  <2> QED BY <2>1, GuardStops DEF EndOf
<1>13. CASE Finish
  <2>1. /\ UNCHANGED <<disk, rows, mem, marker>> /\ pc = "finish" /\ pc' = "bundle"
    BY <1>13 DEF Finish, FinishAs
  <2>2. ~EndOf(0) /\ ~EndOf(1) /\ Epoch' = Epoch
    BY <2>1 DEF EndOf, Epoch, EpochOf
  <2>3. FirstEpochInv' /\ RememberInv' /\ CaughtInv'
    BY <2>1, <2>2, ObservedBefore DEF GuardInv, FirstEpochInv, RememberInv, CaughtInv, Alive, Exists
  <2> QED BY <2>3 DEF GuardInv
<1> QED BY <1>1, <1>2, <1>3, <1>4, <1>5, <1>6, <1>7, <1>8, <1>9, <1>10, <1>11, <1>12, <1>13
       DEF RunNext, Step, LogRow

LEMMA AlwaysGuardInv == SyncSpec => []GuardInv
<1>1. SyncTypeOK /\ RunInv /\ SelectInv /\ GuardInv /\ [SyncNext]_allVars => GuardInv'
  <2> SUFFICES ASSUME SyncTypeOK, RunInv, SelectInv, GuardInv, [SyncNext]_allVars PROVE GuardInv'
    OBVIOUS
  <2>1. CASE RunNext
    <3>1. TypeOK' /\ Control'
      BY <2>1, TypeStep, ControlStep DEF SyncTypeOK, RunInv
    <3> QED BY <2>1, <3>1, GuardStep DEF SyncTypeOK
  <2>2. CASE SyncStep \/ UNCHANGED allVars
    <3>1. UNCHANGED <<disk, rows, marker, pc, mem, todo, cut>>
      BY <2>2 DEF SyncStep, allVars, vars, fileVars, processVars
    <3> QED BY <3>1 DEF GuardInv, FirstEpochInv, RememberInv, CaughtInv, Observed, Exists, EndOf, Alive,
                        Epoch, EpochOf
  <2> QED BY <2>1, <2>2 DEF SyncNext
<1> QED BY <1>1, GuardInit, AlwaysRunInv, AlwaysSelectInv, PTL DEF SyncSpec

\* A constant student trains on past epoch 1 only where the end of epoch 0 or
\* of epoch 1 was cut off, for any crashes, resumes and number of epochs
\* (never_learned_reason, seed_never_learned_observations).
THEOREM OnlyCutRunsEscape == SyncSpec => []EscapesOnlyWhenCut
<1>1. SyncTypeOK /\ GuardInv => EscapesOnlyWhenCut
  <2> SUFFICES ASSUME SyncTypeOK, GuardInv, Observed, NEW f \in Files, Len(disk[f].traj) > 2,
                      disk[f].traj[1].flat, disk[f].traj[2].flat
               PROVE  FALSE
    BY DEF EscapesOnlyWhenCut, Observed
  <2>1. Len(disk[f].traj) \in Nat
    BY FilesAreSaved, EmptySeq, LenProperties DEF SyncTypeOK, NoFile
  <2>2. Degenerate(disk[f].traj)
    BY <2>1 DEF Degenerate
  <2>3. Len(disk[f].traj) = 2
    BY <2>2 DEF GuardInv, CaughtInv
  <2> QED BY <2>3
<1> QED BY <1>1, AlwaysRunInv, AlwaysGuardInv, PTL
=============================================================================
