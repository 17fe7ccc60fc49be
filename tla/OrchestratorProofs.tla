------------------------ MODULE OrchestratorProofs --------------------------
(***************************************************************************)
(* Types, and DependenciesMarked.  TypeOK is not inductive: that a record  *)
(* which runs names a started worker (Born) is what keeps SlotOf and       *)
(* ParentOf of a running job meaningful.                                   *)
(***************************************************************************)
EXTENDS Orchestrator, TLAPS

Born ==
  /\ \A p \in Pids : IF p <= spawned THEN info[p] \in Launched ELSE pc[p] = "unborn" /\ exec[p] = "none"
  /\ \A j \in Jobs : work[j].status = "running" => work[j].pid \in 1..spawned
  /\ \A j \in Jobs : disk[j].status = "running" => disk[j].pid \in 1..spawned

TypeInv == TypeOK /\ Born

LEMMA TypeInit == Init => TypeInv
  BY NamesAssumption, ManifestAssumption DEF Init, TypeInv, TypeOK, Born, Record, NewRecord, Status, Terminal, Pids, NoPid

LEMMA TypeLauncher ==
  ASSUME TypeInv, NEW r \in Runs, LauncherStep(r) \/ RunForeground(r)
  PROVE  TypeInv'
<1> USE NamesAssumption, ManifestAssumption DEF TypeInv, TypeOK, Born, vars, ctlVars, tickVars, procVars, fileVars, boundVars
<1>1. CASE RunCheck(r) BY <1>1 DEF RunCheck
<1>2. CASE RunSpawn(r) BY <1>2 DEF RunSpawn
<1>3. CASE RunRecord(r) BY <1>3 DEF RunRecord
<1>4. CASE RunForeground(r) BY <1>4 DEF RunForeground
<1> QED BY <1>1, <1>2, <1>3, <1>4 DEF LauncherStep

LEMMA BecomesRecord ==
  ASSUME NEW rec \in Record, NEW s \in Status
  PROVE  /\ Becomes(rec, s) \in Record /\ Becomes(rec, s).status = s
         /\ Becomes(rec, s).pid = rec.pid /\ Becomes(rec, s).attempts = rec.attempts
  BY DEF Record, Becomes

LEMMA ConfirmedRecord ==
  ASSUME NEW rec \in Record, NEW b \in BOOLEAN
  PROVE  /\ Confirmed(rec, b) \in Record /\ Confirmed(rec, b).status = rec.status
         /\ Confirmed(rec, b).pid = rec.pid /\ Confirmed(rec, b).attempts = rec.attempts
  BY DEF Record, Confirmed

LEMMA PlannedRecord ==
  ASSUME TypeOK, NEW c \in Campaigns, NEW j \in Jobs
  PROVE  /\ Planned(c)[j] \in Record
         /\ Planned(c)[j].pid = work[j].pid /\ Planned(c)[j].attempts = work[j].attempts
         /\ \/ Planned(c)[j] = work[j]
            \/ /\ CampaignOf[j] = c /\ work[j].status = "pending"
               /\ \/ Planned(c)[j].status = "completed" /\ marker[j]
                  \/ Planned(c)[j].status = "blocked"
<1> DEFINE rec == [i \in Jobs |->
             IF CampaignOf[i] = c /\ work[i].status = "pending" /\ marker[i]
             THEN Becomes(work[i], "completed") ELSE work[i]]
<1>1. work[j] \in Record
  BY DEF TypeOK
<1>2. Becomes(work[j], "completed") \in Record
  BY <1>1, BecomesRecord DEF Status, Terminal
<1>3. /\ rec[j] \in Record /\ rec[j].pid = work[j].pid /\ rec[j].attempts = work[j].attempts
      /\ rec[j] = work[j] \/ /\ CampaignOf[j] = c /\ work[j].status = "pending"
                             /\ rec[j].status = "completed" /\ marker[j]
  BY <1>1, BecomesRecord DEF Status, Terminal
<1>4. Planned(c)[j] = IF j \in BlockedIn(rec, c)
                      THEN Becomes(rec[j], "blocked") ELSE rec[j]
  BY DEF Planned
<1>5. j \in BlockedIn(rec, c) => CampaignOf[j] = c /\ rec[j].status = "pending"
  BY DEF BlockedIn, JobsOf
<1>6. CASE j \in BlockedIn(rec, c)
  <2>1. rec[j] = work[j] /\ CampaignOf[j] = c /\ work[j].status = "pending"
    BY <1>3, <1>5, <1>6
  <2> QED BY <1>1, <1>4, <1>6, <2>1, BecomesRecord DEF Status, Terminal
<1>7. CASE j \notin BlockedIn(rec, c)
  BY <1>3, <1>4, <1>7
<1> QED BY <1>6, <1>7

LEMMA TypePlan ==
  ASSUME TypeInv, NEW r \in Runs, Plan(r)
  PROVE  TypeInv'
<1> DEFINE c == RunCampaign[r]
<1>1. /\ work' = Planned(c)
      /\ queue' = [queue EXCEPT ![c] = ReadyIn(work', c)]
      /\ taken' = [taken EXCEPT ![c] = Occupied(work', c)]
      /\ ctl' = [ctl EXCEPT ![r] = "launch"]
      /\ UNCHANGED <<launcher, ctrlPid, disk, holder, resv, todo, read, procVars,
                     fileVars, boundVars>>
  BY DEF Plan
<1>2. c \in Campaigns /\ TypeOK
  BY ManifestAssumption DEF TypeInv
<1>3. \A j \in Jobs : /\ work'[j] \in Record
                      /\ work'[j].status = "running" =>
                           work[j].status = "running" /\ work'[j].pid = work[j].pid
  <2> TAKE j \in Jobs
  <2>1. work'[j] = Planned(c)[j]
    BY <1>1
  <2> QED BY <1>2, <2>1, PlannedRecord
<1>4. work' \in [Jobs -> Record]
  BY <1>1, <1>3 DEF Planned
<1>5. Occupied(work', c) \subseteq Slots
  <2> SUFFICES ASSUME NEW j \in Jobs, work'[j].status = "running"
               PROVE  info[work'[j].pid].slot \in Slots
    BY DEF Occupied, JobsOf
  <2>1. /\ work[j].status = "running" /\ work'[j].pid = work[j].pid
    BY <1>3
  <2>2. work[j].pid \in 1..spawned /\ spawned \in 0..MaxSpawns /\ MaxSpawns \in Nat
    BY <1>2, <2>1, NamesAssumption DEF TypeInv, Born, TypeOK
  <2>3. work[j].pid \in Pids /\ work[j].pid <= spawned
    BY <2>2 DEF Pids
  <2>4. info[work[j].pid] \in Launched
    BY <2>3 DEF TypeInv, Born
  <2> QED BY <2>1, <2>4 DEF Launched
<1>6. ReadyIn(work', c) \subseteq Jobs
  BY DEF ReadyIn, JobsOf
<1>7. TypeOK'
  BY <1>1, <1>2, <1>4, <1>5, <1>6 DEF TypeOK, procVars, fileVars, boundVars
<1>8. Born'
  BY <1>1, <1>3 DEF TypeInv, Born, procVars
<1> QED BY <1>7, <1>8 DEF TypeInv

\* A visit of reconcile_running gives one running job a new record, keeps it
\* in the list or drops it, and frees its slot only if it no longer runs.
Visited(r, j, rec) ==
  /\ ctl[r] = "reconcile" /\ holder[RunCampaign[r]] = r /\ j \in todo[RunCampaign[r]]
  /\ work' = [work EXCEPT ![j] = rec]
  /\ rec.pid = work[j].pid /\ rec.attempts = work[j].attempts
  /\ rec.status \in {work[j].status, "pending", "completed", "failed", "orphaned"}
  /\ rec.status = "completed" => marker[j] \/ work[j].status = "completed"
  /\ rec.status = "pending" => work[j].status = "pending" \/ work[j].attempts < MaxAttempts[j]
  /\ \/ todo' = todo /\ rec.status = work[j].status
     \/ todo' = [todo EXCEPT ![RunCampaign[r]] = @ \ {j}]
  /\ resv' = resv \/ (rec.status \in Terminal /\ resv' = ReleaseSlot(r, SlotOf(j)))
  /\ \E k \in {"marker", "result", "pid"} : read' = [read EXCEPT ![RunCampaign[r]] = k]
  /\ UNCHANGED <<ctlVars, disk, holder, queue, taken, procVars, fileVars, boundVars>>

LEMMA VisitShape ==
  ASSUME TypeOK, NEW r \in Runs, NEW j \in Jobs,
         ReadMarker(r, j) \/ ReadResult(r, j) \/ CheckPid(r, j)
  PROVE  \E rec \in Record : Visited(r, j, rec)
<1>1. work[j] \in Record /\ work = [work EXCEPT ![j] = work[j]]
  BY DEF TypeOK
<1>2. \A s \in {"completed", "pending", "failed", "orphaned"}, rec \in Record :
        /\ Becomes(rec, s) \in Record /\ Becomes(rec, s).status = s
        /\ Becomes(rec, s).pid = rec.pid /\ Becomes(rec, s).attempts = rec.attempts
  BY BecomesRecord DEF Status, Terminal
<1>3. CASE ReadMarker(r, j)
  <2> DEFINE seen == j \in External /\ hostOk[j] = info[work[j].pid].slot
             rec == Confirmed(work[j], seen)
  <2>1. /\ rec \in Record /\ rec.status = work[j].status
        /\ rec.pid = work[j].pid /\ rec.attempts = work[j].attempts
    BY <1>1, ConfirmedRecord
  <2>2. CASE marker[j]
    <3>1. Visited(r, j, Becomes(rec, "completed"))
      <4>1. /\ Visiting(r, j, "marker") /\ Settle(r, j, Becomes(rec, "completed"), TRUE)
            /\ UNCHANGED <<ctlVars, disk, holder, queue, taken, procVars, fileVars, boundVars>>
        BY <1>3, <2>2 DEF ReadMarker
      <4> HIDE DEF rec
      <4> QED BY <1>2, <2>1, <2>2, <4>1 DEF Visited, Visiting, Settle, Terminal, SlotOf
    <3> QED BY <1>2, <2>1, <3>1
  <2>3. CASE ~marker[j]
    <3>1. Visited(r, j, rec)
      <4>1. /\ Visiting(r, j, "marker") /\ work' = [work EXCEPT ![j] = rec] /\ Proceed(r, "result")
            /\ UNCHANGED <<ctlVars, disk, holder, queue, taken, procVars, fileVars, boundVars>>
        BY <1>3, <2>3 DEF ReadMarker
      <4> HIDE DEF rec
      <4> QED BY <2>1, <4>1 DEF Visited, Visiting, Proceed
    <3> QED BY <2>1, <3>1
  <2> QED BY <2>2, <2>3
<1>4. CASE ReadResult(r, j)
  <2>0. /\ Visiting(r, j, "result")
        /\ UNCHANGED <<ctlVars, disk, holder, queue, taken, procVars, fileVars, boundVars>>
    BY <1>4 DEF ReadResult
  <2>1. \/ work' = work /\ Proceed(r, "pid")
        \/ CanRetry(j) /\ Settle(r, j, Becomes(work[j], "pending"), FALSE)
        \/ Settle(r, j, Becomes(work[j], "failed"), TRUE)
    BY <1>4 DEF ReadResult
  <2>2. CASE work' = work /\ Proceed(r, "pid")
    BY <1>1, <2>0, <2>2 DEF Visited, Visiting, Proceed
  <2>3. CASE CanRetry(j) /\ Settle(r, j, Becomes(work[j], "pending"), FALSE)
    <3>1. Visited(r, j, Becomes(work[j], "pending"))
      BY <1>1, <1>2, <2>0, <2>3 DEF Visited, Visiting, Settle, CanRetry
    <3> QED BY <1>1, <1>2, <3>1
  <2>4. CASE Settle(r, j, Becomes(work[j], "failed"), TRUE)
    <3>1. Visited(r, j, Becomes(work[j], "failed"))
      BY <1>1, <1>2, <2>0, <2>4 DEF Visited, Visiting, Settle, Terminal, SlotOf
    <3> QED BY <1>1, <1>2, <3>1
  <2> QED BY <2>1, <2>2, <2>3, <2>4
<1>5. CASE CheckPid(r, j)
  <2>1. /\ Visiting(r, j, "pid")
        /\ UNCHANGED <<ctlVars, disk, holder, queue, taken, procVars, fileVars, boundVars>>
        /\ \/ Settle(r, j, work[j], FALSE)
           \/ Settle(r, j, Becomes(work[j], "orphaned"), TRUE)
    BY <1>5 DEF CheckPid
  <2>2. CASE Settle(r, j, work[j], FALSE)
    BY <1>1, <2>1, <2>2 DEF Visited, Visiting, Settle
  <2>3. CASE Settle(r, j, Becomes(work[j], "orphaned"), TRUE)
    <3>1. Visited(r, j, Becomes(work[j], "orphaned"))
      BY <1>1, <1>2, <2>1, <2>3 DEF Visited, Visiting, Settle, Terminal, SlotOf
    <3> QED BY <1>1, <1>2, <3>1
  <2> QED BY <2>1, <2>2, <2>3
<1> QED BY <1>3, <1>4, <1>5

LEMMA TypeReconcile ==
  ASSUME TypeInv, NEW r \in Runs, NEW j \in Jobs,
         ReadMarker(r, j) \/ ReadResult(r, j) \/ CheckPid(r, j)
  PROVE  TypeInv'
<1>1. PICK rec \in Record : Visited(r, j, rec)
  BY VisitShape DEF TypeInv
<1>2. work' = [work EXCEPT ![j] = rec] /\ (rec.status = "running" => work[j].status = "running")
      /\ rec.pid = work[j].pid
  BY <1>1 DEF Visited
<1>3. work' \in [Jobs -> Record] /\ resv' \in [Gpus -> Runs \cup {None}]
  BY <1>1, <1>2 DEF Visited, TypeInv, TypeOK, ReleaseSlot
<1>4. todo' \in [Campaigns -> SUBSET Jobs]
  <2>1. todo \in [Campaigns -> SUBSET Jobs] /\ RunCampaign[r] \in Campaigns
    BY ManifestAssumption DEF TypeInv, TypeOK
  <2>2. todo' = todo \/ todo' = [todo EXCEPT ![RunCampaign[r]] = @ \ {j}]
    BY <1>1 DEF Visited
  <2>3. CASE todo' = todo
    BY <2>1, <2>3
  <2>4. CASE todo' = [todo EXCEPT ![RunCampaign[r]] = @ \ {j}]
    BY <2>1, <2>4
  <2> QED BY <2>2, <2>3, <2>4
<1>5. read' \in [Campaigns -> {"marker", "result", "pid"}]
  BY <1>1 DEF Visited, TypeInv, TypeOK
<1>6. TypeOK'
  BY <1>1, <1>3, <1>4, <1>5 DEF Visited, TypeInv, TypeOK, ctlVars, procVars, fileVars, boundVars
<1>7. Born'
  BY <1>1, <1>2 DEF Visited, TypeInv, TypeOK, Born, procVars
<1> QED BY <1>6, <1>7 DEF TypeInv

LEMMA TypeSpawn ==
  ASSUME TypeInv, NEW r \in Runs, NEW j \in Jobs, Spawn(r, j)
  PROVE  TypeInv'
<1> DEFINE c == RunCampaign[r]
           p == spawned + 1
           n == NextAttempt(j)
           rec == [status |-> "running", attempts |-> n, pid |-> p, confirmed |-> FALSE]
<1>1. PICK s \in BestSlots(j, taken[c]) :
        /\ resv' = [g \in Gpus |-> IF g = s THEN r ELSE resv[g]]
        /\ taken' = [taken EXCEPT ![c] = @ \cup {s}]
        /\ info' = [info EXCEPT ![p] = [job |-> j, attempt |-> n, slot |-> s, parent |-> r]]
  BY DEF Spawn
<1>2. /\ work' = [work EXCEPT ![j] = rec]
      /\ spawned' = p /\ spawned < MaxSpawns
      /\ pc' = [Reap(r) EXCEPT ![p] = "start"]
      /\ failure' = [failure EXCEPT ![j] = "none"]
      /\ queue' = [queue EXCEPT ![c] = @ \ {j}]
      /\ UNCHANGED <<ctlVars, disk, holder, todo, read, exec, marker, output, result,
                     hostOk, boundVars>>
  BY DEF Spawn
<1>3. s \in Slots
  BY ManifestAssumption DEF BestSlots, Slots
<1>4. n \in Nat /\ c \in Campaigns /\ p \in Pids /\ spawned \in Nat
  <2>1. work[j] \in Record /\ c \in Campaigns
    BY ManifestAssumption DEF TypeInv, TypeOK
  <2>2. n \in Nat
    BY <2>1 DEF NextAttempt, Record
  <2>3. spawned \in 0..MaxSpawns /\ MaxSpawns \in Nat
    BY NamesAssumption DEF TypeInv, TypeOK
  <2>4. p \in Pids /\ spawned \in Nat
    BY <1>2, <2>3 DEF Pids
  <2> QED BY <2>1, <2>2, <2>4
<1>5. [job |-> j, attempt |-> n, slot |-> s, parent |-> r] \in Launched
  BY <1>3, <1>4 DEF Launched
<1>6. rec \in Record /\ rec.pid = p
  BY <1>4 DEF Record, Status
<1>7. TypeOK'
  <2>1. work' \in [Jobs -> Record] /\ info' \in [Pids -> Launched \cup {None}]
    BY <1>1, <1>2, <1>5, <1>6 DEF TypeInv, TypeOK
  <2>2. pc' \in [Pids -> WorkerPc \cup {"unborn", "zombie", "gone"}]
    BY <1>2 DEF TypeInv, TypeOK, Reap, WorkerPc
  <2>3. spawned' \in 0..MaxSpawns
    BY <1>2, <1>4, NamesAssumption
  <2>4. taken' \in [Campaigns -> SUBSET Slots] /\ queue' \in [Campaigns -> SUBSET Jobs]
    <3>1. taken \in [Campaigns -> SUBSET Slots] /\ queue \in [Campaigns -> SUBSET Jobs]
      BY DEF TypeInv, TypeOK
    <3> QED BY <1>1, <1>2, <1>3, <3>1
  <2> QED BY <1>1, <1>2, <2>1, <2>2, <2>3, <2>4 DEF TypeInv, TypeOK, ctlVars, boundVars
<1>8. Born'
  <2>1. ASSUME NEW q \in Pids
        PROVE  IF q <= spawned' THEN info'[q] \in Launched ELSE pc'[q] = "unborn" /\ exec'[q] = "none"
    <3>1. CASE q = p
      BY <1>1, <1>2, <1>4, <1>5, <3>1 DEF TypeInv, TypeOK, Born
    <3>2. CASE q # p
      <4>1. info'[q] = info[q] /\ exec'[q] = exec[q] /\ (pc[q] = "unborn" => pc'[q] = "unborn")
        BY <1>1, <1>2, <3>2 DEF TypeInv, TypeOK, Reap
      <4>2. q <= spawned' <=> q <= spawned
        BY <1>2, <1>4, <3>2 DEF Pids
      <4> QED BY <4>1, <4>2 DEF TypeInv, Born
    <3> QED BY <3>1, <3>2
  <2>2. ASSUME NEW i \in Jobs, work'[i].status = "running"
        PROVE  work'[i].pid \in 1..spawned'
    <3> HIDE DEF rec
    <3> QED BY <1>2, <1>4, <1>6, <2>2 DEF TypeInv, TypeOK, Born
  <2>3. ASSUME NEW i \in Jobs, disk'[i].status = "running"
        PROVE  disk'[i].pid \in 1..spawned'
    BY <1>2, <1>4, <2>3 DEF TypeInv, Born
  <2> QED BY <2>1, <2>2, <2>3 DEF Born
<1> QED BY <1>7, <1>8 DEF TypeInv

LEMMA TypeTick ==
  ASSUME TypeInv, NEW r \in Runs, TickStep(r)
  PROVE  TypeInv'
<1> USE NamesAssumption, ManifestAssumption DEF TypeInv, TypeOK, Born, vars, ctlVars, tickVars, procVars, fileVars, boundVars
<1>1. CASE TickBegin(r) BY <1>1 DEF TickBegin, InFlight, JobsOf
<1>2. CASE Save(r) BY <1>2 DEF Save, ReleaseAll, Reap
<1>3. ASSUME NEW j \in Jobs, Skip(r, j) PROVE TypeInv'
  BY <1>3 DEF Skip
<1>4. ASSUME NEW j \in Jobs, ClaimFails(r, j) PROVE TypeInv'
  BY <1>4, SMTT(30) DEF ClaimFails, BestSlots, Slots
<1> HIDE DEF TypeInv
<1> QED BY <1>1, <1>2, <1>3, <1>4, TypePlan, TypeReconcile, TypeSpawn DEF TickStep

LEMMA EmitType ==
  ASSUME TypeOK, NEW j \in Jobs, NEW outcome, UNCHANGED failure \/ Emit(j, outcome)
  PROVE  failure' \in [Jobs -> {"none", "retryable", "fatal"}]
<1>1. failure \in [Jobs -> {"none", "retryable", "fatal"}]
  BY DEF TypeOK
<1> QED BY <1>1 DEF Emit

LEMMA TypeWorker ==
  ASSUME TypeInv, NEW p \in Pids, WorkerStep(p) \/ Kill(p)
  PROVE  TypeInv'
<1> USE NamesAssumption, ManifestAssumption DEF TypeInv, TypeOK, Born, vars, ctlVars, tickVars, procVars, fileVars, boundVars, WorkerPc, ExecState
<1>1. pc[p] # "unborn" \/ exec[p] # "none" => info[p] \in Launched /\ JobOf(p) \in Jobs
  BY DEF Launched, JobOf
<1>2. CASE Start(p)
  <2>1. failure' \in [Jobs -> {"none", "retryable", "fatal"}]
    BY <1>2, EmitType DEF Start
  <2>2. /\ \E e \in ExecState : exec' = [exec EXCEPT ![p] = e]
        /\ \E l \in WorkerPc : pc' = [pc EXCEPT ![p] = l]
        /\ pc[p] # "unborn"
        /\ UNCHANGED <<ctlVars, disk, holder, resv, tickVars, spawned, info, marker, output,
                       result, hostOk, boundVars>>
    <3> HIDE DEF TypeInv, TypeOK, Born, ctlVars, tickVars, boundVars
    <3> QED BY <1>2 DEF Start, Goto
  <2>3. TypeOK'
    BY <2>1, <2>2
  <2>4. p <= spawned /\ p \in 1..MaxSpawns
    BY <2>2 DEF Pids
  <2>5. Born'
    <3> HIDE NamesAssumption, ManifestAssumption DEF ctlVars, tickVars, boundVars, WorkerPc
    <3> QED BY <2>2, <2>4 DEF tickVars
  <2> QED BY <2>3, <2>5
<1>3. CASE RemoteStart(p) BY <1>1, <1>3 DEF RemoteStart
<1>4. CASE Finish(p) BY <1>1, <1>4 DEF Finish, Emit, AfterSuccess
<1>5. CASE Confirm(p) BY <1>1, <1>5 DEF Confirm, Goto, Launched
<1>6. CASE ConfirmTimeout(p) BY <1>1, <1>6 DEF ConfirmTimeout, WorkerFails, Goto
<1>7. CASE ProbeSucceeds(p) BY <1>1, <1>7 DEF ProbeSucceeds, Goto, AfterSuccess
<1>8. CASE ProbeTimeout(p)
  <2>1. /\ pc[p] = "probe" /\ pc' = [pc EXCEPT ![p] = "failreport"]
        /\ UNCHANGED <<ctlVars, disk, holder, resv, tickVars, spawned, info, exec, fileVars, boundVars>>
    <3> HIDE DEF TypeInv, TypeOK, Born, ctlVars, tickVars, boundVars, fileVars
    <3> QED BY <1>8 DEF ProbeTimeout, Goto
  <2> QED BY <2>1
<1>9. CASE Promote(p)
  <2>1. /\ output' = output \/ output' = [output EXCEPT ![JobOf(p)] = TRUE]
        /\ failure' = failure \/ failure' = [failure EXCEPT ![JobOf(p)] = "retryable"]
        /\ \E l \in WorkerPc : pc' = [pc EXCEPT ![p] = l]
        /\ pc[p] # "unborn"
        /\ UNCHANGED <<ctlVars, disk, holder, resv, tickVars, spawned, info, exec, marker,
                       result, hostOk, boundVars>>
    <3> HIDE DEF TypeInv, TypeOK, Born, ctlVars, tickVars, boundVars
    <3> QED BY <1>9 DEF Promote, WorkerFails, Goto
  <2>2. output \in [Jobs -> BOOLEAN] /\ failure \in [Jobs -> {"none", "retryable", "fatal"}]
        /\ pc \in [Pids -> WorkerPc \cup {"unborn", "zombie", "gone"}]
    OBVIOUS
  <2>3. output' \in [Jobs -> BOOLEAN] /\ failure' \in [Jobs -> {"none", "retryable", "fatal"}]
    <3> HIDE NamesAssumption, ManifestAssumption DEF TypeInv, TypeOK, Born
    <3> QED BY <2>1, <2>2
  <2>4. pc' \in [Pids -> WorkerPc \cup {"unborn", "zombie", "gone"}]
    <3> HIDE NamesAssumption, ManifestAssumption DEF TypeInv, TypeOK, Born
    <3> QED BY <2>1, <2>2
  <2>5. TypeOK'
    BY <2>1, <2>3, <2>4
  <2>6. Born'
    BY <2>1
  <2> QED BY <2>5, <2>6
<1>10. CASE Mark(p) BY <1>1, <1>10 DEF Mark, Goto
<1>11. CASE Report(p)
  <2>1. result' \in [Jobs -> [Pids -> {"none", "completed", "failed"}]]
    BY <1>11 DEF Report
  <2>2. pc' \in [Pids -> WorkerPc \cup {"unborn", "zombie", "gone"}]
    BY <1>11 DEF Report, Goto, Exited
  <2> QED BY <1>1, <1>11, <2>1, <2>2 DEF Report, Goto
<1>12. CASE Kill(p) BY <1>1, <1>12 DEF Kill, Goto, Exited, WorkerRuns
<1> QED BY <1>2, <1>3, <1>4, <1>5, <1>6, <1>7, <1>8, <1>9, <1>10, <1>11, <1>12 DEF WorkerStep

LEMMA TypeStop ==
  ASSUME TypeInv, NEW r \in Runs, Stop(r)
  PROVE  TypeInv'
<1>1. /\ resv' = ReleaseAll(r) /\ pc' = Reap(r)
      /\ ctl' = [ctl EXCEPT ![r] = "dead"] /\ stops' = stops + 1 /\ stops < MaxStops
      /\ UNCHANGED <<launcher, ctrlPid, disk, read, spawned, info, exec, fileVars, kills>>
  BY DEF Stop
<1>2. \/ /\ holder' = [holder EXCEPT ![RunCampaign[r]] = None]
         /\ todo' = [todo EXCEPT ![RunCampaign[r]] = {}]
         /\ queue' = [queue EXCEPT ![RunCampaign[r]] = {}]
         /\ taken' = [taken EXCEPT ![RunCampaign[r]] = {}]
      \/ UNCHANGED <<holder, todo, queue, taken>>
  BY DEF Stop
<1>3. \/ work' = [j \in Jobs |-> IF CampaignOf[j] = RunCampaign[r] THEN disk[j] ELSE work[j]]
      \/ work' = work
  BY DEF Stop
<1>4. work' \in [Jobs -> Record] /\ \A j \in Jobs : work'[j] \in {work[j], disk[j]}
  BY <1>3 DEF TypeInv, TypeOK
<1>5. pc' \in [Pids -> WorkerPc \cup {"unborn", "zombie", "gone"}] /\ resv' \in [Gpus -> Runs \cup {None}]
  BY <1>1 DEF TypeInv, TypeOK, Reap, ReleaseAll
<1>6. TypeOK'
  <2>1. holder' \in [Campaigns -> Runs \cup {None}]
    BY <1>2 DEF TypeInv, TypeOK
  <2>2. /\ todo \in [Campaigns -> SUBSET Jobs] /\ queue \in [Campaigns -> SUBSET Jobs]
        /\ taken \in [Campaigns -> SUBSET Slots]
    BY DEF TypeInv, TypeOK
  <2>3. /\ todo' \in [Campaigns -> SUBSET Jobs] /\ queue' \in [Campaigns -> SUBSET Jobs]
        /\ taken' \in [Campaigns -> SUBSET Slots]
    BY <1>2, <2>2
  <2>4. stops' \in 0..MaxStops /\ ctl' \in [Runs -> {"unborn", "sleep", "reconcile", "launch", "dead"}]
    BY <1>1, NamesAssumption DEF TypeInv, TypeOK
  <2> QED BY <1>1, <1>4, <1>5, <2>1, <2>2, <2>3, <2>4 DEF TypeInv, TypeOK, fileVars
<1>7. \A p \in Pids : pc[p] = "unborn" => pc'[p] = "unborn"
  BY <1>1 DEF Reap
<1>8. Born'
  BY <1>1, <1>4, <1>7 DEF TypeInv, Born
<1> QED BY <1>6, <1>8 DEF TypeInv

LEMMA TypeInvariant == Spec => []TypeInv
<1>1. TypeInv /\ UNCHANGED vars => TypeInv'
  BY DEF TypeInv, TypeOK, Born, vars, ctlVars, tickVars, procVars, fileVars, boundVars
<1>2. TypeInv /\ [Next]_vars => TypeInv'
  BY <1>1, TypeLauncher, TypeTick, TypeWorker, TypeStop DEF Next, Rest
<1> QED BY <1>2, TypeInit, PTL DEF Spec

\* For every manifest and every interleaving of controllers, workers and
\* crashes, the state keeps its shape (start_worker, reconcile_running).
THEOREM TypeCorrect == Spec => []TypeOK
<1>1. TypeInv => TypeOK
  BY DEF TypeInv
<1> QED BY <1>1, TypeInvariant, PTL

-----------------------------------------------------------------------------
(* A worker is started only when its job's dependencies left their markers. *)

\* The saved state, the tick's copy and the queue never run ahead of the
\* markers, which nothing removes.
MarkerInv ==
  /\ \A j \in Jobs : work[j].status = "completed" => marker[j]
  /\ \A j \in Jobs : disk[j].status = "completed" => marker[j]
  /\ \A c \in Campaigns : \A j \in queue[c] : \A d \in Deps[j] : marker[d]
  /\ DependenciesMarked

LEMMA MarkerInit == Init => MarkerInv
  BY DEF Init, MarkerInv, NewRecord, DependenciesMarked

\* Markers stay, so what a step does not start or complete stays justified.
LEMMA MarkerKept ==
  ASSUME MarkerInv, TypeInv, UNCHANGED <<queue, info, spawned>>,
         \A j \in Jobs : marker[j] => marker'[j],
         \A j \in Jobs : work'[j].status = "completed" => work[j].status = "completed" \/ marker'[j],
         \A j \in Jobs : disk'[j].status = "completed" =>
            disk[j].status = "completed" \/ work[j].status = "completed"
  PROVE  MarkerInv'
<1>1. \A j \in Jobs : \A d \in Deps[j] : d \in Jobs
  BY ManifestAssumption
<1>2. \A c \in Campaigns : \A j \in queue[c] : j \in Jobs
  BY DEF TypeInv, TypeOK
<1>3. \A p \in 1..spawned : JobOf(p) \in Jobs
  BY NamesAssumption DEF TypeInv, TypeOK, Born, Pids, JobOf, Launched
<1>4. DependenciesMarked'
  BY <1>1, <1>3 DEF MarkerInv, DependenciesMarked, JobOf
<1> QED BY <1>1, <1>2, <1>4 DEF MarkerInv

LEMMA MarkerReconcile ==
  ASSUME MarkerInv, TypeInv, NEW r \in Runs, NEW j \in Jobs,
         ReadMarker(r, j) \/ ReadResult(r, j) \/ CheckPid(r, j)
  PROVE  MarkerInv'
<1>1. PICK rec \in Record : Visited(r, j, rec)
  BY VisitShape DEF TypeInv
<1>2. \A i \in Jobs : work'[i].status = "completed" => work[i].status = "completed" \/ marker[i]
  BY <1>1 DEF Visited, TypeInv, TypeOK
<1> QED BY <1>1, <1>2, MarkerKept DEF Visited, procVars, fileVars

LEMMA MarkerPlan ==
  ASSUME MarkerInv, TypeInv, NEW r \in Runs, Plan(r)
  PROVE  MarkerInv'
<1> DEFINE c == RunCampaign[r]
<1>1. /\ work' = Planned(c) /\ queue' = [queue EXCEPT ![c] = ReadyIn(work', c)]
      /\ UNCHANGED <<disk, info, spawned, marker>>
  BY DEF Plan, procVars, fileVars
<1>2. ASSUME NEW j \in Jobs PROVE work'[j].status = "completed" => marker[j]
  <2>1. c \in Campaigns /\ TypeOK
    BY ManifestAssumption DEF TypeInv
  <2>2. work'[j] = Planned(c)[j]
    BY <1>1
  <2> QED BY <2>1, <2>2, PlannedRecord DEF MarkerInv
<1>3. \A d \in Campaigns : \A j \in queue'[d] : \A e \in Deps[j] : marker[e]
  <2>1. \A j \in ReadyIn(work', c) : \A e \in Deps[j] : e \in Jobs /\ work'[e].status = "completed"
    BY ManifestAssumption DEF ReadyIn, JobsOf
  <2>2. \A j \in ReadyIn(work', c) : \A e \in Deps[j] : marker[e]
    BY <1>2, <2>1
  <2> QED BY <1>1, <2>2 DEF MarkerInv, TypeInv, TypeOK
<1> QED BY <1>1, <1>2, <1>3 DEF MarkerInv, DependenciesMarked, JobOf

LEMMA MarkerSpawn ==
  ASSUME MarkerInv, TypeInv, NEW r \in Runs, NEW j \in Jobs, Spawn(r, j)
  PROVE  MarkerInv'
<1> DEFINE c == RunCampaign[r]
           p == spawned + 1
<1>1. /\ j \in queue[c] /\ c \in Campaigns
      /\ spawned' = p /\ p \in Pids /\ spawned \in Nat
      /\ queue' = [queue EXCEPT ![c] = @ \ {j}]
      /\ UNCHANGED <<disk, marker>>
      /\ \E rec : work' = [work EXCEPT ![j] = rec] /\ rec.status = "running"
      /\ \E i : info' = [info EXCEPT ![p] = i] /\ i.job = j
  <2>1. /\ j \in queue[c] /\ spawned' = p /\ spawned < MaxSpawns
        /\ queue' = [queue EXCEPT ![c] = @ \ {j}] /\ UNCHANGED <<disk, marker>>
        /\ work' = [work EXCEPT ![j] = [status |-> "running", attempts |-> NextAttempt(j),
                                       pid |-> p, confirmed |-> FALSE]]
    BY DEF Spawn, Placing
  <2>2. PICK s : info' = [info EXCEPT ![p] =
                   [job |-> j, attempt |-> NextAttempt(j), slot |-> s, parent |-> r]]
    BY DEF Spawn
  <2>3. c \in Campaigns /\ p \in Pids /\ spawned \in Nat
    BY <2>1, ManifestAssumption, NamesAssumption DEF TypeInv, TypeOK, Pids
  <2>4. \E i : info' = [info EXCEPT ![p] = i] /\ i.job = j
    <3> WITNESS [job |-> j, attempt |-> NextAttempt(j), slot |-> s, parent |-> r]
    <3> QED BY <2>2
  <2>5. \E rec : work' = [work EXCEPT ![j] = rec] /\ rec.status = "running"
    <3> WITNESS [status |-> "running", attempts |-> NextAttempt(j), pid |-> p, confirmed |-> FALSE]
    <3> QED BY <2>1
  <2> QED BY <2>1, <2>3, <2>4, <2>5
<1>2. \A i \in Jobs : work'[i].status = "completed" => marker'[i]
  BY <1>1 DEF MarkerInv, TypeInv, TypeOK
<1>3. \A d \in Campaigns : \A i \in queue'[d] : \A e \in Deps[i] : marker'[e]
  BY <1>1 DEF MarkerInv, TypeInv, TypeOK
<1>4. DependenciesMarked'
  <2> SUFFICES ASSUME NEW q \in 1..spawned', NEW d \in Deps[info'[q].job] PROVE marker[d]
    BY <1>1 DEF DependenciesMarked, JobOf
  <2>1. CASE q = p
    BY <1>1, <2>1 DEF MarkerInv, TypeInv, TypeOK
  <2>2. CASE q # p
    BY <1>1, <2>2 DEF MarkerInv, DependenciesMarked, JobOf, TypeInv, TypeOK
  <2> QED BY <2>1, <2>2
<1> QED BY <1>1, <1>2, <1>3, <1>4 DEF MarkerInv

LEMMA MarkerOther ==
  ASSUME MarkerInv, TypeInv, NEW r \in Runs,
         \/ LauncherStep(r) \/ RunForeground(r) \/ TickBegin(r) \/ Save(r) \/ Stop(r)
         \/ \E j \in Jobs : Skip(r, j) \/ ClaimFails(r, j)
  PROVE  MarkerInv'
<1>1. CASE LauncherStep(r) \/ RunForeground(r) \/ TickBegin(r)
  BY <1>1, MarkerKept DEF LauncherStep, RunCheck, RunSpawn, RunRecord, RunForeground, TickBegin,
                          tickVars, procVars, fileVars
<1>2. CASE Save(r)
  BY <1>2, MarkerKept DEF Save, fileVars, TypeInv, TypeOK
<1>3. CASE Stop(r)
  <2>1. /\ UNCHANGED <<info, spawned, marker, disk>>
        /\ \A j \in Jobs : work'[j] \in {work[j], disk[j]}
        /\ queue' = queue \/ queue' = [queue EXCEPT ![RunCampaign[r]] = {}]
    BY <1>3 DEF Stop, fileVars, TypeInv, TypeOK
  <2>2. \A j \in Jobs : work'[j].status = "completed" => marker'[j]
    BY <2>1 DEF MarkerInv
  <2>3. \A c \in Campaigns : queue'[c] \subseteq queue[c]
    BY <2>1 DEF TypeInv, TypeOK
  <2> QED BY <2>1, <2>2, <2>3 DEF MarkerInv, DependenciesMarked, JobOf
<1>4. ASSUME NEW j \in Jobs, Skip(r, j) \/ ClaimFails(r, j) PROVE MarkerInv'
  <2>1. /\ UNCHANGED <<info, spawned, marker, disk, work>>
        /\ queue' = [queue EXCEPT ![RunCampaign[r]] = @ \ {j}]
    BY <1>4 DEF Skip, ClaimFails, procVars, fileVars
  <2>2. \A c \in Campaigns : queue'[c] \subseteq queue[c]
    BY <2>1 DEF TypeInv, TypeOK
  <2> QED BY <2>1, <2>2 DEF MarkerInv, DependenciesMarked, JobOf
<1> QED BY <1>1, <1>2, <1>3, <1>4

LEMMA MarkerWorker ==
  ASSUME MarkerInv, TypeInv, NEW p \in Pids, WorkerStep(p) \/ Kill(p)
  PROVE  MarkerInv'
<1>1. /\ UNCHANGED <<queue, info, spawned, work, disk>>
      /\ marker' = marker \/ marker' = [marker EXCEPT ![JobOf(p)] = TRUE]
  BY DEF WorkerStep, Start, RemoteStart, Finish, Confirm, ConfirmTimeout, ProbeSucceeds,
         ProbeTimeout, Promote, Mark, Report, Kill, tickVars, procVars, fileVars
<1>2. \A j \in Jobs : marker[j] => marker'[j]
  <2>1. marker \in [Jobs -> BOOLEAN]
    BY DEF TypeInv, TypeOK
  <2> QED BY <1>1, <2>1
<1> QED BY <1>1, <1>2, MarkerKept

\* For every manifest: no worker runs a job one of whose dependencies has no
\* validated completion marker (ready_jobs, completion_marker).
THEOREM DependenciesAreMarked == Spec => []DependenciesMarked
<1>1. MarkerInv /\ TypeInv /\ UNCHANGED vars => MarkerInv'
  BY DEF MarkerInv, DependenciesMarked, JobOf, vars, tickVars, procVars, fileVars
<1>2. MarkerInv /\ TypeInv /\ [Next]_vars => MarkerInv'
  BY <1>1, MarkerReconcile, MarkerPlan, MarkerSpawn, MarkerOther, MarkerWorker
     DEF Next, Rest, TickStep
<1>3. MarkerInv => DependenciesMarked
  BY DEF MarkerInv
<1> QED BY <1>2, <1>3, MarkerInit, TypeInvariant, PTL DEF Spec
=============================================================================
