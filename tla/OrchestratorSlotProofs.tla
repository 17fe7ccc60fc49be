---------------------- MODULE OrchestratorSlotProofs ------------------------
(***************************************************************************)
(* What the state lock and the GPU reservations achieve.                   *)
(* TickInv: the tick in progress in a campaign is the lock holder's, and   *)
(*   outside a tick memory equals the saved state.                         *)
(* SlotInv: the records that say "running" name distinct GPUs, whose       *)
(*   reservations their living parents hold.                               *)
(* LedgerInv: the records in memory are at most one legal move per job     *)
(*   ahead of the saved ones; with it, the state file implements           *)
(*   CampaignDag, and launches stay within the retry budget.               *)
(* CrewInv, LiveInv: while no controller stops early, a worker that runs   *)
(*   makes its job's last attempt, which nothing has settled; with them,   *)
(*   no job runs twice, no two processes share a GPU, parents end first.   *)
(* LeakInv, PlacedInv: what a controller reserves, and leaves unplaced.    *)
(***************************************************************************)
EXTENDS OrchestratorProofs, FiniteSetTheorems, WellFoundedInduction

InTick(r) == ctl[r] \in {"reconcile", "launch"}

LockInv ==
  /\ \A r \in Runs : InTick(r) <=> holder[RunCampaign[r]] = r
  /\ \A c \in Campaigns : holder[c] # None => RunCampaign[holder[c]] = c

\* Between ticks nothing is in memory that is not in the file.
IdleInv ==
  \A c \in Campaigns : holder[c] = None =>
    /\ todo[c] = {} /\ queue[c] = {}
    /\ \A j \in Jobs : CampaignOf[j] = c => work[j] = disk[j]

\* The two work lists of a tick name jobs of the campaign in the right state.
ListInv ==
  /\ \A c \in Campaigns : \A j \in todo[c] : CampaignOf[j] = c /\ work[j].status = "running"
  /\ \A c \in Campaigns : \A j \in queue[c] : CampaignOf[j] = c /\ work[j].status = "pending"
  /\ \A r \in Runs : ctl[r] = "launch" => todo[RunCampaign[r]] = {}
  /\ \A r \in Runs : ctl[r] = "reconcile" => queue[RunCampaign[r]] = {}

FinalInv == \A j \in Jobs : disk[j].status \in Terminal => work[j].status = disk[j].status

TickInv == LockInv /\ IdleInv /\ ListInv /\ FinalInv

\* A controller lives once, and only one that has lived has workers.
LifeInv ==
  /\ \A r \in Runs : launcher[r] \in {"new", "spawn"} => ctl[r] = "unborn"
  /\ \A p \in 1..spawned : ctl[info[p].parent] # "unborn"

LEMMA TickInit == Init => TickInv
  BY ManifestAssumption, NamesAssumption
     DEF Init, TickInv, LockInv, InTick, IdleInv, ListInv, FinalInv, NewRecord, Terminal

LEMMA TickLauncher ==
  ASSUME TickInv, TypeInv, LifeInv, NEW r \in Runs, LauncherStep(r) \/ RunForeground(r)
  PROVE  TickInv'
<1>1. /\ ctl' = ctl \/ (ctl[r] = "unborn" /\ ctl' = [ctl EXCEPT ![r] = "sleep"])
      /\ UNCHANGED <<disk, holder, work, todo, queue>>
  BY DEF LauncherStep, RunCheck, RunSpawn, RunRecord, RunForeground, LifeInv, tickVars
<1>2. \A q \in Runs : /\ InTick(q)' <=> InTick(q)
                      /\ ctl'[q] \in {"reconcile", "launch"} => ctl'[q] = ctl[q]
  BY <1>1 DEF InTick, TypeInv, TypeOK
<1> QED BY <1>1, <1>2 DEF TickInv, LockInv, IdleInv, ListInv, FinalInv

LEMMA TickTickBegin ==
  ASSUME TickInv, TypeInv, NEW r \in Runs, TickBegin(r)
  PROVE  TickInv'
<1> DEFINE c == RunCampaign[r]
<1>1. /\ ctl[r] = "sleep" /\ holder[c] = None /\ c \in Campaigns
      /\ holder' = [holder EXCEPT ![c] = r] /\ ctl' = [ctl EXCEPT ![r] = "reconcile"]
      /\ todo' = [todo EXCEPT ![c] = {j \in JobsOf(c) : disk[j].status = "running"}]
      /\ UNCHANGED <<disk, work, queue>>
  BY ManifestAssumption DEF TickBegin, InFlight, LockFree
<1>2. LockInv'
  BY <1>1, NamesAssumption DEF TickInv, LockInv, InTick, TypeInv, TypeOK
<1>3. IdleInv'
  BY <1>1, NamesAssumption DEF TickInv, IdleInv, TypeInv, TypeOK
<1>4. \A q \in Runs : q # r /\ RunCampaign[q] = c => ~InTick(q)
  BY <1>1, NamesAssumption DEF TickInv, LockInv
<1>5. ListInv'
  <2>1. \A d \in Campaigns : \A j \in todo'[d] : CampaignOf[j] = d /\ work[j].status = "running"
    BY <1>1 DEF TickInv, ListInv, IdleInv, JobsOf, TypeInv, TypeOK
  <2>2. \A q \in Runs : ctl'[q] = "launch" => todo'[RunCampaign[q]] = {}
    BY <1>1, <1>4 DEF TickInv, ListInv, InTick, TypeInv, TypeOK
  <2>3. \A q \in Runs : ctl'[q] = "reconcile" => queue'[RunCampaign[q]] = {}
    BY <1>1, <1>4 DEF TickInv, ListInv, IdleInv, InTick, TypeInv, TypeOK
  <2> QED BY <1>1, <2>1, <2>2, <2>3 DEF TickInv, ListInv
<1>6. FinalInv'
  BY <1>1 DEF TickInv, FinalInv
<1> QED BY <1>2, <1>3, <1>5, <1>6 DEF TickInv

LEMMA TickReconcile ==
  ASSUME TickInv, TypeInv, NEW r \in Runs, NEW j \in Jobs,
         ReadMarker(r, j) \/ ReadResult(r, j) \/ CheckPid(r, j)
  PROVE  TickInv'
<1> DEFINE c == RunCampaign[r]
<1>1. PICK rec \in Record : Visited(r, j, rec)
  BY VisitShape DEF TypeInv
<1>2. /\ holder[c] = r /\ c \in Campaigns /\ ctl[r] = "reconcile" /\ queue[c] = {}
      /\ j \in todo[c] /\ CampaignOf[j] = c /\ work[j].status = "running"
      /\ work' = [work EXCEPT ![j] = rec]
      /\ UNCHANGED <<ctl, disk, holder, queue>>
  BY <1>1, ManifestAssumption DEF Visited, ctlVars, TickInv, ListInv
<1>0. \/ todo' = todo /\ rec.status = "running"
      \/ todo' = [todo EXCEPT ![c] = @ \ {j}]
  BY <1>1, <1>2 DEF Visited
<1>9. todo \in [Campaigns -> SUBSET Jobs]
  BY DEF TypeInv, TypeOK
<1>3. \A d \in Campaigns : todo'[d] \subseteq todo[d]
  BY <1>0, <1>9
<1>4. rec.status = "running" \/ \A d \in Campaigns : j \notin todo'[d]
  <2>1. CASE todo' = todo
    BY <1>0, <1>9, <2>1, <1>2
  <2>2. CASE todo' = [todo EXCEPT ![c] = @ \ {j}]
    <3>1. \A d \in Campaigns : j \in todo[d] => d = c
      BY <1>2 DEF TickInv, ListInv
    <3> QED BY <1>9, <2>2, <3>1
  <2> QED BY <1>0, <2>1, <2>2
<1>5. LockInv'
  BY <1>2 DEF TickInv, LockInv, InTick
<1>6. IdleInv'
  <2> SUFFICES ASSUME NEW d \in Campaigns, holder[d] = None
               PROVE  /\ todo'[d] = {} /\ queue[d] = {}
                      /\ \A i \in Jobs : CampaignOf[i] = d => work'[i] = disk[i]
    BY <1>2 DEF IdleInv
  <2>1. d # c
    BY <1>2, NamesAssumption
  <2> QED BY <1>2, <1>3, <2>1 DEF TickInv, IdleInv, TypeInv, TypeOK
<1>7. ListInv'
  <2>1. \A d \in Campaigns : \A i \in todo'[d] : CampaignOf[i] = d /\ work'[i].status = "running"
    BY <1>2, <1>3, <1>4 DEF TickInv, ListInv, TypeInv, TypeOK
  <2>2. \A d \in Campaigns : \A i \in queue[d] : CampaignOf[i] = d /\ work'[i].status = "pending"
    BY <1>2 DEF TickInv, ListInv, TypeInv, TypeOK
  <2>3. \A q \in Runs : ctl[q] = "launch" => todo'[RunCampaign[q]] = {}
    BY <1>3, ManifestAssumption DEF TickInv, ListInv
  <2> QED BY <1>2, <2>1, <2>2, <2>3 DEF TickInv, ListInv
<1>8. FinalInv'
  BY <1>2 DEF TickInv, FinalInv, Terminal, TypeInv, TypeOK
<1> QED BY <1>5, <1>6, <1>7, <1>8 DEF TickInv

LEMMA TickPlan ==
  ASSUME TickInv, TypeInv, NEW r \in Runs, Plan(r)
  PROVE  TickInv'
<1> DEFINE c == RunCampaign[r]
<1>1. /\ ctl[r] = "reconcile" /\ holder[c] = r /\ todo[c] = {} /\ c \in Campaigns
      /\ work' = Planned(c) /\ queue' = [queue EXCEPT ![c] = ReadyIn(work', c)]
      /\ ctl' = [ctl EXCEPT ![r] = "launch"]
      /\ UNCHANGED <<disk, holder, todo>>
  BY ManifestAssumption DEF Plan
<1>2. \A j \in Jobs : work'[j] = work[j] \/ (CampaignOf[j] = c /\ work[j].status = "pending")
  <2> TAKE j \in Jobs
  <2>1. work'[j] = Planned(c)[j]
    BY <1>1
  <2> QED BY <1>1, <2>1, PlannedRecord DEF TypeInv
<1>3. LockInv'
  BY <1>1 DEF TickInv, LockInv, InTick, TypeInv, TypeOK
<1>4. IdleInv'
  BY <1>1, <1>2, NamesAssumption DEF TickInv, IdleInv, TypeInv, TypeOK
<1>5. \A q \in Runs : q # r /\ RunCampaign[q] = c => ~InTick(q)
  BY <1>1 DEF TickInv, LockInv
<1>6. ListInv'
  <2>1. \A d \in Campaigns : \A i \in todo[d] : CampaignOf[i] = d /\ work'[i].status = "running"
    <3> TAKE d \in Campaigns
    <3> TAKE i \in todo[d]
    <3>1. i \in Jobs /\ CampaignOf[i] = d /\ work[i].status = "running"
      BY DEF TickInv, ListInv, TypeInv, TypeOK
    <3> QED BY <1>2, <3>1
  <2>2. \A i \in ReadyIn(work', c) : CampaignOf[i] = c /\ work'[i].status = "pending"
    BY DEF ReadyIn, JobsOf
  <2>3. \A d \in Campaigns : d # c => \A i \in queue[d] : work'[i] = work[i]
    <3> TAKE d \in Campaigns
    <3> HAVE d # c
    <3> TAKE i \in queue[d]
    <3>1. i \in Jobs /\ CampaignOf[i] # c
      BY DEF TickInv, ListInv, TypeInv, TypeOK
    <3> QED BY <1>2, <3>1
  <2>4. \A d \in Campaigns : \A i \in queue'[d] : CampaignOf[i] = d /\ work'[i].status = "pending"
    BY <1>1, <2>2, <2>3 DEF TickInv, ListInv, TypeInv, TypeOK
  <2>5. \A q \in Runs : ctl'[q] = "launch" => todo'[RunCampaign[q]] = {}
    BY <1>1 DEF TickInv, ListInv, TypeInv, TypeOK
  <2>6. \A q \in Runs : ctl'[q] = "reconcile" => queue'[RunCampaign[q]] = {}
    BY <1>1, <1>5 DEF TickInv, ListInv, InTick, TypeInv, TypeOK
  <2> QED BY <1>1, <2>1, <2>4, <2>5, <2>6 DEF ListInv
<1>7. FinalInv'
  BY <1>1, <1>2 DEF TickInv, FinalInv, Terminal
<1> QED BY <1>3, <1>4, <1>6, <1>7 DEF TickInv

\* A step of the launch loop takes one job off the queue.
LEMMA TickPlace ==
  ASSUME TickInv, TypeInv, NEW r \in Runs, NEW j \in Jobs, Placing(r, j),
         UNCHANGED <<ctl, disk, holder, todo>>,
         queue' = [queue EXCEPT ![RunCampaign[r]] = @ \ {j}],
         work' = work \/ \E rec : work' = [work EXCEPT ![j] = rec] /\ rec.status = "running"
  PROVE  TickInv'
<1> DEFINE c == RunCampaign[r]
<1>1. /\ ctl[r] = "launch" /\ holder[c] = r /\ j \in queue[c] /\ c \in Campaigns
      /\ CampaignOf[j] = c /\ work[j].status = "pending"
  BY ManifestAssumption DEF Placing, TickInv, ListInv
<1>2. \A i \in Jobs : i # j => work'[i] = work[i]
  BY DEF TypeInv, TypeOK
<1>3. LockInv'
  BY DEF TickInv, LockInv, InTick
<1>4. IdleInv'
  BY <1>1, <1>2, NamesAssumption DEF TickInv, IdleInv, TypeInv, TypeOK
<1>5. ListInv'
  <2>1. \A d \in Campaigns : \A i \in todo[d] : CampaignOf[i] = d /\ work'[i].status = "running"
    BY <1>1, <1>2 DEF TickInv, ListInv, TypeInv, TypeOK
  <2>2. \A d \in Campaigns : queue'[d] \subseteq queue[d] /\ j \notin queue'[d]
    BY <1>1 DEF TickInv, ListInv, TypeInv, TypeOK
  <2>3. \A d \in Campaigns : \A i \in queue'[d] : CampaignOf[i] = d /\ work'[i].status = "pending"
    BY <1>2, <2>2 DEF TickInv, ListInv, TypeInv, TypeOK
  <2> QED BY <2>1, <2>2, <2>3, ManifestAssumption DEF TickInv, ListInv
<1>6. FinalInv'
  BY <1>1, <1>2 DEF TickInv, FinalInv, Terminal
<1> QED BY <1>3, <1>4, <1>5, <1>6 DEF TickInv

\* Save and Stop end a tick: memory and file agree again.
LEMMA TickEnd ==
  ASSUME TickInv, TypeInv, NEW r \in Runs, Save(r) \/ Stop(r)
  PROVE  TickInv'
<1> DEFINE c == RunCampaign[r]
<1>1. c \in Campaigns
  BY ManifestAssumption
<1>2. CASE holder[c] = r
  <2>1. /\ holder' = [holder EXCEPT ![c] = None]
        /\ ctl' = [ctl EXCEPT ![r] = "dead"] \/ ctl' = [ctl EXCEPT ![r] = "sleep"]
        /\ todo' = [todo EXCEPT ![c] = {}] /\ queue' = [queue EXCEPT ![c] = {}]
    BY <1>1, <1>2 DEF Save, Stop, TickInv, ListInv, TypeInv, TypeOK
  <2>2. \A j \in Jobs : IF CampaignOf[j] = c THEN work'[j] = disk'[j] /\ disk'[j] \in {work[j], disk[j]}
                        ELSE work'[j] = work[j] /\ disk'[j] = disk[j]
    BY <1>2 DEF Save, Stop
  <2>3. \A q \in Runs : /\ RunCampaign[q] = c => ~InTick(q)'
                        /\ RunCampaign[q] # c => ctl'[q] = ctl[q]
    BY <1>2, <2>1 DEF TickInv, LockInv, InTick, TypeInv, TypeOK
  <2>4. LockInv'
    BY <1>1, <2>1, <2>3, NamesAssumption DEF TickInv, LockInv, InTick, TypeInv, TypeOK
  <2>5. IdleInv'
    BY <2>1, <2>2 DEF TickInv, IdleInv, TypeInv, TypeOK
  <2>6. ListInv'
    <3>1. \A d \in Campaigns : \A i \in todo'[d] : CampaignOf[i] = d /\ work'[i].status = "running"
      BY <2>1, <2>2 DEF TickInv, ListInv, TypeInv, TypeOK
    <3>2. \A d \in Campaigns : \A i \in queue'[d] : CampaignOf[i] = d /\ work'[i].status = "pending"
      BY <2>1, <2>2 DEF TickInv, ListInv, TypeInv, TypeOK
    <3>3. \A q \in Runs : /\ ctl'[q] = "launch" => todo'[RunCampaign[q]] = {}
                          /\ ctl'[q] = "reconcile" => queue'[RunCampaign[q]] = {}
      BY <1>1, <2>1, <2>3, ManifestAssumption DEF TickInv, ListInv, InTick, TypeInv, TypeOK
    <3> QED BY <3>1, <3>2, <3>3 DEF ListInv
  <2>7. FinalInv'
    BY <2>2 DEF TickInv, FinalInv
  <2> QED BY <2>4, <2>5, <2>6, <2>7 DEF TickInv
<1>3. CASE holder[c] # r
  <2>1. ~InTick(r) /\ ctl' = [ctl EXCEPT ![r] = "dead"] /\ UNCHANGED <<disk, holder, work, todo, queue>>
    BY <1>3 DEF Save, Stop, TickInv, LockInv
  <2>2. \A q \in Runs : InTick(q)' <=> InTick(q)
    BY <2>1 DEF InTick, TypeInv, TypeOK
  <2>3. \A q \in Runs : ctl'[q] \in {"reconcile", "launch"} => ctl'[q] = ctl[q]
    BY <2>1 DEF TypeInv, TypeOK
  <2> QED BY <2>1, <2>2, <2>3 DEF TickInv, LockInv, IdleInv, ListInv, FinalInv
<1> QED BY <1>2, <1>3

LEMMA TickWorker ==
  ASSUME TickInv, NEW p \in Pids, WorkerStep(p) \/ Kill(p)
  PROVE  TickInv'
<1>1. UNCHANGED <<ctl, holder, todo, queue, work, disk>>
  BY DEF WorkerStep, Start, RemoteStart, Finish, Confirm, ConfirmTimeout, ProbeSucceeds,
         ProbeTimeout, Promote, Mark, Report, Kill, tickVars, ctlVars
<1> QED BY <1>1 DEF TickInv, LockInv, InTick, IdleInv, ListInv, FinalInv

-----------------------------------------------------------------------------
\* Running jobs of one campaign, according to these records, have GPUs of their own.
Apart(recs) ==
  \A i, j \in Jobs :
    /\ i # j /\ CampaignOf[i] = CampaignOf[j]
    /\ recs[i].status = "running" /\ recs[j].status = "running"
    => info[recs[i].pid].slot = Cpu \/ info[recs[i].pid].slot # info[recs[j].pid].slot

\* A running job was started by a controller of its campaign, and a living
\* parent holds the reservation of its GPU (or is just settling it).
Held(recs, settling) ==
  \A j \in Jobs : recs[j].status = "running" =>
    LET q == info[recs[j].pid].parent
        g == info[recs[j].pid].slot IN
    /\ RunCampaign[q] = CampaignOf[j]
    /\ CtlAlive(q) /\ g \in Gpus => resv[g] = q \/ (settling /\ holder[CampaignOf[j]] = q)

TakenInv ==
  \A r \in Runs : ctl[r] = "launch" =>
    \A j \in Jobs : CampaignOf[j] = RunCampaign[r] /\ Running(j) => SlotOf(j) \in taken[RunCampaign[r]]

SlotInv ==
  /\ Apart(work) /\ Apart(disk)
  /\ Held(work, FALSE) /\ Held(disk, TRUE)
  /\ LifeInv /\ TakenInv

LEMMA RunningKnown ==
  ASSUME TypeInv, NEW j \in Jobs
  PROVE  /\ work[j].status = "running" => work[j].pid \in 1..spawned /\ info[work[j].pid] \in Launched
         /\ disk[j].status = "running" => disk[j].pid \in 1..spawned /\ info[disk[j].pid] \in Launched
<1>1. \A p \in 1..spawned : p \in Pids /\ info[p] \in Launched
  BY NamesAssumption DEF TypeInv, TypeOK, Born, Pids
<1> QED BY <1>1 DEF TypeInv, Born

LEMMA SlotInit == Init => SlotInv
  BY DEF Init, SlotInv, Apart, Held, LifeInv, TakenInv, NewRecord

\* A step that starts no worker, frees no GPU and saves nothing.
LEMMA SlotQuiet ==
  ASSUME SlotInv, TypeInv, UNCHANGED <<disk, info, spawned, resv>>,
         \A j \in Jobs : work'[j].status = "running" =>
            work[j].status = "running" /\ work'[j].pid = work[j].pid,
         \A p \in 1..spawned : CtlAlive(info[p].parent)' => CtlAlive(info[p].parent),
         \A c \in Campaigns : holder'[c] = holder[c] \/ holder[c] = None,
         LifeInv', TakenInv'
  PROVE  SlotInv'
<1>1. Apart(work)' /\ Apart(disk)'
  BY DEF SlotInv, Apart
<1>2. Held(work, FALSE)'
  BY RunningKnown DEF SlotInv, Held, CtlAlive
<1>3. Held(disk, TRUE)'
  <2> SUFFICES ASSUME NEW j \in Jobs, disk[j].status = "running"
               PROVE  LET q == info[disk[j].pid].parent
                          g == info[disk[j].pid].slot IN
                      /\ RunCampaign[q] = CampaignOf[j]
                      /\ CtlAlive(q)' /\ g \in Gpus => resv[g] = q \/ holder'[CampaignOf[j]] = q
    BY DEF Held, CtlAlive
  <2>1. info[disk[j].pid].parent # None /\ CampaignOf[j] \in Campaigns
    BY RunningKnown, NamesAssumption, ManifestAssumption DEF Launched
  <2>2. CtlAlive(info[disk[j].pid].parent)' => CtlAlive(info[disk[j].pid].parent)
    BY RunningKnown DEF CtlAlive
  <2> QED BY <2>1, <2>2, SMTT(30) DEF SlotInv, Held
<1> QED BY <1>1, <1>2, <1>3 DEF SlotInv

LEMMA SlotLauncher ==
  ASSUME SlotInv, TypeInv, NEW r \in Runs, LauncherStep(r) \/ RunForeground(r)
  PROVE  SlotInv'
<1>1. /\ UNCHANGED <<disk, info, spawned, resv, work, holder, taken>>
      /\ \E l \in {"record", "end", "spawn"} : launcher' = [launcher EXCEPT ![r] = l]
      /\ \/ launcher[r] \in {"new", "spawn"} /\ launcher'[r] # "spawn" /\ ctl' = [ctl EXCEPT ![r] = "sleep"]
         \/ (launcher'[r] = "spawn" => launcher[r] = "new") /\ ctl' = ctl
  BY DEF LauncherStep, RunCheck, RunSpawn, RunRecord, RunForeground, tickVars, procVars, TypeInv, TypeOK
<1>0. /\ \A q \in Runs : launcher[q] \in {"new", "spawn"} => ctl[q] = "unborn"
      /\ \A p \in 1..spawned : ctl[info[p].parent] # "unborn"
  BY DEF SlotInv, LifeInv
<1>5. /\ \A q \in Runs : q # r => launcher'[q] = launcher[q] /\ ctl'[q] = ctl[q]
      /\ launcher'[r] = "spawn" => launcher[r] = "new" /\ ctl'[r] = ctl[r]
      /\ launcher'[r] # "new"
  BY <1>1 DEF TypeInv, TypeOK
<1>6. \A p \in 1..spawned : ctl'[info[p].parent] = ctl[info[p].parent]
  <2> TAKE p \in 1..spawned
  <2>1. info[p].parent \in Runs /\ ctl[info[p].parent] # "unborn"
    BY <1>0, NamesAssumption DEF TypeInv, TypeOK, Born, Pids, Launched
  <2>2. ctl' = ctl \/ ctl[r] = "unborn"
    BY <1>0, <1>1
  <2>3. CASE info[p].parent = r
    BY <2>1, <2>2, <2>3
  <2>4. CASE info[p].parent # r
    BY <1>5, <2>1, <2>4
  <2> QED BY <2>3, <2>4
<1>2. LifeInv'
  BY <1>0, <1>1, <1>5, <1>6 DEF LifeInv
<1>3. TakenInv'
  BY <1>1 DEF SlotInv, TakenInv, Running, SlotOf, TypeInv, TypeOK
<1>4. \A p \in 1..spawned : CtlAlive(info[p].parent)' => CtlAlive(info[p].parent)
  BY <1>1, <1>6 DEF CtlAlive
<1> QED BY <1>1, <1>2, <1>3, <1>4, SlotQuiet

LEMMA SlotTickBegin ==
  ASSUME SlotInv, TypeInv, NEW r \in Runs, TickBegin(r)
  PROVE  SlotInv'
<1>1. /\ UNCHANGED <<disk, info, spawned, resv, work, launcher, taken>>
      /\ ctl[r] = "sleep" /\ ctl' = [ctl EXCEPT ![r] = "reconcile"]
      /\ holder[RunCampaign[r]] = None /\ holder' = [holder EXCEPT ![RunCampaign[r]] = r]
  BY DEF TickBegin, LockFree, procVars
<1>2. LifeInv'
  BY <1>1 DEF SlotInv, LifeInv, TypeInv, TypeOK
<1>3. TakenInv'
  BY <1>1 DEF SlotInv, TakenInv, Running, SlotOf, TypeInv, TypeOK
<1>4. \A p \in 1..spawned : CtlAlive(info[p].parent)' => CtlAlive(info[p].parent)
  BY <1>1 DEF CtlAlive, TypeInv, TypeOK
<1>5. \A c \in Campaigns : holder'[c] = holder[c] \/ holder[c] = None
  BY <1>1 DEF TypeInv, TypeOK
<1> QED BY <1>1, <1>2, <1>3, <1>4, <1>5, SlotQuiet

LEMMA SlotPlan ==
  ASSUME SlotInv, TickInv, TypeInv, NEW r \in Runs, Plan(r)
  PROVE  SlotInv'
<1> DEFINE c == RunCampaign[r]
<1>1. /\ UNCHANGED <<disk, info, spawned, resv, launcher, holder>>
      /\ ctl[r] = "reconcile" /\ holder[c] = r /\ c \in Campaigns
      /\ ctl' = [ctl EXCEPT ![r] = "launch"] /\ work' = Planned(c)
      /\ taken' = [taken EXCEPT ![c] = Occupied(work', c)]
  BY ManifestAssumption DEF Plan, procVars
<1>2. ASSUME NEW j \in Jobs
      PROVE  work'[j].status = "running" => work[j].status = "running" /\ work'[j].pid = work[j].pid
  <2>1. work'[j] = Planned(c)[j]
    BY <1>1
  <2> QED BY <1>1, <2>1, PlannedRecord DEF TypeInv
<1>3. LifeInv'
  BY <1>1 DEF SlotInv, LifeInv, TypeInv, TypeOK
<1>4. TakenInv'
  <2> SUFFICES ASSUME NEW q \in Runs, ctl'[q] = "launch", NEW j \in Jobs,
                      CampaignOf[j] = RunCampaign[q], work'[j].status = "running"
               PROVE  info[work'[j].pid].slot \in taken'[RunCampaign[q]]
    BY <1>1 DEF TakenInv, Running, SlotOf
  <2>1. CASE RunCampaign[q] = c
    BY <1>1, <2>1, SMTT(30) DEF Occupied, JobsOf, TypeInv, TypeOK
  <2>2. CASE RunCampaign[q] # c
    BY <1>1, <1>2, <2>2 DEF SlotInv, TakenInv, Running, SlotOf, TypeInv, TypeOK
  <2> QED BY <2>1, <2>2
<1>5. \A p \in 1..spawned : CtlAlive(info[p].parent)' => CtlAlive(info[p].parent)
  BY <1>1 DEF CtlAlive, TypeInv, TypeOK
<1> QED BY <1>1, <1>2, <1>3, <1>4, <1>5, SlotQuiet

LEMMA SlotSkip ==
  ASSUME SlotInv, TypeInv, NEW r \in Runs, NEW j \in Jobs, Skip(r, j) \/ ClaimFails(r, j)
  PROVE  SlotInv'
<1>1. /\ UNCHANGED <<disk, work, info, spawned, resv, launcher, ctl, holder>>
      /\ taken' = taken \/ \E s : taken' = [taken EXCEPT ![RunCampaign[r]] = @ \cup {s}]
  BY DEF Skip, ClaimFails, ctlVars, procVars
<1>2. \A c \in Campaigns : taken[c] \subseteq taken'[c]
  <2>1. taken \in [Campaigns -> SUBSET Slots]
    BY DEF TypeInv, TypeOK
  <2> QED BY <1>1, <2>1
<1>3. TakenInv'
  BY <1>1, <1>2, ManifestAssumption DEF SlotInv, TakenInv, Running, SlotOf
<1>4. LifeInv'
  BY <1>1 DEF SlotInv, LifeInv
<1> QED BY <1>1, <1>3, <1>4, SlotQuiet DEF CtlAlive

LEMMA SlotWorker ==
  ASSUME SlotInv, TypeInv, NEW p \in Pids, WorkerStep(p) \/ Kill(p)
  PROVE  SlotInv'
<1>1. UNCHANGED <<disk, work, info, spawned, resv, launcher, ctl, holder, taken>>
  BY DEF WorkerStep, Start, RemoteStart, Finish, Confirm, ConfirmTimeout, ProbeSucceeds,
         ProbeTimeout, Promote, Mark, Report, Kill, tickVars, ctlVars
<1>2. LifeInv'
  BY <1>1 DEF SlotInv, LifeInv
<1>3. TakenInv'
  BY <1>1 DEF SlotInv, TakenInv, Running, SlotOf
<1> QED BY <1>1, <1>2, <1>3, SlotQuiet DEF CtlAlive

\* A visit frees the slot of one job, which no other running job of this
\* controller's campaign has, and jobs of other campaigns have other parents.
LEMMA SlotReconcile ==
  ASSUME SlotInv, TickInv, TypeInv, NEW r \in Runs, NEW j \in Jobs,
         ReadMarker(r, j) \/ ReadResult(r, j) \/ CheckPid(r, j)
  PROVE  SlotInv'
<1> DEFINE c == RunCampaign[r]
<1>1. PICK rec \in Record : Visited(r, j, rec)
  BY VisitShape DEF TypeInv
<1>2. /\ holder[c] = r /\ CampaignOf[j] = c /\ work[j].status = "running" /\ c \in Campaigns
      /\ work' = [work EXCEPT ![j] = rec] /\ rec.pid = work[j].pid
      /\ UNCHANGED <<ctl, launcher, disk, holder, taken, info, spawned>>
      /\ resv' = resv \/ (rec.status # "running" /\ resv' = ReleaseSlot(r, SlotOf(j)))
  BY <1>1, ManifestAssumption DEF Visited, ctlVars, procVars, TickInv, ListInv, Terminal
<1>3. \A i \in Jobs : work'[i].status = "running" => work[i].status = "running" /\ work'[i].pid = work[i].pid
  BY <1>2 DEF TypeInv, TypeOK
<1>4. Apart(work)' /\ Apart(disk)'
  BY <1>2, <1>3 DEF SlotInv, Apart
<1>5. Held(work, FALSE)'
  <2> SUFFICES ASSUME NEW i \in Jobs, work'[i].status = "running"
               PROVE  /\ RunCampaign[ParentOf(i)] = CampaignOf[i]
                      /\ CtlAlive(ParentOf(i)) /\ SlotOf(i) \in Gpus => resv'[SlotOf(i)] = ParentOf(i)
    <3>1. \A i \in Jobs : work'[i].status = "running" =>
            info'[work'[i].pid] = info[work[i].pid]
      BY <1>2, <1>3
    <3> QED BY <1>2, <3>1 DEF Held, ParentOf, SlotOf, CtlAlive
  <2>1. /\ work[i].status = "running" /\ RunCampaign[ParentOf(i)] = CampaignOf[i]
        /\ CtlAlive(ParentOf(i)) /\ SlotOf(i) \in Gpus => resv[SlotOf(i)] = ParentOf(i)
    BY <1>3 DEF SlotInv, Held, ParentOf, SlotOf
  <2>2. CASE resv' = resv
    BY <2>1, <2>2
  <2>3. CASE rec.status # "running" /\ resv' = ReleaseSlot(r, SlotOf(j))
    <3>1. i # j
      BY <1>2, <2>3 DEF TypeInv, TypeOK
    <3>2. CASE ParentOf(i) = r
      <4>1. SlotOf(i) \in Gpus => SlotOf(i) # SlotOf(j)
        BY <1>2, <2>1, <3>1, <3>2, NamesAssumption DEF SlotInv, Apart, SlotOf
      <4> QED BY <2>1, <2>3, <4>1 DEF ReleaseSlot
    <3>3. CASE ParentOf(i) # r
      BY <2>1, <2>3, <3>3 DEF ReleaseSlot
    <3> QED BY <3>2, <3>3
  <2> QED BY <1>2, <2>1, <2>2, <2>3
<1>6. Held(disk, TRUE)'
  <2> SUFFICES ASSUME NEW i \in Jobs, disk[i].status = "running"
               PROVE  LET q == info[disk[i].pid].parent
                          g == info[disk[i].pid].slot IN
                      /\ RunCampaign[q] = CampaignOf[i]
                      /\ CtlAlive(q) /\ g \in Gpus => resv'[g] = q \/ holder[CampaignOf[i]] = q
    BY <1>2 DEF Held, CtlAlive
  <2> DEFINE q == info[disk[i].pid].parent
             g == info[disk[i].pid].slot
  <2>1. /\ RunCampaign[q] = CampaignOf[i]
        /\ CtlAlive(q) /\ g \in Gpus => resv[g] = q \/ holder[CampaignOf[i]] = q
    BY DEF SlotInv, Held
  <2>2. CASE q = r
    BY <1>2, <2>1, <2>2
  <2>3. CASE q # r
    BY <1>2, <2>1, <2>3 DEF ReleaseSlot
  <2> QED BY <2>2, <2>3
<1>7. LifeInv'
  BY <1>2 DEF SlotInv, LifeInv
<1>8. TakenInv'
  BY <1>2, <1>3 DEF SlotInv, TakenInv, Running, SlotOf
<1> QED BY <1>4, <1>5, <1>6, <1>7, <1>8 DEF SlotInv

\* The slot chosen is not `taken`, hence no running job of the campaign has it,
\* and its reservation is free or already this controller's.
LEMMA SlotSpawn ==
  ASSUME SlotInv, TickInv, TypeInv, NEW r \in Runs, NEW j \in Jobs, Spawn(r, j)
  PROVE  SlotInv'
<1> DEFINE c == RunCampaign[r]
           p == spawned + 1
           n == NextAttempt(j)
<1>1. PICK s \in BestSlots(j, taken[c]) :
        /\ Claimable(r, s)
        /\ resv' = [g \in Gpus |-> IF g = s THEN r ELSE resv[g]]
        /\ taken' = [taken EXCEPT ![c] = @ \cup {s}]
        /\ info' = [info EXCEPT ![p] = [job |-> j, attempt |-> n, slot |-> s, parent |-> r]]
  BY DEF Spawn
<1>2. /\ work' = [work EXCEPT ![j] = [status |-> "running", attempts |-> n, pid |-> p, confirmed |-> FALSE]]
      /\ spawned' = p /\ spawned < MaxSpawns /\ ctl[r] = "launch" /\ holder[c] = r /\ j \in queue[c]
      /\ UNCHANGED <<disk, holder, launcher, ctl>>
  BY DEF Spawn, Placing, ctlVars
<1>3. /\ c \in Campaigns /\ p \in Pids /\ spawned \in Nat /\ \A q \in 1..spawned : q # p /\ q \in Pids
      /\ CampaignOf[j] = c /\ work[j].status = "pending"
  BY <1>2, ManifestAssumption, NamesAssumption DEF Pids, TypeInv, TypeOK, TickInv, ListInv
<1>4. s = Cpu \/ s \notin taken[c]
  BY <1>1 DEF BestSlots
<1>5. \A q \in 1..spawned : info'[q] = info[q]
  BY <1>1, <1>3 DEF TypeInv, TypeOK
<1>6. info'[p].slot = s /\ info'[p].parent = r
  BY <1>1, <1>3 DEF TypeInv, TypeOK
<1>7. /\ work'[j].status = "running" /\ work'[j].pid = p
      /\ \A i \in Jobs : i # j => work'[i] = work[i]
  BY <1>2 DEF TypeInv, TypeOK
<1>8. \A i \in Jobs : /\ work[i].status = "running" => info'[work[i].pid] = info[work[i].pid]
                      /\ disk[i].status = "running" => info'[disk[i].pid] = info[disk[i].pid]
  BY <1>5, RunningKnown
<1>9. \A i \in Jobs : CampaignOf[i] = c /\ work[i].status = "running" => info[work[i].pid].slot \in taken[c]
  BY <1>2 DEF SlotInv, TakenInv, Running, SlotOf
<1>10. Apart(work)'
  BY <1>3, <1>4, <1>6, <1>7, <1>8, <1>9 DEF SlotInv, Apart
<1>11. Apart(disk)'
  BY <1>2, <1>8 DEF SlotInv, Apart
<1>12. \A g \in Gpus : resv'[g] = resv[g] \/ (resv'[g] = r /\ resv[g] = None)
  BY <1>1 DEF Claimable
<1>13. Held(work, FALSE)'
  <2> SUFFICES ASSUME NEW i \in Jobs, work'[i].status = "running"
               PROVE  LET q == info'[work'[i].pid].parent
                          g == info'[work'[i].pid].slot IN
                      /\ RunCampaign[q] = CampaignOf[i]
                      /\ CtlAlive(q) /\ g \in Gpus => resv'[g] = q
    BY <1>2 DEF Held, CtlAlive
  <2>1. CASE i = j
    BY <1>1, <1>3, <1>6, <1>7, <2>1
  <2>2. CASE i # j
    BY <1>7, <1>8, <1>12, <2>2, RunningKnown, NamesAssumption DEF SlotInv, Held, Launched
  <2> QED BY <2>1, <2>2
<1>14. Held(disk, TRUE)'
  <2> SUFFICES ASSUME NEW i \in Jobs, disk[i].status = "running"
               PROVE  LET q == info'[disk[i].pid].parent
                          g == info'[disk[i].pid].slot IN
                      /\ RunCampaign[q] = CampaignOf[i]
                      /\ CtlAlive(q) /\ g \in Gpus => resv'[g] = q \/ holder[CampaignOf[i]] = q
    BY <1>2 DEF Held, CtlAlive
  <2> QED BY <1>8, <1>12, RunningKnown, NamesAssumption DEF SlotInv, Held, Launched
<1>15. LifeInv'
  <2>1. ASSUME NEW q \in 1..spawned' PROVE ctl[info'[q].parent] # "unborn"
    <3>1. CASE q = p
      BY <1>2, <1>6, <3>1
    <3>2. CASE q # p
      BY <1>2, <1>3, <1>5, <3>2 DEF SlotInv, LifeInv
    <3> QED BY <3>1, <3>2
  <2> QED BY <1>2, <2>1 DEF SlotInv, LifeInv
<1>16. TakenInv'
  <2> SUFFICES ASSUME NEW q \in Runs, ctl[q] = "launch", NEW i \in Jobs,
                      CampaignOf[i] = RunCampaign[q], work'[i].status = "running"
               PROVE  info'[work'[i].pid].slot \in taken'[RunCampaign[q]]
    BY <1>2 DEF TakenInv, Running, SlotOf
  <2>1. \A d \in Campaigns : taken[d] \subseteq taken'[d]
    BY <1>1 DEF TypeInv, TypeOK
  <2>2. CASE i = j
    BY <1>1, <1>3, <1>6, <1>7, <2>2 DEF TypeInv, TypeOK
  <2>3. CASE i # j
    <3>1. /\ work'[i] = work[i] /\ work[i].status = "running"
          /\ info'[work[i].pid] = info[work[i].pid] /\ RunCampaign[q] \in Campaigns
      BY <1>7, <1>8, <2>3, ManifestAssumption
    <3>2. info[work[i].pid].slot \in taken[RunCampaign[q]]
      BY <3>1 DEF SlotInv, TakenInv, Running, SlotOf
    <3> QED BY <2>1, <3>1, <3>2
  <2> QED BY <2>2, <2>3
<1> QED BY <1>10, <1>11, <1>13, <1>14, <1>15, <1>16 DEF SlotInv

\* The tick ends: its records become the saved ones, or the saved ones come back.
LEMMA SlotEnd ==
  ASSUME SlotInv, TickInv, TypeInv, NEW r \in Runs, Save(r) \/ Stop(r)
  PROVE  SlotInv'
<1> DEFINE c == RunCampaign[r]
           Lives(q) == ctl'[q] \notin {"unborn", "dead"}
<1>1. /\ UNCHANGED <<launcher, info, spawned>>
      /\ CtlAlive(r) /\ c \in Campaigns
      /\ \/ ctl' = [ctl EXCEPT ![r] = "dead"] /\ resv' = ReleaseAll(r)
         \/ ctl' = [ctl EXCEPT ![r] = "sleep"] /\ resv' = resv
      /\ \/ holder[c] = r /\ holder' = [holder EXCEPT ![c] = None]
         \/ holder[c] # r /\ UNCHANGED <<holder, work, disk>> /\ ctl' = [ctl EXCEPT ![r] = "dead"]
  BY ManifestAssumption DEF Save, Stop, CtlAlive
<1>2. \A j \in Jobs :
        \/ work'[j] = work[j] /\ disk'[j] = disk[j] /\ (CampaignOf[j] # c \/ holder[c] # r)
        \/ work'[j] = work[j] /\ disk'[j] = work[j] /\ CampaignOf[j] = c /\ holder[c] = r
        \/ /\ work'[j] = disk[j] /\ disk'[j] = disk[j] /\ CampaignOf[j] = c /\ holder[c] = r
           /\ ctl' = [ctl EXCEPT ![r] = "dead"]
  <2>1. CASE Save(r)
    <3>1. /\ holder[c] = r /\ work' = work
          /\ disk' = [j \in Jobs |-> IF CampaignOf[j] = c THEN work[j] ELSE disk[j]]
      BY <2>1 DEF Save
    <3> TAKE j \in Jobs
    <3>2. CASE CampaignOf[j] = c
      BY <3>1, <3>2
    <3>3. CASE CampaignOf[j] # c
      BY <3>1, <3>3
    <3> QED BY <3>2, <3>3
  <2>2. CASE Stop(r)
    <3>1. /\ disk' = disk /\ ctl' = [ctl EXCEPT ![r] = "dead"]
          /\ \/ holder[c] = r /\ work' = [j \in Jobs |-> IF CampaignOf[j] = c THEN disk[j] ELSE work[j]]
             \/ holder[c] # r /\ work' = work
      BY <2>2 DEF Stop
    <3> TAKE j \in Jobs
    <3>2. CASE holder[c] # r
      BY <3>1, <3>2
    <3>3. CASE holder[c] = r /\ CampaignOf[j] = c
      BY <3>1, <3>3
    <3>4. CASE holder[c] = r /\ CampaignOf[j] # c
      BY <3>1, <3>4
    <3> QED BY <3>2, <3>3, <3>4
  <2> QED BY <2>1, <2>2
<1>3. Apart(work)' /\ Apart(disk)'
  <2>1. \/ work' = work /\ \A j \in Jobs : disk'[j] = IF CampaignOf[j] = c THEN work[j] ELSE disk[j]
        \/ disk' = disk /\ \A j \in Jobs : work'[j] = IF CampaignOf[j] = c THEN disk[j] ELSE work[j]
        \/ work' = work /\ disk' = disk
    BY DEF Save, Stop
  <2> QED BY <1>1, <2>1 DEF SlotInv, Apart
<1>4. \A q \in Runs : Lives(q) =>
        CtlAlive(q) /\ \A g \in Gpus : resv[g] = q => resv'[g] = q
  BY <1>1, NamesAssumption DEF CtlAlive, ReleaseAll, TypeInv, TypeOK
<1>5. \A d \in Campaigns : holder'[d] = holder[d] \/ (d = c /\ holder[c] = r)
  BY <1>1 DEF TypeInv, TypeOK
<1>6. \A j \in Jobs :
        /\ work[j].status = "running" => info[work[j].pid].parent \in Runs
        /\ disk[j].status = "running" => info[disk[j].pid].parent \in Runs
  BY RunningKnown DEF Launched
<1>7. \A j \in Jobs : work[j].status = "running" =>
        LET q == info[work[j].pid].parent
            g == info[work[j].pid].slot IN
        /\ RunCampaign[q] = CampaignOf[j]
        /\ Lives(q) /\ g \in Gpus => resv'[g] = q
  BY <1>4, <1>6 DEF SlotInv, Held
<1>8. \A j \in Jobs : disk[j].status = "running" =>
        LET q == info[disk[j].pid].parent
            g == info[disk[j].pid].slot IN
        /\ RunCampaign[q] = CampaignOf[j]
        /\ Lives(q) /\ g \in Gpus => resv'[g] = q \/ holder[CampaignOf[j]] = q
  BY <1>4, <1>6 DEF SlotInv, Held
<1>9. ctl' = [ctl EXCEPT ![r] = "dead"] => ~Lives(r)
  BY DEF CtlAlive, TypeInv, TypeOK
<1>10. Held(work, FALSE)'
  <2> SUFFICES ASSUME NEW j \in Jobs, work'[j].status = "running"
               PROVE  LET q == info[work'[j].pid].parent
                          g == info[work'[j].pid].slot IN
                      /\ RunCampaign[q] = CampaignOf[j]
                      /\ Lives(q) /\ g \in Gpus => resv'[g] = q
    BY <1>1 DEF Held, CtlAlive
  <2> QED BY <1>2, <1>7, <1>8, <1>9
<1>11. Held(disk, TRUE)'
  <2> SUFFICES ASSUME NEW j \in Jobs, disk'[j].status = "running"
               PROVE  LET q == info[disk'[j].pid].parent
                          g == info[disk'[j].pid].slot IN
                      /\ RunCampaign[q] = CampaignOf[j]
                      /\ Lives(q) /\ g \in Gpus => resv'[g] = q \/ holder'[CampaignOf[j]] = q
    BY <1>1 DEF Held, CtlAlive
  <2>1. CampaignOf[j] \in Campaigns
    BY ManifestAssumption
  <2>2. CASE work'[j] = work[j] /\ disk'[j] = work[j]
    BY <1>7, <2>2
  <2>3. CASE disk'[j] = disk[j] /\ (CampaignOf[j] # c \/ holder[c] # r)
    BY <1>5, <1>8, <2>1, <2>3
  <2>4. CASE disk'[j] = disk[j] /\ CampaignOf[j] = c /\ holder[c] = r /\ ctl' = [ctl EXCEPT ![r] = "dead"]
    BY <1>8, <1>9, <2>4
  <2> QED BY <1>2, <2>2, <2>3, <2>4
<1>12. LifeInv'
  <2>1. \A q \in Runs : (ctl'[q] = "unborn" <=> ctl[q] = "unborn")
    BY <1>1 DEF CtlAlive, TypeInv, TypeOK
  <2>2. \A p \in 1..spawned : info[p].parent \in Runs
    BY NamesAssumption DEF TypeInv, TypeOK, Born, Pids, Launched
  <2> QED BY <1>1, <2>1, <2>2 DEF SlotInv, LifeInv
<1>13. TakenInv'
  <2> SUFFICES ASSUME NEW q \in Runs, ctl'[q] = "launch", NEW j \in Jobs,
                      CampaignOf[j] = RunCampaign[q], work'[j].status = "running"
               PROVE  info[work'[j].pid].slot \in taken'[RunCampaign[q]]
    BY <1>1 DEF TakenInv, Running, SlotOf
  <2>1. q # r /\ ctl[q] = "launch"
    BY <1>1 DEF TypeInv, TypeOK
  <2>2. RunCampaign[q] # c \/ holder[c] # r
    BY <2>1 DEF TickInv, LockInv, InTick
  <2>3. work'[j] = work[j]
    BY <1>2, <2>2
  <2>4. taken'[RunCampaign[q]] = taken[RunCampaign[q]]
    <3>1. taken' = taken \/ (holder[c] = r /\ taken' = [taken EXCEPT ![c] = {}])
      BY DEF Save, Stop
    <3> QED BY <1>1, <2>2, <3>1, ManifestAssumption DEF TypeInv, TypeOK
  <2> QED BY <2>1, <2>3, <2>4 DEF SlotInv, TakenInv, Running, SlotOf
<1> QED BY <1>3, <1>10, <1>11, <1>12, <1>13 DEF SlotInv

-----------------------------------------------------------------------------
Inv == TypeInv /\ TickInv /\ SlotInv

\* The inductive invariant of ticks and slots holds in every campaign system.
THEOREM InvCorrect == Spec => []Inv
<1>1. Init => Inv
  BY TypeInit, TickInit, SlotInit DEF Inv
<1>2. Inv /\ TypeInv' /\ [Next]_vars => Inv'
  <2> SUFFICES ASSUME Inv, TypeInv', [Next]_vars PROVE TickInv' /\ SlotInv'
    BY DEF Inv
  <2>1. LifeInv
    BY DEF Inv, SlotInv
  <2>2. CASE UNCHANGED vars
    <3>1. TickInv'
      BY <2>2 DEF Inv, TickInv, LockInv, InTick, IdleInv, ListInv, FinalInv, vars, ctlVars, tickVars
    <3>2. LifeInv' /\ TakenInv'
      BY <2>2 DEF Inv, SlotInv, LifeInv, TakenInv, Running, SlotOf, vars, ctlVars, tickVars, procVars
    <3>3. SlotInv'
      BY <2>2, <3>2, SlotQuiet DEF Inv, CtlAlive, vars, ctlVars, tickVars, procVars
    <3> QED BY <3>1, <3>3
  <2>3. ASSUME NEW r \in Runs, LauncherStep(r) \/ RunForeground(r) PROVE TickInv' /\ SlotInv'
    BY <2>1, <2>3, TickLauncher, SlotLauncher DEF Inv
  <2>4. ASSUME NEW r \in Runs, TickStep(r) PROVE TickInv' /\ SlotInv'
    <3>1. CASE TickBegin(r)
      BY <3>1, TickTickBegin, SlotTickBegin DEF Inv
    <3>2. CASE Plan(r)
      BY <3>2, TickPlan, SlotPlan DEF Inv
    <3>3. CASE Save(r)
      BY <3>3, TickEnd, SlotEnd DEF Inv
    <3>4. ASSUME NEW j \in Jobs, ReadMarker(r, j) \/ ReadResult(r, j) \/ CheckPid(r, j)
          PROVE  TickInv' /\ SlotInv'
      BY <3>4, TickReconcile, SlotReconcile DEF Inv
    <3>5. ASSUME NEW j \in Jobs, Skip(r, j) \/ ClaimFails(r, j) PROVE TickInv' /\ SlotInv'
      <4>1. Placing(r, j) /\ UNCHANGED <<ctl, disk, holder, todo, work>>
            /\ queue' = [queue EXCEPT ![RunCampaign[r]] = @ \ {j}]
        BY <3>5 DEF Skip, ClaimFails, ctlVars
      <4> QED BY <3>5, <4>1, TickPlace, SlotSkip DEF Inv
    <3>6. ASSUME NEW j \in Jobs, Spawn(r, j) PROVE TickInv' /\ SlotInv'
      <4> DEFINE rec == [status |-> "running", attempts |-> NextAttempt(j),
                         pid |-> spawned + 1, confirmed |-> FALSE]
      <4>1. Placing(r, j) /\ UNCHANGED <<ctl, disk, holder, todo>>
            /\ queue' = [queue EXCEPT ![RunCampaign[r]] = @ \ {j}]
            /\ work' = [work EXCEPT ![j] = rec] /\ rec.status = "running"
        BY <3>6 DEF Spawn, ctlVars
      <4> HIDE DEF rec
      <4>2. TickInv'
        BY <4>1, TickPlace DEF Inv
      <4> QED BY <3>6, <4>2, SlotSpawn DEF Inv
    <3> QED BY <2>4, <3>1, <3>2, <3>3, <3>4, <3>5, <3>6 DEF TickStep
  <2>5. ASSUME NEW r \in Runs, Stop(r) PROVE TickInv' /\ SlotInv'
    BY <2>5, TickEnd, SlotEnd DEF Inv
  <2>6. ASSUME NEW p \in Pids, WorkerStep(p) \/ Kill(p) PROVE TickInv' /\ SlotInv'
    BY <2>6, TickWorker, SlotWorker DEF Inv
  <2> QED BY <2>2, <2>3, <2>4, <2>5, <2>6 DEF Next, Rest
<1> QED BY <1>1, <1>2, TypeInvariant, PTL DEF Spec, Inv

\* For every instance: the GPU of a running job is its own, within a campaign
\* whatever controllers stopped or restarted (`occupied` in controller_tick),
\* and across campaigns while the controllers that started the jobs live
\* (claim_slot).
THEOREM TrackedGpusAreExclusive == Spec => []TrackedGpuExclusive
<1>1. Inv => TrackedGpuExclusive
  <2> SUFFICES ASSUME Inv, NEW i \in Jobs, NEW j \in Jobs, i # j, Running(i), Running(j),
                      SlotOf(i) # Cpu, SlotOf(i) = SlotOf(j),
                      \/ CampaignOf[i] = CampaignOf[j]
                      \/ CtlAlive(ParentOf(i)) /\ CtlAlive(ParentOf(j))
               PROVE  FALSE
    BY DEF TrackedGpuExclusive
  <2>1. CampaignOf[i] # CampaignOf[j]
    BY DEF Inv, SlotInv, Apart, Running, SlotOf
  <2>2. SlotOf(i) \in Gpus
    BY RunningKnown DEF Inv, Running, SlotOf, Launched, Slots
  <2>3. resv[SlotOf(i)] = ParentOf(i) /\ resv[SlotOf(j)] = ParentOf(j)
    BY <2>1, <2>2 DEF Inv, SlotInv, Held, Running, SlotOf, ParentOf
  <2>4. RunCampaign[ParentOf(i)] = CampaignOf[i] /\ RunCampaign[ParentOf(j)] = CampaignOf[j]
    BY DEF Inv, SlotInv, Held, Running, ParentOf
  <2> QED BY <2>1, <2>3, <2>4
<1> QED BY <1>1, InvCorrect, PTL

\* Only Save writes the file, and what it writes are the records in memory.
LEMMA FileStep ==
  ASSUME [Next]_vars
  PROVE  UNCHANGED disk \/ \E r \in Runs : Save(r)
<1>1. CASE UNCHANGED vars
  BY <1>1 DEF vars
<1>2. ASSUME NEW r \in Runs, LauncherStep(r) \/ RunForeground(r) \/ TickStep(r) \/ Stop(r), ~Save(r)
      PROVE  disk' = disk
  BY <1>2 DEF LauncherStep, TickStep, RunCheck, RunSpawn, RunRecord, RunForeground, TickBegin,
              ReadMarker, ReadResult, CheckPid, Plan, Skip, ClaimFails, Spawn, Stop
<1>3. ASSUME NEW p \in Pids, WorkerStep(p) \/ Kill(p) PROVE disk' = disk
  BY <1>3 DEF WorkerStep, Start, RemoteStart, Finish, Confirm, ConfirmTimeout, ProbeSucceeds,
              ProbeTimeout, Promote, Mark, Report, Kill
<1> QED BY <1>1, <1>2, <1>3 DEF Next, Rest

\* For every instance: no step of any controller, worker or crash changes what
\* the state file says of a job that has ended (save_state under the lock).
THEOREM TerminalStatusIsFinal == Spec => TerminalIsFinal
<1>1. Inv /\ Inv' /\ [Next]_vars =>
        [\A j \in Jobs : disk[j].status \in Terminal => disk'[j].status = disk[j].status]_vars
  <2> SUFFICES ASSUME Inv, [Next]_vars, NEW j \in Jobs, disk[j].status \in Terminal
               PROVE  disk'[j].status = disk[j].status
    OBVIOUS
  <2>1. work[j].status = disk[j].status
    BY DEF Inv, TickInv, FinalInv
  <2> QED BY <2>1, FileStep DEF Save
<1> QED BY <1>1, InvCorrect, PTL DEF Spec, TerminalIsFinal

-----------------------------------------------------------------------------
(* What a tick has done to the records, compared with the saved ones        *)

\* What CampaignDag promises of one state of the records: see Justified there.
JustifiedIn(recs) ==
  \A j \in Jobs :
    /\ recs[j].attempts <= MaxAttempts[j]
    /\ recs[j].attempts > 0 => \A d \in Deps[j] : recs[d].status = "completed"
    /\ recs[j].status = "blocked" => \E d \in Deps[j] : recs[d].status \in Broken
    /\ recs[j].status = "pending" => recs[j].attempts < MaxAttempts[j]
    /\ recs[j].status = "running" => recs[j].attempts > 0

\* The record in memory is at most one legal move of its job ahead of the file.
SameAs(j) == work[j].status = disk[j].status /\ work[j].attempts = disk[j].attempts
MovesTo(j, from, to) ==
  disk[j].status \in from /\ work[j].status \in to /\ work[j].attempts = disk[j].attempts
Relaunched(j) ==
  /\ disk[j].status \in {"pending", "running"} /\ work[j].status = "running"
  /\ disk[j].attempts < MaxAttempts[j] /\ work[j].attempts = disk[j].attempts + 1
LegalMove(j) ==
  \/ SameAs(j)
  \/ MovesTo(j, {"running"}, {"completed", "failed", "orphaned", "pending"})
  \/ MovesTo(j, {"pending"}, {"completed", "blocked"})
  \/ Relaunched(j)

\* What is still to visit has not moved, what is queued has its dependencies.
LedgerInv ==
  /\ JustifiedIn(work) /\ JustifiedIn(disk)
  /\ \A j \in Jobs : LegalMove(j)
  /\ \A c \in Campaigns : \A j \in todo[c] : SameAs(j)
  /\ \A c \in Campaigns : \A j \in queue[c] : \A d \in Deps[j] : work[d].status = "completed"

LEMMA LedgerInit == Init => LedgerInv
  BY ManifestAssumption DEF Init, LedgerInv, JustifiedIn, LegalMove, SameAs, NewRecord

LEMMA LedgerQuiet ==
  ASSUME LedgerInv, UNCHANGED <<disk, work>>,
         \A c \in Campaigns : \A j \in todo'[c] : SameAs(j),
         \A c \in Campaigns : queue'[c] \subseteq queue[c]
  PROVE  LedgerInv'
  BY DEF LedgerInv, JustifiedIn, LegalMove, SameAs, MovesTo, Relaunched

LEMMA LedgerVisit ==
  ASSUME TickInv, TypeInv, LedgerInv, NEW r \in Runs, NEW j \in Jobs,
         ReadMarker(r, j) \/ ReadResult(r, j) \/ CheckPid(r, j)
  PROVE  LedgerInv'
<1> DEFINE c == RunCampaign[r]
<1>1. PICK rec \in Record : Visited(r, j, rec)
  BY VisitShape DEF TypeInv
<1>2. /\ c \in Campaigns /\ j \in todo[c] /\ work[j].status = "running" /\ SameAs(j)
      /\ work' = [work EXCEPT ![j] = rec] /\ UNCHANGED <<disk, queue>>
      /\ rec.attempts = work[j].attempts
      /\ rec.status \in {"running", "pending", "completed", "failed", "orphaned"}
      /\ rec.status = "pending" => work[j].attempts < MaxAttempts[j]
      /\ (todo' = todo /\ rec.status = "running") \/ todo' = [todo EXCEPT ![c] = @ \ {j}]
  BY <1>1, ManifestAssumption DEF Visited, TickInv, ListInv, LedgerInv
<1>3. work'[j] = rec /\ \A i \in Jobs \ {j} : work'[i] = work[i]
  BY <1>2 DEF TypeInv, TypeOK
<1>4. \A i \in Jobs : \A d \in Deps[i] : d \in Jobs
  BY ManifestAssumption
<1>5. JustifiedIn(work')
  BY <1>2, <1>3, <1>4 DEF LedgerInv, JustifiedIn, Broken
<1>6. \A i \in Jobs : LegalMove(i)'
  <2> TAKE i \in Jobs
  <2>1. CASE i = j
    BY <1>2, <1>3, <2>1 DEF LegalMove, SameAs, MovesTo
  <2>2. CASE i # j
    BY <1>2, <1>3, <2>2 DEF LedgerInv, LegalMove, SameAs, MovesTo, Relaunched
  <2> QED BY <2>1, <2>2
<1>7. \A d \in Campaigns : \A i \in todo'[d] : SameAs(i)'
  <2> SUFFICES ASSUME NEW d \in Campaigns, NEW i \in todo'[d] PROVE SameAs(i)'
    OBVIOUS
  <2>1. i \in Jobs /\ i \in todo[d] /\ CampaignOf[i] = d /\ SameAs(i)
        /\ (i = j => rec.status = "running")
    BY <1>2 DEF TypeInv, TypeOK, TickInv, ListInv, LedgerInv
  <2> QED BY <1>2, <1>3, <2>1 DEF SameAs
<1>8. \A d \in Campaigns : \A i \in queue'[d] : \A e \in Deps[i] : work'[e].status = "completed"
  <2> SUFFICES ASSUME NEW d \in Campaigns, NEW i \in queue[d], NEW e \in Deps[i]
               PROVE  work'[e].status = "completed"
    BY <1>2
  <2>1. i \in Jobs /\ work[e].status = "completed"
    BY DEF TypeInv, TypeOK, LedgerInv
  <2> QED BY <1>2, <1>3, <1>4, <2>1
<1>9. JustifiedIn(work)' /\ JustifiedIn(disk)'
  BY <1>2, <1>5 DEF LedgerInv, JustifiedIn
<1> QED BY <1>6, <1>7, <1>8, <1>9 DEF LedgerInv

\* ready_jobs blocks a job only for a dependency that is broken or that the
\* same pass has blocked: otherwise the set without the job were closed, too.
LEMMA BlockedHasCause ==
  ASSUME NEW recs, NEW c, NEW j \in BlockedIn(recs, c)
  PROVE  \E d \in Deps[j] : recs[d].status \in Broken \/ d \in BlockedIn(recs, c)
<1> DEFINE waiting == {i \in JobsOf(c) : recs[i].status = "pending"}
           B == BlockedIn(recs, c)
           Caused(i, S) == \E d \in Deps[i] : \/ recs[d].status \in Broken
                                              \/ d \in S /\ Position[d] < Position[i]
           Closed(S) == \A i \in waiting : Caused(i, S) => i \in S
<1>1. B = {i \in waiting : \A S \in SUBSET waiting : Closed(S) => i \in S}
  BY DEF BlockedIn
<1>2. SUFFICES ASSUME ~Caused(j, B) PROVE FALSE
  OBVIOUS
<1>3. Closed(B)
  <2> SUFFICES ASSUME NEW i \in waiting, Caused(i, B), NEW S \in SUBSET waiting, Closed(S)
               PROVE  i \in S
    BY <1>1
  <2>1. B \subseteq S
    BY <1>1
  <2>2. Caused(i, S)
    BY <2>1
  <2> QED BY <2>2
<1>4. Closed(B \ {j})
  <2> SUFFICES ASSUME NEW i \in waiting, Caused(i, B \ {j}) PROVE i \in B \ {j}
    OBVIOUS
  <2>1. Caused(i, B)
    OBVIOUS
  <2> QED BY <1>2, <1>3, <2>1
<1>5. B \ {j} \in SUBSET waiting
  BY <1>1
<1> QED BY <1>1, <1>4, <1>5

LEMMA PlannedBlocked ==
  ASSUME TypeOK, NEW c \in Campaigns, NEW j \in Jobs,
         work[j].status # "blocked", Planned(c)[j].status = "blocked"
  PROVE  \E d \in Deps[j] : Planned(c)[d].status \in Broken
<1> DEFINE recs == [i \in Jobs |->
             IF CampaignOf[i] = c /\ work[i].status = "pending" /\ marker[i]
             THEN Becomes(work[i], "completed") ELSE work[i]]
<1>1. \A i \in Jobs : recs[i] \in Record
  BY BecomesRecord DEF TypeOK, Status, Terminal
<1>2. \A i \in Jobs : Planned(c)[i] = IF i \in BlockedIn(recs, c)
                                      THEN Becomes(recs[i], "blocked") ELSE recs[i]
  BY DEF Planned
<1>3. recs[j].status # "blocked"
  BY BecomesRecord DEF TypeOK, Status, Terminal
<1>4. j \in BlockedIn(recs, c)
  BY <1>2, <1>3
<1> HIDE DEF recs
<1>5. PICK d \in Deps[j] : recs[d].status \in Broken \/ d \in BlockedIn(recs, c)
  BY <1>4, BlockedHasCause
<1>6. d \in Jobs
  BY ManifestAssumption
<1>7. "blocked" \in Status
  BY DEF Status, Terminal
<1>8. Planned(c)[d].status \in Broken
  BY <1>1, <1>2, <1>5, <1>6, <1>7, BecomesRecord DEF Broken
<1> QED BY <1>8

LEMMA LedgerPlan ==
  ASSUME TickInv, TypeInv, LedgerInv, NEW r \in Runs, Plan(r)
  PROVE  LedgerInv'
<1> DEFINE c == RunCampaign[r]
<1>1. /\ c \in Campaigns /\ work' = Planned(c)
      /\ queue' = [queue EXCEPT ![c] = ReadyIn(work', c)] /\ UNCHANGED <<disk, todo>>
  BY ManifestAssumption DEF Plan
<1>2. \A j \in Jobs :
        /\ work'[j].attempts = work[j].attempts
        /\ \/ work'[j] = work[j]
           \/ work[j].status = "pending" /\ work'[j].status \in {"completed", "blocked"}
  BY <1>1, PlannedRecord DEF TypeInv
<1>3. \A j \in Jobs : work[j].status # "blocked" /\ work'[j].status = "blocked" =>
        \E d \in Deps[j] : work'[d].status \in Broken
  BY <1>1, PlannedBlocked DEF TypeInv
<1>4. \A j \in Jobs : \A d \in Deps[j] : d \in Jobs
  BY ManifestAssumption
<1>5. \A j \in Jobs : work[j].status \in {"completed"} \cup Broken \cup {"running"} => work'[j] = work[j]
  BY <1>2 DEF Broken
<1>6. JustifiedIn(work)' /\ JustifiedIn(disk)'
  <2>1. JustifiedIn(work')
    <3> SUFFICES ASSUME NEW j \in Jobs
                 PROVE  /\ work'[j].attempts <= MaxAttempts[j]
                        /\ work'[j].attempts > 0 => \A d \in Deps[j] : work'[d].status = "completed"
                        /\ work'[j].status = "blocked" => \E d \in Deps[j] : work'[d].status \in Broken
                        /\ work'[j].status = "pending" => work'[j].attempts < MaxAttempts[j]
                        /\ work'[j].status = "running" => work'[j].attempts > 0
      BY DEF JustifiedIn
    <3>1. work[j].status = "blocked" => \E d \in Deps[j] : work'[d].status \in Broken
      BY <1>4, <1>5 DEF LedgerInv, JustifiedIn
    <3> QED BY <1>2, <1>3, <1>4, <1>5, <3>1 DEF LedgerInv, JustifiedIn
  <2> QED BY <1>1, <2>1 DEF LedgerInv, JustifiedIn
<1>7. \A j \in Jobs : LegalMove(j)'
  <2> SUFFICES ASSUME NEW j \in Jobs, work'[j] # work[j] PROVE LegalMove(j)'
    BY <1>1 DEF LedgerInv, LegalMove, SameAs, MovesTo, Relaunched
  <2>1. /\ work[j].status = "pending" /\ work'[j].status \in {"completed", "blocked"}
        /\ disk[j].status \in {"pending", "running"} /\ work[j].attempts = disk[j].attempts
    BY <1>2 DEF LedgerInv, LegalMove, SameAs, MovesTo, Relaunched
  <2>2. ASSUME disk[j].status = "running" PROVE work'[j].status = "completed"
    <3>1. \A d \in Deps[j] : work'[d].status = "completed"
      BY <1>4, <1>5, <2>1, <2>2 DEF LedgerInv, JustifiedIn
    <3> QED BY <1>3, <2>1, <3>1 DEF Broken
  <2> QED BY <1>1, <1>2, <2>1, <2>2 DEF LegalMove, MovesTo
<1>8. \A d \in Campaigns : \A j \in todo'[d] : SameAs(j)'
  <2> SUFFICES ASSUME NEW d \in Campaigns, NEW j \in todo[d] PROVE SameAs(j)'
    BY <1>1
  <2>1. j \in Jobs /\ work[j].status = "running" /\ SameAs(j)
    BY DEF TypeInv, TypeOK, TickInv, ListInv, LedgerInv
  <2> QED BY <1>1, <1>5, <2>1 DEF SameAs
<1>9. \A d \in Campaigns : \A j \in queue'[d] : \A e \in Deps[j] : work'[e].status = "completed"
  <2> SUFFICES ASSUME NEW d \in Campaigns, NEW j \in queue'[d], NEW e \in Deps[j]
               PROVE  work'[e].status = "completed"
    OBVIOUS
  <2>1. CASE d = c
    BY <1>1, <2>1 DEF ReadyIn, TypeInv, TypeOK
  <2>2. CASE d # c
    <3>1. j \in queue[d] /\ j \in Jobs
      BY <1>1, <2>2 DEF TypeInv, TypeOK
    <3> QED BY <1>4, <1>5, <3>1 DEF LedgerInv
  <2> QED BY <2>1, <2>2
<1> QED BY <1>6, <1>7, <1>8, <1>9 DEF LedgerInv

LEMMA LedgerSpawn ==
  ASSUME TickInv, TypeInv, LedgerInv, NEW r \in Runs, NEW j \in Jobs, Spawn(r, j)
  PROVE  LedgerInv'
<1> DEFINE c == RunCampaign[r]
           rec == [status |-> "running", attempts |-> NextAttempt(j), pid |-> spawned + 1,
                   confirmed |-> FALSE]
<1>1. /\ c \in Campaigns /\ j \in queue[c] /\ work' = [work EXCEPT ![j] = rec]
      /\ queue' = [queue EXCEPT ![c] = @ \ {j}] /\ UNCHANGED <<disk, todo>>
  BY ManifestAssumption DEF Spawn, Placing
<1>2. work[j] \in Record /\ disk[j] \in Record /\ MaxAttempts[j] \in Nat
  BY ManifestAssumption DEF TypeInv, TypeOK
<1>3. /\ rec.status = "running" /\ rec.attempts = work[j].attempts + 1
      /\ work[j].attempts \in Nat /\ disk[j].attempts \in Nat
  BY <1>2 DEF NextAttempt, Record
<1> HIDE DEF rec
<1>4. work'[j] = rec /\ \A i \in Jobs \ {j} : work'[i] = work[i]
  BY <1>1 DEF TypeInv, TypeOK
<1>5. work[j].status = "pending" /\ work[j].attempts < MaxAttempts[j]
      /\ \A d \in Deps[j] : work[d].status = "completed"
  BY <1>1 DEF TickInv, ListInv, LedgerInv, JustifiedIn
<1>6. \A i \in Jobs : \A d \in Deps[i] : d \in Jobs
  BY ManifestAssumption
<1>7. \A i \in Jobs : work[i].status = "completed" \/ work[i].status \in Broken => work'[i] = work[i]
  BY <1>4, <1>5 DEF Broken
<1>8. JustifiedIn(work)' /\ JustifiedIn(disk)'
  <2>1. JustifiedIn(work')
    <3> SUFFICES ASSUME NEW i \in Jobs
                 PROVE  /\ work'[i].attempts <= MaxAttempts[i]
                        /\ work'[i].attempts > 0 => \A d \in Deps[i] : work'[d].status = "completed"
                        /\ work'[i].status = "blocked" => \E d \in Deps[i] : work'[d].status \in Broken
                        /\ work'[i].status = "pending" => work'[i].attempts < MaxAttempts[i]
                        /\ work'[i].status = "running" => work'[i].attempts > 0
      BY DEF JustifiedIn
    <3>1. CASE i = j
      BY <1>2, <1>3, <1>4, <1>5, <1>6, <1>7, <3>1
    <3>2. CASE i # j
      BY <1>4, <1>6, <1>7, <3>2 DEF LedgerInv, JustifiedIn
    <3> QED BY <3>1, <3>2
  <2> QED BY <1>1, <2>1 DEF LedgerInv, JustifiedIn
<1>9. \A i \in Jobs : LegalMove(i)'
  <2> TAKE i \in Jobs
  <2>1. CASE i = j
    <3>1. disk[j].status \in {"pending", "running"} /\ work[j].attempts = disk[j].attempts
      BY <1>5 DEF LedgerInv, LegalMove, SameAs, MovesTo, Relaunched
    <3> QED BY <1>1, <1>3, <1>4, <1>5, <2>1, <3>1 DEF LegalMove, Relaunched
  <2>2. CASE i # j
    BY <1>1, <1>4, <2>2 DEF LedgerInv, LegalMove, SameAs, MovesTo, Relaunched
  <2> QED BY <2>1, <2>2
<1>10. \A d \in Campaigns : \A i \in todo'[d] : SameAs(i)'
  <2> SUFFICES ASSUME NEW d \in Campaigns, NEW i \in todo[d] PROVE SameAs(i)'
    BY <1>1
  <2>1. i \in Jobs /\ work[i].status = "running" /\ SameAs(i)
    BY DEF TypeInv, TypeOK, TickInv, ListInv, LedgerInv
  <2> QED BY <1>1, <1>4, <1>5, <2>1 DEF SameAs
<1>11. \A d \in Campaigns : \A i \in queue'[d] : \A e \in Deps[i] : work'[e].status = "completed"
  <2> SUFFICES ASSUME NEW d \in Campaigns, NEW i \in queue'[d], NEW e \in Deps[i]
               PROVE  work'[e].status = "completed"
    OBVIOUS
  <2>1. i \in queue[d] /\ i \in Jobs
    BY <1>1 DEF TypeInv, TypeOK
  <2> QED BY <1>6, <1>7, <2>1 DEF LedgerInv
<1> QED BY <1>8, <1>9, <1>10, <1>11 DEF LedgerInv

\* Save and Stop: the file and the memory of the campaign are one of the two.
LEMMA LedgerEnd ==
  ASSUME TickInv, TypeInv, LedgerInv, NEW r \in Runs, Save(r) \/ Stop(r), holder[RunCampaign[r]] = r
  PROVE  LedgerInv'
<1> DEFINE c == RunCampaign[r]
<1>1. c \in Campaigns
  BY ManifestAssumption
<1>2. todo' = [todo EXCEPT ![c] = {}] /\ queue' = [queue EXCEPT ![c] = {}]
  BY <1>1 DEF Save, Stop, TickInv, ListInv, TypeInv, TypeOK
<1>3. \/ \A j \in Jobs : work'[j] = work[j]
                         /\ disk'[j] = IF CampaignOf[j] = c THEN work[j] ELSE disk[j]
      \/ \A j \in Jobs : disk'[j] = disk[j]
                         /\ work'[j] = IF CampaignOf[j] = c THEN disk[j] ELSE work[j]
  BY DEF Save, Stop
<1>4. \A j \in Jobs : \A d \in Deps[j] : d \in Jobs /\ CampaignOf[d] = CampaignOf[j]
  BY ManifestAssumption
<1>5. JustifiedIn(work)' /\ JustifiedIn(disk)'
  <2>1. JustifiedIn(work') /\ JustifiedIn(disk')
    BY <1>3, <1>4 DEF LedgerInv, JustifiedIn
  <2> QED BY <2>1 DEF JustifiedIn
<1>6. \A j \in Jobs : LegalMove(j)'
  BY <1>3 DEF LedgerInv, LegalMove, SameAs, MovesTo, Relaunched
<1>7. \A d \in Campaigns : \A j \in todo'[d] : SameAs(j)'
  <2> SUFFICES ASSUME NEW d \in Campaigns, NEW j \in todo'[d] PROVE SameAs(j)'
    OBVIOUS
  <2>1. j \in Jobs /\ CampaignOf[j] = d /\ d # c /\ SameAs(j)
    BY <1>2 DEF TypeInv, TypeOK, TickInv, ListInv, LedgerInv
  <2> QED BY <1>3, <2>1 DEF SameAs
<1>8. \A d \in Campaigns : \A j \in queue'[d] : \A e \in Deps[j] : work'[e].status = "completed"
  <2> SUFFICES ASSUME NEW d \in Campaigns, NEW j \in queue'[d], NEW e \in Deps[j]
               PROVE  work'[e].status = "completed"
    OBVIOUS
  <2>1. j \in Jobs /\ CampaignOf[j] = d /\ d # c /\ work[e].status = "completed"
    BY <1>2 DEF TypeInv, TypeOK, TickInv, ListInv, LedgerInv
  <2> QED BY <1>3, <1>4, <2>1
<1> QED BY <1>5, <1>6, <1>7, <1>8 DEF LedgerInv

LEMMA LedgerStep ==
  ASSUME Inv, LedgerInv, [Next]_vars
  PROVE  LedgerInv'
<1> USE DEF Inv
<1>1. CASE UNCHANGED <<disk, work, todo, queue>>
  BY <1>1, LedgerQuiet DEF LedgerInv
<1>2. ASSUME NEW r \in Runs, LauncherStep(r) \/ RunForeground(r) PROVE LedgerInv'
  <2>1. UNCHANGED <<disk, work, todo, queue>>
    BY <1>2 DEF LauncherStep, RunCheck, RunSpawn, RunRecord, RunForeground, tickVars
  <2> QED BY <1>1, <2>1
<1>3. ASSUME NEW r \in Runs, TickBegin(r) PROVE LedgerInv'
  <2> DEFINE c == RunCampaign[r]
  <2>1. /\ c \in Campaigns /\ holder[c] = None /\ todo' = [todo EXCEPT ![c] = InFlight(disk, c)]
        /\ UNCHANGED <<disk, work, queue>>
    BY <1>3, ManifestAssumption DEF TickBegin, LockFree
  <2>2. \A d \in Campaigns : \A j \in todo'[d] : SameAs(j)
    BY <2>1 DEF LedgerInv, TypeInv, TypeOK, TickInv, IdleInv, InFlight, JobsOf, SameAs
  <2> QED BY <2>1, <2>2, LedgerQuiet
<1>4. ASSUME NEW r \in Runs, NEW j \in Jobs, Skip(r, j) \/ ClaimFails(r, j) PROVE LedgerInv'
  <2>1. /\ RunCampaign[r] \in Campaigns /\ UNCHANGED <<disk, work, todo>>
        /\ queue' = [queue EXCEPT ![RunCampaign[r]] = @ \ {j}]
    BY <1>4, ManifestAssumption DEF Skip, ClaimFails
  <2>2. \A c \in Campaigns : queue'[c] \subseteq queue[c]
    BY <2>1 DEF TypeInv, TypeOK
  <2> QED BY <2>1, <2>2, LedgerQuiet DEF LedgerInv
<1>5. ASSUME NEW r \in Runs, Save(r) \/ Stop(r) PROVE LedgerInv'
  <2>1. holder[RunCampaign[r]] # r => UNCHANGED <<disk, work, todo, queue>>
    BY <1>5 DEF Save, Stop
  <2> QED BY <1>1, <1>5, <2>1, LedgerEnd
<1>6. ASSUME NEW p \in Pids, WorkerStep(p) \/ Kill(p) PROVE LedgerInv'
  <2>1. UNCHANGED <<disk, work, todo, queue>>
    BY <1>6 DEF WorkerStep, Start, RemoteStart, Finish, Confirm, ConfirmTimeout, ProbeSucceeds,
                ProbeTimeout, Promote, Mark, Report, Kill, tickVars
  <2> QED BY <1>1, <2>1
<1>7. CASE UNCHANGED vars
  BY <1>1, <1>7 DEF vars, tickVars
<1>8. ASSUME NEW r \in Runs, TickStep(r) PROVE LedgerInv'
  BY <1>3, <1>4, <1>5, <1>8, LedgerVisit, LedgerPlan, LedgerSpawn DEF TickStep
<1> QED BY <1>2, <1>5, <1>6, <1>7, <1>8 DEF Next, Rest

LEMMA LedgerCorrect == Spec => [](Inv /\ LedgerInv)
<1>1. Init => LedgerInv
  BY LedgerInit
<1>2. Inv /\ LedgerInv /\ [Next]_vars => LedgerInv'
  BY LedgerStep
<1> QED BY <1>1, <1>2, InvCorrect, PTL DEF Spec

-----------------------------------------------------------------------------
(* The saved state is that of a CampaignDag                                 *)

SavedStatus == [j \in Jobs |-> disk[j].status]
SavedAttempts == [j \in Jobs |-> disk[j].attempts]

LEMMA SaveIsDagStep ==
  ASSUME Inv, LedgerInv, NEW r \in Runs, Save(r)
  PROVE  Dag!Next
<1> DEFINE c == RunCampaign[r]
<1>1. \A j \in Jobs : disk'[j] = IF CampaignOf[j] = c THEN work[j] ELSE disk[j]
  BY DEF Save
<1>2. \A j \in Jobs : work[j] \in Record /\ disk[j] \in Record /\ disk'[j] \in Record
  BY <1>1 DEF Inv, TypeInv, TypeOK
<1>3. \A j \in Jobs : /\ SavedStatus[j] = disk[j].status /\ SavedAttempts[j] = disk[j].attempts
                      /\ SavedStatus'[j] = disk'[j].status /\ SavedAttempts'[j] = disk'[j].attempts
  BY DEF SavedStatus, SavedAttempts
<1>4. \A j \in Jobs : \A d \in Deps[j] : d \in Jobs /\ CampaignOf[d] = CampaignOf[j]
  BY ManifestAssumption
<1>5. SavedStatus' \in [Jobs -> Dag!Status]
  BY <1>2 DEF SavedStatus, Record, Status, Terminal, Dag!Status, Dag!Terminal, Dag!Broken
<1>6. SavedAttempts' \in [Jobs -> Dag!Attempts]
  <2> SUFFICES ASSUME NEW j \in Jobs PROVE disk'[j].attempts \in Dag!Attempts
    BY DEF SavedAttempts
  <2>1. disk'[j].attempts \in Nat /\ MaxAttempts[j] \in Nat /\ disk'[j].attempts <= MaxAttempts[j]
    BY <1>1, <1>2, ManifestAssumption DEF LedgerInv, JustifiedIn, Record
  <2>2. disk'[j].attempts \in 0..MaxAttempts[j]
    BY <2>1
  <2> QED BY <2>2 DEF Dag!Attempts
<1>7. ASSUME NEW j \in Jobs
      PROVE  \/ Dag!Keeps(j) \/ Dag!Ends(j) \/ Dag!Recovers(j)
             \/ Dag!Retries(j) \/ Dag!Blocks(j) \/ Dag!Launches(j)
  <2>1. CASE CampaignOf[j] # c
    BY <1>1, <1>3, <2>1 DEF Dag!Keeps, SavedStatus, SavedAttempts
  <2>2. CASE CampaignOf[j] = c /\ SameAs(j)
    BY <1>1, <1>3, <2>2 DEF Dag!Keeps, SameAs, SavedStatus, SavedAttempts
  <2>3. CASE CampaignOf[j] = c /\ MovesTo(j, {"running"}, {"completed", "failed", "orphaned", "pending"})
    BY <1>1, <1>3, <2>3 DEF MovesTo, Dag!Ends, Dag!Retries, Dag!Moves, SavedStatus, SavedAttempts,
       LedgerInv, JustifiedIn
  <2>4. CASE CampaignOf[j] = c /\ MovesTo(j, {"pending"}, {"completed", "blocked"})
    <3>1. work[j].status = "blocked" => \E d \in Deps[j] : disk'[d].status \in Broken
      BY <1>1, <1>4, <2>4 DEF LedgerInv, JustifiedIn
    <3> QED BY <1>1, <1>3, <1>4, <2>4, <3>1
            DEF MovesTo, Broken, Dag!Recovers, Dag!Blocks, Dag!Moves, Dag!Broken, SavedStatus, SavedAttempts
  <2>5. CASE CampaignOf[j] = c /\ Relaunched(j)
    <3>1. work[j].attempts > 0
      BY <1>2, <2>5 DEF Relaunched, Record
    <3>2. \A d \in Deps[j] : disk'[d].status = "completed"
      BY <1>1, <1>4, <2>5, <3>1 DEF LedgerInv, JustifiedIn
    <3> QED BY <1>1, <1>3, <1>4, <2>5, <3>2 DEF Relaunched, Dag!Launches, SavedStatus, SavedAttempts
  <2> QED BY <2>1, <2>2, <2>3, <2>4, <2>5 DEF LedgerInv, LegalMove
<1> QED BY <1>5, <1>6, <1>7 DEF Dag!Next, SavedStatus, SavedAttempts

\* For every instance: the sequence of saved states of all campaigns is a
\* behaviour of CampaignDag, whatever controllers and workers crash or race
\* (save_state); everything that is proved of CampaignDag holds of the files.
THEOREM FilesFollowTheContract == Spec => ImplementsDag
<1>1. Init => Dag!Init
  BY DEF Init, NewRecord, Dag!Init
<1>2. Inv /\ LedgerInv /\ [Next]_vars => [Dag!Next]_(Dag!vars)
  <2> SUFFICES ASSUME Inv, LedgerInv, [Next]_vars PROVE Dag!Next \/ UNCHANGED Dag!vars
    OBVIOUS
  <2>1. CASE UNCHANGED disk
    BY <2>1 DEF Dag!vars
  <2> QED BY <2>1, FileStep, SaveIsDagStep
<1> QED BY <1>1, <1>2, LedgerCorrect, PTL DEF Spec, ImplementsDag, Dag!Spec

-----------------------------------------------------------------------------
(* The budget of attempts                                                   *)

BudgetInv == \A j \in Jobs : Cardinality(AttemptsOf(j)) <= work[j].attempts + stops

LEMMA AttemptsFinite ==
  ASSUME TypeInv, NEW j \in Jobs
  PROVE  IsFiniteSet(AttemptsOf(j)) /\ Cardinality(AttemptsOf(j)) \in Nat
<1>1. spawned \in Int /\ AttemptsOf(j) \in SUBSET (1..spawned)
  BY NamesAssumption DEF TypeInv, TypeOK, AttemptsOf
<1>2. IsFiniteSet(1..spawned)
  BY <1>1, FS_Interval
<1>3. IsFiniteSet(AttemptsOf(j))
  BY <1>1, <1>2, FS_Subset
<1> QED BY <1>3, FS_CardinalityType

\* A step that starts no worker keeps within the budget, unless it forgets an
\* attempt; a controller that stops may forget one of each job.
LEMMA BudgetKept ==
  ASSUME TypeInv, BudgetInv, UNCHANGED <<spawned, info>>, stops' \in Nat,
         \A j \in Jobs : /\ work'[j].attempts \in Nat
                         /\ work'[j].attempts + stops' >= work[j].attempts + stops
  PROVE  BudgetInv'
<1> SUFFICES ASSUME NEW j \in Jobs PROVE Cardinality(AttemptsOf(j)') <= work'[j].attempts + stops'
  BY DEF BudgetInv
<1>1. AttemptsOf(j)' = AttemptsOf(j)
  BY DEF AttemptsOf, JobOf
<1>2. Cardinality(AttemptsOf(j)) <= work[j].attempts + stops
  BY DEF BudgetInv
<1>3. work[j].attempts \in Nat /\ stops \in Nat /\ Cardinality(AttemptsOf(j)) \in Nat
  BY AttemptsFinite, NamesAssumption DEF TypeInv, TypeOK, Record
<1> QED BY <1>1, <1>2, <1>3

LEMMA BudgetSpawn ==
  ASSUME TypeInv, BudgetInv, NEW r \in Runs, NEW j \in Jobs, Spawn(r, j)
  PROVE  BudgetInv'
<1> DEFINE p == spawned + 1
           n == NextAttempt(j)
           rec == [status |-> "running", attempts |-> n, pid |-> p, confirmed |-> FALSE]
<1>1. /\ work' = [work EXCEPT ![j] = rec] /\ spawned' = p /\ spawned < MaxSpawns
      /\ stops' = stops
      /\ \E s : info' = [info EXCEPT ![p] = [job |-> j, attempt |-> n, slot |-> s, parent |-> r]]
  BY DEF Spawn, boundVars
<1>2. spawned \in Nat /\ p \in Pids /\ p \notin 1..spawned
  BY <1>1, NamesAssumption DEF TypeInv, TypeOK, Pids
<1>3. /\ \A q \in 1..spawned : info'[q].job = info[q].job
      /\ info'[p].job = j
  BY <1>1, <1>2, NamesAssumption DEF TypeInv, TypeOK, Pids
<1>4. 1..p = (1..spawned) \cup {p}
  BY <1>2
<1>5. rec.attempts = work[j].attempts + 1 /\ work[j].attempts \in Nat /\ stops \in Nat
  BY NamesAssumption DEF TypeInv, TypeOK, Record, NextAttempt
<1> HIDE DEF rec
<1> SUFFICES ASSUME NEW i \in Jobs PROVE Cardinality(AttemptsOf(i)') <= work'[i].attempts + stops'
  BY DEF BudgetInv
<1>6. IsFiniteSet(AttemptsOf(i)) /\ Cardinality(AttemptsOf(i)) \in Nat
      /\ Cardinality(AttemptsOf(i)) <= work[i].attempts + stops
  BY AttemptsFinite DEF BudgetInv
<1>7. CASE i = j
  <2>1. AttemptsOf(i)' = AttemptsOf(i) \cup {p}
    BY <1>1, <1>3, <1>4, <1>7 DEF AttemptsOf, JobOf
  <2>2. /\ Cardinality(AttemptsOf(i)') \in Nat
        /\ Cardinality(AttemptsOf(i)') <= Cardinality(AttemptsOf(i)) + 1
    <3>1. Cardinality(AttemptsOf(i) \cup {p})
            = IF p \in AttemptsOf(i) THEN Cardinality(AttemptsOf(i)) ELSE Cardinality(AttemptsOf(i)) + 1
      BY <1>6, FS_AddElement
    <3>2. Cardinality(AttemptsOf(i)') = Cardinality(AttemptsOf(i) \cup {p})
      BY <2>1
    <3> QED BY <1>6, <3>1, <3>2
  <2>3. work'[i] = rec
    BY <1>1, <1>7 DEF TypeInv, TypeOK
  <2> QED BY <1>1, <1>5, <1>6, <1>7, <2>2, <2>3
<1>8. CASE i # j
  <2>1. AttemptsOf(i)' = AttemptsOf(i)
    BY <1>1, <1>3, <1>4, <1>8 DEF AttemptsOf, JobOf
  <2>2. work'[i] = work[i]
    BY <1>1, <1>8 DEF TypeInv, TypeOK
  <2> QED BY <1>1, <1>6, <2>1, <2>2
<1> QED BY <1>7, <1>8

LEMMA BudgetStop ==
  ASSUME TypeInv, LedgerInv, BudgetInv, NEW r \in Runs, Stop(r)
  PROVE  BudgetInv'
<1>1. /\ stops' = stops + 1 /\ UNCHANGED <<spawned, info>>
      /\ \A j \in Jobs : work'[j] \in {work[j], disk[j]}
  BY DEF Stop, TypeInv, TypeOK
<1>2. \A j \in Jobs : work[j].attempts \in Nat /\ disk[j].attempts \in Nat
  BY DEF TypeInv, TypeOK, Record
<1>3. \A j \in Jobs : disk[j].attempts + 1 >= work[j].attempts
  BY <1>2 DEF LedgerInv, LegalMove, SameAs, MovesTo, Relaunched
<1>4. stops \in Nat
  BY NamesAssumption DEF TypeInv, TypeOK
<1>5. \A j \in Jobs : /\ work'[j].attempts \in Nat
                      /\ work'[j].attempts + stops' >= work[j].attempts + stops
  BY <1>1, <1>2, <1>3, <1>4
<1> QED BY <1>1, <1>4, <1>5, BudgetKept

LEMMA BudgetStep ==
  ASSUME Inv, LedgerInv, BudgetInv, [Next]_vars
  PROVE  BudgetInv'
<1> USE DEF Inv
<1>1. \A j \in Jobs : work[j].attempts \in Nat
  BY DEF TypeInv, TypeOK, Record
<1>2. stops \in Nat
  BY NamesAssumption DEF TypeInv, TypeOK
<1>3. ASSUME UNCHANGED <<spawned, info, stops>>,
             \A j \in Jobs : work'[j].attempts = work[j].attempts
      PROVE  BudgetInv'
  BY <1>1, <1>2, <1>3, BudgetKept
<1>4. ASSUME NEW r \in Runs, NEW j \in Jobs, ReadMarker(r, j) \/ ReadResult(r, j) \/ CheckPid(r, j)
      PROVE  BudgetInv'
  <2>1. PICK rec \in Record : Visited(r, j, rec)
    BY <1>4, VisitShape DEF TypeInv
  <2>2. \A i \in Jobs : work'[i].attempts = work[i].attempts
    BY <2>1 DEF Visited, TypeInv, TypeOK
  <2> QED BY <1>3, <2>1, <2>2 DEF Visited, procVars, boundVars
<1>5. ASSUME NEW r \in Runs, Plan(r) PROVE BudgetInv'
  <2>1. RunCampaign[r] \in Campaigns
    BY ManifestAssumption
  <2>2. \A i \in Jobs : work'[i].attempts = work[i].attempts
    BY <1>5, <2>1, PlannedRecord DEF Plan, TypeInv
  <2> QED BY <1>3, <1>5, <2>2 DEF Plan, procVars, boundVars
<1>6. ASSUME NEW r \in Runs,
             \/ LauncherStep(r) \/ RunForeground(r) \/ TickBegin(r) \/ Save(r)
             \/ \E j \in Jobs : Skip(r, j) \/ ClaimFails(r, j)
      PROVE  BudgetInv'
  <2>1. UNCHANGED <<work, spawned, info, stops>>
    BY <1>6 DEF LauncherStep, RunCheck, RunSpawn, RunRecord, RunForeground, TickBegin, Save, Skip,
                ClaimFails, tickVars, procVars, boundVars
  <2> QED BY <1>3, <2>1
<1>7. ASSUME NEW p \in Pids, WorkerStep(p) \/ Kill(p) PROVE BudgetInv'
  <2>1. UNCHANGED <<work, spawned, info, stops>>
    BY <1>7 DEF WorkerStep, Start, RemoteStart, Finish, Confirm, ConfirmTimeout, ProbeSucceeds,
                ProbeTimeout, Promote, Mark, Report, Kill, tickVars, boundVars
  <2> QED BY <1>3, <2>1
<1>8. CASE UNCHANGED vars
  BY <1>3, <1>8 DEF vars, tickVars, procVars, boundVars
<1>9. ASSUME NEW r \in Runs, TickStep(r) PROVE BudgetInv'
  BY <1>4, <1>5, <1>6, <1>9, BudgetSpawn DEF TickStep
<1> QED BY <1>6, <1>7, <1>8, <1>9, BudgetStop DEF Next, Rest

\* For every instance: a job's workers are at most its max_attempts, plus one
\* for each controller that stopped: what it had started and not saved is all
\* that a tick can forget (start_worker before save_state).
THEOREM SpawnsStayInBudget == Spec => []SpawnBudget
<1>1. Init => BudgetInv
  <2> SUFFICES ASSUME Init, NEW j \in Jobs PROVE Cardinality(AttemptsOf(j)) <= work[j].attempts + stops
    BY DEF BudgetInv
  <2>1. AttemptsOf(j) = {} /\ work[j].attempts = 0 /\ stops = 0
    BY DEF Init, AttemptsOf, NewRecord
  <2> QED BY <2>1, FS_EmptySet
<1>2. Inv /\ LedgerInv /\ BudgetInv /\ [Next]_vars => BudgetInv'
  BY BudgetStep
<1>3. Inv /\ LedgerInv /\ BudgetInv => SpawnBudget
  <2> SUFFICES ASSUME Inv, LedgerInv, BudgetInv, NEW j \in Jobs
               PROVE  Cardinality(AttemptsOf(j)) <= MaxAttempts[j] + stops
    BY DEF SpawnBudget
  <2>1. /\ Cardinality(AttemptsOf(j)) <= work[j].attempts + stops /\ Cardinality(AttemptsOf(j)) \in Nat
        /\ work[j].attempts \in Nat /\ MaxAttempts[j] \in Nat /\ stops \in Nat
        /\ work[j].attempts <= MaxAttempts[j]
    BY AttemptsFinite, ManifestAssumption, NamesAssumption
       DEF Inv, TypeInv, TypeOK, Record, BudgetInv, LedgerInv, JustifiedIn
  <2> QED BY <2>1
<1> QED BY <1>1, <1>2, <1>3, LedgerCorrect, PTL DEF Spec

-----------------------------------------------------------------------------
(* Attempts and their workers while no controller stops early               *)

\* A worker is one of its controller's campaign, and the record of a running
\* job gives the number of the attempt its worker makes.
OriginInv ==
  /\ \A p \in 1..spawned : CampaignOf[JobOf(p)] = RunCampaign[info[p].parent]
  /\ \A j \in Jobs : work[j].status = "running" =>
       JobOf(work[j].pid) = j /\ info[work[j].pid].attempt = work[j].attempts
  /\ \A j \in Jobs : disk[j].status = "running" =>
       JobOf(disk[j].pid) = j /\ info[disk[j].pid].attempt = disk[j].attempts

Latest(p) == work[JobOf(p)].pid = p

\* The attempts of a job are numbered in the order they are started, and a
\* result file is that of a started attempt.
Numbered ==
  /\ \A j \in Jobs : work[j].attempts <= spawned
  /\ \A j \in Jobs : work[j].attempts > 0 =>
       /\ work[j].pid \in 1..spawned
       /\ JobOf(work[j].pid) = j /\ info[work[j].pid].attempt = work[j].attempts
  /\ \A p \in 1..spawned :
       /\ info[p].attempt \in 1..work[JobOf(p)].attempts
       /\ info[p].attempt = work[JobOf(p)].attempts => Latest(p)
  /\ \A j \in Jobs : \A n \in Pids : result[j][n] # "none" => n <= work[j].attempts

\* A worker that runs makes the job's last attempt, which has no result yet;
\* unless it has only its success to report, the job is recorded as running.
Crewed ==
  \A p \in 1..spawned : WorkerRuns(p) =>
    /\ Latest(p) /\ work[JobOf(p)].status # "pending"
    /\ result[JobOf(p)][info[p].attempt] = "none"
    /\ pc[p] # "okreport" => work[JobOf(p)].status = "running" /\ ~marker[JobOf(p)]

\* A job with a marker is not retried.
MarkedOnce ==
  \A j \in Jobs : marker[j] =>
    work[j].attempts > 0 /\ work[j].status # "pending" /\ ResultOf(j) # "failed"

Crew == Numbered /\ Crewed /\ MarkedOnce

CrewInv == OriginInv /\ (stops = 0 => Crew)

LEMMA CrewInit == Init => CrewInv
<1> SUFFICES ASSUME Init PROVE CrewInv
  OBVIOUS
<1>1. /\ spawned = 0 /\ 1..spawned = {} /\ \A j \in Jobs : ~marker[j] /\ \A n \in Pids : result[j][n] = "none"
      /\ \A j \in Jobs : work[j] = NewRecord /\ disk[j] = NewRecord
  BY DEF Init
<1> QED BY <1>1 DEF CrewInv, OriginInv, Crew, Numbered, Crewed, MarkedOnce, NewRecord

LEMMA LastAttempt ==
  ASSUME TypeInv, Numbered, NEW p \in 1..spawned, Latest(p)
  PROVE  /\ p \in Pids /\ JobOf(p) \in Jobs /\ info[p].attempt = work[JobOf(p)].attempts
         /\ work[JobOf(p)].attempts > 0 /\ info[p].attempt \in Pids
<1>1. p \in Pids /\ JobOf(p) \in Jobs /\ spawned \in Nat /\ spawned <= MaxSpawns /\ MaxSpawns \in Nat
  BY NamesAssumption DEF TypeInv, TypeOK, Born, Pids, JobOf, Launched
<1>2. work[JobOf(p)].attempts \in Nat
  BY <1>1 DEF TypeInv, TypeOK, Record
<1>3. info[p].attempt \in 1..work[JobOf(p)].attempts /\ work[JobOf(p)].attempts <= spawned
  BY <1>1 DEF Numbered
<1>4. info[p].attempt = work[JobOf(p)].attempts
  BY <1>1, <1>2, <1>3 DEF Numbered, Latest
<1> QED BY <1>1, <1>2, <1>3, <1>4 DEF Pids

\* What a visit decides, it decides for one of these reasons.
Reason(j, status) ==
  \/ status = work[j].status
  \/ status = "completed" /\ marker[j]
  \/ status = "pending" /\ ResultOf(j) = "failed"
  \/ status = "failed" /\ ResultOf(j) # "none"
  \/ status = "orphaned" /\ ~PidAlive(work[j].pid)

LEMMA VisitReason ==
  ASSUME TypeOK, NEW r \in Runs, NEW j \in Jobs,
         ReadMarker(r, j) \/ ReadResult(r, j) \/ CheckPid(r, j)
  PROVE  Reason(j, work'[j].status)
<1>1. work[j] \in Record /\ work \in [Jobs -> Record]
  BY DEF TypeOK
<1>2. CASE ReadMarker(r, j)
  <2> DEFINE seen == j \in External /\ hostOk[j] = info[work[j].pid].slot
             rec == Confirmed(work[j], seen)
  <2>1. rec \in Record /\ rec.status = work[j].status
    BY <1>1, ConfirmedRecord
  <2>2. \/ marker[j] /\ work' = [work EXCEPT ![j] = Becomes(rec, "completed")]
        \/ work' = [work EXCEPT ![j] = rec]
    BY <1>2 DEF ReadMarker, Settle
  <2>3. Becomes(rec, "completed").status = "completed"
    BY <2>1, BecomesRecord DEF Status, Terminal
  <2> HIDE DEF rec
  <2> QED BY <1>1, <2>1, <2>2, <2>3 DEF Reason
<1>3. CASE ReadResult(r, j)
  <2>1. \/ work' = work
        \/ ResultOf(j) = "failed" /\ work' = [work EXCEPT ![j] = Becomes(work[j], "pending")]
        \/ ResultOf(j) # "none" /\ work' = [work EXCEPT ![j] = Becomes(work[j], "failed")]
    BY <1>3 DEF ReadResult, Settle
  <2>2. Becomes(work[j], "pending").status = "pending" /\ Becomes(work[j], "failed").status = "failed"
    BY <1>1, BecomesRecord DEF Status, Terminal
  <2> QED BY <1>1, <2>1, <2>2 DEF Reason
<1>4. CASE CheckPid(r, j)
  <2>1. \/ work' = [work EXCEPT ![j] = work[j]]
        \/ ~PidAlive(work[j].pid) /\ work' = [work EXCEPT ![j] = Becomes(work[j], "orphaned")]
    BY <1>4 DEF CheckPid, Settle
  <2>2. Becomes(work[j], "orphaned").status = "orphaned"
    BY <1>1, BecomesRecord DEF Status, Terminal
  <2> QED BY <1>1, <2>1, <2>2 DEF Reason
<1> QED BY <1>2, <1>3, <1>4

\* A step of a controller that starts no worker.
LEMMA CrewKept ==
  ASSUME TypeInv, Crew, UNCHANGED <<spawned, info, marker, result>>,
         \A p \in 1..spawned : pc'[p] = pc[p] \/ (~WorkerRuns(p) /\ pc'[p] = "gone"),
         \A j \in Jobs : work'[j].attempts = work[j].attempts /\ work'[j].pid = work[j].pid,
         \A j \in Jobs : \/ work[j].status = "pending" /\ work'[j].status # "pending"
                         \/ Reason(j, work'[j].status)
  PROVE  Crew'
<1>1. \A p \in 1..spawned : p \in Pids /\ JobOf(p) \in Jobs /\ JobOf(p)' = JobOf(p)
  BY NamesAssumption DEF TypeInv, TypeOK, Born, Pids, JobOf, Launched
<1>2. Numbered'
  <2>1. \A j \in Jobs : work'[j].attempts > 0 =>
          /\ work'[j].pid \in 1..spawned'
          /\ info'[work'[j].pid].job = j /\ info'[work'[j].pid].attempt = work'[j].attempts
    BY DEF Crew, Numbered, JobOf
  <2>2. \A p \in 1..spawned' :
          /\ info'[p].attempt \in 1..work'[JobOf(p)'].attempts
          /\ info'[p].attempt = work'[JobOf(p)'].attempts => Latest(p)'
    BY <1>1 DEF Crew, Numbered, Latest
  <2>3. \A j \in Jobs : work'[j].attempts <= spawned' /\ \A n \in Pids : result'[j][n] # "none" => n <= work'[j].attempts
    BY DEF Crew, Numbered
  <2> QED BY <2>1, <2>2, <2>3 DEF Numbered, JobOf
<1>3. Crewed'
  <2> SUFFICES ASSUME NEW p \in 1..spawned, WorkerRuns(p)'
               PROVE  /\ Latest(p)' /\ work'[JobOf(p)].status # "pending"
                      /\ result[JobOf(p)][info[p].attempt] = "none"
                      /\ pc'[p] # "okreport" => work'[JobOf(p)].status = "running" /\ ~marker[JobOf(p)]
    BY <1>1 DEF Crewed, JobOf
  <2> DEFINE j == JobOf(p)
  <2>1. WorkerRuns(p) /\ pc'[p] = pc[p]
    BY DEF WorkerRuns, WorkerPc
  <2>2. /\ j \in Jobs /\ Latest(p) /\ work[j].status # "pending" /\ work[j].pid = p
        /\ result[j][info[p].attempt] = "none"
        /\ pc[p] # "okreport" => work[j].status = "running" /\ ~marker[j]
    BY <1>1, <2>1 DEF Crew, Crewed, Latest
  <2>3. ResultOf(j) = "none"
    BY <2>2, LastAttempt DEF Crew, ResultOf
  <2>4. PidAlive(work[j].pid)
    BY <1>1, <2>1, <2>2 DEF PidAlive, WorkerRuns, WorkerPc, Pids, NoPid
  <2>5. work'[j].status = work[j].status \/ (work'[j].status = "completed" /\ marker[j])
    BY <2>2, <2>3, <2>4 DEF Reason
  <2> QED BY <1>1, <2>1, <2>2, <2>5 DEF Latest
<1>4. MarkedOnce'
  BY DEF Crew, MarkedOnce, Reason, ResultOf
<1> QED BY <1>2, <1>3, <1>4 DEF Crew

\* A worker moves on through its own steps; it writes the marker before it
\* reports a success, and its result file with its last step.
WorkerMove(p) ==
  /\ UNCHANGED <<work, disk, spawned, info, stops, ctl, queue, taken, resv>>
  /\ pc' = [pc EXCEPT ![p] = pc'[p]]
  /\ WorkerRuns(p)' => WorkerRuns(p) /\ (pc'[p] # "okreport" => pc[p] # "okreport")
  /\ \/ UNCHANGED <<marker, result>>
     \/ /\ pc[p] = "mark" /\ pc'[p] = "okreport"
        /\ marker' = [marker EXCEPT ![JobOf(p)] = TRUE] /\ result' = result
     \/ /\ pc[p] \in {"okreport", "failreport"} /\ ~WorkerRuns(p)' /\ marker' = marker
        /\ \E v : /\ result' = [result EXCEPT ![JobOf(p)][info[p].attempt] = v]
                  /\ pc[p] = "okreport" => v # "failed"

LEMMA WorkerMoves ==
  ASSUME TypeInv, NEW p \in Pids, WorkerStep(p) \/ Kill(p)
  PROVE  WorkerMove(p)
<1>1. pc \in [Pids -> WorkerPc \cup {"unborn", "zombie", "gone"}]
  BY DEF TypeInv, TypeOK
<1>2. Start(p) \/ Confirm(p) \/ ConfirmTimeout(p) \/ ProbeSucceeds(p) \/ ProbeTimeout(p) \/ Promote(p) => WorkerMove(p)
  <2> SUFFICES ASSUME Start(p) \/ Confirm(p) \/ ConfirmTimeout(p) \/ ProbeSucceeds(p) \/ ProbeTimeout(p) \/ Promote(p)
               PROVE  WorkerMove(p)
    OBVIOUS
  <2>1. /\ pc[p] \in {"start", "confirm", "probe", "promote"}
        /\ \E l \in WorkerPc \ {"okreport"} : pc' = [pc EXCEPT ![p] = l]
        /\ UNCHANGED <<work, disk, spawned, info, stops, ctl, queue, taken, resv, marker, result>>
    BY DEF Start, Confirm, ConfirmTimeout, ProbeSucceeds, ProbeTimeout, Promote, WorkerFails, Goto,
           AfterSuccess, WorkerPc, ctlVars, tickVars, fileVars, boundVars
  <2>2. PICK l \in WorkerPc \ {"okreport"} : pc' = [pc EXCEPT ![p] = l]
    BY <2>1
  <2>3. pc'[p] = l
    BY <1>1, <2>2
  <2> QED BY <2>1, <2>2, <2>3 DEF WorkerMove, WorkerRuns, WorkerPc
<1>3. RemoteStart(p) => WorkerMove(p)
  BY <1>1 DEF RemoteStart, WorkerMove, WorkerRuns, ctlVars, tickVars, fileVars, boundVars
<1>4. Finish(p) => WorkerMove(p)
  <2> SUFFICES ASSUME Finish(p) PROVE WorkerMove(p)
    OBVIOUS
  <2>0. PICK outcome : pc' = [pc EXCEPT ![p] = IF @ # "wait" THEN @
                                ELSE IF outcome = "done" THEN AfterSuccess(JobOf(p)) ELSE "failreport"]
    BY DEF Finish
  <2>1. /\ pc[p] # "wait" => pc' = [pc EXCEPT ![p] = pc[p]]
        /\ UNCHANGED <<work, disk, spawned, info, stops, ctl, queue, taken, resv, marker, result>>
    BY <2>0 DEF Finish, ctlVars, tickVars, boundVars
  <2>2. CASE pc[p] = "wait"
    <3>1. PICK l \in WorkerPc \ {"okreport"} : pc' = [pc EXCEPT ![p] = l]
      <4>1. CASE outcome = "done"
        BY <2>0, <2>2, <4>1 DEF AfterSuccess, WorkerPc
      <4>2. CASE outcome # "done"
        BY <2>0, <2>2, <4>2 DEF WorkerPc
      <4> QED BY <4>1, <4>2
    <3>2. pc'[p] = l
      BY <1>1, <3>1
    <3> QED BY <2>1, <2>2, <3>1, <3>2 DEF WorkerMove, WorkerRuns, WorkerPc
  <2>3. CASE pc[p] # "wait"
    BY <1>1, <2>1, <2>3 DEF WorkerMove, WorkerRuns
  <2> QED BY <2>2, <2>3
<1>5. Mark(p) => WorkerMove(p)
  BY <1>1 DEF Mark, Goto, WorkerMove, WorkerRuns, WorkerPc, ctlVars, tickVars, boundVars
<1>6. \A l \in {"zombie", "gone"} : pc' = [pc EXCEPT ![p] = l] => pc' = [pc EXCEPT ![p] = pc'[p]] /\ ~WorkerRuns(p)'
  BY <1>1 DEF WorkerRuns, WorkerPc
<1>7. Report(p) => WorkerMove(p)
  <2> SUFFICES ASSUME Report(p) PROVE WorkerMove(p)
    OBVIOUS
  <2>1. pc' = [pc EXCEPT ![p] = pc'[p]] /\ ~WorkerRuns(p)'
    BY <1>6 DEF Report, Goto, Exited
  <2>2. /\ UNCHANGED <<work, disk, spawned, info, stops, ctl, queue, taken, resv, marker>>
        /\ pc[p] \in {"okreport", "failreport"}
        /\ result' = [result EXCEPT ![JobOf(p)][info[p].attempt] =
                        IF pc[p] = "okreport" THEN "completed" ELSE "failed"]
    BY DEF Report, ctlVars, tickVars, boundVars
  <2>3. \E v : /\ result' = [result EXCEPT ![JobOf(p)][info[p].attempt] = v]
               /\ pc[p] = "okreport" => v # "failed"
    <3> WITNESS IF pc[p] = "okreport" THEN "completed" ELSE "failed"
    <3> QED BY <2>2
  <2> QED BY <2>1, <2>2, <2>3 DEF WorkerMove
<1>8. Kill(p) => WorkerMove(p)
  <2> SUFFICES ASSUME Kill(p) PROVE WorkerMove(p)
    OBVIOUS
  <2>1. pc' = [pc EXCEPT ![p] = pc'[p]] /\ ~WorkerRuns(p)'
    BY <1>6 DEF Kill, Goto, Exited
  <2> QED BY <2>1 DEF Kill, WorkerMove, ctlVars, tickVars, fileVars
<1> QED BY <1>2, <1>3, <1>4, <1>5, <1>7, <1>8 DEF WorkerStep

LEMMA CrewWorker ==
  ASSUME TypeInv, Crew, NEW p \in Pids, WorkerMove(p), p \in 1..spawned
  PROVE  Crew'
<1>1. \A q \in 1..spawned : q \in Pids /\ JobOf(q) \in Jobs /\ JobOf(q)' = JobOf(q)
  BY NamesAssumption DEF TypeInv, TypeOK, Born, Pids, JobOf, Launched, WorkerMove
<1> DEFINE j == JobOf(p)
           n == info[p].attempt
<1>2. UNCHANGED <<work, spawned, info>> /\ pc' = [pc EXCEPT ![p] = pc'[p]]
  BY DEF WorkerMove
<1>3. WorkerRuns(p) => /\ n \in Pids /\ n = work[j].attempts /\ n > 0 /\ result[j][n] = "none"
                       /\ work[j].status # "pending"
                       /\ pc[p] # "okreport" => work[j].status = "running" /\ ~marker[j]
  BY LastAttempt DEF Crew, Crewed, Pids
<1>4. \A q \in 1..spawned : q # p /\ WorkerRuns(q) /\ WorkerRuns(p) => JobOf(q) # j
  BY DEF Crew, Crewed, Latest
<1>5. \A i \in Jobs : \A m \in Pids : result'[i][m] # result[i][m] => i = j /\ m = n /\ WorkerRuns(p) /\ ~WorkerRuns(p)'
  <2>1. result \in [Jobs -> [Pids -> {"none", "completed", "failed"}]]
    BY DEF TypeInv, TypeOK
  <2> QED BY <2>1 DEF WorkerMove, WorkerRuns, WorkerPc
<1>6. \A i \in Jobs : marker'[i] # marker[i] => i = j /\ pc[p] = "mark" /\ pc'[p] = "okreport" /\ result' = result
  <2>1. marker \in [Jobs -> BOOLEAN]
    BY DEF TypeInv, TypeOK
  <2> QED BY <2>1 DEF WorkerMove
<1>7. Numbered'
  <2>1. \A i \in Jobs : \A m \in Pids : result'[i][m] # "none" => m <= work[i].attempts
    <3> SUFFICES ASSUME NEW i \in Jobs, NEW m \in Pids, result'[i][m] # "none" PROVE m <= work[i].attempts
      OBVIOUS
    <3>1. CASE result'[i][m] = result[i][m]
      BY <3>1 DEF Crew, Numbered
    <3>2. CASE result'[i][m] # result[i][m]
      <4>1. i = j /\ m = work[j].attempts
        BY <1>3, <1>5, <3>2
      <4>2. m \in Nat
        BY DEF Pids
      <4> QED BY <4>1, <4>2
    <3> QED BY <3>1, <3>2
  <2> QED BY <1>2, <2>1 DEF Crew, Numbered, JobOf, Latest
<1>8. Crewed'
  <2> SUFFICES ASSUME NEW q \in 1..spawned, WorkerRuns(q)'
               PROVE  /\ Latest(q) /\ work[JobOf(q)].status # "pending"
                      /\ result'[JobOf(q)][info[q].attempt] = "none"
                      /\ pc'[q] # "okreport" => work[JobOf(q)].status = "running" /\ ~marker'[JobOf(q)]
    BY <1>2 DEF Crewed, JobOf, Latest
  <2>1. WorkerRuns(q) /\ (q # p => pc'[q] = pc[q])
    BY <1>1, <1>2 DEF WorkerMove, WorkerRuns, TypeInv, TypeOK
  <2>2. /\ Latest(q) /\ work[JobOf(q)].status # "pending" /\ info[q].attempt \in Pids
        /\ result[JobOf(q)][info[q].attempt] = "none"
        /\ pc[q] # "okreport" => work[JobOf(q)].status = "running" /\ ~marker[JobOf(q)]
    BY <2>1, LastAttempt DEF Crew, Crewed
  <2>3. CASE q = p
    BY <1>1, <1>5, <1>6, <2>1, <2>2, <2>3 DEF WorkerMove
  <2>4. CASE q # p
    <3>1. WorkerRuns(p) => JobOf(q) # j
      BY <1>4, <2>1, <2>4
    <3>2. pc[p] = "mark" => WorkerRuns(p)
      BY DEF WorkerRuns, WorkerPc
    <3> QED BY <1>1, <1>5, <1>6, <2>1, <2>2, <2>4, <3>1, <3>2
  <2> QED BY <2>3, <2>4
<1>9. MarkedOnce'
  <2> SUFFICES ASSUME NEW i \in Jobs, marker'[i]
               PROVE  work[i].attempts > 0 /\ work[i].status # "pending" /\ result'[i][work[i].attempts] # "failed"
    BY <1>2 DEF MarkedOnce, ResultOf
  <2>1. CASE ~marker[i]
    BY <1>3, <1>6, <2>1 DEF WorkerRuns, WorkerPc
  <2>2. CASE marker[i]
    <3>1. work[i].attempts > 0 /\ work[i].status # "pending" /\ result[i][work[i].attempts] # "failed"
      BY <2>2 DEF Crew, MarkedOnce, ResultOf
    <3>2. work[i].attempts \in Pids
      <4>1. work[i].attempts \in Nat /\ work[i].attempts <= spawned /\ spawned \in Nat /\ spawned <= MaxSpawns
        BY NamesAssumption DEF TypeInv, TypeOK, Record, Crew, Numbered
      <4> QED BY <3>1, <4>1, NamesAssumption DEF Pids
    <3>3. CASE result'[i][work[i].attempts] = result[i][work[i].attempts]
      BY <3>1, <3>3
    <3>4. CASE result'[i][work[i].attempts] # result[i][work[i].attempts]
      <4>1. i = j /\ work[i].attempts = n /\ WorkerRuns(p)
        BY <1>5, <3>2, <3>4
      <4>2. pc[p] = "okreport"
        BY <1>3, <2>2, <4>1
      <4>3. PICK v : result' = [result EXCEPT ![j][n] = v] /\ v # "failed"
        BY <3>4, <4>2 DEF WorkerMove
      <4> QED BY <3>1, <3>2, <4>1, <4>3 DEF TypeInv, TypeOK
    <3> QED BY <3>3, <3>4
  <2> QED BY <2>1, <2>2
<1> QED BY <1>7, <1>8, <1>9 DEF Crew

\* What a launch changes, for the proofs below.
SpawnMove(r, j, p, n, s) ==
  /\ p = spawned + 1 /\ n = work[j].attempts + 1 /\ p \in Pids /\ n \in Nat
  /\ CampaignOf[j] = RunCampaign[r] /\ work[j].status = "pending" /\ ctl[r] = "launch"
  /\ j \in queue[RunCampaign[r]] /\ queue' = [queue EXCEPT ![RunCampaign[r]] = @ \ {j}]
  /\ s \in BestSlots(j, taken[RunCampaign[r]])
  /\ taken' = [taken EXCEPT ![RunCampaign[r]] = @ \cup {s}]
  /\ resv' = [g \in Gpus |-> IF g = s THEN r ELSE resv[g]]
  /\ spawned' = p /\ UNCHANGED <<disk, ctl, marker, result, exec, stops, kills>>
  /\ info'[p].job = j /\ info'[p].attempt = n /\ info'[p].slot = s /\ info'[p].parent = r
  /\ \A q \in 1..spawned : q # p /\ q \in Pids /\ JobOf(q) \in Jobs /\ info'[q] = info[q]
  /\ work'[j].status = "running" /\ work'[j].attempts = n /\ work'[j].pid = p
  /\ \A i \in Jobs : i # j => work'[i] = work[i]
  /\ pc'[p] = "start"
  /\ \A q \in 1..spawned : pc'[q] = pc[q] \/ (~WorkerRuns(q) /\ pc'[q] = "gone")

LEMMA SpawnMoves ==
  ASSUME TypeInv, TickInv, NEW r \in Runs, NEW j \in Jobs, Spawn(r, j)
  PROVE  \E s \in Slots : SpawnMove(r, j, spawned + 1, work[j].attempts + 1, s)
<1> DEFINE c == RunCampaign[r]
           p == spawned + 1
           n == work[j].attempts + 1
<1>1. PICK s \in BestSlots(j, taken[c]) :
        /\ resv' = [g \in Gpus |-> IF g = s THEN r ELSE resv[g]]
        /\ taken' = [taken EXCEPT ![c] = @ \cup {s}]
        /\ info' = [info EXCEPT ![p] = [job |-> j, attempt |-> n, slot |-> s, parent |-> r]]
  BY DEF Spawn, NextAttempt
<1>2. s \in Slots
  BY ManifestAssumption DEF BestSlots, Slots
<1>3. /\ work' = [work EXCEPT ![j] = [status |-> "running", attempts |-> n, pid |-> p, confirmed |-> FALSE]]
      /\ pc' = [Reap(r) EXCEPT ![p] = "start"]
      /\ queue' = [queue EXCEPT ![c] = @ \ {j}]
      /\ spawned' = p /\ spawned < MaxSpawns /\ ctl[r] = "launch" /\ holder[c] = r /\ j \in queue[c]
      /\ UNCHANGED <<disk, ctl, marker, result, exec, stops, kills>>
  BY DEF Spawn, Placing, NextAttempt, ctlVars, boundVars
<1>4. /\ c \in Campaigns /\ p \in Pids /\ n \in Nat /\ \A q \in 1..spawned : q # p /\ q \in Pids
      /\ CampaignOf[j] = c /\ work[j].status = "pending"
  BY <1>3, ManifestAssumption, NamesAssumption DEF Pids, TypeInv, TypeOK, Record, TickInv, ListInv
<1>5. \A q \in 1..spawned : JobOf(q) \in Jobs
  BY NamesAssumption DEF TypeInv, TypeOK, Born, Pids, JobOf, Launched
<1>6. /\ info'[p].job = j /\ info'[p].attempt = n /\ info'[p].slot = s /\ info'[p].parent = r
      /\ \A q \in 1..spawned : info'[q] = info[q]
  BY <1>1, <1>4 DEF TypeInv, TypeOK
<1>7. /\ work'[j].status = "running" /\ work'[j].attempts = n /\ work'[j].pid = p
      /\ \A i \in Jobs : i # j => work'[i] = work[i]
  BY <1>3 DEF TypeInv, TypeOK
<1>8. pc'[p] = "start" /\ \A q \in 1..spawned : pc'[q] = Reap(r)[q]
  BY <1>3, <1>4 DEF Reap
<1>9. \A q \in 1..spawned : pc'[q] = pc[q] \/ (~WorkerRuns(q) /\ pc'[q] = "gone")
  BY <1>4, <1>8 DEF Reap, WorkerRuns, WorkerPc
<1>10. SpawnMove(r, j, p, n, s)
  BY <1>1, <1>3, <1>4, <1>5, <1>6, <1>7, <1>8, <1>9 DEF SpawnMove
<1> QED BY <1>2, <1>10

LEMMA CrewSpawn ==
  ASSUME TypeInv, Crew, NEW r \in Runs, NEW j \in Jobs, NEW s \in Slots,
         SpawnMove(r, j, spawned + 1, work[j].attempts + 1, s)
  PROVE  Crew'
<1> DEFINE p == spawned + 1
           n == work[j].attempts + 1
<1>1. /\ spawned' = p /\ spawned \in Nat /\ p \in Pids /\ n \in Nat /\ work[j].attempts \in Nat
      /\ work[j].status = "pending" /\ UNCHANGED <<marker, result>>
      /\ work[j].attempts <= spawned
  BY DEF SpawnMove, TypeInv, TypeOK, Record, Crew, Numbered
<1>2. /\ info'[p].job = j /\ info'[p].attempt = n /\ pc'[p] = "start"
      /\ work'[j].status = "running" /\ work'[j].attempts = n /\ work'[j].pid = p
      /\ \A i \in Jobs : i # j => work'[i] = work[i]
  BY DEF SpawnMove
<1>3. \A q \in 1..spawned : /\ q # p /\ q \in Pids /\ JobOf(q) \in Jobs /\ info'[q] = info[q]
                            /\ (WorkerRuns(q)' => WorkerRuns(q) /\ pc'[q] = pc[q])
  BY DEF SpawnMove, WorkerRuns, WorkerPc
<1>4. ~marker[j] /\ \A q \in 1..spawned : WorkerRuns(q) => JobOf(q) # j
  BY <1>1 DEF Crew, MarkedOnce, Crewed
<1>5. n \in Pids /\ result[j][n] = "none"
  <2>1. n \in Pids
    BY <1>1, NamesAssumption DEF Pids
  <2> QED BY <1>1, <2>1 DEF Crew, Numbered
<1>6. \A q \in 1..p : q = p \/ q \in 1..spawned
  BY <1>1
<1>7. Numbered'
  <2>1. \A i \in Jobs : work'[i].attempts <= p /\ \A m \in Pids : result[i][m] # "none" => m <= work'[i].attempts
    <3> TAKE i \in Jobs
    <3>1. work[i].attempts \in Nat /\ work[i].attempts <= spawned /\ \A m \in Pids : m \in Nat
      BY DEF TypeInv, TypeOK, Record, Crew, Numbered, Pids
    <3>2. \A m \in Pids : result[i][m] # "none" => m <= work[i].attempts
      BY DEF Crew, Numbered
    <3>3. work[i].attempts <= work'[i].attempts /\ work'[i].attempts <= p /\ work'[i].attempts \in Nat
      BY <1>1, <1>2, <3>1
    <3> QED BY <3>1, <3>2, <3>3
  <2>2. \A i \in Jobs : work'[i].attempts > 0 =>
          work'[i].pid \in 1..p /\ info'[work'[i].pid].job = i /\ info'[work'[i].pid].attempt = work'[i].attempts
    <3> SUFFICES ASSUME NEW i \in Jobs, work'[i].attempts > 0
                 PROVE  work'[i].pid \in 1..p /\ info'[work'[i].pid].job = i /\ info'[work'[i].pid].attempt = work'[i].attempts
      OBVIOUS
    <3>1. CASE i = j
      BY <1>1, <1>2, <3>1
    <3>2. CASE i # j
      BY <1>1, <1>2, <1>3, <3>2 DEF Crew, Numbered, JobOf
    <3> QED BY <3>1, <3>2
  <2>3. \A q \in 1..p : /\ info'[q].attempt \in 1..work'[info'[q].job].attempts
                        /\ info'[q].attempt = work'[info'[q].job].attempts => work'[info'[q].job].pid = q
    <3> TAKE q \in 1..p
    <3>1. CASE q = p
      BY <1>1, <1>2, <3>1
    <3>2. CASE q \in 1..spawned /\ JobOf(q) # j
      BY <1>2, <1>3, <3>2 DEF Crew, Numbered, Latest, JobOf
    <3>3. CASE q \in 1..spawned /\ JobOf(q) = j
      <4>1. info[q].attempt \in 1..work[j].attempts /\ info'[q] = info[q] /\ info'[q].job = j
        BY <1>3, <3>3 DEF Crew, Numbered, JobOf
      <4> QED BY <1>1, <1>2, <4>1
    <3> QED BY <1>6, <3>1, <3>2, <3>3
  <2> QED BY <1>1, <2>1, <2>2, <2>3 DEF Numbered, Latest, JobOf
<1>8. Crewed'
  <2> SUFFICES ASSUME NEW q \in 1..p, WorkerRuns(q)'
               PROVE  /\ work'[info'[q].job].pid = q /\ work'[info'[q].job].status # "pending"
                      /\ result[info'[q].job][info'[q].attempt] = "none"
                      /\ pc'[q] # "okreport" => work'[info'[q].job].status = "running" /\ ~marker[info'[q].job]
    BY <1>1 DEF Crewed, JobOf, Latest
  <2>1. CASE q = p
    BY <1>1, <1>2, <1>4, <1>5, <2>1
  <2>2. CASE q \in 1..spawned
    BY <1>2, <1>3, <1>4, <2>2 DEF Crew, Crewed, Latest, JobOf
  <2> QED BY <1>6, <2>1, <2>2
<1>9. MarkedOnce'
  BY <1>1, <1>2, <1>4 DEF Crew, MarkedOnce, ResultOf
<1> QED BY <1>7, <1>8, <1>9 DEF Crew

LEMMA WorkerStarted ==
  ASSUME TypeInv, NEW p \in Pids, WorkerStep(p) \/ Kill(p)
  PROVE  p \in 1..spawned
<1>1. pc[p] # "unborn" \/ exec[p] # "none"
  BY DEF WorkerStep, Start, RemoteStart, Finish, Confirm, ConfirmTimeout, ProbeSucceeds,
         ProbeTimeout, Promote, Mark, Report, Kill, WorkerRuns, WorkerPc
<1>2. p <= spawned /\ p \in Nat /\ p > 0 /\ spawned \in Nat
  BY <1>1, NamesAssumption DEF TypeInv, TypeOK, Born, Pids
<1> QED BY <1>2

\* A step of a controller that starts no worker and does not stop early.
CtlMove ==
  /\ UNCHANGED <<spawned, info, marker, result, stops, exec, kills>>
  /\ \A p \in 1..spawned : pc'[p] = pc[p] \/ (~WorkerRuns(p) /\ pc'[p] = "gone")
  /\ \A j \in Jobs : work'[j].attempts = work[j].attempts /\ work'[j].pid = work[j].pid
  /\ \A j \in Jobs : \/ work[j].status = "pending" /\ work'[j].status \in {"completed", "blocked"}
                     \/ Reason(j, work'[j].status)
  /\ \A j \in Jobs : disk'[j] = disk[j] \/ disk'[j] = work[j]

LEMMA CtlMoves ==
  ASSUME Inv, NEW r \in Runs,
         \/ LauncherStep(r) \/ RunForeground(r) \/ TickBegin(r) \/ Plan(r) \/ Save(r)
         \/ \E j \in Jobs : ReadMarker(r, j) \/ ReadResult(r, j) \/ CheckPid(r, j) \/ Skip(r, j) \/ ClaimFails(r, j)
  PROVE  CtlMove
<1>0. TypeOK
  BY DEF Inv, TypeInv
<1>1. CASE \/ LauncherStep(r) \/ RunForeground(r) \/ TickBegin(r)
           \/ \E j \in Jobs : Skip(r, j) \/ ClaimFails(r, j)
  <2>1. UNCHANGED <<spawned, info, marker, result, stops, exec, kills, pc, work, disk>>
    BY <1>1 DEF LauncherStep, RunCheck, RunSpawn, RunRecord, RunForeground, TickBegin, Skip, ClaimFails,
                tickVars, procVars, fileVars, boundVars
  <2> QED BY <2>1 DEF CtlMove, Reason
<1>2. CASE Plan(r)
  <2>1. /\ work' = Planned(RunCampaign[r])
        /\ UNCHANGED <<spawned, info, marker, result, stops, exec, kills, pc, disk>>
    BY <1>2 DEF Plan, procVars, fileVars, boundVars
  <2>2. RunCampaign[r] \in Campaigns
    BY ManifestAssumption
  <2>3. \A j \in Jobs : /\ work'[j].attempts = work[j].attempts /\ work'[j].pid = work[j].pid
                        /\ \/ work[j].status = "pending" /\ work'[j].status \in {"completed", "blocked"}
                           \/ work'[j].status = work[j].status
    BY <1>0, <2>1, <2>2, PlannedRecord
  <2> QED BY <2>1, <2>3 DEF CtlMove, Reason
<1>3. CASE Save(r)
  <2>1. /\ UNCHANGED <<spawned, info, marker, result, stops, exec, kills, work>>
        /\ pc' = pc \/ pc' = Reap(r)
        /\ \A j \in Jobs : disk'[j] = disk[j] \/ disk'[j] = work[j]
    BY <1>3 DEF Save, fileVars, boundVars
  <2>2. \A p \in 1..spawned : p \in Pids
    BY NamesAssumption DEF Inv, TypeInv, TypeOK, Pids
  <2>3. \A p \in 1..spawned : pc'[p] = pc[p] \/ (~WorkerRuns(p) /\ pc'[p] = "gone")
    BY <2>1, <2>2 DEF Reap, WorkerRuns, WorkerPc
  <2> QED BY <2>1, <2>3 DEF CtlMove, Reason
<1>4. ASSUME NEW j \in Jobs, ReadMarker(r, j) \/ ReadResult(r, j) \/ CheckPid(r, j) PROVE CtlMove
  <2>1. PICK rec \in Record : Visited(r, j, rec)
    BY <1>0, <1>4, VisitShape
  <2>2. /\ work' = [work EXCEPT ![j] = rec] /\ rec.pid = work[j].pid /\ rec.attempts = work[j].attempts
        /\ UNCHANGED <<spawned, info, marker, result, stops, exec, kills, pc, disk>>
    BY <2>1 DEF Visited, procVars, fileVars, boundVars
  <2>3. Reason(j, work'[j].status)
    BY <1>0, <1>4, VisitReason
  <2>4. \A i \in Jobs : /\ work'[i].attempts = work[i].attempts /\ work'[i].pid = work[i].pid
                        /\ i # j => work'[i].status = work[i].status
    BY <1>0, <2>2 DEF TypeOK
  <2> QED BY <2>2, <2>3, <2>4 DEF CtlMove, Reason
<1> QED BY <1>1, <1>2, <1>3, <1>4

\* A job that is still recorded as running has the record it had.
LEMMA RunningStays ==
  ASSUME Inv, CtlMove, NEW j \in Jobs, work'[j].status = "running"
  PROVE  work[j].status = "running"
  BY DEF CtlMove, Reason

LEMMA OriginCtl ==
  ASSUME Inv, OriginInv, CtlMove
  PROVE  OriginInv'
<1>1. /\ UNCHANGED <<spawned, info>>
      /\ \A j \in Jobs : work'[j].attempts = work[j].attempts /\ work'[j].pid = work[j].pid
      /\ \A j \in Jobs : disk'[j] = disk[j] \/ disk'[j] = work[j]
  BY DEF CtlMove
<1> QED BY <1>1, RunningStays DEF OriginInv, JobOf

LEMMA OriginSpawn ==
  ASSUME TypeInv, OriginInv, NEW r \in Runs, NEW j \in Jobs, NEW s \in Slots,
         SpawnMove(r, j, spawned + 1, work[j].attempts + 1, s)
  PROVE  OriginInv'
<1> DEFINE p == spawned + 1
           n == work[j].attempts + 1
<1>1. /\ spawned' = p /\ spawned \in Nat /\ disk' = disk /\ CampaignOf[j] = RunCampaign[r]
      /\ info'[p].job = j /\ info'[p].attempt = n /\ info'[p].parent = r
      /\ \A q \in 1..spawned : q # p /\ info'[q] = info[q]
      /\ work'[j].status = "running" /\ work'[j].attempts = n /\ work'[j].pid = p
      /\ \A i \in Jobs : i # j => work'[i] = work[i]
  BY DEF SpawnMove, TypeInv, TypeOK
<1>2. \A q \in 1..spawned' : CampaignOf[info'[q].job] = RunCampaign[info'[q].parent]
  <2> TAKE q \in 1..spawned'
  <2>1. q = p \/ q \in 1..spawned
    BY <1>1
  <2> QED BY <1>1, <2>1 DEF OriginInv, JobOf
<1>3. \A i \in Jobs : work'[i].status = "running" =>
        info'[work'[i].pid].job = i /\ info'[work'[i].pid].attempt = work'[i].attempts
  BY <1>1, RunningKnown DEF OriginInv, JobOf
<1>4. \A i \in Jobs : disk[i].status = "running" =>
        info'[disk[i].pid].job = i /\ info'[disk[i].pid].attempt = disk[i].attempts
  BY <1>1, RunningKnown DEF OriginInv, JobOf
<1> QED BY <1>1, <1>2, <1>3, <1>4 DEF OriginInv, JobOf

LEMMA CrewStep ==
  ASSUME Inv, CrewInv, [Next]_vars
  PROVE  CrewInv'
<1>1. TypeInv /\ TickInv /\ OriginInv /\ stops \in Nat
  BY NamesAssumption DEF Inv, CrewInv, TypeInv, TypeOK
<1>2. CASE CtlMove
  <2>1. OriginInv'
    BY <1>1, <1>2, OriginCtl
  <2>2. stops' = 0 => Crew'
    <3> SUFFICES ASSUME stops' = 0 PROVE Crew'
      OBVIOUS
    <3>1. stops = 0 /\ Crew
      BY <1>2 DEF CtlMove, CrewInv
    <3>2. /\ UNCHANGED <<spawned, info, marker, result>>
          /\ \A p \in 1..spawned : pc'[p] = pc[p] \/ (~WorkerRuns(p) /\ pc'[p] = "gone")
          /\ \A j \in Jobs : work'[j].attempts = work[j].attempts /\ work'[j].pid = work[j].pid
          /\ \A j \in Jobs : \/ work[j].status = "pending" /\ work'[j].status # "pending"
                             \/ Reason(j, work'[j].status)
      BY <1>2 DEF CtlMove
    <3> QED BY <1>1, <3>1, <3>2, CrewKept
  <2> QED BY <2>1, <2>2 DEF CrewInv
<1>3. ASSUME NEW r \in Runs, NEW j \in Jobs, Spawn(r, j) PROVE CrewInv'
  <2>1. PICK s \in Slots : SpawnMove(r, j, spawned + 1, work[j].attempts + 1, s)
    BY <1>1, <1>3, SpawnMoves
  <2>2. stops' = stops
    BY <2>1 DEF SpawnMove
  <2> QED BY <1>1, <2>1, <2>2, CrewSpawn, OriginSpawn DEF CrewInv
<1>4. ASSUME NEW r \in Runs, Stop(r) PROVE CrewInv'
  <2>1. /\ UNCHANGED <<spawned, info, disk>> /\ stops' = stops + 1
        /\ \A j \in Jobs : work'[j] = work[j] \/ work'[j] = disk[j]
    BY <1>4 DEF Stop
  <2>2. OriginInv'
    BY <1>1, <2>1 DEF OriginInv, JobOf
  <2> QED BY <1>1, <2>1, <2>2 DEF CrewInv
<1>5. ASSUME NEW p \in Pids, WorkerStep(p) \/ Kill(p) PROVE CrewInv'
  <2>1. WorkerMove(p) /\ p \in 1..spawned
    BY <1>1, <1>5, WorkerMoves, WorkerStarted
  <2>2. OriginInv'
    BY <1>1, <2>1 DEF WorkerMove, OriginInv, JobOf
  <2>3. stops' = stops
    BY <2>1 DEF WorkerMove
  <2> QED BY <1>1, <1>5, <2>1, <2>2, <2>3, CrewWorker DEF CrewInv
<1>6. CASE UNCHANGED vars
  <2>1. CtlMove
    BY <1>6 DEF CtlMove, Reason, vars, ctlVars, tickVars, procVars, fileVars, boundVars
  <2> QED BY <1>2, <2>1
<1>7. ASSUME NEW r \in Runs, LauncherStep(r) \/ RunForeground(r) PROVE CrewInv'
  BY <1>2, <1>7, CtlMoves
<1>8. ASSUME NEW r \in Runs, TickStep(r) PROVE CrewInv'
  BY <1>2, <1>3, <1>8, CtlMoves DEF TickStep
<1> QED BY <1>4, <1>5, <1>6, <1>7, <1>8 DEF Next, Rest

LEMMA CrewCorrect == Spec => [](Inv /\ CrewInv)
<1>1. Init => CrewInv
  BY CrewInit
<1>2. Inv /\ CrewInv /\ [Next]_vars => CrewInv'
  BY CrewStep
<1> QED BY <1>1, <1>2, InvCorrect, PTL DEF Spec

\* For every instance, whatever workers die and remote runs do: as long as no
\* controller stops before its campaign has ended, a job whose worker still
\* runs is not started again (reconcile_running gives a job back to the queue
\* only on the result file its worker writes last).
THEOREM JobsAreNotRunTwice == Spec => [](stops = 0 => NoDuplicateWorker)
<1>1. CrewInv => (stops = 0 => NoDuplicateWorker)
  BY DEF CrewInv, Crew, Crewed, Latest, NoDuplicateWorker
<1> QED BY <1>1, CrewCorrect, PTL

-----------------------------------------------------------------------------
(* What computes: the scientific processes of local workers                 *)

\* A controller that has ended without being stopped leaves nothing to do.
EndedInv ==
  stops = 0 => \A r \in Runs : ctl[r] = "dead" => AllTerminal(disk, RunCampaign[r])

LEMMA EndedStep ==
  ASSUME Inv, EndedInv, [Next]_vars
  PROVE  EndedInv'
<1>0. stops \in Nat /\ (stops' = stops \/ stops' = stops + 1)
  <2>1. stops \in Nat
    BY NamesAssumption DEF Inv, TypeInv, TypeOK
  <2>2. ASSUME NEW r \in Runs, LauncherStep(r) \/ RunForeground(r) \/ TickStep(r) PROVE stops' = stops
    BY <2>2 DEF LauncherStep, TickStep, RunCheck, RunSpawn, RunRecord, RunForeground, TickBegin, Plan, Save,
                ReadMarker, ReadResult, CheckPid, Skip, ClaimFails, Spawn, boundVars
  <2>3. ASSUME NEW r \in Runs, Stop(r) PROVE stops' = stops + 1
    BY <2>3 DEF Stop
  <2>4. ASSUME NEW p \in Pids, WorkerStep(p) \/ Kill(p) PROVE stops' = stops
    BY <2>4, WorkerMoves DEF Inv, WorkerMove
  <2>5. UNCHANGED vars => stops' = stops
    BY DEF vars, boundVars
  <2> QED BY <2>1, <2>2, <2>3, <2>4, <2>5 DEF Next, Rest
<1>1. SUFFICES ASSUME stops' = 0, NEW r \in Runs, ctl'[r] = "dead" PROVE AllTerminal(disk, RunCampaign[r])'
  BY DEF EndedInv
<1>2. stops = 0 /\ stops' = stops
  BY <1>0, <1>1
<1>3. \A j \in Jobs : disk[j].status \in Terminal => disk'[j].status \in Terminal
  BY FileStep DEF Save, Inv, TickInv, FinalInv
<1>4. CASE ctl[r] = "dead"
  BY <1>2, <1>3, <1>4 DEF EndedInv, AllTerminal, JobsOf
<1>5. CASE ctl[r] # "dead"
  <2>1. \E q \in Runs : Save(q) /\ ctl'[q] = "dead" /\ q = r
    <3>1. ctl \in [Runs -> {"unborn", "sleep", "reconcile", "launch", "dead"}]
      BY DEF Inv, TypeInv, TypeOK
    <3>2. ASSUME NEW q \in Runs, \/ LauncherStep(q) \/ RunForeground(q) \/ TickBegin(q) \/ Plan(q)
                                 \/ \E j \in Jobs : \/ ReadMarker(q, j) \/ ReadResult(q, j) \/ CheckPid(q, j)
                                                    \/ Skip(q, j) \/ ClaimFails(q, j) \/ Spawn(q, j)
          PROVE  FALSE
      <4>1. ctl' = ctl \/ \E l \in {"sleep", "reconcile", "launch"} : ctl' = [ctl EXCEPT ![q] = l]
        BY <3>2 DEF LauncherStep, RunCheck, RunSpawn, RunRecord, RunForeground, TickBegin, Plan,
                    ReadMarker, ReadResult, CheckPid, Skip, ClaimFails, Spawn, ctlVars
      <4> QED BY <1>1, <1>5, <3>1, <4>1
    <3>3. ASSUME NEW q \in Runs, Stop(q) PROVE FALSE
      BY <1>0, <1>2, <3>3 DEF Stop
    <3>4. ASSUME NEW p \in Pids, WorkerStep(p) \/ Kill(p) PROVE FALSE
      <4>1. ctl' = ctl
        BY <3>4, WorkerMoves DEF Inv, WorkerMove
      <4> QED BY <1>1, <1>5, <4>1
    <3>5. ASSUME UNCHANGED vars PROVE FALSE
      BY <1>1, <1>5, <3>5 DEF vars, ctlVars
    <3>6. ASSUME NEW q \in Runs, Save(q) PROVE q = r
      BY <1>1, <1>5, <3>1, <3>6 DEF Save
    <3> QED BY <1>1, <3>2, <3>3, <3>4, <3>5, <3>6 DEF Next, Rest, TickStep
  <2>2. PICK q \in Runs : Save(q) /\ ctl'[q] = "dead" /\ q = r
    BY <2>1
  <2>3. AllTerminal(work, RunCampaign[r]) /\ \A j \in Jobs : CampaignOf[j] = RunCampaign[r] => disk'[j] = work[j]
    BY <2>2 DEF Save, Inv, TypeInv, TypeOK
  <2> QED BY <2>3 DEF AllTerminal, JobsOf
<1> QED BY <1>4, <1>5

\* A live process of a local job is that of the job's last attempt, which
\* nothing has settled; its worker waits for it unless the worker was killed.
Computing(p) ==
  /\ Latest(p) /\ work[JobOf(p)].status # "pending" /\ ~marker[JobOf(p)]
  /\ result[JobOf(p)][info[p].attempt] = "none"
  /\ pc[p] = "wait" \/ (~WorkerRuns(p) /\ kills > 0)

LiveInv ==
  \A p \in Pids : /\ exec[p] # "starting"
                  /\ stops = 0 /\ exec[p] = "live" => Computing(p)

LEMMA ExecMoves ==
  ASSUME External = {}, TypeInv, NEW p \in Pids, exec[p] # "starting", WorkerStep(p) \/ Kill(p)
  PROVE  /\ exec' = [exec EXCEPT ![p] = exec'[p]] /\ exec'[p] # "starting"
         /\ kills' = kills \/ (kills \in Nat /\ kills' = kills + 1)
         /\ exec'[p] = "live" =>
              \/ pc[p] = "start" /\ pc'[p] = "wait"
              \/ exec[p] = "live" /\ pc[p] \notin {"wait"} 
              \/ exec[p] = "live" /\ pc[p] = "wait" /\ ~WorkerRuns(p)' /\ kills' > 0
<1>1. /\ pc \in [Pids -> WorkerPc \cup {"unborn", "zombie", "gone"}]
      /\ exec \in [Pids -> ExecState \cup {"none"}] /\ kills \in Nat
  BY NamesAssumption DEF TypeInv, TypeOK
<1>2. CASE Start(p)
  BY <1>1, <1>2 DEF Start, Goto, boundVars
<1>3. CASE RemoteStart(p)
  BY <1>3 DEF RemoteStart
<1>4. CASE Finish(p)
  <2>1. PICK outcome \in {"done"} \cup Failures : exec' = [exec EXCEPT ![p] = outcome]
    BY <1>4 DEF Finish
  <2>2. outcome \notin {"live", "starting"}
    BY NamesAssumption
  <2> QED BY <1>1, <1>4, <2>1, <2>2 DEF Finish, boundVars
<1>5. CASE Confirm(p) \/ ConfirmTimeout(p) \/ ProbeSucceeds(p) \/ ProbeTimeout(p) \/ Promote(p) \/ Mark(p) \/ Report(p)
  <2>1. exec' = exec /\ kills' = kills /\ pc[p] # "wait"
    BY <1>5 DEF Confirm, ConfirmTimeout, ProbeSucceeds, ProbeTimeout, Promote, Mark, Report, boundVars
  <2> QED BY <1>1, <2>1
<1>6. CASE Kill(p)
  <2>1. exec' = exec /\ kills' = kills + 1 /\ ~WorkerRuns(p)'
    BY <1>1, <1>6 DEF Kill, Goto, Exited, WorkerRuns, WorkerPc
  <2> QED BY <1>1, <2>1
<1> QED BY <1>2, <1>3, <1>4, <1>5, <1>6 DEF WorkerStep

LEMMA LiveKept ==
  ASSUME Inv, CrewInv, LiveInv, CtlMove
  PROVE  LiveInv'
<1>1. UNCHANGED <<spawned, info, marker, result, stops, exec, kills>>
  BY DEF CtlMove
<1> SUFFICES ASSUME NEW p \in Pids, stops = 0, exec[p] = "live" PROVE Computing(p)'
  BY <1>1 DEF LiveInv
<1>2. Computing(p) /\ Crew
  BY DEF LiveInv, CrewInv
<1>3. p \in 1..spawned
  BY NamesAssumption DEF Inv, TypeInv, TypeOK, Born, Pids
<1> DEFINE j == JobOf(p)
<1>4. j \in Jobs /\ ResultOf(j) = "none"
  BY <1>2, <1>3, LastAttempt DEF Inv, Crew, Computing, ResultOf
<1>5. work'[j].pid = p /\ work'[j].status # "pending"
  BY <1>2, <1>4 DEF CtlMove, Reason, Computing, Latest
<1>6. pc'[p] = "wait" \/ (~WorkerRuns(p)' /\ kills > 0)
  BY <1>2, <1>3 DEF CtlMove, Computing, WorkerRuns, WorkerPc
<1> QED BY <1>1, <1>2, <1>5, <1>6 DEF Computing, Latest, JobOf

LEMMA LiveSpawn ==
  ASSUME Inv, LiveInv, NEW r \in Runs, NEW j \in Jobs, NEW s \in Slots,
         SpawnMove(r, j, spawned + 1, work[j].attempts + 1, s)
  PROVE  LiveInv'
<1>1. /\ UNCHANGED <<marker, result, exec, stops, kills>> /\ work[j].status = "pending"
      /\ \A i \in Jobs : i # j => work'[i] = work[i]
      /\ \A q \in 1..spawned : /\ JobOf(q) \in Jobs /\ info'[q] = info[q]
                               /\ pc'[q] = pc[q] \/ (~WorkerRuns(q) /\ pc'[q] = "gone")
  BY DEF SpawnMove
<1> SUFFICES ASSUME NEW q \in Pids, stops = 0, exec[q] = "live" PROVE Computing(q)'
  BY <1>1 DEF LiveInv
<1>2. Computing(q) /\ q \in 1..spawned
  BY NamesAssumption DEF LiveInv, Inv, TypeInv, TypeOK, Born, Pids
<1>3. JobOf(q) # j /\ JobOf(q) \in Jobs /\ info'[q] = info[q]
  BY <1>1, <1>2 DEF Computing
<1>4. pc'[q] = "wait" \/ (~WorkerRuns(q)' /\ kills > 0)
  BY <1>1, <1>2 DEF Computing, WorkerRuns, WorkerPc
<1> QED BY <1>1, <1>2, <1>3, <1>4 DEF Computing, Latest, JobOf

LEMMA LiveWorker ==
  ASSUME External = {}, Inv, CrewInv, LiveInv, NEW p \in Pids, WorkerStep(p) \/ Kill(p)
  PROVE  LiveInv'
<1>0. exec[p] # "starting" /\ TypeInv
  BY DEF LiveInv, Inv
<1>1. /\ exec' = [exec EXCEPT ![p] = exec'[p]] /\ exec'[p] # "starting"
      /\ kills \in Nat /\ kills' \in Nat /\ kills' >= kills
      /\ exec'[p] = "live" =>
           \/ pc[p] = "start" /\ pc'[p] = "wait"
           \/ exec[p] = "live" /\ pc[p] \notin {"wait"} 
           \/ exec[p] = "live" /\ pc[p] = "wait" /\ ~WorkerRuns(p)' /\ kills' > 0
  <2>1. kills \in Nat
    BY NamesAssumption DEF Inv, TypeInv, TypeOK
  <2> QED BY <1>0, <2>1, ExecMoves
<1>2. WorkerMove(p) /\ p \in 1..spawned
  BY <1>0, WorkerMoves, WorkerStarted
<1>3. UNCHANGED <<work, spawned, info, stops>> /\ pc' = [pc EXCEPT ![p] = pc'[p]]
  BY <1>2 DEF WorkerMove
<1>4. \A q \in Pids : q # p => exec'[q] = exec[q] /\ pc'[q] = pc[q]
  BY <1>0, <1>1, <1>3 DEF TypeInv, TypeOK
<1> SUFFICES ASSUME NEW q \in Pids, stops = 0, exec'[q] = "live" PROVE Computing(q)'
  BY <1>1, <1>3, <1>4 DEF LiveInv
<1>5. Crew /\ marker \in [Jobs -> BOOLEAN] /\ result \in [Jobs -> [Pids -> {"none", "completed", "failed"}]]
  BY <1>0 DEF CrewInv, TypeInv, TypeOK
<1>6. CASE q # p
  <2>1. exec[q] = "live" /\ Computing(q) /\ q \in 1..spawned
    BY <1>0, <1>4, <1>6, NamesAssumption DEF LiveInv, TypeInv, TypeOK, Born, Pids
  <2>2. WorkerRuns(p) => JobOf(p) # JobOf(q)
    BY <1>2, <1>5, <1>6, <2>1 DEF Crew, Crewed, Latest, Computing
  <2>3. JobOf(q) \in Jobs /\ info[q].attempt \in Pids
    BY <1>0, <1>5, <2>1, LastAttempt DEF Crew, Computing
  <2>4. marker'[JobOf(q)] = marker[JobOf(q)] /\ result'[JobOf(q)][info[q].attempt] = result[JobOf(q)][info[q].attempt]
    BY <1>2, <1>5, <2>2, <2>3 DEF WorkerMove, WorkerRuns, WorkerPc
  <2>5. pc'[q] = pc[q]
    BY <1>4, <1>6
  <2> QED BY <1>1, <1>3, <2>1, <2>4, <2>5 DEF Computing, Latest, JobOf, WorkerRuns
<1>7. CASE q = p
  <2>1. CASE pc[p] = "start" /\ pc'[p] = "wait"
    <3>1. /\ Latest(p) /\ work[JobOf(p)].status # "pending" /\ ~marker[JobOf(p)]
          /\ result[JobOf(p)][info[p].attempt] = "none"
      BY <1>2, <1>5, <2>1 DEF Crew, Crewed, WorkerRuns, WorkerPc
    <3>2. UNCHANGED <<marker, result>>
      BY <1>2, <2>1 DEF WorkerMove
    <3> QED BY <1>3, <1>7, <2>1, <3>1, <3>2 DEF Computing, Latest, JobOf
  <2>2. CASE exec[p] = "live" /\ pc[p] # "wait"
    <3>1. Computing(p) /\ ~WorkerRuns(p) /\ kills > 0
      BY <2>2 DEF LiveInv, Computing
    <3>2. UNCHANGED <<marker, result>> /\ ~WorkerRuns(p)'
      BY <1>2, <3>1 DEF WorkerMove, WorkerRuns, WorkerPc
    <3> QED BY <1>1, <1>3, <1>7, <3>1, <3>2 DEF Computing, Latest, JobOf
  <2>3. CASE exec[p] = "live" /\ pc[p] = "wait" /\ ~WorkerRuns(p)' /\ kills' > 0
    <3>1. Computing(p) /\ UNCHANGED <<marker, result>>
      BY <1>2, <2>3 DEF LiveInv, WorkerMove
    <3> QED BY <1>3, <1>7, <2>3, <3>1 DEF Computing, Latest, JobOf
  <2> QED BY <1>1, <1>7, <2>1, <2>2, <2>3
<1> QED BY <1>6, <1>7

LEMMA LiveStep ==
  ASSUME External = {}, Inv, CrewInv, LiveInv, [Next]_vars
  PROVE  LiveInv'
<1>1. TypeInv /\ TickInv
  BY DEF Inv
<1>2. CASE CtlMove
  BY <1>2, LiveKept
<1>3. ASSUME NEW r \in Runs, NEW j \in Jobs, Spawn(r, j) PROVE LiveInv'
  BY <1>1, <1>3, SpawnMoves, LiveSpawn
<1>4. ASSUME NEW r \in Runs, Stop(r) PROVE LiveInv'
  <2>1. exec' = exec /\ stops' = stops + 1 /\ stops \in Nat
    BY <1>1, <1>4, NamesAssumption DEF Stop, TypeInv, TypeOK
  <2> QED BY <2>1 DEF LiveInv
<1>5. ASSUME NEW p \in Pids, WorkerStep(p) \/ Kill(p) PROVE LiveInv'
  BY <1>5, LiveWorker
<1>6. CASE UNCHANGED vars
  <2>1. CtlMove
    BY <1>6 DEF CtlMove, Reason, vars, ctlVars, tickVars, procVars, fileVars, boundVars
  <2> QED BY <1>2, <2>1
<1>7. ASSUME NEW r \in Runs, LauncherStep(r) \/ RunForeground(r) PROVE LiveInv'
  BY <1>2, <1>7, CtlMoves
<1>8. ASSUME NEW r \in Runs, TickStep(r) PROVE LiveInv'
  BY <1>2, <1>3, <1>8, CtlMoves DEF TickStep
<1> QED BY <1>4, <1>5, <1>6, <1>7, <1>8 DEF Next, Rest

LEMMA LiveCorrect ==
  ASSUME External = {} PROVE Spec => [](Inv /\ CrewInv /\ EndedInv /\ LiveInv)
<1>1. Init => EndedInv /\ LiveInv
  BY DEF Init, EndedInv, LiveInv
<1>2. Inv /\ CrewInv /\ EndedInv /\ LiveInv /\ [Next]_vars => EndedInv' /\ LiveInv'
  BY EndedStep, LiveStep
<1> QED BY <1>1, <1>2, CrewCorrect, PTL DEF Spec

\* For every instance without external jobs, and also when workers are killed:
\* as long as no controller stops early, no process of a dependency is live
\* once a worker of the dependent job has been started (the marker that lets
\* ready_jobs release the child is written after the parent's process ended).
THEOREM ParentsEndFirst ==
  ASSUME External = {} PROVE Spec => [](stops = 0 => ParentEndsFirst)
<1>1. LiveInv /\ DependenciesMarked /\ TypeInv => (stops = 0 => ParentEndsFirst)
  <2> SUFFICES ASSUME LiveInv, DependenciesMarked, TypeInv, stops = 0, NEW p \in 1..spawned, NEW q \in 1..spawned,
                      JobOf(q) \in Deps[JobOf(p)], exec[q] = "live"
               PROVE  FALSE
    BY DEF ParentEndsFirst
  <2>1. q \in Pids
    BY NamesAssumption DEF TypeInv, TypeOK, Pids
  <2> QED BY <2>1 DEF LiveInv, Computing, DependenciesMarked
<1> QED BY <1>1, LiveCorrect, DependenciesAreMarked, PTL DEF Inv

\* For every instance without external jobs: as long as no controller stops
\* early and no worker is killed, two live scientific processes never share a
\* GPU, within a campaign (`occupied`) and across campaigns (claim_slot).
THEOREM GpusAreExclusive ==
  ASSUME External = {} PROVE Spec => [](kills = 0 => GpuExclusive)
<1>1. Inv /\ CrewInv /\ EndedInv /\ LiveInv /\ TrackedGpuExclusive => (kills = 0 => GpuExclusive)
  <2> SUFFICES ASSUME Inv, CrewInv, EndedInv, LiveInv, TrackedGpuExclusive, kills = 0, stops = 0,
                      NEW p \in 1..spawned, NEW q \in 1..spawned, p # q,
                      exec[p] = "live", exec[q] = "live", info[p].slot = info[q].slot, info[p].slot # Cpu
               PROVE  FALSE
    BY DEF GpuExclusive
  <2>1. ASSUME NEW x \in {p, q}
        PROVE  /\ JobOf(x) \in Jobs /\ work[JobOf(x)].pid = x /\ Running(JobOf(x))
               /\ SlotOf(JobOf(x)) = info[x].slot /\ CtlAlive(ParentOf(JobOf(x)))
    <3>1. x \in Pids /\ x \in 1..spawned /\ exec[x] = "live" /\ info[x] \in Launched
      BY NamesAssumption DEF Inv, TypeInv, TypeOK, Born, Pids
    <3>2. Computing(x) /\ WorkerRuns(x) /\ pc[x] # "okreport"
      BY <3>1 DEF LiveInv, Computing, WorkerRuns, WorkerPc
    <3>3. JobOf(x) \in Jobs /\ work[JobOf(x)].pid = x /\ Running(JobOf(x))
      BY <3>1, <3>2 DEF CrewInv, Crew, Crewed, Latest, Running, JobOf, Launched
    <3>4. RunCampaign[info[x].parent] = CampaignOf[JobOf(x)] /\ info[x].parent \in Runs
      BY <3>1, <3>3 DEF Inv, SlotInv, Held, Running, Launched
    <3>5. disk[JobOf(x)].status \notin Terminal
      BY <3>3 DEF Inv, TickInv, FinalInv, Running, Terminal
    <3>6. CtlAlive(info[x].parent)
      BY <3>1, <3>3, <3>4, <3>5 DEF EndedInv, AllTerminal, JobsOf, Inv, SlotInv, LifeInv, CtlAlive
    <3> QED BY <3>3, <3>6 DEF SlotOf, ParentOf
  <2> QED BY <2>1 DEF TrackedGpuExclusive
<1> QED BY <1>1, LiveCorrect, TrackedGpusAreExclusive, PTL

-----------------------------------------------------------------------------
(* What a controller reserves and what it leaves unplaced                   *)

OneControllerEach == \A r, q \in Runs : RunCampaign[r] = RunCampaign[q] => r = q

\* The attempt that a reservation was made for is running, or may be retried.
Needed(r, g) ==
  \E p \in 1..spawned :
    /\ info[p].parent = r /\ info[p].slot = g
    /\ \/ Running(JobOf(p)) /\ work[JobOf(p)].pid = p
       \/ info[p].attempt < MaxAttempts[JobOf(p)]

LeakInv == \A r \in Runs : \A g \in Gpus : resv[g] = r => Needed(r, g)

LEMMA VisitReleases ==
  ASSUME TypeOK, NEW r \in Runs, NEW j \in Jobs, work[j].status = "running",
         ReadMarker(r, j) \/ ReadResult(r, j) \/ CheckPid(r, j)
  PROVE  work'[j].status \in Terminal => resv' = ReleaseSlot(r, SlotOf(j))
<1>1. work[j] \in Record /\ work \in [Jobs -> Record]
  BY DEF TypeOK
<1>2. CASE ReadMarker(r, j)
  <2> DEFINE seen == j \in External /\ hostOk[j] = info[work[j].pid].slot
             rec == Confirmed(work[j], seen)
  <2>1. rec \in Record /\ rec.status = work[j].status
    BY <1>1, ConfirmedRecord
  <2>2. \/ resv' = ReleaseSlot(r, SlotOf(j))
        \/ work' = [work EXCEPT ![j] = rec]
    BY <1>2 DEF ReadMarker, Settle, SlotOf
  <2> HIDE DEF rec
  <2> QED BY <1>1, <2>1, <2>2 DEF Terminal
<1>3. CASE ReadResult(r, j)
  <2>1. \/ work' = work
        \/ work' = [work EXCEPT ![j] = Becomes(work[j], "pending")]
        \/ resv' = ReleaseSlot(r, SlotOf(j))
    BY <1>3 DEF ReadResult, Settle, SlotOf
  <2>2. Becomes(work[j], "pending").status = "pending"
    BY <1>1, BecomesRecord DEF Status
  <2> QED BY <1>1, <2>1, <2>2 DEF Terminal
<1>4. CASE CheckPid(r, j)
  <2>1. work' = [work EXCEPT ![j] = work[j]] \/ resv' = ReleaseSlot(r, SlotOf(j))
    BY <1>4 DEF CheckPid, Settle, SlotOf
  <2> QED BY <1>1, <2>1 DEF Terminal
<1> QED BY <1>2, <1>3, <1>4

LEMMA LeakVisit ==
  ASSUME OneControllerEach, Inv, OriginInv, LeakInv, NEW r \in Runs, NEW j \in Jobs,
         ReadMarker(r, j) \/ ReadResult(r, j) \/ CheckPid(r, j)
  PROVE  LeakInv'
<1> DEFINE c == RunCampaign[r]
<1>0. TypeOK /\ TypeInv
  BY DEF Inv, TypeInv
<1>1. PICK rec \in Record : Visited(r, j, rec)
  BY <1>0, VisitShape
<1>2. /\ CampaignOf[j] = c /\ work[j].status = "running" /\ c \in Campaigns
      /\ work' = [work EXCEPT ![j] = rec] /\ rec.pid = work[j].pid
      /\ UNCHANGED <<info, spawned>>
      /\ resv' = resv \/ resv' = ReleaseSlot(r, SlotOf(j))
      /\ rec.status = "pending" => work[j].attempts < MaxAttempts[j]
      /\ rec.status \in Terminal \cup {"running", "pending"}
  BY <1>1, ManifestAssumption DEF Visited, procVars, Inv, TickInv, ListInv, Terminal
<1>3. work'[j] = rec /\ \A i \in Jobs : i # j => work'[i] = work[i]
  BY <1>0, <1>2 DEF TypeOK
<1>4. rec.status \in Terminal => resv' = ReleaseSlot(r, SlotOf(j))
  BY <1>0, <1>2, <1>3, VisitReleases
<1>5. \A p \in 1..spawned : JobOf(p) \in Jobs
  BY <1>0, NamesAssumption DEF TypeInv, TypeOK, Born, Pids, JobOf, Launched
<1>6. SUFFICES ASSUME NEW q \in Runs, NEW g \in Gpus, resv'[g] = q PROVE Needed(q, g)'
  BY DEF LeakInv
<1>7. resv[g] = q
  BY <1>2, <1>6, NamesAssumption DEF ReleaseSlot
<1>8. PICK p \in 1..spawned :
        /\ info[p].parent = q /\ info[p].slot = g
        /\ \/ Running(JobOf(p)) /\ work[JobOf(p)].pid = p
           \/ info[p].attempt < MaxAttempts[JobOf(p)]
  BY <1>7 DEF LeakInv, Needed
<1>9. (Running(JobOf(p)) /\ work[JobOf(p)].pid = p)' \/ info[p].attempt < MaxAttempts[JobOf(p)]
  <2>1. CASE JobOf(p) # j \/ info[p].attempt < MaxAttempts[JobOf(p)]
    BY <1>2, <1>3, <1>5, <1>8, <2>1 DEF Running, JobOf
  <2>2. CASE JobOf(p) = j /\ work[j].pid = p
    <3>1. CASE rec.status = "running"
      BY <1>2, <1>3, <2>2, <3>1 DEF Running, JobOf
    <3>2. CASE rec.status = "pending"
      BY <1>2, <2>2, <3>2 DEF OriginInv
    <3>3. CASE rec.status \in Terminal
      <4>1. q = r
        BY <1>2, <1>8, <2>2 DEF OriginInv, OneControllerEach
      <4> QED BY <1>4, <1>6, <1>7, <1>8, <2>2, <3>3, <4>1, NamesAssumption DEF ReleaseSlot, SlotOf
    <3> QED BY <1>2, <3>1, <3>2, <3>3
  <2> QED BY <1>8, <2>1, <2>2
<1> QED BY <1>2, <1>8, <1>9 DEF Needed, JobOf

\* Steps that end no attempt and reserve nothing.
LEMMA LeakQuiet ==
  ASSUME LeakInv, TypeInv, UNCHANGED <<info, spawned>>,
         \A g \in Gpus, q \in Runs : resv'[g] = q => resv[g] = q,
         \A g \in Gpus, q \in Runs : resv'[g] = q =>
           \A p \in 1..spawned : info[p].parent = q /\ Running(JobOf(p)) =>
             /\ work'[JobOf(p)].status = "running" /\ work'[JobOf(p)].pid = work[JobOf(p)].pid
  PROVE  LeakInv'
<1> SUFFICES ASSUME NEW q \in Runs, NEW g \in Gpus, resv'[g] = q PROVE Needed(q, g)'
  BY DEF LeakInv
<1>1. PICK p \in 1..spawned :
        /\ info[p].parent = q /\ info[p].slot = g
        /\ \/ Running(JobOf(p)) /\ work[JobOf(p)].pid = p
           \/ info[p].attempt < MaxAttempts[JobOf(p)]
  BY DEF LeakInv, Needed
<1> QED BY <1>1 DEF Needed, Running, JobOf

LEMMA LeakSpawn ==
  ASSUME LeakInv, TypeInv, NEW r \in Runs, NEW j \in Jobs, NEW s \in Slots,
         SpawnMove(r, j, spawned + 1, work[j].attempts + 1, s)
  PROVE  LeakInv'
<1> DEFINE x == spawned + 1
<1>1. /\ spawned' = x /\ spawned \in Nat /\ work[j].status = "pending"
      /\ resv' = [g \in Gpus |-> IF g = s THEN r ELSE resv[g]]
      /\ info'[x].job = j /\ info'[x].slot = s /\ info'[x].parent = r
      /\ \A q \in 1..spawned : q # x /\ info'[q] = info[q] /\ JobOf(q) \in Jobs
      /\ work'[j].status = "running" /\ work'[j].pid = x
      /\ \A i \in Jobs : i # j => work'[i] = work[i]
  BY DEF SpawnMove, TypeInv, TypeOK
<1> SUFFICES ASSUME NEW q \in Runs, NEW g \in Gpus, resv'[g] = q PROVE Needed(q, g)'
  BY DEF LeakInv
<1>2. CASE g = s
  <2>1. q = r /\ x \in 1..spawned'
    BY <1>1, <1>2
  <2> QED BY <1>1, <1>2, <2>1 DEF Needed, Running, JobOf
<1>3. CASE g # s
  <2>1. resv[g] = q
    BY <1>1, <1>3
  <2>2. PICK p \in 1..spawned :
        /\ info[p].parent = q /\ info[p].slot = g
        /\ \/ Running(JobOf(p)) /\ work[JobOf(p)].pid = p
           \/ info[p].attempt < MaxAttempts[JobOf(p)]
    BY <2>1 DEF LeakInv, Needed
  <2>3. p \in 1..spawned' /\ info'[p] = info[p] /\ JobOf(p) \in Jobs
    BY <1>1
  <2>4. JobOf(p) = j => ~Running(JobOf(p))
    BY <1>1 DEF Running
  <2> QED BY <1>1, <2>2, <2>3, <2>4 DEF Needed, Running, JobOf
<1> QED BY <1>2, <1>3

LEMMA LeakStep ==
  ASSUME OneControllerEach, Inv, OriginInv, LeakInv, [Next]_vars
  PROVE  LeakInv'
<1>1. TypeInv /\ TickInv /\ TypeOK /\ \A p \in 1..spawned : JobOf(p) \in Jobs
  BY NamesAssumption DEF Inv, TypeInv, TypeOK, Born, Pids, JobOf, Launched
<1>2. CASE UNCHANGED <<info, spawned, resv, work>>
  BY <1>1, <1>2, LeakQuiet DEF Running
<1>3. ASSUME NEW r \in Runs, LauncherStep(r) \/ RunForeground(r) \/ TickBegin(r) PROVE LeakInv'
  BY <1>2, <1>3 DEF LauncherStep, RunCheck, RunSpawn, RunRecord, RunForeground, TickBegin, tickVars, procVars
<1>4. ASSUME NEW r \in Runs, Plan(r) PROVE LeakInv'
  <2>1. work' = Planned(RunCampaign[r]) /\ UNCHANGED <<info, spawned, resv>> /\ RunCampaign[r] \in Campaigns
    BY <1>4, ManifestAssumption DEF Plan, procVars
  <2>2. \A j \in Jobs : work[j].status = "running" => work'[j] = work[j]
    BY <1>1, <2>1, PlannedRecord
  <2> QED BY <1>1, <2>1, <2>2, LeakQuiet DEF Running
<1>5. ASSUME NEW r \in Runs, Save(r) PROVE LeakInv'
  <2>1. UNCHANGED <<info, spawned, work>> /\ (resv' = resv \/ resv' = ReleaseAll(r))
    BY <1>5 DEF Save
  <2>2. \A g \in Gpus, q \in Runs : resv'[g] = q => resv[g] = q
    BY <2>1, NamesAssumption DEF ReleaseAll
  <2> QED BY <1>1, <2>1, <2>2, LeakQuiet DEF Running
<1>6. ASSUME NEW r \in Runs, Stop(r) PROVE LeakInv'
  <2>1. /\ UNCHANGED <<info, spawned>> /\ resv' = ReleaseAll(r)
        /\ \A j \in Jobs : CampaignOf[j] # RunCampaign[r] => work'[j] = work[j]
    BY <1>6 DEF Stop
  <2>2. \A g \in Gpus, q \in Runs : resv'[g] = q => resv[g] = q /\ q # r
    BY <2>1, NamesAssumption DEF ReleaseAll
  <2>3. \A q \in Runs : q # r => \A p \in 1..spawned :
          info[p].parent = q => CampaignOf[JobOf(p)] # RunCampaign[r]
    BY DEF OneControllerEach, OriginInv
  <2>4. \A g \in Gpus, q \in Runs : resv'[g] = q =>
           \A p \in 1..spawned : info[p].parent = q /\ Running(JobOf(p)) =>
             /\ work'[JobOf(p)].status = "running" /\ work'[JobOf(p)].pid = work[JobOf(p)].pid
    BY <1>1, <2>1, <2>2, <2>3 DEF Running
  <2> QED BY <1>1, <2>1, <2>2, <2>4, LeakQuiet
<1>7. ASSUME NEW r \in Runs, NEW j \in Jobs, Spawn(r, j) PROVE LeakInv'
  BY <1>1, <1>7, SpawnMoves, LeakSpawn
<1>8. ASSUME NEW r \in Runs, NEW j \in Jobs, Skip(r, j) \/ ClaimFails(r, j) PROVE LeakInv'
  BY <1>2, <1>8 DEF Skip, ClaimFails, procVars
<1>9. ASSUME NEW p \in Pids, WorkerStep(p) \/ Kill(p) PROVE LeakInv'
  BY <1>1, <1>2, <1>9, WorkerMoves DEF WorkerMove
<1>10. UNCHANGED vars => LeakInv'
  BY <1>2 DEF vars, tickVars, procVars
<1> QED BY <1>3, <1>4, <1>5, <1>6, <1>7, <1>8, <1>9, <1>10, LeakVisit DEF Next, Rest, TickStep

\* For every instance with one `run` invocation per campaign, whatever stops
\* or dies: a GPU stays reserved only for an attempt that runs or may be
\* retried (release_slot in reconcile_running; the handles die with the controller).
THEOREM ReservationsAreNeeded ==
  ASSUME OneControllerEach PROVE Spec => []NoLeakAfterLastAttempt
<1>1. Init => LeakInv
  BY NamesAssumption DEF Init, LeakInv
<1>2. Inv /\ CrewInv /\ LeakInv /\ [Next]_vars => LeakInv'
  BY LeakStep DEF CrewInv
<1>3. LeakInv => NoLeakAfterLastAttempt
  BY DEF LeakInv, Needed, NoLeakAfterLastAttempt
<1> QED BY <1>1, <1>2, <1>3, CrewCorrect, PTL DEF Spec

-----------------------------------------------------------------------------
\* Every non-empty set of numbers has a least one.
LEMMA LeastNat ==
  ASSUME NEW T, T \subseteq Nat, T # {}
  PROVE  \E x \in T : \A y \in T : x <= y
<1> DEFINE R == OpToRel(<, Nat)
<1>1. IsWellFoundedOn(R, Nat)
  BY NatLessThanWellFounded
<1>2. \A x, y \in Nat : <<x, y>> \in R <=> x < y
  BY DEF OpToRel
<1> HIDE DEF R
<1>3. PICK x \in T : \A y \in T : ~(<<y, x>> \in R)
  BY <1>1, WFMin
<1>4. ASSUME NEW y \in T PROVE x <= y
  <2>1. x \in Nat /\ y \in Nat /\ ~(y < x)
    BY <1>2, <1>3
  <2> QED BY <2>1
<1> QED BY <1>4

\* assign_slot finds no slot only when `occupied` has all that fit.
LEMMA NoBestSlot ==
  ASSUME NEW j \in Jobs, NEW occupied, BestSlots(j, occupied) = {}
  PROVE  j \notin CpuJobs /\ Fits[j] \subseteq occupied
<1>1. j \notin CpuJobs
  BY DEF BestSlots
<1> DEFINE S == Fits[j] \ occupied
           T == {Cost[j][g] : g \in S}
<1>2. S \subseteq Gpus /\ T \subseteq Nat
  BY ManifestAssumption
<1>3. ASSUME S # {} PROVE FALSE
  <2>1. T # {}
    BY <1>3
  <2> HIDE DEF T
  <2>2. PICK x \in T : \A y \in T : x <= y
    BY <1>2, <2>1, LeastNat
  <2> USE DEF T
  <2>3. PICK g \in S : \A h \in S : Cost[j][g] <= Cost[j][h]
    BY <2>2
  <2> QED BY <1>1, <2>3 DEF BestSlots
<1> QED BY <1>1, <1>3

OneController == \A r, q \in Runs : r = q

\* In the launch phase of the only controller, `occupied` holds only GPUs of
\* running jobs, and a ready job that is no longer queued fits nowhere else.
PlacedInv ==
  \A r \in Runs : ctl[r] = "launch" =>
    /\ \A g \in taken[RunCampaign[r]] \cap Gpus :
         \E i \in JobsOf(RunCampaign[r]) : Running(i) /\ SlotOf(i) = g
    /\ \A j \in ReadyIn(work, RunCampaign[r]) \ queue[RunCampaign[r]] :
         j \notin CpuJobs /\ Fits[j] \subseteq taken[RunCampaign[r]]

LEMMA PlacedSpawn ==
  ASSUME Inv, PlacedInv, OneController, NEW r \in Runs, NEW j \in Jobs, NEW s \in Slots,
         SpawnMove(r, j, spawned + 1, work[j].attempts + 1, s)
  PROVE  PlacedInv'
<1> DEFINE c == RunCampaign[r]
           x == spawned + 1
<1>1. /\ ctl[r] = "launch" /\ ctl' = ctl /\ work[j].status = "pending" /\ CampaignOf[j] = c
      /\ queue' = [queue EXCEPT ![c] = @ \ {j}] /\ taken' = [taken EXCEPT ![c] = @ \cup {s}]
      /\ info'[x].slot = s
      /\ \A q \in 1..spawned : info'[q] = info[q]
      /\ work'[j].status = "running" /\ work'[j].pid = x
      /\ \A i \in Jobs : i # j => work'[i] = work[i]
  BY DEF SpawnMove
<1>2. c \in Campaigns /\ queue'[c] = queue[c] \ {j} /\ taken'[c] = taken[c] \cup {s}
  BY <1>1, ManifestAssumption DEF Inv, TypeInv, TypeOK
<1>3. \A i \in Jobs : Running(i) => Running(i)' /\ SlotOf(i)' = SlotOf(i)
  BY <1>1, RunningKnown DEF Inv, Running, SlotOf
<1>4. \A g \in taken'[c] \cap Gpus : \E i \in JobsOf(c) : Running(i)' /\ SlotOf(i)' = g
  <2> TAKE g \in taken'[c] \cap Gpus
  <2>1. CASE g = s
    BY <1>1, <2>1 DEF JobsOf, Running, SlotOf
  <2>2. CASE g \in taken[c]
    BY <1>1, <1>3, <2>2 DEF PlacedInv, JobsOf
  <2> QED BY <1>2, <2>1, <2>2
<1>5. ASSUME NEW i \in ReadyIn(work', c) PROVE i \in ReadyIn(work, c) /\ i # j
  <2>1. i \in JobsOf(c) /\ work'[i].status = "pending" /\ \A d \in Deps[i] : work'[d].status = "completed"
    BY DEF ReadyIn
  <2>2. i # j /\ \A d \in Deps[i] : d \in Jobs /\ d # j
    BY <1>1, <2>1, ManifestAssumption DEF JobsOf
  <2>3. work[i].status = "pending" /\ \A d \in Deps[i] : work[d].status = "completed"
    BY <1>1, <2>1, <2>2 DEF JobsOf
  <2> QED BY <2>1, <2>2, <2>3 DEF ReadyIn
<1>6. ASSUME NEW i \in ReadyIn(work', c) \ queue'[c]
      PROVE  i \notin CpuJobs /\ Fits[i] \subseteq taken'[c]
  <2>1. i \in ReadyIn(work, c) \ queue[c]
    BY <1>2, <1>5
  <2>2. i \notin CpuJobs /\ Fits[i] \subseteq taken[c]
    BY <1>1, <2>1 DEF PlacedInv
  <2> QED BY <1>2, <2>2
<1> QED BY <1>1, <1>4, <1>6 DEF PlacedInv, OneController, JobsOf

LEMMA PlacedStep ==
  ASSUME OneController, Inv, PlacedInv, [Next]_vars
  PROVE  PlacedInv'
<1>1. /\ TypeInv /\ TickInv /\ ctl \in [Runs -> {"unborn", "sleep", "reconcile", "launch", "dead"}]
      /\ taken \in [Campaigns -> SUBSET Slots] /\ queue \in [Campaigns -> SUBSET Jobs]
      /\ resv \in [Gpus -> Runs \cup {None}]
  BY DEF Inv, TypeInv, TypeOK
<1>2. ASSUME NEW r \in Runs, ctl'[r] # "launch" PROVE PlacedInv'
  BY <1>2 DEF PlacedInv, OneController
<1>3. CASE UNCHANGED <<ctl, taken, queue, work, info>>
  BY <1>3 DEF PlacedInv, Running, SlotOf
<1>4. ASSUME NEW r \in Runs, LauncherStep(r) \/ RunForeground(r) PROVE PlacedInv'
  <2>1. UNCHANGED <<ctl, taken, queue, work, info>> \/ ctl' = [ctl EXCEPT ![r] = "sleep"]
    BY <1>4 DEF LauncherStep, RunCheck, RunSpawn, RunRecord, RunForeground, tickVars, procVars
  <2> QED BY <1>1, <1>2, <1>3, <2>1
<1>5. ASSUME NEW r \in Runs, TickBegin(r) \/ Save(r) \/ Stop(r) PROVE PlacedInv'
  <2>1. \E l \in {"reconcile", "sleep", "dead"} : ctl' = [ctl EXCEPT ![r] = l]
    BY <1>5 DEF TickBegin, Save, Stop
  <2> QED BY <1>1, <1>2, <2>1
<1>6. ASSUME NEW r \in Runs, NEW j \in Jobs, ReadMarker(r, j) \/ ReadResult(r, j) \/ CheckPid(r, j) PROVE PlacedInv'
  <2>1. ctl' = ctl /\ ctl[r] = "reconcile"
    BY <1>6 DEF ReadMarker, ReadResult, CheckPid, Visiting, ctlVars
  <2> QED BY <1>2, <2>1
<1>7. ASSUME NEW r \in Runs, Plan(r) PROVE PlacedInv'
  <2> DEFINE c == RunCampaign[r]
  <2>1. /\ queue' = [queue EXCEPT ![c] = ReadyIn(work', c)]
        /\ taken' = [taken EXCEPT ![c] = Occupied(work', c)] /\ info' = info /\ c \in Campaigns
    BY <1>7, ManifestAssumption DEF Plan, procVars
  <2>2. queue'[c] = ReadyIn(work', c) /\ taken'[c] = Occupied(work', c)
    BY <1>1, <2>1
  <2>3. \A g \in taken'[c] : \E i \in JobsOf(c) : work'[i].status = "running" /\ info[work'[i].pid].slot = g
    BY <2>2 DEF Occupied
  <2> QED BY <2>1, <2>2, <2>3 DEF PlacedInv, OneController, Running, SlotOf, JobsOf
<1>8. ASSUME NEW r \in Runs, NEW j \in Jobs, Spawn(r, j) PROVE PlacedInv'
  BY <1>1, <1>8, SpawnMoves, PlacedSpawn
<1>9. ASSUME NEW r \in Runs, NEW j \in Jobs, Skip(r, j) PROVE PlacedInv'
  <2> DEFINE c == RunCampaign[r]
  <2>1. /\ ctl[r] = "launch" /\ BestSlots(j, taken[c]) = {} /\ c \in Campaigns
        /\ queue' = [queue EXCEPT ![c] = @ \ {j}] /\ UNCHANGED <<ctl, taken, work, info>>
    BY <1>9, ManifestAssumption DEF Skip, Placing, ctlVars, procVars
  <2>2. j \notin CpuJobs /\ Fits[j] \subseteq taken[c]
    BY <2>1, NoBestSlot
  <2>3. queue'[c] = queue[c] \ {j}
    BY <1>1, <2>1
  <2> QED BY <2>1, <2>2, <2>3 DEF PlacedInv, OneController, Running, SlotOf
<1>10. ASSUME NEW r \in Runs, NEW j \in Jobs, ClaimFails(r, j) PROVE PlacedInv'
  <2>1. PICK s : ~Claimable(r, s)
    BY <1>10 DEF ClaimFails
  <2> QED BY <1>1, <2>1 DEF Claimable, OneController
<1>11. ASSUME NEW p \in Pids, WorkerStep(p) \/ Kill(p) PROVE PlacedInv'
  BY <1>1, <1>3, <1>11, WorkerMoves DEF WorkerMove
<1>12. UNCHANGED vars => PlacedInv'
  BY <1>3 DEF vars, ctlVars, tickVars, procVars
<1> QED BY <1>4, <1>5, <1>6, <1>7, <1>8, <1>9, <1>10, <1>11, <1>12 DEF Next, Rest, TickStep

\* For every manifest and set of GPUs, with a single controller: a tick that
\* is done launching leaves a ready job waiting only if every GPU it may use
\* runs another job (controller_tick, assign_slot).
THEOREM TicksAreWorkConserving ==
  ASSUME OneController PROVE Spec => []WorkConserving
<1>1. Init => PlacedInv
  BY DEF Init, PlacedInv
<1>2. Inv /\ PlacedInv /\ [Next]_vars => PlacedInv'
  BY PlacedStep
<1>3. Inv /\ PlacedInv => WorkConserving
  <2> SUFFICES ASSUME Inv, PlacedInv, NEW r \in Runs, ctl[r] = "launch", queue[RunCampaign[r]] = {},
                      NEW j \in ReadyIn(work, RunCampaign[r])
               PROVE  j \notin CpuJobs /\ \A g \in Fits[j] : \E i \in JobsOf(RunCampaign[r]) : Running(i) /\ SlotOf(i) = g
    BY DEF WorkConserving
  <2>1. j \in Jobs /\ Fits[j] \subseteq Gpus
    BY ManifestAssumption DEF ReadyIn, JobsOf
  <2> QED BY <2>1 DEF PlacedInv
<1> QED BY <1>1, <1>2, <1>3, InvCorrect, PTL DEF Spec
=============================================================================
