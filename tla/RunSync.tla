------------------------------ MODULE RunSync -------------------------------
(***************************************************************************)
(* scripts/sync_wandb.py beside a training run that tracks offline: the    *)
(* sync reads the run's manifest, uploads the W&B segments that it lists,  *)
(* keeps a cursor in the manifest, and marks the run as synced.  Trainer   *)
(* and sync both rewrite the whole manifest from what they once read.      *)
(***************************************************************************)
EXTENDS TrainingRun

CONSTANTS MaxSyncs   \* bound: invocations of the sync

ASSUME SyncAssumption == MaxSyncs \in Nat

VARIABLES
  spc,       \* where the sync is
  data,      \* the manifest as it read it
  syncs,
  uploaded   \* the segments W&B has received

syncVars == <<spc, data, syncs, uploaded>>
allVars == <<vars, syncVars>>

SyncInit == Init /\ spc = "idle" /\ data = NoManifest /\ syncs = 0 /\ uploaded = {}

\* pending_manifests, and the second read in main; see the README for a sync
\* that begins while the process of the run still ends.
SyncBegin ==
  /\ spc = "idle" /\ syncs < MaxSyncs /\ pc = "down"
  /\ man.sync = "sync_pending" /\ man.segs > 0
  /\ data' = man
  /\ syncs' = syncs + 1
  /\ spc' = IF man.cursor < man.segs THEN "upload" ELSE "reread"
  /\ UNCHANGED <<man, uploaded>>

\* `wandb sync` of the next segment.
Upload ==
  /\ spc = "upload"
  /\ uploaded' = uploaded \cup {data.cursor + 1}
  /\ spc' = "cursor"
  /\ UNCHANGED <<man, data, syncs>>

\* The upload fails, or the sync is killed anywhere.
SyncEnds ==
  /\ spc # "idle"
  /\ spc' = "idle" /\ data' = NoManifest
  /\ UNCHANGED <<man, syncs, uploaded>>

\* Mutant: the cursor jumps to the end of the list.
CursorAtEnd == data.segs
NextCursor == data.cursor + 1
SaveCursor ==
  /\ spc = "cursor"
  /\ data' = [data EXCEPT !.cursor = NextCursor]
  /\ man' = data'
  /\ spc' = IF data'.cursor < data'.segs THEN "upload" ELSE "reread"
  /\ UNCHANGED <<syncs, uploaded>>

Reread ==
  /\ spc = "reread"
  /\ data' = man
  /\ spc' = "close"
  /\ UNCHANGED <<man, syncs, uploaded>>

ClosedStatus(status) == IF status = "failed" THEN "failed" ELSE "completed"
Close ==
  /\ spc = "close"
  /\ man' = [data EXCEPT !.sync = "synced", !.status = ClosedStatus(@)]
  /\ spc' = "idle" /\ data' = NoManifest
  /\ UNCHANGED <<syncs, uploaded>>

SyncStep ==
  /\ SyncBegin \/ Upload \/ SaveCursor \/ Reread \/ Close \/ SyncEnds
  /\ UNCHANGED <<config, disk, rows, sent, marker, done, processVars, starts, stops, cut, rolled>>

\* A run is not resumed in the middle of a sync: see the README.
SyncNext ==
  \/ /\ RunNext /\ UNCHANGED syncVars
     /\ pc = "down" /\ pc' # "down" => spc = "idle"
  \/ SyncStep

SyncSpec == SyncInit /\ [][SyncNext]_allVars
FairSyncSpec ==
  /\ SyncSpec
  /\ WF_allVars(Step /\ CutOff /\ UNCHANGED syncVars)
  /\ WF_allVars(Resume("last") /\ CutOff /\ UNCHANGED syncVars /\ spc = "idle")
  /\ WF_allVars(spc # "idle" /\ SyncStep)

-----------------------------------------------------------------------------
(* Properties                                                              *)

\* The sync's variables have their shape, too.
SyncTypeOK ==
  /\ TypeOK
  /\ spc \in {"idle", "upload", "cursor", "reread", "close"}
  /\ data \in Manifest /\ syncs \in Nat /\ uploaded \subseteq Nat

\* A manifest that says synced lists no segment that W&B has not received,
\* whatever was resumed, killed or uploaded in part before (sync_wandb.main).
SyncedIsUploaded == man.sync = "synced" => 1..man.segs \subseteq uploaded
=============================================================================
