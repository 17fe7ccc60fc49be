----------------------------- MODULE LaunchGate ------------------------------
(***************************************************************************)
(* launch_gate.py: invocations of the gate on one gate directory resolve   *)
(* the campaign spec against the inputs it binds (source, configs, parent  *)
(* checkpoints, masks), smoke the exact commands, freeze the manifest,     *)
(* look at the inputs once more and hand the manifest to the orchestrator. *)
(* Meanwhile people edit the spec and the inputs, and an invocation may    *)
(* die anywhere.  Nothing locks the gate directory.                        *)
(*                                                                         *)
(* Bytes are versions.  The campaign spec of version v binds version v of  *)
(* every input; its manifest is v as well.  Plans, ledgers, static checks  *)
(* and remote preflights only add ways to fail.                            *)
(***************************************************************************)
EXTENDS Naturals, FiniteSets

CONSTANTS
  Gates,       \* invocations that may run at the same time
  Versions,    \* of the spec and of each input
  First,       \* what is there at the beginning
  MaxRuns,     \* bound: invocations
  MaxChanges,  \* bound: edits of the spec and of the inputs
  MaxDeaths    \* bound: invocations that die

NoFile == "none"
Torn == "torn"

ASSUME GateAssumption ==
  /\ First \in Versions /\ {NoFile, Torn} \cap Versions = {}
  /\ {MaxRuns, MaxChanges, MaxDeaths} \subseteq Nat

VARIABLES
  spec,      \* the campaign spec file
  world,     \* the bytes of each input
  frozen,    \* resolved-manifest.json
  record,    \* the manifest that freeze.json names
  gate,      \* the invocations
  launched,  \* what controllers were started on
  runs, changes, deaths,
  rewritten  \* history: a manifest that was frozen has been replaced

inputs == <<spec, world>>
files == <<frozen, record>>
bounds == <<runs, changes, deaths>>
gateVars == <<inputs, files, gate, launched, bounds, rewritten>>

\* HEAD and the work tree of the source, scientific_config, parent, masks and
\* calibrations, and the orchestrator's own source.
Inputs == {"head", "tree", "config", "parent", "mask", "controller"}
Idle == [pc |-> "idle", mode |-> "none", spec |-> First, smoked |-> [x \in Inputs |-> First],
         since |-> [x \in Inputs |-> 0], late |-> {}]

GateInit ==
  /\ spec = First /\ world = [x \in Inputs |-> First]
  /\ frozen = NoFile /\ record = NoFile
  /\ gate = [g \in Gates |-> Idle]
  /\ launched = {}
  /\ runs = 0 /\ changes = 0 /\ deaths = 0 /\ rewritten = FALSE

-----------------------------------------------------------------------------
At(g, pc) == gate[g].pc = pc
Becomes(g, s) == gate' = [gate EXCEPT ![g] = s]
Goes(g, pc) == Becomes(g, [gate[g] EXCEPT !.pc = pc])
Stops(g) == Becomes(g, Idle)

\* source_audit: a clean checkout of the bound commit.
SourceClean == world["head"] = spec /\ world["tree"] = spec
\* validate_artifact and check_parent: the bytes that the spec binds.
ArtifactsMatch == \A x \in {"config", "parent", "mask"} : world[x] = spec

\* resolve_campaign; a campaign that does not resolve is only reported.
Begin(g, mode) ==
  /\ At(g, "idle") /\ runs < MaxRuns /\ SourceClean /\ ArtifactsMatch
  /\ runs' = runs + 1
  /\ Becomes(g, [Idle EXCEPT !.pc = IF mode = "preflight" THEN "freeze" ELSE "smoke",
                             !.mode = mode, !.spec = spec])
  /\ UNCHANGED <<inputs, files, launched, changes, deaths, rewritten>>

\* run_canary: the commands run on the bytes that are there now.
Smoke(g) ==
  /\ At(g, "smoke")
  /\ Becomes(g, [gate[g] EXCEPT !.smoked = world, !.pc = "freeze"])
  /\ UNCHANGED <<inputs, files, launched, bounds, rewritten>>

\* Mutant: whatever is frozen is taken for this manifest.
AnyManifest(g) == frozen # NoFile
SameManifest(g) == frozen = gate[g].spec

\* freeze: a manifest that is there must be this one.
Freeze(g) ==
  /\ At(g, "freeze")
  /\ IF frozen = NoFile THEN Goes(g, "write")
     ELSE IF SameManifest(g) THEN Goes(g, "record")
     ELSE Stops(g)
  /\ UNCHANGED <<inputs, files, launched, bounds, rewritten>>

\* path.write_bytes truncates the file before it writes it.
Truncate(g) ==
  /\ At(g, "write")
  /\ frozen' = Torn
  /\ rewritten' = (rewritten \/ frozen # NoFile)
  /\ Goes(g, "writing")
  /\ UNCHANGED <<inputs, record, launched, bounds>>

Write(g) ==
  /\ At(g, "writing")
  /\ frozen' = gate[g].spec
  /\ Goes(g, "record")
  /\ UNCHANGED <<inputs, record, launched, bounds, rewritten>>

\* freeze.json is replaced atomically; only a launch goes on.
Record(g) ==
  /\ At(g, "record")
  /\ record' = gate[g].spec
  /\ IF gate[g].mode = "launch" THEN Goes(g, "revalidate") ELSE Stops(g)
  /\ UNCHANGED <<inputs, frozen, launched, bounds, rewritten>>

\* Mutant: only the manifest is looked at again.
ManifestOnly(g) == frozen # Torn /\ frozen = record
\* revalidate_frozen: the manifest and what it binds, masks and the work tree
\* not; validate_exact_smoke_report compares the orchestrator with the smoke's.
Unchanged(g) ==
  /\ frozen # Torn /\ frozen = record
  /\ \A x \in {"head", "config", "parent"} : world[x] = frozen
  /\ world["controller"] = gate[g].smoked["controller"]

Revalidate(g) ==
  /\ At(g, "revalidate")
  /\ IF Unchanged(g) THEN Becomes(g, [gate[g] EXCEPT !.pc = "launch", !.late = {}]) ELSE Stops(g)
  /\ UNCHANGED <<inputs, files, launched, bounds, rewritten>>

\* Mutant: what the spec says by now is handed over.
SpecByNow == spec
HandedOver == frozen
Readable == HandedOver \notin {Torn, NoFile}

\* `orchestrate.py run` on the frozen path; on a torn file it fails.
Launch(g) ==
  /\ At(g, "launch")
  /\ launched' = launched \cup
       {l \in {[manifest |-> HandedOver, world |-> world, by |-> gate[g]]} : Readable}
  /\ Stops(g)
  /\ UNCHANGED <<inputs, files, bounds, rewritten>>

\* A check fails, a smoke times out, or the process dies.
Die(g) ==
  /\ ~At(g, "idle") /\ deaths < MaxDeaths
  /\ deaths' = deaths + 1
  /\ Stops(g)
  /\ UNCHANGED <<inputs, files, launched, runs, changes, rewritten>>

\* How often each of the inputs changed since an invocation began, and which
\* since it looked at them for the last time.
Noticed(changed) ==
  gate' = [g \in Gates |-> IF At(g, "idle") THEN gate[g] ELSE
    [gate[g] EXCEPT !.since = [x \in Inputs |-> IF x \in changed THEN @[x] + 1 ELSE @[x]],
                    !.late = @ \cup changed]]

\* Somebody edits an input.
Change(x) ==
  /\ changes < MaxChanges
  /\ changes' = changes + 1
  /\ \E v \in Versions \ {world[x]} : world' = [world EXCEPT ![x] = v]
  /\ Noticed({x})
  /\ UNCHANGED <<spec, files, launched, runs, deaths, rewritten>>

\* Somebody writes a new spec, and all that it binds.
Replan ==
  /\ changes < MaxChanges
  /\ changes' = changes + 1
  /\ spec' \in Versions \ {spec}
  /\ world' = [x \in Inputs |-> IF x = "controller" THEN world[x] ELSE spec']
  /\ Noticed(Inputs)
  /\ UNCHANGED <<files, launched, runs, deaths, rewritten>>

GateNext ==
  \/ \E g \in Gates :
       \/ \E mode \in {"preflight", "canary", "launch"} : Begin(g, mode)
       \/ Smoke(g) \/ Freeze(g) \/ Truncate(g) \/ Write(g) \/ Record(g)
       \/ Revalidate(g) \/ Launch(g) \/ Die(g)
  \/ \E x \in Inputs : Change(x)
  \/ Replan

GateSpec == GateInit /\ [][GateNext]_gateVars

-----------------------------------------------------------------------------
(* Properties                                                              *)

Invocation ==
  [pc : {"idle", "smoke", "freeze", "write", "writing", "record", "revalidate", "launch"},
   mode : {"none", "preflight", "canary", "launch"}, spec : Versions,
   smoked : [Inputs -> Versions], since : [Inputs -> Nat], late : SUBSET Inputs]

\* Each variable has its shape; a controller is started on a whole manifest.
GateTypeOK ==
  /\ spec \in Versions /\ world \in [Inputs -> Versions]
  /\ frozen \in Versions \cup {NoFile, Torn} /\ record \in Versions \cup {NoFile}
  /\ gate \in [Gates -> Invocation]
  /\ launched \subseteq [manifest : Versions, world : [Inputs -> Versions], by : Invocation]
  /\ runs \in Nat /\ changes \in Nat /\ deaths \in Nat /\ rewritten \in BOOLEAN

\* freeze.json names the manifest that is frozen, whatever died or was planned
\* anew in between, unless two invocations froze at the same time (freeze).
RecordIsFrozen == record # NoFile /\ ~rewritten => frozen = record

\* A controller is started on the manifest that this invocation resolved and
\* smoked, unless two invocations froze at the same time (gate_main hands over
\* the path, not the manifest).
LaunchedIsResolved == \A l \in launched : ~rewritten => l.manifest = l.by.spec

\* A change of the commit, a config, a parent or the orchestrator between the
\* resolution and the last look at them stops the launch: jobs start on what
\* was smoked, unless the input was changed back or is changed after that look.
Bound == {"head", "config", "parent", "controller"}
DriftStops(l, x) == l.by.since[x] <= 1 /\ x \notin l.by.late => l.world[x] = l.by.smoked[x]
DriftStopsLaunch == ~rewritten => \A l \in launched : \A x \in Bound : DriftStops(l, x)
=============================================================================
