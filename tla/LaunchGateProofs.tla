-------------------------- MODULE LaunchGateProofs ---------------------------
(***************************************************************************)
(* What the launch gate guarantees for any number of invocations, versions,*)
(* edits and deaths: the manifest it records and launches, and that drift  *)
(* of what is looked at twice stops the launch.                            *)
(***************************************************************************)
EXTENDS LaunchGate, TLAPS

-----------------------------------------------------------------------------
(* Types                                                                   *)

Pcs == {"idle", "smoke", "freeze", "write", "writing", "record", "revalidate", "launch"}

LEMMA IdleIsInvocation == Idle \in Invocation
  BY GateAssumption DEF Idle, Invocation, Inputs

LEMMA MovedIsInvocation ==
  ASSUME NEW i \in Invocation, NEW pc \in Pcs
  PROVE  [i EXCEPT !.pc = pc] \in Invocation
  BY DEF Invocation, Pcs

LEMMA NoticedIsInvocation ==
  ASSUME NEW i \in Invocation, NEW since \in [Inputs -> Nat], NEW late \in SUBSET Inputs
  PROVE  [i EXCEPT !.since = since, !.late = late] \in Invocation
  BY DEF Invocation

LEMMA BecomesKeepsShape ==
  ASSUME gate \in [Gates -> Invocation], NEW g \in Gates, NEW s \in Invocation, Becomes(g, s)
  PROVE  gate' \in [Gates -> Invocation]
  BY DEF Becomes

LEMMA GoesKeepsShape ==
  ASSUME gate \in [Gates -> Invocation], NEW g \in Gates, NEW pc \in Pcs, Goes(g, pc)
  PROVE  gate' \in [Gates -> Invocation]
  BY MovedIsInvocation, BecomesKeepsShape DEF Goes

LEMMA StopsKeepsShape ==
  ASSUME gate \in [Gates -> Invocation], NEW g \in Gates, Stops(g)
  PROVE  gate' \in [Gates -> Invocation]
  BY IdleIsInvocation, BecomesKeepsShape DEF Stops

LEMMA NoticedKeepsShape ==
  ASSUME gate \in [Gates -> Invocation], NEW changed \in SUBSET Inputs, Noticed(changed)
  PROVE  gate' \in [Gates -> Invocation]
<1>1. ASSUME NEW g \in Gates PROVE gate'[g] \in Invocation
  <2> DEFINE since == [x \in Inputs |-> IF x \in changed THEN gate[g].since[x] + 1
                                        ELSE gate[g].since[x]]
             late == gate[g].late \cup changed
  <2>1. gate[g] \in Invocation
    OBVIOUS
  <2>2. since \in [Inputs -> Nat] /\ late \in SUBSET Inputs
    BY <2>1 DEF Invocation
  <2>3. [gate[g] EXCEPT !.since = since, !.late = late] \in Invocation
    BY <2>1, <2>2, NoticedIsInvocation
  <2>4. gate'[g] = IF At(g, "idle") THEN gate[g]
                   ELSE [gate[g] EXCEPT !.since = since, !.late = late]
    BY DEF Noticed
  <2> QED BY <2>1, <2>3, <2>4
<1> QED BY <1>1 DEF Noticed

LEMMA GatesKeepShape ==
  ASSUME GateTypeOK, [GateNext]_gateVars
  PROVE  gate' \in [Gates -> Invocation]
<1>0. gate \in [Gates -> Invocation] /\ spec \in Versions /\ world \in [Inputs -> Versions]
  BY DEF GateTypeOK
<1>1. ASSUME NEW g \in Gates, NEW mode \in {"preflight", "canary", "launch"}, Begin(g, mode)
      PROVE  gate' \in [Gates -> Invocation]
  <2>1. [Idle EXCEPT !.pc = IF mode = "preflight" THEN "freeze" ELSE "smoke",
                     !.mode = mode, !.spec = spec] \in Invocation
    BY <1>0, IdleIsInvocation DEF Invocation
  <2> QED BY <1>0, <1>1, <2>1, BecomesKeepsShape DEF Begin
<1>2. ASSUME NEW g \in Gates, Smoke(g) PROVE gate' \in [Gates -> Invocation]
  <2>1. ASSUME NEW i \in Invocation
        PROVE  [i EXCEPT !.smoked = world, !.pc = "freeze"] \in Invocation
    BY <1>0 DEF Invocation
  <2> QED BY <1>0, <1>2, <2>1, BecomesKeepsShape DEF Smoke
<1>3. ASSUME NEW g \in Gates, Freeze(g) \/ Truncate(g) \/ Write(g) \/ Record(g) \/ Launch(g) \/ Die(g)
      PROVE  gate' \in [Gates -> Invocation]
  <2>1. (\E pc \in Pcs : Goes(g, pc)) \/ Stops(g)
    BY <1>3 DEF Freeze, Truncate, Write, Record, Launch, Die, Pcs
  <2> QED BY <1>0, <2>1, GoesKeepsShape, StopsKeepsShape
<1>4. ASSUME NEW g \in Gates, Revalidate(g) PROVE gate' \in [Gates -> Invocation]
  <2>1. ASSUME NEW i \in Invocation
        PROVE  [i EXCEPT !.pc = "launch", !.late = {}] \in Invocation
    BY DEF Invocation
  <2> QED BY <1>0, <1>4, <2>1, BecomesKeepsShape, StopsKeepsShape DEF Revalidate
<1>5. CASE Replan \/ \E x \in Inputs : Change(x)
  <2>1. \E changed \in SUBSET Inputs : Noticed(changed)
    BY <1>5 DEF Replan, Change
  <2> QED BY <1>0, <2>1, NoticedKeepsShape
<1>6. CASE UNCHANGED gateVars
  BY <1>0, <1>6 DEF gateVars
<1> QED BY <1>1, <1>2, <1>3, <1>4, <1>5, <1>6 DEF GateNext

LEMMA GateTypeInit == GateInit => GateTypeOK
<1> SUFFICES ASSUME GateInit PROVE GateTypeOK
  OBVIOUS
<1>1. spec \in Versions /\ world \in [Inputs -> Versions]
  BY GateAssumption DEF GateInit
<1>2. gate \in [Gates -> Invocation]
  BY IdleIsInvocation DEF GateInit
<1>3. rewritten \in BOOLEAN
  BY DEF GateInit
<1>4. runs \in Nat /\ changes \in Nat /\ deaths \in Nat
  BY DEF GateInit
<1> QED BY <1>1, <1>2, <1>3, <1>4 DEF GateInit, GateTypeOK

LEMMA GateTypeStep ==
  ASSUME GateTypeOK, [GateNext]_gateVars
  PROVE  GateTypeOK'
<1>1. gate' \in [Gates -> Invocation]
  BY GatesKeepShape
<1>2. spec' \in Versions
  BY DEF GateTypeOK, GateNext, gateVars, inputs, Begin, Smoke, Freeze, Truncate, Write, Record,
         Revalidate, Launch, Die, Change, Replan
<1>3. world' \in [Inputs -> Versions]
  BY DEF GateTypeOK, GateNext, gateVars, inputs, Begin, Smoke, Freeze, Truncate, Write, Record,
         Revalidate, Launch, Die, Change, Replan
<1>4. frozen' \in Versions \cup {NoFile, Torn} /\ record' \in Versions \cup {NoFile}
  <2>1. \A g \in Gates : gate[g].spec \in Versions
    BY DEF GateTypeOK, Invocation
  <2> QED BY <2>1 DEF GateTypeOK, GateNext, gateVars, files, Begin, Smoke, Freeze, Truncate,
                      Write, Record, Revalidate, Launch, Die, Change, Replan
<1>5. launched' \subseteq [manifest : Versions, world : [Inputs -> Versions], by : Invocation]
  <2>1. CASE UNCHANGED launched
    BY <2>1 DEF GateTypeOK
  <2>2. ASSUME NEW g \in Gates, Launch(g)
        PROVE  launched' \subseteq [manifest : Versions, world : [Inputs -> Versions], by : Invocation]
    <3>1. gate[g] \in Invocation /\ world \in [Inputs -> Versions]
      BY DEF GateTypeOK
    <3>2. Readable => HandedOver \in Versions
      BY DEF GateTypeOK, Readable, HandedOver
    <3>3. Readable => [manifest |-> HandedOver, world |-> world, by |-> gate[g]]
                        \in [manifest : Versions, world : [Inputs -> Versions], by : Invocation]
      BY <3>1, <3>2
    <3> QED BY <2>2, <3>3 DEF GateTypeOK, Launch
  <2> QED BY <2>1, <2>2 DEF GateNext, gateVars, Begin, Smoke, Freeze, Truncate, Write, Record,
                            Revalidate, Die, Change, Replan
<1>6. runs' \in Nat /\ changes' \in Nat /\ deaths' \in Nat
  <2>1. runs \in Nat /\ changes \in Nat /\ deaths \in Nat
    BY DEF GateTypeOK
  <2>2. \/ UNCHANGED bounds
        \/ runs' = runs + 1 /\ changes' = changes /\ deaths' = deaths
        \/ runs' = runs /\ changes' = changes + 1 /\ deaths' = deaths
        \/ runs' = runs /\ changes' = changes /\ deaths' = deaths + 1
    <3>1. CASE \E g \in Gates : \/ \E mode \in {"preflight", "canary", "launch"} : Begin(g, mode)
                                \/ Die(g)
      BY <3>1 DEF Begin, Die
    <3>2. CASE Replan \/ \E x \in Inputs : Change(x)
      BY <3>2 DEF Replan, Change
    <3>3. CASE \E g \in Gates : Smoke(g) \/ Freeze(g) \/ Truncate(g) \/ Write(g) \/ Record(g)
                              \/ Revalidate(g) \/ Launch(g)
      BY <3>3 DEF Smoke, Freeze, Truncate, Write, Record, Revalidate, Launch
    <3>4. CASE UNCHANGED gateVars
      BY <3>4 DEF gateVars
    <3> QED BY <3>1, <3>2, <3>3, <3>4 DEF GateNext
  <2> QED BY <2>1, <2>2 DEF bounds
<1>7. rewritten' \in BOOLEAN
  BY DEF GateTypeOK, GateNext, gateVars, Begin, Smoke, Freeze, Truncate, Write, Record,
         Revalidate, Launch, Die, Change, Replan
<1> QED BY <1>1, <1>2, <1>3, <1>4, <1>5, <1>6, <1>7 DEF GateTypeOK

\* Every variable keeps its shape, for all constants (GateTypeOK).
THEOREM GateTypeCorrect == GateSpec => []GateTypeOK
<1>1. GateInit => GateTypeOK
  BY GateTypeInit
<1>2. GateTypeOK /\ [GateNext]_gateVars => GateTypeOK'
  BY GateTypeStep
<1> QED BY <1>1, <1>2, PTL DEF GateSpec

-----------------------------------------------------------------------------
(* One writer                                                              *)

Named == {"record", "revalidate", "launch"}

\* RecordIsFrozen is not inductive: as long as no manifest was replaced, one
\* invocation at most writes it, and all that are past the write hold it.
OneWriter ==
  ~rewritten =>
    /\ \A g \in Gates : At(g, "writing") => frozen = Torn
    /\ \A g, h \in Gates : At(g, "writing") /\ At(h, "writing") => g = h
    /\ \A g \in Gates : gate[g].pc \in Named => frozen = gate[g].spec
    /\ RecordIsFrozen

LEMMA GoesDoes ==
  ASSUME gate \in [Gates -> Invocation], NEW g \in Gates, NEW pc \in Pcs, Goes(g, pc)
  PROVE  /\ gate'[g] = [gate[g] EXCEPT !.pc = pc]
         /\ gate'[g].pc = pc /\ gate'[g].spec = gate[g].spec /\ gate'[g].smoked = gate[g].smoked
         /\ gate'[g].since = gate[g].since /\ gate'[g].late = gate[g].late
         /\ \A h \in Gates \ {g} : gate'[h] = gate[h]
<1>1. gate[g] \in Invocation
  OBVIOUS
<1>2. gate'[g] = [gate[g] EXCEPT !.pc = pc] /\ \A h \in Gates \ {g} : gate'[h] = gate[h]
  BY DEF Goes, Becomes
<1> QED BY <1>1, <1>2 DEF Invocation

LEMMA StopsDoes ==
  ASSUME gate \in [Gates -> Invocation], NEW g \in Gates, Stops(g)
  PROVE  gate'[g].pc = "idle" /\ \A h \in Gates \ {g} : gate'[h] = gate[h]
  BY DEF Stops, Becomes, Idle

LEMMA NoticedDoes ==
  ASSUME gate \in [Gates -> Invocation], NEW changed \in SUBSET Inputs, Noticed(changed),
         NEW g \in Gates
  PROVE  /\ gate'[g].pc = gate[g].pc /\ gate'[g].spec = gate[g].spec
         /\ gate'[g].smoked = gate[g].smoked
<1>1. gate[g] \in Invocation
  OBVIOUS
<1> QED BY <1>1 DEF Noticed, Invocation

LEMMA OneWriterStep ==
  ASSUME GateTypeOK, OneWriter, [GateNext]_gateVars
  PROVE  OneWriter'
<1> USE DEF At, Named, RecordIsFrozen
<1>0. /\ gate \in [Gates -> Invocation] /\ \A g \in Gates : gate[g].spec \in Versions
      /\ record \in Versions \cup {NoFile} /\ NoFile \notin Versions /\ Torn \notin Versions
      /\ NoFile # Torn
  BY GateAssumption DEF GateTypeOK, Invocation, NoFile, Torn
<1> SUFFICES ASSUME ~rewritten' PROVE OneWriter'
  BY DEF OneWriter
<1>1. ASSUME NEW g \in Gates, NEW mode \in {"preflight", "canary", "launch"}, Begin(g, mode)
      PROVE  OneWriter'
  <2>1. gate'[g].pc \in {"freeze", "smoke"} /\ \A h \in Gates \ {g} : gate'[h] = gate[h]
    BY <1>0, <1>1 DEF Begin, Becomes, Idle
  <2> QED BY <1>1, <2>1 DEF OneWriter, Begin, files
<1>2. ASSUME NEW g \in Gates, Smoke(g) PROVE OneWriter'
  <2>1. gate'[g].pc = "freeze" /\ \A h \in Gates \ {g} : gate'[h] = gate[h]
    <3>1. gate[g] \in Invocation
      BY <1>0
    <3> QED BY <1>0, <1>2, <3>1 DEF Smoke, Becomes, Invocation
  <2> QED BY <1>2, <2>1 DEF OneWriter, Smoke, files
<1>3. ASSUME NEW g \in Gates, Freeze(g) PROVE OneWriter'
  <2>1. UNCHANGED <<frozen, record, rewritten>>
    BY <1>3 DEF Freeze, files
  <2>2. CASE Goes(g, "write")
    <3>1. gate'[g].pc = "write" /\ \A h \in Gates \ {g} : gate'[h] = gate[h]
      BY <1>0, <2>2, GoesDoes DEF Pcs
    <3> QED BY <2>1, <3>1 DEF OneWriter
  <2>3. CASE SameManifest(g) /\ Goes(g, "record")
    <3>1. /\ gate'[g].pc = "record" /\ gate'[g].spec = gate[g].spec
          /\ \A h \in Gates \ {g} : gate'[h] = gate[h]
      BY <1>0, <2>3, GoesDoes DEF Pcs
    <3> QED BY <2>1, <2>3, <3>1 DEF OneWriter, SameManifest
  <2>4. CASE Stops(g)
    BY <1>0, <2>1, <2>4, StopsDoes DEF OneWriter
  <2> QED BY <1>3, <2>2, <2>3, <2>4 DEF Freeze
<1>4. ASSUME NEW g \in Gates, Truncate(g) PROVE OneWriter'
  <2>1. frozen = NoFile /\ frozen' = Torn /\ record' = record /\ ~rewritten
    BY <1>4 DEF Truncate
  <2>2. record = NoFile /\ \A h \in Gates : gate[h].pc \notin Named \cup {"writing"}
    BY <1>0, <2>1 DEF OneWriter
  <2>3. gate'[g].pc = "writing" /\ \A h \in Gates \ {g} : gate'[h] = gate[h]
    BY <1>0, <1>4, GoesDoes DEF Truncate, Pcs
  <2> QED BY <2>1, <2>2, <2>3 DEF OneWriter
<1>5. ASSUME NEW g \in Gates, Write(g) PROVE OneWriter'
  <2>1. frozen' = gate[g].spec /\ record' = record /\ ~rewritten /\ At(g, "writing")
    BY <1>5 DEF Write
  <2>2. frozen = Torn /\ record = NoFile /\ \A h \in Gates : gate[h].pc \notin Named
    BY <1>0, <2>1 DEF OneWriter
  <2>3. /\ gate'[g].pc = "record" /\ gate'[g].spec = gate[g].spec
        /\ \A h \in Gates \ {g} : gate'[h] = gate[h]
    BY <1>0, <1>5, GoesDoes DEF Write, Pcs
  <2> QED BY <2>1, <2>2, <2>3 DEF OneWriter
<1>6. ASSUME NEW g \in Gates, Record(g) PROVE OneWriter'
  <2>1. frozen' = frozen /\ record' = gate[g].spec /\ ~rewritten /\ At(g, "record")
    BY <1>6 DEF Record
  <2>2. frozen = gate[g].spec
    BY <2>1 DEF OneWriter
  <2>3. CASE Goes(g, "revalidate")
    <3>1. /\ gate'[g].pc = "revalidate" /\ gate'[g].spec = gate[g].spec
          /\ \A h \in Gates \ {g} : gate'[h] = gate[h]
      BY <1>0, <2>3, GoesDoes DEF Pcs
    <3> QED BY <2>1, <2>2, <3>1 DEF OneWriter
  <2>4. CASE Stops(g)
    BY <1>0, <2>1, <2>2, <2>4, StopsDoes DEF OneWriter
  <2> QED BY <1>6, <2>3, <2>4 DEF Record
<1>7. ASSUME NEW g \in Gates, Revalidate(g) PROVE OneWriter'
  <2>1. UNCHANGED <<frozen, record, rewritten>> /\ At(g, "revalidate")
    BY <1>7 DEF Revalidate, files
  <2>2. CASE Becomes(g, [gate[g] EXCEPT !.pc = "launch", !.late = {}])
    <3>1. gate[g] \in Invocation
      BY <1>0
    <3>2. /\ gate'[g].pc = "launch" /\ gate'[g].spec = gate[g].spec
          /\ \A h \in Gates \ {g} : gate'[h] = gate[h]
      BY <1>0, <2>2, <3>1 DEF Becomes, Invocation
    <3> QED BY <2>1, <3>2 DEF OneWriter
  <2>3. CASE Stops(g)
    BY <1>0, <2>1, <2>3, StopsDoes DEF OneWriter
  <2> QED BY <1>7, <2>2, <2>3 DEF Revalidate
<1>8. ASSUME NEW g \in Gates, Launch(g) \/ Die(g) PROVE OneWriter'
  <2>1. UNCHANGED <<frozen, record, rewritten>> /\ Stops(g)
    BY <1>8 DEF Launch, Die, files
  <2> QED BY <1>0, <2>1, StopsDoes DEF OneWriter
<1>9. CASE Replan \/ \E x \in Inputs : Change(x)
  <2>1. UNCHANGED <<frozen, record, rewritten>> /\ \E changed \in SUBSET Inputs : Noticed(changed)
    BY <1>9 DEF Replan, Change, files
  <2>2. \A g \in Gates : gate'[g].pc = gate[g].pc /\ gate'[g].spec = gate[g].spec
    BY <1>0, <2>1, NoticedDoes
  <2> QED BY <2>1, <2>2 DEF OneWriter
<1>10. CASE UNCHANGED gateVars
  BY <1>10 DEF OneWriter, gateVars, files
<1> QED BY <1>1, <1>2, <1>3, <1>4, <1>5, <1>6, <1>7, <1>8, <1>9, <1>10 DEF GateNext

\* The manifest of a launch is the frozen one, which is this invocation's.
LEMMA LaunchedStep ==
  ASSUME GateTypeOK, OneWriter, LaunchedIsResolved, [GateNext]_gateVars
  PROVE  LaunchedIsResolved'
<1> SUFFICES ASSUME ~rewritten' PROVE LaunchedIsResolved'
  BY DEF LaunchedIsResolved
<1>1. ~rewritten
  BY DEF GateNext, gateVars, Begin, Smoke, Freeze, Truncate, Write, Record, Revalidate, Launch,
         Die, Change, Replan
<1>2. ASSUME NEW g \in Gates, Launch(g) PROVE LaunchedIsResolved'
  <2>1. frozen = gate[g].spec
    BY <1>1, <1>2 DEF Launch, OneWriter, At, Named
  <2> QED BY <1>1, <1>2, <2>1 DEF Launch, HandedOver, LaunchedIsResolved
<1>3. CASE UNCHANGED launched
  BY <1>1, <1>3 DEF LaunchedIsResolved
<1> QED BY <1>2, <1>3 DEF GateNext, gateVars, Begin, Smoke, Freeze, Truncate, Write, Record,
                          Revalidate, Die, Change, Replan

ManifestInv == GateTypeOK /\ OneWriter /\ LaunchedIsResolved

LEMMA ManifestInvCorrect == GateSpec => []ManifestInv
<1>1. GateInit => ManifestInv
  BY GateTypeInit DEF GateInit, ManifestInv, OneWriter, LaunchedIsResolved, RecordIsFrozen, At,
                      Named, Idle
<1>2. ManifestInv /\ [GateNext]_gateVars => ManifestInv'
  BY GateTypeStep, OneWriterStep, LaunchedStep DEF ManifestInv
<1> QED BY <1>1, <1>2, PTL DEF GateSpec

\* As long as no two invocations froze at the same time, freeze.json names the
\* manifest that is there, after any deaths, edits and new plans (freeze).
THEOREM RecordStaysFrozen == GateSpec => []RecordIsFrozen
<1>1. ManifestInv => RecordIsFrozen
  BY DEF ManifestInv, OneWriter, RecordIsFrozen
<1> QED BY <1>1, ManifestInvCorrect, PTL

\* The orchestrator is started on the manifest that this invocation resolved,
\* although it is handed a path (gate_main, freeze).
THEOREM LaunchesWhatWasResolved == GateSpec => []LaunchedIsResolved
<1>1. ManifestInv => LaunchedIsResolved
  BY DEF ManifestInv
<1> QED BY <1>1, ManifestInvCorrect, PTL

-----------------------------------------------------------------------------
(* Drift                                                                   *)

\* What an invocation knows of an input that did not change since it began, or
\* changed once: the latter is another version than the one it resolved.
Resolved == {"head", "config", "parent"}
Passed == {"freeze", "write", "writing", "record", "revalidate", "launch"}
Fresh(i) ==
  \A x \in Resolved :
    /\ i.since[x] = 0 => i.spec = spec /\ world[x] = i.spec
    /\ i.since[x] = 1 => world[x] # i.spec
    /\ i.since[x] = 0 /\ i.mode = "launch" /\ i.pc \in Passed => i.smoked[x] = i.spec
\* Only a launch gets to revalidation, and what it has compared stays so.
Looked(i) ==
  /\ i.pc \in {"revalidate", "launch"} => i.mode = "launch"
  /\ i.pc = "launch" /\ ~rewritten =>
       /\ \A x \in Resolved : x \notin i.late => i.since[x] # 1
       /\ "controller" \notin i.late => world["controller"] = i.smoked["controller"]
DriftInv == \A g \in Gates : gate[g].pc # "idle" => Fresh(gate[g]) /\ Looked(gate[g])

LEMMA InputsResolved == Resolved \subseteq Inputs /\ Bound = Resolved \cup {"controller"} /\ Bound \subseteq Inputs
  BY DEF Resolved, Inputs, Bound

\* An invocation that does nothing knows what it knew.
LEMMA OthersKnow ==
  ASSUME DriftInv, UNCHANGED <<spec, world>>, rewritten => rewritten',
         NEW h \in Gates, gate'[h] = gate[h]
  PROVE  gate'[h].pc # "idle" => Fresh(gate[h])' /\ Looked(gate[h])'
  BY DEF DriftInv, Fresh, Looked

LEMMA StopsKnowing ==
  ASSUME gate \in [Gates -> Invocation], DriftInv, UNCHANGED <<spec, world>>,
         rewritten => rewritten', NEW g \in Gates, Stops(g)
  PROVE  DriftInv'
  BY StopsDoes, OthersKnow DEF DriftInv

LEMMA GoesKnowing ==
  ASSUME gate \in [Gates -> Invocation], DriftInv, UNCHANGED <<spec, world>>,
         rewritten => rewritten', NEW g \in Gates, gate[g].pc \in Passed,
         NEW pc \in Passed \ {"launch"}, Goes(g, pc),
         pc = "revalidate" => gate[g].mode = "launch"
  PROVE  DriftInv'
<1>1. gate[g] \in Invocation /\ pc \in Pcs
  BY DEF Passed, Pcs
<1>2. gate'[g].mode = gate[g].mode
  <2>1. gate'[g] = [gate[g] EXCEPT !.pc = pc]
    BY <1>1, GoesDoes
  <2> QED BY <1>1, <2>1 DEF Invocation
<1>3. /\ gate'[g].pc = pc /\ gate'[g].spec = gate[g].spec /\ gate'[g].smoked = gate[g].smoked
      /\ gate'[g].since = gate[g].since
  BY <1>1, GoesDoes
<1>4. Fresh(gate[g]) /\ pc # "launch"
  BY DEF DriftInv, Passed
<1>5. Fresh(gate[g])'
  BY <1>2, <1>3, <1>4 DEF Fresh
<1>6. Looked(gate[g])'
  BY <1>2, <1>3, <1>4 DEF Looked
<1>7. ASSUME NEW h \in Gates \ {g}, gate'[h].pc # "idle" PROVE Fresh(gate[h])' /\ Looked(gate[h])'
  <2>1. gate'[h] = gate[h]
    BY <1>1, GoesDoes
  <2> QED BY <1>7, <2>1, OthersKnow
<1> QED BY <1>5, <1>6, <1>7 DEF DriftInv

LEMMA BeginDrift ==
  ASSUME gate \in [Gates -> Invocation], DriftInv, NEW g \in Gates,
         NEW mode \in {"preflight", "canary", "launch"}, Begin(g, mode)
  PROVE  DriftInv'
<1>1. gate'[g] = [Idle EXCEPT !.pc = IF mode = "preflight" THEN "freeze" ELSE "smoke",
                              !.mode = mode, !.spec = spec]
  BY DEF Begin, Becomes
<1>2. /\ gate'[g].pc = (IF mode = "preflight" THEN "freeze" ELSE "smoke")
      /\ gate'[g].mode = mode /\ gate'[g].spec = spec
      /\ \A x \in Resolved : gate'[g].since[x] = 0
  BY <1>1, InputsResolved DEF Idle
<1>3. \A x \in Resolved : world[x] = spec
  BY DEF Begin, SourceClean, ArtifactsMatch, Resolved
<1>4. UNCHANGED <<spec, world, rewritten>> /\ \A h \in Gates \ {g} : gate'[h] = gate[h]
  BY DEF Begin, Becomes, inputs
<1>5. Fresh(gate[g])' /\ Looked(gate[g])'
  BY <1>2, <1>3, <1>4 DEF Fresh, Looked, Passed
<1> QED BY <1>4, <1>5, OthersKnow DEF DriftInv

LEMMA SmokeDrift ==
  ASSUME gate \in [Gates -> Invocation], DriftInv, NEW g \in Gates, Smoke(g)
  PROVE  DriftInv'
<1>1. gate[g] \in Invocation /\ gate[g].pc = "smoke"
  BY DEF Smoke, At
<1>2. UNCHANGED <<spec, world, rewritten>> /\ \A h \in Gates \ {g} : gate'[h] = gate[h]
  BY DEF Smoke, Becomes, inputs
<1>3. /\ gate'[g].pc = "freeze" /\ gate'[g].smoked = world /\ gate'[g].spec = gate[g].spec
      /\ gate'[g].since = gate[g].since
  BY <1>1 DEF Smoke, Becomes, Invocation
<1>4. Fresh(gate[g])
  BY <1>1 DEF DriftInv
<1>5. Fresh(gate[g])' /\ Looked(gate[g])'
  BY <1>2, <1>3, <1>4 DEF Fresh, Looked
<1> QED BY <1>2, <1>5, OthersKnow DEF DriftInv

\* The comparison: an input that changed once since the invocation resolved it
\* is not what the manifest binds.
LEMMA RevalidateDrift ==
  ASSUME GateTypeOK, OneWriter, DriftInv, NEW g \in Gates, Revalidate(g)
  PROVE  DriftInv'
<1>1. gate \in [Gates -> Invocation] /\ gate[g] \in Invocation /\ gate[g].pc = "revalidate"
  BY DEF GateTypeOK, Revalidate, At
<1>2. UNCHANGED <<spec, world, rewritten>>
  BY DEF Revalidate, inputs
<1>3. CASE Unchanged(g) /\ Becomes(g, [gate[g] EXCEPT !.pc = "launch", !.late = {}])
  <2>1. /\ gate'[g].pc = "launch" /\ gate'[g].mode = gate[g].mode
        /\ gate'[g].smoked = gate[g].smoked /\ gate'[g].spec = gate[g].spec
        /\ gate'[g].since = gate[g].since
        /\ \A h \in Gates \ {g} : gate'[h] = gate[h]
    BY <1>1, <1>3 DEF Becomes, Invocation
  <2>2. Fresh(gate[g]) /\ gate[g].mode = "launch"
    BY <1>1 DEF DriftInv, Looked
  <2>3. Fresh(gate[g])'
    BY <1>1, <1>2, <2>1, <2>2 DEF Fresh, Passed
  <2>4. ~rewritten => frozen = gate[g].spec
    BY <1>1 DEF OneWriter, Named
  <2>5. ~rewritten => \A x \in Resolved : world[x] = gate[g].spec
    BY <1>3, <2>4 DEF Unchanged, Resolved
  <2>6. Looked(gate[g])'
    BY <1>2, <1>3, <2>1, <2>2, <2>5 DEF Looked, Fresh, Unchanged
  <2> QED BY <1>2, <2>1, <2>3, <2>6, OthersKnow DEF DriftInv
<1>4. CASE Stops(g)
  BY <1>1, <1>2, <1>4, StopsKnowing
<1> QED BY <1>3, <1>4 DEF Revalidate

\* What an edit of the inputs in changed does to an invocation.
LEMMA NoticedKnows ==
  ASSUME gate \in [Gates -> Invocation], NEW changed \in SUBSET Inputs, Noticed(changed),
         NEW g \in Gates, gate'[g].pc # "idle"
  PROVE  /\ gate[g].pc # "idle" /\ gate'[g].pc = gate[g].pc /\ gate'[g].mode = gate[g].mode
         /\ gate'[g].spec = gate[g].spec /\ gate'[g].smoked = gate[g].smoked
         /\ gate'[g].late = gate[g].late \cup changed
         /\ \A x \in Inputs : gate'[g].since[x] = IF x \in changed THEN gate[g].since[x] + 1
                                                 ELSE gate[g].since[x]
<1>1. gate[g] \in Invocation /\ gate[g].pc # "idle"
  BY DEF Noticed, At
<1>2. gate'[g] = [gate[g] EXCEPT
        !.since = [x \in Inputs |-> IF x \in changed THEN gate[g].since[x] + 1 ELSE gate[g].since[x]],
        !.late = gate[g].late \cup changed]
  BY <1>1 DEF Noticed, At
<1> QED BY <1>1, <1>2 DEF Invocation

LEMMA ChangeDrift ==
  ASSUME GateTypeOK, DriftInv, NEW x \in Inputs, Change(x)
  PROVE  DriftInv'
<1> SUFFICES ASSUME NEW g \in Gates, gate'[g].pc # "idle"
             PROVE  Fresh(gate[g])' /\ Looked(gate[g])'
  BY DEF DriftInv
<1>1. /\ gate \in [Gates -> Invocation] /\ world \in [Inputs -> Versions]
      /\ \A y \in Inputs : gate[g].since[y] \in Nat
  BY DEF GateTypeOK, Invocation
<1>2. /\ gate[g].pc # "idle" /\ gate'[g].pc = gate[g].pc /\ gate'[g].mode = gate[g].mode
      /\ gate'[g].spec = gate[g].spec /\ gate'[g].smoked = gate[g].smoked
      /\ gate'[g].late = gate[g].late \cup {x}
      /\ \A y \in Inputs : gate'[g].since[y] = IF y = x THEN gate[g].since[y] + 1
                                              ELSE gate[g].since[y]
  BY <1>1, NoticedKnows DEF Change
<1>3. /\ spec' = spec /\ rewritten' = rewritten /\ world'[x] # world[x]
      /\ \A y \in Inputs \ {x} : world'[y] = world[y]
  BY <1>1 DEF Change
<1>4. Fresh(gate[g]) /\ Looked(gate[g])
  BY <1>2 DEF DriftInv
<1>5. Fresh(gate[g])'
  BY <1>1, <1>2, <1>3, <1>4, InputsResolved DEF Fresh
<1>6. Looked(gate[g])'
  BY <1>1, <1>2, <1>3, <1>4, InputsResolved DEF Looked
<1> QED BY <1>5, <1>6

LEMMA ReplanDrift ==
  ASSUME GateTypeOK, DriftInv, Replan
  PROVE  DriftInv'
<1> SUFFICES ASSUME NEW g \in Gates, gate'[g].pc # "idle"
             PROVE  Fresh(gate[g])' /\ Looked(gate[g])'
  BY DEF DriftInv
<1>1. /\ gate \in [Gates -> Invocation] /\ world \in [Inputs -> Versions]
      /\ \A y \in Inputs : gate[g].since[y] \in Nat
  BY DEF GateTypeOK, Invocation
<1>2. /\ gate[g].pc # "idle" /\ gate'[g].pc = gate[g].pc /\ gate'[g].mode = gate[g].mode
      /\ gate'[g].spec = gate[g].spec
      /\ gate'[g].late = gate[g].late \cup Inputs
      /\ \A y \in Inputs : gate'[g].since[y] = gate[g].since[y] + 1
  BY <1>1, NoticedKnows DEF Replan
<1>3. spec' # spec /\ \A y \in Resolved : world'[y] = spec'
  BY InputsResolved DEF Replan, Resolved
<1>4. Fresh(gate[g]) /\ Looked(gate[g])
  BY <1>2 DEF DriftInv
<1>5. Fresh(gate[g])'
  BY <1>1, <1>2, <1>3, <1>4, InputsResolved DEF Fresh
<1>6. Looked(gate[g])'
  BY <1>2, <1>4, InputsResolved DEF Looked
<1> QED BY <1>5, <1>6

LEMMA DriftStep ==
  ASSUME ManifestInv, DriftInv, [GateNext]_gateVars
  PROVE  DriftInv'
<1>0. GateTypeOK /\ OneWriter /\ gate \in [Gates -> Invocation]
  BY DEF ManifestInv, GateTypeOK
<1>1. ASSUME NEW g \in Gates, Freeze(g) PROVE DriftInv'
  <2>1. UNCHANGED <<spec, world, rewritten>>
    BY <1>1 DEF Freeze, inputs
  <2>2. gate[g].pc \in Passed /\ {"write", "record"} \subseteq Passed \ {"launch"}
    BY <1>1 DEF Freeze, At, Passed
  <2> QED BY <1>0, <1>1, <2>1, <2>2, GoesKnowing, StopsKnowing DEF Freeze
<1>2. ASSUME NEW g \in Gates, Truncate(g) \/ Write(g) PROVE DriftInv'
  <2>1. UNCHANGED <<spec, world>>
    BY <1>2 DEF Truncate, Write, inputs
  <2>2. rewritten => rewritten'
    BY <1>2 DEF Truncate, Write
  <2>3. gate[g].pc \in Passed /\ {"writing", "record"} \subseteq Passed \ {"launch"}
    BY <1>2 DEF Truncate, Write, At, Passed
  <2> QED BY <1>0, <1>2, <2>1, <2>2, <2>3, GoesKnowing DEF Truncate, Write
<1>3. ASSUME NEW g \in Gates, Record(g) PROVE DriftInv'
  <2>1. UNCHANGED <<spec, world, rewritten>>
    BY <1>3 DEF Record, inputs
  <2>2. gate[g].pc \in Passed /\ "revalidate" \in Passed \ {"launch"}
    BY <1>3 DEF Record, At, Passed
  <2> QED BY <1>0, <1>3, <2>1, <2>2, GoesKnowing, StopsKnowing DEF Record
<1>4. ASSUME NEW g \in Gates, Launch(g) \/ Die(g) PROVE DriftInv'
  <2>1. UNCHANGED <<spec, world, rewritten>> /\ Stops(g)
    BY <1>4 DEF Launch, Die, inputs
  <2> QED BY <1>0, <2>1, StopsKnowing
<1>5. CASE UNCHANGED gateVars
  BY <1>5 DEF gateVars, inputs, DriftInv, Fresh, Looked
<1> QED BY <1>0, <1>1, <1>2, <1>3, <1>4, <1>5, BeginDrift, SmokeDrift, RevalidateDrift,
           ChangeDrift, ReplanDrift DEF GateNext

\* What is launched was smoked, as far as the last look can tell.
LEMMA LaunchedDrift ==
  ASSUME ManifestInv, DriftInv, DriftStopsLaunch, [GateNext]_gateVars
  PROVE  DriftStopsLaunch'
<1> SUFFICES ASSUME ~rewritten' PROVE DriftStopsLaunch'
  BY DEF DriftStopsLaunch
<1>1. ~rewritten
  BY DEF GateNext, gateVars, Begin, Smoke, Freeze, Truncate, Write, Record, Revalidate, Launch,
         Die, Change, Replan
<1>2. ASSUME NEW g \in Gates, Launch(g) PROVE DriftStopsLaunch'
  <2> DEFINE i == gate[g]
             l == [manifest |-> HandedOver, world |-> world, by |-> i]
  <2>1. i.pc = "launch" /\ Fresh(i) /\ Looked(i)
    BY <1>2 DEF Launch, At, DriftInv
  <2>0. i.mode = "launch" /\ \A x \in Resolved : i.since[x] \in Nat
    <3>1. i \in Invocation
      BY DEF ManifestInv, GateTypeOK
    <3> QED BY <2>1, <3>1, InputsResolved DEF Looked, Invocation
  <2>2. ASSUME NEW x \in Resolved, i.since[x] <= 1, x \notin i.late PROVE world[x] = i.smoked[x]
    BY <1>1, <2>0, <2>1, <2>2 DEF Fresh, Looked, Passed
  <2>3. "controller" \notin i.late => world["controller"] = i.smoked["controller"]
    BY <1>1, <2>1 DEF Looked
  <2>4. \A x \in Bound : DriftStops(l, x)
    BY <2>2, <2>3, InputsResolved DEF DriftStops
  <2> HIDE DEF l
  <2>5. launched' \subseteq launched \cup {l}
    BY <1>2 DEF Launch, l
  <2> QED BY <1>1, <2>4, <2>5 DEF DriftStopsLaunch
<1>3. CASE UNCHANGED launched
  BY <1>1, <1>3 DEF DriftStopsLaunch
<1> QED BY <1>2, <1>3 DEF GateNext, gateVars, Begin, Smoke, Freeze, Truncate, Write, Record,
                          Revalidate, Die, Change, Replan

\* A change of the commit, a config, a parent or the orchestrator after the
\* resolution stops the launch, unless it is undone or comes after the last
\* look (revalidate_frozen, validate_exact_smoke_report).
THEOREM DriftIsNoticed == GateSpec => []DriftStopsLaunch
<1>1. GateInit => DriftInv /\ DriftStopsLaunch
  BY DEF GateInit, DriftInv, DriftStopsLaunch, Idle
<1>2. ManifestInv /\ DriftInv /\ DriftStopsLaunch /\ [GateNext]_gateVars
        => (DriftInv /\ DriftStopsLaunch)'
  BY DriftStep, LaunchedDrift
<1> QED BY <1>1, <1>2, ManifestInvCorrect, PTL DEF GateSpec
=============================================================================
