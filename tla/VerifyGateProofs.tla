-------------------------- MODULE VerifyGateProofs ---------------------------
(***************************************************************************)
(* GPU tests of living invocations never share a device under one name,    *)
(* the pass cache never stands for another tree than the one it was        *)
(* recorded on, and so a green run speaks for the tests it selected and    *)
(* for those whose selection rules are right: for any number of            *)
(* invocations, files, tests, edits, commits and kills.                    *)
(***************************************************************************)
EXTENDS VerifyGate, TLAPS

-----------------------------------------------------------------------------
(* Types                                                                   *)

LEMMA KeyIsKey ==
  ASSUME NEW S \in SUBSET Paths, NEW k \in [S -> Versions]
  PROVE  k \in Keys
  BY DEF Keys

LEMMA KeyHasDomain ==
  ASSUME NEW k \in Keys
  PROVE  DOMAIN k \subseteq Paths /\ k \in [DOMAIN k -> Versions]
  BY DEF Keys

LEMMA NothingIsKey == Nothing \in Keys
<1>1. Nothing \in [{} -> Versions]
  BY DEF Nothing
<1> QED BY <1>1, KeyIsKey

LEMMA IdleIsInvocation == Idle \in Invocation
  BY NothingIsKey DEF Idle, Invocation

LEMMA ContentsIsKey ==
  ASSUME work \in Trees, gate \in [Gates -> Invocation], NEW g \in Gates
  PROVE  /\ Contents(g) \in Keys /\ DOMAIN Contents(g) = gate[g].relevant
         /\ \A p \in gate[g].relevant : Contents(g)[p] = work[p]
<1>1. gate[g].relevant \subseteq Paths
  BY DEF Invocation
<1>2. Contents(g) \in [gate[g].relevant -> Versions]
  BY <1>1 DEF Contents, Trees
<1> QED BY <1>1, <1>2, KeyIsKey DEF Contents

LEMMA BecomesDoes ==
  ASSUME gate \in [Gates -> Invocation], NEW g \in Gates, NEW s \in Invocation, Becomes(g, s)
  PROVE  /\ gate' \in [Gates -> Invocation] /\ gate'[g] = s
         /\ \A h \in Gates \ {g} : gate'[h] = gate[h]
  BY DEF Becomes

\* What an invocation becomes with each of its steps.
LEMMA EndedIsInvocation ==
  ASSUME NEW i \in Invocation, NEW pc \in Ended
  PROVE  [Idle EXCEPT !.pc = pc, !.mode = i.mode, !.touched = i.touched] \in Invocation
  BY IdleIsInvocation DEF Invocation, Ended

LEMMA InvokedIsInvocation ==
  ASSUME NEW mode \in {"changed", "broad", "failed"}, NEW force \in BOOLEAN,
         NEW todo \in SUBSET Commands, NEW relevant \in SUBSET Paths
  PROVE  [Idle EXCEPT !.pc = "next", !.mode = mode, !.force = force, !.todo = todo,
                      !.relevant = relevant] \in Invocation
  BY IdleIsInvocation DEF Invocation

LEMMA SkippedIsInvocation ==
  ASSUME NEW i \in Invocation, NEW c
  PROVE  [i EXCEPT !.todo = @ \ {c}] \in Invocation
<1>1. i.todo \ {c} \in SUBSET Commands
  BY DEF Invocation
<1> QED BY <1>1 DEF Invocation

LEMMA ChosenIsInvocation ==
  ASSUME NEW i \in Invocation, NEW c \in Commands, NEW k \in Keys
  PROVE  [i EXCEPT !.todo = @ \ {c}, !.command = c, !.key = k, !.pc = "lock"] \in Invocation
<1>1. i.todo \ {c} \in SUBSET Commands
  BY DEF Invocation
<1> QED BY <1>1 DEF Invocation

LEMMA LockedIsInvocation ==
  ASSUME NEW i \in Invocation, NEW d \in Nat
  PROVE  [i EXCEPT !.held = @ \cup {d}] \in Invocation
<1>1. i.held \cup {d} \in SUBSET Nat
  BY DEF Invocation
<1> QED BY <1>1 DEF Invocation

LEMMA StartedIsInvocation ==
  ASSUME NEW i \in Invocation
  PROVE  [i EXCEPT !.pc = "run"] \in Invocation
  BY DEF Invocation

LEMMA RunIsInvocation ==
  ASSUME NEW i \in Invocation, NEW passed \in BOOLEAN
  PROVE  [i EXCEPT !.passed = passed, !.held = {}, !.pc = "record"] \in Invocation
  BY DEF Invocation

LEMMA RecordedIsInvocation ==
  ASSUME NEW i \in Invocation
  PROVE  [i EXCEPT !.pc = "next", !.command = "none", !.key = Nothing, !.passed = FALSE,
                   !.slips = FALSE] \in Invocation
  BY NothingIsKey DEF Invocation

LEMMA TouchedIsInvocation ==
  ASSUME NEW i \in Invocation, NEW slips \in BOOLEAN
  PROVE  [i EXCEPT !.touched = TRUE, !.slips = slips] \in Invocation
  BY DEF Invocation

-----------------------------------------------------------------------------
(* What each step does to the invocations                                  *)

Shaped == work \in Trees /\ cache \in Seq(Result) /\ gate \in [Gates -> Invocation]
Others(g) == gate' \in [Gates -> Invocation] /\ \A h \in Gates \ {g} : gate'[h] = gate[h]

LEMMA SelectionIsTests == \A changed \in SUBSET Paths : Selected(changed) \subseteq Tests
  BY VerifyAssumption DEF Selected

LEMMA TodoIsCommands ==
  ASSUME cache \in Seq(Result), NEW mode
  PROVE  Todo(mode) \subseteq Commands
<1>1. Selected(Changed) \subseteq Commands
  BY SelectionIsTests DEF Changed, Commands
<1>2. FailedCommands \subseteq Commands
  <2>1. \A i \in DOMAIN cache : cache[i] \in Result
    OBVIOUS
  <2>2. \A i \in DOMAIN cache : cache[i].command \in Commands
    BY <2>1 DEF Result
  <2> QED BY <2>2 DEF FailedCommands
<1>3. {Broad} \subseteq Commands
  BY DEF Commands
<1> QED BY <1>1, <1>2, <1>3 DEF Todo

LEMMA RelevantIsPaths ==
  ASSUME NEW mode
  PROVE  Relevant(mode) \subseteq Paths
<1>1. Changed \subseteq Paths
  BY DEF Changed
<1>2. Selected(Changed) \subseteq Paths
  BY <1>1, SelectionIsTests, VerifyAssumption
<1> QED BY <1>1, <1>2 DEF Relevant

LEMMA InvokeDoes ==
  ASSUME Shaped, NEW g \in Gates, NEW mode \in {"changed", "broad", "failed"},
         NEW force \in BOOLEAN, Invoke(g, mode, force)
  PROVE  /\ Others(g)
         /\ gate'[g].pc = "next" /\ gate'[g].mode = mode /\ gate'[g].relevant = Relevant(mode)
         /\ gate'[g].held = {} /\ gate'[g].touched = FALSE
<1> DEFINE i == [Idle EXCEPT !.pc = "next", !.mode = mode, !.force = force, !.todo = Todo(mode),
                             !.relevant = Relevant(mode)]
<1>1. i \in Invocation
  BY TodoIsCommands, RelevantIsPaths, InvokedIsInvocation DEF Shaped
<1>2. i.pc = "next" /\ i.mode = mode /\ i.relevant = Relevant(mode) /\ i.held = {}
      /\ i.touched = FALSE
  BY DEF Idle
<1>3. Becomes(g, i)
  BY DEF Invoke
<1> HIDE DEF i
<1> QED BY <1>1, <1>2, <1>3, BecomesDoes DEF Shaped, Others

LEMMA NextDoes ==
  ASSUME Shaped, NEW g \in Gates, NextCommand(g)
  PROVE  /\ Others(g) /\ gate[g].pc = "next"
         /\ gate'[g].mode = gate[g].mode /\ gate'[g].relevant = gate[g].relevant
         /\ gate'[g].held = gate[g].held /\ gate'[g].touched = gate[g].touched
         /\ \/ gate'[g].pc = "next"
            \/ gate'[g].pc = "lock" /\ gate'[g].key = Contents(g) /\ gate'[g].command \in Commands
<1>1. PICK c \in gate[g].todo :
        Becomes(g, IF Skips(g, c) THEN [gate[g] EXCEPT !.todo = @ \ {c}]
                   ELSE [gate[g] EXCEPT !.todo = @ \ {c}, !.command = c, !.key = Contents(g),
                                        !.pc = "lock"])
  BY DEF NextCommand
<1>2. gate[g] \in Invocation /\ gate[g].pc = "next" /\ c \in Commands /\ Contents(g) \in Keys
  BY ContentsIsKey DEF NextCommand, At, Shaped, Invocation
<1>3. CASE Skips(g, c)
  <2>1. [gate[g] EXCEPT !.todo = @ \ {c}] \in Invocation
    BY <1>2, SkippedIsInvocation
  <2>2. Others(g) /\ gate'[g] = [gate[g] EXCEPT !.todo = @ \ {c}]
    BY <1>1, <1>3, <2>1, BecomesDoes DEF Shaped, Others
  <2> QED BY <1>2, <2>2 DEF Invocation
<1>4. CASE ~Skips(g, c)
  <2> DEFINE i == [gate[g] EXCEPT !.todo = @ \ {c}, !.command = c, !.key = Contents(g), !.pc = "lock"]
  <2>1. i \in Invocation
    BY <1>2, ChosenIsInvocation
  <2>2. Others(g) /\ gate'[g] = i
    BY <1>1, <1>4, <2>1, BecomesDoes DEF Shaped, Others
  <2> QED BY <1>2, <2>2 DEF Invocation
<1> QED BY <1>3, <1>4

LEMMA LockIsNat ==
  ASSUME NEW g \in Gates, NEW d \in Needed(g)
  PROVE  d \in Nat
<1>1. PICK i \in DOMAIN Identities[g] : d = Identities[g][i]
  BY DEF Needed, Locks
<1>2. Identities[g] \in Seq(Nat)
  BY VerifyAssumption
<1> QED BY <1>1, <1>2

LEMMA LockDoes ==
  ASSUME Shaped, NEW g \in Gates, Lock(g)
  PROVE  /\ Others(g) /\ gate[g].pc = "lock" /\ gate'[g].pc = "lock"
         /\ gate'[g].mode = gate[g].mode /\ gate'[g].relevant = gate[g].relevant
         /\ gate'[g].touched = gate[g].touched /\ gate'[g].slips = gate[g].slips
         /\ gate'[g].key = gate[g].key /\ gate'[g].command = gate[g].command
         /\ \E d \in Nat : Free(d) /\ gate'[g].held = gate[g].held \cup {d}
<1>1. PICK d \in Needed(g) \ gate[g].held :
        Free(d) /\ Becomes(g, [gate[g] EXCEPT !.held = @ \cup {d}])
  BY DEF Lock
<1>2. gate[g] \in Invocation /\ d \in Nat
  BY LockIsNat DEF Shaped
<1>3. [gate[g] EXCEPT !.held = @ \cup {d}] \in Invocation
  BY <1>2, LockedIsInvocation
<1>4. Others(g) /\ gate'[g] = [gate[g] EXCEPT !.held = @ \cup {d}]
  BY <1>1, <1>3, BecomesDoes DEF Shaped, Others
<1> QED BY <1>1, <1>2, <1>4 DEF Lock, At, Invocation

LEMMA StartDoes ==
  ASSUME Shaped, NEW g \in Gates, Start(g)
  PROVE  /\ Others(g) /\ gate[g].pc = "lock" /\ gate'[g].pc = "run"
         /\ gate'[g].mode = gate[g].mode /\ gate'[g].relevant = gate[g].relevant
         /\ gate'[g].touched = gate[g].touched /\ gate'[g].slips = gate[g].slips
         /\ gate'[g].key = gate[g].key /\ gate'[g].command = gate[g].command
         /\ gate'[g].held = gate[g].held /\ gate'[g].todo = gate[g].todo
         /\ Needed(g) \subseteq gate[g].held
<1>1. gate[g] \in Invocation
  BY DEF Shaped
<1>2. [gate[g] EXCEPT !.pc = "run"] \in Invocation
  BY <1>1, StartedIsInvocation
<1>3. Others(g) /\ gate'[g] = [gate[g] EXCEPT !.pc = "run"]
  BY <1>2, BecomesDoes DEF Shaped, Others, Start
<1> QED BY <1>1, <1>3 DEF Start, At, Invocation

LEMMA RunDoes ==
  ASSUME Shaped, NEW g \in Gates, Run(g)
  PROVE  /\ Others(g) /\ gate[g].pc = "run" /\ gate'[g].pc = "record"
         /\ gate'[g].mode = gate[g].mode /\ gate'[g].relevant = gate[g].relevant
         /\ gate'[g].touched = gate[g].touched /\ gate'[g].slips = gate[g].slips
         /\ gate'[g].key = gate[g].key /\ gate'[g].command = gate[g].command
         /\ gate'[g].held = {} /\ gate'[g].passed = (work \in Good[gate[g].command])
<1> DEFINE passed == work \in Good[gate[g].command]
           i == [gate[g] EXCEPT !.passed = passed, !.held = {}, !.pc = "record"]
<1>1. gate[g] \in Invocation /\ passed \in BOOLEAN
  BY DEF Shaped
<1>2. i \in Invocation
  BY <1>1, RunIsInvocation
<1>3. Others(g) /\ gate'[g] = i
  BY <1>2, BecomesDoes DEF Shaped, Others, Run
<1> HIDE DEF passed
<1>4. gate'[g].passed = passed
  BY <1>1, <1>3 DEF Invocation
<1> QED BY <1>1, <1>3, <1>4 DEF Run, At, Invocation, passed

LEMMA RecordDoes ==
  ASSUME Shaped, NEW g \in Gates, Record(g)
  PROVE  /\ Others(g) /\ gate[g].pc = "record" /\ gate'[g].held \subseteq gate[g].held
         /\ \/ gate'[g].pc \in Ended
            \/ /\ gate'[g].pc = "next" /\ gate'[g].mode = gate[g].mode
               /\ gate'[g].relevant = gate[g].relevant /\ gate'[g].touched = gate[g].touched
<1>1. gate[g] \in Invocation /\ gate[g].pc = "record"
  BY DEF Record, At, Shaped
<1>2. CASE Ends(g, "failed")
  <2> DEFINE i == [Idle EXCEPT !.pc = "failed", !.mode = gate[g].mode, !.touched = gate[g].touched]
  <2>1. i \in Invocation
    BY <1>1, EndedIsInvocation DEF Ended
  <2>2. Others(g) /\ gate'[g] = i
    BY <1>2, <2>1, BecomesDoes DEF Shaped, Others, Ends
  <2> QED BY <1>1, <2>2 DEF Idle, Ended
<1>3. CASE Becomes(g, [gate[g] EXCEPT !.pc = "next", !.command = "none", !.key = Nothing,
                                      !.passed = FALSE, !.slips = FALSE])
  <2> DEFINE i == [gate[g] EXCEPT !.pc = "next", !.command = "none", !.key = Nothing,
                                  !.passed = FALSE, !.slips = FALSE]
  <2>1. i \in Invocation
    BY <1>1, RecordedIsInvocation
  <2>2. Others(g) /\ gate'[g] = i
    BY <1>3, <2>1, BecomesDoes DEF Shaped, Others
  <2> QED BY <1>1, <2>2 DEF Invocation
<1> QED BY <1>2, <1>3 DEF Record

LEMMA DoneDoes ==
  ASSUME Shaped, NEW g \in Gates, Done(g) \/ Kill(g)
  PROVE  Others(g) /\ gate'[g].pc \in Ended /\ gate'[g].held = {}
<1>1. CASE Done(g)
  <2> DEFINE i == [Idle EXCEPT !.pc = "ok", !.mode = gate[g].mode, !.touched = gate[g].touched]
  <2>1. i \in Invocation
    BY EndedIsInvocation DEF Ended, Shaped
  <2>2. Others(g) /\ gate'[g] = i
    BY <1>1, <2>1, BecomesDoes DEF Shaped, Others, Done, Ends
  <2> QED BY <2>2 DEF Idle, Ended
<1>2. CASE Kill(g)
  <2>1. Others(g) /\ gate'[g] = Idle
    BY <1>2, IdleIsInvocation, BecomesDoes DEF Shaped, Others, Kill
  <2> QED BY <2>1 DEF Idle, Ended
<1> QED BY <1>1, <1>2

LEMMA TouchesDoes ==
  ASSUME Shaped, Touches
  PROVE  /\ gate' \in [Gates -> Invocation]
         /\ \A g \in Gates :
              /\ gate'[g].pc = gate[g].pc /\ gate'[g].mode = gate[g].mode
              /\ gate'[g].relevant = gate[g].relevant /\ gate'[g].held = gate[g].held
              /\ gate'[g].key = gate[g].key /\ gate'[g].command = gate[g].command
              /\ gate'[g].passed = gate[g].passed
              /\ gate[g].pc \notin Ended => gate'[g].touched = TRUE
              /\ gate[g].slips => gate'[g].slips
              /\ gate[g].pc \in {"lock", "run"} => gate'[g].slips = TRUE
<1> SUFFICES ASSUME NEW g \in Gates
             PROVE  /\ gate'[g] \in Invocation
                    /\ gate'[g].pc = gate[g].pc /\ gate'[g].mode = gate[g].mode
                    /\ gate'[g].relevant = gate[g].relevant /\ gate'[g].held = gate[g].held
                    /\ gate'[g].key = gate[g].key /\ gate'[g].command = gate[g].command
                    /\ gate'[g].passed = gate[g].passed
                    /\ gate[g].pc \notin Ended => gate'[g].touched = TRUE
                    /\ gate[g].slips => gate'[g].slips
                    /\ gate[g].pc \in {"lock", "run"} => gate'[g].slips = TRUE
  BY DEF Touches
<1>1. gate[g] \in Invocation
  BY DEF Shaped
<1>2. CASE gate[g].pc \in {"idle", "failed"}
  BY <1>1, <1>2 DEF Touches, Ended
<1>3. CASE gate[g].pc \notin {"idle", "failed"}
  <2> DEFINE slips == gate[g].slips \/ gate[g].pc \in {"lock", "run"}
  <2>1. slips \in BOOLEAN
    OBVIOUS
  <2>2. gate'[g] = [gate[g] EXCEPT !.touched = TRUE, !.slips = slips]
    BY <1>3 DEF Touches
  <2>3. (gate[g].slips => slips) /\ (gate[g].pc \in {"lock", "run"} => slips = TRUE)
    OBVIOUS
  <2> HIDE DEF slips
  <2>4. gate'[g] \in Invocation
    BY <1>1, <2>1, <2>2, TouchedIsInvocation
  <2>5. gate'[g].slips = slips
    BY <1>1, <2>2 DEF Invocation
  <2> QED BY <1>1, <2>2, <2>3, <2>4, <2>5 DEF Invocation
<1> QED BY <1>2, <1>3

LEMMA GatesKeepShape ==
  ASSUME Shaped, [VerifyNext]_verifyVars
  PROVE  gate' \in [Gates -> Invocation]
<1>1. CASE \E p \in Paths : Edit(p) \/ Commit(p)
  BY <1>1, TouchesDoes DEF Edit, Commit
<1>2. CASE UNCHANGED verifyVars
  BY <1>2 DEF verifyVars, Shaped
<1>3. CASE OrphanEnds
  BY <1>3 DEF OrphanEnds, Shaped
<1> QED BY <1>1, <1>2, <1>3, InvokeDoes, NextDoes, LockDoes, StartDoes, RunDoes, RecordDoes, DoneDoes
       DEF VerifyNext, GateStep, Others

LEMMA RecordedIsResults ==
  ASSUME VerifyTypeOK, NEW g \in Gates, gate[g].pc = "record", Cacheable(g)
  PROVE  /\ Recorded(g) \in Seq(Result) /\ Len(Recorded(g)) = Len(cache) + 1
         /\ \A i \in DOMAIN Recorded(g) :
              \/ i \in DOMAIN cache /\ Recorded(g)[i] = cache[i]
              \/ /\ Recorded(g)[i].command = gate[g].command /\ Recorded(g)[i].key = gate[g].key
                 /\ Recorded(g)[i].passed = gate[g].passed
<1> DEFINE r == [command |-> gate[g].command, key |-> gate[g].key, passed |-> gate[g].passed]
<1>1. gate[g] \in Invocation /\ gate[g].command \in Commands /\ cache \in Seq(Result)
  BY DEF VerifyTypeOK
<1>2. r \in Result
  BY <1>1 DEF Result, Invocation
<1>3. r.command = gate[g].command /\ r.key = gate[g].key /\ r.passed = gate[g].passed
  OBVIOUS
<1>4. Recorded(g) = Append(cache, r)
  BY DEF Recorded
<1> HIDE DEF r
<1> QED BY <1>1, <1>2, <1>3, <1>4

LEMMA VerifyTypeStep ==
  ASSUME VerifyTypeOK, [VerifyNext]_verifyVars
  PROVE  VerifyTypeOK'
<1>0. Shaped
  BY DEF VerifyTypeOK, Shaped
<1>1. gate' \in [Gates -> Invocation]
  BY <1>0, GatesKeepShape
<1>2. CASE \E p \in Paths : Edit(p) \/ Commit(p)
  <2>1. work' \in Trees /\ head' \in Trees
    <3>1. work \in [Paths -> Versions] /\ head \in [Paths -> Versions]
      BY DEF VerifyTypeOK, Trees
    <3>2. ASSUME NEW p \in Paths, Edit(p) PROVE work' \in Trees /\ head' \in Trees
      BY <3>1, <3>2 DEF Edit, Trees
    <3>3. ASSUME NEW p \in Paths, Commit(p) PROVE work' \in Trees /\ head' \in Trees
      BY <3>1, <3>3 DEF Commit, Trees
    <3> QED BY <1>2, <3>2, <3>3
  <2>2. UNCHANGED <<cache, runs, kills, slipped>> /\ edits' = edits + 1 /\ commits' \in {commits, commits + 1}
    BY <1>2 DEF Edit, Commit, Touches
  <2>3. \A g \in Gates : gate'[g].pc = gate[g].pc /\ gate'[g].command = gate[g].command
    BY <1>0, <1>2, TouchesDoes DEF Edit, Commit
  <2>4. orphans' \subseteq Gates \X (Nat \ {0})
    BY <1>2 DEF Edit, Commit, Touches, VerifyTypeOK
  <2> QED BY <1>1, <2>1, <2>2, <2>3, <2>4 DEF VerifyTypeOK
<1>3. ASSUME NEW g \in Gates, Record(g), UNCHANGED orphans PROVE VerifyTypeOK'
  <2>1. gate[g].pc = "record" /\ gate[g].key \in Keys
    BY <1>3 DEF Record, At, VerifyTypeOK, Invocation
  <2>2. cache' \in Seq(Result) /\ \A i \in DOMAIN cache' : cache'[i].command \notin Scientific
    <3>1. CASE Cacheable(g)
      <4>1. cache' = Recorded(g)
        BY <1>3, <3>1 DEF Record
      <4> QED BY <2>1, <3>1, <4>1, RecordedIsResults DEF VerifyTypeOK, Cacheable
    <3>2. CASE ~Cacheable(g)
      BY <1>3, <3>2 DEF Record, VerifyTypeOK
    <3> QED BY <3>1, <3>2
  <2>3. slipped' \subseteq Keys
    BY <1>3, <2>1 DEF Record, VerifyTypeOK
  <2>4. \A h \in Gates : gate'[h].pc \in {"lock", "run", "record"} => gate'[h] = gate[h]
    BY <1>0, <1>3, RecordDoes DEF Others, Ended
  <2>5. UNCHANGED <<work, head, runs, edits, kills, commits>>
    BY <1>3 DEF Record, files
  <2>6. orphans' \subseteq Gates \X (Nat \ {0})
    BY <1>3 DEF VerifyTypeOK
  <2> QED BY <1>1, <2>2, <2>3, <2>4, <2>5, <2>6 DEF VerifyTypeOK
<1>4. CASE UNCHANGED <<work, head, edits, cache, commits, slipped>> /\ runs' \in {runs, runs + 1} /\ kills' \in {kills, kills + 1}
           /\ orphans' \subseteq Gates \X (Nat \ {0})
           /\ \A h \in Gates : gate'[h].pc \in {"lock", "run", "record"} => gate'[h].command \in Commands
  BY <1>1, <1>4 DEF VerifyTypeOK
<1>5. \A h \in Gates : gate[h].pc \in {"lock", "run", "record"} => gate[h].command \in Commands
  BY DEF VerifyTypeOK
<1>6. ASSUME NEW g \in Gates,
             \/ \E mode \in {"changed", "broad", "failed"}, force \in BOOLEAN : Invoke(g, mode, force)
             \/ Done(g) /\ UNCHANGED orphans
             \/ Kill(g)
      PROVE  VerifyTypeOK'
  <2>1. Others(g) /\ gate'[g].pc \in Ended \cup {"next"}
    BY <1>0, <1>6, InvokeDoes, DoneDoes
  <2>2. UNCHANGED <<work, head, edits, cache, commits, slipped>> /\ runs' \in {runs, runs + 1} /\ kills' \in {kills, kills + 1}
    BY <1>6 DEF Invoke, Done, Kill, files
  <2>3. orphans' \subseteq Gates \X (Nat \ {0})
    <3>1. orphans' = orphans \/ (orphans' = orphans \cup {<<g, kills'>>} /\ kills' = kills + 1)
      BY <1>6 DEF Invoke, Kill
    <3>2. orphans \subseteq Gates \X (Nat \ {0}) /\ kills \in Nat
      BY DEF VerifyTypeOK
    <3>3. kills + 1 \in Nat \ {0}
      BY <3>2
    <3> QED BY <3>1, <3>2, <3>3
  <2> QED BY <1>4, <1>5, <2>1, <2>2, <2>3 DEF Others, Ended
<1>7. ASSUME NEW g \in Gates, NextCommand(g) \/ Lock(g) \/ Start(g) \/ Run(g), UNCHANGED orphans
      PROVE  VerifyTypeOK'
  <2>1. Others(g) /\ (gate'[g].pc \in {"lock", "run", "record"} => gate'[g].command \in Commands)
    <3>1. CASE NextCommand(g)
      BY <1>0, <3>1, NextDoes
    <3>2. CASE Lock(g)
      BY <1>0, <1>5, <3>2, LockDoes
    <3>3. CASE Start(g)
      BY <1>0, <1>5, <3>3, StartDoes
    <3>4. CASE Run(g)
      BY <1>0, <1>5, <3>4, RunDoes
    <3> QED BY <1>7, <3>1, <3>2, <3>3, <3>4
  <2>2. UNCHANGED <<work, head, edits, cache, commits, slipped, runs, kills>>
    BY <1>7 DEF NextCommand, Lock, Start, Run, files
  <2>3. orphans' \subseteq Gates \X (Nat \ {0})
    BY <1>7 DEF VerifyTypeOK
  <2> QED BY <1>4, <1>5, <2>1, <2>2, <2>3 DEF Others
<1>8. CASE UNCHANGED verifyVars
  BY <1>8 DEF verifyVars, files, VerifyTypeOK
<1>9. CASE OrphanEnds
  <2>1. orphans' \subseteq orphans
    BY <1>9 DEF OrphanEnds
  <2> QED BY <1>9, <2>1 DEF OrphanEnds, files, VerifyTypeOK
<1> QED BY <1>2, <1>3, <1>6, <1>7, <1>8, <1>9 DEF VerifyNext, GateStep

\* Every variable keeps its shape, for all constants; a T4 or T5 command is
\* never recorded (command_cacheable).
THEOREM VerifyTypeCorrect == VerifySpec => []VerifyTypeOK
<1>1. VerifyInit => VerifyTypeOK
  BY IdleIsInvocation, VerifyAssumption DEF VerifyInit, VerifyTypeOK, Idle
<1>2. VerifyTypeOK /\ [VerifyNext]_verifyVars => VerifyTypeOK'
  BY VerifyTypeStep
<1> QED BY <1>1, <1>2, PTL DEF VerifySpec

-----------------------------------------------------------------------------
(* GPU tests stay apart: each lock is held by one invocation, and whoever  *)
(* runs a test holds those it needs                                        *)

HeldInv ==
  /\ \A g, h \in Gates : g # h => gate[g].held \cap gate[h].held = {}
  /\ \A g \in Gates : gate[g].pc = "run" => Needed(g) \subseteq gate[g].held

\* No step but Lock adds a lock, and Lock adds a free one.
LEMMA HeldStep ==
  ASSUME Shaped, HeldInv, [VerifyNext]_verifyVars
  PROVE  HeldInv'
<1>1. ASSUME NEW g \in Gates, Others(g), gate'[g].held \subseteq gate[g].held,
             gate'[g].pc = "run" => Needed(g)' \subseteq gate'[g].held
      PROVE  HeldInv'
  BY <1>1 DEF HeldInv, Others, Needed
<1>2. ASSUME NEW g \in Gates, Lock(g) PROVE HeldInv'
  <2>1. PICK d \in Nat : Free(d) /\ gate'[g].held = gate[g].held \cup {d}
    BY <1>2, LockDoes
  <2>2. \A h \in Gates \ {g} : gate'[h] = gate[h] /\ d \notin gate[h].held
    BY <1>2, <2>1, LockDoes DEF Others, Free
  <2>3. gate'[g].pc # "run"
    BY <1>2, LockDoes
  <2> QED BY <2>1, <2>2, <2>3 DEF HeldInv, Needed
<1>3. CASE \E p \in Paths : Edit(p) \/ Commit(p)
  BY <1>3, TouchesDoes DEF Edit, Commit, HeldInv, Needed
<1>4. ASSUME NEW g \in Gates, NEW mode \in {"changed", "broad", "failed"}, NEW force \in BOOLEAN,
             Invoke(g, mode, force)
      PROVE  HeldInv'
  BY <1>1, <1>4, InvokeDoes
<1>5. ASSUME NEW g \in Gates, NextCommand(g) \/ Done(g) \/ Run(g) \/ Record(g) \/ Kill(g)
      PROVE  HeldInv'
  <2>1. Others(g) /\ gate'[g].held \subseteq gate[g].held /\ gate'[g].pc # "run"
    BY <1>5, NextDoes, DoneDoes, RunDoes, RecordDoes DEF Ended
  <2> QED BY <1>1, <2>1
<1>6. ASSUME NEW g \in Gates, Start(g) PROVE HeldInv'
  <2>1. Needed(g)' = Needed(g)
    BY <1>6, StartDoes DEF Needed
  <2> QED BY <1>1, <1>6, <2>1, StartDoes
<1>7. CASE UNCHANGED gate
  BY <1>7 DEF HeldInv, Needed
<1> QED BY <1>2, <1>3, <1>4, <1>5, <1>6, <1>7 DEF VerifyNext, GateStep, OrphanEnds, verifyVars

LEMMA HeldIsApart ==
  ASSUME HeldInv
  PROVE  GpuTestsApart
<1> SUFFICES ASSUME NEW u \in GpuUsers, NEW v \in GpuUsers, u # v, SeeTheSame(u[1], v[1]),
                    u \notin orphans, v \notin orphans
             PROVE  FALSE
  BY DEF GpuTestsApart
<1>1. PICK g \in Gates, h \in Gates : u = <<g, 0>> /\ v = <<h, 0>> /\ Testing(g) /\ Testing(h)
  BY DEF GpuUsers
<1>2. g # h /\ SeeTheSame(g, h)
  BY <1>1
<1>3. PICK i \in DOMAIN Visible[g], k \in DOMAIN Visible[h] : Identities[g][i] = Identities[h][k]
  BY <1>2 DEF SeeTheSame
<1>4. i \in DOMAIN Identities[g] /\ k \in DOMAIN Identities[h]
  <2>1. \A e \in Gates : /\ Len(Identities[e]) = Len(Visible[e])
                         /\ Identities[e] \in Seq(Nat) /\ Visible[e] \in Seq(Nat)
    BY VerifyAssumption
  <2>2. \A e \in Gates : DOMAIN Identities[e] = DOMAIN Visible[e]
    BY <2>1
  <2> QED BY <2>2
<1>5. Identities[g][i] \in gate[g].held /\ Identities[h][k] \in gate[h].held
  BY <1>1, <1>4 DEF HeldInv, Testing, At, Needed, Locks
<1> QED BY <1>2, <1>3, <1>5 DEF HeldInv

\* GPU tests of two living invocations run on one device only if it has
\* another name for each, however many invocations there are, whatever they
\* see and whichever are killed (GPULock.__enter__).
THEOREM GpuTestsStayApart == VerifySpec => []GpuTestsApart
<1>1. VerifyInit => HeldInv
  BY DEF VerifyInit, HeldInv, Idle
<1>2. VerifyTypeOK => Shaped
  BY DEF VerifyTypeOK, Shaped
<1>3. HeldInv /\ VerifyTypeOK /\ [VerifyNext]_verifyVars => HeldInv'
  BY <1>2, HeldStep
<1> QED BY <1>1, <1>3, VerifyTypeCorrect, HeldIsApart, PTL DEF VerifySpec

-----------------------------------------------------------------------------
(* A skip is sound: a recorded pass tells of one tree                      *)

\* The tree a fingerprint stands for: what it does not cover is committed.
TreeOf(key) == [p \in Paths |-> IF p \in DOMAIN key THEN key[p] ELSE First[p]]
Covers(key) == commits = 0 \/ Paths \subseteq DOMAIN key
Tells(key, c) == Covers(key) => TreeOf(key) \in Good[c]

HeadInv == commits = 0 => head = First
CacheInv ==
  \A i \in DOMAIN cache :
    cache[i].passed /\ cache[i].key \notin slipped => Tells(cache[i].key, cache[i].command)
RelevantInv(g) ==
  gate[g].pc \notin Ended =>
    /\ gate[g].mode # "changed" => gate[g].relevant = Paths
    /\ commits = 0 /\ ~gate[g].touched =>
         \A p \in Paths \ gate[g].relevant : work[p] = First[p]
LockInv(g) == gate[g].pc \in {"lock", "run"} /\ ~gate[g].slips => gate[g].key = Contents(g)
RecordInv(g) ==
  gate[g].pc = "record" /\ ~Slips(g) /\ gate[g].passed => Tells(gate[g].key, gate[g].command)
GateInv(g) == RelevantInv(g) /\ LockInv(g) /\ RecordInv(g)
SkipInv == HeadInv /\ CacheInv /\ \A g \in Gates : GateInv(g)

\* What an invocation would look up or record stands for the tree that is there.
LEMMA ContentsTellTheTree ==
  ASSUME Shaped, NEW g \in Gates, RelevantInv(g), gate[g].pc \notin Ended,
         gate[g].mode = "changed" => ~gate[g].touched, Covers(Contents(g))
  PROVE  TreeOf(Contents(g)) = work
<1>1. /\ DOMAIN Contents(g) = gate[g].relevant
      /\ \A p \in gate[g].relevant : Contents(g)[p] = work[p]
  BY ContentsIsKey DEF Shaped
<1>2. \A p \in Paths \ gate[g].relevant : work[p] = First[p]
  BY <1>1 DEF RelevantInv, Covers
<1>3. work = [p \in Paths |-> work[p]]
  BY DEF Shaped, Trees
<1> QED BY <1>1, <1>2, <1>3 DEF TreeOf

\* An invocation that a step leaves alone keeps its part.
LEMMA OthersKeep ==
  ASSUME NEW g \in Gates, GateInv(g), gate'[g] = gate[g], UNCHANGED <<work, commits>>
  PROVE  GateInv(g)'
  BY DEF GateInv, RelevantInv, LockInv, RecordInv, Slips, Tells, Covers, Contents

LEMMA InvokeKeeps ==
  ASSUME Shaped, HeadInv, NEW g \in Gates, NEW mode \in {"changed", "broad", "failed"},
         NEW force \in BOOLEAN, Invoke(g, mode, force)
  PROVE  GateInv(g)'
<1>1. gate'[g].pc = "next" /\ gate'[g].mode = mode /\ gate'[g].relevant = Relevant(mode)
  BY InvokeDoes
<1>2. UNCHANGED <<work, head, commits>>
  BY DEF Invoke, files
<1>3. mode # "changed" => Relevant(mode) = Paths
  BY DEF Relevant
<1>4. commits = 0 => \A p \in Paths \ Relevant(mode) : work[p] = First[p]
  BY DEF HeadInv, Relevant, Changed
<1> QED BY <1>1, <1>2, <1>3, <1>4 DEF GateInv, RelevantInv, LockInv, RecordInv

LEMMA NextKeeps ==
  ASSUME Shaped, NEW g \in Gates, GateInv(g), NextCommand(g)
  PROVE  GateInv(g)'
<1>1. UNCHANGED <<work, commits>>
  BY DEF NextCommand, files
<1>2. RelevantInv(g)'
  BY <1>1, NextDoes DEF GateInv, RelevantInv, Ended
<1>3. Contents(g)' = Contents(g)
  BY <1>1, NextDoes DEF Contents
<1> QED BY <1>2, <1>3, NextDoes DEF GateInv, LockInv, RecordInv

LEMMA LockKeeps ==
  ASSUME Shaped, NEW g \in Gates, GateInv(g), Lock(g)
  PROVE  GateInv(g)'
<1>1. UNCHANGED <<work, commits>>
  BY DEF Lock, files
<1>2. RelevantInv(g)'
  BY <1>1, LockDoes DEF GateInv, RelevantInv, Ended
<1>3. Contents(g)' = Contents(g)
  BY <1>1, LockDoes DEF Contents
<1> QED BY <1>2, <1>3, LockDoes DEF GateInv, LockInv, RecordInv

LEMMA StartKeeps ==
  ASSUME Shaped, NEW g \in Gates, GateInv(g), Start(g)
  PROVE  GateInv(g)'
<1>1. UNCHANGED <<work, commits>>
  BY DEF Start, files
<1>2. RelevantInv(g)'
  BY <1>1, StartDoes DEF GateInv, RelevantInv, Ended
<1>3. Contents(g)' = Contents(g)
  BY <1>1, StartDoes DEF Contents
<1> QED BY <1>2, <1>3, StartDoes DEF GateInv, LockInv, RecordInv

\* The command ran on the tree its fingerprint was taken of, or it slips.
LEMMA RunKeeps ==
  ASSUME Shaped, NEW g \in Gates, GateInv(g), Run(g)
  PROVE  GateInv(g)'
<1>1. UNCHANGED <<work, commits>>
  BY DEF Run, files
<1>2. RelevantInv(g)'
  BY <1>1, RunDoes DEF GateInv, RelevantInv, Ended
<1>3. Slips(g)' = Slips(g)
  BY RunDoes DEF Slips
<1>4. ASSUME ~Slips(g), gate'[g].passed, Covers(gate[g].key)
      PROVE  TreeOf(gate[g].key) \in Good[gate[g].command]
  <2>1. gate[g].key = Contents(g)
    BY <1>4, RunDoes DEF GateInv, LockInv, Slips
  <2>2. TreeOf(gate[g].key) = work
    BY <1>4, <2>1, RunDoes, ContentsTellTheTree DEF GateInv, Slips, Ended
  <2> QED BY <1>4, <2>2, RunDoes
<1>5. RecordInv(g)'
  BY <1>1, <1>3, <1>4, RunDoes DEF RecordInv, Tells, Covers
<1> QED BY <1>2, <1>5, RunDoes DEF GateInv, LockInv

LEMMA RecordKeeps ==
  ASSUME Shaped, NEW g \in Gates, GateInv(g), Record(g)
  PROVE  GateInv(g)'
<1>1. UNCHANGED <<work, commits>>
  BY DEF Record, files
<1>2. RelevantInv(g)'
  BY <1>1, RecordDoes DEF GateInv, RelevantInv, Ended
<1> QED BY <1>2, RecordDoes DEF GateInv, LockInv, RecordInv, Ended

LEMMA TouchesKeep ==
  ASSUME Shaped, NEW g \in Gates, GateInv(g), Touches, commits' = 0 => commits = 0
  PROVE  GateInv(g)'
<1>1. RelevantInv(g)'
  BY TouchesDoes DEF GateInv, RelevantInv, Ended
<1>2. LockInv(g)'
  BY TouchesDoes DEF LockInv
<1>3. Slips(g) => Slips(g)'
  <2>1. gate[g].touched => gate'[g].touched
    BY DEF Touches, Shaped, Invocation
  <2> QED BY <2>1, TouchesDoes DEF Slips
<1>4. \A key : Covers(key)' => Covers(key)
  BY DEF Covers
<1>5. RecordInv(g)'
  BY <1>3, <1>4, TouchesDoes DEF GateInv, RecordInv, Tells
<1> QED BY <1>1, <1>2, <1>5 DEF GateInv

LEMMA CacheStep ==
  ASSUME VerifyTypeOK, SkipInv, [VerifyNext]_verifyVars
  PROVE  CacheInv'
<1>1. commits' = 0 => commits = 0
  <2>1. commits' \in {commits, commits + 1} /\ commits \in Nat
    BY DEF VerifyNext, VerifyTypeOK, GateStep, Invoke, NextCommand, Done, Lock, Start, Run, Record, Kill,
       OrphanEnds, Edit, Commit, verifyVars, files
  <2> QED BY <2>1
<1>2. CASE UNCHANGED <<cache, slipped>>
  BY <1>1, <1>2 DEF SkipInv, CacheInv, Tells, Covers
<1>3. ASSUME NEW g \in Gates, Record(g), Cacheable(g) PROVE CacheInv'
  <2>1. /\ cache' = Recorded(g) /\ slipped \subseteq slipped'
        /\ Slips(g) => gate[g].key \in slipped'
    BY <1>3 DEF Record
  <2>2. gate[g].pc = "record" /\ RecordInv(g)
    BY <1>3 DEF Record, At, SkipInv, GateInv
  <2>3. ASSUME NEW i \in DOMAIN cache', cache'[i].passed, cache'[i].key \notin slipped'
        PROVE  Tells(cache'[i].key, cache'[i].command)
    <3>1. CASE i \in DOMAIN cache /\ cache'[i] = cache[i]
      BY <2>1, <2>3, <3>1 DEF SkipInv, CacheInv
    <3>2. CASE /\ cache'[i].command = gate[g].command /\ cache'[i].key = gate[g].key
               /\ cache'[i].passed = gate[g].passed
      BY <2>1, <2>2, <2>3, <3>2 DEF RecordInv
    <3> QED BY <1>3, <2>1, <2>2, <2>3, <3>1, <3>2, RecordedIsResults
  <2> QED BY <1>1, <2>3 DEF CacheInv, Tells, Covers
<1>4. ASSUME NEW g \in Gates, Record(g), ~Cacheable(g) PROVE CacheInv'
  BY <1>2, <1>4 DEF Record
<1> QED BY <1>2, <1>3, <1>4 DEF VerifyNext, GateStep, Invoke, NextCommand, Done, Lock, Start, Run, Kill,
       OrphanEnds, Edit, Commit, Touches, verifyVars, files

LEMMA HeadStep ==
  ASSUME VerifyTypeOK, HeadInv, [VerifyNext]_verifyVars
  PROVE  HeadInv'
<1>1. CASE \E p \in Paths : Commit(p)
  <2>1. commits' = commits + 1 /\ commits \in Nat
    BY <1>1 DEF Commit, VerifyTypeOK
  <2>2. commits' # 0
    BY <2>1
  <2> QED BY <2>2 DEF HeadInv
<1>2. CASE UNCHANGED <<head, commits>>
  BY <1>2 DEF HeadInv
<1> QED BY <1>1, <1>2 DEF VerifyNext, GateStep, Invoke, NextCommand, Done, Lock, Start, Run, Record,
       Kill, OrphanEnds, Edit, verifyVars, files

LEMMA GateInvStep ==
  ASSUME VerifyTypeOK, SkipInv, [VerifyNext]_verifyVars, NEW h \in Gates
  PROVE  GateInv(h)'
<1>1. Shaped /\ HeadInv /\ GateInv(h)
  BY DEF VerifyTypeOK, Shaped, SkipInv
<1>2. ASSUME NEW g \in Gates, NEW mode \in {"changed", "broad", "failed"}, NEW force \in BOOLEAN,
             Invoke(g, mode, force)
      PROVE  GateInv(h)'
  <2>1. UNCHANGED <<work, commits>>
    BY <1>2 DEF Invoke, files
  <2>2. CASE h = g
    BY <1>1, <1>2, <2>2, InvokeKeeps
  <2>3. CASE h # g
    BY <1>1, <1>2, <2>1, <2>3, InvokeDoes, OthersKeep DEF Others
  <2> QED BY <2>2, <2>3
<1>3. ASSUME NEW g \in Gates, GateStep(g) \/ Kill(g)
      PROVE  GateInv(h)'
  <2>1. UNCHANGED <<work, commits>>
    BY <1>3 DEF GateStep, NextCommand, Done, Lock, Start, Run, Record, Kill, files
  <2>2. CASE h = g
    <3>1. CASE Done(g) \/ Kill(g)
      <4>1. gate'[g].pc \in Ended
        BY <1>1, <3>1, DoneDoes
      <4> QED BY <2>2, <4>1 DEF GateInv, RelevantInv, LockInv, RecordInv, Ended
    <3> QED BY <1>1, <1>3, <2>2, <3>1, NextKeeps, LockKeeps, StartKeeps, RunKeeps, RecordKeeps DEF GateStep
  <2>3. CASE h # g
    <3>1. Others(g)
      BY <1>1, <1>3, NextDoes, LockDoes, StartDoes, RunDoes, RecordDoes, DoneDoes DEF GateStep
    <3> QED BY <1>1, <2>1, <2>3, <3>1, OthersKeep DEF Others
  <2> QED BY <2>2, <2>3
<1>4. CASE \E p \in Paths : Edit(p) \/ Commit(p)
  <2>1. commits' \in {commits, commits + 1} /\ commits \in Nat /\ Touches
    BY <1>4 DEF Edit, Commit, VerifyTypeOK
  <2>2. commits' = 0 => commits = 0
    BY <2>1
  <2> QED BY <1>1, <2>1, <2>2, TouchesKeep
<1>5. CASE UNCHANGED verifyVars \/ OrphanEnds
  BY <1>1, <1>5, OthersKeep DEF OrphanEnds, verifyVars, files
<1> QED BY <1>2, <1>3, <1>4, <1>5 DEF VerifyNext

LEMMA SkipInvIsSound ==
  ASSUME VerifyTypeOK, SkipInv
  PROVE  SkipIsSound
<1> SUFFICES ASSUME NEW g \in Gates, At(g, "next"), TellsTheTree(g),
                    gate[g].mode = "changed" => commits = 0, NEW c \in gate[g].todo, Skips(g, c)
             PROVE  work \in Good[c]
  BY DEF SkipIsSound
<1>1. Shaped /\ RelevantInv(g) /\ gate[g].pc \notin Ended
  BY DEF VerifyTypeOK, Shaped, SkipInv, GateInv, At, Ended
<1>2. PICK i \in DOMAIN cache :
        cache[i].command = c /\ cache[i].key = Contents(g) /\ cache[i].passed
  BY DEF Skips, HasPass
<1>3. Tells(Contents(g), c)
  BY <1>2 DEF SkipInv, CacheInv, TellsTheTree
<1>4. Covers(Contents(g))
  BY <1>1, ContentsIsKey DEF Covers, RelevantInv, Shaped
<1>5. TreeOf(Contents(g)) = work
  BY <1>1, <1>4, ContentsTellTheTree DEF TellsTheTree
<1> QED BY <1>3, <1>4, <1>5 DEF Tells

\* What an invocation would skip passes on the tree that is there, for any
\* selection rules and any number of invocations, edits and kills
\* (fingerprint, has_pass, append).
THEOREM SkipsAreSound == VerifySpec => []SkipIsSound
<1>1. VerifyInit => SkipInv
  BY DEF VerifyInit, SkipInv, HeadInv, CacheInv, GateInv, RelevantInv, LockInv, RecordInv, Idle,
     Ended
<1>2. SkipInv /\ VerifyTypeOK /\ [VerifyNext]_verifyVars => SkipInv'
  BY HeadStep, CacheStep, GateInvStep DEF SkipInv
<1>3. SkipInv /\ VerifyTypeOK => SkipIsSound
  BY SkipInvIsSound
<1> QED BY <1>1, <1>2, <1>3, VerifyTypeCorrect, PTL DEF VerifySpec

-----------------------------------------------------------------------------
(* A green run of --changed says that the tests it stands for pass          *)

\* Each of these tests passes now, or the invocation has it before it.
GreenSoFar(g) ==
  gate[g].mode = "changed" /\ ~gate[g].touched /\ commits = 0 /\ slipped = {} =>
    \A t \in Selected(Changed) \cup Covered :
      \/ work \in Good[t]
      \/ gate[g].pc \in {"next", "lock", "run", "record"} /\ t \in gate[g].todo
      \/ gate[g].pc \in {"lock", "run"} /\ t = gate[g].command
      \/ gate[g].pc = "record" /\ t = gate[g].command /\ ~gate[g].passed
      \/ gate[g].pc \in {"idle", "failed"}

\* What each step makes of the commands that are left.
LEMMA InvokeTodo ==
  ASSUME Shaped, NEW g \in Gates, NEW mode \in {"changed", "broad", "failed"},
         NEW force \in BOOLEAN, Invoke(g, mode, force)
  PROVE  gate'[g].todo = Todo(mode)
<1> DEFINE i == [Idle EXCEPT !.pc = "next", !.mode = mode, !.force = force, !.todo = Todo(mode),
                             !.relevant = Relevant(mode)]
<1>1. i \in Invocation /\ i.todo = Todo(mode)
  BY TodoIsCommands, RelevantIsPaths, InvokedIsInvocation DEF Shaped, Idle
<1>2. Becomes(g, i)
  BY DEF Invoke
<1> HIDE DEF i
<1> QED BY <1>1, <1>2, BecomesDoes DEF Shaped

LEMMA NextTodo ==
  ASSUME Shaped, NEW g \in Gates, NextCommand(g)
  PROVE  \E c \in gate[g].todo :
           /\ gate'[g].todo = gate[g].todo \ {c}
           /\ \/ Skips(g, c) /\ gate'[g].pc = "next"
              \/ gate'[g].pc = "lock" /\ gate'[g].command = c
<1>1. PICK c \in gate[g].todo :
        Becomes(g, IF Skips(g, c) THEN [gate[g] EXCEPT !.todo = @ \ {c}]
                   ELSE [gate[g] EXCEPT !.todo = @ \ {c}, !.command = c, !.key = Contents(g),
                                        !.pc = "lock"])
  BY DEF NextCommand
<1>2. gate[g] \in Invocation /\ gate[g].pc = "next" /\ c \in Commands /\ Contents(g) \in Keys
  BY ContentsIsKey DEF NextCommand, At, Shaped, Invocation
<1>3. CASE Skips(g, c)
  <2>1. [gate[g] EXCEPT !.todo = @ \ {c}] \in Invocation
    BY <1>2, SkippedIsInvocation
  <2>2. gate'[g] = [gate[g] EXCEPT !.todo = @ \ {c}]
    BY <1>1, <1>3, <2>1, BecomesDoes DEF Shaped
  <2> QED BY <1>2, <1>3, <2>2 DEF Invocation
<1>4. CASE ~Skips(g, c)
  <2>1. [gate[g] EXCEPT !.todo = @ \ {c}, !.command = c, !.key = Contents(g), !.pc = "lock"] \in Invocation
    BY <1>2, ChosenIsInvocation
  <2>2. gate'[g] = [gate[g] EXCEPT !.todo = @ \ {c}, !.command = c, !.key = Contents(g), !.pc = "lock"]
    BY <1>1, <1>4, <2>1, BecomesDoes DEF Shaped
  <2> QED BY <1>2, <2>2 DEF Invocation
<1> QED BY <1>3, <1>4

LEMMA LockTodo ==
  ASSUME Shaped, NEW g \in Gates, Lock(g)
  PROVE  gate'[g].todo = gate[g].todo
<1>1. PICK d \in Needed(g) \ gate[g].held :
        Free(d) /\ Becomes(g, [gate[g] EXCEPT !.held = @ \cup {d}])
  BY DEF Lock
<1>2. gate[g] \in Invocation /\ d \in Nat
  BY LockIsNat DEF Shaped
<1>3. [gate[g] EXCEPT !.held = @ \cup {d}] \in Invocation
  BY <1>2, LockedIsInvocation
<1>4. gate'[g] = [gate[g] EXCEPT !.held = @ \cup {d}]
  BY <1>1, <1>3, BecomesDoes DEF Shaped
<1> QED BY <1>2, <1>4 DEF Invocation

LEMMA RunTodo ==
  ASSUME Shaped, NEW g \in Gates, Run(g)
  PROVE  gate'[g].todo = gate[g].todo
<1> DEFINE passed == work \in Good[gate[g].command]
           i == [gate[g] EXCEPT !.passed = passed, !.held = {}, !.pc = "record"]
<1>1. gate[g] \in Invocation /\ passed \in BOOLEAN
  BY DEF Shaped
<1>2. i \in Invocation
  BY <1>1, RunIsInvocation
<1>3. gate'[g] = i
  BY <1>2, BecomesDoes DEF Shaped, Run
<1> QED BY <1>1, <1>3 DEF Invocation

LEMMA RecordTodo ==
  ASSUME Shaped, NEW g \in Gates, Record(g)
  PROVE  \/ gate'[g].pc = "failed"
         \/ gate'[g].pc = "next" /\ gate'[g].todo = gate[g].todo /\ gate[g].passed
<1>1. gate[g] \in Invocation
  BY DEF Shaped
<1>2. CASE ~gate[g].passed
  <2> DEFINE i == [Idle EXCEPT !.pc = "failed", !.mode = gate[g].mode, !.touched = gate[g].touched]
  <2>1. i \in Invocation
    BY <1>1, EndedIsInvocation DEF Ended
  <2>2. gate'[g] = i
    BY <1>2, <2>1, BecomesDoes DEF Shaped, Ends, Record
  <2> QED BY <1>1, <2>2 DEF Idle
<1>3. CASE gate[g].passed
  <2> DEFINE i == [gate[g] EXCEPT !.pc = "next", !.command = "none", !.key = Nothing,
                                  !.passed = FALSE, !.slips = FALSE]
  <2>1. i \in Invocation
    BY <1>1, RecordedIsInvocation
  <2>2. gate'[g] = i
    BY <1>3, <2>1, BecomesDoes DEF Shaped, Record
  <2> QED BY <1>1, <1>3, <2>2 DEF Invocation
<1> QED BY <1>2, <1>3

LEMMA EndDoes ==
  ASSUME Shaped, NEW g \in Gates
  PROVE  /\ Done(g) => /\ gate[g].pc = "next" /\ gate[g].todo = {} /\ gate'[g].pc = "ok"
                       /\ gate'[g].mode = gate[g].mode /\ gate'[g].touched = gate[g].touched
         /\ Kill(g) => gate'[g].pc = "idle"
<1>1. CASE Done(g)
  <2> DEFINE i == [Idle EXCEPT !.pc = "ok", !.mode = gate[g].mode, !.touched = gate[g].touched]
  <2>1. i \in Invocation
    BY EndedIsInvocation DEF Ended, Shaped
  <2>2. gate'[g] = i
    BY <1>1, <2>1, BecomesDoes DEF Shaped, Done, Ends
  <2>3. ~Kill(g) \/ gate'[g].pc = "idle"
    BY IdleIsInvocation, BecomesDoes DEF Shaped, Kill, Idle
  <2> QED BY <1>1, <2>2, <2>3 DEF Idle, Done, At, Invocation
<1>2. CASE Kill(g) /\ ~Done(g)
  <2>1. gate'[g] = Idle
    BY <1>2, IdleIsInvocation, BecomesDoes DEF Shaped, Kill
  <2> QED BY <1>2, <2>1 DEF Idle
<1> QED BY <1>1, <1>2

\* A test whose rules are right and which the diff does not select finds what
\* it finds on the commit.
LEMMA InvokeIsGreen ==
  ASSUME Shaped, HeadInv, NEW g \in Gates,
         NEW mode \in {"changed", "broad", "failed"}, NEW force \in BOOLEAN, Invoke(g, mode, force)
  PROVE  GreenSoFar(g)'
<1>1. gate'[g].pc = "next" /\ gate'[g].mode = mode /\ gate'[g].todo = Todo(mode)
  BY InvokeDoes, InvokeTodo
<1>2. UNCHANGED <<work, head, commits, slipped>>
  BY DEF Invoke, files
<1>3. mode = "changed" => Todo(mode) = Selected(Changed)
  BY DEF Todo
<1>4. ASSUME NEW t \in Covered, mode = "changed", commits = 0, t \notin Selected(Changed)
      PROVE  work \in Good[t]
  <2>1. \A p \in Paths : t \in Impact[p] => First[p] = work[p]
    BY <1>4 DEF Selected, Changed, HeadInv
  <2>2. First \in Good[t] /\ work \in Trees
    BY <1>4 DEF Covered, Shaped
  <2> QED BY <1>4, <2>1, <2>2 DEF Covered
<1>5. Selected(Changed)' = Selected(Changed)
  BY <1>2 DEF Selected, Changed
<1> QED BY <1>1, <1>2, <1>3, <1>4, <1>5 DEF GreenSoFar

LEMMA StepIsGreen ==
  ASSUME Shaped, SkipIsSound, NEW g \in Gates, GreenSoFar(g), GateStep(g) \/ Kill(g)
  PROVE  GreenSoFar(g)'
<1>1. UNCHANGED <<work, commits>> /\ slipped \subseteq slipped' /\ Selected(Changed)' = Selected(Changed)
  BY DEF Selected, Changed, GateStep, NextCommand, Done, Lock, Start, Run, Record, Kill, files
<1>2. CASE NextCommand(g)
  <2>1. /\ gate[g].pc = "next" /\ gate'[g].mode = gate[g].mode
        /\ gate'[g].touched = gate[g].touched /\ slipped' = slipped
    BY <1>2, NextDoes DEF NextCommand
  <2>2. PICK c \in gate[g].todo :
           /\ gate'[g].todo = gate[g].todo \ {c}
           /\ \/ Skips(g, c) /\ gate'[g].pc = "next"
              \/ gate'[g].pc = "lock" /\ gate'[g].command = c
    BY <1>2, NextTodo
  <2>3. ASSUME gate[g].mode = "changed", ~gate[g].touched, commits = 0, slipped = {}, Skips(g, c)
        PROVE  work \in Good[c]
    BY <2>1, <2>3 DEF SkipIsSound, At, TellsTheTree
  <2> QED BY <1>1, <2>1, <2>2, <2>3 DEF GreenSoFar
<1>3. CASE Lock(g)
  <2>1. slipped' = slipped
    BY <1>3 DEF Lock
  <2> QED BY <1>1, <1>3, <2>1, LockDoes, LockTodo DEF GreenSoFar
<1>4. CASE Run(g)
  <2>1. slipped' = slipped
    BY <1>4 DEF Run
  <2> QED BY <1>1, <1>4, <2>1, RunDoes, RunTodo DEF GreenSoFar
<1>5. CASE Start(g)
  <2>1. slipped' = slipped
    BY <1>5 DEF Start
  <2> QED BY <1>1, <1>5, <2>1, StartDoes DEF GreenSoFar
<1>6. CASE Record(g)
  <2>1. gate'[g].pc = "next" => gate'[g].mode = gate[g].mode /\ gate'[g].touched = gate[g].touched
    BY <1>6, RecordDoes DEF Ended
  <2>2. gate[g].pc = "record"
    BY <1>6 DEF Record, At
  <2> QED BY <1>1, <1>6, <2>1, <2>2, RecordTodo DEF GreenSoFar
<1>7. CASE Done(g)
  <2>1. slipped' = slipped
    BY <1>7 DEF Done
  <2> QED BY <1>1, <1>7, <2>1, EndDoes DEF GreenSoFar
<1>8. CASE Kill(g)
  BY <1>8, EndDoes DEF GreenSoFar
<1> QED BY <1>2, <1>3, <1>4, <1>5, <1>6, <1>7, <1>8 DEF GateStep

LEMMA GreenStep ==
  ASSUME VerifyTypeOK, HeadInv, SkipIsSound,
         \A g \in Gates : GreenSoFar(g), [VerifyNext]_verifyVars, NEW h \in Gates
  PROVE  GreenSoFar(h)'
<1>1. Shaped
  BY DEF VerifyTypeOK, Shaped
<1>2. ASSUME gate'[h] = gate[h], UNCHANGED <<work, head, commits>>, slipped \subseteq slipped'
      PROVE  GreenSoFar(h)'
  BY <1>2 DEF GreenSoFar, Selected, Changed
<1>3. ASSUME NEW g \in Gates, NEW mode \in {"changed", "broad", "failed"}, NEW force \in BOOLEAN,
             Invoke(g, mode, force)
      PROVE  GreenSoFar(h)'
  <2>1. UNCHANGED <<work, head, commits, slipped>> /\ Others(g)
    BY <1>1, <1>3, InvokeDoes DEF Invoke, files
  <2> QED BY <1>1, <1>2, <1>3, <2>1, InvokeIsGreen DEF Others
<1>4. ASSUME NEW g \in Gates, GateStep(g) \/ Kill(g)
      PROVE  GreenSoFar(h)'
  <2>1. UNCHANGED <<work, head, commits>> /\ slipped \subseteq slipped'
    BY <1>4 DEF GateStep, NextCommand, Done, Lock, Start, Run, Record, Kill, files
  <2>2. Others(g)
    BY <1>1, <1>4, NextDoes, LockDoes, StartDoes, RunDoes, RecordDoes, DoneDoes DEF GateStep
  <2> QED BY <1>1, <1>2, <1>4, <2>1, <2>2, StepIsGreen DEF Others
<1>5. CASE \E p \in Paths : Edit(p) \/ Commit(p)
  <2>1. Touches
    BY <1>5 DEF Edit, Commit
  <2>2. gate'[h].pc = gate[h].pc /\ gate[h] \in Invocation
    BY <1>1, <2>1, TouchesDoes DEF Shaped
  <2>3. gate[h].pc \notin {"idle", "failed"} => gate'[h].touched
    BY <2>1, <2>2 DEF Touches, Invocation
  <2> QED BY <2>2, <2>3 DEF GreenSoFar
<1>6. CASE UNCHANGED verifyVars \/ OrphanEnds
  BY <1>2, <1>6 DEF OrphanEnds, verifyVars, files
<1> QED BY <1>3, <1>4, <1>5, <1>6 DEF VerifyNext

\* An invocation of --changed that ends without a failure speaks for every
\* test it selected and for every other one whose rules are right, whatever
\* other invocations ran, recorded or skipped beside it (select, has_pass).
THEOREM GreenMeansGreen == VerifySpec => []GreenIsGreen
<1> DEFINE GreenInv == HeadInv /\ \A g \in Gates : GreenSoFar(g)
<1>1. VerifyInit => GreenInv
  BY DEF VerifyInit, HeadInv, GreenSoFar, Idle
<1>2. GreenInv /\ VerifyTypeOK /\ SkipIsSound /\ [VerifyNext]_verifyVars => GreenInv'
  <2> SUFFICES ASSUME GreenInv, VerifyTypeOK, SkipIsSound, [VerifyNext]_verifyVars PROVE GreenInv'
    OBVIOUS
  <2>1. HeadInv'
    BY HeadStep
  <2>2. \A g \in Gates : GreenSoFar(g)'
    BY GreenStep
  <2> QED BY <2>1, <2>2
<1>3. GreenInv /\ VerifyTypeOK => GreenIsGreen
  BY DEF GreenSoFar, GreenIsGreen, At
<1> QED BY <1>1, <1>2, <1>3, VerifyTypeCorrect, SkipsAreSound, PTL DEF VerifySpec
=============================================================================
