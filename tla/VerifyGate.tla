----------------------------- MODULE VerifyGate ------------------------------
(***************************************************************************)
(* scripts/verify.py with ard.testing: invocations of the verification     *)
(* gate select tests from the Git diff, skip those whose fingerprint has a *)
(* recorded pass, run the others under locks on the visible GPUs, and      *)
(* append what they found to the pass cache, while somebody edits and      *)
(* commits files of the same work tree.                                    *)
(*                                                                         *)
(* A tree maps each file to its version.  What a test finds is a function  *)
(* of the files it reads; runtime, environment and external checkouts,     *)
(* which are part of every fingerprint, do not change.  Files are neither  *)
(* created nor deleted; those of docs/, which no fingerprint of --changed  *)
(* covers, are not among them.  Left out: --base, --dry-run and            *)
(* --non-scientific, and a pytest that collects nothing.                   *)
(***************************************************************************)
EXTENDS Naturals, Sequences, FiniteSets

CONSTANTS
  Paths,       \* src, configs, tests ...
  Versions,    \* of each of them
  Tests,       \* the test files
  Impact,      \* RULES: the tests that a changed file selects
  Good,        \* the trees on which each command passes
  GpuTests,    \* the commands that select a gpu-marked test
  Scientific,  \* the commands that select a T4 or T5 test
  Gates,       \* invocations that may run at the same time
  Visible,     \* the devices that each of them sees, in its order
  Identities,  \* their names there: uuid, or name:index; compared like numbers
  First,       \* the tree that is committed at the beginning
  MaxRuns,     \* bound: invocations
  MaxEdits,    \* bound: edits and commits
  MaxKills     \* bound: invocations that are killed

Broad == "broad"  \* the one command of a tier, or of the smoke suite
Commands == Tests \cup {Broad}
Trees == [Paths -> Versions]

ASSUME VerifyAssumption ==
  /\ Tests \subseteq Paths /\ Broad \notin Paths
  /\ Impact \in [Paths -> SUBSET Tests] /\ \A t \in Tests : t \in Impact[t]
  /\ Good \in [Commands -> SUBSET Trees]
  /\ GpuTests \subseteq Commands /\ Scientific \subseteq Commands
  /\ Visible \in [Gates -> Seq(Nat)] /\ Identities \in [Gates -> Seq(Nat)]
  /\ \A g \in Gates : Len(Identities[g]) = Len(Visible[g])
  /\ \A g \in Gates : \A i, k \in DOMAIN Identities[g] :
       Identities[g][i] = Identities[g][k] => i = k
  /\ First \in Trees /\ {MaxRuns, MaxEdits, MaxKills} \subseteq Nat

VARIABLES
  work, head,  \* the work tree, and what is committed
  cache,       \* results.jsonl
  gate,        \* the invocations
  orphans,     \* GPU tests that go on after their invocation was killed
  runs, edits, kills,
  commits,     \* history: how many of the edits were commits
  slipped      \* history: fingerprints recorded for a tree that is not theirs

files == <<work, head, edits, commits>>
verifyVars == <<files, cache, gate, orphans, runs, kills, slipped>>

Nothing == [p \in {} |-> First[p]]
Idle == [pc |-> "idle", mode |-> "none", force |-> FALSE, todo |-> {}, relevant |-> {},
         command |-> "none", key |-> Nothing, held |-> {}, passed |-> FALSE,
         touched |-> FALSE, slips |-> FALSE]

VerifyInit ==
  /\ work = First /\ head = First
  /\ cache = <<>> /\ gate = [g \in Gates |-> Idle] /\ orphans = {}
  /\ runs = 0 /\ edits = 0 /\ kills = 0 /\ commits = 0 /\ slipped = {}

-----------------------------------------------------------------------------
At(g, pc) == gate[g].pc = pc
Ended == {"idle", "ok", "failed"}
Becomes(g, s) == gate' = [gate EXCEPT ![g] = s]
Ends(g, pc) == Becomes(g, [Idle EXCEPT !.pc = pc, !.mode = gate[g].mode, !.touched = gate[g].touched])

\* changed_paths, and select.
Changed == {p \in Paths : work[p] # head[p]}
\* Mutant: only test files that were edited themselves are run.
EditedTests(changed) == changed \cap Tests
Selected(changed) == UNION {Impact[p] : p \in changed}

\* PassCache.failed_commands: the latest record of a command decides.
Latest(i) == \A k \in (i + 1)..Len(cache) : cache[k].command # cache[i].command
FailedCommands ==
  {cache[i].command : i \in {k \in DOMAIN cache : Latest(k) /\ ~cache[k].passed}}

\* What is to run, and which files its fingerprints cover, is decided once.
Todo(mode) == CASE mode = "changed" -> Selected(Changed)
                [] mode = "failed" -> FailedCommands
                [] OTHER -> {Broad}
Relevant(mode) == IF mode = "changed" THEN Changed \cup Selected(Changed) ELSE Paths

Invoke(g, mode, force) ==
  /\ gate[g].pc \in Ended /\ runs < MaxRuns
  /\ runs' = runs + 1
  /\ Becomes(g, [Idle EXCEPT !.pc = "next", !.mode = mode, !.force = force,
                             !.todo = Todo(mode), !.relevant = Relevant(mode)])
  /\ UNCHANGED <<files, cache, orphans, kills, slipped>>

\* fingerprint: the command and the contents of the relevant files.
\* Mutant: which files are relevant, and not what they say.
NamesOnly(g) == [p \in gate[g].relevant |-> First[p]]
Contents(g) == [p \in gate[g].relevant |-> work[p]]

\* PassCache.has_pass: the latest record of the fingerprint decides.
HasPass(command, key) ==
  \E i \in DOMAIN cache :
    /\ cache[i].command = command /\ cache[i].key = key /\ cache[i].passed
    /\ \A k \in (i + 1)..Len(cache) :
         cache[k].command = command /\ cache[k].key = key => cache[k].passed

Skips(g, c) == ~gate[g].force /\ HasPass(c, Contents(g))

\* The next command: a pass of it is used again, or it is to be run.
NextCommand(g) ==
  /\ At(g, "next")
  /\ \E c \in gate[g].todo :
       Becomes(g, IF Skips(g, c) THEN [gate[g] EXCEPT !.todo = @ \ {c}]
                  ELSE [gate[g] EXCEPT !.todo = @ \ {c}, !.command = c, !.key = Contents(g),
                                       !.pc = "lock"])
  /\ UNCHANGED <<files, cache, runs, kills, slipped>>

Done(g) ==
  /\ At(g, "next") /\ gate[g].todo = {}
  /\ Ends(g, "ok")
  /\ UNCHANGED <<files, cache, runs, kills, slipped>>

\* Mutant: the devices are locked in the order in which they are visible.
AsVisible(g, d) ==
  \E i \in DOMAIN Identities[g] :
    Identities[g][i] = d /\ \A k \in 1..(i - 1) : Identities[g][k] \in gate[g].held
\* visible_gpu_identities: there is a lock for each identity, not for each device.
Locks(g) == {Identities[g][i] : i \in DOMAIN Identities[g]}
InOrder(g, d) == \A e \in Locks(g) \ gate[g].held : d <= e

\* GPULock.__enter__: one flock after another; other commands take none.
\* Mutant: only commands of the smoke suite and the tiers take the locks.
BroadOnly(g) == IF gate[g].command = Broad THEN Locks(g) ELSE {}
Needed(g) == IF gate[g].command \in GpuTests THEN Locks(g) ELSE {}
Free(d) == \A g \in Gates : d \notin gate[g].held
Lock(g) ==
  /\ At(g, "lock")
  /\ \E d \in Needed(g) \ gate[g].held :
       InOrder(g, d) /\ Free(d) /\ Becomes(g, [gate[g] EXCEPT !.held = @ \cup {d}])
  /\ UNCHANGED <<files, cache, runs, kills, slipped>>

\* With all of its locks it starts the test process.
Start(g) ==
  /\ At(g, "lock") /\ Needed(g) \subseteq gate[g].held
  /\ Becomes(g, [gate[g] EXCEPT !.pc = "run"])
  /\ UNCHANGED <<files, cache, runs, kills, slipped>>

\* The test process, which has read the tree, ends; the locks are given back.
Run(g) ==
  /\ At(g, "run")
  /\ Becomes(g, [gate[g] EXCEPT !.passed = work \in Good[gate[g].command], !.held = {},
                                !.pc = "record"])
  /\ UNCHANGED <<files, cache, runs, kills, slipped>>

\* command_cacheable: the command selects no T4 or T5 test.
Cacheable(g) == gate[g].command \notin Scientific
Recorded(g) == Append(cache, [command |-> gate[g].command, key |-> gate[g].key,
                             passed |-> gate[g].passed])
\* The files changed during the run, or, for --changed, since the diff was read.
Slips(g) == gate[g].slips \/ (gate[g].mode = "changed" /\ gate[g].touched)
\* PassCache.append; a failure ends the invocation.
Record(g) ==
  /\ At(g, "record")
  /\ cache' = IF Cacheable(g) THEN Recorded(g) ELSE cache
  /\ slipped' = IF Cacheable(g) /\ Slips(g) THEN slipped \cup {gate[g].key} ELSE slipped
  /\ IF gate[g].passed
       THEN Becomes(g, [gate[g] EXCEPT !.pc = "next", !.command = "none", !.key = Nothing,
                                       !.passed = FALSE, !.slips = FALSE])
       ELSE Ends(g, "failed")
  /\ UNCHANGED <<files, runs, kills>>

\* A killed invocation gives its locks back.  Its test process dies with it
\* on an interrupt; on another signal it goes on, and uses the same GPUs.
Testing(g) == At(g, "run") /\ gate[g].command \in GpuTests
Kill(g) ==
  /\ gate[g].pc \notin Ended /\ kills < MaxKills
  /\ kills' = kills + 1
  /\ Becomes(g, Idle)
  /\ UNCHANGED orphans \/ (Testing(g) /\ orphans' = orphans \cup {<<g, kills'>>})
  /\ UNCHANGED <<files, cache, runs, slipped>>
OrphanEnds ==
  /\ \E o \in orphans : orphans' = orphans \ {o}
  /\ UNCHANGED <<files, cache, gate, runs, kills, slipped>>

\* Somebody edits a file, or commits one.
Touches ==
  /\ edits < MaxEdits /\ edits' = edits + 1
  /\ gate' = [g \in Gates |-> IF gate[g].pc \in {"idle", "failed"} THEN gate[g] ELSE
                [gate[g] EXCEPT !.touched = TRUE, !.slips = @ \/ gate[g].pc \in {"lock", "run"}]]
  /\ UNCHANGED <<cache, orphans, runs, kills, slipped>>
Edit(p) ==
  /\ \E v \in Versions \ {work[p]} : work' = [work EXCEPT ![p] = v]
  /\ Touches /\ UNCHANGED <<head, commits>>
Commit(p) ==
  /\ work[p] # head[p] /\ head' = [head EXCEPT ![p] = work[p]]
  /\ Touches /\ commits' = commits + 1 /\ UNCHANGED work

GateStep(g) ==
  /\ NextCommand(g) \/ Done(g) \/ Lock(g) \/ Start(g) \/ Run(g) \/ Record(g)
  /\ UNCHANGED orphans

VerifyNext ==
  \/ \E g \in Gates :
       \/ \E mode \in {"changed", "broad", "failed"}, force \in BOOLEAN : Invoke(g, mode, force)
       \/ GateStep(g) \/ Kill(g)
  \/ OrphanEnds
  \/ \E p \in Paths : Edit(p) \/ Commit(p)

VerifySpec == VerifyInit /\ [][VerifyNext]_verifyVars
VerifyFairSpec == VerifySpec /\ \A g \in Gates : WF_verifyVars(GateStep(g))

-----------------------------------------------------------------------------
(* Properties                                                              *)

Keys == UNION {[S -> Versions] : S \in SUBSET Paths}
Result == [command : Commands, key : Keys, passed : BOOLEAN]

Invocation ==
  [pc : {"idle", "next", "lock", "run", "record", "ok", "failed"},
   mode : {"none", "changed", "broad", "failed"}, force : BOOLEAN,
   todo : SUBSET Commands, relevant : SUBSET Paths, command : Commands \cup {"none"},
   key : Keys, held : SUBSET Nat, passed : BOOLEAN, touched : BOOLEAN, slips : BOOLEAN]

\* Each variable has its shape; what is recorded is never a T4 or T5 command.
VerifyTypeOK ==
  /\ work \in Trees /\ head \in Trees
  /\ cache \in Seq(Result) /\ \A i \in DOMAIN cache : cache[i].command \notin Scientific
  /\ gate \in [Gates -> Invocation]
  /\ \A g \in Gates : gate[g].pc \in {"lock", "run", "record"} => gate[g].command \in Commands
  /\ orphans \subseteq Gates \X (Nat \ {0})
  /\ runs \in Nat /\ edits \in Nat /\ kills \in Nat /\ commits \in Nat /\ slipped \subseteq Keys

\* Does a skip of g's command c rely on a result for what is there now?
TellsTheTree(g) == ~gate[g].touched /\ Contents(g) \notin slipped

\* What an invocation would skip now passes on the tree that is there now,
\* whoever ran it when, unless files changed since the invocation began or
\* while the recorded pass was being run, or, for --changed, were committed
\* (fingerprint, has_pass, append).
SkipIsSound ==
  \A g \in Gates :
    At(g, "next") /\ TellsTheTree(g) /\ (gate[g].mode = "changed" => commits = 0) =>
      \A c \in gate[g].todo : Skips(g, c) => work \in Good[c]

\* Claimed by TEST_STRATEGY.md, where a change of the source always misses.
ChangedSkipIsSound ==
  \A g \in Gates :
    At(g, "next") /\ TellsTheTree(g) =>
      \A c \in gate[g].todo : Skips(g, c) => work \in Good[c]

\* The tests for which the rules of the selection are right: they pass on the
\* first commit, and read no file that does not select them.
Covered ==
  {t \in Tests :
     /\ First \in Good[t]
     /\ \A a \in Good[t], b \in Trees :
          (\A p \in Paths : t \in Impact[p] => a[p] = b[p]) => b \in Good[t]}

\* An invocation of --changed that ends without a failure means that all
\* tests pass which it selected, skipped ones as well, and all others for
\* which the rules are right, if nobody touched the tree meanwhile, nothing
\* was committed and no pass was recorded for another tree than its own.
GreenIsGreen ==
  \A g \in Gates :
    At(g, "ok") /\ gate[g].mode = "changed" /\ ~gate[g].touched /\ commits = 0 /\ slipped = {} =>
      \A t \in Selected(Changed) \cup Covered : work \in Good[t]

\* The GPU tests that are running, 0 for those whose invocation is alive.
GpuUsers == {<<g, 0>> : g \in {h \in Gates : Testing(h)}} \cup orphans
\* Do the invocations see a device in common, and under the same name?
SeeTheSame(g, h) ==
  \E i \in DOMAIN Visible[g], k \in DOMAIN Visible[h] :
    Visible[g][i] = Visible[h][k] /\ Identities[g][i] = Identities[h][k]

\* Two GPU tests run on one device only if it has another name for each, or
\* one of them was left behind by an invocation that was killed (GPULock).
GpuTestsApart ==
  \A u, v \in GpuUsers :
    u # v /\ SeeTheSame(u[1], v[1]) => u \in orphans \/ v \in orphans

\* Invocations that see the same devices in another order never wait for each
\* other for ever (sorted identities).
GateEnds == \A g \in Gates : At(g, "next") ~> gate[g].pc \in Ended
=============================================================================
