-------------------------- MODULE ReconcilerProofs ---------------------------
(***************************************************************************)
(* First the promises of CampaignDag for every campaign: Justified is      *)
(* inductive because no legal move leaves a terminal status, and RootCause *)
(* follows from it because the dependency graph has no cycle.  Then, over  *)
(* such campaigns, what the reconciler promises for every number of jobs,  *)
(* wakes, deaths, leases and writes of the launch gate.                    *)
(***************************************************************************)
EXTENDS Reconciler, SequenceTheorems, FiniteSetTheorems, TLAPS

LEMMA TypeStep == TypeOK /\ [Next]_vars => TypeOK'
  BY DEF TypeOK, Next, vars

\* A job that has ended keeps its status.
LEMMA EndedStays ==
  ASSUME [Next]_vars, NEW j \in Jobs, st[j] \in Terminal
  PROVE  st'[j] = st[j]
  BY DEF Next, vars, Keeps, Ends, Recovers, Retries, Blocks, Launches, Moves, Terminal, Broken

LEMMA JustifiedStep ==
  ASSUME TypeOK, Justified, [Next]_vars
  PROVE  Justified'
<1>1. CASE UNCHANGED vars
  BY <1>1 DEF Justified, vars
<1>2. CASE Next
  <2>1. \A d \in Jobs : /\ st[d] = "completed" => st'[d] = "completed"
                        /\ st[d] \in Broken => st'[d] \in Broken
    BY EndedStays DEF Terminal, Broken
  <2>2. ASSUME NEW j \in Jobs PROVE n[j] \in Nat /\ MaxAttempts[j] \in Nat /\ Deps[j] \subseteq Jobs
    BY DagAssumption DEF TypeOK, Attempts
  <2>3. ASSUME NEW j \in Jobs
        PROVE  Keeps(j) \/ Ends(j) \/ Recovers(j) \/ Retries(j) \/ Blocks(j) \/ Launches(j)
    BY <1>2 DEF Next
  <2>4. ASSUME NEW j \in Jobs, n'[j] > 0 PROVE \A d \in Deps[j] : st'[d] = "completed"
    <3>1. Launches(j) \/ n'[j] = n[j]
      BY <2>3 DEF Keeps, Ends, Recovers, Retries, Blocks, Moves
    <3> QED BY <2>1, <2>2, <2>4, <3>1 DEF Launches, Justified
  <2>5. ASSUME NEW j \in Jobs, st'[j] = "blocked" PROVE \E d \in Deps[j] : st'[d] \in Broken
    <3>1. Blocks(j) \/ st[j] = "blocked"
      BY <2>3, <2>5 DEF Keeps, Ends, Recovers, Retries, Launches, Moves
    <3> QED BY <2>1, <2>2, <3>1 DEF Blocks, Justified
  <2>6. ASSUME NEW j \in Jobs, st'[j] = "pending" PROVE n'[j] < MaxAttempts[j]
    BY <2>3, <2>6 DEF Keeps, Ends, Recovers, Retries, Blocks, Launches, Moves, Justified
  <2>7. ASSUME NEW j \in Jobs, st'[j] \in {"running", "failed", "orphaned"} PROVE n'[j] > 0
    BY <2>2, <2>3, <2>7 DEF Keeps, Ends, Recovers, Retries, Blocks, Launches, Moves, Justified
  <2> QED BY <2>4, <2>5, <2>6, <2>7 DEF Justified
<1> QED BY <1>1, <1>2

\* Every launch, every blocked job and every retry of a campaign is justified
\* by the statuses next to it in the same saved state.
THEOREM AlwaysJustified == Spec => [](TypeOK /\ Justified)
<1>1. Init => TypeOK /\ Justified
  BY DagAssumption DEF Init, TypeOK, Justified, Status, Attempts
<1>2. TypeOK /\ Justified /\ [Next]_vars => (TypeOK /\ Justified)'
  BY TypeStep, JustifiedStep
<1> QED BY <1>1, <1>2, PTL DEF Spec

\* In every campaign, however long its chains of dependencies, a blocked job
\* is explained by a job that failed or was orphaned.
THEOREM BlockedHasRootCause == Spec => []RootCause
<1>1. Justified => RootCause
  <2> SUFFICES ASSUME Justified, NEW b \in Jobs, st[b] = "blocked"
               PROVE  \E d \in Jobs : st[d] \in {"failed", "orphaned"}
    BY DEF RootCause
  <2> DEFINE S == {j \in Jobs : st[j] = "blocked"}
  <2>1. PICK j \in S : Deps[j] \cap S = {}
    BY DagAssumption DEF Acyclic
  <2>2. PICK d \in Deps[j] : st[d] \in Broken
    BY <2>1 DEF Justified
  <2>3. d \in Jobs /\ st[d] # "blocked"
    BY <2>1, <2>2, DagAssumption
  <2> QED BY <2>2, <2>3 DEF Broken
<1> QED BY <1>1, AlwaysJustified, PTL

-----------------------------------------------------------------------------
(* Types of the reconciler                                                 *)

Process == [kind : {"post", "recovery", "none"}, alive : BOOLEAN]
StateName ==
  Closed \cup {"none", "LAUNCHING", "LAUNCH_FAILED", "TRAINING", "TRAINING_FAILED",
               "TRAINING_SUCCESS", "EVALUATING"}

LEMMA NoStateIsState == ASSUME leases \in Seq(Process) PROVE NoState \in State
<1>1. 0 \in Leases
  BY LenProperties DEF Leases
<1> QED BY <1>1 DEF NoState, State, Nobody

LEMMA StatesChange ==
  ASSUME NEW s \in State, NEW v \in StateName, NEW l \in Leases, NEW a \in Nat
  PROVE  /\ [s EXCEPT !.state = v] \in State
         /\ [s EXCEPT !.state = v, !.lease = l] \in State
         /\ [s EXCEPT !.state = v, !.rlease = l] \in State
         /\ [s EXCEPT !.state = v, !.lease = l, !.attempts = a] \in State
         /\ [s EXCEPT !.rlease = l, !.rattempts = a] \in State
  BY DEF State, StateName

\* A lease that is taken, and a longer list of leases.
LEMMA LeaseTaken ==
  ASSUME leases \in Seq(Process), NEW kind \in {"post", "recovery", "none"},
         NEW alive \in BOOLEAN, Takes(kind, alive)
  PROVE  /\ leases' \in Seq(Process) /\ Len(leases') = Len(leases) + 1
         /\ NewLease \in Leases' /\ NewLease = Len(leases) + 1 /\ Leases \subseteq Leases'
         /\ leases'[NewLease] = [kind |-> kind, alive |-> alive]
         /\ \A l \in 1..Len(leases) : leases'[l] = leases[l]
<1> DEFINE p == [kind |-> kind, alive |-> alive]
<1>1. p \in Process /\ leases' = Append(leases, p) /\ Len(leases) \in Nat
  BY LenProperties DEF Process, Takes
<1> HIDE DEF p
<1>2. leases' \in Seq(Process) /\ Len(leases') = Len(leases) + 1
      /\ leases'[Len(leases) + 1] = p /\ \A l \in 1..Len(leases) : leases'[l] = leases[l]
  BY <1>1, AppendProperties
<1> QED BY <1>1, <1>2 DEF Leases, NewLease, p

LEMMA StatesStay ==
  ASSUME Leases \subseteq Leases', NEW s \in State
  PROVE  s \in State'
  BY DEF State

\* What is saved, or kept, is a state with a name.
Named(s) == s \in State /\ s.state # "none"

LEMMA NamesChange ==
  ASSUME NEW s \in State, NEW v \in StateName \ {"none"}, NEW l \in Leases, NEW a \in Nat
  PROVE  /\ Named([s EXCEPT !.state = v])
         /\ Named([s EXCEPT !.state = v, !.lease = l])
         /\ Named([s EXCEPT !.state = v, !.rlease = l])
         /\ Named([s EXCEPT !.state = v, !.lease = l, !.attempts = a])
<1>1. /\ [s EXCEPT !.state = v].state = v
      /\ [s EXCEPT !.state = v, !.lease = l].state = v
      /\ [s EXCEPT !.state = v, !.rlease = l].state = v
      /\ [s EXCEPT !.state = v, !.lease = l, !.attempts = a].state = v
  BY DEF State
<1> QED BY <1>1, StatesChange DEF Named

\* The wake that holds the lock has read a state.
WakeTypeOK == rpc # "free" => mem.state # "none"

\* The steps that start nothing.
LEMMA QuietTypes ==
  ASSUME ExpTypeOK, WakeTypeOK,
         \/ Wake \/ Idle \/ TrainingEnded \/ Postprocessing \/ CampaignActive \/ RecoveryLeased
         \/ RecoveryRefused \/ CampaignSucceeded \/ DagSucceeded \/ DagMarkers \/ Markers
         \/ Watch \/ Unregistered \/ Record
  PROVE  /\ leases' = leases /\ Named(exp') /\ mem' \in State /\ (rpc' # "free" => Named(mem'))
         /\ rpc' \in {"free", "decide", "markers", "dagMarkers", "watch", "claim", "record"}
<1>1. /\ exp \in State /\ exp.state # "none" /\ mem \in State /\ NoState \in State
      /\ complete \in Final \cup {"none"} /\ 0 \in Leases
  BY NoStateIsState, LenProperties DEF ExpTypeOK, Process, Leases
<1>2. mem.attempts \in Nat /\ Final \subseteq StateName \ {"none"}
  BY <1>1 DEF State, StateName, Final, Closed
<1>3. \A v \in StateName \ {"none"} :
        /\ Named([mem EXCEPT !.state = v])
        /\ Named([mem EXCEPT !.state = v, !.lease = Nobody])
        /\ Named([mem EXCEPT !.state = v, !.rlease = Nobody])
  BY <1>1, <1>2, NamesChange DEF Nobody
<1>4. Named(exp) /\ (rpc # "free" => Named(mem))
  BY <1>1 DEF Named, WakeTypeOK
<1>5. \A v \in StateName \ {"none"} : CloseAs(v) \/ GiveUp(v) =>
        Named(exp') /\ mem' \in State /\ rpc' = "free"
  BY <1>1, <1>3 DEF CloseAs, GiveUp, Save, Release
<1>6. {"NEEDS_RESEARCH_DECISION", "NEEDS_TECHNICAL_RECOVERY"} \subseteq StateName \ {"none"}
  BY DEF StateName, Closed
<1>7. CASE Wake \/ Idle \/ Postprocessing \/ Record
  BY <1>1, <1>4, <1>7 DEF Wake, Idle, Postprocessing, Record, Decides, GoesTo, Save, Release, Named
<1>8. CASE TrainingEnded \/ CampaignActive \/ RecoveryLeased
  <2>1. {"TRAINING_SUCCESS", "TRAINING_FAILED", "TRAINING"} \subseteq StateName \ {"none"}
    BY DEF StateName
  <2>2. \A v \in {"TRAINING_SUCCESS", "TRAINING_FAILED", "TRAINING"} : Named([mem EXCEPT !.state = v])
    BY <1>3, <2>1
  <2>3. CASE TrainingEnded
    BY <1>1, <1>4, <2>2, <2>3 DEF TrainingEnded, GoesTo, Save, Release, Named
  <2>4. CASE RecoveryLeased
    BY <1>1, <1>4, <2>2, <2>4 DEF RecoveryLeased, Save, Release, Named
  <2>5. CASE CampaignActive
    <3>1. Named([mem EXCEPT !.state = IF @ = "LAUNCHING" THEN @ ELSE "TRAINING"])
      <4>1. "LAUNCHING" \in StateName \ {"none"}
        BY DEF StateName
      <4>2. Named([mem EXCEPT !.state = "LAUNCHING"]) /\ Named([mem EXCEPT !.state = "TRAINING"])
        BY <1>3, <2>1, <4>1
      <4> QED BY <4>2
    <3> QED BY <1>1, <2>5, <3>1 DEF CampaignActive, Save, Release
  <2> QED BY <1>8, <2>3, <2>4, <2>5
<1>9. CASE RecoveryRefused
  BY <1>5, <1>6, <1>9 DEF RecoveryRefused
<1>10. CASE CampaignSucceeded \/ DagSucceeded
  <2>1. "TRAINING_SUCCESS" \in StateName \ {"none"} /\ "EVALUATING" \in StateName \ {"none"}
    BY DEF StateName
  <2>2. Named(Success)
    BY <1>3, <2>1 DEF Success
  <2>3. Named([Success EXCEPT !.state = "EVALUATING"])
    BY <1>1, <1>2, <2>1, <2>2, NamesChange DEF Named
  <2> QED BY <1>1, <1>4, <1>5, <1>6, <1>10, <2>2, <2>3
          DEF CampaignSucceeded, DagSucceeded, Save, Release, GoesTo, Named
<1>11. CASE DagMarkers \/ Markers \/ Watch \/ Unregistered
  <2>1. "EVALUATING" \in StateName \ {"none"} /\ "TRAINING_SUCCESS" \in StateName \ {"none"}
    BY DEF StateName
  <2>2. rpc # "free" /\ Named(mem)
    BY <1>4, <1>11 DEF DagMarkers, Markers, Watch, Unregistered
  <2>3. complete # "none" => complete \in StateName \ {"none"}
    BY <1>1, <1>2
  <2>4. Named([mem EXCEPT !.state = "EVALUATING"]) /\ Named([mem EXCEPT !.state = "TRAINING_SUCCESS"])
        /\ Named([mem EXCEPT !.state = "NEEDS_RESEARCH_DECISION"])
    BY <1>3, <1>6, <2>1
  <2>5. CASE Unregistered
    BY <1>5, <1>6, <2>5 DEF Unregistered
  <2>6. CASE DagMarkers \/ Markers \/ Watch
    BY <1>1, <1>4, <1>5, <1>6, <2>2, <2>3, <2>4, <2>6
       DEF DagMarkers, Markers, Watch, Save, Release, GoesTo, Named
  <2> QED BY <1>11, <2>5, <2>6
<1> QED BY <1>7, <1>8, <1>9, <1>10, <1>11

\* The steps that start a command take a lease, with or without success.
Starting(s, kind) ==
  \/ Takes(kind, TRUE) /\ mem' = s /\ rpc' = "record" /\ UNCHANGED exp
  \/ Takes("none", FALSE) /\ mem' = NoState /\ rpc' = "free" /\ exp' = s

LEMMA LeasedState ==
  ASSUME ExpTypeOK, Leases \subseteq Leases', NewLease \in Leases', NEW v \in StateName
  PROVE  /\ [mem EXCEPT !.state = v, !.rlease = NewLease, !.rattempts = mem.rattempts + 1] \in State'
         /\ [mem EXCEPT !.state = v, !.lease = NewLease, !.attempts = mem.attempts + 1] \in State'
<1>1. mem \in State /\ mem \in State'
  BY StatesStay DEF ExpTypeOK
<1>2. mem.rattempts + 1 \in Nat /\ mem.attempts + 1 \in Nat
  BY <1>1 DEF State
<1> DEFINE l == NewLease
           r == mem.rattempts + 1
           t == mem.attempts + 1
<1>3. l \in Leases' /\ r \in Nat /\ t \in Nat
  BY <1>2
<1> HIDE DEF l, r, t
<1>4. /\ [mem EXCEPT !.state = v, !.rlease = l, !.rattempts = r] \in State'
      /\ [mem EXCEPT !.state = v, !.lease = l, !.attempts = t] \in State'
  BY <1>1, <1>3 DEF State, StateName
<1> QED BY <1>4 DEF l, r, t

LEMMA RecoveryStartsDoes ==
  ASSUME ExpTypeOK, RecoveryStarts
  PROVE  \E s \in State' :
           /\ s.state \in {"TRAINING", "TRAINING_FAILED"} /\ s.lease = mem.lease
           /\ s.attempts = mem.attempts /\ s.rlease = NewLease /\ s.rattempts = mem.rattempts + 1
           /\ Starting(s, "recovery")
<1>1. mem \in State /\ leases \in Seq(Process)
  BY DEF ExpTypeOK, Process
<1> DEFINE s(v) == [mem EXCEPT !.state = v, !.rlease = NewLease, !.rattempts = mem.rattempts + 1]
<1>2. ASSUME NEW v \in StateName, NEW kind \in {"recovery", "none"}, NEW alive \in BOOLEAN,
             Takes(kind, alive)
      PROVE  s(v) \in State' /\ s(v).state = v /\ s(v).lease = mem.lease
             /\ s(v).attempts = mem.attempts /\ s(v).rlease = NewLease
             /\ s(v).rattempts = mem.rattempts + 1
  <2>1. Leases \subseteq Leases' /\ NewLease \in Leases'
    BY <1>1, <1>2, LeaseTaken
  <2>2. s(v) \in State'
    BY <2>1, LeasedState
  <2> QED BY <1>1, <2>2 DEF State
<1>3. {"TRAINING", "TRAINING_FAILED"} \subseteq StateName
  BY DEF StateName
<1>4. CASE Takes("recovery", TRUE) /\ mem' = s("TRAINING") /\ rpc' = "record" /\ UNCHANGED exp
  <2>1. s("TRAINING") \in State' /\ s("TRAINING").state = "TRAINING" /\ s("TRAINING").lease = mem.lease
        /\ s("TRAINING").attempts = mem.attempts /\ s("TRAINING").rlease = NewLease
        /\ s("TRAINING").rattempts = mem.rattempts + 1
    BY <1>2, <1>3, <1>4
  <2>2. Starting(s("TRAINING"), "recovery")
    BY <1>4 DEF Starting
  <2> HIDE DEF s
  <2> QED BY <2>1, <2>2
<1>5. CASE Takes("none", FALSE) /\ exp' = s("TRAINING_FAILED") /\ rpc' = "free" /\ mem' = NoState
  <2>1. s("TRAINING_FAILED") \in State' /\ s("TRAINING_FAILED").state = "TRAINING_FAILED" /\ s("TRAINING_FAILED").lease = mem.lease
        /\ s("TRAINING_FAILED").attempts = mem.attempts /\ s("TRAINING_FAILED").rlease = NewLease
        /\ s("TRAINING_FAILED").rattempts = mem.rattempts + 1
    BY <1>2, <1>3, <1>5
  <2>2. Starting(s("TRAINING_FAILED"), "recovery")
    BY <1>5 DEF Starting
  <2> HIDE DEF s
  <2> QED BY <2>1, <2>2
<1>6. \A v : [[mem EXCEPT !.rlease = NewLease, !.rattempts = Counted(@)] EXCEPT !.state = v] = s(v)
  BY <1>1 DEF State, Counted
<1> QED BY <1>4, <1>5, <1>6 DEF RecoveryStarts, GoesTo, Save, Release

LEMMA ClaimDoes ==
  ASSUME ExpTypeOK, Claim
  PROVE  \/ IsActive(mem.lease) /\ leases' = leases /\ exp' = mem /\ mem' = NoState /\ rpc' = "free"
         \/ /\ ~IsActive(mem.lease)
            /\ \E s \in State' :
                 /\ s.state = "EVALUATING" /\ s.lease = NewLease
                 /\ s.attempts = mem.attempts + 1 /\ s.rlease = mem.rlease
                 /\ s.rattempts = mem.rattempts
                 /\ Starting(s, "post")
<1>1. mem \in State /\ leases \in Seq(Process)
  BY DEF ExpTypeOK, Process
<1>2. CASE IsActive(mem.lease) /\ Save(mem) /\ Release /\ UNCHANGED leases
  BY <1>2 DEF Save, Release
<1> DEFINE s == [mem EXCEPT !.state = "EVALUATING", !.lease = NewLease, !.attempts = mem.attempts + 1]
<1>3. CASE /\ ~IsActive(mem.lease)
           /\ \/ Takes("post", TRUE) /\ GoesTo("record", s) /\ UNCHANGED exp
              \/ Takes("none", FALSE) /\ Save(s) /\ Release
  <2>1. Leases \subseteq Leases' /\ NewLease \in Leases'
    BY <1>1, <1>3, LeaseTaken
  <2>2. s \in State'
    BY <2>1, LeasedState DEF StateName
  <2>3. s.state = "EVALUATING" /\ s.lease = NewLease /\ s.attempts = mem.attempts + 1
        /\ s.rlease = mem.rlease /\ s.rattempts = mem.rattempts
    BY <1>1 DEF State
  <2>4. Starting(s, "post")
    BY <1>3 DEF Starting, GoesTo, Save, Release
  <2> HIDE DEF s
  <2> QED BY <1>3, <2>2, <2>3, <2>4
<1> QED BY <1>2, <1>3 DEF Claim, Counted

LEMMA StartTypes ==
  ASSUME ExpTypeOK, WakeTypeOK, RecoveryStarts \/ Claim
  PROVE  /\ Leases \subseteq Leases' /\ leases' \in Seq(Process)
         /\ exp' \in State' /\ exp'.state # "none" /\ mem' \in State'
         /\ (rpc' # "free" => mem'.state # "none") /\ rpc' \in {"free", "record"}
<1>1. /\ exp \in State /\ exp.state # "none" /\ mem \in State /\ NoState \in State
      /\ leases \in Seq(Process)
  BY NoStateIsState DEF ExpTypeOK, Process
<1>2. ASSUME NEW s \in State', s.state # "none", NEW kind \in {"post", "recovery"}, Starting(s, kind)
      PROVE  /\ Leases \subseteq Leases' /\ leases' \in Seq(Process)
             /\ exp' \in State' /\ exp'.state # "none" /\ mem' \in State'
             /\ (rpc' # "free" => mem'.state # "none") /\ rpc' \in {"free", "record"}
  <2>1. Leases \subseteq Leases' /\ leases' \in Seq(Process)
    BY <1>1, <1>2, LeaseTaken DEF Starting
  <2>2. exp \in State' /\ NoState \in State'
    BY <1>1, <2>1, StatesStay
  <2> QED BY <1>1, <1>2, <2>1, <2>2 DEF Starting
<1>3. CASE RecoveryStarts
  BY <1>2, <1>3, RecoveryStartsDoes
<1>4. CASE Claim
  <2>1. CASE leases' = leases /\ exp' = mem /\ mem' = NoState /\ rpc' = "free"
    <3>1. Leases' = Leases /\ State' = State
      BY <2>1 DEF Leases, State
    <3>2. mem.state # "none"
      BY <1>4 DEF WakeTypeOK, Claim
    <3> QED BY <1>1, <2>1, <3>1, <3>2
  <2> QED BY <1>2, <1>4, <2>1, ClaimDoes
<1> QED BY <1>3, <1>4

LEMMA CommandEndsDoes ==
  ASSUME ExpTypeOK, CommandEnds
  PROVE  /\ leases' \in Seq(Process) /\ Len(leases') = Len(leases)
         /\ \E k \in 1..Len(leases) :
              /\ leases[k].alive /\ ~leases'[k].alive
              /\ \A l \in 1..Len(leases) : /\ leases'[l].kind = leases[l].kind
                                           /\ l # k => leases'[l] = leases[l]
<1>1. leases \in Seq(Process) /\ DOMAIN leases = 1..Len(leases)
  BY LenProperties DEF ExpTypeOK, Process
<1>2. PICK k \in 1..Len(leases) : leases[k].alive /\ leases' = [leases EXCEPT ![k].alive = FALSE]
  BY <1>1 DEF CommandEnds
<1>3. leases[k] \in Process
  BY <1>1, ElementOfSeq
<1> DEFINE q == [leases[k] EXCEPT !.alive = FALSE]
<1>4. q \in Process /\ q.kind = leases[k].kind /\ ~q.alive
  BY <1>3 DEF Process
<1>5. leases' = [leases EXCEPT ![k] = q]
  BY <1>2
<1> HIDE DEF q
<1>6. leases' \in Seq(Process) /\ Len(leases') = Len(leases) /\ leases'[k] = q
      /\ \A l \in 1..Len(leases) : l # k => leases'[l] = leases[l]
  BY <1>1, <1>4, <1>5, ExceptSeq
<1> QED BY <1>2, <1>4, <1>6

LEMMA GateWritesDoes ==
  ASSUME ExpTypeOK, GateWrites
  PROVE  /\ exp' \in State /\ exp'.state \in {"TRAINING", "LAUNCH_FAILED"}
         /\ exp'.lease = gate.lease /\ exp'.attempts = gate.attempts
         /\ exp'.rlease = gate.rlease /\ exp'.rattempts = gate.rattempts
<1>1. PICK v \in {"TRAINING", "LAUNCH_FAILED"} : exp' = [gate EXCEPT !.state = v]
  BY DEF GateWrites, Save
<1>2. gate \in State
  BY DEF ExpTypeOK
<1> QED BY <1>1, <1>2 DEF State

LEMMA CampaignDoes ==
  ASSUME ExpTypeOK, Campaign
  PROVE  Next /\ TypeOK' /\ class' \in [Jobs -> Classes]
<1>1. Next /\ TypeOK /\ Required \cup results \subseteq Jobs
  BY ReconcilerAssumption DEF Campaign, ExpTypeOK
<1>2. PICK j \in Jobs : \E status \in Status, c \in Recorded[j] :
        class' = [class EXCEPT ![j] = IF status \in {"failed", "orphaned"} THEN c ELSE @]
  BY <1>1 DEF Campaign
<1>3. Recorded[j] \subseteq Classes /\ class \in [Jobs -> Classes]
  BY ReconcilerAssumption DEF ExpTypeOK
<1> QED BY <1>1, <1>2, <1>3, TypeStep

LEMMA ExpTypeStep ==
  ASSUME ExpTypeOK, WakeTypeOK, [ExpNext]_expVars
  PROVE  ExpTypeOK' /\ WakeTypeOK'
<1>1. leases \in Seq(Process) /\ NoState \in State
  BY NoStateIsState DEF ExpTypeOK, Process
<1>2. CASE Reconcile
  <2>1. UNCHANGED <<expConfig, world, expired, gate, counters>>
    BY <1>2 DEF Reconcile
  <2>2. /\ exp' \in State' /\ exp'.state # "none" /\ mem' \in State' /\ Leases \subseteq Leases'
        /\ leases' \in Seq(Process) /\ (rpc' # "free" => mem'.state # "none")
        /\ rpc' \in {"free", "decide", "markers", "dagMarkers", "watch", "claim", "record"}
    <3>1. CASE RecoveryStarts \/ Claim
      BY <3>1, StartTypes
    <3>2. CASE ~(RecoveryStarts \/ Claim)
      <4>1. leases' = leases /\ Named(exp') /\ mem' \in State /\ (rpc' # "free" => Named(mem'))
            /\ rpc' \in {"free", "decide", "markers", "dagMarkers", "watch", "claim", "record"}
        BY <1>2, <3>2, QuietTypes DEF Reconcile, WakeSteps
      <4>2. State' = State /\ Leases' = Leases
        BY <4>1 DEF State, Leases
      <4> QED BY <1>1, <4>1, <4>2 DEF Named
    <3> QED BY <3>1, <3>2
  <2>3. gate' \in State' /\ expired' \in Leases'
    <3>1. gate \in State /\ expired \in Leases
      BY DEF ExpTypeOK
    <3> QED BY <2>1, <2>2, <3>1, StatesStay
  <2> QED BY <2>1, <2>2, <2>3
          DEF ExpTypeOK, WakeTypeOK, TypeOK, expConfig, world, counters, vars, Process
<1>3. CASE CommandEnds
  <2>1. leases' \in Seq(Process) /\ Len(leases') = Len(leases)
    BY <1>3, CommandEndsDoes
  <2>2. State' = State /\ Leases' = Leases
    BY <2>1 DEF State, Leases
  <2> QED BY <1>3, <2>1, <2>2
          DEF CommandEnds, ExpTypeOK, WakeTypeOK, TypeOK, expConfig, world, wake, counters, vars, Process
<1>4. CASE UNCHANGED leases /\ (Crash \/ GateReads \/ GateWrites \/ MarkerWritten \/ LeaseExpires
                                \/ TrainingEnds \/ Campaign \/ UNCHANGED expVars)
  <2>1. State' = State /\ Leases' = Leases
    BY <1>4 DEF State, Leases
  <2>2. CASE Crash
    BY <1>1, <2>1, <2>2 DEF Crash, Release, ExpTypeOK, WakeTypeOK, TypeOK, expConfig, world, vars
  <2>3. CASE GateReads
    BY <1>1, <2>1, <2>3 DEF GateReads, ExpTypeOK, WakeTypeOK, TypeOK, expConfig, world, wake, vars
  <2>4. CASE GateWrites
    BY <1>1, <2>1, <2>4, GateWritesDoes
       DEF GateWrites, ExpTypeOK, WakeTypeOK, TypeOK, expConfig, world, wake, vars
  <2>5. CASE MarkerWritten
    BY <2>1, <2>5 DEF MarkerWritten, ExpTypeOK, WakeTypeOK, TypeOK, expConfig, wake, counters, vars
  <2>6. CASE LeaseExpires
    <3>1. expired' \in Leases
      BY <1>1, <2>6, LenProperties DEF LeaseExpires, ExpTypeOK, Leases
    <3> QED BY <2>1, <2>6, <3>1
            DEF LeaseExpires, ExpTypeOK, WakeTypeOK, TypeOK, expConfig, world, wake, counters, vars
  <2>7. CASE TrainingEnds
    BY <2>1, <2>7 DEF TrainingEnds, ExpTypeOK, WakeTypeOK, TypeOK, expConfig, wake, counters, vars
  <2>8. CASE Campaign
    BY <2>1, <2>8, CampaignDoes DEF Campaign, ExpTypeOK, WakeTypeOK, expConfig, wake, counters
  <2>9. CASE UNCHANGED expVars
    BY <2>1, <2>9 DEF expVars, ExpTypeOK, WakeTypeOK, TypeOK, expConfig, world, wake, counters, vars
  <2> QED BY <1>4, <2>2, <2>3, <2>4, <2>5, <2>6, <2>7, <2>8, <2>9
<1> QED BY <1>2, <1>3, <1>4
        DEF ExpNext, Crash, GateReads, GateWrites, MarkerWritten, LeaseExpires, TrainingEnds,
            Campaign, expVars

LEMMA AlwaysTyped == ExpSpec => [](ExpTypeOK /\ WakeTypeOK)
<1>1. ExpInit => ExpTypeOK /\ WakeTypeOK
  <2> SUFFICES ASSUME ExpInit PROVE ExpTypeOK /\ WakeTypeOK
    OBVIOUS
  <2>1. TypeOK
    BY DagAssumption DEF ExpInit, Init, TypeOK, Status, Attempts
  <2>2. leases \in Seq(Process) /\ 0 \in Leases /\ NoState \in State
    BY EmptySeq, NoStateIsState, LenProperties DEF ExpInit, Leases
  <2>3. exp \in State /\ exp.state # "none"
    BY <2>2, StatesChange DEF ExpInit, State, StateName
  <2>4. known \subseteq Parts /\ results \in {{}, ResultJobs}
    BY ReconcilerAssumption DEF ExpInit
  <2> QED BY <2>1, <2>2, <2>3, <2>4 DEF ExpInit, ExpTypeOK, WakeTypeOK, Process, Classes, Final
<1>2. ExpTypeOK /\ WakeTypeOK /\ [ExpNext]_expVars => (ExpTypeOK /\ WakeTypeOK)'
  BY ExpTypeStep
<1> QED BY <1>1, <1>2, PTL DEF ExpSpec

\* Every variable of the reconciler keeps its shape, and every lease that a
\* copy of the state names was taken.
THEOREM ReconcilerTypeCorrect == ExpSpec => []ExpTypeOK
  BY AlwaysTyped, PTL

\* What happens to the jobs beside the reconciler is a run of CampaignDag.
THEOREM CampaignsAreLegal == ExpSpec => Spec
<1>1. ExpInit => Init
  BY DEF ExpInit
<1>2. [ExpNext]_expVars => [Next]_vars
  BY DEF ExpNext, Reconcile, Crash, GateReads, GateWrites, MarkerWritten, CommandEnds,
     LeaseExpires, TrainingEnds, Campaign, expVars, world
<1> QED BY <1>1, <1>2, PTL DEF ExpSpec, Spec

-----------------------------------------------------------------------------
(* What a step makes of the state that the wake has read                   *)

\* A step that starts nothing makes s of it.
Outcome(s) ==
  /\ s.attempts = mem.attempts /\ s.rattempts = mem.rattempts
  /\ s.state \in Final => \/ s.state = mem.state
                          \/ s.state = complete /\ rpc \in {"markers", "dagMarkers"}
  /\ mode = "single" =>
       /\ s.state = "TRAINING" => mem.state = "TRAINING"
       /\ s.state = "EVALUATING" => mem.state = "EVALUATING" \/ rpc = "dagMarkers"
       /\ s.state = "TRAINING_SUCCESS" =>
            \/ mem.state = "TRAINING_SUCCESS"
            \/ mem.state = "TRAINING" /\ training = "complete"
            \/ rpc = "watch" /\ mem.attempts < MaxPost
\* And goes on with it.
Onward(s) ==
  /\ mem' = s
  /\ \/ rpc' = "markers" /\ exp' \in {exp, s} /\ rpc = "decide"
        /\ s.state \in {"TRAINING_SUCCESS", "EVALUATING"}
        /\ \/ mode = "external" /\ Succeeded
           \/ mode = "single" /\ (mem.state \in {"TRAINING_SUCCESS", "EVALUATING"}
                                  \/ training = "complete")
     \/ rpc' = "dagMarkers" /\ exp' = exp /\ rpc = "decide" /\ mode = "dag" /\ Succeeded
        /\ ~ResultsActive /\ ~ResultsFailed
     \/ rpc' = "watch" /\ exp' = exp /\ rpc = "markers" /\ s.state = "EVALUATING"
     \/ rpc' = "claim" /\ exp' = exp /\ rpc = "markers" /\ s = mem /\ s.state # "EVALUATING"
Finishes(s) == exp' = s /\ rpc' = "free" /\ mem' = NoState

LEMMA QuietDoes ==
  ASSUME ExpTypeOK,
         \/ Idle \/ TrainingEnded \/ Postprocessing \/ CampaignActive \/ RecoveryLeased
         \/ RecoveryRefused \/ CampaignSucceeded \/ DagSucceeded \/ DagMarkers \/ Markers
         \/ Watch \/ Unregistered \/ Record
  PROVE  rpc # "free" /\ leases' = leases /\ \E s : Outcome(s) /\ (Onward(s) \/ Finishes(s))
<1>1. mem \in State /\ complete \in Final \cup {"none"}
  BY DEF ExpTypeOK
<1>2. \A v, l : LET a == [mem EXCEPT !.state = v]
                    b == [mem EXCEPT !.state = v, !.lease = l]
                    c == [mem EXCEPT !.state = v, !.rlease = l]
                IN \A s \in {a, b, c} : s.state = v /\ s.attempts = mem.attempts
                                                   /\ s.rattempts = mem.rattempts
  BY <1>1 DEF State
<1>3. Outcome(mem)
  BY DEF Outcome
<1>4. ASSUME NEW v, v \notin Final \cup {"TRAINING", "EVALUATING", "TRAINING_SUCCESS"},
             CloseAs(v) \/ GiveUp(v)
      PROVE  \E s : Outcome(s) /\ Finishes(s)
  <2>1. Outcome([mem EXCEPT !.state = v, !.lease = Nobody])
        /\ Outcome([mem EXCEPT !.state = v, !.rlease = Nobody])
    BY <1>2, <1>4 DEF Outcome
  <2> QED BY <1>4, <2>1 DEF CloseAs, GiveUp, Save, Release, Finishes
<1>5. {"NEEDS_RESEARCH_DECISION", "NEEDS_TECHNICAL_RECOVERY"} \cap
        (Final \cup {"TRAINING", "EVALUATING", "TRAINING_SUCCESS"}) = {}
  BY DEF Final
<1>6. ASSUME complete # "none", CloseAs(complete), rpc \in {"markers", "dagMarkers"}
      PROVE  \E s : Outcome(s) /\ Finishes(s)
  <2>1. Outcome([mem EXCEPT !.state = complete, !.lease = Nobody])
    BY <1>1, <1>2, <1>6 DEF Outcome, Final
  <2> QED BY <1>6, <2>1 DEF CloseAs, Save, Release, Finishes
<1>7. CASE Idle \/ Record
  BY <1>3, <1>7 DEF Idle, Record, Save, Release, Finishes
<1>8. CASE TrainingEnded
  <2>1. mem.state = "TRAINING" /\ rpc = "decide" /\ mode = "single" /\ leases' = leases
    BY <1>8 DEF TrainingEnded, Decides
  <2>2. CASE training = "complete"
    <3> DEFINE s == [mem EXCEPT !.state = "TRAINING_SUCCESS"]
    <3>1. Outcome(s) /\ s.state = "TRAINING_SUCCESS"
      BY <1>2, <2>1, <2>2 DEF Outcome, Final
    <3>2. mem' = s /\ rpc' = "markers" /\ exp' = exp
      BY <1>8, <2>2 DEF TrainingEnded, GoesTo
    <3> HIDE DEF s
    <3> QED BY <2>1, <2>2, <3>1, <3>2 DEF Onward
  <2>3. CASE training # "complete"
    <3> DEFINE s == [mem EXCEPT !.state = "TRAINING_FAILED"]
    <3>1. Outcome(s)
      BY <1>2 DEF Outcome, Final
    <3>2. Finishes(s)
      BY <1>8, <2>3 DEF TrainingEnded, Save, Release, Finishes
    <3> HIDE DEF s
    <3> QED BY <2>1, <3>1, <3>2
  <2> QED BY <2>2, <2>3
<1>9. CASE Postprocessing
  BY <1>3, <1>9 DEF Postprocessing, Decides, GoesTo, Onward
<1>10. CASE CampaignActive \/ RecoveryLeased
  <2>1. mode # "single" /\ rpc # "free" /\ leases' = leases
    BY <1>10 DEF CampaignActive, RecoveryLeased, Failed, DecidesCampaign, Decides
  <2>2. \A v : v \notin Final => Outcome([mem EXCEPT !.state = v])
    BY <1>2, <2>1 DEF Outcome
  <2>3. CASE CampaignActive
    <3> DEFINE v == IF mem.state = "LAUNCHING" THEN "LAUNCHING" ELSE "TRAINING"
    <3>1. [mem EXCEPT !.state = IF @ = "LAUNCHING" THEN @ ELSE "TRAINING"] = [mem EXCEPT !.state = v]
      BY <1>1 DEF State
    <3>2. Outcome([mem EXCEPT !.state = v]) /\ Finishes([mem EXCEPT !.state = v])
      BY <2>2, <2>3, <3>1 DEF CampaignActive, Save, Release, Finishes, Final
    <3> QED BY <2>1, <3>2
  <2>4. CASE RecoveryLeased
    <3>1. Outcome([mem EXCEPT !.state = "TRAINING_FAILED"]) /\ Finishes([mem EXCEPT !.state = "TRAINING_FAILED"])
      BY <2>2, <2>4 DEF RecoveryLeased, Save, Release, Finishes, Final
    <3> QED BY <2>1, <3>1
  <2> QED BY <1>10, <2>3, <2>4
<1>11. CASE RecoveryRefused
  BY <1>4, <1>5, <1>11 DEF RecoveryRefused, Failed, DecidesCampaign, Decides
<1>12. CASE CampaignSucceeded \/ DagSucceeded
  <2>1. mode # "single" /\ rpc = "decide" /\ leases' = leases /\ Succeeded
    BY <1>12 DEF CampaignSucceeded, DagSucceeded, Succeeded, DecidesCampaign, Decides
  <2>2. Outcome(Success) /\ Success.state = "TRAINING_SUCCESS"
    BY <1>2, <2>1 DEF Outcome, Success, Final
  <2>3. CASE CampaignSucceeded
    <3>1. Onward(Success)
      BY <2>1, <2>2, <2>3 DEF CampaignSucceeded, Save, GoesTo, Onward
    <3> QED BY <2>1, <2>2, <3>1
  <2>4. CASE DagSucceeded /\ ResultsActive
    <3> DEFINE s == [Success EXCEPT !.state = "EVALUATING"]
    <3>1. s = [mem EXCEPT !.state = "EVALUATING", !.rlease = Nobody]
      BY <1>1 DEF Success, State
    <3>2. s.state = "EVALUATING" /\ s.attempts = mem.attempts /\ s.rattempts = mem.rattempts
      BY <1>1, <3>1 DEF State
    <3>3. Finishes(s)
      BY <2>4 DEF DagSucceeded, Save, Release, Finishes
    <3> HIDE DEF s
    <3>4. Outcome(s)
      BY <2>1, <3>2 DEF Outcome, Final
    <3> QED BY <2>1, <3>3, <3>4
  <2>5. CASE DagSucceeded /\ ~ResultsActive /\ ResultsFailed
    <3>1. GiveUp("NEEDS_RESEARCH_DECISION") \/ GiveUp("NEEDS_TECHNICAL_RECOVERY")
      BY <2>5 DEF DagSucceeded
    <3> QED BY <1>4, <1>5, <2>1, <3>1
  <2>6. CASE DagSucceeded /\ ~ResultsActive /\ ~ResultsFailed
    <3>1. Onward(Success)
      BY <2>1, <2>6 DEF DagSucceeded, GoesTo, Onward
    <3> QED BY <2>1, <2>2, <3>1
  <2> QED BY <1>12, <2>3, <2>4, <2>5, <2>6
<1>13. CASE DagMarkers
  <2>1. rpc = "dagMarkers" /\ leases' = leases
    BY <1>13 DEF DagMarkers
  <2>2. ASSUME NEW v \in {"EVALUATING", "NEEDS_RESEARCH_DECISION"},
               Save([mem EXCEPT !.state = v]) /\ Release
        PROVE  \E s : Outcome(s) /\ Finishes(s)
    <3>1. Outcome([mem EXCEPT !.state = v])
      BY <1>2, <2>1, <2>2 DEF Outcome, Final
    <3> QED BY <2>1, <2>2, <3>1 DEF Save, Release, Finishes
  <2> QED BY <1>4, <1>5, <1>6, <1>13, <2>1, <2>2 DEF DagMarkers
<1>14. CASE Markers
  <2>1. rpc = "markers" /\ leases' = leases
    BY <1>14 DEF Markers
  <2>2. CASE GoesTo(IF mem.state = "EVALUATING" THEN "watch" ELSE "claim", mem) /\ UNCHANGED exp
    BY <1>3, <2>1, <2>2 DEF GoesTo, Onward
  <2> QED BY <1>4, <1>5, <1>6, <1>14, <2>1, <2>2 DEF Markers
<1>15. CASE Watch
  <2>1. rpc = "watch" /\ leases' = leases
    BY <1>15 DEF Watch
  <2>2. CASE mem.attempts < MaxPost /\ Save([mem EXCEPT !.state = "TRAINING_SUCCESS"]) /\ Release
    <3>1. Outcome([mem EXCEPT !.state = "TRAINING_SUCCESS"])
      BY <1>2, <2>1, <2>2 DEF Outcome, Final
    <3> QED BY <2>1, <2>2, <3>1 DEF Save, Release, Finishes
  <2>3. mem.attempts \in Nat /\ MaxPost \in Nat
    BY <1>1, ReconcilerAssumption DEF State
  <2>4. CASE Save(mem) /\ Release
    BY <1>3, <2>1, <2>4 DEF Save, Release, Finishes
  <2>5. CASE CloseAs("NEEDS_RESEARCH_DECISION")
    BY <1>4, <1>5, <2>1, <2>5
  <2>6. \/ Save(mem) /\ Release
        \/ CloseAs("NEEDS_RESEARCH_DECISION")
        \/ mem.attempts < MaxPost /\ Save([mem EXCEPT !.state = "TRAINING_SUCCESS"]) /\ Release
    BY <1>15, <2>3 DEF Watch
  <2> QED BY <2>2, <2>4, <2>5, <2>6
<1>16. CASE Unregistered
  BY <1>4, <1>5, <1>16 DEF Unregistered
<1> QED BY <1>7, <1>8, <1>9, <1>10, <1>11, <1>12, <1>13, <1>14, <1>15, <1>16

-----------------------------------------------------------------------------
(* What only grows                                                         *)

LEMMA Grows ==
  ASSUME ExpTypeOK, [ExpNext]_expVars
  PROVE  /\ mode' = mode /\ results' = results
         /\ complete # "none" => complete' = complete
         /\ training # "alive" => training' = training
         /\ \A j \in Jobs : st[j] \in Terminal => st'[j] = st[j]
         /\ slips' \in {slips, slips + 1} /\ undone' \in {undone, undone + 1}
<1>1. [Next]_vars
  BY DEF ExpNext, Reconcile, Crash, GateReads, GateWrites, MarkerWritten, CommandEnds,
     LeaseExpires, TrainingEnds, Campaign, expVars, world
<1>2. \A j \in Jobs : st[j] \in Terminal => st'[j] = st[j]
  BY <1>1, EndedStays
<1>3. slips \in Nat /\ undone \in Nat
  BY DEF ExpTypeOK
<1> QED
  BY <1>2, <1>3
     DEF ExpNext, Reconcile, Crash, GateReads, GateWrites, MarkerWritten, CommandEnds,
         LeaseExpires, TrainingEnds, Campaign, expVars, expConfig, world, counters

\* The control of a wake, and of the gate, which never touches a single process.
Control ==
  /\ rpc = "markers" => mode # "dag" /\ mem.state \in {"TRAINING_SUCCESS", "EVALUATING"}
  /\ rpc = "dagMarkers" => mode = "dag"
  /\ rpc = "watch" => mem.state = "EVALUATING"
  /\ rpc = "claim" => mem.state = "TRAINING_SUCCESS"
  /\ mode = "single" => gate = NoState

\* A wake step, in one of four shapes.
LEMMA WakeShapes ==
  ASSUME ExpTypeOK, Reconcile
  PROVE  \/ rpc = "free" /\ rpc' = "decide" /\ mem' = exp /\ UNCHANGED <<exp, leases>>
         \/ rpc # "free" /\ leases' = leases /\ \E s : Outcome(s) /\ (Onward(s) \/ Finishes(s))
         \/ RecoveryStarts
         \/ Claim
<1>1. CASE Wake
  BY <1>1 DEF Wake, GoesTo
<1>2. CASE \/ Idle \/ TrainingEnded \/ Postprocessing \/ CampaignActive \/ RecoveryLeased
           \/ RecoveryRefused \/ CampaignSucceeded \/ DagSucceeded \/ DagMarkers \/ Markers
           \/ Watch \/ Unregistered \/ Record
  BY <1>2, QuietDoes
<1> QED BY <1>1, <1>2 DEF Reconcile, WakeSteps

LEMMA ControlStep ==
  ASSUME ExpTypeOK, Control, [ExpNext]_expVars
  PROVE  Control'
<1>1. mode' = mode /\ exp \in State
  BY Grows DEF ExpTypeOK
<1>2. CASE Reconcile
  <2>1. gate' = gate
    BY <1>2 DEF Reconcile
  <2>2. CASE RecoveryStarts
    BY <1>1, <2>1, <2>2, RecoveryStartsDoes DEF Starting, Control
  <2>3. CASE Claim
    BY <1>1, <2>1, <2>3, ClaimDoes DEF Starting, Control
  <2>4. CASE \E s : Outcome(s) /\ (Onward(s) \/ Finishes(s))
    <3>1. PICK s : Onward(s) \/ Finishes(s)
      BY <2>4
    <3> QED BY <1>1, <2>1, <3>1 DEF Onward, Finishes, Control
  <2>5. CASE rpc' = "decide"
    BY <1>1, <2>1, <2>5 DEF Control
  <2> QED BY <1>2, <2>2, <2>3, <2>4, <2>5, WakeShapes
<1>3. CASE Crash \/ GateWrites \/ GateReads
  BY <1>1, <1>3 DEF Crash, GateWrites, GateReads, Release, Control, expConfig, wake
<1>4. CASE UNCHANGED <<wake, gate>>
  BY <1>1, <1>4 DEF Control, wake
<1> QED BY <1>2, <1>3, <1>4
        DEF ExpNext, MarkerWritten, CommandEnds, LeaseExpires, TrainingEnds, Campaign, expVars

-----------------------------------------------------------------------------
(* Final states                                                            *)

Trained ==
  IF mode = "single" THEN training = "complete" ELSE \A j \in Required : st[j] = "completed"
ResultsDone == mode = "dag" => \A j \in results : st[j] = "completed"
Backed(s) ==
  /\ s.state \in Final => s.state = complete /\ Trained /\ ResultsDone
  /\ mode = "single" /\ s.state \in {"TRAINING_SUCCESS", "EVALUATING"} => training = "complete"

\* What the saved state, and the one a wake works on, were decided from.
BackedInv ==
  /\ Backed(exp)
  /\ rpc # "free" => Backed(mem)
  /\ rpc \in {"markers", "dagMarkers"} => Trained /\ ResultsDone

LEMMA BackingStays ==
  ASSUME ExpTypeOK, [ExpNext]_expVars
  PROVE  /\ Trained => Trained'
         /\ ResultsDone => ResultsDone'
         /\ \A s : Backed(s) => (s.state \in Final => s.state = complete' /\ Trained' /\ ResultsDone')
              /\ (mode' = "single" /\ s.state \in {"TRAINING_SUCCESS", "EVALUATING"}
                    => training' = "complete")
<1>1. Required \subseteq Jobs /\ results \subseteq Jobs
  BY ReconcilerAssumption DEF ExpTypeOK
<1>2. mode' = mode /\ results' = results
  BY Grows
<1>3. \A j \in Jobs : st[j] = "completed" => st'[j] = "completed"
  BY Grows DEF Terminal
<1>4. training = "complete" => training' = "complete"
  BY Grows
<1>5. complete # "none" => complete' = complete
  BY Grows
<1>6. (Trained => Trained') /\ (ResultsDone => ResultsDone')
  BY <1>1, <1>2, <1>3, <1>4 DEF Trained, ResultsDone
<1> QED BY <1>2, <1>4, <1>5, <1>6 DEF Backed, Final

\* A wake that finds nothing active and nothing failed finds all completed.
LEMMA SuccessIsTrained ==
  ASSUME ExpTypeOK, Succeeded
  PROVE  mode # "single" /\ Trained /\ (~ResultsActive /\ ~ResultsFailed => ResultsDone)
<1>1. Required \subseteq Jobs /\ results \subseteq Jobs /\ st \in [Jobs -> Status]
  BY ReconcilerAssumption DEF ExpTypeOK, TypeOK
<1>2. \A j \in Required \cup results :
         st[j] \in {"pending", "running"} \/ st[j] = "completed" \/ j \in Failures
  BY <1>1 DEF Status, Terminal, Failures
<1>3. mode # "single" /\ ~Active /\ ~TrainingFailed
  BY DEF Succeeded, DecidesCampaign, Decides
<1> QED BY <1>2, <1>3 DEF Active, TrainingFailed, ResultsActive, ResultsFailed, Trained, ResultsDone

LEMMA BackedStep ==
  ASSUME ExpTypeOK, Control, BackedInv, [ExpNext]_expVars
  PROVE  BackedInv'
<1> DEFINE BackedThen(s) ==
             /\ s.state \in Final => s.state = complete' /\ Trained' /\ ResultsDone'
             /\ mode' = "single" /\ s.state \in {"TRAINING_SUCCESS", "EVALUATING"}
                  => training' = "complete"
<1>1. /\ \A s : Backed(s) => BackedThen(s)
      /\ (Trained => Trained') /\ (ResultsDone => ResultsDone')
  BY BackingStays
<1>2. ASSUME BackedThen(exp'), rpc' # "free" => BackedThen(mem'),
             rpc' \in {"markers", "dagMarkers"} => Trained' /\ ResultsDone'
      PROVE  BackedInv'
  BY <1>2 DEF BackedInv, Backed
<1> HIDE DEF BackedThen
<1>3. BackedThen(exp) /\ (rpc # "free" => BackedThen(mem))
  BY <1>1 DEF BackedInv
<1>4. CASE Reconcile
  <2>1. CASE RecoveryStarts
    <3>1. mode # "single" /\ mode' = mode
      BY <2>1, Grows DEF RecoveryStarts, Failed, DecidesCampaign, Decides
    <3>2. PICK s : s.state \in {"TRAINING", "TRAINING_FAILED"} /\ Starting(s, "recovery")
      BY <2>1, RecoveryStartsDoes
    <3>3. BackedThen(s)
      BY <3>2 DEF BackedThen, Final
    <3> QED BY <1>2, <1>3, <3>2, <3>3 DEF Starting
  <2>2. CASE Claim
    <3>1. rpc = "claim" /\ mem.state = "TRAINING_SUCCESS" /\ Backed(mem)
      BY <2>2 DEF Claim, Control, BackedInv
    <3>2. CASE exp' = mem /\ rpc' = "free"
      BY <1>2, <1>3, <3>1, <3>2
    <3>3. ASSUME NEW s, s.state = "EVALUATING", Starting(s, "post")
          PROVE  BackedInv'
      <4>1. Backed(s)
        BY <3>1, <3>3 DEF Backed, Final
      <4>2. BackedThen(s)
        BY <1>1, <4>1
      <4> QED BY <1>2, <1>3, <3>3, <4>2 DEF Starting
    <3> QED BY <2>2, <3>2, <3>3, ClaimDoes
  <2>3. CASE rpc # "free" /\ \E s : Outcome(s) /\ (Onward(s) \/ Finishes(s))
    <3>1. PICK s : Outcome(s) /\ (Onward(s) \/ Finishes(s))
      BY <2>3
    <3>2. Backed(mem) /\ (rpc \in {"markers", "dagMarkers"} => Trained /\ ResultsDone)
      BY <2>3 DEF BackedInv
    <3>3. Backed(s)
      BY <3>1, <3>2 DEF Outcome, Backed, Control
    <3>4. rpc' \in {"markers", "dagMarkers"} => Trained /\ ResultsDone
      <4>1. CASE rpc' = "markers"
        BY <3>1, <3>2, <4>1, SuccessIsTrained DEF Onward, Finishes, Backed, Trained, ResultsDone
      <4>2. CASE rpc' = "dagMarkers"
        BY <3>1, <4>2, SuccessIsTrained DEF Onward, Finishes
      <4> QED BY <4>1, <4>2
    <3>5. BackedThen(s) /\ (rpc' \in {"markers", "dagMarkers"} => Trained' /\ ResultsDone')
      BY <1>1, <3>3, <3>4
    <3> QED BY <1>2, <1>3, <3>1, <3>5 DEF Onward, Finishes
  <2>4. CASE rpc' = "decide" /\ mem' = exp /\ UNCHANGED exp
    BY <1>2, <1>3, <2>4
  <2> QED BY <1>4, <2>1, <2>2, <2>3, <2>4, WakeShapes
<1>5. CASE Crash
  BY <1>2, <1>3, <1>5 DEF Crash, Release
<1>6. CASE GateWrites
  <2>1. exp'.state \in {"TRAINING", "LAUNCH_FAILED"}
    BY <1>6, GateWritesDoes
  <2>2. BackedThen(exp')
    BY <2>1 DEF BackedThen, Final
  <2>3. UNCHANGED wake
    BY <1>6 DEF GateWrites
  <2> QED BY <1>1, <1>2, <1>3, <2>2, <2>3 DEF BackedInv, wake
<1>7. CASE UNCHANGED <<exp, wake>>
  BY <1>1, <1>2, <1>3, <1>7 DEF BackedInv, wake
<1> QED BY <1>4, <1>5, <1>6, <1>7
        DEF ExpNext, GateReads, MarkerWritten, CommandEnds, LeaseExpires, TrainingEnds, Campaign, expVars

\* Whatever the order of wakes, deaths, late markers and writes of the gate,
\* an experiment is final only with its marker and its completed jobs.
THEOREM FinalStatesAreBacked == ExpSpec => []FinalIsBacked
<1>1. ExpInit => Control /\ BackedInv
  <2> SUFFICES ASSUME ExpInit PROVE Control /\ BackedInv
    OBVIOUS
  <2>1. exp.state \in {"TRAINING", "LAUNCHING"} /\ rpc = "free" /\ gate = NoState
    BY DEF ExpInit, NoState
  <2> QED BY <2>1 DEF Control, BackedInv, Backed, Final
<1>2. ExpTypeOK /\ Control /\ BackedInv /\ [ExpNext]_expVars => (Control /\ BackedInv)'
  BY ControlStep, BackedStep
<1>3. BackedInv => FinalIsBacked
  BY DEF BackedInv, Backed, Trained, ResultsDone, FinalIsBacked
<1> QED BY <1>1, <1>2, <1>3, AlwaysTyped, PTL DEF ExpSpec

-----------------------------------------------------------------------------
(* Recoveries                                                              *)

Repairable ==
  Started("recovery") # {} =>
    /\ mode # "single" /\ ~Active
    /\ \A j \in Required : st[j] \in {"failed", "orphaned"} => class[j] = "retryable"

\* Only the wake starts commands, one at a time.
LEMMA StartedGrows ==
  ASSUME ExpTypeOK, [ExpNext]_expVars, NEW kind \in {"post", "recovery"}
  PROVE  \/ Started(kind)' = Started(kind)
         \/ /\ Started(kind)' = Started(kind) \cup {NewLease} /\ NewLease \notin Started(kind)
            /\ Reconcile /\ rpc' = "record" /\ exp' = exp
            /\ \/ RecoveryStarts /\ kind = "recovery"
               \/ Claim /\ kind = "post"
<1>1. leases \in Seq(Process) /\ DOMAIN leases = 1..Len(leases) /\ Len(leases) \in Nat
  BY LenProperties DEF ExpTypeOK, Process
<1>2. CASE leases' = leases
  BY <1>2 DEF Started
<1>3. CASE CommandEnds
  <2>1. leases' \in Seq(Process) /\ Len(leases') = Len(leases)
        /\ \A l \in 1..Len(leases) : leases'[l].kind = leases[l].kind
    BY <1>3, CommandEndsDoes
  <2>2. DOMAIN leases' = DOMAIN leases
    BY <1>1, <2>1, LenProperties
  <2> QED BY <1>1, <2>1, <2>2 DEF Started
<1>4. ASSUME NEW p \in {"post", "recovery", "none"}, NEW alive \in BOOLEAN, Takes(p, alive)
      PROVE  IF p = kind THEN Started(kind)' = Started(kind) \cup {NewLease} /\ NewLease \notin Started(kind)
             ELSE Started(kind)' = Started(kind)
  <2> DEFINE q == [kind |-> p, alive |-> alive]
  <2>0. q.kind = p
    OBVIOUS
  <2> HIDE DEF q
  <2>1. /\ leases' \in Seq(Process) /\ Len(leases') = Len(leases) + 1
        /\ NewLease = Len(leases) + 1 /\ leases'[NewLease].kind = p
        /\ \A l \in 1..Len(leases) : leases'[l] = leases[l]
    <3>1. /\ leases' \in Seq(Process) /\ Len(leases') = Len(leases) + 1
          /\ NewLease = Len(leases) + 1 /\ \A l \in 1..Len(leases) : leases'[l] = leases[l]
      BY <1>1, <1>4, LeaseTaken
    <3>2. leases'[NewLease] = q
      BY <1>1, <1>4, LeaseTaken DEF q
    <3> QED BY <2>0, <3>1, <3>2
  <2>2. DOMAIN leases' = 1..Len(leases')
    BY <2>1, LenProperties
  <2>3. DOMAIN leases' = DOMAIN leases \cup {NewLease} /\ NewLease \notin DOMAIN leases
    BY <1>1, <2>1, <2>2
  <2> QED BY <1>1, <2>1, <2>3 DEF Started
<1>5. CASE Reconcile
  <2>1. CASE RecoveryStarts
    <3>1. PICK s : Starting(s, "recovery")
      BY <2>1, RecoveryStartsDoes
    <3> QED BY <1>4, <1>5, <2>1, <3>1 DEF Starting
  <2>2. CASE Claim
    <3>1. CASE \E s : Starting(s, "post")
      <4>1. PICK s : Starting(s, "post")
        BY <3>1
      <4> QED BY <1>4, <1>5, <2>2, <4>1 DEF Starting
    <3> QED BY <1>2, <2>2, <3>1, ClaimDoes
  <2> QED BY <1>2, <1>5, <2>1, <2>2, WakeShapes
<1> QED BY <1>2, <1>3, <1>5
        DEF ExpNext, Crash, GateReads, GateWrites, MarkerWritten, LeaseExpires, TrainingEnds,
            Campaign, expVars

\* The required jobs of a campaign that is not active any more stay as they are.
LEMMA InactiveStays ==
  ASSUME ExpTypeOK, ~Active, [ExpNext]_expVars
  PROVE  ~Active' /\ \A j \in Required : st'[j] = st[j] /\ class'[j] = class[j]
<1>1. Required \cup results \subseteq Jobs /\ st \in [Jobs -> Status] /\ class \in [Jobs -> Classes]
  BY ReconcilerAssumption DEF ExpTypeOK, TypeOK
<1>2. \A j \in Required : st[j] \in Terminal
  BY <1>1 DEF Active, Status
<1>3. \A j \in Required : st'[j] = st[j]
  BY <1>1, <1>2, Grows
<1>4. ASSUME NEW k \in Required PROVE class'[k] = class[k]
  <2>1. CASE Campaign
    <3>1. PICK j \in Jobs : \E status \in Status, c \in Recorded[j] :
            /\ class' = [class EXCEPT ![j] = IF status \in {"failed", "orphaned"} THEN c ELSE @]
            /\ Next /\ ~Keeps(j)
      BY <1>1, <2>1 DEF Campaign
    <3>2. j # k
      <4>1. Next /\ ~Keeps(j)
        BY <3>1
      <4>2. st[j] \notin Terminal
        BY <4>1 DEF Next, Ends, Recovers, Retries, Blocks, Launches, Moves, Terminal, Broken
      <4> QED BY <1>2, <4>2
    <3> QED BY <1>1, <3>1, <3>2
  <2>2. CASE UNCHANGED class
    BY <2>2
  <2> QED BY <2>1, <2>2
          DEF ExpNext, Reconcile, Crash, GateReads, GateWrites, MarkerWritten, CommandEnds,
              LeaseExpires, TrainingEnds, expVars, world
<1> QED BY <1>1, <1>2, <1>3, <1>4 DEF Active, Terminal, Broken

LEMMA RepairableStep ==
  ASSUME ExpTypeOK, Repairable, [ExpNext]_expVars
  PROVE  Repairable'
<1>1. mode' = mode
  BY Grows
<1>2. ASSUME Started("recovery") # {} PROVE Repairable'
  BY <1>1, <1>2, InactiveStays DEF Repairable
<1>3. ASSUME Started("recovery") = {}, RecoveryStarts PROVE Repairable'
  <2>1. mode # "single" /\ ~Active /\ FailureClass = "retryable"
    BY <1>3 DEF RecoveryStarts, Failed, DecidesCampaign, Decides
  <2>2. \A j \in Required : st[j] \in {"failed", "orphaned"} => class[j] = "retryable"
    BY <2>1 DEF FailureClass, Failures, Broken
  <2> QED BY <1>1, <2>1, <2>2, InactiveStays DEF Repairable
<1> QED BY <1>2, <1>3, StartedGrows DEF Repairable

\* No recovery command is ever run on a failure that may be a finding.
THEOREM RecoveriesAreTechnical == ExpSpec => []ScienceIsNotRepaired
<1>1. ExpInit => Repairable
  BY DEF ExpInit, Repairable, Started
<1>2. ExpTypeOK /\ Repairable /\ [ExpNext]_expVars => Repairable'
  BY RepairableStep
<1>3. Repairable => ScienceIsNotRepaired
  BY DEF Repairable, ScienceIsNotRepaired
<1> QED BY <1>1, <1>2, <1>3, AlwaysTyped, PTL DEF ExpSpec

-----------------------------------------------------------------------------
(* How often a command is started                                          *)

Recoveries == Cardinality(Started("recovery"))
Posts == Cardinality(Started("post"))
Allowance == MaxRecovery * undone + slips
\* A command that was started and is not recorded yet.
Unrecorded == IF rpc = "record" THEN 1 ELSE 0

RecoveryBudget ==
  /\ exp.rattempts <= MaxRecovery /\ mem.rattempts <= MaxRecovery /\ gate.rattempts <= MaxRecovery
  /\ Recoveries <= exp.rattempts + Allowance + Unrecorded
  /\ rpc # "free" => Recoveries <= mem.rattempts + Allowance

\* An attempt is left wherever a single process waits for its postprocess.
Eligible(s) ==
  /\ s.attempts <= MaxPost
  /\ s.state \in {"TRAINING", "TRAINING_SUCCESS"} => s.attempts < MaxPost
  /\ s.state = "TRAINING" => s.attempts = 0
PostBudget ==
  mode = "single" =>
    /\ Eligible(exp) /\ Posts <= exp.attempts + slips + Unrecorded
    /\ rpc # "free" => Eligible(mem) /\ Posts <= mem.attempts + slips

LEMMA StartedFinite ==
  ASSUME ExpTypeOK, NEW kind \in {"post", "recovery"}
  PROVE  IsFiniteSet(Started(kind)) /\ Cardinality(Started(kind)) \in Nat
<1>1. IsFiniteSet(Started(kind))
  <2>1. DOMAIN leases = 1..Len(leases) /\ Len(leases) \in Nat
    BY LenProperties DEF ExpTypeOK, Process
  <2>2. Started(kind) \subseteq 1..Len(leases)
    BY <2>1 DEF Started
  <2>3. IsFiniteSet(1..Len(leases))
    BY <2>1, FS_Interval
  <2> QED BY <2>2, <2>3, FS_Subset
<1> QED BY <1>1, FS_CardinalityType

LEMMA StartedCount ==
  ASSUME ExpTypeOK, [ExpNext]_expVars, NEW kind \in {"post", "recovery"}
  PROVE  /\ Cardinality(Started(kind)) \in Nat /\ Cardinality(Started(kind))' \in Nat
         /\ \/ Cardinality(Started(kind))' = Cardinality(Started(kind))
            \/ /\ Cardinality(Started(kind))' = Cardinality(Started(kind)) + 1
               /\ Reconcile /\ rpc' = "record" /\ exp' = exp
               /\ \/ RecoveryStarts /\ kind = "recovery"
                  \/ Claim /\ kind = "post"
<1>1. IsFiniteSet(Started(kind))
  BY StartedFinite
<1>2. Cardinality(Started(kind)) \in Nat
  BY StartedFinite
<1>3. NewLease \notin Started(kind) =>
        Cardinality(Started(kind) \cup {NewLease}) = Cardinality(Started(kind)) + 1
  BY <1>1, FS_AddElement
<1>4. CASE Started(kind)' = Started(kind)
  <2>1. Cardinality(Started(kind))' = Cardinality(Started(kind))
    BY <1>4
  <2> QED BY <1>2, <2>1
<1>5. CASE Started(kind)' = Started(kind) \cup {NewLease} /\ NewLease \notin Started(kind)
  <2>1. Cardinality(Started(kind))' = Cardinality(Started(kind)) + 1
    BY <1>3, <1>5
  <2>2. \/ Started(kind)' = Started(kind)
        \/ /\ Reconcile /\ rpc' = "record" /\ exp' = exp
           /\ \/ RecoveryStarts /\ kind = "recovery"
              \/ Claim /\ kind = "post"
    BY StartedGrows
  <2>3. Started(kind)' # Started(kind)
    BY <1>5
  <2> QED BY <1>2, <2>1, <2>2, <2>3
<1> QED BY <1>4, <1>5, StartedGrows

LEMMA NumbersOK ==
  ASSUME ExpTypeOK
  PROVE  /\ slips \in Nat /\ undone \in Nat /\ Allowance \in Nat /\ Unrecorded \in {0, 1}
         /\ MaxRecovery \in Nat /\ MaxPost \in Nat \ {0}
         /\ \A s \in {exp, mem, gate} : s.attempts \in Nat /\ s.rattempts \in Nat
         /\ NoState.attempts = 0 /\ NoState.rattempts = 0
<1>1. slips \in Nat /\ undone \in Nat /\ MaxRecovery \in Nat /\ MaxPost \in Nat \ {0}
  BY ReconcilerAssumption DEF ExpTypeOK
<1>2. MaxRecovery * undone \in Nat
  BY <1>1
<1>3. \A s \in {exp, mem, gate} : s.attempts \in Nat /\ s.rattempts \in Nat
  BY DEF ExpTypeOK, State
<1> QED BY <1>1, <1>2, <1>3 DEF Allowance, Unrecorded, NoState

LEMMA Sums ==
  ASSUME NEW a \in Nat, NEW m \in Nat, NEW s \in Nat, NEW b \in {a, a + m}, NEW t \in {s, s + 1}
  PROVE  /\ b + t \in Nat /\ b + t >= a + s
         /\ b = a + m => b + t >= a + s + m
         /\ t = s + 1 => b + t >= a + s + 1
<1>1. CASE b = a
  BY <1>1
<1>2. CASE b = a + m
  BY <1>2
<1> QED BY <1>1, <1>2

LEMMA AllowanceGrows ==
  ASSUME ExpTypeOK, [ExpNext]_expVars
  PROVE  /\ Allowance' \in Nat /\ Allowance' >= Allowance
         /\ undone' = undone + 1 => Allowance' >= Allowance + MaxRecovery
         /\ rpc = "record" /\ rpc' # "record" => Reconcile \/ Allowance' >= Allowance + 1
         /\ rpc = "record" /\ rpc' # "record" => Reconcile \/ slips' = slips + 1
<1>1. slips \in Nat /\ undone \in Nat /\ MaxRecovery \in Nat
  BY NumbersOK
<1>2. slips' \in {slips, slips + 1} /\ undone' \in {undone, undone + 1}
  BY Grows
<1>3. MaxRecovery * (undone + 1) = MaxRecovery * undone + MaxRecovery /\ MaxRecovery * undone \in Nat
  BY <1>1
<1>4. rpc = "record" /\ rpc' # "record" => Reconcile \/ slips' = slips + 1
  BY DEF ExpNext, Crash, GateReads, GateWrites, MarkerWritten, CommandEnds, LeaseExpires,
         TrainingEnds, Campaign, expVars, wake
<1>5. MaxRecovery * undone' \in {MaxRecovery * undone, MaxRecovery * undone + MaxRecovery}
  BY <1>2, <1>3
<1>6. undone' = undone + 1 => MaxRecovery * undone' = MaxRecovery * undone + MaxRecovery
  BY <1>3
<1> DEFINE a == MaxRecovery * undone
           b == MaxRecovery * undone'
<1>7. a \in Nat /\ b \in {a, a + MaxRecovery} /\ (undone' = undone + 1 => b = a + MaxRecovery)
      /\ Allowance = a + slips /\ Allowance' = b + slips'
  BY <1>3, <1>5, <1>6 DEF Allowance
<1> HIDE DEF a, b
<1>8. slips' \in Nat
  BY <1>1, <1>2
<1>9. /\ Allowance' \in Nat /\ Allowance' >= Allowance
      /\ undone' = undone + 1 => Allowance' >= Allowance + MaxRecovery
      /\ slips' = slips + 1 => Allowance' >= Allowance + 1
  BY <1>1, <1>2, <1>7, <1>8, Sums
<1> QED BY <1>4, <1>9

LEMMA RecoveryBudgetStep ==
  ASSUME ExpTypeOK, RecoveryBudget, [ExpNext]_expVars
  PROVE  RecoveryBudget'
<1>1. /\ Allowance \in Nat /\ MaxRecovery \in Nat /\ Unrecorded \in {0, 1}
      /\ NoState.rattempts = 0 /\ exp.rattempts \in Nat /\ mem.rattempts \in Nat /\ gate.rattempts \in Nat
  BY NumbersOK
<1>2. /\ Recoveries \in Nat /\ Recoveries' \in Nat
      /\ \/ Recoveries' = Recoveries
         \/ Recoveries' = Recoveries + 1 /\ RecoveryStarts /\ rpc' = "record"
  BY StartedCount DEF Recoveries
<1>3. /\ Allowance' \in Nat /\ Allowance' >= Allowance
      /\ undone' = undone + 1 => Allowance' >= Allowance + MaxRecovery
      /\ rpc = "record" /\ rpc' # "record" => Reconcile \/ Allowance' >= Allowance + 1
  BY AllowanceGrows
<1>4. /\ exp.rattempts <= MaxRecovery /\ mem.rattempts <= MaxRecovery /\ gate.rattempts <= MaxRecovery
      /\ Recoveries <= exp.rattempts + Allowance + Unrecorded
      /\ rpc # "free" => Recoveries <= mem.rattempts + Allowance
  BY DEF RecoveryBudget
<1>5. Unrecorded' = IF rpc' = "record" THEN 1 ELSE 0
  BY DEF Unrecorded
<1>6. CASE Reconcile
  <2>1. Allowance' = Allowance /\ gate' = gate
    BY <1>6 DEF Reconcile, Allowance, counters
  <2>2. ASSUME NEW s, Finishes(s), rpc # "free", s.rattempts = mem.rattempts, Recoveries' = Recoveries
        PROVE  RecoveryBudget'
    BY <1>1, <1>4, <1>5, <2>1, <2>2 DEF Finishes, RecoveryBudget
  <2>3. CASE RecoveryStarts
    <3>1. PICK s : s.rattempts = mem.rattempts + 1 /\ Starting(s, "recovery")
      BY <2>3, RecoveryStartsDoes
    <3>2. mem.rattempts < MaxRecovery /\ rpc = "decide"
      BY <2>3 DEF RecoveryStarts, Failed, DecidesCampaign, Decides
    <3>3. s.rattempts <= MaxRecovery /\ s.rattempts \in Nat
      BY <1>1, <3>1, <3>2
    <3>4. CASE rpc' = "record" /\ mem' = s /\ exp' = exp
      BY <1>1, <1>2, <1>4, <1>5, <2>1, <3>1, <3>2, <3>3, <3>4 DEF RecoveryBudget, Unrecorded
    <3>5. CASE rpc' = "free" /\ mem' = NoState /\ exp' = s
      BY <1>1, <1>2, <1>4, <1>5, <2>1, <3>1, <3>2, <3>3, <3>5 DEF RecoveryBudget, Unrecorded
    <3> QED BY <3>1, <3>4, <3>5 DEF Starting
  <2>4. CASE Claim
    <3>1. Recoveries' = Recoveries /\ rpc = "claim"
      BY <1>2, <2>4 DEF Claim, RecoveryStarts, Failed, DecidesCampaign, Decides
    <3>2. ASSUME NEW s, s.rattempts = mem.rattempts, Starting(s, "post")
          PROVE  RecoveryBudget'
      <4>1. CASE rpc' = "record" /\ mem' = s /\ exp' = exp
        BY <1>1, <1>2, <1>4, <1>5, <2>1, <3>1, <3>2, <4>1 DEF RecoveryBudget, Unrecorded
      <4>2. CASE Finishes(s)
        BY <2>2, <3>1, <3>2, <4>2
      <4> QED BY <3>2, <4>1, <4>2 DEF Starting, Finishes
    <3>3. CASE exp' = mem /\ mem' = NoState /\ rpc' = "free"
      BY <2>2, <3>1, <3>3 DEF Finishes
    <3> QED BY <2>4, <3>2, <3>3, ClaimDoes
  <2>5. CASE rpc # "free" /\ leases' = leases /\ \E s : Outcome(s) /\ (Onward(s) \/ Finishes(s))
    <3>1. PICK s : Outcome(s) /\ (Onward(s) \/ Finishes(s))
      BY <2>5
    <3>2. s.rattempts = mem.rattempts /\ Recoveries' = Recoveries
      BY <2>5, <3>1 DEF Outcome, Recoveries, Started
    <3>3. CASE Onward(s)
      <4>1. mem' = s /\ exp' \in {exp, s} /\ rpc \in {"decide", "markers"} /\ rpc' # "record"
        BY <3>3 DEF Onward
      <4> QED BY <1>1, <1>4, <1>5, <2>1, <2>5, <3>2, <4>1 DEF RecoveryBudget, Unrecorded
    <3> QED BY <2>2, <2>5, <3>1, <3>2, <3>3
  <2>6. CASE rpc = "free" /\ rpc' = "decide" /\ mem' = exp /\ UNCHANGED <<exp, leases>>
    <3>1. Recoveries' = Recoveries
      BY <2>6 DEF Recoveries, Started
    <3> QED BY <1>1, <1>4, <1>5, <2>1, <2>6, <3>1 DEF RecoveryBudget, Unrecorded
  <2> QED BY <1>6, <2>3, <2>4, <2>5, <2>6, WakeShapes
<1>7. Reconcile \/ Recoveries' = Recoveries
  BY StartedCount DEF Recoveries
<1>8. CASE Crash /\ ~Reconcile
  <2>1. rpc' = "free" /\ mem' = NoState /\ exp' = exp /\ gate' = gate /\ Recoveries' = Recoveries
    BY <1>7, <1>8 DEF Crash, Release
  <2> QED BY <1>1, <1>2, <1>3, <1>4, <1>5, <1>8, <2>1 DEF RecoveryBudget, Unrecorded
<1>9. CASE GateReads /\ ~Reconcile
  <2>1. rpc' = rpc /\ mem' = mem /\ exp' = exp /\ gate' = exp /\ Recoveries' = Recoveries
    BY <1>7, <1>9 DEF GateReads, wake
  <2> QED BY <1>1, <1>2, <1>3, <1>4, <1>5, <2>1 DEF RecoveryBudget, Unrecorded
<1>10. CASE GateWrites /\ ~Reconcile
  <2>1. /\ rpc' = rpc /\ mem' = mem /\ gate' = NoState /\ Recoveries' = Recoveries
        /\ gate = exp \/ undone' = undone + 1
    BY <1>7, <1>10 DEF GateWrites, wake
  <2>2. exp'.rattempts = gate.rattempts
    BY <1>10, GateWritesDoes
  <2>3. CASE gate = exp
    BY <1>1, <1>2, <1>3, <1>4, <1>5, <2>1, <2>2, <2>3 DEF RecoveryBudget, Unrecorded
  <2>4. CASE undone' = undone + 1
    <3>1. Recoveries <= MaxRecovery + Allowance
      BY <1>1, <1>2, <1>4 DEF Unrecorded
    <3> QED BY <1>1, <1>2, <1>3, <1>4, <1>5, <2>1, <2>2, <2>4, <3>1 DEF RecoveryBudget, Unrecorded
  <2> QED BY <2>1, <2>3, <2>4
<1>11. CASE UNCHANGED <<exp, wake, gate>> /\ ~Reconcile
  BY <1>1, <1>2, <1>3, <1>4, <1>5, <1>7, <1>11 DEF RecoveryBudget, Unrecorded, wake
<1> QED BY <1>6, <1>8, <1>9, <1>10, <1>11
        DEF ExpNext, MarkerWritten, CommandEnds, LeaseExpires, TrainingEnds, Campaign, expVars

LEMMA PostBudgetStep ==
  ASSUME ExpTypeOK, Control, PostBudget, [ExpNext]_expVars
  PROVE  PostBudget'
<1> SUFFICES ASSUME mode = "single"
             PROVE  /\ Eligible(exp)' /\ Posts' <= exp'.attempts + slips' + Unrecorded'
                    /\ rpc' # "free" => Eligible(mem)' /\ Posts' <= mem'.attempts + slips'
  BY Grows DEF PostBudget
<1> DEFINE Fits(s) == Eligible(s) /\ Posts' <= s.attempts + slips'
<1>1. /\ slips \in Nat /\ MaxPost \in Nat \ {0} /\ Unrecorded \in {0, 1}
      /\ exp.attempts \in Nat /\ mem.attempts \in Nat /\ NoState.attempts = 0
  BY NumbersOK
<1>2. /\ Posts \in Nat /\ Posts' \in Nat
      /\ \/ Posts' = Posts
         \/ Posts' = Posts + 1 /\ Claim /\ rpc' = "record" /\ exp' = exp
      /\ Reconcile \/ Posts' = Posts
  BY StartedCount DEF Posts
<1>3. slips' \in {slips, slips + 1} /\ (rpc = "record" /\ rpc' # "record" => Reconcile \/ slips' = slips + 1)
  BY Grows, AllowanceGrows
<1>4. /\ Eligible(exp) /\ Posts <= exp.attempts + slips + Unrecorded
      /\ rpc # "free" => Eligible(mem) /\ Posts <= mem.attempts + slips
  BY DEF PostBudget
<1>5. Unrecorded' = (IF rpc' = "record" THEN 1 ELSE 0) /\ \A s : Eligible(s)' <=> Eligible(s)
  BY DEF Unrecorded, Eligible
<1>6. CASE Reconcile
  <2>1. slips' = slips
    BY <1>6 DEF Reconcile, counters
  <2>2. CASE RecoveryStarts
    BY <2>2 DEF RecoveryStarts, Failed, DecidesCampaign, Decides
  <2>3. CASE Claim
    <3>1. rpc = "claim" /\ mem.state = "TRAINING_SUCCESS" /\ Eligible(mem) /\ Posts <= mem.attempts + slips
          /\ mem.attempts < MaxPost /\ Unrecorded = 0
      BY <1>4, <2>3 DEF Claim, Control, Eligible, Unrecorded
    <3>2. ASSUME NEW s, s.state = "EVALUATING", s.attempts = mem.attempts + 1
          PROVE  Eligible(s) /\ Posts' <= s.attempts + slips'
      BY <1>1, <1>2, <2>1, <3>1, <3>2 DEF Eligible
    <3>3. CASE \E s : s.state = "EVALUATING" /\ s.attempts = mem.attempts + 1 /\ Starting(s, "post")
      <4>1. PICK s : s.state = "EVALUATING" /\ s.attempts = mem.attempts + 1 /\ Starting(s, "post")
        BY <3>3
      <4>2. Eligible(s) /\ Posts' <= s.attempts + slips'
        BY <3>2, <4>1
      <4>3. CASE mem' = s /\ rpc' = "record" /\ exp' = exp
        BY <1>1, <1>2, <1>4, <1>5, <2>1, <3>1, <4>2, <4>3 DEF Eligible
      <4>4. CASE exp' = s /\ rpc' = "free"
        BY <1>1, <1>2, <1>5, <2>1, <4>1, <4>2, <4>4 DEF Eligible
      <4> QED BY <4>1, <4>3, <4>4 DEF Starting
    <3>4. CASE exp' = mem /\ rpc' = "free"
      BY <1>1, <1>2, <1>5, <2>1, <3>1, <3>4 DEF Eligible
    <3> QED BY <2>3, <3>3, <3>4, ClaimDoes
  <2>4. CASE rpc # "free" /\ leases' = leases /\ \E s : Outcome(s) /\ (Onward(s) \/ Finishes(s))
    <3>1. PICK s : Outcome(s) /\ (Onward(s) \/ Finishes(s))
      BY <2>4
    <3>2. Posts' = Posts
      BY <2>4 DEF Posts, Started
    <3>3. Eligible(s) /\ s.attempts = mem.attempts
      BY <1>1, <1>4, <2>4, <3>1 DEF Outcome, Eligible, Control
    <3>4. CASE Onward(s)
      <4>1. mem' = s /\ exp' \in {exp, s} /\ Unrecorded = 0 /\ rpc' # "record"
        BY <3>4 DEF Onward, Unrecorded
      <4> QED BY <1>1, <1>2, <1>4, <1>5, <2>1, <2>4, <3>2, <3>3, <4>1 DEF Eligible
    <3>5. CASE Finishes(s)
      BY <1>1, <1>2, <1>4, <1>5, <2>1, <2>4, <3>2, <3>3, <3>5 DEF Finishes, Eligible
    <3> QED BY <3>1, <3>4, <3>5
  <2>5. CASE rpc = "free" /\ rpc' = "decide" /\ mem' = exp /\ UNCHANGED <<exp, leases>>
    <3>1. Posts' = Posts /\ Unrecorded = 0
      BY <2>5 DEF Posts, Started, Unrecorded
    <3> QED BY <1>1, <1>2, <1>4, <1>5, <2>1, <2>5, <3>1 DEF Eligible
  <2> QED BY <1>6, <2>2, <2>3, <2>4, <2>5, WakeShapes
<1>7. CASE Crash /\ ~Reconcile
  <2>1. rpc' = "free" /\ exp' = exp /\ Posts' = Posts
    BY <1>2, <1>7 DEF Crash, Release
  <2> QED BY <1>1, <1>2, <1>3, <1>4, <1>5, <1>7, <2>1 DEF Eligible, Unrecorded
<1>8. CASE GateReads \/ GateWrites
  BY <1>8 DEF GateReads, GateWrites, Control
<1>9. CASE UNCHANGED <<exp, wake>> /\ ~Reconcile
  BY <1>1, <1>2, <1>3, <1>4, <1>5, <1>9 DEF Eligible, Unrecorded, wake
<1> QED BY <1>6, <1>7, <1>8, <1>9
        DEF ExpNext, MarkerWritten, CommandEnds, LeaseExpires, TrainingEnds, Campaign, expVars

\* However often wakes die and the gate writes, and whatever the leases do,
\* the number of commands that are ever started has this bound.
THEOREM StartsStayBounded == ExpSpec => []StartsBounded
<1>1. ExpInit => Control /\ RecoveryBudget /\ PostBudget
  <2> SUFFICES ASSUME ExpInit PROVE Control /\ RecoveryBudget /\ PostBudget
    OBVIOUS
  <2>1. exp.state \in {"TRAINING", "LAUNCHING"} /\ rpc = "free" /\ gate = NoState /\ mem = NoState
        /\ exp.attempts = 0 /\ exp.rattempts = 0 /\ slips = 0 /\ undone = 0
    BY DEF ExpInit, NoState
  <2>2. Started("recovery") = {} /\ Started("post") = {}
    BY DEF ExpInit, Started
  <2>3. Recoveries = 0 /\ Posts = 0
    BY <2>2, FS_EmptySet DEF Recoveries, Posts
  <2>4. Allowance = 0 /\ Unrecorded = 0 /\ MaxRecovery \in Nat /\ MaxPost \in Nat \ {0}
        /\ NoState.rattempts = 0
    BY <2>1, ReconcilerAssumption DEF Allowance, Unrecorded, NoState
  <2> QED BY <2>1, <2>3, <2>4 DEF Control, RecoveryBudget, PostBudget, Eligible
<1>2. ExpTypeOK /\ Control /\ RecoveryBudget /\ PostBudget /\ [ExpNext]_expVars
        => (Control /\ RecoveryBudget /\ PostBudget)'
  BY ControlStep, RecoveryBudgetStep, PostBudgetStep
<1>3. ExpTypeOK /\ RecoveryBudget /\ PostBudget => StartsBounded
  <2> SUFFICES ASSUME ExpTypeOK, RecoveryBudget, PostBudget PROVE StartsBounded
    OBVIOUS
  <2>1. Recoveries \in Nat /\ Posts \in Nat
    BY StartedFinite DEF Recoveries, Posts
  <2>2. Recoveries <= MaxRecovery + Allowance
    BY <2>1, NumbersOK DEF RecoveryBudget, Unrecorded
  <2>3. MaxRecovery * (undone + 1) = MaxRecovery * undone + MaxRecovery
    BY NumbersOK
  <2>4. MaxRecovery + Allowance = MaxRecovery * (undone + 1) + slips
    BY <2>3, NumbersOK DEF Allowance
  <2>5. mode = "single" => Posts <= MaxPost + slips
    BY <2>1, NumbersOK DEF PostBudget, Unrecorded, Eligible
  <2> QED BY <2>2, <2>4, <2>5 DEF StartsBounded, Recoveries, Posts
<1> QED BY <1>1, <1>2, <1>3, AlwaysTyped, PTL DEF ExpSpec

-----------------------------------------------------------------------------
(* Who owns the commands that run                                          *)

\* The lease of a command that runs, as a copy of the state knows it.
Known(k, l) == k <= expired \/ k <= l
Owned(k, s) == s.state \in Closed \/ (s.state = "EVALUATING" /\ s.lease = k)
Marked == complete # "none" \/ failure

\* A campaign that is recovered has failed for good: no step of a wake forgets
\* the lease of a recovery, unless it ran out.
RecoveryKnown ==
  /\ Started("recovery") # {} => TrainingFailed
  /\ \A k \in Running("recovery") :
       /\ rpc # "record" => Known(k, exp.rlease)
       /\ rpc # "free" => Known(k, mem.rlease)

\* The lease of a postprocess is only forgotten for a marker, or when it ran
\* out; that of a single process not before it ended.
PostKnown ==
  \A k \in Running("post") :
    /\ mode # "dag"
    /\ mode = "external" =>
         /\ rpc # "record" => Marked \/ Known(k, exp.lease)
         /\ rpc \notin {"free", "claim"} => Marked \/ Known(k, mem.lease)
         /\ rpc = "claim" => Known(k, mem.lease)
    /\ mode = "single" =>
         /\ rpc # "record" => Owned(k, exp)
         /\ rpc # "free" => Owned(k, mem)

Apart ==
  \A kind \in {"post", "recovery"} : \A k, l \in Running(kind) :
    k < l => k <= expired /\ (kind = "post" => mode # "single")

OwnerInv ==
  /\ rpc \in {"claim", "watch"} => mode # "dag"
  /\ slips = 0 /\ undone = 0 => RecoveryKnown /\ PostKnown /\ Apart

\* What a step that starts nothing keeps of the leases.
Keeping(s) ==
  /\ s.rlease = mem.rlease \/ Succeeded \/ ~IsActive(mem.rlease)
  /\ \/ s.lease = mem.lease \/ Marked \/ ~Busy(mem.lease)
     \/ rpc = "claim" /\ ~IsActive(mem.lease) /\ s.state \in Closed
  /\ mode = "single" /\ mem.state \in Closed => s.state \in Closed
  /\ mode = "single" /\ mem.state = "EVALUATING" =>
       s = mem \/ s.state \in Closed \/ ~Alive(mem.lease)
GoesOn(s) ==
  /\ mem' = s /\ exp' \in {exp, s} /\ rpc # "record" /\ rpc' \notin {"free", "record"}
  /\ rpc' \in {"claim", "watch"} => rpc = "markers"
  /\ rpc' = "claim" => s = mem /\ ~Marked

LEMMA QuietKeeps ==
  ASSUME ExpTypeOK, Control,
         \/ Idle \/ TrainingEnded \/ Postprocessing \/ CampaignActive \/ RecoveryLeased
         \/ RecoveryRefused \/ CampaignSucceeded \/ DagSucceeded \/ DagMarkers \/ Markers
         \/ Watch \/ Unregistered \/ Record
  PROVE  rpc # "free" /\ leases' = leases /\ \E s : Keeping(s) /\ (GoesOn(s) \/ Finishes(s))
<1>1. mem \in State /\ complete \in Final \cup {"none"}
  BY DEF ExpTypeOK
<1>2. \A v : LET a == [mem EXCEPT !.state = v]
                 b == [mem EXCEPT !.state = v, !.lease = Nobody]
                 c == [mem EXCEPT !.state = v, !.rlease = Nobody]
             IN /\ a.state = v /\ a.lease = mem.lease /\ a.rlease = mem.rlease
                /\ b.state = v /\ b.rlease = mem.rlease
                /\ c.state = v /\ c.lease = mem.lease
  BY <1>1 DEF State
<1>3. Keeping(mem)
  BY DEF Keeping
<1>4. ASSUME NEW v \in Closed, CloseAs(v),
             Marked \/ ~Busy(mem.lease) \/ (rpc = "claim" /\ ~IsActive(mem.lease))
      PROVE  \E s : Keeping(s) /\ Finishes(s)
  <2> DEFINE s == [mem EXCEPT !.state = v, !.lease = Nobody]
  <2>1. Keeping(s)
    BY <1>2, <1>4 DEF Keeping
  <2>2. Finishes(s)
    BY <1>4 DEF CloseAs, Save, Release, Finishes
  <2> QED BY <2>1, <2>2
<1>5. ASSUME NEW v \in Closed, GiveUp(v), Succeeded \/ ~IsActive(mem.rlease)
      PROVE  \E s : Keeping(s) /\ Finishes(s)
  <2> DEFINE s == [mem EXCEPT !.state = v, !.rlease = Nobody]
  <2>1. Keeping(s)
    BY <1>2, <1>5 DEF Keeping
  <2>2. Finishes(s)
    BY <1>5 DEF GiveUp, Save, Release, Finishes
  <2> QED BY <2>1, <2>2
<1>6. /\ {"NEEDS_RESEARCH_DECISION", "NEEDS_TECHNICAL_RECOVERY"} \subseteq Closed
      /\ complete # "none" => complete \in Closed
      /\ {"TRAINING", "EVALUATING", "TRAINING_SUCCESS"} \cap Closed = {}
  BY <1>1 DEF Closed, Final
<1>7. ASSUME NEW v, mode # "single" \/ mem.state \notin Closed \cup {"EVALUATING"}
      PROVE  Keeping([mem EXCEPT !.state = v])
  BY <1>2, <1>7 DEF Keeping
<1>8. CASE Idle \/ Record
  BY <1>3, <1>8 DEF Idle, Record, Save, Release, Finishes
<1>9. CASE TrainingEnded
  <2>1. mem.state = "TRAINING" /\ rpc = "decide" /\ leases' = leases
    BY <1>9 DEF TrainingEnded, Decides
  <2>2. CASE training = "complete"
    <3> DEFINE s == [mem EXCEPT !.state = "TRAINING_SUCCESS"]
    <3>1. Keeping(s)
      BY <1>6, <1>7, <2>1
    <3>2. GoesOn(s)
      BY <1>9, <2>1, <2>2 DEF TrainingEnded, GoesTo, GoesOn
    <3> QED BY <2>1, <3>1, <3>2
  <2>3. CASE training # "complete"
    <3> DEFINE s == [mem EXCEPT !.state = "TRAINING_FAILED"]
    <3>1. Keeping(s)
      BY <1>6, <1>7, <2>1
    <3>2. Finishes(s)
      BY <1>9, <2>3 DEF TrainingEnded, Save, Release, Finishes
    <3> QED BY <2>1, <3>1, <3>2
  <2> QED BY <2>2, <2>3
<1>10. CASE Postprocessing
  <2>1. GoesOn(mem) /\ rpc = "decide" /\ leases' = leases
    BY <1>10 DEF Postprocessing, Decides, GoesTo, GoesOn
  <2> QED BY <1>3, <2>1
<1>11. CASE CampaignActive \/ RecoveryLeased
  <2>1. mode # "single" /\ rpc # "free" /\ leases' = leases
    BY <1>11 DEF CampaignActive, RecoveryLeased, Failed, DecidesCampaign, Decides
  <2>2. PICK v : exp' = [mem EXCEPT !.state = v] /\ Release
    <3>1. CASE CampaignActive
      <4> DEFINE v == IF mem.state = "LAUNCHING" THEN "LAUNCHING" ELSE "TRAINING"
      <4>1. [mem EXCEPT !.state = IF @ = "LAUNCHING" THEN @ ELSE "TRAINING"] = [mem EXCEPT !.state = v]
        BY <1>1 DEF State
      <4> QED BY <3>1, <4>1 DEF CampaignActive, Save
    <3>2. CASE RecoveryLeased
      BY <3>2 DEF RecoveryLeased, Save
    <3> QED BY <1>11, <3>1, <3>2
  <2> QED BY <1>7, <2>1, <2>2 DEF Finishes, Release
<1>12. CASE RecoveryRefused
  <2>1. rpc # "free" /\ leases' = leases /\ ~IsActive(mem.rlease) /\ GiveUp("NEEDS_RESEARCH_DECISION")
    BY <1>12 DEF RecoveryRefused, Failed, DecidesCampaign, Decides
  <2> QED BY <1>5, <1>6, <2>1
<1>13. CASE CampaignSucceeded \/ DagSucceeded
  <2>1. mode # "single" /\ rpc = "decide" /\ leases' = leases /\ Succeeded
    BY <1>13 DEF CampaignSucceeded, DagSucceeded, Succeeded, DecidesCampaign, Decides
  <2>2. \A v : Keeping([mem EXCEPT !.state = v, !.rlease = Nobody])
    BY <1>2, <2>1 DEF Keeping
  <2>3. Keeping(Success)
    BY <2>2 DEF Success
  <2>4. CASE CampaignSucceeded
    <3>1. GoesOn(Success)
      BY <2>1, <2>4 DEF CampaignSucceeded, Save, GoesTo, GoesOn
    <3> QED BY <2>1, <2>3, <3>1
  <2>5. CASE DagSucceeded /\ ResultsActive
    <3> DEFINE s == [Success EXCEPT !.state = "EVALUATING"]
    <3>1. s = [mem EXCEPT !.state = "EVALUATING", !.rlease = Nobody]
      BY <1>1 DEF Success, State
    <3>2. Keeping(s)
      BY <2>2, <3>1
    <3>3. Finishes(s)
      BY <2>5 DEF DagSucceeded, Save, Release, Finishes
    <3> QED BY <2>1, <3>2, <3>3
  <2>6. CASE DagSucceeded /\ ~ResultsActive /\ ResultsFailed
    <3>1. GiveUp("NEEDS_RESEARCH_DECISION") \/ GiveUp("NEEDS_TECHNICAL_RECOVERY")
      BY <2>6 DEF DagSucceeded
    <3> QED BY <1>5, <1>6, <2>1, <3>1
  <2>7. CASE DagSucceeded /\ ~ResultsActive /\ ~ResultsFailed
    <3>1. GoesOn(Success)
      BY <2>1, <2>7 DEF DagSucceeded, GoesTo, GoesOn
    <3> QED BY <2>1, <2>3, <3>1
  <2> QED BY <1>13, <2>4, <2>5, <2>6, <2>7
<1>14. CASE DagMarkers
  <2>1. rpc = "dagMarkers" /\ mode = "dag" /\ leases' = leases
    BY <1>14 DEF DagMarkers, Control
  <2>2. ASSUME NEW v, Save([mem EXCEPT !.state = v]) /\ Release
        PROVE  \E s : Keeping(s) /\ Finishes(s)
    BY <1>7, <2>1, <2>2 DEF Save, Release, Finishes
  <2>3. CASE Marked /\ \E v \in Closed : CloseAs(v)
    BY <1>4, <2>1, <2>3
  <2> QED BY <1>6, <1>14, <2>1, <2>2, <2>3 DEF DagMarkers, Marked
<1>15. CASE Markers
  <2>1. rpc = "markers" /\ leases' = leases
    BY <1>15 DEF Markers
  <2>2. CASE GoesTo(IF mem.state = "EVALUATING" THEN "watch" ELSE "claim", mem) /\ UNCHANGED exp /\ ~Marked
    BY <1>3, <2>1, <2>2 DEF GoesTo, GoesOn
  <2>3. CASE Marked /\ \E v \in Closed : CloseAs(v)
    BY <1>4, <2>1, <2>3
  <2> QED BY <1>6, <1>15, <2>1, <2>2, <2>3 DEF Markers, Marked
<1>16. CASE Watch
  <2>1. rpc = "watch" /\ mem.state = "EVALUATING" /\ leases' = leases
    BY <1>16 DEF Watch, Control
  <2>2. CASE Save(mem) /\ Release
    BY <1>3, <2>1, <2>2 DEF Save, Release, Finishes
  <2>3. CASE ~Busy(mem.lease) /\ Save([mem EXCEPT !.state = "TRAINING_SUCCESS"]) /\ Release
    <3> DEFINE s == [mem EXCEPT !.state = "TRAINING_SUCCESS"]
    <3>1. Keeping(s)
      BY <1>2, <1>6, <2>1, <2>3 DEF Keeping, Busy
    <3>2. Finishes(s)
      BY <2>3 DEF Save, Release, Finishes
    <3> QED BY <2>1, <3>1, <3>2
  <2>4. CASE ~Busy(mem.lease) /\ CloseAs("NEEDS_RESEARCH_DECISION")
    BY <1>4, <1>6, <2>1, <2>4
  <2> QED BY <1>16, <2>2, <2>3, <2>4 DEF Watch
<1>17. CASE Unregistered
  BY <1>4, <1>6, <1>17 DEF Unregistered
<1> QED BY <1>8, <1>9, <1>10, <1>11, <1>12, <1>13, <1>14, <1>15, <1>16, <1>17

\* Only a command that the wake starts begins to run.
LEMMA RunningGrows ==
  ASSUME ExpTypeOK, [ExpNext]_expVars, NEW kind \in {"post", "recovery"}
  PROVE  \/ Running(kind)' \subseteq Running(kind)
         \/ /\ Running(kind)' \subseteq Running(kind) \cup {NewLease}
            /\ Reconcile /\ rpc' = "record" /\ exp' = exp
            /\ \/ RecoveryStarts /\ kind = "recovery"
               \/ Claim /\ kind = "post"
<1>1. leases \in Seq(Process) /\ DOMAIN leases = 1..Len(leases) /\ Len(leases) \in Nat
  BY LenProperties DEF ExpTypeOK, Process
<1>2. \A l \in DOMAIN leases : leases'[l].alive => leases[l].alive
  <2>1. CASE leases' = leases
    BY <2>1
  <2>2. CASE CommandEnds
    BY <1>1, <2>2, CommandEndsDoes
  <2>3. ASSUME NEW p \in {"post", "recovery", "none"}, NEW alive \in BOOLEAN, Takes(p, alive)
        PROVE  \A l \in DOMAIN leases : leases'[l] = leases[l]
    BY <1>1, <2>3, LeaseTaken
  <2>4. CASE Reconcile
    <3>1. CASE RecoveryStarts
      BY <2>3, <3>1, RecoveryStartsDoes DEF Starting
    <3>2. CASE Claim
      BY <2>1, <2>3, <3>2, ClaimDoes DEF Starting
    <3> QED BY <2>1, <2>4, <3>1, <3>2, WakeShapes
  <2> QED BY <2>1, <2>2, <2>4
          DEF ExpNext, Crash, GateReads, GateWrites, MarkerWritten, LeaseExpires, TrainingEnds,
              Campaign, expVars
<1>3. Started(kind) \subseteq DOMAIN leases
  BY DEF Started
<1> QED BY <1>2, <1>3, StartedGrows DEF Running

\* What the steps beside the wake leave alone: they can only make a lease run out.
LEMMA KnownStays ==
  ASSUME ExpTypeOK, [ExpNext]_expVars
  PROVE  /\ expired \in Nat /\ expired' \in Nat /\ expired <= expired'
         /\ Marked => Marked'
         /\ ~Active /\ TrainingFailed => TrainingFailed'
<1>1. expired \in Nat /\ (~LeaseExpires => expired' = expired) /\ (LeaseExpires => expired' = expired + 1)
  BY LenProperties
     DEF ExpTypeOK, Leases, ExpNext, Reconcile, Crash, GateReads, GateWrites, MarkerWritten,
         CommandEnds, LeaseExpires, TrainingEnds, Campaign, expVars
<1>2. Marked => Marked'
  BY DEF Marked, ExpNext, Reconcile, Crash, GateReads, GateWrites, MarkerWritten, CommandEnds,
         LeaseExpires, TrainingEnds, Campaign, expVars, world
<1>3. ASSUME ~Active, TrainingFailed PROVE TrainingFailed'
  <2>1. Required \subseteq Jobs
    BY ReconcilerAssumption
  <2>2. PICK j \in Required : st[j] \in Broken
    BY <1>3 DEF TrainingFailed, Failures
  <2>3. st'[j] = st[j]
    BY <1>3, InactiveStays
  <2> QED BY <2>2, <2>3 DEF TrainingFailed, Failures
<1> QED BY <1>1, <1>2, <1>3

\* A lease that is known stays known where it is kept, and where it ran out.
LEMMA KnownKept ==
  ASSUME ExpTypeOK, [ExpNext]_expVars, NEW k \in Nat, NEW l \in Nat, Known(k, l)
  PROVE  /\ k <= expired' \/ k <= l
         /\ ~IsActive(l) => k <= expired /\ k <= expired'
<1>1. expired \in Nat /\ expired' \in Nat /\ expired <= expired'
  BY KnownStays
<1> QED BY <1>1 DEF Known, IsActive

LEMMA RunningLeases ==
  ASSUME ExpTypeOK, NEW kind
  PROVE  /\ Running(kind) \subseteq 1..Len(leases) /\ Len(leases) \in Nat /\ NewLease = Len(leases) + 1
         /\ exp.lease \in Nat /\ exp.rlease \in Nat /\ mem.lease \in Nat /\ mem.rlease \in Nat
         /\ \A k \in Running(kind) : k \in Nat /\ k < NewLease /\ Alive(k) /\ Busy(k)
<1>1. DOMAIN leases = 1..Len(leases) /\ Len(leases) \in Nat
  BY LenProperties DEF ExpTypeOK
<1>2. Running(kind) \subseteq DOMAIN leases /\ \A k \in Running(kind) : leases[k].alive
  BY DEF Running, Started
<1> QED BY <1>1, <1>2 DEF ExpTypeOK, State, Leases, NewLease, Alive, Busy, Nobody

LEMMA RecoveryKnownStep ==
  ASSUME ExpTypeOK, Control, Repairable, RecoveryKnown, [ExpNext]_expVars,
         slips' = slips, undone' = undone
  PROVE  RecoveryKnown'
<1> DEFINE R == Running("recovery")
           Kept(k, l) == k <= expired' \/ k <= l
<1>1. /\ \A k \in R : k \in Nat /\ k < NewLease
      /\ exp.rlease \in Nat /\ mem.rlease \in Nat /\ NewLease \in Nat
  BY RunningLeases
<1>2. /\ \A k \in R : rpc # "record" => Kept(k, exp.rlease)
      /\ \A k \in R : rpc # "free" => Kept(k, mem.rlease)
      /\ \A k \in R : rpc # "free" /\ ~IsActive(mem.rlease) => \A l : Kept(k, l)
  BY <1>1, KnownKept DEF RecoveryKnown
<1>3. Started("recovery")' # {} => TrainingFailed'
  <2>1. RecoveryStarts => ~Active /\ TrainingFailed
    BY DEF RecoveryStarts, Failed
  <2> QED BY <2>1, KnownStays, StartedGrows DEF RecoveryKnown, Repairable
<1>4. ASSUME Running("recovery")' \subseteq R,
             \A k \in R : rpc' # "record" => Kept(k, exp'.rlease),
             \A k \in R : rpc' # "free" => Kept(k, mem'.rlease)
      PROVE  RecoveryKnown'
  BY <1>3, <1>4 DEF RecoveryKnown, Known
<1>5. CASE Reconcile
  <2>1. CASE RecoveryStarts
    <3>1. PICK s : s.rlease = NewLease /\ Starting(s, "recovery")
      BY <2>1, RecoveryStartsDoes
    <3>2. Running("recovery")' \subseteq R \cup {NewLease}
      BY RunningGrows
    <3>3. \A k \in R \cup {NewLease} : Kept(k, NewLease)
      BY <1>1
    <3>4. \/ rpc' = "record" /\ mem'.rlease = NewLease
          \/ rpc' = "free" /\ exp'.rlease = NewLease
      BY <3>1 DEF Starting
    <3> QED BY <1>3, <3>2, <3>3, <3>4 DEF RecoveryKnown, Known
  <2>2. Running("recovery")' \subseteq R \/ RecoveryStarts
    BY RunningGrows
  <2>3. CASE Claim /\ ~RecoveryStarts
    <3>1. rpc # "free" /\ rpc # "record"
      BY <2>3 DEF Claim
    <3>2. CASE \E s : s.rlease = mem.rlease /\ Starting(s, "post")
      <4>1. PICK s : s.rlease = mem.rlease /\ Starting(s, "post")
        BY <3>2
      <4> QED BY <1>2, <1>4, <2>2, <2>3, <3>1, <4>1 DEF Starting
    <3>3. CASE exp' = mem /\ rpc' = "free"
      BY <1>2, <1>4, <2>2, <2>3, <3>1, <3>3
    <3> QED BY <2>3, <3>2, <3>3, ClaimDoes
  <2>4. CASE Wake /\ ~RecoveryStarts
    <3>1. rpc = "free" /\ mem' = exp /\ exp' = exp
      BY <2>4 DEF Wake, GoesTo
    <3> QED BY <1>2, <1>4, <2>2, <2>4, <3>1
  <2>5. CASE ~RecoveryStarts /\ rpc # "free" /\ \E s : Keeping(s) /\ (GoesOn(s) \/ Finishes(s))
    <3>1. PICK s : Keeping(s) /\ (GoesOn(s) \/ Finishes(s))
      BY <2>5
    <3>2. R # {} => ~Succeeded
      BY DEF RecoveryKnown, Succeeded, Running
    <3>3. \A k \in R : Kept(k, s.rlease)
      BY <1>2, <2>5, <3>1, <3>2 DEF Keeping
    <3>4. CASE GoesOn(s)
      BY <1>2, <1>4, <2>2, <2>5, <3>3, <3>4 DEF GoesOn
    <3>5. CASE Finishes(s)
      BY <1>4, <2>2, <2>5, <3>3, <3>5 DEF Finishes
    <3> QED BY <3>1, <3>4, <3>5
  <2> QED BY <1>5, <2>1, <2>3, <2>4, <2>5, QuietKeeps DEF Reconcile, WakeSteps
<1>6. Running("recovery")' \subseteq R \/ Reconcile
  BY RunningGrows
<1>7. CASE Crash /\ ~Reconcile
  <2>1. rpc # "record" /\ rpc' = "free" /\ exp' = exp
    <3>1. slips \in Nat
      BY DEF ExpTypeOK
    <3> QED BY <1>7, <3>1 DEF Crash, Release
  <2> QED BY <1>2, <1>4, <1>6, <1>7, <2>1
<1>8. CASE GateWrites /\ ~Reconcile
  <2>1. gate = exp /\ exp'.rlease = gate.rlease /\ UNCHANGED wake
    <3>1. undone \in Nat
      BY DEF ExpTypeOK
    <3> QED BY <1>8, <3>1, GateWritesDoes DEF GateWrites
  <2> QED BY <1>2, <1>4, <1>6, <1>8, <2>1 DEF wake
<1>9. CASE UNCHANGED <<exp, wake>> /\ ~Reconcile
  BY <1>2, <1>4, <1>6, <1>9 DEF wake
<1> QED BY <1>5, <1>7, <1>8, <1>9
        DEF ExpNext, GateReads, MarkerWritten, CommandEnds, LeaseExpires, TrainingEnds, Campaign, expVars

LEMMA PostKnownStep ==
  ASSUME ExpTypeOK, Control, rpc \in {"claim", "watch"} => mode # "dag", PostKnown,
         [ExpNext]_expVars, slips' = slips, undone' = undone
  PROVE  PostKnown'
<1> DEFINE R == Running("post")
           Kept(k, l) == k <= expired' \/ k <= l
           \* What is known of the copy s, in a campaign and in a single process.
           Told(k, s) == (mode = "external" => Marked' \/ Kept(k, s.lease))
                         /\ (mode = "single" => Owned(k, s))
<1>1. /\ \A k \in R : k \in Nat /\ k < NewLease /\ Alive(k) /\ Busy(k)
      /\ exp.lease \in Nat /\ mem.lease \in Nat /\ NewLease \in Nat
  BY RunningLeases
<1>2. /\ \A k \in R : mode # "dag" /\ (rpc # "record" => Told(k, exp))
      /\ \A k \in R : rpc # "free" => Told(k, mem)
      /\ \A k \in R : mode = "external" /\ rpc # "free" /\ rpc # "claim" /\ ~Marked => Kept(k, mem.lease)
      /\ \A k \in R : mode = "external" /\ rpc = "claim" => Kept(k, mem.lease)
      /\ \A k \in R : mode = "external" /\ rpc = "claim" /\ ~IsActive(mem.lease) => k <= expired'
      /\ \A k \in R : mode = "external" /\ rpc # "free" /\ ~Marked /\ ~IsActive(mem.lease) => k <= expired'
  BY <1>1, KnownKept, KnownStays DEF PostKnown
<1>3. mode' = mode
  BY Grows
<1>4. ASSUME Running("post")' \subseteq R,
             \A k \in R : rpc' # "record" => Told(k, exp'),
             \A k \in R : rpc' # "free" => Told(k, mem'),
             \A k \in R : mode = "external" /\ rpc' = "claim" => Kept(k, mem'.lease)
      PROVE  PostKnown'
  BY <1>2, <1>3, <1>4 DEF PostKnown, Known, Owned
<1>5. CASE Reconcile
  <2>1. CASE Claim
    <3>1. rpc = "claim" /\ mem.state = "TRAINING_SUCCESS" /\ mode # "dag"
      BY <2>1 DEF Claim, Control
    <3>2. mode = "single" => R = {}
      BY <1>2, <3>1 DEF Owned, Closed, Final
    <3>3. CASE \E s \in State' : s.state = "EVALUATING" /\ s.lease = NewLease /\ Starting(s, "post")
      <4>1. PICK s \in State' : s.state = "EVALUATING" /\ s.lease = NewLease /\ Starting(s, "post")
        BY <3>3
      <4>2. Running("post")' \subseteq R \cup {NewLease}
        BY RunningGrows
      <4>3. \A k \in R \cup {NewLease} : Told(k, s)
        BY <1>1, <3>2, <4>1 DEF Owned
      <4>4. rpc' # "claim" /\ (rpc' = "free" => exp' = s) /\ (rpc' # "free" => rpc' = "record" /\ mem' = s)
        BY <4>1 DEF Starting
      <4> QED BY <1>3, <3>1, <4>2, <4>3, <4>4 DEF PostKnown, Known, Owned
    <3>4. CASE leases' = leases /\ exp' = mem /\ rpc' = "free"
      <4>1. Running("post")' = R
        BY <3>4 DEF Running, Started
      <4> QED BY <1>2, <1>4, <3>1, <3>4, <4>1
    <3> QED BY <2>1, <3>3, <3>4, ClaimDoes
  <2>2. Running("post")' \subseteq R \/ Claim
    BY RunningGrows
  <2>3. CASE RecoveryStarts /\ ~Claim
    <3>1. rpc = "decide" /\ mode # "single"
      BY <2>3 DEF RecoveryStarts, Failed, DecidesCampaign, Decides
    <3>2. PICK s : s.lease = mem.lease /\ Starting(s, "recovery")
      BY <2>3, RecoveryStartsDoes
    <3>3. \A k \in R : Told(k, s)
      BY <1>2, <3>1, <3>2
    <3>4. rpc' # "claim" /\ (rpc' = "free" => exp' = s) /\ (rpc' # "free" => rpc' = "record" /\ mem' = s)
      BY <3>2 DEF Starting
    <3> QED BY <1>4, <2>2, <2>3, <3>3, <3>4
  <2>4. CASE Wake /\ ~Claim
    <3>1. rpc = "free" /\ rpc' = "decide" /\ mem' = exp /\ exp' = exp
      BY <2>4 DEF Wake, GoesTo
    <3> QED BY <1>2, <1>4, <2>2, <2>4, <3>1
  <2>5. CASE ~Claim /\ rpc # "free" /\ \E s : Keeping(s) /\ (GoesOn(s) \/ Finishes(s))
    <3>1. PICK s : Keeping(s) /\ (GoesOn(s) \/ Finishes(s))
      BY <2>5
    <3>2. Marked => Marked'
      BY KnownStays
    <3>3. ASSUME NEW k \in R, mode = "external", ~Marked' PROVE Kept(k, s.lease)
      <4>1. Busy(mem.lease) \/ ~IsActive(mem.lease)
        BY DEF Busy
      <4> QED BY <1>2, <2>5, <3>1, <3>2, <3>3, <4>1 DEF Keeping, Busy
    <3>4. ASSUME NEW k \in R, mode = "single" PROVE Owned(k, s)
      <4>1. Owned(k, mem) /\ Alive(k)
        BY <1>1, <1>2, <2>5, <3>4
      <4> QED BY <3>1, <3>4, <4>1 DEF Keeping, Owned
    <3>5. \A k \in R : Told(k, s)
      BY <3>3, <3>4
    <3>6. CASE GoesOn(s)
      <4>1. /\ mem' = s /\ exp' \in {exp, s} /\ rpc # "record" /\ rpc' \notin {"free", "record"}
            /\ rpc' = "claim" => rpc = "markers" /\ s = mem /\ ~Marked
        BY <3>6 DEF GoesOn
      <4>2. \A k \in R : Told(k, exp') /\ Told(k, mem')
        BY <1>2, <3>5, <4>1
      <4>3. \A k \in R : mode = "external" /\ rpc' = "claim" => Kept(k, mem'.lease)
        BY <1>2, <2>5, <4>1
      <4> QED BY <1>4, <2>2, <2>5, <4>2, <4>3
    <3>7. CASE Finishes(s)
      BY <1>4, <2>2, <2>5, <3>5, <3>7 DEF Finishes
    <3> QED BY <3>1, <3>6, <3>7
  <2> QED BY <1>5, <2>1, <2>3, <2>4, <2>5, QuietKeeps DEF Reconcile, WakeSteps
<1>6. Running("post")' \subseteq R \/ Reconcile
  BY RunningGrows
<1>7. CASE Crash /\ ~Reconcile
  <2>1. rpc # "record" /\ rpc' = "free" /\ exp' = exp
    <3>1. slips \in Nat
      BY DEF ExpTypeOK
    <3> QED BY <1>7, <3>1 DEF Crash, Release
  <2> QED BY <1>2, <1>4, <1>6, <1>7, <2>1
<1>8. CASE GateWrites /\ ~Reconcile
  <2>1. gate = exp /\ exp'.lease = gate.lease /\ UNCHANGED wake /\ mode # "single"
    <3>1. undone \in Nat
      BY DEF ExpTypeOK
    <3> QED BY <1>8, <3>1, GateWritesDoes DEF GateWrites, Control
  <2> QED BY <1>2, <1>4, <1>6, <1>8, <2>1 DEF wake
<1>9. CASE UNCHANGED <<exp, wake>> /\ ~Reconcile
  BY <1>2, <1>4, <1>6, <1>9 DEF wake
<1> QED BY <1>5, <1>7, <1>8, <1>9
        DEF ExpNext, GateReads, MarkerWritten, CommandEnds, LeaseExpires, TrainingEnds, Campaign, expVars

LEMMA ApartStep ==
  ASSUME ExpTypeOK, Control, rpc \in {"claim", "watch"} => mode # "dag",
         RecoveryKnown, PostKnown, Apart, [ExpNext]_expVars
  PROVE  Apart'
<1> SUFFICES ASSUME NEW kind \in {"post", "recovery"},
                    NEW k \in Running(kind)', NEW l \in Running(kind)', k < l
             PROVE  k <= expired' /\ (kind = "post" => mode' # "single")
  BY DEF Apart
<1>1. /\ expired \in Nat /\ expired' \in Nat /\ expired <= expired' /\ mode' = mode
      /\ \A m \in Running(kind) : m \in Nat /\ m < NewLease
      /\ exp.lease \in Nat /\ mem.lease \in Nat /\ mem.rlease \in Nat /\ NewLease \in Nat
  BY KnownStays, Grows, RunningLeases
<1>2. CASE k \in Running(kind) /\ l \in Running(kind)
  BY <1>1, <1>2 DEF Apart
<1>3. CASE \/ RecoveryStarts /\ kind = "recovery"
           \/ Claim /\ kind = "post"
  <2>1. k \in Running(kind)
    <3>1. k \in Running(kind) \cup {NewLease} /\ l \in Running(kind) \cup {NewLease}
      BY RunningGrows
    <3> QED BY <1>1, <3>1
  <2>2. CASE RecoveryStarts /\ kind = "recovery"
    <3>1. rpc = "decide" /\ ~IsActive(mem.rlease)
      BY <2>2 DEF RecoveryStarts, Failed, DecidesCampaign, Decides
    <3> QED BY <1>1, <2>1, <2>2, <3>1 DEF RecoveryKnown, Known, IsActive
  <2>3. CASE Claim /\ kind = "post"
    <3>1. rpc = "claim" /\ mem.state = "TRAINING_SUCCESS" /\ mode \in {"single", "external"}
      BY <2>3 DEF Claim, Control, ExpTypeOK, Modes
    <3>2. mode # "single"
      BY <2>1, <2>3, <3>1 DEF PostKnown, Owned, Closed, Final
    <3>3. CASE ~IsActive(mem.lease)
      BY <1>1, <2>1, <2>3, <3>1, <3>2, <3>3 DEF PostKnown, Known, IsActive
    <3>4. CASE leases' = leases
      BY <1>2, <2>1, <3>4 DEF Running, Started
    <3> QED BY <2>3, <3>3, <3>4, ClaimDoes
  <2> QED BY <1>3, <2>2, <2>3
<1>4. \/ Running(kind)' \subseteq Running(kind)
      \/ RecoveryStarts /\ kind = "recovery"
      \/ Claim /\ kind = "post"
  BY RunningGrows
<1>5. CASE Running(kind)' \subseteq Running(kind)
  BY <1>2, <1>5
<1> QED BY <1>3, <1>4, <1>5

LEMMA OwnerStep ==
  ASSUME ExpTypeOK, Control, Repairable, OwnerInv, [ExpNext]_expVars
  PROVE  OwnerInv'
<1>1. mode' = mode /\ slips' \in {slips, slips + 1} /\ undone' \in {undone, undone + 1}
      /\ slips \in Nat /\ undone \in Nat
  BY Grows DEF ExpTypeOK
<1>2. rpc' \in {"claim", "watch"} => mode' # "dag"
  <2>1. CASE Reconcile
    <3>1. CASE RecoveryStarts
      BY <3>1, RecoveryStartsDoes DEF Starting
    <3>2. CASE Claim
      BY <3>2, ClaimDoes DEF Starting
    <3>3. CASE \E s : GoesOn(s) \/ Finishes(s)
      BY <1>1, <3>3 DEF GoesOn, Finishes, Control
    <3>4. CASE Wake
      BY <3>4 DEF Wake, GoesTo
    <3> QED BY <2>1, <3>1, <3>2, <3>3, <3>4, QuietKeeps DEF Reconcile, WakeSteps
  <2>2. CASE rpc' \in {rpc, "free"}
    BY <1>1, <2>2 DEF OwnerInv
  <2> QED BY <2>1, <2>2
          DEF ExpNext, Crash, GateReads, GateWrites, MarkerWritten, CommandEnds, LeaseExpires,
              TrainingEnds, Campaign, Release, expVars, wake
<1>3. ASSUME slips' = 0, undone' = 0 PROVE RecoveryKnown' /\ PostKnown' /\ Apart'
  <2>1. slips' = slips /\ undone' = undone /\ RecoveryKnown /\ PostKnown /\ Apart
    BY <1>1, <1>3 DEF OwnerInv
  <2>2. rpc \in {"claim", "watch"} => mode # "dag"
    BY DEF OwnerInv
  <2> QED BY <2>1, <2>2, RecoveryKnownStep, PostKnownStep, ApartStep
<1> QED BY <1>2, <1>3 DEF OwnerInv

\* Whatever the order of wakes, harmless deaths, expiring leases, markers and
\* writes of the gate: as long as no wake died with a command started, and the
\* gate undid no update, no command runs beside one of its kind whose lease is
\* good, nor a postprocess beside a living one of a single process.
THEOREM CommandsHaveOneOwner == ExpSpec => []OneOwner
<1>1. ExpInit => Control /\ Repairable /\ OwnerInv
  <2> SUFFICES ASSUME ExpInit PROVE Control /\ Repairable /\ OwnerInv
    OBVIOUS
  <2>1. rpc = "free" /\ gate = NoState
    BY DEF ExpInit
  <2>2. \A kind : Started(kind) = {} /\ Running(kind) = {}
    BY DEF ExpInit, Started, Running
  <2> QED BY <2>1, <2>2 DEF Control, Repairable, OwnerInv, RecoveryKnown, PostKnown, Apart
<1>2. ExpTypeOK /\ Control /\ Repairable /\ OwnerInv /\ [ExpNext]_expVars
        => (Control /\ Repairable /\ OwnerInv)'
  BY ControlStep, RepairableStep, OwnerStep
<1>3. OwnerInv => OneOwner
  BY DEF OwnerInv, Apart, OneOwner
<1> QED BY <1>1, <1>2, <1>3, AlwaysTyped, PTL DEF ExpSpec
=============================================================================
