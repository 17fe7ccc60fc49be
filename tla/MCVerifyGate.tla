---------------------------- MODULE MCVerifyGate -----------------------------
(***************************************************************************)
(* A module and two tests of it.  One needs GPUs; the other is a test that *)
(* the rules fail to select when the module changes.                       *)
(***************************************************************************)
EXTENDS VerifyGate, TLC

AllPaths == {"source", "testCpu", "testGpu"}
TwoTests == {"testCpu", "testGpu"}
GpuCommands == {"testGpu", "broad"}
ScientificTests == {"testGpu"}
RulesOf == [p \in AllPaths |-> IF p = "source" THEN {"testGpu"} ELSE {p}]
\* The new source fits the old testCpu and the new testGpu.
Clashes(tree, t) == tree["source"] = 1 /\ tree[t] = IF t = "testGpu" THEN 0 ELSE 1
GoodTrees == [c \in TwoTests \cup {"broad"} |->
  {tree \in [AllPaths -> {0, 1}] :
     \A t \in IF c = "broad" THEN TwoTests ELSE {c} : ~Clashes(tree, t)}]
Committed == [p \in AllPaths |-> 0]

TwoGates == {"g1", "g2"}
OneGate == {"g1"}
Opposite == "g1" :> <<1, 2>> @@ "g2" :> <<2, 1>>
\* Device 1 has the greater uuid.
Uuids == "g1" :> <<2, 1>> @@ "g2" :> <<1, 2>>
Blind == "g1" :> <<>>
=============================================================================
