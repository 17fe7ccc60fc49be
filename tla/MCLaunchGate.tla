---------------------------- MODULE MCLaunchGate -----------------------------
(***************************************************************************)
(* Two invocations at a time, and two versions of everything.              *)
(***************************************************************************)
EXTENDS LaunchGate

TwoGates == {"g1", "g2"}
=============================================================================
