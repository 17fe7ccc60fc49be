----------------------------- MODULE MCPublisher -----------------------------
(***************************************************************************)
(* Two results published from one clone, and the first of them again: with *)
(* other content from there, with the same content from a second clone.    *)
(***************************************************************************)
EXTENDS Publisher, TLC

CloneUsed == "p1" :> "c1" @@ "p2" :> "c1" @@ "p3" :> "c2" @@ "p4" :> "c1"
EventTold == "p1" :> "e1" @@ "p2" :> "e2" @@ "p3" :> "e1" @@ "p4" :> "e1"
PayloadTold == "p1" :> "good" @@ "p2" :> "good" @@ "p3" :> "good" @@ "p4" :> "other"
=============================================================================
