----------------------------- MODULE MCRunSync ------------------------------
(***************************************************************************)
(* Three epochs, of which the second is kept, and a sync of the run.       *)
(***************************************************************************)
EXTENDS RunSync

\* Student and EMA disagree on which of two values is the better one, and
\* either may tie.
FewMeasurements ==
  {[acc |-> 1, ema |-> 2, flat |-> TRUE], [acc |-> 2, ema |-> 1, flat |-> FALSE],
   [acc |-> 2, ema |-> 2, flat |-> TRUE]}
=============================================================================
