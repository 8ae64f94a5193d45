----------------------------- MODULE MCRestarts ------------------------------
(***************************************************************************)
(* Instances of Restarts for TLC.  The schedules make each way to end a    *)
(* run possible: a plan that exceeds the budget, slices short enough for   *)
(* patience to run out, one slice that takes the whole budget, and a short *)
(* plan that leaves time for a rescue.                                     *)
(***************************************************************************)
EXTENDS Restarts

SomeSchedules == {<<2, 2, 2>>, <<1, 1, 1, 1, 1, 1>>, <<5>>, <<1, 2>>}
\* A layout of fewer sheets may rank lower, as it may under min_waste.
CrossedSheets == [rank \in 1..MaxRank |-> <<3, 1, 2, 2>>[rank]]
=============================================================================
