------------------------------ MODULE MCSearches ------------------------------
(***************************************************************************)
(* Instances of Searches for TLC.  The deadline is a few slices long, so   *)
(* that time runs out before, in and after every step of a search; scores  *)
(* do not follow the ranks, as objective_score does not follow is_better.  *)
(***************************************************************************)
EXTENDS Searches

AllSearches == [kind : {"portfolio", "beam", "alns"}, restarts : {3}]
\* The best layout scores between the other two.
CrossedScore == [rank \in 1..MaxRank |-> CASE rank = 1 -> 1 [] rank = 2 -> 3 [] OTHER -> 2]
=============================================================================
