--------------------------- MODULE RestartsProofs ---------------------------
(***************************************************************************)
(* Theorems about Restarts, for every budget, schedule, patience and       *)
(* ranking: what the run returns is the best it was offered, or no worse   *)
(* in sheets than the seed its post-process was given, an error            *)
(* means it was offered nothing, no timeout is armed past the budget, and  *)
(* the run implements the abstract anytime solver.                         *)
(***************************************************************************)
EXTENDS Restarts, TLAPS

\* How far the bookkeeping of the loop has got, phase by phase.
Bookkeeping ==
    /\ pc \in {"seed", "heuristic"} \cup Posts =>
          /\ index = 0 /\ used = 0 /\ abandoned = 0 /\ streak = 0
          /\ ~timedOut /\ ~budgetExhausted /\ ~lastConstraint
    /\ pc \in {"loop", "await"} =>
          /\ index = used /\ abandoned = 0 /\ streak < Patience
          /\ ~timedOut /\ ~budgetExhausted
          /\ index > 0 /\ best = NoLayout => lastConstraint
    /\ pc = "await" => index < Planned
    /\ pc = "collect" =>
          /\ timedOut => abandoned = 1 /\ used < Planned
          /\ ~timedOut => abandoned = 0 /\ index = used
          /\ budgetExhausted => now >= Budget /\ index < Planned
          /\ ~timedOut /\ ~budgetExhausted => index = Planned \/ streak = Patience
          /\ best = NoLayout => timedOut \/ budgetExhausted \/ lastConstraint
    /\ pc = "rescue" => timedOut /\ abandoned = 1 /\ used < Planned
    /\ pc = "fail" => timedOut \/ budgetExhausted \/ lastConstraint
    /\ pc = "fail" => abandoned <= 2

\* What is in hand in each phase, and that nothing better was dropped.
InHand ==
    /\ pc = "seed" => best = NoLayout
    /\ pc \in {"heuristic"} \cup Posts => best # NoLayout /\ request.heuristicOnly
    /\ pc \in Posts => PostProcess /\ offered # NoLayout /\ Sheets[best] <= Sheets[offered]
    /\ pc \in {"rescue", "fail"} => best = NoLayout
    /\ pc \notin Posts \cup {"done"} => offered = best
    /\ Polishing /\ pc \notin {"heuristic", "done"} \cup Posts => best = NoLayout
    /\ pc # "done" <=> answer = NoAnswer
    /\ answer.kind = "ok" => answer.rank = best /\ best # NoLayout
    /\ answer.kind \notin {"ok", "none"} => answer.rank = NoLayout

IInv ==
    /\ TypeOK
    /\ Bookkeeping
    /\ InHand
    /\ ResultIsBestOffered
    /\ ErrorMeansNothingFound
    /\ InternalOnlyAfterPanic
    /\ SliceWithinBudget
    /\ TimeoutReasonHonest
    /\ AbandonedBounded

-----------------------------------------------------------------------------
\* A schedule is never empty and holds lengths.
LEMMA PlannedType ==
    ASSUME request \in Requests
    PROVE  /\ Planned \in Nat /\ Planned > 0
           /\ \A i \in 1..Planned : request.schedule[i] \in Nat
BY RestartsAssumption DEF RestartsAssumption, Requests, Planned

\* A slice is no longer than what is left of the budget.
LEMMA SliceFits ==
    ASSUME TypeOK, StartSlice
    PROVE  /\ SliceLength \in Nat /\ now + SliceLength <= Budget
           /\ now \in Nat /\ Budget \in Nat /\ MaxTime \in Nat /\ Budget <= MaxTime
<1>1. Budget \in Nat /\ MaxTime \in Nat /\ Budget <= MaxTime
  BY RestartsAssumption DEF RestartsAssumption
<1>2. now \in Nat /\ now < Budget
  BY <1>1 DEF TypeOK, StartSlice
<1>3. request.schedule[index + 1] \in Nat
  <2>1. request \in Requests /\ index \in Nat /\ index < Planned
    BY PlannedType DEF TypeOK, StartSlice
  <2> QED
    BY <2>1, PlannedType
<1>4. SliceLength \in Nat /\ SliceLength <= Budget - now
  BY <1>1, <1>2, <1>3 DEF SliceLength, Larger, Smaller
<1> HIDE DEF SliceLength
<1> QED
  BY <1>1, <1>2, <1>4

\* The request of a run never changes.
LEMMA RequestFixed ==
    ASSUME [Next]_vars
    PROVE  request' = request
BY DEF Next, vars, Run, Job, Timeout, Done, Tick, Seed, ReturnSeed, StartPost, Consolidate,
       StartLns, Refine, PostReturns, PostPanics, StartSlice, BudgetExhausted, PlanDone, SliceReturns, SliceReturnsNothing,
       SlicePanics, SliceTimesOut, ReturnBest, StartRescue, NoRescue, RescueReturns,
       RescueReturnsNothing, RescuePanics, RescueTimesOut, Fail

\* A step of the run keeps the invariant: one case per action.
LEMMA StepIInv ==
    ASSUME IInv, [Next]_vars
    PROVE  IInv'
<1> USE RestartsAssumption DEF RestartsAssumption, IInv, TypeOK, Bookkeeping, InHand,
        Phases, Posts, PostProcess, Polishing, Kinds, Reasons, Ok, Error, NoAnswer, NoLayout, Finish, clock, flags, history
<1>0. /\ Planned \in Nat /\ Planned > 0
      /\ \A i \in 1..Planned : request.schedule[i] \in Nat
      /\ request' = request /\ Planned' = Planned
  BY PlannedType, RequestFixed DEF Planned
<1>1. CASE Tick
  <2>1. TypeOK'
    BY <1>0, <1>1 DEF Tick
  <2>2. Bookkeeping'
    BY <1>0, <1>1 DEF Tick
  <2>3. InHand'
    BY <1>0, <1>1 DEF Tick
  <2>4. ResultIsBestOffered' /\ ErrorMeansNothingFound' /\ InternalOnlyAfterPanic'
    BY <1>0, <1>1 DEF Tick, ResultIsBestOffered, ErrorMeansNothingFound, InternalOnlyAfterPanic
  <2>5. SliceWithinBudget' /\ TimeoutReasonHonest' /\ AbandonedBounded'
    BY <1>0, <1>1 DEF Tick, SliceWithinBudget, TimeoutReasonHonest, AbandonedBounded
  <2> QED
    BY <2>1, <2>2, <2>3, <2>4, <2>5
<1>2. CASE \E rank \in 0..MaxRank : Seed(rank)
  <2>0. PICK rank \in 0..MaxRank : Seed(rank)
    BY <1>2
  <2>1. TypeOK'
    BY <1>0, <2>0 DEF Seed
  <2>2. Bookkeeping'
    BY <1>0, <2>0 DEF Seed
  <2>3. InHand'
    BY <1>0, <2>0 DEF Seed
  <2>4. ResultIsBestOffered' /\ ErrorMeansNothingFound' /\ InternalOnlyAfterPanic'
    BY <1>0, <2>0 DEF Seed, ResultIsBestOffered, ErrorMeansNothingFound, InternalOnlyAfterPanic
  <2>5. SliceWithinBudget' /\ TimeoutReasonHonest' /\ AbandonedBounded'
    BY <1>0, <2>0 DEF Seed, SliceWithinBudget, TimeoutReasonHonest, AbandonedBounded
  <2> QED
    BY <2>1, <2>2, <2>3, <2>4, <2>5
<1>3. CASE ReturnSeed
  <2>1. TypeOK'
    BY <1>0, <1>3 DEF ReturnSeed
  <2>2. Bookkeeping'
    BY <1>0, <1>3 DEF ReturnSeed
  <2>3. InHand'
    BY <1>0, <1>3 DEF ReturnSeed
  <2>4. ResultIsBestOffered' /\ ErrorMeansNothingFound' /\ InternalOnlyAfterPanic'
    BY <1>0, <1>3 DEF ReturnSeed, ResultIsBestOffered, ErrorMeansNothingFound, InternalOnlyAfterPanic
  <2>5. SliceWithinBudget' /\ TimeoutReasonHonest' /\ AbandonedBounded'
    BY <1>0, <1>3 DEF ReturnSeed, SliceWithinBudget, TimeoutReasonHonest, AbandonedBounded
  <2> QED
    BY <2>1, <2>2, <2>3, <2>4, <2>5
<1>4. CASE StartPost
  <2>1. TypeOK'
    BY <1>0, <1>4 DEF StartPost
  <2>2. Bookkeeping'
    BY <1>0, <1>4 DEF StartPost
  <2>3. InHand'
    BY <1>0, <1>4 DEF StartPost
  <2>4. ResultIsBestOffered' /\ ErrorMeansNothingFound' /\ InternalOnlyAfterPanic'
    BY <1>0, <1>4 DEF StartPost, ResultIsBestOffered, ErrorMeansNothingFound, InternalOnlyAfterPanic
  <2>5. SliceWithinBudget' /\ TimeoutReasonHonest' /\ AbandonedBounded'
    BY <1>0, <1>4 DEF StartPost, SliceWithinBudget, TimeoutReasonHonest, AbandonedBounded
  <2> QED
    BY <2>1, <2>2, <2>3, <2>4, <2>5
<1>5. CASE StartSlice
  <2>1. TypeOK'
    <3> HIDE DEF IInv, TypeOK, Bookkeeping, InHand
    <3>1. deadline' \in 0..MaxTime
      <4>0. TypeOK
        BY DEF IInv
      <4>1. /\ SliceLength \in Nat /\ now + SliceLength <= Budget
            /\ now \in Nat /\ Budget \in Nat /\ MaxTime \in Nat /\ Budget <= MaxTime
        BY <1>5, <4>0, SliceFits
      <4>2. deadline' = now + SliceLength
        BY <1>5 DEF StartSlice
      <4> HIDE DEF SliceLength
      <4> QED
        BY <4>1, <4>2
    <3> USE DEF IInv, TypeOK, Bookkeeping, InHand
    <3>2. pc' \in Phases /\ UNCHANGED <<request, now, index, best, streak, flags, used, abandoned, answer, history>>
      BY <1>5 DEF StartSlice
    <3> HIDE RestartsAssumption DEF RestartsAssumption
    <3> QED
      BY <1>0, <3>1, <3>2
  <2>2. Bookkeeping'
    BY <1>0, <1>5 DEF StartSlice, SliceLength, Larger, Smaller
  <2>3. InHand'
    BY <1>0, <1>5 DEF StartSlice, SliceLength, Larger, Smaller
  <2>4. ResultIsBestOffered' /\ ErrorMeansNothingFound' /\ InternalOnlyAfterPanic'
    BY <1>0, <1>5 DEF StartSlice, SliceLength, Larger, Smaller, ResultIsBestOffered, ErrorMeansNothingFound, InternalOnlyAfterPanic
  <2>5. SliceWithinBudget' /\ TimeoutReasonHonest' /\ AbandonedBounded'
    BY <1>0, <1>5 DEF StartSlice, SliceLength, Larger, Smaller, SliceWithinBudget, TimeoutReasonHonest, AbandonedBounded
  <2> QED
    BY <2>1, <2>2, <2>3, <2>4, <2>5
<1>6. CASE BudgetExhausted
  <2>1. TypeOK'
    BY <1>0, <1>6 DEF BudgetExhausted
  <2>2. Bookkeeping'
    BY <1>0, <1>6 DEF BudgetExhausted
  <2>3. InHand'
    BY <1>0, <1>6 DEF BudgetExhausted
  <2>4. ResultIsBestOffered' /\ ErrorMeansNothingFound' /\ InternalOnlyAfterPanic'
    BY <1>0, <1>6 DEF BudgetExhausted, ResultIsBestOffered, ErrorMeansNothingFound, InternalOnlyAfterPanic
  <2>5. SliceWithinBudget' /\ TimeoutReasonHonest' /\ AbandonedBounded'
    BY <1>0, <1>6 DEF BudgetExhausted, SliceWithinBudget, TimeoutReasonHonest, AbandonedBounded
  <2> QED
    BY <2>1, <2>2, <2>3, <2>4, <2>5
<1>7. CASE PlanDone
  <2>1. TypeOK'
    BY <1>0, <1>7 DEF PlanDone
  <2>2. Bookkeeping'
    BY <1>0, <1>7 DEF PlanDone
  <2>3. InHand'
    BY <1>0, <1>7 DEF PlanDone
  <2>4. ResultIsBestOffered' /\ ErrorMeansNothingFound' /\ InternalOnlyAfterPanic'
    BY <1>0, <1>7 DEF PlanDone, ResultIsBestOffered, ErrorMeansNothingFound, InternalOnlyAfterPanic
  <2>5. SliceWithinBudget' /\ TimeoutReasonHonest' /\ AbandonedBounded'
    BY <1>0, <1>7 DEF PlanDone, SliceWithinBudget, TimeoutReasonHonest, AbandonedBounded
  <2> QED
    BY <2>1, <2>2, <2>3, <2>4, <2>5
<1>8. CASE ReturnBest
  <2>1. TypeOK'
    BY <1>0, <1>8 DEF ReturnBest, TimeoutReason
  <2>2. Bookkeeping'
    BY <1>0, <1>8 DEF ReturnBest, TimeoutReason
  <2>3. InHand'
    BY <1>0, <1>8 DEF ReturnBest, TimeoutReason
  <2>4. ResultIsBestOffered' /\ ErrorMeansNothingFound' /\ InternalOnlyAfterPanic'
    BY <1>0, <1>8 DEF ReturnBest, TimeoutReason, ResultIsBestOffered, ErrorMeansNothingFound, InternalOnlyAfterPanic
  <2>5. SliceWithinBudget' /\ TimeoutReasonHonest' /\ AbandonedBounded'
    BY <1>0, <1>8 DEF ReturnBest, TimeoutReason, SliceWithinBudget, TimeoutReasonHonest, AbandonedBounded
  <2> QED
    BY <2>1, <2>2, <2>3, <2>4, <2>5
<1>9. CASE StartRescue
  <2>1. TypeOK'
    BY <1>0, <1>9 DEF StartRescue, CanRescue
  <2>2. Bookkeeping'
    BY <1>0, <1>9 DEF StartRescue, CanRescue
  <2>3. InHand'
    BY <1>0, <1>9 DEF StartRescue, CanRescue
  <2>4. ResultIsBestOffered' /\ ErrorMeansNothingFound' /\ InternalOnlyAfterPanic'
    BY <1>0, <1>9 DEF StartRescue, CanRescue, ResultIsBestOffered, ErrorMeansNothingFound, InternalOnlyAfterPanic
  <2>5. SliceWithinBudget' /\ TimeoutReasonHonest' /\ AbandonedBounded'
    BY <1>0, <1>9 DEF StartRescue, CanRescue, SliceWithinBudget, TimeoutReasonHonest, AbandonedBounded
  <2> QED
    BY <2>1, <2>2, <2>3, <2>4, <2>5
<1>10. CASE NoRescue
  <2>1. TypeOK'
    BY <1>0, <1>10 DEF NoRescue, CanRescue
  <2>2. Bookkeeping'
    BY <1>0, <1>10 DEF NoRescue, CanRescue
  <2>3. InHand'
    BY <1>0, <1>10 DEF NoRescue, CanRescue
  <2>4. ResultIsBestOffered' /\ ErrorMeansNothingFound' /\ InternalOnlyAfterPanic'
    BY <1>0, <1>10 DEF NoRescue, CanRescue, ResultIsBestOffered, ErrorMeansNothingFound, InternalOnlyAfterPanic
  <2>5. SliceWithinBudget' /\ TimeoutReasonHonest' /\ AbandonedBounded'
    BY <1>0, <1>10 DEF NoRescue, CanRescue, SliceWithinBudget, TimeoutReasonHonest, AbandonedBounded
  <2> QED
    BY <2>1, <2>2, <2>3, <2>4, <2>5
<1>11. CASE Fail
  <2>1. TypeOK'
    BY <1>0, <1>11 DEF Fail
  <2>2. Bookkeeping'
    BY <1>0, <1>11 DEF Fail
  <2>3. InHand'
    BY <1>0, <1>11 DEF Fail
  <2>4. ResultIsBestOffered' /\ ErrorMeansNothingFound' /\ InternalOnlyAfterPanic'
    BY <1>0, <1>11 DEF Fail, ResultIsBestOffered, ErrorMeansNothingFound, InternalOnlyAfterPanic
  <2>5. SliceWithinBudget' /\ TimeoutReasonHonest' /\ AbandonedBounded'
    BY <1>0, <1>11 DEF Fail, SliceWithinBudget, TimeoutReasonHonest, AbandonedBounded
  <2> QED
    BY <2>1, <2>2, <2>3, <2>4, <2>5
<1>12. CASE \E rank \in Ranks : Consolidate(rank) \/ Refine(rank)
  <2>0. PICK rank \in Ranks : Consolidate(rank) \/ Refine(rank)
    BY <1>12
  <2>1. /\ pc \in Posts /\ best' = rank
        /\ Sheets[rank] < Sheets[best] \/ Sheets[rank] <= Sheets[best]
        /\ UNCHANGED <<request, pc, clock, index, streak, flags, used, abandoned, answer, history>>
    BY <2>0 DEF Consolidate, Refine
  <2>2. rank \in 1..MaxRank /\ best \in 1..MaxRank /\ offered \in 1..MaxRank
    BY <2>0, <2>1 DEF Ranks
  <2>3. Sheets[rank] \in Int /\ Sheets[best] \in Int /\ Sheets[offered] \in Int
    BY <2>2
  <2>4. Sheets[rank] <= Sheets[offered]
    BY <2>1, <2>3
  <2>5. TypeOK'
    <3>1. best' \in 0..MaxRank
      BY <2>1, <2>2
    <3> HIDE RestartsAssumption DEF RestartsAssumption
    <3> QED
      BY <1>0, <2>1, <3>1
  <2>6. Bookkeeping'
    BY <1>0, <2>1, <2>2
  <2>7. InHand'
    <3> HIDE RestartsAssumption DEF RestartsAssumption, Bookkeeping
    <3> QED
      BY <1>0, <2>1, <2>2, <2>4
  <2>8. ResultIsBestOffered' /\ ErrorMeansNothingFound' /\ InternalOnlyAfterPanic'
    BY <1>0, <2>1 DEF ResultIsBestOffered, ErrorMeansNothingFound, InternalOnlyAfterPanic
  <2>9. SliceWithinBudget' /\ TimeoutReasonHonest' /\ AbandonedBounded'
    BY <1>0, <2>1 DEF SliceWithinBudget, TimeoutReasonHonest, AbandonedBounded
  <2> QED
    BY <2>5, <2>6, <2>7, <2>8, <2>9
<1>13. CASE PostPanics
  <2>1. TypeOK'
    BY <1>0, <1>13 DEF PostPanics
  <2>2. Bookkeeping'
    BY <1>0, <1>13 DEF PostPanics
  <2>3. InHand'
    BY <1>0, <1>13 DEF PostPanics
  <2>4. ResultIsBestOffered' /\ ErrorMeansNothingFound' /\ InternalOnlyAfterPanic'
    BY <1>0, <1>13 DEF PostPanics, ResultIsBestOffered, ErrorMeansNothingFound, InternalOnlyAfterPanic
  <2>5. SliceWithinBudget' /\ TimeoutReasonHonest' /\ AbandonedBounded'
    BY <1>0, <1>13 DEF PostPanics, SliceWithinBudget, TimeoutReasonHonest, AbandonedBounded
  <2> QED
    BY <2>1, <2>2, <2>3, <2>4, <2>5
<1>14. CASE \E rank \in Ranks : SliceReturns(rank)
  <2>0. PICK rank \in Ranks : SliceReturns(rank)
    BY <1>14
  <2>1. TypeOK'
    BY <1>0, <2>0 DEF SliceReturns, Larger, Ranks
  <2>2. Bookkeeping'
    BY <1>0, <2>0 DEF SliceReturns, Larger, Ranks
  <2>3. InHand'
    BY <1>0, <2>0 DEF SliceReturns, Larger, Ranks
  <2>4. ResultIsBestOffered' /\ ErrorMeansNothingFound' /\ InternalOnlyAfterPanic'
    BY <1>0, <2>0 DEF SliceReturns, Larger, Ranks, ResultIsBestOffered, ErrorMeansNothingFound, InternalOnlyAfterPanic
  <2>5. SliceWithinBudget' /\ TimeoutReasonHonest' /\ AbandonedBounded'
    BY <1>0, <2>0 DEF SliceReturns, Larger, Ranks, SliceWithinBudget, TimeoutReasonHonest, AbandonedBounded
  <2> QED
    BY <2>1, <2>2, <2>3, <2>4, <2>5
<1>15. CASE SliceReturnsNothing
  <2>1. TypeOK'
    BY <1>0, <1>15 DEF SliceReturnsNothing
  <2>2. Bookkeeping'
    BY <1>0, <1>15 DEF SliceReturnsNothing
  <2>3. InHand'
    BY <1>0, <1>15 DEF SliceReturnsNothing
  <2>4. ResultIsBestOffered' /\ ErrorMeansNothingFound' /\ InternalOnlyAfterPanic'
    BY <1>0, <1>15 DEF SliceReturnsNothing, ResultIsBestOffered, ErrorMeansNothingFound, InternalOnlyAfterPanic
  <2>5. SliceWithinBudget' /\ TimeoutReasonHonest' /\ AbandonedBounded'
    BY <1>0, <1>15 DEF SliceReturnsNothing, SliceWithinBudget, TimeoutReasonHonest, AbandonedBounded
  <2> QED
    BY <2>1, <2>2, <2>3, <2>4, <2>5
<1>16. CASE SlicePanics
  <2>1. TypeOK'
    BY <1>0, <1>16 DEF SlicePanics
  <2>2. Bookkeeping'
    BY <1>0, <1>16 DEF SlicePanics
  <2>3. InHand'
    BY <1>0, <1>16 DEF SlicePanics
  <2>4. ResultIsBestOffered' /\ ErrorMeansNothingFound' /\ InternalOnlyAfterPanic'
    BY <1>0, <1>16 DEF SlicePanics, ResultIsBestOffered, ErrorMeansNothingFound, InternalOnlyAfterPanic
  <2>5. SliceWithinBudget' /\ TimeoutReasonHonest' /\ AbandonedBounded'
    BY <1>0, <1>16 DEF SlicePanics, SliceWithinBudget, TimeoutReasonHonest, AbandonedBounded
  <2> QED
    BY <2>1, <2>2, <2>3, <2>4, <2>5
<1>17. CASE \E rank \in Ranks : RescueReturns(rank)
  <2>0. PICK rank \in Ranks : RescueReturns(rank)
    BY <1>17
  <2>1. TypeOK'
    BY <1>0, <2>0 DEF RescueReturns, Larger, Ranks
  <2>2. Bookkeeping'
    BY <1>0, <2>0 DEF RescueReturns, Larger, Ranks
  <2>3. InHand'
    BY <1>0, <2>0 DEF RescueReturns, Larger, Ranks
  <2>4. ResultIsBestOffered' /\ ErrorMeansNothingFound' /\ InternalOnlyAfterPanic'
    BY <1>0, <2>0 DEF RescueReturns, Larger, Ranks, ResultIsBestOffered, ErrorMeansNothingFound, InternalOnlyAfterPanic
  <2>5. SliceWithinBudget' /\ TimeoutReasonHonest' /\ AbandonedBounded'
    BY <1>0, <2>0 DEF RescueReturns, Larger, Ranks, SliceWithinBudget, TimeoutReasonHonest, AbandonedBounded
  <2> QED
    BY <2>1, <2>2, <2>3, <2>4, <2>5
<1>18. CASE RescueReturnsNothing
  <2>1. TypeOK'
    BY <1>0, <1>18 DEF RescueReturnsNothing
  <2>2. Bookkeeping'
    BY <1>0, <1>18 DEF RescueReturnsNothing
  <2>3. InHand'
    BY <1>0, <1>18 DEF RescueReturnsNothing
  <2>4. ResultIsBestOffered' /\ ErrorMeansNothingFound' /\ InternalOnlyAfterPanic'
    BY <1>0, <1>18 DEF RescueReturnsNothing, ResultIsBestOffered, ErrorMeansNothingFound, InternalOnlyAfterPanic
  <2>5. SliceWithinBudget' /\ TimeoutReasonHonest' /\ AbandonedBounded'
    BY <1>0, <1>18 DEF RescueReturnsNothing, SliceWithinBudget, TimeoutReasonHonest, AbandonedBounded
  <2> QED
    BY <2>1, <2>2, <2>3, <2>4, <2>5
<1>19. CASE RescuePanics
  <2>1. TypeOK'
    BY <1>0, <1>19 DEF RescuePanics
  <2>2. Bookkeeping'
    BY <1>0, <1>19 DEF RescuePanics
  <2>3. InHand'
    BY <1>0, <1>19 DEF RescuePanics
  <2>4. ResultIsBestOffered' /\ ErrorMeansNothingFound' /\ InternalOnlyAfterPanic'
    BY <1>0, <1>19 DEF RescuePanics, ResultIsBestOffered, ErrorMeansNothingFound, InternalOnlyAfterPanic
  <2>5. SliceWithinBudget' /\ TimeoutReasonHonest' /\ AbandonedBounded'
    BY <1>0, <1>19 DEF RescuePanics, SliceWithinBudget, TimeoutReasonHonest, AbandonedBounded
  <2> QED
    BY <2>1, <2>2, <2>3, <2>4, <2>5
<1>20. CASE SliceTimesOut
  <2>1. TypeOK'
    BY <1>0, <1>20 DEF SliceTimesOut
  <2>2. Bookkeeping'
    BY <1>0, <1>20 DEF SliceTimesOut
  <2>3. InHand'
    BY <1>0, <1>20 DEF SliceTimesOut
  <2>4. ResultIsBestOffered' /\ ErrorMeansNothingFound' /\ InternalOnlyAfterPanic'
    BY <1>0, <1>20 DEF SliceTimesOut, ResultIsBestOffered, ErrorMeansNothingFound, InternalOnlyAfterPanic
  <2>5. SliceWithinBudget' /\ TimeoutReasonHonest' /\ AbandonedBounded'
    BY <1>0, <1>20 DEF SliceTimesOut, SliceWithinBudget, TimeoutReasonHonest, AbandonedBounded
  <2> QED
    BY <2>1, <2>2, <2>3, <2>4, <2>5
<1>21. CASE RescueTimesOut
  <2>1. TypeOK'
    BY <1>0, <1>21 DEF RescueTimesOut
  <2>2. Bookkeeping'
    BY <1>0, <1>21 DEF RescueTimesOut
  <2>3. InHand'
    BY <1>0, <1>21 DEF RescueTimesOut
  <2>4. ResultIsBestOffered' /\ ErrorMeansNothingFound' /\ InternalOnlyAfterPanic'
    BY <1>0, <1>21 DEF RescueTimesOut, ResultIsBestOffered, ErrorMeansNothingFound, InternalOnlyAfterPanic
  <2>5. SliceWithinBudget' /\ TimeoutReasonHonest' /\ AbandonedBounded'
    BY <1>0, <1>21 DEF RescueTimesOut, SliceWithinBudget, TimeoutReasonHonest, AbandonedBounded
  <2> QED
    BY <2>1, <2>2, <2>3, <2>4, <2>5
<1>22. CASE UNCHANGED vars
  <2>1. TypeOK'
    BY <1>0, <1>22 DEF vars
  <2>2. Bookkeeping'
    BY <1>0, <1>22 DEF vars
  <2>3. InHand'
    BY <1>0, <1>22 DEF vars
  <2>4. ResultIsBestOffered' /\ ErrorMeansNothingFound' /\ InternalOnlyAfterPanic'
    BY <1>0, <1>22 DEF vars, ResultIsBestOffered, ErrorMeansNothingFound, InternalOnlyAfterPanic
  <2>5. SliceWithinBudget' /\ TimeoutReasonHonest' /\ AbandonedBounded'
    BY <1>0, <1>22 DEF vars, SliceWithinBudget, TimeoutReasonHonest, AbandonedBounded
  <2> QED
    BY <2>1, <2>2, <2>3, <2>4, <2>5
<1>23. CASE StartLns
  <2>1. TypeOK'
    BY <1>0, <1>23 DEF StartLns
  <2>2. Bookkeeping'
    BY <1>0, <1>23 DEF StartLns
  <2>3. InHand'
    BY <1>0, <1>23 DEF StartLns
  <2>4. ResultIsBestOffered' /\ ErrorMeansNothingFound' /\ InternalOnlyAfterPanic'
    BY <1>0, <1>23 DEF StartLns, ResultIsBestOffered, ErrorMeansNothingFound, InternalOnlyAfterPanic
  <2>5. SliceWithinBudget' /\ TimeoutReasonHonest' /\ AbandonedBounded'
    BY <1>0, <1>23 DEF StartLns, SliceWithinBudget, TimeoutReasonHonest, AbandonedBounded
  <2> QED
    BY <2>1, <2>2, <2>3, <2>4, <2>5
<1>24. CASE PostReturns
  <2>1. TypeOK'
    BY <1>0, <1>24 DEF PostReturns
  <2>2. Bookkeeping'
    BY <1>0, <1>24 DEF PostReturns
  <2>3. InHand'
    BY <1>0, <1>24 DEF PostReturns
  <2>4. ResultIsBestOffered' /\ ErrorMeansNothingFound' /\ InternalOnlyAfterPanic'
    BY <1>0, <1>24 DEF PostReturns, ResultIsBestOffered, ErrorMeansNothingFound, InternalOnlyAfterPanic
  <2>5. SliceWithinBudget' /\ TimeoutReasonHonest' /\ AbandonedBounded'
    BY <1>0, <1>24 DEF PostReturns, SliceWithinBudget, TimeoutReasonHonest, AbandonedBounded
  <2> QED
    BY <2>1, <2>2, <2>3, <2>4, <2>5
<1> QED
  BY <1>1, <1>2, <1>3, <1>4, <1>5, <1>6, <1>7, <1>8, <1>9, <1>10, <1>11, <1>12, <1>13, <1>14, <1>15, <1>16, <1>17, <1>18, <1>19, <1>20, <1>21, <1>22, <1>23, <1>24
  DEF Next, Run, Job, Timeout, Done

\* The invariant holds before the seed is built.
LEMMA InitIInv == Init => IInv
<1> SUFFICES ASSUME Init PROVE IInv
  OBVIOUS
<1>1. Planned \in Nat /\ Planned > 0
  BY PlannedType DEF Init
<1>2. TypeOK
  <2>1. answer \in [kind : Kinds, rank : 0..MaxRank, reason : Reasons]
    BY RestartsAssumption DEF Init, RestartsAssumption, Kinds, Reasons, NoAnswer, NoLayout
  <2>2. request \in Requests /\ pc \in Phases
    BY DEF Init, Phases
  <2>3. /\ now \in 0..MaxTime /\ deadline \in 0..MaxTime /\ index \in 0..Planned
        /\ best \in 0..MaxRank /\ offered \in 0..MaxRank /\ streak \in 0..Patience
        /\ used \in 0..(Planned + 1) /\ abandoned \in 0..2
    BY <1>1, RestartsAssumption DEF Init, RestartsAssumption, NoLayout
  <2>4. /\ timedOut \in BOOLEAN /\ budgetExhausted \in BOOLEAN /\ lastConstraint \in BOOLEAN
        /\ panicked \in BOOLEAN
    BY DEF Init
  <2> QED
    BY <2>1, <2>2, <2>3, <2>4 DEF TypeOK
<1>3. Bookkeeping /\ InHand
  BY DEF Init, Bookkeeping, InHand, NoAnswer, NoLayout, Posts
<1>4. ResultIsBestOffered /\ ErrorMeansNothingFound /\ InternalOnlyAfterPanic
  BY DEF Init, ResultIsBestOffered, ErrorMeansNothingFound, InternalOnlyAfterPanic, NoAnswer
<1>5. SliceWithinBudget /\ TimeoutReasonHonest /\ AbandonedBounded
  BY DEF Init, SliceWithinBudget, TimeoutReasonHonest, AbandonedBounded, NoAnswer
<1> QED
  BY <1>2, <1>3, <1>4, <1>5 DEF IInv

\* The inductive invariant of a run, from which the theorems below are read off.
LEMMA Invariance == Spec => []IInv
<1>1. IInv /\ [Next]_vars => IInv'
  BY StepIInv
<1> QED
  BY InitIInv, <1>1, PTL DEF Spec

-----------------------------------------------------------------------------
\* The state of a run (budget, slices, streak, candidates) is well-typed.
THEOREM TypeCorrect == Spec => []TypeOK
<1>1. IInv => TypeOK
  BY DEF IInv
<1> QED
  BY Invariance, <1>1, PTL

\* The layout a run answers with is the best one any of its parts produced; if
\* a post-process ran it has no more sheets than the seed it was given.
THEOREM BestReturned == Spec => []ResultIsBestOffered
<1>1. IInv => ResultIsBestOffered
  BY DEF IInv
<1> QED
  BY Invariance, <1>1, PTL

\* H1/V55: a 408 or a constraint error never discards a usable layout.
THEOREM NothingDiscarded == Spec => []ErrorMeansNothingFound
<1>1. IInv => ErrorMeansNothingFound
  BY DEF IInv
<1> QED
  BY Invariance, <1>1, PTL

\* The final "no solution produced" is unreachable: an internal error is
\* reported exactly when a blocking job panicked.
THEOREM InternalMeansPanic == Spec => []InternalOnlyAfterPanic
<1>1. IInv => InternalOnlyAfterPanic
  BY DEF IInv
<1> QED
  BY Invariance, <1>1, PTL

\* No slice and no rescue is given time beyond the budget, whatever the
\* schedule says.
THEOREM BudgetRespected == Spec => []SliceWithinBudget
<1>1. IInv => SliceWithinBudget
  BY DEF IInv
<1> QED
  BY Invariance, <1>1, PTL

\* timeout_reason names what ended the loop.
THEOREM ReasonTrue == Spec => []TimeoutReasonHonest
<1>1. IInv => TimeoutReasonHonest
  BY DEF IInv
<1> QED
  BY Invariance, <1>1, PTL

\* One run leaves at most one job behind, two if it found nothing at all.
THEOREM FewAbandoned == Spec => []AbandonedBounded
<1>1. IInv => AbandonedBounded
  BY DEF IInv
<1> QED
  BY Invariance, <1>1, PTL

\* Both bounds on a slice that does not end: on the time it may hold the
\* request, and on the jobs it leaves behind.
THEOREM SlicesStayContained == Spec => []SlicesContained
<1>1. SliceWithinBudget /\ AbandonedBounded => SlicesContained
  BY DEF SlicesContained
<1> QED
  BY BudgetRespected, FewAbandoned, <1>1, PTL

-----------------------------------------------------------------------------
\* No layout is worth nothing, and every layout something.
LEMMA MeritType ==
    ASSUME NEW rank \in 0..MaxRank
    PROVE  /\ Merit(rank) \in Nat
           /\ Merit(rank) = 0 <=> rank = 0
           /\ rank # 0 => Merit(rank) \in 1..Larger(MaxRank, MostSheets)
<1>1. MaxRank \in Nat /\ MostSheets \in Nat /\ (rank # 0 => Sheets[rank] \in 1..MostSheets)
  BY RestartsAssumption DEF RestartsAssumption
<1> QED
  BY <1>1 DEF Merit, NoLayout, Larger

\* The answer as the abstract solver sees it.
Abstract(a) == [kind |-> a.kind, quality |-> Merit(a.rank)]

\* The merit of the layout in hand, before and after a step.
LEMMA MeritOf ==
    ASSUME TypeOK
    PROVE  /\ Merit(best) \in Nat
           /\ Merit(best) = 0 <=> best = 0
           /\ best # 0 => Merit(best) \in 1..Larger(MaxRank, MostSheets)
BY MeritType DEF TypeOK

LEMMA MeritNext ==
    ASSUME TypeOK'
    PROVE  /\ Merit(best)' \in Nat
           /\ Merit(best)' = 0 <=> best' = 0
           /\ best' # 0 => Merit(best)' \in 1..Larger(MaxRank, MostSheets)
<1>0. MaxRank \in Nat /\ MostSheets \in Nat /\ Sheets \in [1..MaxRank -> 1..MostSheets]
  BY RestartsAssumption DEF RestartsAssumption
<1>2. best' \in 0..MaxRank
  BY DEF TypeOK
<1>1. MaxRank \in Nat /\ MostSheets \in Nat /\ best' \in 0..MaxRank
      /\ (best' # 0 => Sheets[best'] \in 1..MostSheets)
  BY <1>0, <1>2
<1> QED
  BY <1>1 DEF Merit, NoLayout, Larger

\* A step that goes on with the same or a better layout.
LEMMA GoesOn ==
    ASSUME TypeOK, TypeOK', answer' = answer, answer = NoAnswer, Merit(best)' >= Merit(best)
    PROVE  [AnytimeSolver!Next]_(AnytimeSolver!vars)
<1>1. Abstract(answer) = AnytimeSolver!NoAnswer /\ Abstract(answer)' = Abstract(answer)
  BY DEF Abstract, Merit, NoAnswer, NoLayout, AnytimeSolver!NoAnswer
<1>2. /\ Merit(best) \in Nat /\ Merit(best)' \in Nat
      /\ Merit(best)' # 0 => Merit(best)' \in 1..Larger(MaxRank, MostSheets)
  BY MeritOf, MeritNext
<1>3. CASE Merit(best)' = Merit(best)
  BY <1>1, <1>3 DEF AnytimeSolver!vars, Abstract
<1>4. CASE Merit(best)' > Merit(best)
  <2>1. AnytimeSolver!Improve
    BY <1>1, <1>2, <1>4 DEF Abstract, AnytimeSolver!Improve
  <2> QED
    BY <2>1 DEF AnytimeSolver!Next
<1> QED
  BY <1>2, <1>3, <1>4

\* A step that answers with the layout then in hand.
LEMMA AnswersWithBest ==
    ASSUME TypeOK, TypeOK', answer = NoAnswer, NEW reason, answer' = Ok(best', reason),
           best' # NoLayout, Merit(best)' >= Merit(best)
    PROVE  [AnytimeSolver!Next]_(AnytimeSolver!vars)
<1>1. /\ Abstract(answer) = AnytimeSolver!NoAnswer
      /\ Abstract(answer)' = AnytimeSolver!Ok(Merit(best)')
  BY DEF Abstract, Merit, NoAnswer, NoLayout, Ok, AnytimeSolver!NoAnswer, AnytimeSolver!Ok
<1>2. /\ Merit(best) \in Nat /\ Merit(best)' \in 1..Larger(MaxRank, MostSheets)
  BY MeritOf, MeritNext DEF NoLayout
<1>3. CASE Merit(best)' = Merit(best)
  <2>1. AnytimeSolver!Succeed
    BY <1>1, <1>2, <1>3 DEF Abstract, AnytimeSolver!Succeed
  <2> QED
    BY <2>1 DEF AnytimeSolver!Next
<1>4. CASE Merit(best)' > Merit(best)
  <2>1. AnytimeSolver!ImproveAndSucceed
    BY <1>1, <1>2, <1>4 DEF Abstract, AnytimeSolver!ImproveAndSucceed
  <2> QED
    BY <2>1 DEF AnytimeSolver!Next
<1> QED
  BY <1>2, <1>3, <1>4

\* A step that answers with an error: nothing is in hand, or a job panicked.
LEMMA AnswersWithError ==
    ASSUME TypeOK, answer = NoAnswer, UNCHANGED <<request, index, best>>, NEW kind, answer' = Error(kind),
           kind = "internal" \/ (kind \in {"timeout", "constraint"} /\ best = NoLayout)
    PROVE  [AnytimeSolver!Next]_(AnytimeSolver!vars)
<1>1. /\ Abstract(answer) = AnytimeSolver!NoAnswer
      /\ Abstract(answer)' = AnytimeSolver!Error(kind)
      /\ Merit(best)' = Merit(best)
  BY DEF Abstract, Merit, Polishing, PostProcess, NoAnswer, NoLayout, Error,
         AnytimeSolver!NoAnswer, AnytimeSolver!Error
<1>2. CASE kind = "internal"
  <2>1. AnytimeSolver!Break
    BY <1>1, <1>2 DEF Abstract, AnytimeSolver!Break
  <2> QED
    BY <2>1 DEF AnytimeSolver!Next
<1>3. CASE kind \in {"timeout", "constraint"} /\ best = NoLayout
  <2>1. Merit(best) = 0
    BY <1>3 DEF Merit
  <2>2. AnytimeSolver!GiveUp
    BY <1>1, <1>3, <2>1 DEF Abstract, AnytimeSolver!GiveUp
  <2> QED
    BY <2>2 DEF AnytimeSolver!Next
<1> QED
  BY <1>2, <1>3

\* A layout with no fewer merits than before: nothing was in hand, or the same
\* layout is, or one of no more sheets or of a higher rank is, and the loop has
\* not begun or gone on in between.
LEMMA MeritGrows ==
    ASSUME TypeOK, TypeOK', request' = request,
           \/ best = NoLayout
           \/ /\ index' = index
              /\ \/ best' = best
                 \/ best' # NoLayout /\ Polishing /\ Sheets[best'] <= Sheets[best]
           \/ ~Polishing /\ ~Polishing' /\ best' >= best
    PROVE  Merit(best)' >= Merit(best)
<1>1. MaxRank \in Nat /\ MostSheets \in Nat /\ best \in 0..MaxRank /\ best' \in 0..MaxRank
      /\ (best # 0 => Sheets[best] \in 1..MostSheets)
      /\ (best' # 0 => Sheets[best'] \in 1..MostSheets)
  <2>1. MaxRank \in Nat /\ MostSheets \in Nat /\ \A rank \in 1..MaxRank : Sheets[rank] \in 1..MostSheets
    BY RestartsAssumption DEF RestartsAssumption
  <2>2. best \in 0..MaxRank /\ best' \in 0..MaxRank
    BY DEF TypeOK
  <2> QED
    BY <2>1, <2>2
<1>2. CASE best = NoLayout
  BY <1>2, MeritOf, MeritNext DEF NoLayout
<1>3. CASE index' = index /\ best' = best
  BY <1>1, <1>3, MeritOf DEF Merit, Polishing, PostProcess
<1>4. CASE index' = index /\ best' # NoLayout /\ Polishing /\ Sheets[best'] <= Sheets[best]
  <2>1. Polishing'
    BY <1>4 DEF Polishing, PostProcess
  <2> QED
    BY <1>1, <1>4, <2>1, <1>2 DEF Merit, NoLayout
<1>5. CASE ~Polishing /\ ~Polishing' /\ best' >= best
  BY <1>1, <1>5 DEF Merit, NoLayout
<1> QED
  BY <1>2, <1>3, <1>4, <1>5

\* Every step of a run is a step of the abstract solver, or a stutter.
LEMMA StepImplements ==
    ASSUME IInv, IInv', [Next]_vars
    PROVE  [AnytimeSolver!Next]_(AnytimeSolver!vars)
<1>0. /\ TypeOK /\ TypeOK' /\ best \in Int /\ index \in Nat /\ request' = request
      /\ pc # "done" => answer = NoAnswer
  BY RequestFixed DEF IInv, TypeOK, InHand
<1> USE DEF Finish, clock, flags, history
<1>1. CASE Tick \/ StartPost \/ StartLns \/ StartSlice \/ BudgetExhausted \/ PlanDone \/ StartRescue \/ NoRescue
  <2>1. pc # "done" /\ answer' = answer /\ best' = best /\ index' = index
    BY <1>0, <1>1 DEF Tick, StartPost, StartLns, StartSlice, BudgetExhausted, PlanDone, StartRescue, NoRescue
  <2> QED
    BY <1>0, <2>1, MeritGrows, GoesOn
<1>2. CASE \/ SliceReturnsNothing \/ SliceTimesOut \/ RescueReturnsNothing \/ RescueTimesOut
           \/ \E rank \in Ranks : SliceReturns(rank)
  <2>1. /\ pc \in {"await", "rescue"} /\ answer' = answer /\ best' >= best
        /\ index' = index + 1 \/ (index' = index /\ best' = best)
    BY <1>0, <1>2 DEF SliceReturnsNothing, SliceTimesOut, RescueReturnsNothing, RescueTimesOut,
                      SliceReturns, Larger, Ranks
  <2>2. CASE Polishing
    <3>1. best = NoLayout
      BY <2>1, <2>2 DEF IInv, InHand, Posts
    <3> QED
      BY <1>0, <2>1, <3>1, MeritGrows, GoesOn
  <2>3. CASE ~Polishing
    <3>1. ~Polishing'
      BY <1>0, <2>1, <2>3 DEF Polishing, PostProcess
    <3> QED
      BY <1>0, <2>1, <2>3, <3>1, MeritGrows, GoesOn
  <2> QED
    BY <2>2, <2>3
<1>3. CASE \E rank \in 0..MaxRank : Seed(rank)
  <2>1. pc # "done" /\ answer' = answer /\ best = NoLayout
    BY <1>0, <1>3 DEF Seed, IInv, InHand
  <2> QED
    BY <1>0, <2>1, MeritGrows, GoesOn
<1>4. CASE \E rank \in Ranks : Consolidate(rank) \/ Refine(rank)
  <2>1. PICK rank \in Ranks : Consolidate(rank) \/ Refine(rank)
    BY <1>4
  <2>2. /\ pc \in Posts /\ answer' = answer /\ index' = index /\ best' = rank
        /\ Sheets[rank] < Sheets[best] \/ Sheets[rank] <= Sheets[best]
    BY <2>1 DEF Consolidate, Refine, Posts
  <2>3. Polishing /\ best # NoLayout
    BY <2>2 DEF Polishing, IInv, InHand, Bookkeeping
  <2>4. best' # NoLayout /\ rank \in 1..MaxRank /\ best \in 1..MaxRank
    BY <1>0, <2>2, <2>3 DEF Ranks, NoLayout, TypeOK
  <2>5. Sheets[best'] <= Sheets[best]
    BY <2>2, <2>4, RestartsAssumption DEF RestartsAssumption
  <2>6. pc # "done"
    BY <2>2 DEF Posts
  <2> QED
    BY <1>0, <2>2, <2>3, <2>4, <2>5, <2>6, MeritGrows, GoesOn
<1>5. CASE ReturnSeed \/ ReturnBest \/ PostReturns
  <2>1. PICK reason : answer' = Ok(best, reason)
    BY <1>5 DEF ReturnSeed, ReturnBest, PostReturns
  <2>2. pc # "done" /\ best' = best /\ best # NoLayout /\ index' = index
    BY <1>5 DEF ReturnSeed, ReturnBest, PostReturns, IInv, InHand, Posts
  <2> QED
    BY <1>0, <2>1, <2>2, MeritGrows, AnswersWithBest
<1>6. CASE \E rank \in Ranks : RescueReturns(rank)
  <2>1. PICK rank \in Ranks : RescueReturns(rank)
    BY <1>6
  <2>2. PICK reason : answer' = Ok(rank, reason)
    BY <2>1 DEF RescueReturns
  <2>3. pc # "done" /\ best' = rank /\ best' # NoLayout /\ best = NoLayout
    BY <2>1 DEF RescueReturns, Ranks, NoLayout, IInv, InHand
  <2> QED
    BY <1>0, <2>2, <2>3, MeritGrows, AnswersWithBest
<1>7. CASE PostPanics \/ SlicePanics \/ RescuePanics
  <2>1. pc # "done" /\ UNCHANGED <<index, best>> /\ answer' = Error("internal")
    BY <1>7 DEF PostPanics, SlicePanics, RescuePanics, Posts
  <2> QED
    BY <1>0, <2>1, AnswersWithError
<1>8. CASE Fail
  <2>1. PICK kind \in {"timeout", "constraint", "internal"} : answer' = Error(kind)
    BY <1>8 DEF Fail
  <2>2. pc # "done" /\ UNCHANGED <<index, best>> /\ best = NoLayout
    BY <1>8 DEF Fail, IInv, InHand
  <2> QED
    BY <1>0, <2>1, <2>2, AnswersWithError
<1>9. CASE UNCHANGED vars
  BY <1>9 DEF vars, AnytimeSolver!vars, Merit, Polishing, PostProcess
<1> QED
  BY <1>1, <1>2, <1>3, <1>4, <1>5, <1>6, <1>7, <1>8, <1>9 DEF Next, Run, Job, Timeout, Done

\* A run of the restart loop implements the abstract anytime solver: in ranks,
\* or in sheets where a post-process has the last word.
THEOREM Implements == Spec => ImplementsAnytime
<1>1. Init => AnytimeSolver!Init
  <2> SUFFICES ASSUME Init PROVE AnytimeSolver!Init
    OBVIOUS
  <2>1. Merit(best) = 0 /\ answer = NoAnswer /\ Merit(NoLayout) = 0
    BY DEF Init, Merit
  <2> QED
    BY <2>1 DEF AnytimeSolver!Init, NoAnswer, AnytimeSolver!NoAnswer
<1>2. IInv /\ IInv' /\ [Next]_vars => [AnytimeSolver!Next]_(AnytimeSolver!vars)
  BY StepImplements
<1> QED
  BY Invariance, <1>1, <1>2, PTL DEF Spec, ImplementsAnytime, AnytimeSolver!Spec
=============================================================================
