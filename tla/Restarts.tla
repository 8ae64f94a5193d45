------------------------------ MODULE Restarts -------------------------------
(***************************************************************************)
(* run_restarts_with_budget of src/src/optimizer.rs: the anytime loop that *)
(* every solver of the service is built on.  A first layout comes from a   *)
(* synchronous heuristic; then GA slices run one after the other, each a   *)
(* blocking job awaited under a timeout, until the plan, the time budget   *)
(* or the patience is used up; a run that timed out with nothing in hand   *)
(* may get one rescue slice.                                               *)
(*                                                                         *)
(* A layout is its rank under compare_candidates (0: no layout); layouts   *)
(* of one rank have as many sheets.  The post-process of engine=heuristic  *)
(* looks at the sheets alone: its repacks of sheets need not keep the      *)
(* waste when a partition's subset is solved (module Peeling).  Time is a  *)
(* discrete clock that may tick in any phase; a slice and its timeout      *)
(* race.                                                                   *)
(***************************************************************************)
EXTENDS Integers, Sequences

CONSTANTS
    Budget,      \* total_budget_ms, in clock ticks
    MinSlice,    \* MIN_SLICE_MS, in clock ticks
    Patience,    \* EARLY_STOP_NO_IMPROVE_PATIENCE
    MaxRank,     \* bound: ranks are 1..MaxRank
    MostSheets,  \* bound: a layout has at most so many sheets
    Sheets,      \* used_stock_count of each rank; min_waste gives them no order
    MaxTime,     \* bound: the clock stops here
    Schedules    \* the slice schedules (or restarts copies of slice_ms) to try

ASSUME RestartsAssumption ==
    /\ Budget \in Nat \ {0} /\ MinSlice \in Nat \ {0} /\ Patience \in Nat \ {0}
    /\ MaxRank \in Nat \ {0}
    /\ MostSheets \in Nat \ {0}
    /\ Sheets \in [1..MaxRank -> 1..MostSheets]
    /\ MaxTime \in Nat /\ MaxTime >= Budget
    /\ Schedules \subseteq Seq(Nat)
    /\ \A s \in Schedules : Len(s) > 0

VARIABLES
    request,          \* what the caller asked for; never changes
    pc,               \* where the run is
    now,              \* started_at.elapsed()
    deadline,         \* when the timeout of the awaited slice fires
    index,            \* restarts begun and dealt with: i of the loop
    best,             \* best candidate so far
    streak,           \* no_improve_streak
    timedOut,         \* timed_out
    budgetExhausted,  \* budget_exhausted
    lastConstraint,   \* last_constraint is Some
    used,             \* restarts_used
    abandoned,        \* jobs that timed out and were aborted; they may run on
    answer,           \* what the run returned
    offered,          \* history: the best rank the seed, the slices and the rescue came up with
    panicked          \* history: a blocking job panicked

vars == <<request, pc, now, deadline, index, best, streak, timedOut, budgetExhausted,
          lastConstraint, used, abandoned, answer, offered, panicked>>

Ranks == 1..MaxRank
NoLayout == 0

Requests ==
    [heuristicOnly : BOOLEAN,      \* engine = heuristic
     consolidate   : BOOLEAN,      \* consolidate is configured
     lns           : BOOLEAN,      \* lns is configured
     rescue        : BOOLEAN,      \* allow_timeout_rescue
     schedule      : Schedules]

Planned == Len(request.schedule)
PostProcess == request.consolidate \/ request.lns

NoAnswer == [kind |-> "none", rank |-> NoLayout, reason |-> "none"]
Ok(rank, reason) == [kind |-> "ok", rank |-> rank, reason |-> reason]
Error(kind) == [kind |-> kind, rank |-> NoLayout, reason |-> "none"]

Phases == {"seed", "heuristic", "consolidate", "lns", "loop", "await", "collect", "rescue", "fail", "done"}
Posts == {"consolidate", "lns"}
Kinds == {"none", "ok", "timeout", "constraint", "internal"}
Reasons == {"none", "slice_timeout", "time_budget_exhausted"}

Larger(a, b) == IF a > b THEN a ELSE b
Smaller(a, b) == IF a < b THEN a ELSE b

clock == <<now, deadline>>
flags == <<timedOut, budgetExhausted, lastConstraint>>
history == <<offered, panicked>>

Finish(a) == pc' = "done" /\ answer' = a

\* A rescue slice is worth its while: timed_out, allowed, and MIN_SLICE_MS left.
CanRescue == timedOut /\ request.rescue /\ Budget - now >= MinSlice

-----------------------------------------------------------------------------
(* Mutated forms of the definitions below: what a bug in them would be.    *)

BudgetExhaustedUnreported ==    \* the reason of the early end is lost
    /\ pc = "loop"
    /\ index < Planned
    /\ now >= Budget
    /\ pc' = "collect"
    /\ UNCHANGED <<request, clock, index, best, streak, flags, used, abandoned, answer, history>>

BudgetExhaustedNoBreak ==       \* the loop goes on although time is up
    /\ pc = "loop"
    /\ index < Planned
    /\ now >= Budget
    /\ budgetExhausted' = TRUE
    /\ UNCHANGED <<request, pc, clock, index, best, streak, timedOut, lastConstraint, used,
                   abandoned, answer, history>>

SliceReturnsLast(rank) ==       \* the last candidate replaces the best one
    /\ pc = "await"
    /\ used' = used + 1
    /\ index' = index + 1
    /\ offered' = Larger(offered, rank)
    /\ best' = rank
    /\ streak' = IF rank > best THEN 0 ELSE streak + 1
    /\ pc' = IF streak' >= Patience THEN "collect" ELSE "loop"
    /\ UNCHANGED <<request, clock, flags, abandoned, answer, panicked>>

SliceReturnsNothingSilently ==  \* the missing candidate is not recorded
    /\ pc = "await"
    /\ used' = used + 1
    /\ index' = index + 1
    /\ pc' = "loop"
    /\ UNCHANGED <<request, clock, best, streak, flags, abandoned, answer, history>>

SliceTimesOutNoBreak ==         \* the next job is launched beside the abandoned one
    /\ pc = "await"
    /\ now >= deadline
    /\ timedOut' = TRUE
    /\ abandoned' = abandoned + 1
    /\ index' = index + 1
    /\ pc' = "loop"
    /\ UNCHANGED <<request, clock, best, streak, budgetExhausted, lastConstraint, used, answer, history>>

-----------------------------------------------------------------------------
Init ==
    /\ request \in Requests
    /\ pc = "seed"
    /\ now = 0 /\ deadline = 0
    /\ index = 0
    /\ best = NoLayout
    /\ streak = 0
    /\ timedOut = FALSE /\ budgetExhausted = FALSE /\ lastConstraint = FALSE
    /\ used = 0
    /\ abandoned = 0
    /\ answer = NoAnswer
    /\ offered = NoLayout
    /\ panicked = FALSE

\* The clock advances; it does so in every phase, the synchronous ones too.
Tick ==
    /\ pc # "done"
    /\ now < MaxTime
    /\ now' = now + 1
    /\ UNCHANGED <<request, pc, deadline, index, best, streak, flags, used, abandoned, answer, history>>

\* H1/V55: the synchronous first-fit heuristic seeds `best`, if it finds any
\* valid layout.  With engine=heuristic that layout is the answer.
Seed(rank) ==
    /\ pc = "seed"
    /\ best' = rank
    /\ offered' = rank
    /\ pc' = IF request.heuristicOnly /\ rank # NoLayout THEN "heuristic" ELSE "loop"
    /\ UNCHANGED <<request, clock, index, streak, flags, used, abandoned, answer, panicked>>

\* engine=heuristic without a post-process.
ReturnSeed ==
    /\ pc = "heuristic"
    /\ ~PostProcess
    /\ Finish(Ok(best, "none"))
    /\ UNCHANGED <<request, clock, index, best, streak, flags, used, abandoned, history>>

\* engine=heuristic with consolidate or lns: one blocking job, no timeout.
StartPost ==
    /\ pc = "heuristic"
    /\ PostProcess
    /\ pc' = IF request.consolidate THEN "consolidate" ELSE "lns"
    /\ UNCHANGED <<request, clock, index, best, streak, flags, used, abandoned, answer, history>>

\* consolidate_underfull_sheets repacks some sheets, in whatever way, and
\* accepts a layout of fewer sheets only.
Consolidate(rank) ==
    /\ pc = "consolidate"
    /\ Sheets[rank] < Sheets[best]
    /\ best' = rank
    /\ UNCHANGED <<request, pc, clock, index, streak, flags, used, abandoned, answer, history>>

StartLns ==
    /\ pc = "consolidate"
    /\ request.lns
    /\ pc' = "lns"
    /\ UNCHANGED <<request, clock, index, best, streak, flags, used, abandoned, answer, history>>

\* lns_refine also accepts one of as many sheets, if its free area is more
\* concentrated.  Neither asks the ranking.
Refine(rank) ==
    /\ pc = "lns"
    /\ Sheets[rank] <= Sheets[best]
    /\ best' = rank
    /\ UNCHANGED <<request, pc, clock, index, streak, flags, used, abandoned, answer, history>>

PostReturns ==
    /\ pc = "lns" \/ (pc = "consolidate" /\ ~request.lns)
    /\ Finish(Ok(best, "none"))
    /\ UNCHANGED <<request, clock, index, best, streak, flags, used, abandoned, history>>

PostPanics ==
    /\ pc \in Posts
    /\ panicked' = TRUE
    /\ Finish(Error("internal"))
    /\ UNCHANGED <<request, clock, index, best, streak, flags, used, abandoned, offered>>

-----------------------------------------------------------------------------
\* this_slice_ms: the planned slice, cut to what is left of the budget.
SliceLength == Larger(1, Smaller(Budget - now, request.schedule[index + 1]))

StartSlice ==
    /\ pc = "loop"
    /\ index < Planned
    /\ now < Budget
    /\ deadline' = now + SliceLength
    /\ pc' = "await"
    /\ UNCHANGED <<request, now, index, best, streak, flags, used, abandoned, answer, history>>

BudgetExhausted ==
    /\ pc = "loop"
    /\ index < Planned
    /\ now >= Budget
    /\ budgetExhausted' = TRUE
    /\ pc' = "collect"
    /\ UNCHANGED <<request, clock, index, best, streak, timedOut, lastConstraint, used,
                   abandoned, answer, history>>

PlanDone ==
    /\ pc = "loop"
    /\ index = Planned
    /\ pc' = "collect"
    /\ UNCHANGED <<request, clock, index, best, streak, flags, used, abandoned, answer, history>>

\* The slice ends, before its timeout or in a tie with it, with a candidate.
\* Only a strictly better one replaces the best; enough others end the loop.
SliceReturns(rank) ==
    /\ pc = "await"
    /\ used' = used + 1
    /\ index' = index + 1
    /\ offered' = Larger(offered, rank)
    /\ best' = Larger(best, rank)
    /\ streak' = IF rank > best THEN 0 ELSE streak + 1
    /\ pc' = IF streak' >= Patience THEN "collect" ELSE "loop"
    /\ UNCHANGED <<request, clock, flags, abandoned, answer, panicked>>

\* The slice ends without one valid candidate: neither the best nor the
\* streak is touched.
SliceReturnsNothing ==
    /\ pc = "await"
    /\ used' = used + 1
    /\ index' = index + 1
    /\ lastConstraint' = TRUE
    /\ pc' = "loop"
    /\ UNCHANGED <<request, clock, best, streak, timedOut, budgetExhausted, abandoned, answer, history>>

\* A JoinError ends the run at once; the best candidate is lost.
SlicePanics ==
    /\ pc = "await"
    /\ panicked' = TRUE
    /\ Finish(Error("internal"))
    /\ UNCHANGED <<request, clock, index, best, streak, flags, used, abandoned, offered>>

\* The timeout fires first.  The job is abandoned and no other one launched.
SliceTimesOut ==
    /\ pc = "await"
    /\ now >= deadline
    /\ timedOut' = TRUE
    /\ abandoned' = abandoned + 1
    /\ index' = index + 1
    /\ pc' = "collect"
    /\ UNCHANGED <<request, clock, best, streak, budgetExhausted, lastConstraint, used, answer, history>>

-----------------------------------------------------------------------------
TimeoutReason ==
    IF timedOut THEN "slice_timeout"
    ELSE IF budgetExhausted THEN "time_budget_exhausted" ELSE "none"

ReturnBest ==
    /\ pc = "collect"
    /\ best # NoLayout
    /\ Finish(Ok(best, TimeoutReason))
    /\ UNCHANGED <<request, clock, index, best, streak, flags, used, abandoned, history>>

StartRescue ==
    /\ pc = "collect"
    /\ best = NoLayout
    /\ CanRescue
    /\ deadline' = Budget
    /\ pc' = "rescue"
    /\ UNCHANGED <<request, now, index, best, streak, flags, used, abandoned, answer, history>>

NoRescue ==
    /\ pc = "collect"
    /\ best = NoLayout
    /\ ~CanRescue
    /\ pc' = "fail"
    /\ UNCHANGED <<request, clock, index, best, streak, flags, used, abandoned, answer, history>>

RescueReturns(rank) ==
    /\ pc = "rescue"
    /\ used' = used + 1
    /\ best' = rank
    /\ offered' = Larger(offered, rank)
    /\ Finish(Ok(rank, "slice_timeout"))
    /\ UNCHANGED <<request, clock, index, streak, flags, abandoned, panicked>>

\* No valid candidate, or the GA's own error (which does not count as used).
RescueReturnsNothing ==
    /\ pc = "rescue"
    /\ used' \in {used, used + 1}
    /\ lastConstraint' = TRUE
    /\ pc' = "fail"
    /\ UNCHANGED <<request, clock, index, best, streak, timedOut, budgetExhausted, abandoned, answer, history>>

RescuePanics ==
    /\ pc = "rescue"
    /\ panicked' = TRUE
    /\ Finish(Error("internal"))
    /\ UNCHANGED <<request, clock, index, best, streak, flags, used, abandoned, offered>>

RescueTimesOut ==
    /\ pc = "rescue"
    /\ now >= deadline
    /\ abandoned' = abandoned + 1
    /\ pc' = "fail"
    /\ UNCHANGED <<request, clock, index, best, streak, flags, used, answer, history>>

Fail ==
    /\ pc = "fail"
    /\ Finish(Error(IF timedOut \/ budgetExhausted THEN "timeout"
                    ELSE IF lastConstraint THEN "constraint" ELSE "internal"))
    /\ UNCHANGED <<request, clock, index, best, streak, flags, used, abandoned, history>>

-----------------------------------------------------------------------------
\* Steps of the handler that wait for nothing.
Run ==
    \/ \E rank \in 0..MaxRank : Seed(rank)
    \/ ReturnSeed
    \/ StartPost
    \/ StartSlice
    \/ BudgetExhausted
    \/ PlanDone
    \/ ReturnBest
    \/ StartRescue
    \/ NoRescue
    \/ Fail

\* Steps a blocking job decides on.
Job ==
    \/ \E rank \in Ranks : Consolidate(rank) \/ Refine(rank)
    \/ StartLns
    \/ PostReturns
    \/ PostPanics
    \/ \E rank \in Ranks : SliceReturns(rank)
    \/ SliceReturnsNothing
    \/ SlicePanics
    \/ \E rank \in Ranks : RescueReturns(rank)
    \/ RescueReturnsNothing
    \/ RescuePanics

Timeout == SliceTimesOut \/ RescueTimesOut

\* The caller has the answer; the run is over.
Done == pc = "done" /\ UNCHANGED vars

Next == Tick \/ Run \/ Job \/ Timeout \/ Done

Spec == Init /\ [][Next]_vars

\* Time passes, timers fire and the handler is scheduled.  A GA slice need not
\* ever end; the post-process, which has no timeout, checks its own deadline.
FairSpec ==
    /\ Spec
    /\ WF_vars(Tick) /\ WF_vars(Run) /\ WF_vars(Timeout)
    /\ WF_vars(StartLns) /\ WF_vars(PostReturns \/ PostPanics)
-----------------------------------------------------------------------------
TypeOK ==
    /\ request \in Requests
    /\ pc \in Phases
    /\ now \in 0..MaxTime /\ deadline \in 0..MaxTime
    /\ index \in 0..Planned
    /\ best \in 0..MaxRank /\ offered \in 0..MaxRank
    /\ streak \in 0..Patience
    /\ timedOut \in BOOLEAN /\ budgetExhausted \in BOOLEAN /\ lastConstraint \in BOOLEAN
    /\ panicked \in BOOLEAN
    /\ used \in 0..(Planned + 1)
    /\ abandoned \in 0..2
    /\ answer \in [kind : Kinds, rank : 0..MaxRank, reason : Reasons]

\* The seed was the layout to return, and a post-process was to improve it.
Polishing == request.heuristicOnly /\ PostProcess /\ index = 0

\* The layout returned is the best of the seed and of every slice whose result
\* arrived.  A post-process may return another one, but none of more sheets
\* than the seed, whatever its repacks come up with one after the other.
ResultIsBestOffered ==
    answer.kind = "ok" =>
        IF Polishing THEN Sheets[answer.rank] <= Sheets[offered] ELSE answer.rank = offered

\* H1/V55: a timeout or a constraint error never discards a usable layout.
ErrorMeansNothingFound ==
    answer.kind \in {"timeout", "constraint"} => offered = NoLayout

\* "no solution produced" and the task-failure errors need a panic in a job:
\* whatever else goes wrong has a more precise error.
InternalOnlyAfterPanic ==
    answer.kind = "internal" <=> panicked

\* No timeout is armed beyond the time limit of the request.
SliceWithinBudget ==
    pc \in {"await", "rescue"} => deadline <= Budget

\* timeout_reason tells the truth about an early end: without one, the plan was
\* carried out or patience ran out; with one, the clock or a timer said so.
TimeoutReasonHonest ==
    answer.kind = "ok" /\ ~request.heuristicOnly =>
        /\ answer.reason = "none" => index = used /\ (index = Planned \/ streak = Patience)
        /\ answer.reason = "time_budget_exhausted" => now >= Budget /\ index = used /\ index < Planned
        /\ answer.reason = "slice_timeout" => abandoned = 1

\* One run leaves at most one abandoned job on the blocking pool, two only if
\* it found nothing at all.
AbandonedBounded ==
    abandoned <= 2 /\ (offered # NoLayout => abandoned <= 1)

\* A slice that does not end costs the request no more than its own time, and
\* the pool no more than its own thread.
SlicesContained == SliceWithinBudget /\ AbandonedBounded

\* Time alone makes every run answer.
RunAnswers == <>(answer # NoAnswer)

\* How good a layout is: its rank, or its sheets if they are all that the rest
\* of the run looks at.
Merit(rank) ==
    IF rank = NoLayout THEN 0
    ELSE IF Polishing THEN MostSheets + 1 - Sheets[rank] ELSE rank

\* The abstract solver this run implements.
AnytimeSolver ==
    INSTANCE Anytime WITH
        Qualities <- 1..Larger(MaxRank, MostSheets),
        best <- Merit(best),
        answer <- [kind |-> answer.kind, quality |-> Merit(answer.rank)]

ImplementsAnytime == AnytimeSolver!Spec
=============================================================================
