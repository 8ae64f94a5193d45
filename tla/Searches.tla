------------------------------- MODULE Searches -------------------------------
(***************************************************************************)
(* The searches of src/src/optimizer.rs that are built from whole runs of  *)
(* the restart loop: run_portfolio_anytime, run_beam_anytime and           *)
(* run_alns_anytime.  Each awaits one run_restarts_with_budget after the   *)
(* other, with a budget cut from its deadline, and chooses what to run     *)
(* next from what came back.                                               *)
(*                                                                         *)
(* A run answers as module Restarts says it may: with a layout (its rank   *)
(* under is_better) that may carry a timeout_reason, with a timeout, or    *)
(* with another error.  It may overrun its budget, because its heuristic   *)
(* and its last slice are not cut short.                                   *)
(***************************************************************************)
EXTENDS Schedule

CONSTANTS
    Deadline,       \* deadline_ms
    Candidates,     \* candidate_count of a portfolio
    Width, Depth, Branches,            \* beam_width, beam_depth, branch_factor
    Iterations,     \* iterations of ALNS
    MinBaseline,    \* ALNS_MIN_BASELINE_BUDGET_MS
    MinIteration,   \* ALNS_MIN_ITER_BUDGET_MS
    MaxStreak,      \* ALNS_MAX_TIMEOUT_STREAK
    MaxIterRestarts,   \* ALNS_MAX_ITER_RESTARTS
    MaxRestarts,    \* BEAM_MAX_RESTARTS, ALNS_MAX_RESTARTS and the portfolio's 64
    MaxRank,        \* bound: ranks are 1..MaxRank
    Score,          \* objective_score of each rank, smaller is better; no order is assumed
    Overrun,        \* bound: a run ends at most this long after its budget
    Requests        \* the [kind, restarts] to try

ASSUME SearchesAssumption ==
    /\ Deadline \in Nat /\ Deadline >= MinSlice
    /\ Candidates \in Nat \ {0} /\ Width \in Nat \ {0} /\ Depth \in Nat \ {0}
    /\ Branches \in Nat \ {0} /\ Iterations \in Nat \ {0}
    /\ MinBaseline \in Nat /\ MinIteration \in Nat /\ MinIteration >= MinSlice
    /\ MaxStreak \in Nat /\ MaxStreak > 1 /\ MaxIterRestarts \in Nat \ {0} /\ MaxRestarts \in Nat \ {0}
    /\ MaxRank \in Nat \ {0}
    /\ Score \in [1..MaxRank -> Nat]
    /\ Overrun \in Nat
    /\ Requests \subseteq [kind : {"portfolio", "beam", "alns"}, restarts : Nat \ {0}]

VARIABLES
    request,          \* which search, and its default_restarts
    pc,
    now,              \* started_at.elapsed()
    call,             \* the run in progress
    index,            \* candidate, level or iteration, counted from 0
    node,             \* beam: expansions of this level dealt with
    runBudget,        \* beam: run_budget_ms of this level
    frontier,         \* beam: plans to expand, and their layouts, best first
    level,            \* beam: level_results, best first
    incumbent,        \* ALNS: the layout and plan that the next proposal varies
    streak,           \* ALNS: timeout_streak
    best,             \* portfolio, ALNS: best
    evaluated,        \* the telemetry's counts: candidates_completed of a portfolio,
    timedOut, failed, \* nodes_evaluated of a beam, candidates_evaluated of ALNS
    budgetExhausted,
    answer,
    runs,             \* history: runs begun
    offered,          \* history: the best rank any run came up with
    levels,           \* history: per beam level its best rank (0: none), the runs planned and begun
    silent,           \* history: runs in a row that ended in a timeout
    outcomes,         \* history: how runs ended: ok, reported (with a timeout_reason), timeout, failure
    late              \* history: some run overran its budget

beam == <<node, runBudget, frontier, level, levels>>
alns == <<incumbent, streak>>
counts == <<evaluated, timedOut, failed>>
history == <<runs, offered, silent, outcomes, late>>
vars == <<request, pc, now, call, index, beam, alns, best, counts, budgetExhausted, answer, history>>

NoLayout == 0
NoAnswer == [kind |-> "none", rank |-> NoLayout, reason |-> "none"]
Ok(rank, reason) == [kind |-> "ok", rank |-> rank, reason |-> reason]
Error(kind) == [kind |-> kind, rank |-> NoLayout, reason |-> "none"]

Is(kind) == request.kind = kind
Remaining == Monus(Deadline, now)
TimeIsUp == now >= Deadline

-----------------------------------------------------------------------------
(* Plans: a plan is the number of restarts it asks for; the seeds that tell *)
(* two plans of the same number apart are left out.                         *)

PortfolioPlan(i) ==
    CASE i % 4 \in {0, 2} -> request.restarts
      [] i % 4 = 1 -> Larger(1, request.restarts \div 2)
      [] OTHER -> Clamp(2 * request.restarts, 1, MaxRestarts)

Expansion(branch, restarts) ==
    CASE branch % 4 = 0 -> restarts
      [] branch % 4 = 1 -> Larger(1, restarts \div 2)
      [] branch % 4 = 2 -> Clamp(restarts + 1, 1, MaxRestarts)
      [] OTHER -> Clamp(2 * restarts, 1, MaxRestarts)

\* One plan per pair of operators: dense, sparse, boost and trim.
Proposals(restarts) ==
    {Clamp(2 * restarts, 1, MaxRestarts), Larger(1, restarts \div 2),
     Clamp(restarts + 2, 1, MaxRestarts), Clamp(Larger(1, restarts - 1), 1, MaxRestarts)}

-----------------------------------------------------------------------------
Init ==
    /\ request \in Requests
    /\ pc = IF request.kind = "alns" THEN "bootstrap" ELSE "next"
    /\ now = 0
    /\ call = [budget |-> 0, plan |-> 0, restarts |-> 0, slice |-> 0]
    /\ index = 0
    /\ node = 0 /\ runBudget = 0
    /\ frontier = <<[rank |-> NoLayout, restarts |-> request.restarts]>>
    /\ level = <<>> /\ levels = <<>>
    /\ incumbent = [rank |-> NoLayout, restarts |-> request.restarts]
    /\ streak = 0
    /\ best = NoLayout
    /\ evaluated = 0 /\ timedOut = 0 /\ failed = 0
    /\ budgetExhausted = FALSE
    /\ answer = NoAnswer
    /\ runs = 0 /\ offered = NoLayout /\ silent = 0 /\ outcomes = {} /\ late = FALSE

\* Await a run with this budget for this plan, in these restarts.
Call(phase, budget, plan, restarts) ==
    /\ pc' = phase
    /\ LET fit == DeriveRestartsAndSlice(budget, restarts)
       IN call' = [budget |-> budget, plan |-> plan, restarts |-> fit.restarts, slice |-> fit.slice]
    /\ runs' = runs + 1
    /\ UNCHANGED <<request, now, index, frontier, level, alns, best, timedOut, failed, answer,
                   offered, silent, outcomes, late>>

\* The run in progress returns, in time or late.
Returns ==
    /\ now' \in now..(now + call.budget + Overrun)
    /\ late' = (late \/ now' > now + call.budget)
    /\ UNCHANGED <<call, runs>>

\* What a search counts of an outcome.  A portfolio and ALNS count a layout when
\* it is there; a beam has counted its node before the run.  Only the portfolio
\* ignores the timeout_reason of a run that has a layout.
Succeeds(rank, reported) ==
    /\ evaluated' = IF Is("beam") THEN evaluated ELSE evaluated + 1
    /\ timedOut' = IF reported /\ ~Is("portfolio") THEN timedOut + 1 ELSE timedOut
    /\ offered' = Larger(offered, rank)
    /\ silent' = 0
    /\ outcomes' = outcomes \cup {IF reported THEN "reported" ELSE "ok"}
    /\ UNCHANGED failed

TimesOut ==
    /\ timedOut' = timedOut + 1
    /\ silent' = silent + 1
    /\ outcomes' = outcomes \cup {"timeout"}
    /\ UNCHANGED <<evaluated, failed, offered>>

\* A constraint or an internal error, a panic of the run's job among them.
Fails ==
    /\ failed' = failed + 1
    /\ silent' = 0
    /\ outcomes' = outcomes \cup {"failure"}
    /\ UNCHANGED <<evaluated, timedOut, offered>>

OutOfBudgetMutant ==               \* an early end looks complete
    FALSE

OutOfBudget == IF Is("portfolio") THEN runs < Candidates ELSE budgetExhausted
Reason == IF timedOut > 0 THEN "slice_timeout"
          ELSE IF OutOfBudget THEN "time_budget_exhausted" ELSE "none"

\* The search answers with a layout, or with an error if it has none.
Answer(rank) ==
    /\ pc' = "done"
    /\ answer' = IF rank # NoLayout THEN Ok(rank, Reason)
                 ELSE IF timedOut > 0 \/ OutOfBudget THEN Error("timeout") ELSE Error("internal")
    /\ UNCHANGED <<request, now, call, index, beam, alns, best, counts, budgetExhausted, history>>

-----------------------------------------------------------------------------
(* run_portfolio_anytime *)

StartCandidate ==
    /\ Is("portfolio") /\ pc = "next"
    /\ index < Candidates /\ ~TimeIsUp
    /\ LET plan == PortfolioPlan(index)
       IN Call("await", Larger(Remaining \div (Candidates - index), MinSlice), plan, plan)
    /\ UNCHANGED <<node, runBudget, levels, evaluated, budgetExhausted>>

CandidateSucceeds(rank, reported) ==
    /\ Is("portfolio")
    /\ best' = Larger(best, rank)
    /\ index' = index + 1
    /\ UNCHANGED <<request, beam, alns, budgetExhausted, answer>>

CandidateEnds ==
    /\ Is("portfolio")
    /\ index' = index + 1
    /\ UNCHANGED <<request, beam, alns, best, budgetExhausted, answer>>

FinishPortfolio ==
    /\ Is("portfolio") /\ pc = "next"
    /\ index = Candidates \/ TimeIsUp
    /\ Answer(best)

-----------------------------------------------------------------------------
(* run_beam_anytime *)

StartLevel ==
    /\ Is("beam") /\ pc = "next"
    /\ index < Depth /\ ~TimeIsUp
    /\ pc' = "level"
    /\ runBudget' = LET levelBudget == Larger(Remaining \div (Depth - index), MinSlice)
                    IN Larger(levelBudget \div (Len(frontier) * Branches), MinSlice)
    /\ node' = 0
    /\ level' = <<>>
    /\ levels' = Append(levels, [best |-> NoLayout, planned |-> Len(frontier) * Branches, begun |-> 0])
    /\ UNCHANGED <<request, now, call, index, frontier, alns, best, counts, budgetExhausted, answer, history>>

NoTimeForLevelMutant ==            \* the loop over the levels is not left
    /\ Is("beam") /\ pc = "next"
    /\ index < Depth /\ TimeIsUp
    /\ budgetExhausted' = TRUE
    /\ UNCHANGED <<request, pc, now, call, index, beam, alns, best, counts, answer, history>>

NoTimeForLevel ==
    /\ Is("beam") /\ pc = "next"
    /\ index < Depth /\ TimeIsUp
    /\ budgetExhausted' = TRUE
    /\ index' = Depth
    /\ UNCHANGED <<request, pc, now, call, beam, alns, best, counts, answer, history>>

\* The next expansion of the next parent.  A beam counts a node before its run.
StartNode ==
    /\ pc = "level"
    /\ node < Len(frontier) * Branches /\ ~TimeIsUp
    /\ LET parent == frontier[node \div Branches + 1]
           plan == Expansion(node % Branches, parent.restarts)
       IN Call("await", runBudget, plan, plan)
    /\ node' = node + 1
    /\ levels' = [levels EXCEPT ![Len(levels)].begun = @ + 1]
    /\ evaluated' = evaluated + 1
    /\ UNCHANGED <<runBudget, budgetExhausted>>

InsertMutant(results, entry) ==    \* the level is left unsorted
    Append(results, entry)

\* sort_by is stable: a result goes behind those it is not better than.
Insert(results, entry) ==
    LET ahead == {i \in DOMAIN results : results[i].rank >= entry.rank}
    IN InsertAt(results, Cardinality(ahead) + 1, entry)

NodeSucceeds(rank, reported) ==
    /\ Is("beam")
    /\ level' = Insert(level, [rank |-> rank, restarts |-> call.plan])
    /\ levels' = [levels EXCEPT ![Len(levels)].best = Larger(@, rank)]
    /\ UNCHANGED <<request, index, node, runBudget, frontier, alns, best, budgetExhausted, answer>>

NodeEnds ==
    /\ Is("beam")
    /\ UNCHANGED <<request, index, beam, alns, best, budgetExhausted, answer>>

LevelKeptMutant ==                 \* nothing is pruned
    /\ level # <<>>
    /\ frontier' = level

\* A level without a result leaves the frontier of the level before it.
LevelEmpty == level = <<>> /\ UNCHANGED frontier

\* The best Width results replace those of the level before, better or worse.
LevelKept == level # <<>> /\ frontier' = SubSeq(level, 1, Smaller(Width, Len(level)))

EndLevel ==
    /\ pc = "level"
    /\ node = Len(frontier) * Branches \/ TimeIsUp
    /\ budgetExhausted' = (budgetExhausted \/ node < Len(frontier) * Branches)
    /\ LevelEmpty \/ LevelKept
    /\ pc' = "next"
    /\ index' = index + 1
    /\ UNCHANGED <<request, now, call, node, runBudget, level, levels, alns, best, counts, answer, history>>

FinishBeam ==
    /\ Is("beam") /\ pc = "next"
    /\ index = Depth
    /\ Answer(frontier[1].rank)

-----------------------------------------------------------------------------
(* run_alns_anytime *)

\* The first run gets two thirds of the deadline.
Bootstrap ==
    /\ Is("alns") /\ pc = "bootstrap"
    /\ LET baseline == Larger(Smaller(MinBaseline, Deadline), MinSlice)
           budget == Smaller(Larger((2 * Deadline) \div 3, baseline), Larger(Deadline, MinSlice))
       IN Call("await", budget, request.restarts, request.restarts)
    /\ UNCHANGED <<node, runBudget, levels, evaluated, budgetExhausted>>

IterationBudgetMutant ==           \* not capped by what is left
    Larger(Deadline \div Iterations, 2 * MinIteration)

IterationBudget ==
    LET planned == Larger(1, Smaller(Iterations - index, Larger(1, Remaining \div MinIteration)))
    IN Smaller(Larger(Remaining \div planned, MinIteration), Remaining)

\* The streak is looked at after an iteration only, not after the bootstrap.
AlnsOver == \/ index = Iterations
            \/ Remaining < MinIteration
            \/ index > 0 /\ streak >= MaxStreak

\* Any operator may be chosen: their weights stay positive.
StartIteration ==
    /\ Is("alns") /\ pc = "next"
    /\ ~AlnsOver
    /\ \E plan \in Proposals(incumbent.restarts) :
           Call("await", IterationBudget, plan, Smaller(plan, MaxIterRestarts))
    /\ UNCHANGED <<node, runBudget, levels, evaluated, budgetExhausted>>

Bootstrapping == runs = 1

StreakAfter(timeout) == IF timeout THEN streak + 1 ELSE 0

\* Accepted for its score, at random in spite of it, or as the best so far.
Accepts(rank) ==
    \/ incumbent' = [rank |-> rank, restarts |-> call.plan]
    \/ /\ ~Bootstrapping
       /\ incumbent.rank # NoLayout /\ Score[rank] > Score[incumbent.rank]
       /\ rank <= best
       /\ UNCHANGED incumbent

IterationSucceedsMutant(rank, reported) ==   \* the best follows the incumbent
    /\ Is("alns")
    /\ incumbent' = [rank |-> rank, restarts |-> call.plan]
    /\ best' = rank
    /\ streak' = StreakAfter(FALSE)
    /\ index' = IF Bootstrapping THEN index ELSE index + 1
    /\ UNCHANGED <<request, beam, budgetExhausted, answer>>

IterationSucceeds(rank, reported) ==
    /\ Is("alns")
    /\ Accepts(rank)
    /\ best' = Larger(best, rank)
    /\ streak' = StreakAfter(FALSE)
    /\ index' = IF Bootstrapping THEN index ELSE index + 1
    /\ UNCHANGED <<request, beam, budgetExhausted, answer>>

IterationEnds(timeout) ==
    /\ Is("alns")
    /\ streak' = StreakAfter(timeout)
    /\ index' = IF Bootstrapping THEN index ELSE index + 1
    /\ UNCHANGED <<request, beam, incumbent, best, budgetExhausted, answer>>

\* The loop ends; only an elapsed deadline counts as an exhausted budget, and
\* only if the loop still looks at the clock.
LeaveAlns ==
    /\ Is("alns") /\ pc = "next"
    /\ AlnsOver
    /\ pc' = "finish"
    /\ budgetExhausted' = (index < Iterations /\ ~(index > 0 /\ streak >= MaxStreak) /\ TimeIsUp)
    /\ UNCHANGED <<request, now, call, index, beam, alns, best, counts, answer, history>>

FinishAlns ==
    /\ pc = "finish" /\ best # NoLayout
    /\ Answer(best)

\* Without a layout, one more run with the whole deadline again.
StartFallback ==
    /\ pc = "finish" /\ best = NoLayout
    /\ Call("fallback", Deadline, 1, 1)
    /\ UNCHANGED <<node, runBudget, levels, evaluated, budgetExhausted>>

FallbackReturns ==
    /\ pc = "fallback"
    /\ Returns
    /\ \/ \E rank \in 1..MaxRank, reported \in BOOLEAN :
              Succeeds(rank, reported) /\ best' = rank /\ pc' = "finish"
       \/ (TimesOut \/ Fails) /\ UNCHANGED best /\ pc' = "giveup"
    /\ UNCHANGED <<request, index, beam, alns, budgetExhausted, answer>>

GiveUp == pc = "giveup" /\ Answer(NoLayout)

-----------------------------------------------------------------------------
RunReturns ==
    /\ pc = "await"
    /\ pc' = IF Is("beam") THEN "level" ELSE "next"
    /\ Returns
    /\ \/ \E rank \in 1..MaxRank, reported \in BOOLEAN :
              /\ Succeeds(rank, reported)
              /\ \/ CandidateSucceeds(rank, reported)
                 \/ NodeSucceeds(rank, reported)
                 \/ IterationSucceeds(rank, reported)
       \/ TimesOut /\ (CandidateEnds \/ NodeEnds \/ IterationEnds(TRUE))
       \/ Fails /\ (CandidateEnds \/ NodeEnds \/ IterationEnds(FALSE))

Portfolio == StartCandidate \/ FinishPortfolio
Beam == StartLevel \/ NoTimeForLevel \/ StartNode \/ EndLevel \/ FinishBeam
Alns == Bootstrap \/ StartIteration \/ LeaveAlns \/ FinishAlns \/ StartFallback \/ FallbackReturns \/ GiveUp

\* The caller has the answer.
Done == pc = "done" /\ UNCHANGED vars

Next == Portfolio \/ Beam \/ Alns \/ RunReturns \/ Done

Spec == Init /\ [][Next]_vars

\* The handler is scheduled, and every awaited run returns (Restarts: RunAnswers).
FairSpec == Spec /\ WF_vars(Next)

-----------------------------------------------------------------------------
(* Properties *)

Plans == 1..Larger(MaxRestarts, request.restarts + 2)
Entries == [rank : 1..MaxRank, restarts : Plans]
Awaiting == pc \in {"await", "fallback"}
Ended == IF Awaiting THEN runs - 1 ELSE runs

ProgressTyped ==
    /\ request \in Requests
    /\ pc \in {"bootstrap", "next", "await", "level", "finish", "fallback", "giveup", "done"}
    /\ now \in Nat
    /\ call \in [budget : Nat, plan : Nat, restarts : Nat, slice : Nat]
    /\ index \in 0..(IF Is("portfolio") THEN Candidates ELSE IF Is("beam") THEN Depth ELSE Iterations)
    /\ node \in 0..(Width * Branches)
    /\ runBudget \in Nat /\ streak \in Nat

PlansTyped ==
    /\ frontier \in Seq([rank : 0..MaxRank, restarts : Plans])
    /\ Len(frontier) \in 1..Width
    /\ level \in Seq(Entries)
    /\ levels \in Seq([best : 0..MaxRank, planned : Nat, begun : Nat])
    /\ Len(levels) <= Depth
    /\ incumbent \in [rank : 0..MaxRank, restarts : Plans]

OutcomeTyped ==
    /\ best \in 0..MaxRank /\ offered \in 0..MaxRank
    /\ evaluated \in Nat /\ timedOut \in Nat /\ failed \in Nat
    /\ runs \in Nat /\ silent \in Nat
    /\ budgetExhausted \in BOOLEAN /\ late \in BOOLEAN
    /\ answer \in [kind : {"none", "ok", "timeout", "internal"}, rank : 0..MaxRank,
                   reason : {"none", "slice_timeout", "time_budget_exhausted"}]
    /\ outcomes \subseteq {"ok", "reported", "timeout", "failure"}

\* The bookkeeping of a search is well-typed; a beam's frontier is neither
\* empty nor wider than beam_width, and every index stays within its plan.
TypeOK == ProgressTyped /\ PlansTyped /\ OutcomeTyped

\* A portfolio and an ALNS search answer with the best layout of all their
\* runs, although ALNS moves its incumbent to worse ones and may find its only
\* layout in the fallback.
AnswerIsBestOffered ==
    answer.kind = "ok" /\ ~Is("beam") => answer.rank = offered

\* A beam answers with the best layout of the last level that had any: empty
\* levels cost nothing, but a better layout of an earlier level is lost.
LastLevelWins ==
    answer.kind = "ok" /\ Is("beam") =>
        \E i \in DOMAIN levels :
            /\ answer.rank = levels[i].best
            /\ \A j \in (i + 1)..Len(levels) : levels[j].best = NoLayout

\* A search answers with an error only if none of its runs had a layout.
ErrorMeansNothingFound ==
    answer.kind \in {"timeout", "internal"} => offered = NoLayout

AllDone ==
    CASE Is("portfolio") -> runs = Candidates
      [] Is("beam") -> /\ Len(levels) = Depth
                       /\ \A i \in DOMAIN levels : levels[i].begun = levels[i].planned
      [] OTHER -> index = Iterations \/ Remaining < MinIteration

\* What is answered is what the search found.
AnswerHonest == AnswerIsBestOffered /\ LastLevelWins /\ ErrorMeansNothingFound

\* timeout_reason and the kind of error say what really cut the search short.
\* A portfolio does not pass on the timeout_reason of a run that had a layout,
\* and an ALNS search that leaves less than MinIteration unused gives none.
ReasonHonest ==
    /\ answer.kind = "ok" /\ answer.reason = "none" =>
           /\ AllDone
           /\ "timeout" \notin outcomes
           /\ Is("portfolio") \/ "reported" \notin outcomes
    /\ answer.reason = "slice_timeout" => outcomes \cap {"timeout", "reported"} # {}
    /\ answer.reason = "time_budget_exhausted" => TimeIsUp
    /\ answer.kind = "timeout" => "timeout" \in outcomes \/ TimeIsUp
    /\ answer.kind = "internal" => outcomes = {"failure"}

\* The telemetry's counts account for every run.  In a portfolio each run that
\* ended counts once.  In ALNS a layout with a timeout_reason counts twice.  A
\* beam has every run it began among nodes_evaluated, the one under way too, and
\* at most once among those timed out or failed.
CountsAddUp ==
    CASE Is("portfolio") -> Ended = evaluated + timedOut + failed
      [] Is("beam") -> evaluated = runs /\ timedOut + failed <= Ended
      [] OTHER -> evaluated + failed <= Ended /\ Ended <= evaluated + timedOut + failed

\* What is said about a search is what happened in it.
TelemetryHonest == ReasonHonest /\ CountsAddUp

\* ALNS leaves the loop after MaxStreak timeouts in a row, the bootstrap's
\* included; only the fallback can add one more.
StreakBounded ==
    Is("alns") => silent <= IF pc \in {"giveup", "done"} THEN MaxStreak + 1 ELSE MaxStreak

\* ALNS has begun its fallback.
FellBack == Is("alns") /\ pc # "await" /\ runs > index + 1

\* If every run keeps to its budget, a portfolio and a beam end less than
\* MinSlice after the deadline.  An ALNS search ends within it, unless it found
\* nothing: its fallback then spends the deadline a second time.
EndsInTime ==
    ~late =>
        IF Is("alns") THEN now <= IF FellBack THEN 2 * Deadline ELSE Deadline
        ELSE now < Deadline + MinSlice

\* However late the runs are, their overruns do not add up: what the deadline is
\* exceeded by is the budget and the overrun of one run, and for ALNS that of the
\* last run and, if it found nothing, the fallback's deadline and overrun.
OverrunsDoNotAddUp ==
    CASE Is("portfolio") -> now < Deadline + MinSlice + Overrun
      [] Is("beam") -> now < Deadline + runBudget + Overrun
      [] OTHER -> now <= IF FellBack THEN 2 * Deadline + 2 * Overrun ELSE Deadline + Overrun

\* No run but the fallback begins after the deadline.  A candidate gets no more
\* than what is left or MinSlice, an iteration no more than what is left.  A node
\* gets its level's share, which may be more than what is left by then.
GivenWhatIsLeft ==
    /\ pc = "await" =>
          /\ ~TimeIsUp
          /\ call.budget <= CASE Is("portfolio") -> Larger(Remaining, MinSlice)
                               [] Is("beam") -> Deadline
                               [] OTHER -> Remaining
    /\ pc = "fallback" => call.budget = Deadline

\* Every run is given restarts whose slices fit its budget, none too short.
RunsFit ==
    Awaiting => /\ call.restarts * call.slice <= call.budget
                /\ call.slice >= MinSlice

\* Time is given out, and kept to, as the request asks for it, whether or not the
\* runs keep to theirs, and ALNS gives up on runs that do not end.
BudgetsKept == EndsInTime /\ OverrunsDoNotAddUp /\ GivenWhatIsLeft /\ RunsFit /\ StreakBounded

\* A portfolio and an ALNS search implement the abstract anytime solver.  A
\* beam does not: what it answers may be worse than what it was offered.
Promised == INSTANCE Anytime WITH
    Qualities <- 1..MaxRank,
    best <- IF Is("beam") THEN NoLayout ELSE best,
    answer <- IF Is("beam") \/ answer.kind = "none" THEN [kind |-> "none", quality |-> NoLayout]
              ELSE [kind |-> answer.kind, quality |-> answer.rank]
ImplementsAnytime == Promised!Spec

\* Every search answers, whatever its runs come back with.
SearchEnds == <>(pc = "done")
=============================================================================
