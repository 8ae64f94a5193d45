--------------------------- MODULE SearchesProofs ---------------------------
(***************************************************************************)
(* Theorems about Searches, for every deadline, plan size, streak and      *)
(* ranking: what a search answers is what it found, what it says about the *)
(* search is what happened in it, the time it gives out is time it has,    *)
(* and a portfolio and an ALNS search implement the abstract anytime       *)
(* solver.                                                                 *)
(***************************************************************************)
EXTENDS Searches, FiniteSetTheorems, SequenceTheorems, TLAPS

\* A beam is between StartLevel and EndLevel.
InLevel == Is("beam") /\ pc \in {"level", "await"}

\* Which phases a search passes through, and how many runs it has begun when
\* it is in one of them.
Phases ==
    /\ pc = "bootstrap" \/ pc \in {"finish", "fallback", "giveup"} => Is("alns")
    /\ pc = "level" => Is("beam")
    /\ pc = "done" <=> answer.kind # "none"
    /\ pc # "done" => answer = NoAnswer
    /\ pc = "await" => call.plan \in Plans
    /\ Is("portfolio") =>
          /\ pc = "await" => index < Candidates
          /\ runs = IF pc = "await" THEN index + 1 ELSE index
    /\ Is("beam") =>
          /\ InLevel => index < Depth /\ ~budgetExhausted
          /\ pc = "await" => node > 0
          /\ pc = "done" => index = Depth
    /\ Is("alns") =>
          /\ pc = "bootstrap" => index = 0 /\ runs = 0
          /\ pc = "next" => runs = index + 1
          /\ pc = "await" => \/ index = 0 /\ runs = 1
                             \/ index < Iterations /\ runs = index + 2
          /\ pc = "finish" => \/ runs = index + 1
                              \/ runs = index + 2 /\ best # NoLayout
          /\ pc \in {"fallback", "giveup"} => runs = index + 2 /\ best = NoLayout
          /\ pc = "done" => runs \in {index + 1, index + 2}
          /\ pc \in {"finish", "fallback", "giveup", "done"} =>
                index = Iterations \/ Remaining < MinIteration \/ timedOut > 0

\* The record of a beam's levels: all of them are complete but the one under
\* way, unless the time was up.
LevelsRecorded ==
    Is("beam") =>
        LET n == Len(levels)
        IN  /\ n <= index + (IF InLevel THEN 1 ELSE 0)
            /\ ~budgetExhausted => n = index + (IF InLevel THEN 1 ELSE 0)
            /\ ~budgetExhausted =>
                  \A i \in 1..(IF InLevel THEN n - 1 ELSE n) : levels[i].begun = levels[i].planned
            /\ InLevel => /\ levels[n].begun = node
                          /\ levels[n].planned = Len(frontier) * Branches
                          /\ node <= Len(frontier) * Branches
                          /\ runs >= node
            /\ index > 0 /\ ~budgetExhausted => runs > 0

\* rank is the best of the last level with a result among the first n, if any.
LastBest(records, n, rank) ==
    \/ rank = NoLayout /\ \A j \in 1..n : records[j].best = NoLayout
    \/ \E i \in 1..n : /\ rank = records[i].best /\ rank # NoLayout
                       /\ \A j \in (i + 1)..n : records[j].best = NoLayout

\* The level under way starts with its best result; the frontier starts with
\* the best of the last level that had any.
FrontierOfLevels ==
    Is("beam") =>
        /\ LastBest(levels, IF InLevel THEN Len(levels) - 1 ELSE Len(levels), frontier[1].rank)
        /\ InLevel /\ level = <<>> => levels[Len(levels)].best = NoLayout
        /\ InLevel /\ level # <<>> =>
              /\ level[1].rank = levels[Len(levels)].best
              /\ \A i \in DOMAIN level : level[i].rank <= level[1].rank
        /\ offered # NoLayout => \E i \in 1..Len(levels) : levels[i].best # NoLayout

\* What the counts, the outcomes and the best layout say of one another.
Accounts ==
    /\ ~Is("beam") => best = offered
    /\ timedOut > 0 <=> "timeout" \in outcomes \/ (~Is("portfolio") /\ "reported" \in outcomes)
    /\ offered # NoLayout <=> outcomes \cap {"ok", "reported"} # {}
    /\ Ended > 0 => outcomes # {}
    /\ CountsAddUp

\* A late run apart, time goes where the search means it to go.
TimeKept ==
    /\ budgetExhausted => TimeIsUp
    /\ InLevel => runBudget >= MinSlice
    /\ ~late =>
          /\ Is("portfolio") => now < Deadline + MinSlice
          /\ Is("portfolio") /\ pc = "await" => now + call.budget < Deadline + MinSlice
          /\ Is("beam") => now < Deadline + MinSlice
          /\ Is("beam") /\ pc = "await" => now < Deadline /\ call.budget = runBudget
          /\ InLevel => \/ runBudget = MinSlice
                        \/ now + (Len(frontier) * Branches - node
                                    + (IF pc = "await" THEN 1 ELSE 0)) * runBudget <= Deadline
          /\ Is("alns") =>
                /\ pc = "bootstrap" => now = 0
                /\ pc = "await" => now + call.budget <= Deadline
                /\ pc = "fallback" => now <= Deadline /\ call.budget = Deadline
                /\ runs <= index + 1 => now <= Deadline
                /\ now <= 2 * Deadline
    /\ RunsFit

\* However late its runs are, a search gives out no time it does not have.
OverrunsKept ==
    /\ GivenWhatIsLeft
    /\ OverrunsDoNotAddUp
    /\ pc = "bootstrap" => now = 0
    /\ pc = "fallback" => now <= Deadline + Overrun
    /\ InLevel => runBudget <= Deadline
    /\ Is("beam") /\ pc = "await" => call.budget = runBudget

\* The streak of timeouts is that of the runs, but for the fallback's.
Streaks ==
    Is("alns") =>
        /\ silent <= IF pc \in {"giveup", "done"} THEN streak + 1 ELSE streak
        /\ streak <= MaxStreak
        /\ index = 0 => streak <= 1
        /\ runs <= 1 /\ pc \in {"bootstrap", "await"} => streak = 0
        /\ pc = "await" => streak < MaxStreak
        /\ streak > 0 => timedOut > 0

IInv ==
    /\ TypeOK
    /\ Phases
    /\ LevelsRecorded
    /\ FrontierOfLevels
    /\ Accounts
    /\ TimeKept
    /\ OverrunsKept
    /\ Streaks
    /\ AnswerHonest
    /\ ReasonHonest

-----------------------------------------------------------------------------
\* What a division of naturals leaves and does not exceed.
LEMMA Division ==
    ASSUME NEW n \in Nat, NEW d \in Nat, d > 0
    PROVE  /\ n \div d \in Nat
           /\ d * (n \div d) <= n
           /\ n < d * (n \div d) + d
           /\ n \div d <= n
<1>1. n \div d \in Nat /\ n = d * (n \div d) + (n % d) /\ n % d \in 0..(d - 1)
  BY Z3
<1>2. n \div d <= d * (n \div d)
  BY <1>1, Z3
<1> QED
  BY <1>1, <1>2

\* A product that stays below another with the same factor.
LEMMA FactorLess ==
    ASSUME NEW a \in Nat, NEW b \in Nat, NEW c \in Nat, a * c < b * c
    PROVE  a < b
<1>1. a >= b => a * c >= b * c
  BY Z3
<1> QED
  BY <1>1

\* A product of positive numbers is positive.
LEMMA FactorPositive ==
    ASSUME NEW a \in Nat, NEW b \in Nat, a > 0, b > 0
    PROVE  a * b > 0
BY Z3

\* Multiplying keeps the order.
LEMMA FactorAtMost ==
    ASSUME NEW a \in Nat, NEW b \in Nat, NEW c \in Nat, a <= b
    PROVE  a * c \in Nat /\ b * c \in Nat /\ a * c <= b * c
BY Z3

\* m slices of length d in n: then a slice of n cut in d is at least m long.
LEMMA QuotientAtLeast ==
    ASSUME NEW n \in Nat, NEW d \in Nat, NEW m \in Nat, NEW q \in Nat, m * d <= n, n < d * q + d
    PROVE  q >= m
<1>1. d * q + d = (q + 1) * d
  BY Z3
<1>2. m * d < (q + 1) * d
  BY <1>1, Z3
<1>3. m < q + 1
  BY <1>2, FactorLess
<1> QED
  BY <1>3

\* The number of a child's parent is that of an entry of the frontier.
LEMMA ParentIndex ==
    ASSUME NEW n \in Nat, NEW a \in Nat, NEW b \in Nat, b > 0, n < a * b
    PROVE  n \div b + 1 \in 1..a
<1>1. n \div b \in Nat /\ b * (n \div b) <= n
  BY Division
<1>2. (n \div b) * b < a * b
  BY <1>1, Z3
<1>3. n \div b < a
  BY <1>1, <1>2, FactorLess
<1> QED
  BY <1>1, <1>3

\* derive_restarts_and_slice: what is given out fits into a budget that is not
\* too short for a single slice, and no slice is shorter than MinSlice.
LEMMA RestartsFitBudget ==
    ASSUME NEW budget \in Nat, budget >= MinSlice, NEW requested \in Nat
    PROVE  LET fit == DeriveRestartsAndSlice(budget, requested)
           IN  /\ fit.restarts \in Nat /\ fit.slice \in Nat
               /\ fit.restarts * fit.slice <= budget
               /\ fit.slice >= MinSlice
<1> DEFINE asked == Larger(1, requested)
           restarts == IF budget \div asked >= MinSlice THEN asked ELSE Larger(1, budget \div MinSlice)
           slice == Larger(1, budget \div restarts)
<1>0. MinSlice \in Nat /\ MinSlice > 0 /\ asked \in Nat /\ asked > 0
  BY ScheduleAssumption DEF ScheduleAssumption, Larger
<1>1. budget \div MinSlice \in Nat /\ MinSlice * (budget \div MinSlice) <= budget
      /\ budget < MinSlice * (budget \div MinSlice) + MinSlice
  BY <1>0, Division
<1>2. budget \div MinSlice > 0
  <2>1. budget \div MinSlice = 0 => budget < MinSlice
    BY <1>0, <1>1
  <2> QED
    BY <1>0, <1>1, <2>1
<1>3. restarts \in Nat /\ restarts > 0
  BY <1>0, <1>1, <1>2 DEF Larger
<1>4. budget \div restarts \in Nat /\ restarts * (budget \div restarts) <= budget
      /\ budget < restarts * (budget \div restarts) + restarts
  BY <1>3, Division
<1>5. budget \div restarts >= MinSlice
  <2>1. CASE budget \div asked >= MinSlice
    BY <2>1
  <2>2. CASE ~(budget \div asked >= MinSlice)
    <3>1. restarts = budget \div MinSlice
      BY <1>1, <1>2, <2>2 DEF Larger
    <3> HIDE DEF restarts
    <3> QED
      BY <1>0, <1>1, <1>3, <1>4, <3>1, QuotientAtLeast
  <2> QED
    BY <2>1, <2>2
<1>6. slice = budget \div restarts
  BY <1>0, <1>4, <1>5 DEF Larger
<1> QED
  BY <1>3, <1>4, <1>5, <1>6 DEF DeriveRestartsAndSlice

-----------------------------------------------------------------------------
\* No step changes the request.
LEMMA RequestFixed ==
    ASSUME [Next]_vars
    PROVE  request' = request
BY DEF Next, vars, Portfolio, Beam, Alns, RunReturns, Done, StartCandidate, FinishPortfolio,
       StartLevel, NoTimeForLevel, StartNode, EndLevel, FinishBeam, Bootstrap, StartIteration,
       LeaveAlns, FinishAlns, StartFallback, FallbackReturns, GiveUp, Call, Answer,
       CandidateSucceeds, CandidateEnds, NodeSucceeds, NodeEnds, IterationSucceeds, IterationEnds

\* The plans a plan can be varied to are plans again.
LEMMA PlanTypes ==
    ASSUME TypeOK
    PROVE  /\ request.restarts \in Nat /\ request.restarts > 0
           /\ request.restarts \in Plans /\ Plans \subseteq Nat \ {0}
           /\ \A i \in Nat : PortfolioPlan(i) \in Plans
           /\ \A i \in Nat, r \in Plans : Expansion(i, r) \in Plans
           /\ \A r \in Plans : Proposals(r) \subseteq Plans
<1>0. request \in Requests
  BY DEF TypeOK, ProgressTyped
<1>1. request.restarts \in Nat /\ request.restarts > 0 /\ MaxRestarts \in Nat /\ MaxRestarts > 0
  BY <1>0, SearchesAssumption DEF SearchesAssumption
<1>2. request.restarts \in Plans /\ Plans \subseteq Nat \ {0}
  BY <1>1 DEF Plans, Larger
<1>3. \A r \in Nat : r \div 2 \in Nat /\ r \div 2 <= r
  BY Division
<1>4. ASSUME NEW i \in Nat PROVE PortfolioPlan(i) \in Plans
  <2>1. request.restarts \div 2 \in Nat /\ request.restarts \div 2 <= request.restarts
        /\ 2 * request.restarts \in Nat
    BY <1>1, <1>3
  <2>2. Larger(1, request.restarts \div 2) \in Plans
    BY <1>1, <2>1 DEF Plans, Larger
  <2>3. Clamp(2 * request.restarts, 1, MaxRestarts) \in Plans
    BY <1>1, <2>1 DEF Plans, Larger, Smaller, Clamp
  <2> QED
    BY <1>2, <2>2, <2>3 DEF PortfolioPlan
<1>5. ASSUME NEW r \in Plans
      PROVE  /\ \A i \in Nat : Expansion(i, r) \in Plans
             /\ Proposals(r) \subseteq Plans
  <2>1. r \in Nat /\ r > 0 /\ r \div 2 \in Nat /\ r \div 2 <= r
    BY <1>2, <1>3
  <2>2. 2 * r \in Nat /\ 1..MaxRestarts \subseteq Plans /\ r + 1 \in Nat /\ r + 2 \in Nat
    BY <1>1, <2>1 DEF Plans, Larger
  <2>3. Larger(1, r \div 2) \in Plans
    BY <1>1, <2>1 DEF Plans, Larger
  <2>4. \A n \in Nat : Clamp(n, 1, MaxRestarts) \in Plans
    BY <1>1, <2>2 DEF Larger, Smaller, Clamp
  <2>5. Larger(1, r - 1) \in Nat
    BY <2>1 DEF Larger
  <2>6. \A i \in Nat : Expansion(i, r) \in Plans
    BY <2>1, <2>2, <2>3, <2>4 DEF Expansion
  <2>7. Proposals(r) \subseteq Plans
    BY <2>2, <2>3, <2>4, <2>5 DEF Proposals
  <2> QED
    BY <2>6, <2>7
<1> QED
  BY <1>1, <1>2, <1>4, <1>5

\* What a search awaits after a call.
LEMMA CallBegins ==
    ASSUME NEW phase, NEW budget \in Nat, NEW plan \in Nat, NEW restarts \in Nat,
           budget >= MinSlice, Call(phase, budget, plan, restarts)
    PROVE  /\ call' \in [budget : Nat, plan : Nat, restarts : Nat, slice : Nat]
           /\ call'.budget = budget /\ call'.plan = plan
           /\ call'.restarts * call'.slice <= call'.budget /\ call'.slice >= MinSlice
<1> DEFINE fit == DeriveRestartsAndSlice(budget, restarts)
<1>1. /\ fit.restarts \in Nat /\ fit.slice \in Nat
      /\ fit.restarts * fit.slice <= budget /\ fit.slice >= MinSlice
  BY RestartsFitBudget
<1>2. call' = [budget |-> budget, plan |-> plan, restarts |-> fit.restarts, slice |-> fit.slice]
  BY DEF Call
<1> HIDE DEF fit
<1> QED
  BY <1>1, <1>2

\* A search begins within its invariant.
LEMMA InitIInv ==
    ASSUME Init
    PROVE  IInv
<1> USE SearchesAssumption, ScheduleAssumption DEF SearchesAssumption, ScheduleAssumption
<1>0. request \in Requests /\ request.restarts \in Nat /\ request.restarts > 0
      /\ request.kind \in {"portfolio", "beam", "alns"}
  BY DEF Init
<1>1. TypeOK
  <2>1. frontier \in Seq([rank : 0..MaxRank, restarts : Plans]) /\ Len(frontier) = 1
    BY <1>0 DEF Init, Plans, Larger, NoLayout
  <2>2. level \in Seq(Entries) /\ levels \in Seq([best : 0..MaxRank, planned : Nat, begun : Nat])
        /\ Len(levels) = 0
    BY DEF Init
  <2>3. incumbent \in [rank : 0..MaxRank, restarts : Plans]
    BY <1>0 DEF Init, Plans, Larger, NoLayout
  <2>4. index \in 0..(IF Is("portfolio") THEN Candidates ELSE IF Is("beam") THEN Depth ELSE Iterations)
        /\ node \in 0..(Width * Branches)
    BY DEF Init
  <2>5. /\ request \in Requests /\ now \in Nat /\ runBudget \in Nat /\ streak \in Nat
        /\ pc \in {"bootstrap", "next", "await", "level", "finish", "fallback", "giveup", "done"}
        /\ call \in [budget : Nat, plan : Nat, restarts : Nat, slice : Nat]
    BY DEF Init
  <2>6. /\ best \in 0..MaxRank /\ offered \in 0..MaxRank
        /\ evaluated \in Nat /\ timedOut \in Nat /\ failed \in Nat
        /\ runs \in Nat /\ silent \in Nat
        /\ outcomes \subseteq {"ok", "reported", "timeout", "failure"}
    BY DEF Init, NoLayout
  <2>7. budgetExhausted \in BOOLEAN /\ late \in BOOLEAN
    BY DEF Init
  <2>8. answer \in [kind : {"none", "ok", "timeout", "internal"}, rank : 0..MaxRank,
                   reason : {"none", "slice_timeout", "time_budget_exhausted"}]
    BY DEF Init, NoLayout, NoAnswer
  <2>9. ProgressTyped
    BY <2>4, <2>5 DEF ProgressTyped, Init
  <2>10. PlansTyped
    BY <2>1, <2>2, <2>3 DEF PlansTyped
  <2>11. OutcomeTyped
    BY <2>6, <2>7, <2>8 DEF OutcomeTyped
  <2> QED
    BY <2>9, <2>10, <2>11 DEF TypeOK
<1>2. Phases /\ LevelsRecorded /\ FrontierOfLevels
  BY <1>0 DEF Init, Phases, LevelsRecorded, FrontierOfLevels, LastBest, Is, InLevel, NoLayout, NoAnswer
<1>3. Accounts /\ TimeKept /\ Streaks
  <2>1. evaluated = 0 /\ timedOut = 0 /\ failed = 0 /\ runs = 0 /\ pc \in {"bootstrap", "next"}
    BY DEF Init
  <2>2. Ended = 0
    BY <2>1 DEF Ended, Awaiting
  <2>3. CountsAddUp
    BY <2>1, <2>2 DEF CountsAddUp
  <2> QED
    BY <1>0, <2>2, <2>3 DEF Init, Accounts, TimeKept, RunsFit, Streaks, Is, InLevel, NoLayout, TimeIsUp, Awaiting
<1>5. OverrunsKept
  <2>1. pc \in {"bootstrap", "next"} /\ now = 0 /\ runBudget = 0 /\ runs = 0 /\ index = 0
    BY DEF Init
  <2>2. Deadline \in Nat /\ Deadline > 0 /\ MinSlice \in Nat /\ Overrun \in Nat
    OBVIOUS
  <2>3. GivenWhatIsLeft
    BY <2>1 DEF GivenWhatIsLeft
  <2>4. ~FellBack
    BY <2>1 DEF FellBack
  <2>5. OverrunsDoNotAddUp
    <3>1. /\ 0 < Deadline + MinSlice + Overrun /\ 0 < Deadline + 0 + Overrun /\ 0 <= Deadline + Overrun
      BY <2>2
    <3> QED
      BY <2>1, <2>4, <3>1 DEF OverrunsDoNotAddUp
  <2> QED
    BY <2>1, <2>2, <2>3, <2>5 DEF OverrunsKept, InLevel
<1>4. AnswerHonest /\ ReasonHonest
  BY DEF Init, AnswerHonest, AnswerIsBestOffered, LastLevelWins, ErrorMeansNothingFound, ReasonHonest, NoAnswer
<1> QED
  BY <1>1, <1>2, <1>3, <1>4, <1>5 DEF IInv

\* The constants and the variables as numbers.
LEMMA Constants ==
    /\ Candidates \in Nat /\ Candidates > 0 /\ Depth \in Nat /\ Depth > 0
    /\ Width \in Nat /\ Width > 0 /\ Branches \in Nat /\ Branches > 0
    /\ Deadline \in Nat /\ MinSlice \in Nat /\ MinSlice > 0 /\ Deadline >= MinSlice
    /\ Iterations \in Nat /\ Iterations > 0
    /\ MinIteration \in Nat /\ MinIteration >= MinSlice /\ MinBaseline \in Nat
    /\ MaxStreak \in Nat /\ MaxStreak > 1 /\ MaxIterRestarts \in Nat /\ MaxIterRestarts > 0
    /\ MaxRank \in Nat /\ MaxRank > 0 /\ Overrun \in Nat
BY SearchesAssumption, ScheduleAssumption DEF SearchesAssumption, ScheduleAssumption

\* A request is for one of the three searches.
LEMMA Kinds ==
    ASSUME TypeOK
    PROVE  request.kind \in {"portfolio", "beam", "alns"}
<1>1. request \in Requests
  BY DEF TypeOK, ProgressTyped
<1> QED
  BY <1>1, SearchesAssumption DEF SearchesAssumption

\* The counters, budgets and ranks are numbers.
LEMMA Numbers ==
    ASSUME TypeOK
    PROVE  /\ now \in Nat /\ index \in Nat /\ node \in Nat /\ runBudget \in Nat /\ streak \in Nat
           /\ best \in 0..MaxRank /\ offered \in 0..MaxRank /\ best \in Nat /\ offered \in Nat
           /\ runs \in Nat /\ silent \in Nat
           /\ evaluated \in Nat /\ timedOut \in Nat /\ failed \in Nat
           /\ call.budget \in Nat /\ call.plan \in Nat
           /\ Len(frontier) \in Nat /\ Len(frontier) > 0 /\ Len(frontier) <= Width
           /\ Len(levels) \in Nat /\ Len(level) \in Nat
<1>1. index \in Nat /\ Len(frontier) \in Nat /\ Len(levels) \in Nat /\ Len(level) \in Nat
  BY Constants DEF TypeOK, ProgressTyped, PlansTyped
<1>3. /\ now \in Nat /\ node \in Nat /\ runBudget \in Nat /\ streak \in Nat
      /\ call.budget \in Nat /\ call.plan \in Nat
  BY DEF TypeOK, ProgressTyped
<1>4. Len(frontier) > 0 /\ Len(frontier) <= Width
  BY <1>1, Constants DEF TypeOK, PlansTyped
<1> QED
  BY <1>1, <1>3, <1>4, Constants DEF TypeOK, OutcomeTyped

\* A level plans no more runs than the widest one.
LEMMA RunsOfLevel ==
    ASSUME TypeOK
    PROVE  /\ Len(frontier) * Branches \in Nat /\ Len(frontier) * Branches > 0
           /\ Width * Branches \in Nat /\ Len(frontier) * Branches <= Width * Branches
<1>1. /\ Len(frontier) \in Nat /\ Len(frontier) > 0 /\ Len(frontier) <= Width
      /\ Width \in Nat /\ Branches \in Nat /\ Branches > 0
  BY Constants, Numbers
<1>2. Len(frontier) * Branches > 0
  BY <1>1, FactorPositive
<1>3. /\ Len(frontier) * Branches \in Nat /\ Width * Branches \in Nat
      /\ Len(frontier) * Branches <= Width * Branches
  BY <1>1, FactorAtMost
<1> QED
  BY <1>1, <1>2, <1>3, Zenon

\* What is left of the budget is a number.
LEMMA RemainingType ==
    ASSUME TypeOK
    PROVE  Remaining \in Nat
<1>1. now \in Nat /\ Deadline \in Nat
  BY Numbers, Constants, Zenon
<1> QED
  BY <1>1 DEF Remaining, Monus, Larger

\* What is left gets no more.
LEMMA RemainingShrinks ==
    ASSUME now \in Nat, now' \in Nat, now' >= now
    PROVE  Remaining < MinIteration => Remaining' < MinIteration
<1>1. Deadline \in Nat /\ MinIteration \in Nat /\ MinIteration > 0
  BY Constants
<1>2. ASSUME NEW a \in Nat, NEW b \in Nat, b >= a, Larger(Deadline - a, 0) < MinIteration
      PROVE  Larger(Deadline - b, 0) < MinIteration
  BY <1>1, <1>2 DEF Larger
<1> QED
  BY <1>2 DEF Remaining, Monus

\* While there is time, a run is given at least one slice.
LEMMA SharesOfTime ==
    ASSUME TypeOK, ~TimeIsUp
    PROVE  /\ Remaining = Deadline - now /\ Remaining \in Nat /\ Remaining > 0
           /\ \A n \in Nat \ {0} : /\ Larger(Remaining \div n, MinSlice) \in Nat
                                   /\ Larger(Remaining \div n, MinSlice) >= MinSlice
                                   /\ \/ Larger(Remaining \div n, MinSlice) = MinSlice
                                      \/ Larger(Remaining \div n, MinSlice) <= Remaining
<1>0. now \in Nat /\ Deadline \in Nat /\ MinSlice \in Nat
  BY Constants, Numbers
<1>1. Remaining = Deadline - now /\ Remaining \in Nat /\ Remaining > 0
  BY <1>0 DEF Remaining, Monus, Larger, TimeIsUp
<1>2. ASSUME NEW n \in Nat, n > 0
      PROVE  Remaining \div n \in Nat /\ Remaining \div n <= Remaining
  <2>1. Remaining \in Nat
    BY <1>1
  <2> QED
    BY <1>2, <2>1, Division
<1> QED
  BY <1>0, <1>1, <1>2 DEF Larger

\* An iteration of ALNS is given a slice at least, and no more than is left.
LEMMA IterationBudgetFits ==
    ASSUME TypeOK, Remaining >= MinIteration
    PROVE  /\ IterationBudget \in Nat /\ IterationBudget >= MinSlice
           /\ now + IterationBudget <= Deadline
<1> DEFINE planned == Larger(1, Smaller(Iterations - index, Larger(1, Remaining \div MinIteration)))
<1>0. /\ now \in Nat /\ index \in Nat /\ Deadline \in Nat /\ Iterations \in Nat
      /\ MinSlice \in Nat /\ MinSlice > 0 /\ MinIteration \in Nat /\ MinIteration >= MinSlice
  BY Constants, Numbers
<1>1. Remaining \in Nat /\ now + Remaining = Deadline
  BY <1>0 DEF Remaining, Monus, Larger
<1>2. Remaining \div MinIteration \in Nat
  BY <1>0, <1>1, Division
<1>3. planned \in Nat /\ planned > 0
  BY <1>0, <1>2 DEF Larger, Smaller
<1>4. Remaining \div planned \in Nat
  BY <1>1, <1>3, Division
<1>5. IterationBudget = Smaller(Larger(Remaining \div planned, MinIteration), Remaining)
  BY DEF IterationBudget
<1> HIDE DEF planned
<1> QED
  BY <1>0, <1>1, <1>4, <1>5 DEF Larger, Smaller

\* The bootstrap is given a slice at least, and no more than the deadline.
LEMMA BootstrapBudgetFits ==
    LET baseline == Larger(Smaller(MinBaseline, Deadline), MinSlice)
        budget == Smaller(Larger((2 * Deadline) \div 3, baseline), Larger(Deadline, MinSlice))
    IN  budget \in Nat /\ budget >= MinSlice /\ budget <= Deadline
<1>1. (2 * Deadline) \div 3 \in Nat
  BY Constants, Division
<1> QED
  BY <1>1, Constants DEF Larger, Smaller

\* The run that is awaited after a step is well-typed, and fits its budget.
LEMMA CallStep ==
    ASSUME IInv, [Next]_vars
    PROVE  /\ call' \in [budget : Nat, plan : Nat, restarts : Nat, slice : Nat]
           /\ RunsFit'
           /\ pc' = "await" => call'.plan \in Plans
<1>0. TypeOK /\ call \in [budget : Nat, plan : Nat, restarts : Nat, slice : Nat] /\ RunsFit
  BY DEF IInv, TypeOK, ProgressTyped, TimeKept
<1>1. CASE StartCandidate
  <2>1. ~TimeIsUp /\ Candidates - index \in Nat \ {0} /\ index \in Nat
    <3>1. index \in Nat /\ Candidates \in Nat
      BY <1>0, Constants, Numbers
    <3> QED
      BY <1>1, <3>1 DEF StartCandidate
  <2>2. PortfolioPlan(index) \in Nat /\ PortfolioPlan(index) \in Plans
    BY <1>0, <2>1, PlanTypes
  <2>3. Larger(Remaining \div (Candidates - index), MinSlice) \in Nat
        /\ Larger(Remaining \div (Candidates - index), MinSlice) >= MinSlice
    BY <1>0, <2>1, SharesOfTime
  <2>4. Call("await", Larger(Remaining \div (Candidates - index), MinSlice), PortfolioPlan(index), PortfolioPlan(index))
    BY <1>1 DEF StartCandidate
  <2> HIDE <1>1
  <2> QED
    BY <2>2, <2>3, <2>4, CallBegins DEF RunsFit
<1>2. CASE StartNode
  <2>1. /\ pc = "level" /\ node < Len(frontier) * Branches
        /\ Call("await", runBudget, Expansion(node % Branches, frontier[node \div Branches + 1].restarts),
                Expansion(node % Branches, frontier[node \div Branches + 1].restarts))
    BY <1>2 DEF StartNode
  <2>2. node \div Branches + 1 \in 1..Len(frontier)
    BY <1>0, <2>1, Constants, Numbers, ParentIndex
  <2>3. frontier[node \div Branches + 1].restarts \in Plans
    <3>1. frontier \in Seq([rank : 0..MaxRank, restarts : Plans])
      BY <1>0 DEF TypeOK, PlansTyped
    <3>2. frontier[node \div Branches + 1] \in [rank : 0..MaxRank, restarts : Plans]
      BY <2>2, <3>1, ElementOfSeq
    <3> QED
      BY <3>2
  <2>4. node % Branches \in Nat
    <3>1. node \in Nat /\ Branches \in Nat /\ Branches > 0
      BY <1>0, Constants, Numbers
    <3> QED
      BY <3>1, Z3
  <2>5. /\ Expansion(node % Branches, frontier[node \div Branches + 1].restarts) \in Nat
        /\ Expansion(node % Branches, frontier[node \div Branches + 1].restarts) \in Plans
    BY <1>0, <2>3, <2>4, PlanTypes
  <2>6. runBudget \in Nat /\ runBudget >= MinSlice
    BY <1>0, <2>1, Numbers DEF IInv, TimeKept, InLevel, Phases
  <2> QED
    BY <2>1, <2>5, <2>6, CallBegins DEF RunsFit
<1>3. CASE Bootstrap
  <2> DEFINE baseline == Larger(Smaller(MinBaseline, Deadline), MinSlice)
             budget == Smaller(Larger((2 * Deadline) \div 3, baseline), Larger(Deadline, MinSlice))
  <2>1. Call("await", budget, request.restarts, request.restarts)
    BY <1>3 DEF Bootstrap
  <2>2. budget \in Nat /\ budget >= MinSlice
    BY BootstrapBudgetFits
  <2>3. request.restarts \in Nat /\ request.restarts \in Plans
    BY <1>0, PlanTypes
  <2> HIDE DEF budget
  <2> QED
    BY <2>1, <2>2, <2>3, CallBegins DEF RunsFit
<1>4. CASE StartIteration
  <2>1. PICK plan \in Proposals(incumbent.restarts) :
            Call("await", IterationBudget, plan, Smaller(plan, MaxIterRestarts))
    BY <1>4 DEF StartIteration
  <2>2. plan \in Nat /\ plan \in Plans
    BY <1>0, <2>1, PlanTypes DEF TypeOK, PlansTyped
  <2>3. Smaller(plan, MaxIterRestarts) \in Nat
    BY <2>2, Constants DEF Smaller
  <2>4. Remaining >= MinIteration
    <3>1. Remaining \in Nat /\ MinIteration \in Nat /\ ~(Remaining < MinIteration)
      BY <1>0, <1>4, Constants, Numbers, RemainingType DEF StartIteration, AlnsOver
    <3> QED
      BY <3>1
  <2> QED
    BY <1>0, <2>1, <2>2, <2>3, <2>4, IterationBudgetFits, CallBegins DEF RunsFit
<1>5. CASE StartFallback
  <2>1. Call("fallback", Deadline, 1, 1) /\ pc' = "fallback"
    BY <1>5 DEF StartFallback, Call
  <2> QED
    BY <2>1, Constants, CallBegins DEF RunsFit
<1>6. CASE FallbackReturns \/ RunReturns
  BY <1>0, <1>6 DEF FallbackReturns, RunReturns, Returns, RunsFit, Awaiting, IInv, Phases
<1>7. CASE FinishPortfolio \/ FinishBeam \/ FinishAlns \/ GiveUp \/ StartLevel \/ NoTimeForLevel
           \/ EndLevel \/ LeaveAlns \/ Done \/ UNCHANGED vars
  BY <1>0, <1>7 DEF FinishPortfolio, FinishBeam, FinishAlns, GiveUp, Answer, StartLevel,
     NoTimeForLevel, EndLevel, LeaveAlns, Done, vars, RunsFit, Awaiting, IInv, Phases
<1> QED
  BY <1>1, <1>2, <1>3, <1>4, <1>5, <1>6, <1>7 DEF Next, Portfolio, Beam, Alns

-----------------------------------------------------------------------------
\* The actions that leave what a search knows of its plans alone.
LEMMA PlansFixed ==
    ASSUME [Next]_vars, ~StartLevel, ~StartNode, ~EndLevel, ~RunReturns
    PROVE  UNCHANGED <<frontier, level, levels, incumbent>>
BY DEF Next, vars, Portfolio, Beam, Alns, Done, StartCandidate, FinishPortfolio,
       NoTimeForLevel, FinishBeam, Bootstrap, StartIteration, beam, alns,
       LeaveAlns, FinishAlns, StartFallback, FallbackReturns, GiveUp, Call, Answer

\* Every step keeps where the search is well-typed.
LEMMA ProgressStep ==
    ASSUME IInv, [Next]_vars
    PROVE  ProgressTyped'
<1>0. TypeOK /\ ProgressTyped /\ request' = request /\ Phases
  BY RequestFixed DEF IInv, TypeOK
<1>1. request' \in Requests /\ call' \in [budget : Nat, plan : Nat, restarts : Nat, slice : Nat]
  BY <1>0, CallStep DEF ProgressTyped
<1>2. pc' \in {"bootstrap", "next", "await", "level", "finish", "fallback", "giveup", "done"}
  <2>1. CASE Portfolio \/ Beam
    BY <2>1 DEF Portfolio, Beam, StartCandidate, FinishPortfolio, StartLevel, NoTimeForLevel,
       StartNode, EndLevel, FinishBeam, Call, Answer
  <2>2. CASE Alns
    BY <2>2 DEF Alns, Bootstrap, StartIteration, LeaveAlns, FinishAlns, StartFallback,
       FallbackReturns, GiveUp, Call, Answer
  <2>3. CASE RunReturns \/ Done \/ UNCHANGED vars
    BY <1>0, <2>3 DEF RunReturns, Done, vars, ProgressTyped
  <2> QED
    BY <2>1, <2>2, <2>3 DEF Next
<1>3. now' \in Nat
  <2>1. now \in Nat /\ call.budget \in Nat /\ Overrun \in Nat
    BY <1>0, Numbers, Constants
  <2>2. CASE RunReturns \/ FallbackReturns
    <3>1. Returns
      BY <2>2 DEF RunReturns, FallbackReturns
    <3> QED
      BY <2>1, <3>1 DEF Returns
  <2>3. CASE ~RunReturns /\ ~FallbackReturns
    BY <2>1, <2>3 DEF Next, vars, Portfolio, Beam, Alns, Done, StartCandidate, FinishPortfolio,
       StartLevel, NoTimeForLevel, StartNode, EndLevel, FinishBeam, Bootstrap, StartIteration,
       LeaveAlns, FinishAlns, StartFallback, GiveUp, Call, Answer
  <2> QED
    BY <2>2, <2>3
<1>4. index' \in 0..(IF Is("portfolio") THEN Candidates ELSE IF Is("beam") THEN Depth ELSE Iterations)
  <2>1. /\ index \in 0..(IF Is("portfolio") THEN Candidates ELSE IF Is("beam") THEN Depth ELSE Iterations)
        /\ Candidates \in Nat /\ Depth \in Nat /\ Iterations \in Nat /\ index \in Nat
    BY <1>0, Constants, Numbers DEF ProgressTyped
  <2>2. CASE RunReturns
    <3>1. /\ pc = "await"
          /\ \/ Is("portfolio") /\ index' = index + 1
             \/ Is("beam") /\ index' = index
             \/ Is("alns") /\ index' = IF runs = 1 THEN index ELSE index + 1
      BY <2>2 DEF RunReturns, CandidateSucceeds, CandidateEnds, NodeSucceeds, NodeEnds,
         IterationSucceeds, IterationEnds, Bootstrapping, beam
    <3>2. Is("portfolio") => index < Candidates
      BY <1>0, <3>1 DEF Phases
    <3>3. Is("alns") => runs = 1 \/ index < Iterations
      BY <1>0, <3>1 DEF Phases
    <3> QED
      BY <2>1, <3>1, <3>2, <3>3 DEF Is
  <2>3. CASE NoTimeForLevel \/ EndLevel
    <3>1. Is("beam") /\ index' \in {Depth, index + 1} /\ (index' = index + 1 => index < Depth)
      BY <1>0, <2>3 DEF NoTimeForLevel, EndLevel, Phases, InLevel
    <3> QED
      BY <2>1, <3>1 DEF Is
  <2>4. CASE ~RunReturns /\ ~NoTimeForLevel /\ ~EndLevel
    BY <2>1, <2>4 DEF Next, vars, Portfolio, Beam, Alns, Done, StartCandidate, FinishPortfolio,
       StartLevel, StartNode, FinishBeam, Bootstrap, StartIteration,
       LeaveAlns, FinishAlns, StartFallback, FallbackReturns, GiveUp, Call, Answer
  <2> QED
    BY <2>2, <2>3, <2>4
<1>5. node' \in 0..(Width * Branches) /\ runBudget' \in Nat
  <2>1. /\ node \in 0..(Width * Branches) /\ runBudget \in Nat /\ Width * Branches \in Nat
        /\ Len(frontier) * Branches \in Nat /\ Len(frontier) * Branches <= Width * Branches
        /\ Len(frontier) * Branches > 0
    BY <1>0, RunsOfLevel DEF ProgressTyped
  <2>2. CASE StartLevel
    <3> DEFINE levelBudget == Larger(Remaining \div (Depth - index), MinSlice)
    <3>1. ~TimeIsUp /\ Depth - index \in Nat \ {0}
      <4>1. index \in Nat /\ Depth \in Nat
        BY <1>0, Constants, Numbers
      <4> QED
        BY <2>2, <4>1 DEF StartLevel
    <3>2. levelBudget \in Nat
      BY <1>0, <3>1, SharesOfTime
    <3>3. runBudget' = Larger(levelBudget \div (Len(frontier) * Branches), MinSlice) /\ node' = 0
      BY <2>2 DEF StartLevel
    <3> HIDE DEF levelBudget
    <3>4. levelBudget \div (Len(frontier) * Branches) \in Nat
      BY <2>1, <3>2, Division
    <3> QED
      BY <2>1, <3>3, <3>4, Constants DEF Larger
  <2>3. CASE StartNode
    BY <2>1, <2>3 DEF StartNode
  <2>4. CASE ~StartLevel /\ ~StartNode
    BY <2>1, <2>4 DEF Next, vars, beam, Portfolio, Beam, Alns, RunReturns, Done, StartCandidate,
       FinishPortfolio, NoTimeForLevel, EndLevel, FinishBeam, Bootstrap, StartIteration, LeaveAlns,
       FinishAlns, StartFallback, FallbackReturns, GiveUp, Call, Answer, CandidateSucceeds,
       CandidateEnds, NodeSucceeds, NodeEnds, IterationSucceeds, IterationEnds
  <2> QED
    BY <2>2, <2>3, <2>4
<1>6. streak' \in Nat
  <2>1. streak \in Nat
    BY <1>0, Numbers
  <2>2. CASE RunReturns
    <3>1. streak' \in {streak, streak + 1, 0}
      BY <2>2, Zenon DEF RunReturns, CandidateSucceeds, CandidateEnds, NodeSucceeds, NodeEnds,
         IterationSucceeds, IterationEnds, StreakAfter, alns
    <3> QED
      BY <2>1, <3>1
  <2>3. CASE ~RunReturns
    BY <2>1, <2>3 DEF Next, vars, alns, Portfolio, Beam, Alns, Done, StartCandidate,
       FinishPortfolio, StartLevel, StartNode, NoTimeForLevel, EndLevel, FinishBeam, Bootstrap,
       StartIteration, LeaveAlns, FinishAlns, StartFallback, FallbackReturns, GiveUp, Call, Answer
  <2> QED
    BY <2>2, <2>3
<1> QED
  BY <1>0, <1>1, <1>2, <1>3, <1>4, <1>5, <1>6 DEF ProgressTyped, Is

\* What is put into a sequence is in it, and what was in it before stays in it.
LEMMA Inserted ==
    ASSUME NEW S, NEW s \in Seq(S), NEW p \in 0..Len(s), NEW e \in S
    PROVE  /\ InsertAt(s, p + 1, e) \in Seq(S)
           /\ Len(InsertAt(s, p + 1, e)) = Len(s) + 1
           /\ InsertAt(s, p + 1, e)[1] = IF p = 0 THEN e ELSE s[1]
           /\ \A i \in 1..(Len(s) + 1) :
                 InsertAt(s, p + 1, e)[i] = e \/ \E j \in 1..Len(s) : InsertAt(s, p + 1, e)[i] = s[j]
<1> DEFINE front == SubSeq(s, 1, p)
           back == SubSeq(s, p + 1, Len(s))
<1>0. Len(s) \in Nat /\ p \in Int /\ \A i \in 1..Len(s) : s[i] \in S
  BY LenProperties, ElementOfSeq
<1>1. /\ front \in Seq(S) /\ Len(front) = p
      /\ \A i \in 1..p : front[i] = s[i]
  BY <1>0, SubSeqProperties
<1>2. /\ back \in Seq(S) /\ Len(back) = Len(s) - p
      /\ \A i \in 1..(Len(s) - p) : back[i] = s[p + i]
  <2>1. \A i \in (p + 1)..Len(s) : s[i] \in S
    BY <1>0
  <2> QED
    BY <1>0, <2>1, SubSeqProperties
<1>3. <<e>> \in Seq(S) /\ Len(<<e>>) = 1 /\ <<e>>[1] = e
  OBVIOUS
<1> HIDE DEF front, back
<1> DEFINE mid == front \o <<e>>
<1>4. /\ mid \in Seq(S) /\ Len(mid) = p + 1
      /\ \A i \in 1..(p + 1) : mid[i] = IF i <= p THEN front[i] ELSE e
  BY <1>0, <1>1, <1>3, ConcatProperties
<1> HIDE DEF mid
<1>5. /\ mid \o back \in Seq(S) /\ Len(mid \o back) = Len(s) + 1
      /\ \A i \in 1..(Len(s) + 1) : (mid \o back)[i] = IF i <= p + 1 THEN mid[i] ELSE back[i - (p + 1)]
  BY <1>0, <1>2, <1>4, ConcatProperties
<1>6. InsertAt(s, p + 1, e) = mid \o back
  <2>1. (p + 1) - 1 = p
    BY <1>0
  <2> QED
    BY <2>1 DEF InsertAt, mid, front, back
<1>7. (mid \o back)[1] = IF p = 0 THEN e ELSE s[1]
  BY <1>0, <1>1, <1>4, <1>5
<1>8. ASSUME NEW i \in 1..(Len(s) + 1)
      PROVE  (mid \o back)[i] = e \/ \E j \in 1..Len(s) : (mid \o back)[i] = s[j]
  <2>1. CASE i <= p
    BY <1>0, <1>1, <1>4, <1>5, <2>1
  <2>2. CASE i = p + 1
    BY <1>0, <1>4, <1>5, <2>2
  <2>3. CASE i > p + 1
    <3>1. (mid \o back)[i] = back[i - (p + 1)] /\ i - (p + 1) \in 1..(Len(s) - p)
      BY <1>0, <1>5, <2>3
    <3>2. back[i - (p + 1)] = s[p + (i - (p + 1))] /\ p + (i - (p + 1)) \in 1..Len(s)
      BY <1>0, <1>2, <2>3, <3>1
    <3> QED
      BY <3>1, <3>2
  <2>4. i <= p \/ i = p + 1 \/ i > p + 1
    BY <1>0, <1>8
  <2> QED
    BY <2>1, <2>2, <2>3, <2>4
<1> DEFINE all == mid \o back
<1> HIDE DEF all
<1>9. /\ all \in Seq(S) /\ Len(all) = Len(s) + 1
      /\ all[1] = IF p = 0 THEN e ELSE s[1]
      /\ \A i \in 1..(Len(s) + 1) : all[i] = e \/ \E j \in 1..Len(s) : all[i] = s[j]
  BY <1>5, <1>7, <1>8 DEF all
<1>10. InsertAt(s, p + 1, e) = all
  BY <1>6 DEF all
<1> QED
  BY <1>9, <1>10

\* A result goes into its level: first if it is better than all that are there,
\* behind the first one if it is not.
LEMMA InsertedByRank ==
    ASSUME NEW results \in Seq(Entries), NEW entry \in Entries,
           \A i \in 1..Len(results) : results[i].rank <= results[1].rank
    PROVE  /\ Insert(results, entry) \in Seq(Entries)
           /\ Len(Insert(results, entry)) = Len(results) + 1
           /\ Insert(results, entry)[1].rank =
                 IF results = <<>> THEN entry.rank ELSE Larger(results[1].rank, entry.rank)
           /\ \A i \in 1..(Len(results) + 1) :
                 Insert(results, entry)[i].rank <= Insert(results, entry)[1].rank
<1> DEFINE ahead == {i \in DOMAIN results : results[i].rank >= entry.rank}
           p == Cardinality(ahead)
<1>0. /\ Len(results) \in Nat /\ DOMAIN results = 1..Len(results)
      /\ entry.rank \in Nat /\ \A i \in 1..Len(results) : results[i].rank \in Nat
  <2>1. Len(results) \in Nat /\ DOMAIN results = 1..Len(results)
    BY LenProperties
  <2>2. \A i \in 1..Len(results) : results[i] \in Entries
    BY ElementOfSeq
  <2> QED
    BY <2>1, <2>2, Constants DEF Entries
<1>1. IsFiniteSet(ahead) /\ p \in 0..Len(results)
  <2>1. IsFiniteSet(1..Len(results)) /\ Cardinality(1..Len(results)) = Len(results)
    <3>1. Len(results) \in Nat /\ Len(results) \in Int /\ 1 \in Int
      BY <1>0
    <3>2. IsFiniteSet(1..Len(results))
          /\ Cardinality(1..Len(results)) = IF 1 > Len(results) THEN 0 ELSE Len(results) - 1 + 1
      BY <3>1, FS_Interval
    <3> QED
      BY <3>1, <3>2
  <2>2. ahead \in SUBSET (1..Len(results))
    BY <1>0
  <2>3. IsFiniteSet(ahead) /\ p <= Len(results)
    BY <2>1, <2>2, FS_Subset
  <2>4. p \in Nat
    BY <2>3, FS_CardinalityType
  <2> QED
    BY <1>0, <2>3, <2>4
<1>2. p = 0 <=> ahead = {}
  BY <1>1, FS_EmptySet
<1>3. Insert(results, entry) = InsertAt(results, p + 1, entry)
  BY DEF Insert
<1>4. p = 0 /\ results # <<>> => entry.rank > results[1].rank
  <2>1. results # <<>> => 1 \in 1..Len(results)
    BY <1>0, EmptySeq
  <2> QED
    BY <1>0, <1>2, <2>1
<1>5. p # 0 => results # <<>> /\ entry.rank <= results[1].rank
  <2>1. ASSUME NEW i \in ahead
        PROVE  results # <<>> /\ entry.rank <= results[1].rank
    <3>1. i \in 1..Len(results) /\ results[i].rank >= entry.rank /\ 1 \in 1..Len(results)
      BY <1>0, <2>1
    <3> QED
      BY <1>0, <3>1, EmptySeq
  <2> QED
    BY <1>2, <2>1
<1> HIDE DEF p
<1> DEFINE after == InsertAt(results, p + 1, entry)
<1>6. /\ after \in Seq(Entries) /\ Len(after) = Len(results) + 1
      /\ after[1] = IF p = 0 THEN entry ELSE results[1]
      /\ \A i \in 1..(Len(results) + 1) :
            after[i] = entry \/ \E j \in 1..Len(results) : after[i] = results[j]
  BY <1>1, Inserted
<1> HIDE DEF after
<1>7. 1 \in 1..Len(results) \/ results = <<>>
  BY <1>0, EmptySeq
<1>8. after[1].rank = IF results = <<>> THEN entry.rank ELSE Larger(results[1].rank, entry.rank)
  BY <1>0, <1>4, <1>5, <1>6, <1>7 DEF Larger
<1>9. ASSUME NEW i \in 1..(Len(results) + 1)
      PROVE  after[i].rank <= after[1].rank
  <2>1. CASE after[i] = entry
    BY <1>0, <1>7, <1>8, <2>1 DEF Larger
  <2>2. ASSUME NEW j \in 1..Len(results), after[i] = results[j]
        PROVE  after[i].rank <= after[1].rank
    <3>1. results # <<>> /\ 1 \in 1..Len(results)
      BY <1>0, <2>2, EmptySeq
    <3> QED
      BY <1>0, <1>8, <2>2, <3>1 DEF Larger
  <2> QED
    BY <1>6, <2>1, <2>2
<1> QED
  BY <1>3, <1>6, <1>8, <1>9 DEF after

-----------------------------------------------------------------------------
\* The steps of each search.
LEMMA StepOf ==
    ASSUME IInv, [Next]_vars
    PROVE  /\ Is("portfolio") => StartCandidate \/ FinishPortfolio \/ RunReturns \/ UNCHANGED vars
           /\ Is("beam") => StartLevel \/ NoTimeForLevel \/ StartNode \/ EndLevel \/ FinishBeam
                            \/ RunReturns \/ UNCHANGED vars
           /\ Is("alns") => Bootstrap \/ StartIteration \/ LeaveAlns \/ FinishAlns \/ StartFallback
                            \/ FallbackReturns \/ GiveUp \/ RunReturns \/ UNCHANGED vars
<1>1. Phases
  BY DEF IInv
<1>2. StartCandidate \/ FinishPortfolio => Is("portfolio")
  BY DEF StartCandidate, FinishPortfolio
<1>3. StartLevel \/ NoTimeForLevel \/ StartNode \/ EndLevel \/ FinishBeam => Is("beam")
  BY <1>1 DEF StartLevel, NoTimeForLevel, StartNode, EndLevel, FinishBeam, Phases
<1>4. Bootstrap \/ StartIteration \/ LeaveAlns \/ FinishAlns \/ StartFallback \/ FallbackReturns
      \/ GiveUp => Is("alns")
  BY <1>1 DEF Bootstrap, StartIteration, LeaveAlns, FinishAlns, StartFallback, FallbackReturns,
     GiveUp, Phases
<1>5. Is("portfolio") => ~Is("beam") /\ ~Is("alns")
  BY DEF Is
<1>6. Is("beam") => ~Is("alns")
  BY DEF Is
<1> QED
  BY <1>2, <1>3, <1>4, <1>5, <1>6, Zenon DEF Next, Portfolio, Beam, Alns, Done

\* How the run of each search may come back.
LEMMA ReturnOf ==
    ASSUME RunReturns
    PROVE  /\ pc = "await" /\ Returns
           /\ pc' = IF Is("beam") THEN "level" ELSE "next"
           /\ Is("portfolio") =>
                 \/ \E rank \in 1..MaxRank, reported \in BOOLEAN :
                       Succeeds(rank, reported) /\ CandidateSucceeds(rank, reported)
                 \/ (TimesOut \/ Fails) /\ CandidateEnds
           /\ Is("beam") =>
                 \/ \E rank \in 1..MaxRank, reported \in BOOLEAN :
                       Succeeds(rank, reported) /\ NodeSucceeds(rank, reported)
                 \/ (TimesOut \/ Fails) /\ NodeEnds
           /\ Is("alns") =>
                 \/ \E rank \in 1..MaxRank, reported \in BOOLEAN :
                       Succeeds(rank, reported) /\ IterationSucceeds(rank, reported)
                 \/ TimesOut /\ IterationEnds(TRUE)
                 \/ Fails /\ IterationEnds(FALSE)
<1>1. pc = "await" /\ Returns /\ pc' = IF Is("beam") THEN "level" ELSE "next"
  BY DEF RunReturns
<1>2. /\ \A rank, reported : CandidateSucceeds(rank, reported) => Is("portfolio")
      /\ \A rank, reported : NodeSucceeds(rank, reported) => Is("beam")
      /\ \A rank, reported : IterationSucceeds(rank, reported) => Is("alns")
      /\ CandidateEnds => Is("portfolio")
      /\ NodeEnds => Is("beam")
      /\ \A timeout : IterationEnds(timeout) => Is("alns")
  BY Zenon DEF CandidateSucceeds, NodeSucceeds, IterationSucceeds, CandidateEnds, NodeEnds, IterationEnds
<1>3. /\ Is("portfolio") => ~Is("beam") /\ ~Is("alns")
      /\ Is("beam") => ~Is("portfolio") /\ ~Is("alns")
      /\ Is("alns") => ~Is("portfolio") /\ ~Is("beam")
  BY DEF Is
<1> QED
  BY <1>1, <1>2, <1>3, Zenon DEF RunReturns

\* The record of the level under way.
LEMMA LevelUnderWay ==
    ASSUME IInv, InLevel
    PROVE  /\ Len(levels) = index + 1 /\ Len(levels) \in 1..Len(levels)
           /\ levels[Len(levels)] \in [best : 0..MaxRank, planned : Nat, begun : Nat]
<1>1. index \in Nat /\ Len(levels) = index + 1
  BY Numbers DEF IInv, LevelsRecorded, Phases, InLevel
<1>2. levels \in Seq([best : 0..MaxRank, planned : Nat, begun : Nat])
  BY DEF IInv, TypeOK, PlansTyped
<1>3. Len(levels) \in 1..Len(levels)
  BY <1>1
<1>4. levels[Len(levels)] \in [best : 0..MaxRank, planned : Nat, begun : Nat]
  BY <1>2, <1>3, ElementOfSeq
<1> QED
  BY <1>1, <1>3, <1>4

\* A beginning run is counted in the record of its level.
LEMMA BegunCounted ==
    ASSUME IInv, StartNode
    PROVE  /\ levels' \in Seq([best : 0..MaxRank, planned : Nat, begun : Nat])
           /\ Len(levels') = Len(levels)
           /\ \A i \in 1..Len(levels) :
                 /\ levels'[i].best = levels[i].best
                 /\ levels'[i].planned = levels[i].planned
                 /\ levels'[i].begun = IF i = Len(levels) THEN levels[i].begun + 1 ELSE levels[i].begun
<1> DEFINE n == Len(levels)
           e == [levels[n] EXCEPT !.begun = @ + 1]
           Records == [best : 0..MaxRank, planned : Nat, begun : Nat]
<1>1. n \in 1..n /\ levels[n] \in Records /\ levels \in Seq(Records)
  BY LevelUnderWay DEF StartNode, IInv, Phases, InLevel, TypeOK, PlansTyped
<1>2. e \in Records /\ e.best = levels[n].best /\ e.planned = levels[n].planned /\ e.begun = levels[n].begun + 1
  <2> DEFINE old == levels[n]
  <2>1. old \in Records
    BY <1>1
  <2> HIDE DEF old
  <2>2. [old EXCEPT !.begun = @ + 1] =
            [best |-> old.best, planned |-> old.planned, begun |-> old.begun + 1]
    BY <2>1
  <2>3. old.best \in 0..MaxRank /\ old.planned \in Nat /\ old.begun + 1 \in Nat
    BY <2>1
  <2> QED
    BY <2>2, <2>3 DEF old
<1>3. levels' = [levels EXCEPT ![n] = e]
  BY DEF StartNode
<1> HIDE DEF e
<1>4. /\ levels' \in Seq(Records) /\ Len(levels') = n
      /\ \A i \in 1..n : levels'[i] = IF i = n THEN e ELSE levels[i]
  <2>1. e \in Records
    BY <1>2
  <2> HIDE DEF n, Records
  <2>2. n \in 1..Len(levels)
    BY <1>1 DEF n
  <2> QED
    BY <1>1, <1>3, <2>1, <2>2, ExceptSeq DEF n
<1> QED
  BY <1>2, <1>4

\* A layout is entered in the record of its level and in its results.
LEMMA ResultKept ==
    ASSUME IInv, InLevel, pc = "await", NEW rank \in 1..MaxRank, NEW reported, NodeSucceeds(rank, reported)
    PROVE  /\ levels' \in Seq([best : 0..MaxRank, planned : Nat, begun : Nat])
           /\ Len(levels') = Len(levels)
           /\ \A i \in 1..Len(levels) :
                 /\ levels'[i].best = IF i = Len(levels) THEN Larger(levels[i].best, rank) ELSE levels[i].best
                 /\ levels'[i].planned = levels[i].planned
                 /\ levels'[i].begun = levels[i].begun
           /\ level' \in Seq(Entries) /\ Len(level') = Len(level) + 1
           /\ level'[1].rank = levels'[Len(levels)].best
           /\ \A i \in 1..Len(level') : level'[i].rank <= level'[1].rank
<1> DEFINE n == Len(levels)
           e == [levels[n] EXCEPT !.best = Larger(@, rank)]
           entry == [rank |-> rank, restarts |-> call.plan]
           Records == [best : 0..MaxRank, planned : Nat, begun : Nat]
<1>1. n \in 1..n /\ levels[n] \in Records /\ levels \in Seq(Records)
  BY LevelUnderWay DEF IInv, TypeOK, PlansTyped
<1>2. /\ e \in Records /\ e.best = Larger(levels[n].best, rank)
      /\ e.planned = levels[n].planned /\ e.begun = levels[n].begun
  <2> DEFINE old == levels[n]
  <2>1. old \in Records
    BY <1>1
  <2> HIDE DEF old
  <2>2. [old EXCEPT !.best = Larger(@, rank)] =
            [best |-> Larger(old.best, rank), planned |-> old.planned, begun |-> old.begun]
    BY <2>1
  <2>3. Larger(old.best, rank) \in 0..MaxRank /\ old.planned \in Nat /\ old.begun \in Nat
    BY <2>1, Constants DEF Larger
  <2> QED
    BY <2>2, <2>3 DEF old
<1>3. levels' = [levels EXCEPT ![n] = e] /\ level' = Insert(level, entry)
  BY DEF NodeSucceeds
<1> HIDE DEF e
<1>4. /\ levels' \in Seq(Records) /\ Len(levels') = n
      /\ \A i \in 1..n : levels'[i] = IF i = n THEN e ELSE levels[i]
  <2>1. e \in Records
    BY <1>2
  <2> HIDE DEF n, Records
  <2>2. n \in 1..Len(levels)
    BY <1>1 DEF n
  <2> QED
    BY <1>1, <1>3, <2>1, <2>2, ExceptSeq DEF n
<1>5. entry \in Entries /\ entry.rank = rank /\ level \in Seq(Entries)
  BY DEF Entries, IInv, Phases, TypeOK, PlansTyped
<1>6. /\ DOMAIN level = 1..Len(level)
      /\ level = <<>> => levels[n].best = NoLayout
      /\ level # <<>> => level[1].rank = levels[n].best
                         /\ \A i \in DOMAIN level : level[i].rank <= level[1].rank
  BY <1>5, LenProperties DEF IInv, FrontierOfLevels, InLevel
<1>7. \A i \in 1..Len(level) : level[i].rank <= level[1].rank
  BY <1>5, <1>6, EmptySeq
<1> HIDE DEF entry
<1>8. /\ level' \in Seq(Entries) /\ Len(level') = Len(level) + 1
      /\ level'[1].rank = IF level = <<>> THEN rank ELSE Larger(level[1].rank, rank)
      /\ \A i \in 1..(Len(level) + 1) : level'[i].rank <= level'[1].rank
  BY <1>3, <1>5, <1>7, InsertedByRank
<1>9. level'[1].rank = Larger(levels[n].best, rank)
  BY <1>6, <1>8 DEF Larger, NoLayout
<1> QED
  BY <1>1, <1>2, <1>4, <1>8, <1>9

\* The frontier of the next level: the best results, or the frontier as it was.
LEMMA FrontierKept ==
    ASSUME IInv, EndLevel
    PROVE  /\ frontier' \in Seq([rank : 0..MaxRank, restarts : Plans])
           /\ Len(frontier') \in 1..Width
           /\ frontier'[1] = IF level = <<>> THEN frontier[1] ELSE level[1]
<1>0. /\ frontier \in Seq([rank : 0..MaxRank, restarts : Plans]) /\ Len(frontier) \in 1..Width
      /\ level \in Seq(Entries)
  BY DEF IInv, TypeOK, PlansTyped
<1>1. CASE level = <<>>
  BY <1>0, <1>1 DEF EndLevel, LevelEmpty, LevelKept
<1>2. CASE level # <<>>
  <2> DEFINE m == Smaller(Width, Len(level))
  <2>1. frontier' = SubSeq(level, 1, m)
    BY <1>2 DEF EndLevel, LevelEmpty, LevelKept
  <2>2. Len(level) \in Nat /\ Len(level) > 0
    BY <1>0, <1>2, EmptySeq
  <2>3. m \in Nat /\ m > 0 /\ m <= Width /\ m <= Len(level)
    BY <2>2, Constants DEF Smaller
  <2> HIDE DEF m
  <2>4. \A i \in 1..m : level[i] \in [rank : 0..MaxRank, restarts : Plans]
    <3>1. \A i \in 1..Len(level) : level[i] \in Entries
      BY <1>0, ElementOfSeq
    <3>2. \A i \in 1..m : level[i] \in Entries
      BY <2>2, <2>3, <3>1
    <3> QED
      BY <3>2, Constants DEF Entries
  <2>5. /\ SubSeq(level, 1, m) \in Seq([rank : 0..MaxRank, restarts : Plans])
        /\ Len(SubSeq(level, 1, m)) = IF 1 <= m THEN m - 1 + 1 ELSE 0
        /\ \A i \in 1..(m - 1 + 1) : SubSeq(level, 1, m)[i] = level[1 + i - 1]
    BY <2>3, <2>4, SubSeqProperties
  <2> QED
    BY <1>2, <2>1, <2>3, <2>5, Constants
<1> QED
  BY <1>1, <1>2

\* Every step keeps the frontier, the levels and the plans well-typed.
LEMMA PlansStep ==
    ASSUME IInv, [Next]_vars
    PROVE  PlansTyped'
<1>0. /\ TypeOK /\ PlansTyped /\ request' = request
      /\ Plans' = Plans /\ Entries' = Entries
  BY RequestFixed DEF IInv, TypeOK, Plans, Entries
<1>1. CASE StartLevel
  <2>1. /\ UNCHANGED <<frontier, incumbent>> /\ level' = <<>>
        /\ levels' = Append(levels, [best |-> NoLayout, planned |-> Len(frontier) * Branches, begun |-> 0])
    BY <1>1 DEF StartLevel, alns
  <2>2. [best |-> NoLayout, planned |-> Len(frontier) * Branches, begun |-> 0]
            \in [best : 0..MaxRank, planned : Nat, begun : Nat]
    BY <1>0, RunsOfLevel, Constants DEF NoLayout
  <2>3. Len(levels) <= index /\ index < Depth /\ Len(levels) \in Nat /\ index \in Nat
    BY <1>0, <1>1, Numbers DEF IInv, LevelsRecorded, StartLevel, InLevel
  <2>4. levels' \in Seq([best : 0..MaxRank, planned : Nat, begun : Nat]) /\ Len(levels') = Len(levels) + 1
    BY <1>0, <2>1, <2>2, AppendProperties DEF PlansTyped
  <2> QED
    BY <1>0, <2>1, <2>3, <2>4, Constants DEF PlansTyped
<1>2. CASE StartNode
  <2>1. UNCHANGED <<frontier, level, incumbent>>
    BY <1>2 DEF StartNode, Call, alns
  <2> QED
    BY <1>0, <1>2, <2>1, BegunCounted DEF PlansTyped
<1>3. CASE EndLevel
  <2>1. UNCHANGED <<level, levels, incumbent>>
    BY <1>3 DEF EndLevel, alns
  <2> QED
    BY <1>0, <1>3, <2>1, FrontierKept DEF PlansTyped
<1>4. CASE RunReturns
  <2>1. CASE Is("portfolio")
    <3>1. UNCHANGED <<frontier, level, levels, incumbent>>
      BY <1>4, <2>1, ReturnOf DEF CandidateSucceeds, CandidateEnds, beam, alns
    <3> QED
      BY <1>0, <3>1 DEF PlansTyped
  <2>2. CASE Is("beam")
    <3>1. CASE NodeEnds
      BY <1>0, <3>1 DEF PlansTyped, NodeEnds, beam, alns
    <3>2. ASSUME NEW rank \in 1..MaxRank, NEW reported, NodeSucceeds(rank, reported)
          PROVE  PlansTyped'
      <4>1. pc = "await" /\ InLevel
        BY <1>4, <2>2 DEF RunReturns, InLevel
      <4>2. UNCHANGED <<frontier, incumbent>>
        BY <3>2 DEF NodeSucceeds, alns
      <4> QED
        BY <1>0, <3>2, <4>1, <4>2, ResultKept DEF PlansTyped
    <3> QED
      BY <1>4, <2>2, <3>1, <3>2, ReturnOf
  <2>3. CASE Is("alns")
    <3>1. UNCHANGED <<frontier, level, levels>>
      BY <1>4, <2>3, ReturnOf DEF IterationSucceeds, IterationEnds, beam
    <3>2. incumbent' \in [rank : 0..MaxRank, restarts : Plans]
      <4>1. \A rank \in 1..MaxRank : [rank |-> rank, restarts |-> call.plan] \in [rank : 0..MaxRank, restarts : Plans]
        BY <1>4, Constants, ReturnOf DEF IInv, Phases
      <4>2. \/ incumbent' = incumbent
            \/ \E rank \in 1..MaxRank : incumbent' = [rank |-> rank, restarts |-> call.plan]
        BY <1>4, <2>3, ReturnOf, Zenon DEF IterationSucceeds, IterationEnds, Accepts
      <4> QED
        BY <1>0, <4>1, <4>2 DEF PlansTyped
    <3> QED
      BY <1>0, <3>1, <3>2 DEF PlansTyped
  <2> QED
    BY <1>0, <2>1, <2>2, <2>3, Kinds DEF Is
<1>5. CASE ~StartLevel /\ ~StartNode /\ ~EndLevel /\ ~RunReturns
  BY <1>0, <1>5, PlansFixed DEF PlansTyped
<1> QED
  BY <1>1, <1>2, <1>3, <1>4, <1>5

-----------------------------------------------------------------------------
\* What an answer says, and what it is made of.
LEMMA AnswerSays ==
    ASSUME TypeOK, NEW rank \in 0..MaxRank, Answer(rank)
    PROVE  /\ pc' = "done"
           /\ UNCHANGED <<request, now, call, index, beam, alns, best, counts, budgetExhausted, history>>
           /\ answer' \in [kind : {"none", "ok", "timeout", "internal"}, rank : 0..MaxRank,
                           reason : {"none", "slice_timeout", "time_budget_exhausted"}]
           /\ answer'.kind # "none"
           /\ answer'.rank = rank
           /\ rank # NoLayout => answer'.kind = "ok" /\ answer'.reason = Reason
           /\ rank = NoLayout =>
                 /\ answer'.reason = "none"
                 /\ answer'.kind = IF timedOut > 0 \/ OutOfBudget THEN "timeout" ELSE "internal"
<1>1. CASE rank # NoLayout
  <2>1. answer' = [kind |-> "ok", rank |-> rank, reason |-> Reason]
    BY <1>1 DEF Answer, Ok
  <2>2. Reason \in {"none", "slice_timeout", "time_budget_exhausted"}
    BY DEF Reason
  <2> QED
    BY <1>1, <2>1, <2>2 DEF Answer
<1>2. CASE rank = NoLayout
  <2>1. answer' = [kind |-> IF timedOut > 0 \/ OutOfBudget THEN "timeout" ELSE "internal",
                   rank |-> NoLayout, reason |-> "none"]
    BY <1>2 DEF Answer, Error
  <2> QED
    BY <1>2, <2>1 DEF Answer
<1> QED
  BY <1>1, <1>2

\* What is answered, by each of the actions that answer.
LEMMA Answering ==
    ASSUME IInv, FinishPortfolio \/ FinishBeam \/ FinishAlns \/ GiveUp
    PROVE  /\ answer.kind = "none"
           /\ FinishPortfolio \/ FinishAlns => Answer(best) /\ best \in 0..MaxRank
           /\ FinishBeam => Answer(frontier[1].rank) /\ frontier[1].rank \in 0..MaxRank
           /\ GiveUp => Answer(best) /\ best = NoLayout /\ best \in 0..MaxRank
           /\ \E rank \in 0..MaxRank : Answer(rank)
<1>1. answer.kind = "none"
  BY DEF IInv, Phases, FinishPortfolio, FinishBeam, FinishAlns, GiveUp, NoAnswer
<1>2. best \in 0..MaxRank
  BY DEF IInv, TypeOK, OutcomeTyped
<1>3. frontier[1].rank \in 0..MaxRank
  <2>1. frontier \in Seq([rank : 0..MaxRank, restarts : Plans]) /\ 1 \in 1..Len(frontier)
    BY Constants DEF IInv, TypeOK, PlansTyped
  <2>2. frontier[1] \in [rank : 0..MaxRank, restarts : Plans]
    BY <2>1, ElementOfSeq
  <2> QED
    BY <2>2
<1>4. GiveUp => best = NoLayout
  BY DEF IInv, Phases, GiveUp
<1>5. FinishPortfolio \/ FinishAlns => Answer(best)
  BY DEF FinishPortfolio, FinishAlns
<1>6. GiveUp => Answer(best)
  BY <1>4 DEF GiveUp
<1>7. FinishBeam => Answer(frontier[1].rank)
  BY DEF FinishBeam
<1> QED
  BY <1>1, <1>2, <1>3, <1>4, <1>5, <1>6, <1>7

\* A run comes back: what it leaves of the counts.
LEMMA RunCounted ==
    ASSUME IInv, RunReturns \/ FallbackReturns
    PROVE  /\ Returns /\ runs' = runs
           /\ pc \in {"await", "fallback"} /\ pc' \notin {"await", "fallback", "done"}
           /\ UNCHANGED <<budgetExhausted, answer, runBudget, node, frontier>>
           /\ \/ \E rank \in 1..MaxRank, reported \in BOOLEAN : Succeeds(rank, reported)
              \/ TimesOut
              \/ Fails
<1>1. CASE RunReturns
  <2>1. Returns /\ pc = "await" /\ pc' \in {"level", "next"}
    BY <1>1 DEF RunReturns
  <2>2. /\ UNCHANGED <<budgetExhausted, answer, runBudget, node, frontier>>
        /\ \/ \E rank \in 1..MaxRank, reported \in BOOLEAN : Succeeds(rank, reported)
           \/ TimesOut
           \/ Fails
    BY <1>1, Zenon DEF RunReturns, CandidateSucceeds, CandidateEnds, NodeSucceeds, NodeEnds,
       IterationSucceeds, IterationEnds, beam
  <2> QED
    BY <2>1, <2>2 DEF Returns
<1>2. CASE FallbackReturns
  <2>1. /\ Returns /\ pc = "fallback" /\ pc' \in {"finish", "giveup"}
        /\ UNCHANGED <<budgetExhausted, answer, runBudget, node, frontier>>
    BY <1>2 DEF FallbackReturns, beam
  <2>2. \/ \E rank \in 1..MaxRank, reported \in BOOLEAN : Succeeds(rank, reported)
        \/ TimesOut
        \/ Fails
    BY <1>2, Zenon DEF FallbackReturns
  <2> QED
    BY <2>1, <2>2 DEF Returns
<1> QED
  BY <1>1, <1>2

\* All steps but a return leave the outcomes alone.
LEMMA OutcomesFixed ==
    ASSUME [Next]_vars, ~RunReturns, ~FallbackReturns
    PROVE  /\ UNCHANGED <<now, best, offered, timedOut, failed, silent, outcomes, late>>
           /\ evaluated' = IF StartNode THEN evaluated + 1 ELSE evaluated
BY DEF Next, vars, counts, history, Portfolio, Beam, Alns, Done, StartCandidate, FinishPortfolio,
       StartLevel, StartNode, NoTimeForLevel, EndLevel, FinishBeam, Bootstrap, StartIteration,
       LeaveAlns, FinishAlns, StartFallback, GiveUp, Call, Answer

\* How a return changes the counts, whatever it brings.
LEMMA CountsGrow ==
    ASSUME IInv, RunReturns \/ FallbackReturns
    PROVE  /\ evaluated' \in Nat /\ timedOut' \in Nat /\ failed' \in Nat
           /\ timedOut' >= timedOut
           /\ silent' \in Nat /\ offered' \in 0..MaxRank
           /\ outcomes' \subseteq {"ok", "reported", "timeout", "failure"}
           /\ outcomes' # {}
           /\ now' \in Nat /\ now' >= now /\ now' <= now + call.budget + Overrun
           /\ (~late' => ~late /\ now' <= now + call.budget)
<1>0. /\ TypeOK /\ evaluated \in Nat /\ timedOut \in Nat /\ failed \in Nat /\ silent \in Nat
      /\ offered \in 0..MaxRank /\ MaxRank \in Nat /\ now \in Nat /\ call.budget \in Nat /\ Overrun \in Nat
      /\ outcomes \subseteq {"ok", "reported", "timeout", "failure"}
  BY Numbers, Constants DEF IInv, TypeOK, OutcomeTyped
<1>1. /\ now' \in Nat /\ now' >= now /\ now' <= now + call.budget + Overrun
      /\ (~late' => ~late /\ now' <= now + call.budget)
  <2>1. now' \in now..(now + call.budget + Overrun)
    BY RunCounted DEF Returns
  <2>2. now' \in Nat /\ now' >= now /\ now' <= now + call.budget + Overrun
    BY <1>0, <2>1
  <2>3. ~late' => ~late /\ ~(now' > now + call.budget)
    BY RunCounted, Zenon DEF Returns
  <2> QED
    BY <1>0, <2>2, <2>3
<1>2. CASE \E rank \in 1..MaxRank, reported \in BOOLEAN : Succeeds(rank, reported)
  <2>1. PICK rank \in 1..MaxRank, reported \in BOOLEAN : Succeeds(rank, reported)
    BY <1>2
  <2>2. timedOut' = timedOut \/ timedOut' = timedOut + 1
    BY <2>1 DEF Succeeds
  <2>3. offered' = Larger(offered, rank) /\ evaluated' \in {evaluated, evaluated + 1} /\ failed' = failed /\ silent' = 0
    BY <2>1 DEF Succeeds
  <2>4. outcomes' = outcomes \cup {"reported"} \/ outcomes' = outcomes \cup {"ok"}
    BY <2>1 DEF Succeeds
  <2>5. offered' \in 0..MaxRank
    BY <1>0, <2>1, <2>3 DEF Larger
  <2>6. outcomes' # {} /\ outcomes' \subseteq {"ok", "reported", "timeout", "failure"}
    BY <1>0, <2>4
  <2>7. timedOut' \in Nat /\ timedOut' >= timedOut
    BY <1>0, <2>2
  <2>8. evaluated' \in Nat /\ failed' \in Nat /\ silent' \in Nat
    BY <1>0, <2>3
  <2> QED
    BY <1>1, <2>5, <2>6, <2>7, <2>8
<1>3. CASE TimesOut
  BY <1>0, <1>1, <1>3 DEF TimesOut
<1>4. CASE Fails
  BY <1>0, <1>1, <1>4 DEF Fails
<1> QED
  BY <1>2, <1>3, <1>4, RunCounted

\* Every step keeps what was found and counted well-typed.
LEMMA OutcomeStep ==
    ASSUME IInv, [Next]_vars
    PROVE  OutcomeTyped'
<1>0. TypeOK /\ OutcomeTyped
  BY DEF IInv, TypeOK
<1>1. answer' \in [kind : {"none", "ok", "timeout", "internal"}, rank : 0..MaxRank,
                   reason : {"none", "slice_timeout", "time_budget_exhausted"}]
  <2>1. CASE FinishPortfolio \/ FinishBeam \/ FinishAlns \/ GiveUp
    BY <1>0, <2>1, Answering, AnswerSays
  <2>2. CASE ~FinishPortfolio /\ ~FinishBeam /\ ~FinishAlns /\ ~GiveUp
    <3>1. answer' = answer
      BY <2>2 DEF Next, vars, Portfolio, Beam, Alns, RunReturns, Done, StartCandidate,
         StartLevel, NoTimeForLevel, StartNode, EndLevel, Bootstrap, StartIteration,
         LeaveAlns, StartFallback, FallbackReturns, Call, CandidateSucceeds, CandidateEnds,
         NodeSucceeds, NodeEnds, IterationSucceeds, IterationEnds
    <3> QED
      BY <1>0, <3>1 DEF OutcomeTyped
  <2> QED
    BY <2>1, <2>2
<1>2. /\ evaluated' \in Nat /\ timedOut' \in Nat /\ failed' \in Nat /\ silent' \in Nat
      /\ offered' \in 0..MaxRank /\ outcomes' \subseteq {"ok", "reported", "timeout", "failure"}
  <2>1. CASE RunReturns \/ FallbackReturns
    BY <2>1, CountsGrow
  <2>2. CASE ~RunReturns /\ ~FallbackReturns
    <3>1. /\ UNCHANGED <<offered, timedOut, failed, silent, outcomes>>
          /\ evaluated' = evaluated \/ evaluated' = evaluated + 1
      BY <2>2, OutcomesFixed
    <3> QED
      BY <1>0, <3>1 DEF OutcomeTyped
  <2> QED
    BY <2>1, <2>2
<1>3. best' \in 0..MaxRank
  <2>0. best \in 0..MaxRank /\ MaxRank \in Nat
    BY <1>0, Constants DEF OutcomeTyped
  <2>1. CASE RunReturns
    <3>1. best' = best \/ \E rank \in 1..MaxRank : best' = Larger(best, rank)
      BY <2>1, Zenon DEF RunReturns, CandidateSucceeds, CandidateEnds, NodeSucceeds, NodeEnds,
         IterationSucceeds, IterationEnds
    <3> QED
      BY <2>0, <3>1 DEF Larger
  <2>2. CASE FallbackReturns
    <3>1. best' = best \/ best' \in 1..MaxRank
      BY <2>2 DEF FallbackReturns
    <3> QED
      BY <2>0, <3>1
  <2>3. CASE ~RunReturns /\ ~FallbackReturns
    BY <2>0, <2>3, OutcomesFixed
  <2> QED
    BY <2>1, <2>2, <2>3
<1>4. runs' \in Nat
  <2>1. runs' = runs \/ runs' = runs + 1
    BY DEF Next, vars, history, Portfolio, Beam, Alns, RunReturns, Done, StartCandidate,
       FinishPortfolio, StartLevel, NoTimeForLevel, StartNode, EndLevel, FinishBeam, Bootstrap,
       StartIteration, LeaveAlns, FinishAlns, StartFallback, FallbackReturns, GiveUp, Call, Answer, Returns
  <2> QED
    BY <1>0, <2>1 DEF OutcomeTyped
<1>5. budgetExhausted' \in BOOLEAN
  <2>1. CASE NoTimeForLevel \/ EndLevel \/ LeaveAlns
    BY <2>1, Zenon DEF NoTimeForLevel, EndLevel, LeaveAlns
  <2>2. CASE ~NoTimeForLevel /\ ~EndLevel /\ ~LeaveAlns
    <3>1. budgetExhausted' = budgetExhausted
      BY <2>2 DEF Next, vars, Portfolio, Beam, Alns, RunReturns, Done, StartCandidate,
         FinishPortfolio, StartLevel, StartNode, FinishBeam, Bootstrap, StartIteration,
         FinishAlns, StartFallback, FallbackReturns, GiveUp, Answer, CandidateSucceeds,
         CandidateEnds, NodeSucceeds, NodeEnds, IterationSucceeds, IterationEnds
    <3> QED
      BY <1>0, <3>1 DEF OutcomeTyped
  <2> QED
    BY <2>1, <2>2
<1>6. late' \in BOOLEAN
  <2>0. late \in BOOLEAN
    BY <1>0 DEF OutcomeTyped
  <2>1. CASE RunReturns \/ FallbackReturns
    BY <2>1, RunCounted, Zenon DEF Returns
  <2>2. CASE ~RunReturns /\ ~FallbackReturns
    BY <2>0, <2>2, OutcomesFixed
  <2> QED
    BY <2>1, <2>2
<1> QED
  BY <1>1, <1>2, <1>3, <1>4, <1>5, <1>6 DEF OutcomeTyped

\* Every step keeps the type invariant.
LEMMA TypeStep ==
    ASSUME IInv, [Next]_vars
    PROVE  TypeOK'
BY ProgressStep, PlansStep, OutcomeStep DEF TypeOK

-----------------------------------------------------------------------------
\* Each search keeps to its phases.
LEMMA PhasesStep ==
    ASSUME IInv, [Next]_vars
    PROVE  Phases'
<1>0. /\ TypeOK /\ Phases /\ request' = request
      /\ Is("portfolio")' = Is("portfolio") /\ Is("beam")' = Is("beam") /\ Is("alns")' = Is("alns")
  BY RequestFixed DEF IInv, Is
<1>1. pc' = "await" => call'.plan \in Plans'
  BY <1>0, CallStep DEF Plans
<1>2. (pc' = "done" <=> answer'.kind # "none") /\ (pc' # "done" => answer' = NoAnswer)
  <2>1. CASE FinishPortfolio \/ FinishBeam \/ FinishAlns \/ GiveUp
    BY <1>0, <2>1, Answering, AnswerSays DEF IInv
  <2>2. CASE ~FinishPortfolio /\ ~FinishBeam /\ ~FinishAlns /\ ~GiveUp
    <3>1. answer' = answer /\ (pc' = "done" <=> pc = "done")
      BY <2>2 DEF Next, vars, Portfolio, Beam, Alns, RunReturns, Done, StartCandidate,
         StartLevel, NoTimeForLevel, StartNode, EndLevel, Bootstrap, StartIteration,
         LeaveAlns, StartFallback, FallbackReturns, Call, CandidateSucceeds, CandidateEnds,
         NodeSucceeds, NodeEnds, IterationSucceeds, IterationEnds
    <3> QED
      BY <1>0, <3>1 DEF Phases
  <2> QED
    BY <2>1, <2>2
<1>3. /\ index \in Nat /\ runs \in Nat /\ node \in Nat /\ Candidates \in Nat /\ Depth \in Nat
      /\ Iterations \in Nat /\ index' \in Nat /\ runs' \in Nat
  <2>1. TypeOK'
    BY TypeStep
  <2>2. index' \in Nat
    BY <2>1, Constants DEF TypeOK, ProgressTyped
  <2> QED
    BY <1>0, <2>1, <2>2, Numbers, Constants DEF TypeOK, OutcomeTyped
<1>4. CASE Is("portfolio")
  <2>0. ~Is("beam") /\ ~Is("alns")
    BY <1>4 DEF Is
  <2>1. CASE StartCandidate
    BY <1>0, <1>1, <1>2, <1>3, <1>4, <2>0, <2>1 DEF Phases, StartCandidate, Call, InLevel
  <2>2. CASE FinishPortfolio
    <3>1. pc' = "done" /\ UNCHANGED <<index, runs>> /\ pc = "next"
      BY <2>2, Answering, AnswerSays DEF history, IInv, FinishPortfolio
    <3> QED
      BY <1>0, <1>1, <1>2, <1>3, <1>4, <2>0, <3>1 DEF Phases, InLevel
  <2>3. CASE RunReturns
    <3>1. index' = index + 1 /\ pc' = "next" /\ pc = "await"
      BY <1>4, <2>0, <2>3, ReturnOf DEF CandidateSucceeds, CandidateEnds
    <3>2. runs' = runs
      BY <2>3, RunCounted
    <3> QED
      BY <1>0, <1>1, <1>2, <1>3, <1>4, <2>0, <3>1, <3>2 DEF Phases, InLevel
  <2>4. CASE UNCHANGED vars
    BY <1>0, <1>1, <1>2, <1>4, <2>0, <2>4 DEF Phases, InLevel, vars, history
  <2> QED
    BY <1>4, <2>1, <2>2, <2>3, <2>4, StepOf
<1>5. CASE Is("beam")
  <2>0. ~Is("portfolio") /\ ~Is("alns")
    BY <1>5 DEF Is
  <2>1. CASE StartLevel
    <3>1. ~budgetExhausted
      BY <2>1 DEF StartLevel, IInv, TimeKept
    <3> QED
      BY <1>0, <1>1, <1>2, <1>3, <1>5, <2>0, <2>1, <3>1 DEF Phases, InLevel, StartLevel
  <2>2. CASE NoTimeForLevel
    BY <1>0, <1>1, <1>2, <1>3, <1>5, <2>0, <2>2 DEF Phases, InLevel, NoTimeForLevel
  <2>3. CASE StartNode
    BY <1>0, <1>1, <1>2, <1>3, <1>5, <2>0, <2>3 DEF Phases, InLevel, StartNode, Call
  <2>4. CASE EndLevel
    BY <1>0, <1>1, <1>2, <1>3, <1>5, <2>0, <2>4 DEF Phases, InLevel, EndLevel
  <2>5. CASE FinishBeam
    <3>1. pc' = "done" /\ UNCHANGED index /\ index = Depth
      BY <2>5, Answering, AnswerSays DEF IInv, FinishBeam
    <3> QED
      BY <1>0, <1>1, <1>2, <1>3, <1>5, <2>0, <3>1 DEF Phases, InLevel
  <2>6. CASE RunReturns
    <3>1. index' = index /\ pc' = "level" /\ pc = "await"
      BY <1>5, <2>6, ReturnOf DEF NodeSucceeds, NodeEnds
    <3>2. budgetExhausted' = budgetExhausted
      BY <2>6, RunCounted
    <3> QED
      BY <1>0, <1>1, <1>2, <1>3, <1>5, <2>0, <3>1, <3>2 DEF Phases, InLevel
  <2>7. CASE UNCHANGED vars
    BY <1>0, <1>1, <1>2, <1>5, <2>0, <2>7 DEF Phases, InLevel, vars, beam
  <2> QED
    BY <1>5, <2>1, <2>2, <2>3, <2>4, <2>5, <2>6, <2>7, StepOf
<1>6. CASE Is("alns")
  <2>0. ~Is("portfolio") /\ ~Is("beam")
    BY <1>6 DEF Is
  <2>1. CASE Bootstrap
    BY <1>0, <1>1, <1>2, <1>3, <1>6, <2>0, <2>1 DEF Phases, InLevel, Bootstrap, Call
  <2>2. CASE StartIteration
    <3>1. /\ pc = "next" /\ pc' = "await" /\ runs' = runs + 1 /\ index' = index /\ index # Iterations
      BY <2>2 DEF StartIteration, Call, AlnsOver
    <3>2. index < Iterations
      BY <1>0, <1>3, <1>6, <2>0, <3>1 DEF TypeOK, ProgressTyped
    <3> QED
      BY <1>0, <1>1, <1>2, <1>3, <1>6, <2>0, <3>1, <3>2 DEF Phases, InLevel
  <2>3. CASE LeaveAlns
    <3>1. /\ pc = "next" /\ pc' = "finish" /\ UNCHANGED <<runs, index, best, now, timedOut>>
          /\ \/ index = Iterations
             \/ Remaining < MinIteration
             \/ streak >= MaxStreak
      BY <2>3 DEF LeaveAlns, AlnsOver, history, counts
    <3>2. Remaining' = Remaining
      BY <3>1 DEF Remaining
    <3>3. streak >= MaxStreak => timedOut > 0
      <4>1. streak > 0 => timedOut > 0
        BY <1>0, <1>6 DEF IInv, Streaks
      <4>2. streak \in Nat /\ MaxStreak \in Nat /\ MaxStreak > 1
        BY <1>0, Constants, Numbers
      <4> QED
        BY <4>1, <4>2
    <3> QED
      BY <1>0, <1>1, <1>2, <1>3, <1>6, <2>0, <3>1, <3>2, <3>3 DEF Phases, InLevel
  <2>4. CASE FinishAlns \/ GiveUp
    <3>1. pc' = "done" /\ UNCHANGED <<index, runs, now, timedOut>> /\ pc \in {"finish", "giveup"}
      BY <2>4, Answering, AnswerSays DEF IInv, FinishAlns, GiveUp, history, counts
    <3>2. Remaining' = Remaining
      BY <3>1 DEF Remaining
    <3> QED
      BY <1>0, <1>1, <1>2, <1>3, <1>6, <2>0, <3>1, <3>2 DEF Phases, InLevel
  <2>5. CASE StartFallback
    <3>1. /\ pc' = "fallback" /\ UNCHANGED <<index, best, now, timedOut>> /\ runs' = runs + 1
          /\ pc = "finish" /\ best = NoLayout
      BY <2>5 DEF StartFallback, Call, counts
    <3>2. Remaining' = Remaining
      BY <3>1 DEF Remaining
    <3> QED
      BY <1>0, <1>1, <1>2, <1>3, <1>6, <2>0, <3>1, <3>2 DEF Phases, InLevel
  <2>6. CASE FallbackReturns
    <3>1. /\ pc = "fallback" /\ UNCHANGED <<index, runs>>
          /\ \/ pc' = "finish" /\ best' \in 1..MaxRank
             \/ pc' = "giveup" /\ best' = best
      BY <2>6 DEF FallbackReturns, Returns
    <3>2. now' \in Nat /\ now' >= now /\ now \in Nat /\ timedOut' >= timedOut /\ timedOut' \in Nat /\ timedOut \in Nat
      BY <1>0, <2>6, CountsGrow, Numbers
    <3>3. Remaining < MinIteration => Remaining' < MinIteration
      BY <3>2, RemainingShrinks
    <3>4. timedOut > 0 => timedOut' > 0
      BY <3>2
    <3> QED
      BY <1>0, <1>1, <1>2, <1>3, <1>6, <2>0, <3>1, <3>3, <3>4 DEF Phases, InLevel, NoLayout
  <2>7. CASE RunReturns
    <3>1. /\ pc = "await" /\ pc' = "next"
          /\ index' = IF runs = 1 THEN index ELSE index + 1
      BY <1>6, <2>0, <2>7, ReturnOf DEF IterationSucceeds, IterationEnds, Bootstrapping
    <3>2. runs' = runs
      BY <2>7, RunCounted
    <3> QED
      BY <1>0, <1>1, <1>2, <1>3, <1>6, <2>0, <3>1, <3>2 DEF Phases, InLevel
  <2>8. CASE UNCHANGED vars
    <3>1. UNCHANGED <<pc, index, runs, best, timedOut, now, call, answer>> /\ Remaining' = Remaining
      BY <2>8 DEF vars, history, counts, Remaining
    <3> QED
      BY <1>0, <1>1, <1>2, <1>6, <2>0, <3>1 DEF Phases, InLevel
  <2> QED
    BY <1>6, <2>1, <2>2, <2>3, <2>4, <2>5, <2>6, <2>7, <2>8, StepOf
<1> QED
  BY <1>0, <1>4, <1>5, <1>6, Kinds DEF Is

\* The records of a beam's levels are right after every step.
LEMMA LevelsStep ==
    ASSUME IInv, [Next]_vars
    PROVE  LevelsRecorded'
<1>0. /\ TypeOK /\ Phases /\ LevelsRecorded /\ request' = request /\ Is("beam")' = Is("beam")
      /\ index \in Nat /\ Depth \in Nat /\ node \in Nat /\ runs \in Nat /\ Len(levels) \in Nat
      /\ Len(frontier) * Branches \in Nat /\ Len(frontier) * Branches > 0
  BY RequestFixed, Numbers, Constants, RunsOfLevel DEF IInv, Is
<1> SUFFICES ASSUME Is("beam")
             PROVE  LevelsRecorded'
  BY <1>0 DEF LevelsRecorded
<1>1. CASE StartLevel
  <2>1. /\ pc = "next" /\ ~budgetExhausted /\ ~budgetExhausted' /\ pc' = "level" /\ node' = 0
        /\ UNCHANGED <<index, frontier, runs>>
        /\ levels' = Append(levels, [best |-> NoLayout, planned |-> Len(frontier) * Branches, begun |-> 0])
    BY <1>1 DEF StartLevel, IInv, TimeKept, history
  <2>2. Len(levels') = Len(levels) + 1 /\ \A i \in 1..Len(levels) : levels'[i] = levels[i]
    BY <1>0, <2>1, AppendProperties DEF TypeOK, PlansTyped
  <2>3. levels'[Len(levels) + 1] = [best |-> NoLayout, planned |-> Len(frontier) * Branches, begun |-> 0]
    BY <1>0, <2>1, AppendProperties DEF TypeOK, PlansTyped
  <2>4. Len(levels) = index /\ \A i \in 1..Len(levels) : levels[i].begun = levels[i].planned
    BY <1>0, <2>1 DEF LevelsRecorded, InLevel
  <2>5. index > 0 => runs > 0
    BY <1>0, <2>1 DEF LevelsRecorded, InLevel
  <2> HIDE <1>1
  <2> QED
    BY <1>0, <2>1, <2>2, <2>3, <2>4, <2>5 DEF LevelsRecorded, InLevel
<1>2. CASE NoTimeForLevel
  <2>1. /\ pc = "next" /\ pc' = "next" /\ budgetExhausted' = TRUE /\ index' = Depth /\ index < Depth
        /\ UNCHANGED levels
    BY <1>2 DEF NoTimeForLevel, beam
  <2> QED
    BY <1>0, <2>1 DEF LevelsRecorded, InLevel
<1>3. CASE StartNode
  <2>1. /\ pc = "level" /\ pc' = "await" /\ node' = node + 1 /\ runs' = runs + 1
        /\ node < Len(frontier) * Branches /\ UNCHANGED <<index, frontier, budgetExhausted>>
    BY <1>3 DEF StartNode, Call
  <2>2. InLevel /\ InLevel' /\ ~budgetExhausted
    BY <1>0, <2>1 DEF InLevel, Phases
  <2>3. /\ Len(levels') = Len(levels) /\ Len(levels) \in 1..Len(levels)
        /\ \A i \in 1..Len(levels) :
                 /\ levels'[i].best = levels[i].best
                 /\ levels'[i].planned = levels[i].planned
                 /\ levels'[i].begun = IF i = Len(levels) THEN levels[i].begun + 1 ELSE levels[i].begun
    BY <1>3, <2>2, BegunCounted, LevelUnderWay
  <2>4. \A i \in 1..(Len(levels) - 1) : levels'[i].begun = levels'[i].planned
    BY <1>0, <2>2, <2>3 DEF LevelsRecorded
  <2>5. levels'[Len(levels)].begun = node + 1 /\ levels'[Len(levels)].planned = Len(frontier) * Branches
    BY <1>0, <2>2, <2>3 DEF LevelsRecorded
  <2> QED
    BY <1>0, <2>1, <2>2, <2>3, <2>4, <2>5 DEF LevelsRecorded
<1>4. CASE EndLevel
  <2>1. /\ pc = "level" /\ pc' = "next" /\ index' = index + 1 /\ UNCHANGED <<levels, runs>>
        /\ budgetExhausted' = (budgetExhausted \/ node < Len(frontier) * Branches)
    BY <1>4 DEF EndLevel, history
  <2>2. InLevel /\ ~InLevel' /\ ~budgetExhausted
    BY <1>0, <2>1 DEF InLevel, Phases
  <2>3. Len(levels) = index + 1 /\ Len(levels) \in 1..Len(levels)
    BY <2>2, LevelUnderWay
  <2>4. ~budgetExhausted' => node = Len(frontier) * Branches
    <3>1. node <= Len(frontier) * Branches
      BY <1>0, <2>2 DEF LevelsRecorded
    <3>2. ~budgetExhausted' => ~(node < Len(frontier) * Branches)
      BY <2>1, Zenon
    <3> QED
      BY <1>0, <3>1, <3>2
  <2>5. ~budgetExhausted' => \A i \in 1..Len(levels) : levels[i].begun = levels[i].planned
    <3>1. \A i \in 1..(Len(levels) - 1) : levels[i].begun = levels[i].planned
      BY <1>0, <2>2 DEF LevelsRecorded
    <3>2. ~budgetExhausted' => levels[Len(levels)].begun = levels[Len(levels)].planned
      BY <1>0, <2>2, <2>4 DEF LevelsRecorded
    <3>3. \A i \in 1..Len(levels) : i = Len(levels) \/ i \in 1..(Len(levels) - 1)
      BY <1>0
    <3> QED
      BY <3>1, <3>2, <3>3
  <2>6. ~budgetExhausted' => runs > 0
    BY <1>0, <2>2, <2>4 DEF LevelsRecorded
  <2> QED
    BY <1>0, <2>1, <2>2, <2>3, <2>5, <2>6 DEF LevelsRecorded
<1>5. CASE FinishBeam
  <2>1. pc = "next" /\ pc' = "done" /\ UNCHANGED <<index, levels, budgetExhausted, runs>>
    BY <1>5, Answering, AnswerSays DEF FinishBeam, beam, history, IInv
  <2> QED
    BY <1>0, <2>1 DEF LevelsRecorded, InLevel
<1>6. CASE RunReturns
  <2>1. /\ pc = "await" /\ pc' = "level" /\ InLevel /\ InLevel'
        /\ UNCHANGED <<index, frontier, budgetExhausted, runs, node>>
    BY <1>0, <1>6, RunCounted, ReturnOf DEF InLevel, NodeSucceeds, NodeEnds
  <2>2. CASE NodeEnds
    BY <1>0, <2>1, <2>2 DEF LevelsRecorded, NodeEnds, beam
  <2>3. ASSUME NEW rank \in 1..MaxRank, NEW reported, NodeSucceeds(rank, reported)
        PROVE  LevelsRecorded'
    <3>1. /\ Len(levels') = Len(levels) /\ Len(levels) \in 1..Len(levels)
          /\ \A i \in 1..Len(levels) :
                 /\ levels'[i].planned = levels[i].planned
                 /\ levels'[i].begun = levels[i].begun
      BY <2>1, <2>3, ResultKept, LevelUnderWay
    <3> QED
      BY <1>0, <2>1, <3>1 DEF LevelsRecorded
  <2> QED
    BY <1>6, <2>2, <2>3, ReturnOf
<1>7. CASE UNCHANGED vars
  BY <1>0, <1>7 DEF LevelsRecorded, InLevel, vars, beam, history
<1> QED
  BY <1>1, <1>2, <1>3, <1>4, <1>5, <1>6, <1>7, StepOf

\* The last level with a result is the same while the results are.
LEMMA LastBestKept ==
    ASSUME NEW old, NEW new, NEW n \in Int, NEW rank, LastBest(old, n, rank),
           \A i \in 1..n : new[i].best = old[i].best
    PROVE  LastBest(new, n, rank)
<1>1. CASE rank = NoLayout /\ \A j \in 1..n : old[j].best = NoLayout
  BY <1>1 DEF LastBest
<1>2. CASE \E i \in 1..n : /\ rank = old[i].best /\ rank # NoLayout
                           /\ \A j \in (i + 1)..n : old[j].best = NoLayout
  <2>1. PICK i \in 1..n : /\ rank = old[i].best /\ rank # NoLayout
                          /\ \A j \in (i + 1)..n : old[j].best = NoLayout
    BY <1>2
  <2>2. \A j \in (i + 1)..n : j \in 1..n
    OBVIOUS
  <2>3. rank = new[i].best /\ \A j \in (i + 1)..n : new[j].best = NoLayout
    BY <2>1, <2>2
  <2> QED
    BY <2>1, <2>3 DEF LastBest
<1> QED
  BY <1>1, <1>2 DEF LastBest

\* The frontier stays that of the last level with a result.
LEMMA FrontierStep ==
    ASSUME IInv, [Next]_vars
    PROVE  FrontierOfLevels'
<1>0. /\ TypeOK /\ Phases /\ FrontierOfLevels /\ request' = request /\ Is("beam")' = Is("beam")
      /\ Len(levels) \in Nat
  BY RequestFixed, Numbers DEF IInv, Is
<1> SUFFICES ASSUME Is("beam")
             PROVE  FrontierOfLevels'
  BY <1>0 DEF FrontierOfLevels
<1>1. ASSUME UNCHANGED <<pc, levels, frontier, level, offered>>
      PROVE  FrontierOfLevels'
  BY <1>0, <1>1 DEF FrontierOfLevels, InLevel
<1>2. CASE StartLevel
  <2>1. /\ pc = "next" /\ pc' = "level" /\ level' = <<>>
        /\ UNCHANGED <<frontier, offered>>
        /\ levels' = Append(levels, [best |-> NoLayout, planned |-> Len(frontier) * Branches, begun |-> 0])
    BY <1>2 DEF StartLevel, history
  <2>2. Len(levels') = Len(levels) + 1 /\ \A i \in 1..Len(levels) : levels'[i] = levels[i]
    BY <1>0, <2>1, AppendProperties DEF TypeOK, PlansTyped
  <2>3. levels'[Len(levels) + 1] = [best |-> NoLayout, planned |-> Len(frontier) * Branches, begun |-> 0]
    BY <1>0, <2>1, AppendProperties DEF TypeOK, PlansTyped
  <2>4. ~InLevel /\ InLevel' /\ Len(levels') - 1 = Len(levels)
    BY <1>0, <2>1, <2>2 DEF InLevel
  <2>5. LastBest(levels, Len(levels), frontier[1].rank)
    BY <1>0, <2>4 DEF FrontierOfLevels
  <2>6. LastBest(levels', Len(levels), frontier[1].rank)
    BY <1>0, <2>2, <2>5 DEF LastBest
  <2>7. offered # NoLayout => \E i \in 1..Len(levels') : levels'[i].best # NoLayout
    BY <1>0, <2>2 DEF FrontierOfLevels
  <2> QED
    BY <1>0, <2>1, <2>2, <2>3, <2>4, <2>6, <2>7 DEF FrontierOfLevels
<1>3. CASE NoTimeForLevel
  BY <1>1, <1>3 DEF NoTimeForLevel, beam, history
<1>4. CASE StartNode
  <2>1. pc = "level" /\ pc' = "await" /\ UNCHANGED <<frontier, level, offered>>
    BY <1>4 DEF StartNode, Call
  <2>2. InLevel /\ InLevel'
    BY <1>0, <2>1 DEF InLevel
  <2>3. /\ Len(levels') = Len(levels) /\ Len(levels) \in 1..Len(levels)
        /\ \A i \in 1..Len(levels) : levels'[i].best = levels[i].best
    BY <1>4, <2>2, BegunCounted, LevelUnderWay
  <2>4. LastBest(levels', Len(levels) - 1, frontier[1].rank)
    <3>1. LastBest(levels, Len(levels) - 1, frontier[1].rank)
      BY <1>0, <2>2 DEF FrontierOfLevels
    <3>2. \A i \in 1..(Len(levels) - 1) : levels'[i].best = levels[i].best
      BY <1>0, <2>3
    <3> QED
      BY <1>0, <3>1, <3>2, LastBestKept
  <2>5. offered # NoLayout => \E i \in 1..Len(levels') : levels'[i].best # NoLayout
    BY <1>0, <2>3 DEF FrontierOfLevels
  <2>6. levels'[Len(levels')].best = levels[Len(levels)].best
    BY <2>3
  <2> QED
    BY <1>0, <2>1, <2>2, <2>3, <2>4, <2>5, <2>6 DEF FrontierOfLevels
<1>5. CASE EndLevel
  <2>1. pc = "level" /\ pc' = "next" /\ UNCHANGED <<levels, level, offered>>
    BY <1>5 DEF EndLevel, history
  <2>2. InLevel /\ ~InLevel'
    BY <1>0, <2>1 DEF InLevel
  <2>3. Len(levels) \in 1..Len(levels)
    BY <2>2, LevelUnderWay
  <2>4. LastBest(levels, Len(levels) - 1, frontier[1].rank)
    BY <1>0, <2>2 DEF FrontierOfLevels
  <2>5. frontier'[1] = IF level = <<>> THEN frontier[1] ELSE level[1]
    BY <1>5, FrontierKept
  <2>6. LastBest(levels, Len(levels), frontier'[1].rank)
    <3>1. CASE level = <<>>
      <4>1. levels[Len(levels)].best = NoLayout
        BY <1>0, <2>2, <3>1 DEF FrontierOfLevels
      <4>2. \A j \in 1..Len(levels) : j \in 1..(Len(levels) - 1) \/ j = Len(levels)
        BY <1>0
      <4>3. \A i \in 1..(Len(levels) - 1) : i \in 1..Len(levels) /\
                \A j \in (i + 1)..Len(levels) : j \in (i + 1)..(Len(levels) - 1) \/ j = Len(levels)
        BY <1>0
      <4> QED
        BY <2>4, <2>5, <3>1, <4>1, <4>2, <4>3, Zenon DEF LastBest
    <3>2. CASE level # <<>>
      <4>1. level \in Seq(Entries) /\ 1 \in 1..Len(level)
        BY <1>0, <3>2, EmptySeq, LenProperties DEF TypeOK, PlansTyped
      <4>2. level[1] \in Entries
        BY <4>1, ElementOfSeq
      <4>3. level[1].rank # NoLayout
        BY <4>2, Constants DEF Entries, NoLayout
      <4>4. level[1].rank = levels[Len(levels)].best
        BY <1>0, <2>2, <3>2 DEF FrontierOfLevels
      <4>5. (Len(levels) + 1)..Len(levels) = {}
        BY <1>0
      <4> QED
        BY <2>3, <2>5, <3>2, <4>3, <4>4, <4>5 DEF LastBest
    <3> QED
      BY <3>1, <3>2
  <2> QED
    BY <1>0, <2>1, <2>2, <2>6 DEF FrontierOfLevels
<1>6. CASE FinishBeam
  <2>1. pc = "next" /\ pc' = "done" /\ UNCHANGED <<levels, frontier, level, offered>>
    BY <1>6, Answering, AnswerSays DEF FinishBeam, beam, history, IInv
  <2> QED
    BY <1>0, <2>1 DEF FrontierOfLevels, InLevel
<1>7. CASE RunReturns
  <2>1. /\ pc = "await" /\ pc' = "level" /\ InLevel /\ InLevel'
        /\ UNCHANGED frontier
    BY <1>0, <1>7, RunCounted, ReturnOf DEF InLevel
  <2>2. CASE (TimesOut \/ Fails) /\ NodeEnds
    <3>1. UNCHANGED <<levels, level, offered>>
      BY <2>2 DEF NodeEnds, beam, TimesOut, Fails
    <3> QED
      BY <1>0, <2>1, <3>1 DEF FrontierOfLevels
  <2>3. ASSUME NEW rank \in 1..MaxRank, NEW reported, Succeeds(rank, reported), NodeSucceeds(rank, reported)
        PROVE  FrontierOfLevels'
    <3>0. rank \in Nat /\ rank > 0
      BY <2>3, Constants
    <3>1. /\ Len(levels') = Len(levels) /\ Len(levels) \in 1..Len(levels)
          /\ levels[Len(levels)].best \in 0..MaxRank
          /\ \A i \in 1..Len(levels) :
                levels'[i].best = IF i = Len(levels) THEN Larger(levels[i].best, rank) ELSE levels[i].best
          /\ Len(level') = Len(level) + 1 /\ level' \in Seq(Entries)
          /\ level'[1].rank = levels'[Len(levels)].best
          /\ \A i \in 1..Len(level') : level'[i].rank <= level'[1].rank
      BY <2>1, <2>3, ResultKept, LevelUnderWay
    <3>2. LastBest(levels', Len(levels) - 1, frontier[1].rank)
      <4>1. LastBest(levels, Len(levels) - 1, frontier[1].rank)
        BY <1>0, <2>1 DEF FrontierOfLevels
      <4>2. \A i \in 1..(Len(levels) - 1) : levels'[i].best = levels[i].best
        BY <1>0, <3>1
      <4> QED
        BY <1>0, <4>1, <4>2, LastBestKept
    <3>3. levels'[Len(levels)].best # NoLayout
      BY <3>0, <3>1, Constants DEF Larger, NoLayout
    <3>4. level' # <<>> /\ DOMAIN level' = 1..Len(level')
      <4>1. Len(level) \in Nat
        BY <1>0, Numbers
      <4> QED
        BY <3>1, <4>1, EmptySeq, LenProperties
    <3> QED
      BY <1>0, <2>1, <3>1, <3>2, <3>3, <3>4 DEF FrontierOfLevels
  <2> QED
    BY <1>7, <2>2, <2>3, ReturnOf
<1>8. CASE UNCHANGED vars
  BY <1>1, <1>8 DEF vars, beam, history
<1> QED
  BY <1>2, <1>3, <1>4, <1>5, <1>6, <1>7, <1>8, StepOf

\* A return adds to the accounts what it brings.
LEMMA ReturnAccounted ==
    ASSUME IInv, RunReturns \/ FallbackReturns, request' = request
    PROVE  Accounts'
<1>0. /\ TypeOK /\ Phases /\ Accounts
      /\ Is("portfolio")' = Is("portfolio") /\ Is("beam")' = Is("beam") /\ Is("alns")' = Is("alns")
  BY DEF IInv, Is
<1>1. /\ evaluated \in Nat /\ timedOut \in Nat /\ failed \in Nat /\ runs \in Nat
      /\ best \in Nat /\ offered \in Nat /\ MaxRank \in Nat
  BY <1>0, Numbers, Constants
<1>2. Ended = runs - 1 /\ Ended' = Ended + 1
  BY <1>1, RunCounted DEF Ended, Awaiting
<1>3. CountsAddUp'
  <2>1. CASE \E rank \in 1..MaxRank, reported \in BOOLEAN : Succeeds(rank, reported)
    <3>1. PICK rank \in 1..MaxRank, reported \in BOOLEAN : Succeeds(rank, reported)
      BY <2>1
    <3>2. /\ evaluated' = (IF Is("beam") THEN evaluated ELSE evaluated + 1) /\ failed' = failed
          /\ timedOut' = timedOut \/ timedOut' = timedOut + 1
          /\ Is("portfolio") => timedOut' = timedOut
      BY <3>1 DEF Succeeds
    <3> QED
      BY <1>0, <1>1, <1>2, <3>2, RunCounted DEF Accounts, CountsAddUp, Is
  <2>2. CASE TimesOut \/ Fails
    <3>1. /\ evaluated' = evaluated
          /\ \/ timedOut' = timedOut + 1 /\ failed' = failed
             \/ timedOut' = timedOut /\ failed' = failed + 1
      BY <2>2 DEF TimesOut, Fails
    <3> QED
      BY <1>0, <1>1, <1>2, <3>1, RunCounted DEF Accounts, CountsAddUp, Is
  <2> QED
    BY <2>1, <2>2, RunCounted
<1>4. Ended' > 0 => outcomes' # {}
  BY CountsGrow
<1>5. timedOut' > 0 <=> "timeout" \in outcomes' \/ (~Is("portfolio")' /\ "reported" \in outcomes')
  <2>1. CASE \E rank \in 1..MaxRank, reported \in BOOLEAN : Succeeds(rank, reported)
    <3>1. PICK rank \in 1..MaxRank, reported \in BOOLEAN : Succeeds(rank, reported)
      BY <2>1
    <3>2. CASE reported
      <4>1. outcomes' = outcomes \cup {"reported"}
            /\ timedOut' = IF Is("portfolio") THEN timedOut ELSE timedOut + 1
        BY <3>1, <3>2 DEF Succeeds
      <4> QED
        BY <1>0, <1>1, <4>1 DEF Accounts
    <3>3. CASE ~reported
      <4>1. outcomes' = outcomes \cup {"ok"} /\ timedOut' = timedOut
        BY <3>1, <3>3 DEF Succeeds
      <4> QED
        BY <1>0, <1>1, <4>1 DEF Accounts
    <3> QED
      BY <3>2, <3>3
  <2>2. CASE TimesOut
    BY <1>0, <1>1, <2>2 DEF Accounts, TimesOut
  <2>3. CASE Fails
    BY <1>0, <1>1, <2>3 DEF Accounts, Fails
  <2> QED
    BY <2>1, <2>2, <2>3, RunCounted
<1>6. offered' # NoLayout <=> outcomes' \cap {"ok", "reported"} # {}
  <2>1. CASE \E rank \in 1..MaxRank, reported \in BOOLEAN : Succeeds(rank, reported)
    <3>1. PICK rank \in 1..MaxRank, reported \in BOOLEAN : Succeeds(rank, reported)
      BY <2>1
    <3>2. offered' = Larger(offered, rank)
      BY <3>1 DEF Succeeds
    <3>3. outcomes' = outcomes \cup {"reported"} \/ outcomes' = outcomes \cup {"ok"}
      BY <3>1 DEF Succeeds
    <3>4. offered' # NoLayout
      BY <1>1, <3>1, <3>2 DEF Larger, NoLayout
    <3> QED
      BY <3>3, <3>4
  <2>2. CASE TimesOut \/ Fails
    <3>1. offered' = offered
          /\ (outcomes' = outcomes \cup {"timeout"} \/ outcomes' = outcomes \cup {"failure"})
      BY <2>2 DEF TimesOut, Fails
    <3> QED
      BY <1>0, <3>1 DEF Accounts
  <2> QED
    BY <2>1, <2>2, RunCounted
<1>7. ~Is("beam") => best' = offered'
  <2> SUFFICES ASSUME ~Is("beam")
               PROVE  best' = offered'
    OBVIOUS
  <2>1. best = offered
    BY <1>0 DEF Accounts
  <2>2. CASE RunReturns
    <3>1. \/ \E rank \in 1..MaxRank : best' = Larger(best, rank) /\ offered' = Larger(offered, rank)
          \/ best' = best /\ offered' = offered
      BY <2>2, Kinds, <1>0, ReturnOf DEF CandidateSucceeds, CandidateEnds, IterationSucceeds,
         IterationEnds, Succeeds, TimesOut, Fails, Is
    <3> QED
      BY <2>1, <3>1
  <2>3. CASE FallbackReturns
    <3>1. best = NoLayout
      BY <1>0, <2>3 DEF Phases, FallbackReturns
    <3>2. \/ \E rank \in 1..MaxRank : best' = rank /\ offered' = Larger(offered, rank)
          \/ best' = best /\ offered' = offered
      BY <2>3 DEF FallbackReturns, Succeeds, TimesOut, Fails
    <3> QED
      BY <1>1, <2>1, <3>1, <3>2 DEF Larger, NoLayout
  <2> QED
    BY <2>2, <2>3
<1> QED
  BY <1>0, <1>3, <1>4, <1>5, <1>6, <1>7 DEF Accounts

\* The accounts of a search are right after every step.
LEMMA AccountsStep ==
    ASSUME IInv, [Next]_vars
    PROVE  Accounts'
<1>0. /\ TypeOK /\ Phases /\ Accounts /\ request' = request
      /\ Is("portfolio")' = Is("portfolio") /\ Is("beam")' = Is("beam") /\ runs \in Nat
  BY RequestFixed, Numbers DEF IInv, Is
<1>1. CASE RunReturns \/ FallbackReturns
  BY <1>0, <1>1, ReturnAccounted
<1>2. CASE ~RunReturns /\ ~FallbackReturns
  <2>1. /\ UNCHANGED <<best, offered, timedOut, failed, outcomes>>
        /\ evaluated' = IF StartNode THEN evaluated + 1 ELSE evaluated
    BY <1>2, OutcomesFixed
  <2>2. Ended' = Ended
    <3>1. CASE StartCandidate \/ StartNode \/ Bootstrap \/ StartIteration \/ StartFallback
      <4>1. ~Awaiting /\ Awaiting' /\ runs' = runs + 1
        BY <3>1 DEF StartCandidate, StartNode, Bootstrap, StartIteration, StartFallback, Call, Awaiting
      <4> QED
        BY <1>0, <4>1 DEF Ended
    <3>2. CASE FinishPortfolio \/ FinishBeam \/ FinishAlns \/ GiveUp
      <4>1. pc \in {"next", "finish", "giveup"} /\ pc' = "done" /\ runs' = runs
        BY <1>0, <3>2, Answering, AnswerSays DEF history, IInv, FinishPortfolio, FinishBeam, FinishAlns, GiveUp
      <4> QED
        BY <4>1 DEF Ended, Awaiting
    <3>3. CASE StartLevel \/ NoTimeForLevel \/ EndLevel \/ LeaveAlns \/ UNCHANGED vars
      <4>1. runs' = runs /\ (Awaiting' <=> Awaiting)
        BY <3>3 DEF StartLevel, NoTimeForLevel, EndLevel, LeaveAlns, vars, history, Awaiting
      <4> QED
        BY <4>1 DEF Ended
    <3> QED
      BY <1>2, <3>1, <3>2, <3>3 DEF Next, Portfolio, Beam, Alns, Done
  <2>3. StartNode => Is("beam") /\ runs' = runs + 1
    BY <1>0 DEF StartNode, Call, Phases
  <2>4. Is("beam") => runs' = IF StartNode THEN runs + 1 ELSE runs
    <3> SUFFICES ASSUME Is("beam"), ~StartNode
                 PROVE  runs' = runs
      BY <2>3
    <3>1. ~StartCandidate /\ ~Bootstrap /\ ~StartIteration /\ ~StartFallback
      BY <1>0 DEF StartCandidate, Bootstrap, StartIteration, StartFallback, Phases, Is
    <3>2. CASE FinishPortfolio \/ FinishBeam \/ FinishAlns \/ GiveUp
      BY <1>0, <3>2, Answering, AnswerSays DEF history
    <3>3. CASE StartLevel \/ NoTimeForLevel \/ EndLevel \/ LeaveAlns \/ UNCHANGED vars
      BY <3>3 DEF StartLevel, NoTimeForLevel, EndLevel, LeaveAlns, vars, history
    <3> QED
      BY <1>2, <3>1, <3>2, <3>3 DEF Next, Portfolio, Beam, Alns, Done
  <2>5. CountsAddUp'
    BY <1>0, <2>1, <2>2, <2>3, <2>4 DEF Accounts, CountsAddUp, Is
  <2> QED
    BY <1>0, <2>1, <2>2, <2>5 DEF Accounts
<1> QED
  BY <1>1, <1>2

\* The streak of timeouts is counted through every step.
LEMMA StreaksStep ==
    ASSUME IInv, [Next]_vars
    PROVE  Streaks'
<1>0. /\ TypeOK /\ Phases /\ Streaks /\ request' = request /\ Is("alns")' = Is("alns")
      /\ streak \in Nat /\ silent \in Nat /\ timedOut \in Nat /\ runs \in Nat /\ index \in Nat
      /\ MaxStreak \in Nat /\ MaxStreak > 1
  BY RequestFixed, Numbers, Constants DEF IInv, Is
<1> SUFFICES ASSUME Is("alns")
             PROVE  Streaks'
  BY <1>0 DEF Streaks
<1>1. CASE Bootstrap
  <2>1. pc = "bootstrap" /\ pc' = "await" /\ UNCHANGED <<index, streak, silent, timedOut>> /\ runs = 0
    BY <1>0, <1>1 DEF Bootstrap, Call, alns, counts, Phases
  <2> QED
    BY <1>0, <2>1 DEF Streaks
<1>2. CASE StartIteration
  <2>1. pc = "next" /\ pc' = "await" /\ UNCHANGED <<index, streak, silent, timedOut>>
        /\ runs' = runs + 1 /\ runs = index + 1 /\ ~(index > 0 /\ streak >= MaxStreak)
    BY <1>0, <1>2 DEF StartIteration, AlnsOver, Call, alns, counts, Phases
  <2>2. streak < MaxStreak
    BY <1>0, <2>1 DEF Streaks
  <2> QED
    BY <1>0, <2>1, <2>2 DEF Streaks
<1>3. CASE LeaveAlns
  BY <1>0, <1>3 DEF Streaks, LeaveAlns, alns, counts, history
<1>4. CASE FinishAlns \/ GiveUp
  <2>1. pc \in {"finish", "giveup"} /\ pc' = "done" /\ UNCHANGED <<index, runs, streak, silent, timedOut>>
    BY <1>4, Answering, AnswerSays DEF IInv, FinishAlns, GiveUp, history, counts, alns
  <2> QED
    BY <1>0, <2>1 DEF Streaks
<1>5. CASE StartFallback
  <2>1. pc = "finish" /\ pc' = "fallback" /\ UNCHANGED <<index, streak, silent, timedOut>>
    BY <1>5 DEF StartFallback, Call, alns, counts
  <2> QED
    BY <1>0, <2>1 DEF Streaks
<1>6. CASE FallbackReturns
  <2>1. /\ pc = "fallback" /\ UNCHANGED <<index, streak, runs>>
        /\ \/ pc' = "finish" /\ silent' = 0
           \/ pc' = "giveup" /\ silent' \in {0, silent + 1}
    BY <1>6 DEF FallbackReturns, Returns, alns, Succeeds, TimesOut, Fails
  <2>2. timedOut' \in Nat /\ timedOut' >= timedOut
    BY <1>6, CountsGrow
  <2> QED
    BY <1>0, <2>1, <2>2 DEF Streaks
<1>7. CASE RunReturns
  <2>1. /\ pc = "await" /\ pc' = "next" /\ ~Is("beam")
        /\ index' = IF runs = 1 THEN index ELSE index + 1
        /\ \/ streak' = 0 /\ silent' = 0
           \/ streak' = streak + 1 /\ silent' = silent + 1 /\ timedOut' = timedOut + 1
    BY <1>7, ReturnOf DEF IterationSucceeds, IterationEnds, Succeeds, TimesOut, Fails, StreakAfter,
       Bootstrapping, Is
  <2>2. timedOut' \in Nat /\ runs' = runs
    BY <1>7, CountsGrow, RunCounted
  <2>3. streak < MaxStreak /\ (runs <= 1 => streak = 0) /\ runs > 0 /\ silent <= streak
    BY <1>0, <2>1 DEF Streaks, Phases
  <2> QED
    BY <1>0, <2>1, <2>2, <2>3 DEF Streaks
<1>8. CASE UNCHANGED vars
  BY <1>0, <1>8 DEF Streaks, vars, alns, counts, history
<1> QED
  BY <1>1, <1>2, <1>3, <1>4, <1>5, <1>6, <1>7, <1>8, StepOf

\* One run less to come in a level: its budget is given.
LEMMA OneRunLess ==
    ASSUME NEW m \in Nat, NEW b \in Nat, NEW t \in Nat, NEW u \in Nat,
           t + (m + 1) * b <= Deadline, u <= t + b
    PROVE  u + m * b <= Deadline
<1>1. (m + 1) * b = m * b + b /\ m * b \in Nat
  BY Z3
<1> QED
  BY <1>1, Constants

\* The budget of a level's runs is a slice, or its runs fit what is left.
LEMMA LevelBudgetFits ==
    ASSUME IInv, StartLevel
    PROVE  /\ runBudget' \in Nat /\ runBudget' >= MinSlice
           /\ runBudget' = MinSlice \/ now + (Len(frontier) * Branches) * runBudget' <= Deadline
<1> DEFINE F == Len(frontier) * Branches
           levelBudget == Larger(Remaining \div (Depth - index), MinSlice)
<1>0. TypeOK /\ ~TimeIsUp /\ MinSlice \in Nat /\ Deadline \in Nat /\ now \in Nat
  BY Constants, Numbers DEF IInv, StartLevel
<1>1. Depth - index \in Nat \ {0}
  <2>1. index \in Nat /\ Depth \in Nat
    BY <1>0, Constants, Numbers
  <2> QED
    BY <2>1 DEF StartLevel
<1>2. F \in Nat /\ F > 0
  BY <1>0, RunsOfLevel
<1>3. /\ levelBudget \in Nat
      /\ levelBudget = MinSlice \/ levelBudget <= Remaining
      /\ Remaining = Deadline - now
  BY <1>0, <1>1, SharesOfTime
<1>4. runBudget' = Larger(levelBudget \div F, MinSlice)
  BY DEF StartLevel
<1> HIDE DEF F, levelBudget
<1> DEFINE q == levelBudget \div F
<1>5. q \in Nat /\ F * q <= levelBudget /\ q <= levelBudget
  <2>1. levelBudget \in Nat
    BY <1>3
  <2> QED
    BY <1>2, <2>1, Division
<1>6. runBudget' = Larger(q, MinSlice)
  BY <1>4
<1> HIDE DEF q
<1>7. runBudget' \in Nat /\ runBudget' >= MinSlice
  BY <1>0, <1>5, <1>6 DEF Larger
<1>8. ASSUME q > MinSlice
      PROVE  runBudget' = q /\ now + F * q <= Deadline
  <2>1. levelBudget <= Deadline - now
    BY <1>0, <1>3, <1>5, <1>8
  <2>2. F * q \in Nat
    BY <1>2, <1>5, FactorAtMost
  <2> DEFINE p == F * q
  <2>3. p \in Nat /\ p <= levelBudget /\ levelBudget \in Nat
    BY <1>3, <1>5, <2>2
  <2> HIDE DEF p
  <2>4. now + p <= Deadline
    BY <1>0, <2>1, <2>3
  <2>5. runBudget' = q
    BY <1>6, <1>8 DEF Larger
  <2> QED
    BY <2>4, <2>5 DEF p
<1>9. ~(q > MinSlice) => runBudget' = MinSlice
  BY <1>0, <1>5, <1>6 DEF Larger
<1> QED
  BY <1>7, <1>8, <1>9 DEF F

\* The time a search gives out is time it has.
LEMMA TimeStep ==
    ASSUME IInv, [Next]_vars
    PROVE  TimeKept'
<1>0. /\ TypeOK /\ Phases /\ TimeKept /\ request' = request
      /\ Is("portfolio")' = Is("portfolio") /\ Is("beam")' = Is("beam") /\ Is("alns")' = Is("alns")
  BY RequestFixed DEF IInv, Is
<1>1. /\ Deadline \in Nat /\ MinSlice \in Nat /\ MinSlice > 0 /\ now \in Nat /\ now' \in Nat /\ now' >= now
      /\ index \in Nat /\ runs \in Nat /\ node \in Nat /\ runBudget \in Nat /\ call.budget \in Nat
      /\ Len(frontier) * Branches \in Nat
  <2>1. now' \in Nat /\ now' >= now
    <3>1. now \in Nat
      BY <1>0, Numbers
    <3>2. CASE RunReturns \/ FallbackReturns
      BY <3>2, CountsGrow
    <3>3. CASE ~RunReturns /\ ~FallbackReturns
      BY <3>1, <3>3, OutcomesFixed
    <3> QED
      BY <3>2, <3>3
  <2> QED
    BY <1>0, <2>1, Constants, Numbers, RunsOfLevel
<1>2. TimeIsUp => TimeIsUp'
  BY <1>1 DEF TimeIsUp
<1>3. RunsFit'
  BY CallStep
<1>4. CASE Is("portfolio")
  <2>0. ~Is("beam") /\ ~Is("alns")
    BY <1>4 DEF Is
  <2>1. CASE StartCandidate
    <3> DEFINE budget == Larger(Remaining \div (Candidates - index), MinSlice)
    <3>1. ~TimeIsUp /\ Candidates - index \in Nat \ {0}
      <4>1. index \in Nat /\ Candidates \in Nat
        BY <1>1, Constants
      <4> QED
        BY <2>1, <4>1 DEF StartCandidate
    <3>2. /\ Remaining = Deadline - now /\ budget \in Nat
          /\ budget = MinSlice \/ budget <= Remaining
      BY <1>0, <3>1, SharesOfTime
    <3>3. call'.budget = budget /\ UNCHANGED <<now, late, budgetExhausted>>
      BY <2>1 DEF StartCandidate, Call
    <3> HIDE DEF budget
    <3>4. now < Deadline
      BY <1>1, <3>1 DEF TimeIsUp
    <3>5. now' + call'.budget < Deadline + MinSlice /\ now' < Deadline + MinSlice
      BY <1>1, <3>2, <3>3, <3>4
    <3> QED
      BY <1>0, <1>2, <1>3, <2>0, <3>3, <3>5 DEF TimeKept, InLevel
  <2>2. CASE FinishPortfolio
    <3>1. pc' = "done" /\ UNCHANGED <<now, late, budgetExhausted>>
      BY <2>2, Answering, AnswerSays DEF IInv, history
    <3> QED
      BY <1>0, <1>2, <1>3, <2>0, <3>1 DEF TimeKept, InLevel
  <2>3. CASE RunReturns
    <3>1. pc = "await" /\ pc' = "next" /\ budgetExhausted' = budgetExhausted
          /\ (~late' => ~late /\ now' <= now + call.budget)
      BY <2>0, <2>3, ReturnOf, RunCounted, CountsGrow
    <3>2. ~late' => now' < Deadline + MinSlice
      BY <1>0, <1>1, <1>4, <3>1 DEF TimeKept
    <3> QED
      BY <1>0, <1>2, <1>3, <2>0, <3>1, <3>2 DEF TimeKept, InLevel
  <2>4. CASE UNCHANGED vars
    BY <1>0, <1>2, <1>3, <2>0, <2>4 DEF TimeKept, InLevel, vars, history
  <2> QED
    BY <1>4, <2>1, <2>2, <2>3, <2>4, StepOf
<1>5. CASE Is("beam")
  <2>0. ~Is("portfolio") /\ ~Is("alns")
    BY <1>5 DEF Is
  <2>1. CASE StartLevel
    <3>1. /\ pc' = "level" /\ node' = 0 /\ UNCHANGED <<now, late, budgetExhausted, frontier>>
          /\ ~TimeIsUp
      BY <2>1 DEF StartLevel, history
    <3>2. /\ runBudget' \in Nat /\ runBudget' >= MinSlice
          /\ runBudget' = MinSlice \/ now + (Len(frontier) * Branches) * runBudget' <= Deadline
      BY <2>1, LevelBudgetFits
    <3>3. Len(frontier') * Branches - node' + 0 = Len(frontier) * Branches
      BY <1>1, <3>1
    <3>4. now' < Deadline + MinSlice
      BY <1>1, <3>1 DEF TimeIsUp
    <3> QED
      BY <1>0, <1>2, <1>3, <2>0, <3>1, <3>2, <3>3, <3>4 DEF TimeKept, InLevel
  <2>2. CASE NoTimeForLevel
    BY <1>0, <1>2, <1>3, <2>0, <2>2 DEF TimeKept, InLevel, NoTimeForLevel, history
  <2>3. CASE StartNode
    <3>1. /\ pc = "level" /\ pc' = "await" /\ node' = node + 1 /\ ~TimeIsUp
          /\ UNCHANGED <<now, late, budgetExhausted, frontier, runBudget>> /\ call'.budget = runBudget
      BY <2>3 DEF StartNode, Call
    <3>2. now < Deadline
      BY <1>1, <3>1 DEF TimeIsUp
    <3>3. Len(frontier') * Branches - node' + 1 = Len(frontier) * Branches - node + 0
      BY <1>1, <3>1
    <3>4. InLevel /\ InLevel'
      BY <1>0, <1>5, <3>1 DEF InLevel
    <3>5. now' < Deadline + MinSlice
      BY <1>1, <3>1, <3>2
    <3>6. ~late => \/ runBudget = MinSlice
                   \/ now + (Len(frontier) * Branches - node + 0) * runBudget <= Deadline
      BY <1>0, <3>1, <3>4 DEF TimeKept
    <3>7. ~late' => \/ runBudget' = MinSlice
                    \/ now' + (Len(frontier') * Branches - node' + 1) * runBudget' <= Deadline
      BY <3>1, <3>3, <3>6
    <3>8. runBudget' >= MinSlice
      BY <1>0, <3>1, <3>4 DEF TimeKept
    <3> QED
      BY <1>0, <1>2, <1>3, <2>0, <3>1, <3>2, <3>4, <3>5, <3>7, <3>8 DEF TimeKept
  <2>4. CASE EndLevel
    <3>1. /\ pc = "level" /\ pc' = "next" /\ UNCHANGED <<now, late>>
          /\ budgetExhausted' = (budgetExhausted \/ node < Len(frontier) * Branches)
          /\ node = Len(frontier) * Branches \/ TimeIsUp
      BY <2>4 DEF EndLevel, history
    <3>2. budgetExhausted' => TimeIsUp
      <4>1. node < Len(frontier) * Branches => TimeIsUp
        BY <1>1, <3>1
      <4> QED
        BY <1>0, <3>1, <4>1, Zenon DEF TimeKept
    <3> QED
      BY <1>0, <1>2, <1>3, <2>0, <3>1, <3>2 DEF TimeKept, InLevel
  <2>5. CASE FinishBeam
    <3>1. pc' = "done" /\ UNCHANGED <<now, late, budgetExhausted>>
      BY <2>5, Answering, AnswerSays DEF IInv, history
    <3> QED
      BY <1>0, <1>2, <1>3, <2>0, <3>1 DEF TimeKept, InLevel
  <2>6. CASE RunReturns
    <3>1. /\ pc = "await" /\ pc' = "level"
          /\ UNCHANGED <<budgetExhausted, frontier, node, runBudget>>
          /\ ~late' => ~late /\ now' <= now + call.budget
      BY <1>5, <2>6, ReturnOf, RunCounted, CountsGrow
    <3>2. InLevel /\ InLevel'
      BY <1>0, <1>5, <3>1 DEF InLevel
    <3> DEFINE m == Len(frontier) * Branches - node
    <3>3. m \in Nat /\ m * runBudget \in Nat
      <4>1. node <= Len(frontier) * Branches
        BY <1>5, <3>2 DEF IInv, LevelsRecorded
      <4>2. m \in Nat
        BY <1>1, <4>1
      <4> QED
        BY <1>1, <4>2, FactorAtMost
    <3>4. ~late' => /\ now' <= now + runBudget /\ now < Deadline
                    /\ runBudget = MinSlice \/ now + (m + 1) * runBudget <= Deadline
      BY <1>0, <1>5, <3>1, <3>2 DEF TimeKept
    <3>5. ~late' => runBudget = MinSlice \/ now' + m * runBudget <= Deadline
      <4> SUFFICES ASSUME ~late', runBudget # MinSlice
                   PROVE  now' + m * runBudget <= Deadline
        OBVIOUS
      <4>1. now + (m + 1) * runBudget <= Deadline /\ now' <= now + runBudget
        BY <3>4
      <4> HIDE DEF m
      <4> QED
        BY <1>1, <3>3, <4>1, OneRunLess
    <3>6. m = Len(frontier') * Branches - node' + 0
      BY <1>1, <3>1
    <3> HIDE DEF m
    <3>7. ~late' => now' < Deadline + MinSlice
      BY <1>1, <3>3, <3>4, <3>5
    <3>8. runBudget' >= MinSlice
      BY <1>0, <3>1, <3>2 DEF TimeKept
    <3>9. ~late' => \/ runBudget' = MinSlice
                    \/ now' + (Len(frontier') * Branches - node' + 0) * runBudget' <= Deadline
      BY <3>1, <3>5, <3>6
    <3> QED
      BY <1>0, <1>2, <1>3, <2>0, <3>1, <3>2, <3>7, <3>8, <3>9 DEF TimeKept
  <2>7. CASE UNCHANGED vars
    BY <1>0, <1>2, <1>3, <2>0, <2>7 DEF TimeKept, InLevel, vars, beam, history
  <2> QED
    BY <1>5, <2>1, <2>2, <2>3, <2>4, <2>5, <2>6, <2>7, StepOf
<1>6. CASE Is("alns")
  <2>0. ~Is("portfolio") /\ ~Is("beam")
    BY <1>6 DEF Is
  <2>1. CASE Bootstrap
    <3> DEFINE baseline == Larger(Smaller(MinBaseline, Deadline), MinSlice)
               budget == Smaller(Larger((2 * Deadline) \div 3, baseline), Larger(Deadline, MinSlice))
    <3>1. budget \in Nat /\ budget <= Deadline
      BY BootstrapBudgetFits
    <3>2. /\ call'.budget = budget /\ pc = "bootstrap" /\ pc' = "await"
          /\ UNCHANGED <<now, late, budgetExhausted>>
      BY <2>1 DEF Bootstrap, Call
    <3> HIDE DEF budget
    <3>3. ~late => now = 0
      BY <1>0, <1>6, <3>2 DEF TimeKept
    <3>4. ~late' => now' + call'.budget <= Deadline /\ now' <= Deadline /\ now' <= 2 * Deadline
      BY <1>1, <3>1, <3>2, <3>3
    <3> QED
      BY <1>0, <1>2, <1>3, <2>0, <3>2, <3>4 DEF TimeKept, InLevel
  <2>2. CASE StartIteration
    <3>1. /\ call'.budget = IterationBudget /\ pc = "next" /\ pc' = "await"
          /\ UNCHANGED <<now, late, budgetExhausted>>
      BY <2>2 DEF StartIteration, Call
    <3>2. Remaining >= MinIteration
      <4>1. Remaining \in Nat /\ MinIteration \in Nat /\ ~(Remaining < MinIteration)
        BY <1>0, <2>2, Constants, RemainingType DEF StartIteration, AlnsOver
      <4> QED
        BY <4>1
    <3>3. IterationBudget \in Nat /\ now + IterationBudget <= Deadline
      BY <1>0, <3>2, IterationBudgetFits
    <3>4. now' + call'.budget <= Deadline /\ now' <= Deadline /\ now' <= 2 * Deadline
      BY <1>1, <3>1, <3>3
    <3> QED
      BY <1>0, <1>2, <1>3, <2>0, <3>1, <3>4 DEF TimeKept, InLevel
  <2>3. CASE LeaveAlns
    <3>1. /\ pc = "next" /\ pc' = "finish" /\ UNCHANGED <<now, late, runs, index>>
          /\ budgetExhausted' => TimeIsUp
      BY <2>3 DEF LeaveAlns, history
    <3> QED
      BY <1>0, <1>2, <1>3, <2>0, <3>1 DEF TimeKept, InLevel
  <2>4. CASE FinishAlns \/ GiveUp
    <3>1. pc' = "done" /\ UNCHANGED <<now, late, budgetExhausted, runs, index>>
      BY <2>4, Answering, AnswerSays DEF IInv, history
    <3> QED
      BY <1>0, <1>2, <1>3, <2>0, <3>1 DEF TimeKept, InLevel
  <2>5. CASE StartFallback
    <3>1. /\ pc = "finish" /\ pc' = "fallback" /\ UNCHANGED <<now, late, budgetExhausted, index>>
          /\ call'.budget = Deadline /\ runs' = runs + 1 /\ best = NoLayout
      BY <2>5 DEF StartFallback, Call
    <3>2. runs = index + 1
      BY <1>0, <1>6, <3>1 DEF Phases
    <3>3. ~late => now <= Deadline /\ now <= 2 * Deadline
      BY <1>0, <1>1, <1>6, <3>2 DEF TimeKept
    <3> QED
      BY <1>0, <1>2, <1>3, <2>0, <3>1, <3>3 DEF TimeKept, InLevel
  <2>6. CASE FallbackReturns
    <3>1. /\ pc = "fallback" /\ pc' \in {"finish", "giveup"}
          /\ UNCHANGED <<budgetExhausted, index>> /\ runs' = runs
          /\ (~late' => ~late /\ now' <= now + call.budget)
      BY <2>6, RunCounted, CountsGrow DEF FallbackReturns
    <3>2. runs = index + 2
      BY <1>0, <1>6, <3>1 DEF Phases
    <3>3. ~late' => now' <= 2 * Deadline
      BY <1>0, <1>1, <1>6, <3>1 DEF TimeKept
    <3>4. ~(runs' <= index' + 1)
      BY <1>1, <3>1, <3>2
    <3> QED
      BY <1>0, <1>2, <1>3, <2>0, <3>1, <3>3, <3>4 DEF TimeKept, InLevel
  <2>7. CASE RunReturns
    <3>1. /\ pc = "await" /\ pc' = "next" /\ budgetExhausted' = budgetExhausted
          /\ (~late' => ~late /\ now' <= now + call.budget)
      BY <2>0, <2>7, ReturnOf, RunCounted, CountsGrow
    <3>2. ~late' => now' <= Deadline /\ now' <= 2 * Deadline
      BY <1>0, <1>1, <1>6, <3>1 DEF TimeKept
    <3> QED
      BY <1>0, <1>2, <1>3, <2>0, <3>1, <3>2 DEF TimeKept, InLevel
  <2>8. CASE UNCHANGED vars
    BY <1>0, <1>2, <1>3, <2>0, <2>8 DEF TimeKept, InLevel, vars, history
  <2> QED
    BY <1>6, <2>1, <2>2, <2>3, <2>4, <2>5, <2>6, <2>7, <2>8, StepOf
<1> QED
  BY <1>0, <1>4, <1>5, <1>6, Kinds DEF Is

\* A level's runs get no more than the deadline each.
LEMMA LevelBudgetBounded ==
    ASSUME IInv, StartLevel
    PROVE  runBudget' \in Nat /\ runBudget' <= Deadline
<1>0. TypeOK /\ ~TimeIsUp /\ MinSlice \in Nat /\ Deadline \in Nat /\ now \in Nat /\ MinSlice <= Deadline
  BY Constants, Numbers DEF IInv, StartLevel
<1>1. runBudget' \in Nat /\ (runBudget' = MinSlice \/ now + (Len(frontier) * Branches) * runBudget' <= Deadline)
  BY LevelBudgetFits
<1>2. Len(frontier) * Branches \in Nat /\ Len(frontier) * Branches > 0
  BY <1>0, RunsOfLevel
<1>3. runBudget' <= (Len(frontier) * Branches) * runBudget' /\ (Len(frontier) * Branches) * runBudget' \in Nat
  <2> DEFINE f == Len(frontier) * Branches
             b == runBudget'
  <2>1. f \in Nat /\ f > 0 /\ b \in Nat
    BY <1>1, <1>2
  <2> HIDE DEF f, b
  <2>2. b <= f * b /\ f * b \in Nat
    BY <2>1, Z3
  <2> QED
    BY <2>2 DEF f, b
<1> DEFINE p == (Len(frontier) * Branches) * runBudget'
<1>4. p \in Nat /\ runBudget' <= p /\ (runBudget' = MinSlice \/ now + p <= Deadline)
  BY <1>1, <1>3
<1> HIDE DEF p
<1> QED
  BY <1>0, <1>1, <1>4

\* Whatever the runs do, a search gives out no time it does not have.
LEMMA OverrunStep ==
    ASSUME IInv, [Next]_vars
    PROVE  OverrunsKept'
<1>0. /\ TypeOK /\ Phases /\ OverrunsKept /\ request' = request
      /\ Is("portfolio")' = Is("portfolio") /\ Is("beam")' = Is("beam") /\ Is("alns")' = Is("alns")
  BY RequestFixed DEF IInv, Is
<1>1. /\ Deadline \in Nat /\ MinSlice \in Nat /\ MinSlice > 0 /\ MinSlice <= Deadline /\ Overrun \in Nat
      /\ now \in Nat /\ index \in Nat /\ runs \in Nat /\ runBudget \in Nat /\ call.budget \in Nat
  BY <1>0, Constants, Numbers
<1>2. CASE Is("portfolio")
  <2>0. ~Is("beam") /\ ~Is("alns")
    BY <1>2 DEF Is
  <2> USE DEF OverrunsKept, GivenWhatIsLeft, OverrunsDoNotAddUp
  <2>1. CASE StartCandidate
    <3> DEFINE budget == Larger(Remaining \div (Candidates - index), MinSlice)
    <3>1. ~TimeIsUp /\ Candidates - index \in Nat \ {0}
      <4>1. index \in Nat /\ Candidates \in Nat
        BY <1>1, Constants
      <4> QED
        BY <2>1, <4>1 DEF StartCandidate
    <3>2. budget \in Nat /\ (budget = MinSlice \/ budget <= Remaining) /\ Remaining = Deadline - now
      BY <1>0, <3>1, SharesOfTime
    <3>3. call'.budget = budget /\ now' = now /\ pc' = "await"
      BY <2>1 DEF StartCandidate, Call
    <3> HIDE DEF budget
    <3>4. call'.budget <= Larger(Remaining, MinSlice)
      BY <1>1, <3>2, <3>3 DEF Larger
    <3>5. Remaining' = Remaining /\ TimeIsUp' = TimeIsUp
      BY <3>3 DEF Remaining, TimeIsUp
    <3> QED
      BY <1>0, <1>2, <2>0, <3>1, <3>3, <3>4, <3>5 DEF InLevel
  <2>2. CASE FinishPortfolio
    <3>1. pc' = "done" /\ now' = now
      BY <2>2, Answering, AnswerSays DEF IInv, history
    <3> QED
      BY <1>0, <1>2, <2>0, <3>1 DEF InLevel
  <2>3. CASE RunReturns
    <3>1. pc = "await" /\ pc' = "next" /\ now' \in Nat /\ now' <= now + call.budget + Overrun
      BY <2>0, <2>3, ReturnOf, RunCounted, CountsGrow
    <3>2. now < Deadline /\ call.budget <= Larger(Deadline - now, MinSlice)
      <4>0. GivenWhatIsLeft
        BY <1>0
      <4> DEFINE most == Larger(Remaining, MinSlice)
      <4> HIDE DEF most
      <4>2. ~TimeIsUp /\ call.budget <= most
        BY <1>2, <2>0, <3>1, <4>0 DEF most
      <4>1. ~TimeIsUp /\ call.budget <= Larger(Remaining, MinSlice)
        BY <4>2 DEF most
      <4> QED
        BY <1>1, <4>1 DEF TimeIsUp, Remaining, Monus, Larger
    <3>3. now' < Deadline + MinSlice + Overrun
      BY <1>1, <3>1, <3>2 DEF Larger
    <3> QED
      BY <1>0, <1>2, <2>0, <3>1, <3>3 DEF InLevel
  <2>4. CASE UNCHANGED vars
    BY <1>0, <1>2, <2>0, <2>4 DEF InLevel, vars, history, TimeIsUp, Remaining
  <2> QED
    BY <1>2, <2>1, <2>2, <2>3, <2>4, StepOf
<1>3. CASE Is("beam")
  <2>0. ~Is("portfolio") /\ ~Is("alns")
    BY <1>3 DEF Is
  <2> USE DEF OverrunsKept, GivenWhatIsLeft, OverrunsDoNotAddUp
  <2>1. CASE StartLevel
    <3>1. pc' = "level" /\ now' = now /\ ~TimeIsUp
      BY <2>1 DEF StartLevel, history
    <3>2. runBudget' \in Nat /\ runBudget' <= Deadline
      BY <2>1, LevelBudgetBounded
    <3> DEFINE b == runBudget'
    <3>4. now < Deadline /\ b \in Nat
      BY <1>1, <3>1, <3>2 DEF TimeIsUp
    <3> HIDE DEF b
    <3>5. now < Deadline + b + Overrun
      BY <1>1, <3>4
    <3>3. now' < Deadline + runBudget' + Overrun
      BY <3>1, <3>5 DEF b
    <3> QED
      BY <1>0, <1>3, <2>0, <3>1, <3>2, <3>3
  <2>2. CASE NoTimeForLevel \/ EndLevel
    <3>1. pc' = "next" /\ now' = now /\ runBudget' = runBudget
      BY <2>2 DEF NoTimeForLevel, EndLevel, beam, history
    <3> QED
      BY <1>0, <1>3, <2>0, <3>1 DEF InLevel
  <2>3. CASE StartNode
    <3>1. /\ pc = "level" /\ pc' = "await" /\ ~TimeIsUp /\ now' = now /\ runBudget' = runBudget
          /\ call'.budget = runBudget
      BY <2>3 DEF StartNode, Call
    <3>2. ~TimeIsUp' /\ InLevel
      BY <1>0, <1>3, <3>1 DEF TimeIsUp, InLevel
    <3> QED
      BY <1>0, <1>3, <2>0, <3>1, <3>2
  <2>4. CASE FinishBeam
    <3>1. pc' = "done" /\ now' = now /\ runBudget' = runBudget
      BY <2>4, Answering, AnswerSays DEF IInv, beam, history
    <3> QED
      BY <1>0, <1>3, <2>0, <3>1 DEF InLevel
  <2>5. CASE RunReturns
    <3>1. /\ pc = "await" /\ pc' = "level" /\ now' \in Nat /\ now' <= now + call.budget + Overrun
          /\ runBudget' = runBudget
      BY <1>3, <2>5, ReturnOf, RunCounted, CountsGrow
    <3>2. now < Deadline /\ call.budget = runBudget
      BY <1>0, <1>1, <1>3, <3>1 DEF TimeIsUp
    <3>3. now' < Deadline + runBudget' + Overrun
      BY <1>1, <3>1, <3>2
    <3>4. InLevel
      BY <1>3, <3>1 DEF InLevel
    <3> QED
      BY <1>0, <1>3, <2>0, <3>1, <3>3, <3>4
  <2>6. CASE UNCHANGED vars
    BY <1>0, <1>3, <2>0, <2>6 DEF InLevel, vars, beam, history, TimeIsUp
  <2> QED
    BY <1>3, <2>1, <2>2, <2>3, <2>4, <2>5, <2>6, StepOf
<1>4. CASE Is("alns")
  <2>0. ~Is("portfolio") /\ ~Is("beam")
    BY <1>4 DEF Is
  <2> USE DEF OverrunsKept, GivenWhatIsLeft, OverrunsDoNotAddUp
  <2>1. CASE Bootstrap
    <3> DEFINE baseline == Larger(Smaller(MinBaseline, Deadline), MinSlice)
               budget == Smaller(Larger((2 * Deadline) \div 3, baseline), Larger(Deadline, MinSlice))
    <3>1. budget \in Nat /\ budget <= Deadline
      BY BootstrapBudgetFits
    <3>2. call'.budget = budget /\ pc = "bootstrap" /\ pc' = "await" /\ now' = now
      BY <2>1 DEF Bootstrap, Call
    <3> HIDE DEF budget
    <3>3. now' = 0
      BY <1>0, <3>2
    <3>4. ~TimeIsUp' /\ Remaining' = Deadline
      BY <1>1, <3>3 DEF TimeIsUp, Remaining, Monus, Larger
    <3> QED
      BY <1>0, <1>1, <1>4, <2>0, <3>1, <3>2, <3>3, <3>4 DEF InLevel, FellBack
  <2>2. CASE StartIteration
    <3>1. call'.budget = IterationBudget /\ pc = "next" /\ pc' = "await" /\ now' = now
      BY <2>2 DEF StartIteration, Call
    <3>2. Remaining >= MinIteration /\ MinIteration \in Nat /\ MinIteration >= MinSlice /\ Remaining \in Nat
      <4>1. Remaining \in Nat /\ MinIteration \in Nat /\ MinIteration >= MinSlice /\ ~(Remaining < MinIteration)
        BY <1>0, <2>2, Constants, RemainingType DEF StartIteration, AlnsOver
      <4> QED
        BY <4>1
    <3>3. IterationBudget \in Nat /\ now + IterationBudget <= Deadline
      BY <1>0, <3>2, IterationBudgetFits
    <3> DEFINE b == IterationBudget
    <3> HIDE DEF b
    <3>4. now < Deadline
      BY <1>1, <3>2 DEF Remaining, Monus, Larger
    <3>5. b \in Nat /\ now + b <= Deadline /\ call'.budget = b
      BY <3>1, <3>3 DEF b
    <3>6. ~TimeIsUp' /\ Remaining' = Deadline - now
      BY <1>1, <3>1, <3>4 DEF TimeIsUp, Remaining, Monus, Larger
    <3>7. call'.budget <= Remaining' /\ now' <= Deadline + Overrun
      BY <1>1, <3>1, <3>4, <3>5, <3>6
    <3> QED
      BY <1>0, <1>4, <2>0, <3>1, <3>6, <3>7 DEF InLevel, FellBack
  <2>3. CASE LeaveAlns
    <3>1. pc = "next" /\ pc' = "finish" /\ UNCHANGED <<now, runs, index>>
      BY <2>3 DEF LeaveAlns, history
    <3> QED
      BY <1>0, <1>4, <2>0, <3>1 DEF InLevel, FellBack
  <2>4. CASE FinishAlns \/ GiveUp
    <3>1. pc \in {"finish", "giveup"} /\ pc' = "done" /\ UNCHANGED <<now, runs, index>>
      BY <2>4, Answering, AnswerSays DEF IInv, history, FinishAlns, GiveUp
    <3> QED
      BY <1>0, <1>4, <2>0, <3>1 DEF InLevel, FellBack
  <2>5. CASE StartFallback
    <3>1. /\ pc = "finish" /\ pc' = "fallback" /\ UNCHANGED <<now, index>>
          /\ call'.budget = Deadline /\ runs' = runs + 1 /\ best = NoLayout
      BY <2>5 DEF StartFallback, Call
    <3>2. runs = index + 1
      BY <1>0, <1>4, <3>1 DEF Phases
    <3>3. now <= Deadline + Overrun /\ now <= 2 * Deadline + 2 * Overrun
      BY <1>0, <1>1, <1>4, <2>0, <3>2 DEF FellBack
    <3> QED
      BY <1>0, <1>1, <1>4, <2>0, <3>1, <3>2, <3>3 DEF InLevel, FellBack
  <2>6. CASE FallbackReturns
    <3>1. /\ pc = "fallback" /\ pc' \in {"finish", "giveup"} /\ UNCHANGED index /\ runs' = runs
          /\ now' \in Nat /\ now' <= now + call.budget + Overrun
      BY <2>6, RunCounted, CountsGrow DEF FallbackReturns
    <3>2. runs = index + 2
      BY <1>0, <1>4, <3>1 DEF Phases
    <3>3. now <= Deadline + Overrun /\ call.budget = Deadline
      BY <1>0, <3>1
    <3>4. now' <= 2 * Deadline + 2 * Overrun
      BY <1>1, <3>1, <3>3
    <3> QED
      BY <1>0, <1>1, <1>4, <2>0, <3>1, <3>2, <3>4 DEF InLevel, FellBack
  <2>7. CASE RunReturns
    <3>1. pc = "await" /\ pc' = "next" /\ now' \in Nat /\ now' <= now + call.budget + Overrun
      BY <2>0, <2>7, ReturnOf, RunCounted, CountsGrow
    <3>2. now < Deadline /\ call.budget <= Deadline - now
      <4>1. ~TimeIsUp /\ call.budget <= Remaining
        BY <1>0, <1>4, <2>0, <3>1
      <4> QED
        BY <1>1, <4>1 DEF TimeIsUp, Remaining, Monus, Larger
    <3>3. now' <= Deadline + Overrun /\ now' <= 2 * Deadline + 2 * Overrun
      BY <1>1, <3>1, <3>2
    <3> QED
      BY <1>0, <1>4, <2>0, <3>1, <3>3 DEF InLevel
  <2>8. CASE UNCHANGED vars
    BY <1>0, <1>4, <2>0, <2>8 DEF InLevel, vars, history, FellBack, TimeIsUp, Remaining
  <2> QED
    BY <1>4, <2>1, <2>2, <2>3, <2>4, <2>5, <2>6, <2>7, <2>8, StepOf
<1> QED
  BY <1>0, <1>2, <1>3, <1>4, Kinds DEF Is

-----------------------------------------------------------------------------
\* A search answers once.
LEMMA Answered ==
    ASSUME IInv, [Next]_vars
    PROVE  \/ UNCHANGED vars
           \/ pc' # "done" /\ answer' = NoAnswer
           \/ FinishPortfolio \/ FinishBeam \/ FinishAlns \/ GiveUp
<1>1. Phases'
  BY PhasesStep
<1>2. CASE pc = "done"
  BY <1>2 DEF Next, Portfolio, Beam, Alns, RunReturns, Done, StartCandidate, FinishPortfolio,
     StartLevel, NoTimeForLevel, StartNode, EndLevel, FinishBeam, Bootstrap, StartIteration,
     LeaveAlns, FinishAlns, StartFallback, FallbackReturns, GiveUp
<1>3. CASE pc # "done" /\ pc' = "done"
  BY <1>3 DEF Next, Portfolio, Beam, Alns, RunReturns, Done, StartCandidate, vars,
     StartLevel, NoTimeForLevel, StartNode, EndLevel, Bootstrap, StartIteration,
     LeaveAlns, StartFallback, FallbackReturns, Call
<1>4. CASE pc' # "done"
  BY <1>1, <1>4 DEF Phases
<1> QED
  BY <1>2, <1>3, <1>4

\* What a search knows when it answers.
LEMMA EndOfSearch ==
    ASSUME IInv, FinishPortfolio \/ FinishBeam \/ FinishAlns \/ GiveUp
    PROVE  /\ OutOfBudget => TimeIsUp
           /\ ~OutOfBudget => outcomes # {}
           /\ ~OutOfBudget /\ ~(timedOut > 0) => AllDone
<1>0. /\ TypeOK /\ Phases /\ Accounts
      /\ index \in Nat /\ runs \in Nat /\ Candidates \in Nat /\ Candidates > 0 /\ Depth \in Nat /\ Depth > 0
  BY Numbers, Constants DEF IInv
<1>1. Ended = runs
  BY DEF Ended, Awaiting, FinishPortfolio, FinishBeam, FinishAlns, GiveUp
<1>2. budgetExhausted => TimeIsUp
  BY DEF IInv, TimeKept
<1>3. CASE FinishPortfolio
  <2>1. Is("portfolio") /\ ~Is("beam") /\ runs = index /\ (index = Candidates \/ TimeIsUp)
    BY <1>0, <1>3 DEF FinishPortfolio, Phases, Is
  <2>2. index <= Candidates
    BY <1>0, <2>1 DEF TypeOK, ProgressTyped
  <2>3. (OutOfBudget => index < Candidates) /\ (~OutOfBudget => ~(index < Candidates))
    BY <2>1 DEF OutOfBudget
  <2>4. index = Candidates => AllDone
    BY <2>1 DEF AllDone
  <2>5. outcomes # {} \/ index = 0
    BY <1>0, <1>1, <2>1 DEF Accounts
  <2> QED
    BY <1>0, <2>1, <2>2, <2>3, <2>4, <2>5
<1>4. CASE FinishBeam
  <2>1. Is("beam") /\ ~Is("portfolio") /\ index = Depth /\ pc = "next"
    BY <1>4 DEF FinishBeam, Is
  <2>2. ~budgetExhausted => /\ Len(levels) = Depth
                            /\ \A i \in 1..Len(levels) : levels[i].begun = levels[i].planned
                            /\ runs > 0
    BY <1>0, <2>1 DEF IInv, LevelsRecorded, InLevel
  <2>3. DOMAIN levels = 1..Len(levels)
    BY <1>0, LenProperties DEF TypeOK, PlansTyped
  <2> QED
    BY <1>0, <1>1, <1>2, <2>1, <2>2, <2>3 DEF OutOfBudget, AllDone, Accounts
<1>5. CASE FinishAlns \/ GiveUp
  <2>1. Is("alns") /\ ~Is("portfolio") /\ ~Is("beam") /\ pc \in {"finish", "giveup"}
    BY <1>0, <1>5 DEF FinishAlns, GiveUp, Phases, Is
  <2>2. runs > 0 /\ (index = Iterations \/ Remaining < MinIteration \/ timedOut > 0)
    BY <1>0, <2>1 DEF Phases
  <2> QED
    BY <1>0, <1>1, <1>2, <2>1, <2>2 DEF OutOfBudget, AllDone, Accounts
<1> QED
  BY <1>3, <1>4, <1>5

\* The layout that is answered is the one that is promised.
LEMMA AnsweredRank ==
    ASSUME IInv, FinishPortfolio \/ FinishBeam \/ FinishAlns \/ GiveUp
    PROVE  \E rank \in 0..MaxRank :
              /\ Answer(rank)
              /\ ~Is("beam") => rank = offered
              /\ rank = NoLayout => offered = NoLayout
              /\ Is("beam") => LastBest(levels, Len(levels), rank)
<1>1. CASE FinishBeam
  <2>1. /\ Is("beam") /\ pc = "next" /\ Answer(frontier[1].rank) /\ frontier[1].rank \in 0..MaxRank
    BY <1>1, Answering DEF FinishBeam
  <2>2. /\ LastBest(levels, Len(levels), frontier[1].rank)
        /\ offered # NoLayout => \E i \in 1..Len(levels) : levels[i].best # NoLayout
    BY <2>1 DEF IInv, FrontierOfLevels, InLevel
  <2>3. frontier[1].rank = NoLayout => offered = NoLayout
    BY <2>2 DEF LastBest
  <2> QED
    BY <2>1, <2>2, <2>3
<1>2. CASE FinishPortfolio \/ FinishAlns \/ GiveUp
  <2>1. ~Is("beam")
    BY <1>2 DEF IInv, Phases, FinishPortfolio, FinishAlns, GiveUp, Is
  <2>2. best = offered /\ Answer(best) /\ best \in 0..MaxRank
    BY <1>2, <2>1, Answering DEF IInv, Accounts
  <2> QED
    BY <2>1, <2>2
<1> QED
  BY <1>1, <1>2

\* Every answer is what the search found, and its reason the true one.
LEMMA HonestStep ==
    ASSUME IInv, [Next]_vars
    PROVE  AnswerHonest' /\ ReasonHonest'
<1>1. CASE UNCHANGED vars
  <2>1. AnswerHonest /\ ReasonHonest
    BY DEF IInv
  <2>2. AnswerHonest'
    BY <1>1, <2>1 DEF AnswerHonest, AnswerIsBestOffered, LastLevelWins, ErrorMeansNothingFound, vars, beam, history, Is
  <2>3. AllDone' = AllDone /\ TimeIsUp' = TimeIsUp /\ Is("portfolio")' = Is("portfolio")
        /\ UNCHANGED <<answer, outcomes>>
    BY <1>1 DEF AllDone, TimeIsUp, Is, vars, beam, history, Remaining
  <2> QED
    BY <2>1, <2>2, <2>3 DEF ReasonHonest
<1>2. CASE pc' # "done" /\ answer' = NoAnswer
  BY <1>2 DEF AnswerHonest, AnswerIsBestOffered, LastLevelWins, ErrorMeansNothingFound, ReasonHonest, NoAnswer
<1>3. CASE FinishPortfolio \/ FinishBeam \/ FinishAlns \/ GiveUp
  <2>0. TypeOK /\ Accounts
    BY DEF IInv
  <2>1. PICK rank \in 0..MaxRank :
              /\ Answer(rank)
              /\ ~Is("beam") => rank = offered
              /\ rank = NoLayout => offered = NoLayout
              /\ Is("beam") => LastBest(levels, Len(levels), rank)
    BY <1>3, AnsweredRank
  <2>2. /\ UNCHANGED <<request, now, levels, offered, outcomes>>
        /\ answer'.rank = rank
        /\ rank # NoLayout => answer'.kind = "ok" /\ answer'.reason = Reason
        /\ rank = NoLayout =>
              /\ answer'.reason = "none"
              /\ answer'.kind = IF timedOut > 0 \/ OutOfBudget THEN "timeout" ELSE "internal"
    BY <2>0, <2>1, AnswerSays DEF beam, history
  <2>3. /\ AllDone' = AllDone /\ TimeIsUp' = TimeIsUp
        /\ Is("portfolio")' = Is("portfolio") /\ Is("beam")' = Is("beam")
    BY <2>0, <2>1, AnswerSays DEF AllDone, TimeIsUp, Is, beam, history, Remaining
  <2>4. /\ OutOfBudget => TimeIsUp
        /\ ~OutOfBudget => outcomes # {}
        /\ ~OutOfBudget /\ ~(timedOut > 0) => AllDone
    BY <1>3, EndOfSearch
  <2>5. AnswerHonest'
    <3>1. AnswerIsBestOffered'
      BY <2>1, <2>2, <2>3 DEF AnswerIsBestOffered
    <3>2. ErrorMeansNothingFound'
      BY <2>1, <2>2 DEF ErrorMeansNothingFound
    <3>3. LastLevelWins'
      <4> SUFFICES ASSUME answer'.kind = "ok", Is("beam")
                   PROVE  \E i \in DOMAIN levels :
                             /\ answer'.rank = levels[i].best
                             /\ \A j \in (i + 1)..Len(levels) : levels[j].best = NoLayout
        BY <2>2, <2>3 DEF LastLevelWins
      <4>1. rank # NoLayout
        BY <2>2
      <4>2. DOMAIN levels = 1..Len(levels)
        BY <2>0, LenProperties DEF TypeOK, PlansTyped
      <4> QED
        BY <2>1, <2>2, <4>1, <4>2 DEF LastBest
    <3> QED
      BY <3>1, <3>2, <3>3 DEF AnswerHonest
  <2>6. ReasonHonest'
    <3>1. answer'.kind = "ok" /\ answer'.reason = "none" =>
             ~(timedOut > 0) /\ ~OutOfBudget
      BY <2>2 DEF Reason
    <3>2. answer'.reason = "slice_timeout" => timedOut > 0
      BY <2>2 DEF Reason
    <3>3. answer'.reason = "time_budget_exhausted" => OutOfBudget
      BY <2>2 DEF Reason
    <3>4. answer'.kind = "timeout" => offered = NoLayout /\ (timedOut > 0 \/ OutOfBudget)
      BY <2>1, <2>2
    <3>5. answer'.kind = "internal" => offered = NoLayout /\ ~(timedOut > 0) /\ ~OutOfBudget
      BY <2>1, <2>2
    <3>6. /\ timedOut > 0 <=> "timeout" \in outcomes \/ (~Is("portfolio") /\ "reported" \in outcomes)
          /\ offered # NoLayout <=> outcomes \cap {"ok", "reported"} # {}
          /\ outcomes \subseteq {"ok", "reported", "timeout", "failure"}
      BY <2>0 DEF Accounts, TypeOK, OutcomeTyped
    <3>7. answer'.kind = "ok" /\ answer'.reason = "none" =>
             /\ AllDone'
             /\ "timeout" \notin outcomes'
             /\ Is("portfolio")' \/ "reported" \notin outcomes'
      BY <2>2, <2>3, <2>4, <3>1, <3>6
    <3>8. answer'.reason = "slice_timeout" => outcomes' \cap {"timeout", "reported"} # {}
      BY <2>2, <3>2, <3>6
    <3>9. answer'.reason = "time_budget_exhausted" => TimeIsUp'
      BY <2>3, <2>4, <3>3
    <3>10. answer'.kind = "timeout" => "timeout" \in outcomes' \/ TimeIsUp'
      BY <2>2, <2>3, <2>4, <3>4, <3>6
    <3>11. answer'.kind = "internal" => outcomes' = {"failure"}
      BY <2>2, <2>4, <3>5, <3>6
    <3> QED
      BY <3>7, <3>8, <3>9, <3>10, <3>11 DEF ReasonHonest
  <2> QED
    BY <2>5, <2>6
<1> QED
  BY <1>1, <1>2, <1>3, Answered

-----------------------------------------------------------------------------
(* The theorems. *)

\* Every step keeps the inductive invariant.
LEMMA StepIInv ==
    ASSUME IInv, [Next]_vars
    PROVE  IInv'
BY TypeStep, PhasesStep, LevelsStep, FrontierStep, AccountsStep, TimeStep, OverrunStep, StreaksStep, HonestStep DEF IInv

\* The inductive invariant holds in every state of every search.
THEOREM Invariance == Spec => []IInv
<1>1. Init => IInv
  BY InitIInv
<1>2. IInv /\ [Next]_vars => IInv'
  BY StepIInv
<1> QED
  BY <1>1, <1>2, PTL DEF Spec

\* The bookkeeping of the three searches is well-typed: a beam's frontier is
\* never empty nor wider than its width, and no index leaves its plan.
THEOREM TypeCorrect == Spec => []TypeOK
<1>1. IInv => TypeOK
  BY DEF IInv
<1> QED
  BY <1>1, Invariance, PTL

\* A portfolio and an ALNS search answer with the best layout of all their
\* runs, a beam with the best of its last level that had any, and an error is
\* answered only if no run had a layout.
THEOREM HonestAnswers == Spec => []AnswerHonest
<1>1. IInv => AnswerHonest
  BY DEF IInv
<1> QED
  BY <1>1, Invariance, PTL

\* What the telemetry and the timeout_reason say of a search is what happened
\* in it, and the counts account for every run.
THEOREM HonestTelemetry == Spec => []TelemetryHonest
<1>1. IInv => TelemetryHonest
  BY DEF IInv, Accounts, TelemetryHonest
<1> QED
  BY <1>1, Invariance, PTL

\* Whatever the runs take, no run but the fallback begins after the deadline, a
\* candidate gets no more than what is left or the minimum slice, an iteration no
\* more than what is left, and the overruns do not add up; if they all keep to
\* their budgets, so does the search.  No slice is too short, and a streak of
\* timeouts ends an ALNS search.
THEOREM KeptBudgets == Spec => []BudgetsKept
<1>1. ASSUME IInv
      PROVE  BudgetsKept
  <2>0. /\ TypeOK /\ Phases /\ TimeKept /\ OverrunsKept /\ Streaks
        /\ now \in Nat /\ runs \in Nat /\ index \in Nat /\ silent \in Nat /\ streak \in Nat
        /\ Deadline \in Nat /\ MinSlice \in Nat /\ MaxStreak \in Nat /\ call.budget \in Nat
    BY <1>1, Numbers, Constants DEF IInv
  <2>1. EndsInTime
    <3>1. Is("alns") => ~Is("beam") /\ ~Is("portfolio")
      BY DEF Is
    <3>2. Is("portfolio") \/ Is("beam") \/ Is("alns")
      BY <2>0, Kinds DEF Is
    <3>3. ~late /\ Is("alns") /\ pc = "await" => now <= Deadline
      BY <2>0 DEF TimeKept
    <3>4. ~late /\ Is("alns") /\ ~(runs > index + 1) => now <= Deadline
      BY <2>0 DEF TimeKept
    <3>5. ~late /\ Is("alns") => now <= 2 * Deadline
      BY <2>0 DEF TimeKept
    <3>6. ~late /\ (Is("portfolio") \/ Is("beam")) => now < Deadline + MinSlice
      BY <2>0 DEF TimeKept
    <3> QED
      BY <3>1, <3>2, <3>3, <3>4, <3>5, <3>6 DEF EndsInTime, FellBack
  <2>2. RunsFit
    BY <2>0 DEF TimeKept
  <2>3. StreakBounded
    BY <2>0 DEF Streaks, StreakBounded
  <2>4. OverrunsDoNotAddUp /\ GivenWhatIsLeft
    BY <2>0 DEF OverrunsKept
  <2> QED
    BY <2>1, <2>2, <2>3, <2>4 DEF BudgetsKept
<1> QED
  BY <1>1, Invariance, PTL

-----------------------------------------------------------------------------
(* The refinement. *)

\* What the abstract solver sees of a search: nothing, of a beam.
PromisedBest == IF Is("beam") THEN NoLayout ELSE best
PromisedAnswer == IF Is("beam") \/ answer.kind = "none" THEN [kind |-> "none", quality |-> NoLayout]
                  ELSE [kind |-> answer.kind, quality |-> answer.rank]

\* Before it answers, a search may only find better layouts.
LEMMA SearchGoesOn ==
    ASSUME IInv, [Next]_vars, pc' # "done", answer' = NoAnswer
    PROVE  Promised!Improve \/ UNCHANGED <<PromisedBest, PromisedAnswer>>
<1>0. /\ TypeOK /\ Phases /\ Accounts /\ Is("beam")' = Is("beam")
      /\ best \in Nat /\ best' \in 0..MaxRank /\ MaxRank \in Nat
  BY RequestFixed, TypeStep, Constants DEF IInv, Is, TypeOK, OutcomeTyped
<1>1. pc # "done" /\ answer = NoAnswer
  <2>1. pc = "done" => UNCHANGED vars
    BY <1>0 DEF Next, Portfolio, Beam, Alns, RunReturns, Done, StartCandidate, FinishPortfolio,
       StartLevel, NoTimeForLevel, StartNode, EndLevel, FinishBeam, Bootstrap, StartIteration,
       LeaveAlns, FinishAlns, StartFallback, FallbackReturns, GiveUp
  <2>2. pc # "done"
    BY <2>1 DEF vars
  <2> QED
    BY <1>0, <2>2 DEF Phases
<1>2. UNCHANGED PromisedAnswer /\ PromisedAnswer = [kind |-> "none", quality |-> NoLayout]
  BY <1>0, <1>1 DEF PromisedAnswer, NoAnswer
<1>3. CASE Is("beam") \/ best' = best
  BY <1>0, <1>2, <1>3 DEF PromisedBest
<1>4. CASE ~Is("beam") /\ best' # best
  <2>1. best' > best
    <3>1. CASE RunReturns
      <4>1. \/ \E rank \in 1..MaxRank : best' = Larger(best, rank)
            \/ best' = best
        BY <1>0, <1>4, <3>1, Kinds, ReturnOf DEF CandidateSucceeds, CandidateEnds, IterationSucceeds,
           IterationEnds, Is
      <4> QED
        BY <1>0, <1>4, <4>1 DEF Larger
    <3>2. CASE FallbackReturns
      <4>1. best = NoLayout /\ best' \in 1..MaxRank
        BY <1>0, <1>4, <3>2 DEF FallbackReturns, Phases
      <4> QED
        BY <1>0, <4>1 DEF NoLayout
    <3>3. RunReturns \/ FallbackReturns
      BY <1>4, OutcomesFixed
    <3> QED
      BY <3>1, <3>2, <3>3
  <2>2. best' \in 1..MaxRank
    BY <1>0, <2>1
  <2>3. PromisedBest' = best' /\ PromisedBest = best
    BY <1>0, <1>4 DEF PromisedBest
  <2> QED
    BY <1>2, <2>1, <2>2, <2>3 DEF Promised!Improve, Promised!NoAnswer, PromisedBest, PromisedAnswer, NoLayout
<1> QED
  BY <1>3, <1>4

\* An answer is the abstract solver's, of the best layout or of none.
LEMMA SearchAnswers ==
    ASSUME IInv, [Next]_vars, FinishPortfolio \/ FinishBeam \/ FinishAlns \/ GiveUp
    PROVE  \/ Promised!Succeed \/ Promised!GiveUp \/ Promised!Break
           \/ UNCHANGED <<PromisedBest, PromisedAnswer>>
<1>0. TypeOK /\ Phases /\ Accounts /\ Is("beam")' = Is("beam") /\ answer.kind = "none"
  BY RequestFixed, Answering DEF IInv, Is
<1>1. CASE Is("beam")
  BY <1>0, <1>1 DEF PromisedBest, PromisedAnswer
<1>2. CASE ~Is("beam")
  <2>1. PICK rank \in 0..MaxRank : Answer(rank) /\ rank = offered
    BY <1>2, AnsweredRank
  <2>2. rank = best /\ best' = best
    BY <1>0, <1>2, <2>1, AnswerSays DEF Accounts
  <2>3. /\ answer'.rank = rank
        /\ rank # NoLayout => answer'.kind = "ok"
        /\ rank = NoLayout => answer'.kind \in {"timeout", "internal"}
    BY <1>0, <2>1, AnswerSays
  <2>4. /\ PromisedBest = best /\ PromisedBest' = best
        /\ PromisedAnswer = [kind |-> "none", quality |-> NoLayout]
        /\ PromisedAnswer' = [kind |-> answer'.kind, quality |-> rank]
    BY <1>0, <1>2, <2>2, <2>3 DEF PromisedBest, PromisedAnswer
  <2>5. CASE rank # NoLayout
    <3>1. PromisedAnswer' = [kind |-> "ok", quality |-> best]
      BY <2>2, <2>3, <2>4, <2>5
    <3>2. Promised!Succeed
      BY <2>2, <2>4, <2>5, <3>1 DEF Promised!Succeed, Promised!NoAnswer, Promised!Ok, PromisedBest,
         PromisedAnswer, NoLayout
    <3> QED
      BY <3>2
  <2>6. CASE rank = NoLayout
    <3>1. \/ PromisedAnswer' = [kind |-> "timeout", quality |-> 0]
          \/ PromisedAnswer' = [kind |-> "internal", quality |-> 0]
      BY <2>3, <2>4, <2>6 DEF NoLayout
    <3>2. Promised!GiveUp \/ Promised!Break
      BY <2>2, <2>4, <2>6, <3>1 DEF Promised!GiveUp, Promised!Break, Promised!NoAnswer, Promised!Error,
         PromisedBest, PromisedAnswer, NoLayout
    <3> QED
      BY <3>2
  <2> QED
    BY <2>5, <2>6
<1> QED
  BY <1>1, <1>2

\* A portfolio and an ALNS search implement the abstract anytime solver: they
\* keep the best layout they are offered and answer with it.  A beam promises
\* nothing of the kind, and is mapped to a solver that does not answer.
THEOREM Implements == Spec => ImplementsAnytime
<1>1. Init => Promised!Init
  BY DEF Init, Promised!Init, Promised!NoAnswer, NoAnswer, NoLayout
<1>2. IInv /\ [Next]_vars => [Promised!Next]_(Promised!vars)
  <2> SUFFICES ASSUME IInv, [Next]_vars
               PROVE  [Promised!Next]_(Promised!vars)
    OBVIOUS
  <2>1. Promised!vars = <<PromisedBest, PromisedAnswer>>
        /\ Promised!vars' = <<PromisedBest, PromisedAnswer>>'
    BY DEF Promised!vars, PromisedBest, PromisedAnswer
  <2>2. CASE UNCHANGED vars
    <3>1. UNCHANGED <<PromisedBest, PromisedAnswer>>
      BY <2>2 DEF vars, PromisedBest, PromisedAnswer, Is
    <3> QED
      BY <2>1, <3>1
  <2>3. CASE pc' # "done" /\ answer' = NoAnswer
    BY <2>1, <2>3, SearchGoesOn DEF Promised!Next
  <2>4. CASE FinishPortfolio \/ FinishBeam \/ FinishAlns \/ GiveUp
    BY <2>1, <2>4, SearchAnswers DEF Promised!Next
  <2> QED
    BY <2>2, <2>3, <2>4, Answered
<1> QED
  BY Invariance, <1>1, <1>2, PTL DEF Spec, ImplementsAnytime, Promised!Spec
=============================================================================
