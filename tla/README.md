# freecut_api: a TLA+ verification project

freecut_api is an HTTP service that lays rectangular parts out on sheets (2D
cutting stock). A request names stocks (sheet sizes with quantities), items,
cut parameters and a search configuration; the answer is a list of sheets with
placements, the items that could not be placed, and telemetry about the search.
This directory holds TLA+ models of its control logic, TLC configurations that
check them on small instances, and theorems proved with TLAPS for every value
of the constants.

The file and line numbers below are of the commit the project was written
against. `optimizer.rs`, `main.rs` and so on are in `src/src/`. `PROJECT.json`
lists, for each definition that models code, the lines it stands for.

## How to run

    tlc -workers 2 -config MCAdmission.cfg MCAdmission
    tlapm AdmissionProofs.tla

Each run is a pair of a configuration `MC<Component><Variant>.cfg` and its
module `MC<Component>.tla`; the tables below name them. All runs together take
about four minutes, all proofs some half an hour: the two geometric modules,
`DispatchProofs` and `PlacingProofs`, take most of it.

## 1. The system

    client -> optimize_common (main.rs)                admission: permit, 429
                 | validate_request (validation.rs)
                 v
              optimize_request                         smart retry, rebalance
                 v
              optimize_request_internal                prepare_input, choice of search
                 v
       optimize_profile_pool / run_portfolio_anytime / run_beam_anytime / run_alns_anytime
                 |  / run_partitioned (peeling) / vacuum table
                 v
              run_restarts_with_budget                 slices under a timeout
                 v
              spawn_blocking: cut-optimizer-2d (GA)    one job per slice
                 v
              build_candidate, compaction, consolidation, LNS
                 v
              build_solutions, apply_qty_limits, group shift, metrics, SVG

There is no database and no state between requests, except for the permit
semaphore, the blocking threads a request leaves behind, and thread-locals of
the vendored engine on those threads. What is hard is concurrency at the edge
(handlers that are dropped, jobs that cannot be cancelled, timeouts that race
results) and, inside one request, long chains of steps that each replace a
layout by another and must not lose a part, a sheet or the best result so far.

### Components

| Component | State | Operations | Interacts with | Hard part | What makes it correct | Status |
|---|---|---|---|---|---|---|
| HTTP admission (`main.rs` 195-257) | permits, FIFO queue, one frame per handler | admit, queue, time out, answer; the server drops a handler whose client is gone | the restart loop's blocking jobs | every await is a point where the frame, with its permit, may be dropped; jobs are not | permits are conserved; 429 only when busy; FIFO; a waiter is answered | modelled: `Admission` |
| Request validation (`validation.rs` 49-378) | none | ranges and limits, of blocks that are switched on | dispatch | a block that is off is not checked; a `u32` sum of quantities | no bad value reaches a search; the limit on instances holds | modelled: `Validation`, `Dispatch` |
| Request dispatch (`optimize_request_internal`, 214-472; `optimize_vacuum_request`) | none | choose search and parameters from endpoint, blocks and defaults | everything below | defaults and overrides in five places | the search gets what was asked for, in range | modelled: `Dispatch` |
| Profile pool (770-1179) | candidates, counts, last error | base runs, rescue runs, guarded choice | calls the dispatch again, per run | guards that veto a winner; errors among answers; recursion | the winner is eligible and no worse than the base's; every run is counted | modelled: `Pool`, `Dispatch` |
| Restart scheduling (4518-4666) | none | split a budget into slices | the restart loop, the searches | integer division, minimum slice, remainders | the slices add up to the budget and none is too short | modelled: `Schedule` |
| Portfolio, beam, ALNS (3648-4516) | deadline, frontier or incumbent, streaks, counts | many restart runs | the restart loop | a level replaces what was found; streaks of timeouts; fallbacks | the answer is the best layout the search keeps; counts and reason are true; it ends in time | modelled: `Searches` |
| Restart loop (`run_restarts_with_budget`, 3175-3646) | clock, best candidate, streak, flags, abandoned jobs | seed, slices under a timeout, early stop, rescue | GA jobs; called by every search | the result of a job races its timeout; how the run ended is decided after the fact | the answer is the best layout offered; an error only if there was none; `timeout_reason` is true | modelled: `Restarts`, `Anytime` |
| Dense-first peeling (`run_partitioned`, 2125-2380) with consolidation and LNS (2778-3173) | remaining parts, frozen sheets, best attempt | subset runs, window repacks, freeze, merge | the restart loop, the constructors | subsets are renumbered but keep the ids of the request; parts lost early surface late | an applied peeling holds every part once, on the minimal number of sheets | modelled: `Peeling` |
| Column and shelf constructors (1637-1938) | pool of parts, sheet under construction | stack a column, fill a shelf, re-order | the peeling, which trusts them | sheets are re-ordered after packing | parts distinct, as they may lie, a cut apart, on the sheet | modelled: `Columns`, `Placing` |
| Candidate ranking (2661-2727, 5021-5345) | best so far, counters | measure, compare, pick | all searches | seven figures with rejections on the way | the pick does not depend on the order of arrival | modelled: `Sheets`, `Placing` |
| Compaction and kerf guard (4806-4985) | placements of a sheet | slide, check, restore | before the comparison | order of the pieces, the cut between diagonal neighbours | kerf and edges kept; corner remnant never smaller; it ends | modelled: `Sheets`, `Placing` |
| Group shift (5459-6137) | placements of the answer | move groups of parts | assembly | moves on top of one another, no guard behind | no overlap; it is one (section 6) | modelled: `GroupShift`, `Placing` |
| Vacuum table (`vacuum.rs`) | probe budgets | three planners, two comparisons, validity checks | instead of the solver | three coordinate conventions; what is left out must be named | a layout that can be pressed, never worse than the legacy one | modelled: `VacuumTable`, `Dispatch` |
| Input preparation and answer assembly (`prepare_input`, `choose_stock_info`, `build_solutions`, `apply_qty_limits`) | counts of sheets per stock, twice | split off oversized items, number sheets, drop those past the quantity | around every search | two passes count independently; stocks may share a size | every instance once in the answer; numbers without gaps; no sheet refused that is free | partly: `Assembly` (unit conversion and the summary's figures are left out) |
| Smart retry and rebalance (1323-1542, 2382-2570) | best response, attempt counter, telemetry | assess, choose a strategy, search again, rebalance | everything below it | two different scores; results that must not be retried; errors in the middle | never worse than the first response; attempts counted; no search twice | partly: `Retry` (the part moves of a rebalance are left out) |
| Vendored engine (`vendor/cut-optimizer-2d`) | free rectangles; thread-locals | insert, evolve | the GA jobs | thread-locals survive a panic | pieces disjoint and inside | not modelled; a source of layouts |
| Remnant metrics, SVG, data model, configuration, scripts | none | measures and formatting | - | - | - | not modelled: no state, floating point or formatting |

`PROJECT.json` has the same list with the reason for each part left out, and
the hazards: 40 places where something can go wrong that a test would hardly
reach, each with the properties that watch it; three have none, with the reason.

## 2. How the project is cut

The modules follow the calls. Admission, the restart loop, peeling, assembly
and retry are state machines of their own. Around them:

    Validation <- Pool  <-+
    Schedule  <-----------+- Dispatch    what becomes of a request
    Sheets <- VacuumTable +
    Schedule <- Searches -> Anytime <- Restarts
    Sheets <- GroupShift, Columns <- Placing

`<-` is EXTENDS; `-> Anytime` is a refinement. `Validation`, `Pool`, `Schedule`,
`VacuumTable`, `Sheets`, `GroupShift` and `Columns` are functions; the state
machines that use them are `Dispatch`, `Searches` and `Placing`. Each of the
eight state machines has a proof module, `<Component>Proofs`. Two of these speak
of more than the models define: `SheetSets` (over `Sheets`) has the sets and
relations both geometric proofs use, `VacuumSets` (over `VacuumTable`) those of the
planners.

The modules meet at what one promises the next: `Restarts` and the searches
implement `Anytime`; `Searches` takes a run as `Restarts` says it may answer;
`Retry` and `Peeling` take what a search may answer as given; `Placing` starts
from the plans of the engine or of the constructors and `Assembly` from a layout.

What is left to do: the part moves of a rebalance, and the engine's insertion
into free rectangles.

## 3. The modules

### Admission

A connection (`Slots`) sends one request at a time. `phase[r]` is the place in
`optimize_common` its handler is suspended at or works in: `queued` in
`timeout(acquire_owned)`, `granted` when the semaphore has given it a permit it
has not yet seen, `working` between awaits, `awaiting` a blocking job. `permits`
and `waiters` are the tokio semaphore, modelled from how it is used: fair,
handing a released permit to the oldest waiter. Whether requests wait at all
(`OPTIMIZE_QUEUE_WAIT_MS`) is `queueing`, fixed for a run of the service. The
requests of a handler that is dropped are the three `Disconnect` actions: hyper
drops the future at an await, the frame's permit goes back, a blocking job does
not stop and is counted in `orphans`.

`timeout()` polls the inner future before its timer, so `granted` never leads to
429: `WakeUp` is its only continuation besides the disconnect.

### Restarts and Anytime

One run of `run_restarts_with_budget`. The clock is explicit (`Tick`), a slice
is armed with `deadline`, and a job's end and its timeout are both enabled once
the deadline is reached: either may win. A candidate is a rank, larger is
better under the full comparison. `offered` and `panicked` are history.

The post-process of `engine = heuristic` is one blocking job: `Consolidate` for each
repack that `consolidate_underfull_sheets` accepts, then `Refine` for each that
`lns_refine` does. What they accept by is the number of sheets: fewer, or for LNS as
many with the free area elsewhere. They do not look at the comparison, and a
repack within a partition's subset may lose parts (section 6, 2), so a layout
they accept may have any rank among those of so many sheets. `Sheets` is the
number of sheets of each rank, in no order, as `min_waste` gives it none. What is
promised of a post-process is therefore no more sheets than the seed's, and no
rank.

`Anytime` is the abstract solver: it keeps the best layout offered, answers with
it, gives up only without one, and may break. `ImplementsAnytime` maps `best`
and `answer` to their merit: the rank, or where a post-process has the last word
(`Polishing`) the number of sheets, the fewer the better.

### Peeling

Parts are known by their index in the request (their external id). A layout is
two functions from slots to parts and to sheets; geometry is reduced to areas, so
a packer may return any distribution of the parts it is given that respects a
sheet's area. That includes everything the solver can do and more, so what holds
here holds for the code. `Repack` is `try_repack_window` with the lookup of the
code: the part of each slot is found by using its external id as an index into
the subset's `cut_pieces`, which are numbered anew (`Numberings`). The winner of
two eligible attempts depends on waste regions and is left free; the order on
the number of sheets, which is not, is kept (`MayReplaceBest`,
`MustReplaceBest`).

### Assembly

`Prepare` splits off oversized instances, `Pack` is the solver (any complete
layout on unlimited sheets of each size), `AssignSheet` is `build_solutions` with
`choose_stock_info`, `KeepSheet` and `DropSheet` are `apply_qty_limits`. Stocks of
the same usable size share an entry of `stock_map`, so the solver's sheets have a
size and the stock is chosen afterwards.

### Retry

A response is what the scores see of it. `FailureMode`, `Better` and `Denser` are
`assess_failure`, `is_better_response` and `dense_score`, thresholds included;
`ChooseStrategy` and `ApplyStrategy` are the functions of those names.
Utilisations are whole percents, and the code's floating-point comparisons
become exact ones. Settings are the layout mode, the seed and the restarts: what
makes one search differ from another. A seed drawn at random is a value of its
own.

### Validation, Pool, Schedule and Dispatch

`Validation` is `validate_request`: an optional block is a function whose domain is
the fields that were sent, and `Verdict` is "ok" or one of the two error codes.
Quantities are numbers modulo `Word` (2^32 in the code), in which their sum may
wrap as it does in a release build.

`Dispatch` takes a request from `Reject` or acceptance to the answer. The actions
are the branches of `optimize_request_internal` in their order (`Vacuum`,
`PrepareFails`, `NothingToPlace`, `Partitioned`, `StartSearch`); `Called` is what
the search is given: the parameters of each search with their defaults and
clamps, the GA settings, and for the plain search the plan of `Schedule`. A
profile pool (`EnterPool`, `StartCandidate`, `Return`, `Record`, `BaseDone`,
`PickWinner`, `PoolFails`) calls the same actions once for each of its runs, which
may answer with any layout, a timeout or another error; `Pool` plans the runs and
chooses. A response is reduced to the figures the choice compares.

### VacuumTable

`run_vacuum_layout` as a function of the request, the engine's nested solutions
and whether the width-first planner stays within its probes. A row is a sequence
of parts along an axis; a plan has its loads with coordinates (`Placed`,
`Upright`) and the two figures the comparisons use. `LegacyPlan`,
`WidthFirstPlan` and `NestedPlan` are the three planners, `WidthFirstBetter` and
`Merits` the two comparisons, `PlanValid` and `NestedValid` the checks.
`VacuumLayout` is computed in one step of `Dispatch` (`Vacuum`), because nothing
runs beside it. It takes the plans of the first two planners, `Baseline` and
`WidthFirst`, as arguments: TLC cannot expand these inside an action, so `Dispatch`
has the constant operators `RunBaseline` and `RunWidthFirst` for them. Its
`PlannersAssumption` says that they are the planners, and the configuration binds
them so. `Nesting` is what the engine promises of a solution it nests:
every part of the pool is on one of its bins, no bin is empty, and every piece
lies as its part may. It promises nothing of clearances or of the table's edges;
`NestedValid` checks these. That a request that passed validation has sizes and
a table of whole units and that the engine keeps this promise to it is the
assumption of `Dispatch`, `VacuumAssumption`.

### Searches

The three anytime searches, a run of the restart loop at a time. The clock `now`
advances when a run returns, by any time up to its budget and `Overrun` more. A
layout is a rank; `Score` is `objective_score`, which does not follow the rank, so
ALNS may accept what is worse. `StartLevel`, `NodeSucceeds`, `Insert`, `LevelKept`,
`EndLevel` are the beam; `Bootstrap`, `IterationSucceeds`, `StartFallback` and so on
the ALNS search. Which operators ALNS draws and whether it accepts a worse
layout at random is free; seeds are left out.

Each search counts its runs in its own way. `evaluated` is `candidates_completed` of
a portfolio and `candidates_evaluated` of ALNS, which grow when a run comes back with
a layout, and `nodes_evaluated` of a beam, which grows before the run
(`StartNode`), whatever becomes of it. `timedOut` and `failed` are the counts of those
names. Of the others, `candidates_skipped` is the candidates less `runs`,
`iterations_completed` is `index`; `nodes_pruned`, `accepted_worse`, `improved_best` and
the operators' figures are left out.

### Sheets, GroupShift, Columns and Placing

A plan is a sequence of sheets with pieces at integer coordinates, as in the
engine. `Sheets` has the geometry that several parts share: the kerf check, the
slide of one piece, the figures of `build_candidate` and the comparison.
`Placing` follows a solution set through `pick_best_candidate`: `Take` a plan (or
`Refuse` it), `SlidePiece` by `SlidePiece` to rest, then `Rank` with the guard;
`Picked` ends the loop, each `Shift` is one pass of the group-shift
post-processor. `Construct` is the other way a plan comes about: a sheet, or
a whole plan, of `build_column_candidates`, which goes to the group shift without
compaction. `GroupShift` and `Columns` are functions. The constant operator
`Constructed` stands for `BuiltPlans` of `Columns`, which TLC cannot expand inside
the action; `ConstructedAssumption` says that it is, and the configuration binds
it so. Millimetres of the group shift are whole units, its tolerance 0. That the
packer's plans can be cut (`Cuttable`), and that each part to construct sheets of
fits its sheet one way or the other (`prepare_input` has taken out the others),
is the module's assumption on its constants, `JobsAssumption`, which TLC
evaluates for the instance.

## 4. The runs

"pass" runs finish with no error. A "violation" run checks one sentence of a
comment or a document that the code does not keep; see section 6.

| Run | Checks | Instance and why it is enough |
|---|---|---|
| `admission` | `PermitsConserved`, `NoIdlePermit`, `OverloadedOnlyWhenBusy`, `FirstComeFirstServed`, `EveryRequestAnswered` | 4 connections, 2 permits, queueing on and off, both kinds of jobs, 1 job per request, 1 abandoned job per connection. Two holders and two waiters are the least for which overtaking, a hand-over and a disconnect can meet. No symmetry, because of the liveness property. |
| `admission_deep_jobs` | `DeepJobsBoundedByPermits` (violation) | 3 connections, 1 permit, post-process jobs only. |
| `restarts` | `InternalOnlyAfterPanic`, `SlicesContained`, `TimeoutReasonHonest`, `ImplementsAnytime`, `RunAnswers` | Budget 5, 4 ranks of 3, 1, 2 and 2 sheets (the fewest sheets do not rank highest), post-process of either or both parts, patience 4, four schedules: one past the budget, one long enough for patience to run out, one slice for all, one that leaves time for a rescue. |
| `peeling` | `PartsConserved`, `AppliedIsMinimal`, `WholeRequestKept`, `PeelingEnds` | Areas 4, 1, 1, 2, 1 on sheets of 4, at least three sheets, consolidation and LNS on, windows up to 3. Subset runs lose parts and double them, within a sheet too, in an iteration that is not the last and in the last. One attempt per iteration: the constructed columns are the second candidate; the proofs hold for any number. |
| `peeling_parts` | `PartsPreserved` (violation) | Areas 3, 1, 1, 1, the least that loses a part. |
| `assembly` | `EveryInstanceOnce`, `NoFalseQtyLimit` | Two stocks of one size, one of another, quantities unlimited, 1 or 2 each, five instances: one oversized, one for the shared size only. Every layout. |
| `retry` | `NeverWorse`, `SearchesDiffer`, `TriesEnough` | 46 responses on both sides of each threshold, complete or not, peeled or not; 1, 2 or 4 attempts; restarts unset, below and above half the cap of 20; all modes. With four attempts each strategy may follow each other one the code allows. |
| `retry_best` | `PicksBest` (violation) | The same. |
| `searches` | type, `AnswerHonest`, `TelemetryHonest`, `BudgetsKept`, `ImplementsAnytime`, `SearchEnds` | A deadline of 5 slices, 4 portfolio candidates, a beam of width, depth and branching 2, 3 ALNS iterations, streak 2, 3 ranks whose scores cross, overruns up to 2: time runs out before, in and after every step, a run can end late any number of times, a level can be empty, worse than the one before or cut short, and the streak can be broken. |
| `dispatch` | type, `SearchInputsRight`, `PlanFillsBudget`, `PoolChoosesWell`, `PoolAccounts`, `VacuumHolds`, `VacuumNeverWorse`, `RequestAnswered` | 2958 requests: every field of every block missing, at its limits and beyond them, in blocks that are on and off, on three endpoints; budgets and restarts around every threshold of the schedule with a slice of 80; quantities that wrap in a word of 16; 8 pools, whose runs give each of six layouts on both sides of the lead window and the corner and zone thresholds, or fail; vacuum tables of two shapes with up to six parts, quantity limits, oversized parts, both axes and four sets of nested solutions, one of them with parts closer than the gap. Every planner wins, and each reason for a left-out part but `no_space` occurs. |
| `placing` | type, `KerfKept`, `ConstructedHolds`, `CornerNeverShrinks`, `PickHonest`, `ShiftKeepsApart`, `PlacingEnds` | Every guillotine plan of three pieces in any order on one sheet or on two or three smaller ones, in all pairs, and triples of some, under both objectives, with refused plans among them; every plan of five pieces on a sheet of 10 by 8 with group shift; all the constructors make of every list of up to four parts of four kinds. The cut is 2 wide, wider than the small pieces, so that diagonal neighbours matter; five pieces are enough for a group with an obstacle on either side. |
| `placing_overlap` | `PartsDisjoint` (violation) | The five pieces. |

Bounds that are not in the code: `MaxJobs` and `MaxOrphans` (in the guards of
`StartJob`; a request that has used its jobs is served), `MaxTime` (the clock
stops after the budget; every deadline is before it), `MaxRank` and `Overrun`. The
rest need none. The limit of 12 sheets the consolidation looks at is above the
number of sheets in the instances and is left out of the model.

Several properties are conjunctions of named parts, each stated with a comment
of its own: `SlicesContained` of `SliceWithinBudget` and `AbandonedBounded`;
`BudgetsKept` of `EndsInTime`, `OverrunsDoNotAddUp`, `GivenWhatIsLeft`, `RunsFit` and
`StreakBounded`; `SearchInputsRight`
of `SafeParameters`, `ValuesHonoured` and `InstancesBounded`; `PoolChoosesWell`
of `WinnerIsBest` and `RescueNeverHurts`; `PickHonest` of `PickedIsBest` and
`RejectionsStand`.

Deadlock is checked in every run; `Done` is the stuttering of a request that is
answered, and connections of `Admission` always may send again.

### Fairness

- `Admission`: the runtime polls a woken task, a working handler reaches its
  next await or its end, an awaited job ends or its timeout fires (weak fairness
  of each, per connection). Nothing is assumed of clients, nor that the queue's
  timer fires: a waiter is served because the queue is FIFO and holders finish.
- `Restarts`: time passes, timers fire, the handler runs. A GA slice need not
  end. The post-process of `engine = heuristic`, awaited without a timeout
  (3279-3311), is assumed to end because its loops check their own deadline and
  LNS has a number of iterations: `StartLns`, and the end of the job, are fair
  however many repacks are accepted.
- `Peeling`: weak fairness of `Next`. No clock is used: each repack saves a sheet or
  enlarges the largest free area, each iteration freezes a part.
- `Searches`: weak fairness of `Next`: a run of the restart loop answers, which is
  `RunAnswers`.
- `Dispatch` and `Placing`: one thread runs to its end. The formula is weak
  fairness of `Next` with its ENABLED written out, as TLC would evaluate the
  whole step again for it: infinitely often a step, or an answer that stays. In
  both modules something is enabled until the answer, which the absence of a
  deadlock shows.

## 5. The theorems

Each is `Spec => []P` or an action property, for every value of the constants
that meets the module's named assumptions. The argument is in each case an
inductive invariant `IInv` of the proof module, with the three facts `Init => IInv`,
`IInv /\ [Next]_vars => IInv'`, `IInv => P`.

**AdmissionProofs** (any finite set of connections, any limit):
`TypeCorrect`, `PermitConservation`, `QueueAgreement`, `WorkConserving`,
`AwaitedBound`, `OverloadedJustified`, `FairAdmission`. None of the invariants is
inductive alone: that releasing a permit hands it to a handler that does not yet
hold one needs the queue to agree with the phases; that a 429 is justified needs
both conservation and that nobody waits beside a free permit. `JobMatchesPhase`
is added for the bound on abandoned jobs.

**RestartsProofs** (any budget, ranks, patience and schedules):
`TypeCorrect`, `BestReturned`, `NothingDiscarded`, `InternalMeansPanic`,
`BudgetRespected`, `ReasonTrue`, `FewAbandoned`, `SlicesStayContained`, and
`Implements`, that every step
of the loop is a step or a stutter of `Anytime`. The invariant adds what is true
while the loop runs: what is in hand is the best offered (`InHand`) and how the
flags and counters relate to the phase (`Bookkeeping`); while the post-process is at
work, what is in hand has no more sheets than the seed. Nothing is assumed of how
`Sheets` and the ranks go together.

**PeelingProofs** (any number of parts, additive areas, capacity, windows and
attempts): `TypeCorrect`, `FrozenPartition`, `NoPartLost`, `Minimal`,
`WholeRequestSafe`. `NoPartLost` is the surprising one: subset runs do lose parts
(section 6), yet a peeling that is applied is complete. The argument: a repack
requires all ids in its window to be at most the number of remaining parts; if
all remaining ids are, the numbering is the identity and nothing is lost; if one
is larger, it is never in a window (`LargeKept`), its sheet stays, and a lossy
layout has a second sheet. On the last iteration one sheet is all that the lower
bound allows, because the frozen sheets already account for the others by area
(`AreaCovered`), so the surplus check refuses the layout. On the other iterations
only distinct ids are frozen and only their parts leave the pool.

**AssemblyProofs** (any stocks, sizes, quantities and instances): `TypeCorrect`,
`OnceEach`, `Numbered`, `DroppedForWant`. The invariant relates the two counts:
sheets are numbered per stock in order (`NumberInv`); a number past the quantity
means that every stock of the size is finite and used up (`OverflowInv`); the
second pass keeps exactly the first sheets of a stock (`LimitInv`).

**RetryProofs** (any set of responses, any limits): `TypeCorrect`, `NoWorse`,
`Counted`, `NoRepeat`, `NoEarlyStop`. The seeds of the searches made are below the
next one's (`SeedInv`), so each search is new; the rebalance is only reached in
the first slot, when the best response is still the first one (`SearchInv`,
`LoopInv`), so an accepted one is compared with the first.

**SearchesProofs** (any deadline, number of candidates, width, depth, branching,
iterations and ranks): `TypeCorrect`, `HonestAnswers`, `HonestTelemetry`,
`KeptBudgets` and `Implements`, that every step of a portfolio or an ALNS search is
a step or a stutter of `Anytime`. The invariant says which phases a search passes
through with how many runs begun (`Phases`); that all levels of a beam but the one
under way are complete unless the time was up (`LevelsRecorded`) and that the
frontier starts with the best of the last level that had any (`FrontierOfLevels`),
which is what the answer of a beam rests on; what counts, outcomes and the best
layout say of one another (`Accounts`); where the time went if no run was late
(`TimeKept`: a beam's level has a budget left for each of its remaining nodes, an
ALNS run is only started with its budget left) and however late they were
(`OverrunsKept`: a run begins before the deadline, so what it exceeds it by is its
own budget and overrun, not those of the runs before); and that the streak is that of the runs but for
the fallback's (`Streaks`). The assumption `MaxStreak > 1` is used: the code does
not look at the streak after the first run, and its limit is 2. The product of
nodes left and budget per node is the one place with nonlinear arithmetic.

**DispatchProofs** (any set of requests that deserialization lets through, any
answers of the runs): `TypeCorrect`, `ChoosesWell`, `AccountsAddUp`, `InputsRight`,
`BudgetFilled`, `ScheduleGiven`, `VacuumRight`, `VacuumNoWorse`. The invariant ties
a pool's runs to its plan: planned runs are to come, under way or counted
(`Counted`), from when a request with an accepted pool is entered (`Phases`); the base stage's candidates are not marked as rescues and its winner
is one of them, within the lead window (`Marks`), so that a rescue that wins is
compared with it. `InputsRight` is a case for each search: the ranges
validation has checked, where the block is on, and the clamps and defaults where
it is not, meet what the search needs. `BudgetFilled` is about the plan of the
restart loop for any time limit, any number of restarts and any shortest slice. A
plan of several restarts has room for the shortest slice of each
(`RestartsBounded`), so what the first slot leaves covers the tail and nothing is
ever taken back; the parts of the tail, rounded down, leave less than one for
each slot (`PartsAre`: the weights are differences of `i (2n - i + 1)`, which ends
at twice their sum), so one more for the first slots gives out exactly what is
left (`SharesFill`). `ScheduleGiven` is what `Restarts` assumes of its schedules.
What is assumed is in `DispatchAssumption`,
`RequestsAssumption`, `VacuumAssumption` and `PlannersAssumption`: fields of numbers
are numbers and lists of numbers lists, profiles one of three, and what section 3
says of the requests for vacuum tables and of the two planners.

`VacuumRight` and `VacuumNoWorse` are about every layout of a vacuum table, for any
parts, table, number of loads, gap and nested solutions. `TableInv` carries them:
an answered table request has the layout that `VacuumLayout` computes from the
plans of `Baseline` and `WidthFirst` (`PlannersRun`), and all
else is about that function, from the inside out.
- Rows. A row holds parts as they may lie, none deeper than its first (`RowsOf`);
  one more part makes it longer by that part and a cut, and no deeper (`RowGrown`,
  `LastGrown`, `RowKeeps`); a row of equal parts is as long as they are many
  (`EvenLine`, `EqualRow`).
- Loads. Each planner's loop stays in a set of states: what is laid is on the
  table, each part in one place, and what is left is nowhere (`GeneralKeeps`,
  `EqualKeeps` with the depth that the counted rows add up to, `LegacyKeeps`). The
  legacy planner fills a load whenever something is left, since a part that fits
  the table alone can start a row (`LegacyLoadIs`). Of the width-first planner's
  loop it is enough that each part is in a row or left, and each row on a load
  unless all loads are in use (`WidthKeeps`, `PacksBehind`, `PacksAlone`).
- Coordinates. Rows one behind the other at the places `compact_positions` gives are a
  gap apart and end where the sums say (`StartsApart`, `LineIs`, `InRowsIs`,
  `SeparateClear`, `RowsFit`).
- Plans. So the legacy plan is sound (`PlanSound`, `LegacyPlanIs`). The width-first
  planner's loads need no bound on the table's edge here, since `PlanValid` checks
  it; that no part is twice is checked too, but that its pieces are clear of one
  another is not, and follows from the rows (`WidthFirstPlanIs`, `ValidSound`).
  A nested plan is sound by `NestedValid` and the engine's promise (`NestedPlanIs`).
- The reason. A part that fits is left out only when all allowed loads are in
  use, and where none are limited there are as many as parts, so that nothing is
  left (`LoadsSuffice`, `MaxLoadsIs`); so `no_space` is never said.
- The choice. What `WidthFirstBetter` prefers rates no less (`WidthFirstRates`);
  `WithNested` takes what beats its rival in `Merits`, of which the rating is the
  first three figures (`MeritsRate`); and no worse than no worse is no worse
  (`NoWorseOn`).

**PlacingProofs** (any plans that can be cut, any blade, any limits): `TypeCorrect`,
`GuardKeepsKerf`, `CornerKept`, `CompactionSettles`, `ShiftsKeepApart`, `PickRight`,
`ConstructedRight`. The invariant says of the plan under compaction that it is the
engine's with pieces slid nearer to the corner (`Compacted`), and that the pieces passed since the last slide on
their sheet are at rest (`Sliding`). `TypeCorrect` includes that no step takes a piece
off its sheet. `GuardKeepsKerf` has two cases: with a blade of some width what the
guard lets through does not overlap either, since pieces a blade apart are
apart; with a blade of no width the guard sees nothing, and the slides
themselves must keep pieces apart (`SlidApart`: a piece met across the slide was
behind, and is in the way, or ahead). `CornerKept` (`CornerGrows`): for the left side
of the largest free rectangle there was, take the last right side of a slid piece
before it; whatever reaches beyond that now reached beyond the old left side
before, and no less low. `ShiftsKeepApart` (`MovedApart`): in a plan that can be cut
a piece that is met across the direction of a shift is a whole blade ahead or
behind, so it is an obstacle and the limit counts it. After one shift that is no
longer so, which is how the second pass goes wrong (section 6, 4). `PickRight` rests
on the comparison being a lexicographic order on numbers (`FiguresTyped`,
`RankingIs`: irreflexive, transitive, and total on plans that differ in a figure);
its invariant (`Chosen`) says that the pick is the first of the largest so far and
that the plans counted as worse on the objective are no more than those that lose
to the pick on it.

`ConstructedRight` is about every sheet and plan of the constructors. A step of
`ColumnStep` keeps the pieces clear of one another and of what the open column will
still take: they are left of it or above it, by a blade (`OneMoreClear`, `PutKeeps`,
`ColumnStepKeeps`). A shelf knows how wide and how high it is (`ShelfWidened`,
`ShelfBegun`, `ShelveKeeps`), and a new order of shelves, or of the pieces on one,
takes no more room (`SameExtent`: the sum of a line does not depend on its order),
so the sheet still holds them (`ShelfOrderIs`, `ShelvesFilled`). That a piece too
wide is laid the other way turns no part that may not be turned, because such a
part fits the sheet as it is (`JobsAssumption`). The parts placed leave the pool
and no others (`BuildingIs`), so no part is twice, and a whole plan has them all
(`BuiltPlansAre`). A group shift moves pieces and changes neither their numbers nor
their sizes (`ShiftedRight`); what it does to clearances is finding 4.

Sums. The figures of a plan and the totals of a schedule are folds over sets.
The library's inductions over them cannot be used (they take an operator), so
both modules derive what they need of a sum from a least counterexample among the
natural numbers (`LeastNumber`): a function that gives the sum of every subset
exists (`SumsExist`) and is the fold; for the schedules, any element splits it
(`SumSplits`), so the fold over positions is the sum in order (`TotalIs`).

Loops. `Columns`, `Schedule` and `VacuumTable` write loops as recursive functions, and
a recursive function is the CHOOSE of one that satisfies its equation, about
which nothing is known unless one exists. `LoopRuns` (for states that each step
keeps in one set) and `LoopIn` (in a set for each number of steps) show that one
does: of the numbers of steps for which none exists one would be the least, and
not 0, and the function for one step less is extended by the step
(`KeptAllAlong`). So the recursive function satisfies its equation and stays in
the sets of states, and its value at the end is in the last of them. Sorting is a
numbering of the elements: `FallingIs` shows that of n keys each number of keys
above it occurs once, so `Arranged` is the same elements in another order (`ArrangedIs`).

Of the properties proved, these are no longer checked by a run, since the
theorem says more: the type invariants of the five modules, `QueueMatchesPhase`,
`AwaitedJobsBounded`, `ResultIsBestOffered`, `ErrorMeansNothingFound`,
`PeelingPartitions`, `SheetsNumbered` and `AttemptsCounted`. `AwaitedJobsBounded`
is the bound on jobs that does hold beside finding 1.

What is only model-checked:

- The liveness properties (`EveryRequestAnswered`, `RunAnswers`, `PeelingEnds`,
  `SearchEnds`, `RequestAnswered`, `PlacingEnds`; the safety half of the last is
  `CompactionSettles`), since fairness and ENABLED are outside the prover's rules.
- That the layouts are good rather than right: nothing is stated about how full a
  sheet the constructors or the vacuum planners make beyond the comparisons above.

Every invariant that a run checks is also a theorem.

## 6. Where the code and its text disagree

Each of the first four has a run.

1. `optimizer.rs` 3264 argues that deep post-process jobs stay bounded by
   `MAX_CONCURRENT_OPTIMIZE` because the request holds a permit. A client that goes
   away frees the permit while the job runs on (`admission_deep_jobs`).
2. `optimizer.rs` 2930 says that a window repack preserves the set of parts. Inside a
   subset run the external id of a part is used as an index of the renumbered
   subset (2832), and parts are lost or doubled (`peeling_parts`). `NoPartLost`
   shows that no such layout is ever applied: the cost is a peeling given up.
3. `models.rs` 172 says that smart retry picks the best of its runs. A retry that
   leaves items unplaced may replace a complete response, and a retry that fails
   discards a response in hand (`retry_best`).
4. `optimizer.rs` 4838 says that no invalid layout must be answered as ok. The first
   pass of the group shift may leave a piece diagonally closer than the cut; the
   next does not see it as an obstacle (5971) and pushes a group over it
   (`placing_overlap`). `ShiftKeepsApart` is what a single shift does keep.

Without a run:

Restart loop, retry and peeling
- `optimizer.rs` 1472 says of an applied peeling "Never retry over it". It is true of
  the first attempt's only (1497).
- `more_restarts` doubles the restarts (comment at 1426) but takes 5 as the number
  when the request has none, while the first attempt then uses the configured
  default of 10: it asks for 10 again, with another seed.
- `docs/PRACTICAL_SETTINGS.md` 231 recommends smart retry for results that are "poor
  or incomplete", while `assess_failure` does not look at unplaced items.
- `src/README.md` 280 explains `qty_limit` as "no sheets available". The solver does not
  know the quantities, and a part is dropped with its sheet although another
  size it fits has sheets left (5369, 4705). Among stocks of one size the
  sentence is true (`NoFalseQtyLimit`); the README's TODO (361) about false
  `qty_limit` for stocks of one size describes an older state of the code.

Searches
- A beam answers with the best of its last level that found anything; a better
  layout of an earlier level is dropped (3883-3897). This is why a beam is not
  asked to implement `Anytime`.
- The ALNS fallback gives the whole deadline to one more run after having spent
  it (4268): the search may take twice its deadline, which `EndsInTime` states.
- The streak of timeouts (comment at 4215) is reset by a run that has a layout and
  the reason `slice_timeout`, although that run left a job behind too.
- ALNS leaves its loop when less than the minimum for an iteration is left without
  setting `budget_exhausted`, and the portfolio does not pass on the reason of the
  run it answers with, so `timeout_reason` may be missing after an early end
  (`src/README.md` 242).
- `objective_score` for `min_sheets` weighs sheets against waste so that enough
  waste (1000 mm²) outweighs a sheet; `Score` is therefore free of order in the model.
- An explicit `temperature_end` above the default start is silently lowered.
- `restart_explore_dense` may ask for fewer restarts than the baseline when that
  is above 64, and two expansions of a beam may be the same search.

Pool, validation
- `models.rs` 319-321 excepts "breakthrough layouts with <=4 zones" from
  `max_lead_drop`; the code has no such exception. The default of 5 zones
  (`models.rs` 326, `API_SPEC.md` 466: "when seed_offsets exist") also applies with
  rescue profiles.
- The pool prefers fewer sheets even when items are unplaced (1128), and takes
  the time limit once for each run.
- The limit on instances (`API_SPEC.md` 1040) is compared with a sum that wraps
  beyond 2^32 in a release build; `InstancesBounded` holds below.
- The reduction at the end of `build_restart_slice_schedule` is never reached with
  the parameters `derive_standard_restart_plan` passes.

Compaction
- The comment at 4885-4895 says that the later y slide is blocked by a piece the x
  slide passed diagonally. It is not; the guard is needed (`KerfKept` fails
  without it). The doc comment of `compact_solution` (4855-4872) still describes
  the centring of the bounding box that was removed; `CornerNeverShrinks` fails
  with it.

Vacuum table
- `API_SPEC.md` 315 and `docs/PRACTICAL_SETTINGS.md` say that explicit directions keep
  the legacy planners; the nested planner serves them too (`vacuum.rs` 203-216),
  as the text on `strategy` says.
- `score_better` prefers the smaller height of the box on either axis, although for
  the height axis the film runs along x (comment at `vacuum.rs` 1774-1777).
- The last tie-break of `nested_plan_is_better` sets the extent of nested loads
  against the sum of all rows' widths (599-622, 1175).
- The research log's clamp of the probes (N*2000 between 50k and 2M) has become
  the constant 2M. A baseline that runs out of it fails, also when it had a plan.
- `no_space` is never the reason of a vacuum layout: with a load free something
  always fits (`VacuumHolds`).
- The engine nests with the gap rounded to 1/1000 mm (`vacuum.rs` 406, 669), the
  check of the clearance (554-567) takes it as it is. A gap that is rounded down by
  more than the check's 1e-7 mm has nested plans refused whose pieces are as near
  as the engine may lay them; one that is rounded up only spreads them.

## 7. What is not modelled

- The vendored engine: its plans are enumerated as a guillotine packer makes
  them (`MCPlacing`), or taken as any distribution of parts (`Peeling`,
  `Assembly`). `with_ga_fitness_config` (`lib.rs` 412) does not restore its
  thread-local when a search panics, and the thread goes on to other jobs; the
  threads of the blocking pool are not told apart here, and what a leftover does
  to a later search is a matter of quality: no layout is less valid for it.
- The runtime's worker threads: a vacuum-table request computes on one of them
  (481), with no timeout but its count of probes, and others wait meanwhile.
- Time as work: what a probe of the vacuum planner or a generation of the GA
  costs. That a budget runs out is a free choice wherever the code tests it.
- Of the vacuum planner: the choice of at most 32 first parts of a row when there
  are more than 256 parts, that equal parts are not laid in equal rows when there
  are more than 25 million pairs of row numbers (`vacuum.rs` 1513), and the telemetry.
- The moves of a rebalance and its budget of repacks: `Retry` takes a rebalance as
  any layout of the same parts on no more sheets.
- Conversion from millimetres, the figures of the summary, the remnant metrics,
  the SVG, the data model and the configuration: no state; floating point or
  formatting. Tolerances of floating-point comparisons are 0 in the models.
- Panics of a handler itself: no step of `optimize_common` is known to panic, and
  an unwound frame drops its permit as a disconnect does. The blocking pool's own
  limit (512 threads by default) is not reached in the instances.
- The restart loop's and the searches' thread pool is not shared between the
  models of several requests: `Admission` bounds how many run, and nothing else
  of one request is visible to another.
