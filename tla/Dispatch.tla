------------------------------- MODULE Dispatch -------------------------------
(***************************************************************************)
(* What becomes of a request: validate_request, then                       *)
(* optimize_request_internal of src/src/optimizer.rs, which chooses a      *)
(* search and its parameters, and optimize_profile_pool, which calls       *)
(* optimize_request_internal once per candidate.                           *)
(*                                                                         *)
(* The searches themselves (Restarts, Searches, Peeling) are taken as      *)
(* sources of answers; the vacuum layout is computed (VacuumTable).        *)
(***************************************************************************)
EXTENDS Pool, Schedule, VacuumTable

CONSTANTS
    DefaultTimeLimit,   \* config.default_time_limit_ms
    DefaultRestarts,    \* config.default_restarts
    Responses,          \* the layouts a search may answer with, as Pool sees them
    Requests,           \* as validate_request sees them
    \* Baseline and WidthFirst of VacuumTable, which are too deep for TLC to
    \* expand inside an action or an invariant.
    RunBaseline(_, _, _), RunWidthFirst(_, _)

ASSUME DispatchAssumption ==
    /\ DefaultTimeLimit \in Nat
    /\ DefaultRestarts \in Nat
    /\ Responses \subseteq [sheets : Nat, visual : Nat, waste : Nat, shift : Nat, lead : Nat, corner : Nat]

\* What deserialization lets through: numbers where the fields are numbers,
\* lists of numbers where they are lists, and no switch in a ga_override.
ASSUME RequestsAssumption ==
    \A r \in Requests :
        /\ r.endpoint \in {"optimize", "beam", "alns"}
        /\ Instances(r) \in Int
        /\ Value(r.options, "time_limit_ms", 0) \in Int
        /\ Value(r.options, "restarts", 0) \in Int
        /\ Value(r.options, "ga_profile", "balanced") \in {"fast", "balanced", "quality"}
        /\ Value(r.options, "sla_profile", "balanced") \in {"fast", "balanced", "quality"}
        /\ Has(r.blocks, "ga_override") => ~Has(r.blocks["ga_override"], "enabled")
        /\ \A name \in DOMAIN r.blocks \cap DOMAIN Allowed :
               LET block == r.blocks[name]
               IN /\ \A field \in DOMAIN block \cap DOMAIN Allowed[name] : block[field] \in Int
                  /\ \A field \in DOMAIN block \cap DOMAIN AllowedElements : block[field] \in Seq(Int)

VacuumRequests == {r \in Requests : r.layout = "vacuum_table" /\ Verdict(r) = "ok"}

\* A vacuum-table request that is solved has sizes and a sheet of whole units,
\* and the engine keeps its promise to it.
ASSUME VacuumAssumption ==
    \A r \in VacuumRequests :
        LET items == r.items
            stock == r.stock[1]
        IN /\ items \in Seq([qty : Nat, sized : BOOLEAN, size : [Axes -> Lengths], turn : BOOLEAN])
           /\ stock.table \in [Axes -> Lengths] /\ stock.qty \in Nat
           /\ r.solutions \in Seq(Solutions)
           /\ \A n \in DOMAIN r.solutions :
                 Nesting(r.solutions[n], PartsOf(items), FittingParts(items, stock.table),
                         Axis(r.direction, stock), stock.table)

ASSUME PlannersAssumption ==
    /\ \A input \in {<<r.items, r.stock[1], r.direction>> : r \in VacuumRequests} :
          RunBaseline(input[1], input[2], input[3]) = Baseline(input[1], input[2], input[3])
    /\ \A input \in {<<r.items, r.stock[1]>> : r \in VacuumRequests} :
          RunWidthFirst(input[1], input[2]) = WidthFirst(input[1], input[2])

VARIABLES
    request,
    pc,
    task,           \* the pool's run under way; Alone without a pool
    todo,           \* the pool's runs to come
    stage,          \* "base" or "rescue" profiles of the pool
    candidates, timedOut, failed, lastError,    \* as in the pool
    provisional,    \* the base stage's winner
    answer

pool == <<task, todo, stage, candidates, timedOut, failed, lastError, provisional>>
vars == <<request, pc, pool, answer>>

Alone == Task(0, 0, FALSE)
EmptyResponse == [sheets |-> 0, visual |-> 0, waste |-> 0, shift |-> 0, lead |-> 0, corner |-> 0]
NoAnswer == [kind |-> "none", response |-> EmptyResponse]
Ok(response) == [kind |-> "ok", response |-> response]
Error(kind) == [kind |-> kind, response |-> EmptyResponse]

Block(name) == Value(request.blocks, name, <<>>)
On(name) == Has(request.blocks, name) /\ Enabled(request.blocks[name])
IsDefault == request.endpoint = "optimize"
Pooled == IsDefault /\ On("profile_pool")

-----------------------------------------------------------------------------
(* Parameters of the searches.  Those of beam and ALNS are taken from their *)
(* block even if it is switched off, when nobody has looked at them.        *)

TimeLimit == Value(request.options, "time_limit_ms", DefaultTimeLimit)
RestartsRequested == Larger(1, Value(request.options, "restarts", DefaultRestarts))
DeadlineOf(block) == Larger(Value(block, "deadline_ms", TimeLimit), 100)

RestartsParameters ==
    [search |-> "restarts", budget |-> TimeLimit, rescue |-> TRUE,
     plan |-> StandardPlan(TimeLimit, RestartsRequested, Value(request.options, "sla_profile", "balanced"))]

PortfolioParameters ==
    LET block == Block("portfolio")
    IN [search |-> "portfolio", deadline_ms |-> DeadlineOf(block),
        candidate_count |-> Clamp(Value(block, "candidate_count", 4), 1, 16)]

BeamParameters ==
    LET block == Block("beam")
    IN [search |-> "beam", deadline_ms |-> DeadlineOf(block),
        beam_width |-> Clamp(Value(block, "beam_width", 2), 1, 8),
        beam_depth |-> Clamp(Value(block, "beam_depth", 2), 1, 8),
        branch_factor |-> Clamp(Value(block, "branch_factor", 2), 1, 8)]

AlnsParametersMutant ==          \* only what validation may have missed is clamped
    LET block == Block("alns")
        start == Value(block, "temperature_start", One)
    IN [search |-> "alns", deadline_ms |-> DeadlineOf(block),
        iterations |-> Clamp(Value(block, "iterations", 24), 1, 512),
        segment_size |-> Value(block, "segment_size", 6),
        temperature_start |-> start,
        temperature_end |-> Value(block, "temperature_end", 1200),
        reaction_factor |-> Value(block, "reaction_factor", 3000)]

AlnsParameters ==
    LET block == Block("alns")
        start == Larger(Value(block, "temperature_start", One), 1)
    IN [search |-> "alns", deadline_ms |-> DeadlineOf(block),
        iterations |-> Clamp(Value(block, "iterations", 24), 1, 512),
        segment_size |-> Clamp(Value(block, "segment_size", 6), 1, 64),
        temperature_start |-> start,
        temperature_end |-> Smaller(Larger(Value(block, "temperature_end", 1200), 1), start),
        reaction_factor |-> Clamp(Value(block, "reaction_factor", 3000), 1, One)]

GaProfiles ==
    [fast |-> [epochs |-> 60, breed_factor |-> 4500, survival_factor |-> 5000, top_k_candidates |-> 3],
     balanced |-> [epochs |-> 100, breed_factor |-> 5000, survival_factor |-> 6000, top_k_candidates |-> 6],
     quality |-> [epochs |-> 180, breed_factor |-> 5500, survival_factor |-> 7000, top_k_candidates |-> 12]]

\* resolve_ga_runtime, and the fitness weights; a run of the pool has its own.
GaParameters ==
    LET override == Block("ga_override")
        profile == GaProfiles[Value(request.options, "ga_profile", "balanced")]
    IN [epochs |-> Larger(1, Value(override, "epochs", profile.epochs)),
        breed_factor |-> Clamp(Value(override, "breed_factor", profile.breed_factor), 1, One),
        survival_factor |-> Clamp(Value(override, "survival_factor", profile.survival_factor), 0, One),
        top_k_candidates |-> Larger(1, Value(override, "top_k_candidates", profile.top_k_candidates)),
        zone_penalty |-> IF Pooled THEN task.zonePenalty ELSE Value(override, "zone_penalty", 3000),
        fill_penalty |-> IF Pooled
                         THEN Value(Block("profile_pool"), "fill_penalty", Value(override, "fill_penalty", 1000))
                         ELSE Value(override, "fill_penalty", 1000)]

Parameters ==
    IF ~IsDefault THEN IF request.endpoint = "beam" THEN BeamParameters ELSE AlnsParameters
    ELSE IF On("portfolio") THEN PortfolioParameters ELSE RestartsParameters

\* The search that is called, with its parameters.
Called == [parameters |-> Parameters, ga |-> GaParameters, restarts |-> RestartsRequested]

-----------------------------------------------------------------------------
Init ==
    /\ request \in Requests
    /\ pc = "received"
    /\ task = Alone /\ todo = <<>> /\ stage = "base"
    /\ candidates = <<>> /\ timedOut = 0 /\ failed = 0 /\ lastError = NoAnswer
    /\ provisional = EmptyResponse
    /\ answer = NoAnswer

Answer(result) ==
    /\ pc' = "done"
    /\ answer' = result
    /\ UNCHANGED <<request, pool>>

Reject ==
    /\ pc = "received"
    /\ Verdict(request) # "ok"
    /\ Answer(Error(Verdict(request)))

Accepted == pc = "received" /\ Verdict(request) = "ok"

\* What run_vacuum_layout makes of a request, and with its legacy planner alone.
LegacyLayout(r) == RunBaseline(r.items, r.stock[1], r.direction)
TableLayout(r, inTime) ==
    VacuumLayout(r.items, r.stock[1], r.direction, r.solutions, inTime,
                 LegacyLayout(r), RunWidthFirst(r.items, r.stock[1]))

\* The one error of run_vacuum_layout that validation leaves: the baseline has
\* used up its probes, as no small request does.
Vacuum ==
    /\ Accepted
    /\ request.layout = "vacuum_table"
    /\ \/ \E inTime \in BOOLEAN : Answer(Ok(TableLayout(request, inTime)))
       \/ Answer(Error("constraint"))

EnterPool ==
    /\ Accepted
    /\ request.layout # "vacuum_table"
    /\ Pooled
    /\ pc' = "pool"
    /\ todo' = BaseTasks(Block("profile_pool"))
    /\ UNCHANGED <<request, task, stage, candidates, timedOut, failed, lastError, provisional, answer>>

SolveAlone ==
    /\ Accepted
    /\ request.layout # "vacuum_table"
    /\ ~Pooled
    /\ pc' = "solve"
    /\ UNCHANGED <<request, pool, answer>>

Candidate(response) ==
    [sheets |-> response.sheets, visual |-> response.visual, waste |-> response.waste, shift |-> response.shift,
     lead |-> response.lead, corner |-> response.corner, isRescue |-> task.isRescue]

\* The solve under way returns to its caller, the pool or the handler.
RecordMutant(result) ==          \* a timeout is a failure
    /\ pc' = "pool"
    /\ \/ /\ result.kind = "ok"
          /\ candidates' = Append(candidates, Candidate(result.response))
          /\ UNCHANGED <<failed, lastError>>
       \/ /\ result.kind # "ok"
          /\ failed' = failed + 1
          /\ lastError' = result
          /\ UNCHANGED candidates
    /\ UNCHANGED <<request, task, todo, stage, timedOut, provisional, answer>>

Record(result) ==
    /\ pc' = "pool"
    /\ \/ /\ result.kind = "ok"
          /\ candidates' = Append(candidates, Candidate(result.response))
          /\ UNCHANGED <<timedOut, failed, lastError>>
       \/ /\ result.kind = "timeout"
          /\ timedOut' = timedOut + 1
          /\ UNCHANGED <<candidates, failed, lastError>>
       \/ /\ result.kind \in {"constraint", "internal"}
          /\ failed' = failed + 1
          /\ lastError' = result
          /\ UNCHANGED <<candidates, timedOut>>
    /\ UNCHANGED <<request, task, todo, stage, provisional, answer>>

Return(result) == IF Pooled THEN Record(result) ELSE Answer(result)

\* prepare_input refuses what validation let pass, as a length out of range.
PrepareFails ==
    /\ pc = "solve"
    /\ ~request.prepares
    /\ Return(Error("constraint"))

\* No item fits any sheet.
NothingToPlace ==
    /\ pc = "solve"
    /\ request.prepares /\ ~request.fits
    /\ Return(Ok(EmptyResponse))

Solvable == pc = "solve" /\ request.prepares /\ request.fits
Partitioned == IsDefault /\ On("partition")

\* run_partitioned: an error ends the solve, no outcome leads to the search,
\* which has the same time limit again.
Partition ==
    /\ Solvable /\ Partitioned
    /\ \/ \E response \in Responses : Return(Ok(response))
       \/ Return(Error("internal"))
       \/ pc' = "search" /\ UNCHANGED <<request, pool, answer>>

\* The search is Called.
StartSearch ==
    /\ (Solvable /\ ~Partitioned) \/ pc = "search"
    /\ pc' = "await"
    /\ UNCHANGED <<request, pool, answer>>

Results == {Ok(response) : response \in Responses} \cup {Error(kind) : kind \in {"timeout", "constraint", "internal"}}

SearchReturns ==
    /\ pc = "await"
    /\ \E result \in Results : Return(result)

-----------------------------------------------------------------------------
(* optimize_profile_pool *)

PoolBlock == Block("profile_pool")

StartCandidateMutant ==          \* the run's request still has its pool
    /\ pc = "pool" /\ todo # <<>>
    /\ pc' = "received"
    /\ task' = Head(todo)
    /\ todo' = Tail(todo)
    /\ UNCHANGED <<request, stage, candidates, timedOut, failed, lastError, provisional, answer>>

StartCandidate ==
    /\ pc = "pool" /\ todo # <<>>
    /\ pc' = "solve"
    /\ task' = Head(todo)
    /\ todo' = Tail(todo)
    /\ UNCHANGED <<request, stage, candidates, timedOut, failed, lastError, provisional, answer>>

\* Timeouts hide the other errors.
PoolFails ==
    /\ pc = "pool" /\ todo = <<>> /\ stage = "base"
    /\ candidates = <<>>
    /\ Answer(IF timedOut > 0 THEN Error("timeout") ELSE lastError)

BaseDone ==
    /\ pc = "pool" /\ todo = <<>> /\ stage = "base"
    /\ candidates # <<>>
    /\ stage' = "rescue"
    /\ provisional' = candidates[WinnerIdx(candidates, DropOf(PoolBlock), {})]
    /\ todo' = IF Triggered(PoolBlock, provisional') THEN RescueTasks(PoolBlock) ELSE <<>>
    /\ UNCHANGED <<request, pc, task, candidates, timedOut, failed, lastError, answer>>

PickWinner ==
    /\ pc = "pool" /\ todo = <<>> /\ stage = "rescue"
    /\ Answer(Ok(candidates[WinnerIdx(candidates, DropOf(PoolBlock), AcceptCornerOf(PoolBlock))]))

Done == pc = "done" /\ UNCHANGED vars

Next ==
    \/ Reject \/ Vacuum \/ EnterPool \/ SolveAlone
    \/ PrepareFails \/ NothingToPlace \/ Partition \/ StartSearch \/ SearchReturns
    \/ StartCandidate \/ PoolFails \/ BaseDone \/ PickWinner
    \/ Done

Spec == Init /\ [][Next]_vars

\* The handler is scheduled, and every search returns (Restarts, Searches).
\* This is WF_vars(Next) with ENABLED written out: there is always a next step
\* until the answer is given (no run finds a deadlock), and none after it.
FairSpec == Spec /\ ([]<><<Next>>_vars \/ []<>(pc = "done"))

-----------------------------------------------------------------------------
(* Properties *)

Candidates == [sheets : Nat, visual : Nat, waste : Nat, shift : Nat, lead : Nat, corner : Nat, isRescue : BOOLEAN]
Tasks(rescue) == [zonePenalty : Fractions, offset : Nat, isRescue : {rescue}]
Kinds == {"none", "ok", "timeout", "constraint", "internal", "validation"}

\* The state of a request is well-typed, and the pool plans no more runs than
\* its lists allow.
TypeOK ==
    /\ request.endpoint \in {"optimize", "beam", "alns"}
    /\ pc \in {"received", "pool", "solve", "search", "await", "done"}
    /\ stage \in {"base", "rescue"}
    /\ todo \in Seq(Tasks(stage = "rescue"))
    /\ candidates \in Seq(Candidates)
    /\ timedOut \in Nat /\ failed \in Nat
    /\ lastError.kind \in {"none", "constraint", "internal"}
    /\ answer.kind \in Kinds
    /\ Len(todo) + Len(candidates) + timedOut + failed <= 8 + 8 * 9

Calling(search) == pc = "await" /\ Called.parameters.search = search

\* No search is ever called with a parameter it cannot take: a segment of no
\* length is a division by zero, temperatures that rise accept worse and worse
\* layouts.  Also from a block that is switched off and was never validated.
SafeParameters ==
    /\ pc = "await" => /\ Called.restarts >= 1
                       /\ \A field \in DOMAIN Called.ga : Called.ga[field] \in Allowed["ga_override"][field]
    /\ \A search \in {"portfolio", "beam", "alns"} :
           Calling(search) => \A field \in DOMAIN Allowed[search] : Called.parameters[field] \in Allowed[search][field]
    /\ Calling("alns") => Called.parameters.temperature_end <= Called.parameters.temperature_start

\* What a client sets in a block that is on is used as it is, but for a final
\* temperature above the default initial one, which nothing refuses.
ValuesHonoured ==
    \A search \in {"portfolio", "beam", "alns"} :
        Calling(search) /\ On(search) =>
            \A field \in DOMAIN Block(search) \cap DOMAIN Allowed[search] :
                \/ Called.parameters[field] = Block(search)[field]
                \/ field = "temperature_end" /\ ~Has(Block(search), "temperature_start")

\* The slices of a plan add up to the time limit, none is shorter than
\* MinSlice unless it is the only one, they are no more than the restarts asked
\* for, and the later ones do not grow.
PlanFillsBudget ==
    Calling("restarts") =>
        LET plan == Called.parameters.plan
            schedule == plan.schedule
        IN /\ Total(schedule) = Larger(1, Called.parameters.budget)
           /\ Len(schedule) = plan.restarts
           /\ plan.restarts <= Called.restarts
           /\ Len(schedule) > 1 => \A i \in DOMAIN schedule : schedule[i] >= MinSlice
           /\ \A i \in 2..(Len(schedule) - 1) : schedule[i] >= schedule[i + 1]
           /\ plan.fallback * (Len(schedule) - 1) <= Called.parameters.budget

\* A request that is solved has no more instances than allowed, unless their
\* number does not fit the word it is added up in.
InstancesBounded ==
    pc \in {"solve", "search", "await", "pool"} =>
        Instances(request) <= MaxInstances \/ Instances(request) >= Word

\* What reaches a search, from the blocks of the request and from its items.
SearchInputsRight == SafeParameters /\ ValuesHonoured /\ InstancesBounded

Won == pc = "done" /\ stage = "rescue"
Winner == answer.response
Acceptable(i) == ~Rejected(candidates[i], AcceptCornerOf(PoolBlock))

\* The pool answers with a candidate the guard accepts, on as few sheets as any
\* such, and no other that is as full as this one is better.  The choice always
\* finds one, since the guard accepts the base candidates.
WinnerIsBest ==
    Won => /\ answer.kind = "ok"
           /\ \E i \in DOMAIN candidates : Acceptable(i) /\ Winner = candidates[i]
           /\ \A i \in DOMAIN candidates : Acceptable(i) =>
                  /\ Winner.sheets <= candidates[i].sheets
                  /\ candidates[i].sheets = Winner.sheets /\ candidates[i].lead >= Winner.lead
                         => ~BetterCandidate(candidates[i], Winner)

\* A rescue costs no sheet, nor an answer worse than the base stage's, unless
\* it found a fuller sheet that puts this winner outside the window.
RescueNeverHurts ==
    Won => /\ Winner.sheets <= provisional.sheets
           /\ \/ ~BetterCandidate(provisional, Winner)
              \/ \E i \in DOMAIN candidates :
                     /\ Acceptable(i) /\ candidates[i].isRescue
                     /\ candidates[i].sheets = Winner.sheets
                     /\ candidates[i].lead > provisional.lead + DropOf(PoolBlock)

\* The pool chooses well, among all its runs and between its stages.
PoolChoosesWell == WinnerIsBest /\ RescueNeverHurts

\* Every run the pool plans is counted once, whatever comes back from it.
PoolCountsAddUp ==
    Won => Len(candidates) + timedOut + failed =
               Len(BaseTasks(PoolBlock))
               + (IF Triggered(PoolBlock, provisional) THEN Len(RescueTasks(PoolBlock)) ELSE 0)

\* The pool answers with an error only if no base profile had a layout, and
\* with a timeout if one of them ended in a timeout.
PoolErrorMeansNothing ==
    pc = "done" /\ Pooled /\ answer.kind \in {"timeout", "constraint", "internal"} =>
        /\ candidates = <<>> \/ request.layout = "vacuum_table"
        /\ answer.kind = "timeout" <=> timedOut > 0

\* Nothing a run of the pool came back with is lost.
PoolAccounts == PoolCountsAddUp /\ PoolErrorMeansNothing

OnTable == pc = "done" /\ request.layout = "vacuum_table" /\ answer.kind = "ok"

\* A vacuum layout can be pressed, whichever planner made it: its parts lie on
\* the table, a gap apart and as they may lie; each is on one load or left out,
\* and one that fits the table only because the loads allowed are all in use.
VacuumHolds ==
    OnTable =>
        LET stock == request.stock[1]
            parts == PartsOf(request.items)
            loads == answer.response.loads
            unplaced == answer.response.unplaced
            pieces == FlattenSeq([k \in DOMAIN loads |-> loads[k].pieces])
            ids == [i \in DOMAIN pieces |-> pieces[i].id]
        IN /\ KerfClear(loads)
           /\ \A k \in DOMAIN loads : OnSheet(loads[k]) /\ loads[k].pieces # <<>>
           /\ \A i \in DOMAIN pieces : pieces[i].size \in Range(Orientations(parts[ids[i]]))
           /\ IsInjective(ids)
           /\ DOMAIN unplaced = DOMAIN parts \ Range(ids)
           /\ stock.qty > 0 => Len(loads) <= stock.qty
           /\ \A id \in DOMAIN unplaced :
                  \/ unplaced[id] = "oversized" /\ Fitting(parts[id], 1, stock.table[1], stock.table[2]) = {}
                  \/ unplaced[id] = "qty_limit" /\ Len(loads) = stock.qty

\* Of three planners and two comparisons comes no layout worse than the legacy
\* one along the same axis: it places as many parts, with as many on as few
\* loads, and on as many with as little of the film.
VacuumNeverWorse ==
    OnTable =>
        LET layout == answer.response
            baseline == LegacyLayout(request)
            Rating(plan) == <<PlacedCount(plan), -Len(plan.loads), -Feed(plan)>>
        IN ~Beats(Rating(baseline), Rating(layout))

\* Every request is answered: the pool's runs do not start pools of their own.
RequestAnswered == <>(pc = "done")
=============================================================================
