------------------------------ MODULE Peeling --------------------------------
(***************************************************************************)
(* Dense-first peeling (run_partitioned, run_subset) of src/src/           *)
(* optimizer.rs, with the sheet post-processes a subset run may include    *)
(* (consolidate_underfull_sheets, lns_refine, try_repack_window).          *)
(*                                                                         *)
(* All remaining parts are packed, the densest sheet of the best attempt   *)
(* is frozen as it is, its parts leave the pool, and the rest is packed    *)
(* again, until the rest fits one sheet by area.                           *)
(*                                                                         *)
(* A part is known by its external id, which is its index in the request's *)
(* cut_pieces.  A layout has one slot per part it was given: part[s] is    *)
(* the part placed in slot s, sheet[s] the sheet it is placed on.  A slot  *)
(* is named by the part it held at first, a sheet by its first slot.       *)
(* Geometry is abstracted to areas: a packer may return any distribution   *)
(* of the parts it is given that does not exceed a sheet's area, or none.  *)
(***************************************************************************)
EXTENDS Integers, Sequences, FiniteSets, Functions, FiniteSetsExt

CONSTANTS
    NParts,       \* parts of the request, with external ids 1..NParts
    AreaOf,       \* total area of each set of parts
    Capacity,     \* usable area of a sheet; all sheets are alike
    Consolidate,  \* consolidation runs inside a subset run
    Lns,          \* so does the LNS polish
    MaxWindow,    \* max_window of both
    MaxAttempts   \* MAX_PEEL_ATTEMPTS

Parts == 1..NParts

ASSUME PeelingAssumption ==
    /\ NParts \in Nat \ {0}
    /\ Capacity \in Nat \ {0}
    /\ Consolidate \in BOOLEAN /\ Lns \in BOOLEAN
    /\ MaxWindow \in Nat \ {0, 1}
    /\ MaxAttempts \in Nat \ {0}

\* Areas of sets of parts add up, and every part has one and fits a sheet.
ASSUME AreaAssumption ==
    /\ AreaOf \in [SUBSET Parts -> Nat]
    /\ AreaOf[{}] = 0
    /\ \A S, T \in SUBSET Parts :
        S \cap T = {} => AreaOf[S \cup T] = AreaOf[S] + AreaOf[T]
    /\ \A p \in Parts : AreaOf[{p}] \in 1..Capacity

VARIABLES
    pc,         \* where the peeling is
    remaining,  \* parts not frozen yet
    frozen,     \* the parts of each frozen sheet, in order
    attempt,    \* subset runs begun in this iteration
    layout,     \* layout of the subset run under way
    best,       \* layout of the best attempt of this iteration, or NoLayout
    outcome     \* "none", "applied", "fallback" or "error"

vars == <<pc, remaining, frozen, attempt, layout, best, outcome>>

Phases == {"peel", "consolidate", "lns", "compare", "columns", "freeze", "merge", "done"}
Outcomes == {"none", "applied", "fallback", "error"}

NoLayout == [part |-> [s \in {} |-> s], sheet |-> [s \in {} |-> s]]

Slots(L) == DOMAIN L.part
Sheets(L) == Range(L.sheet)
SlotsOn(L, k) == {s \in Slots(L) : L.sheet[s] = k}
PartsOn(L, k) == {L.part[s] : s \in SlotsOn(L, k)}

\* sheet_used_area; a part that is placed twice counts twice.
Load(L, k) == MapThenSumSet(LAMBDA s : AreaOf[{L.part[s]}], SlotsOn(L, k))
Fits(L, k) == Load(L, k) <= Capacity /\ AreaOf[PartsOn(L, k)] <= Capacity

\* Every part of S is placed exactly once, and nothing else.
Holds(L, S) == Slots(L) = S /\ IsInjective(L.part) /\ Range(L.part) = S

\* n_min_sheets: the area lower bound.
MinSheets == (AreaOf[Parts] + Capacity - 1) \div Capacity

LastIteration == AreaOf[remaining] <= Capacity

-----------------------------------------------------------------------------
(* Packing and repacking                                                   *)

\* The ways to distribute the slots of S over sheets named by their first slot.
Distributions ==
    [S \in SUBSET Parts |->
        {f \in [S -> S] : \A s \in S : f[s] <= s /\ f[f[s]] = f[s]}]

\* What a packer may make of the parts of S.
Packings(S) ==
    {L \in {[part |-> [p \in S |-> p], sheet |-> f] : f \in Distributions[S]} :
        \A k \in Sheets(L) : Fits(L, k)}

\* sub_prepared.cut_pieces of run_subset: the parts of the group in order, by
\* their new index.  Exactly one function qualifies.
Numberings ==
    [S \in SUBSET Parts |->
        {f \in [1..Cardinality(S) -> S] :
            \A i \in 1..Cardinality(S) : Cardinality({q \in S : q <= f[i]}) = i}]

SlotsOnAll(L, W) == {s \in Slots(L) : L.sheet[s] \in W}

\* Mutated form: every new placement is of the same part.
SpliceMutant(L, I, local, f) ==
    [part  |-> [s \in Slots(L) |-> IF s \in I THEN local[L.part[Min(I)]] ELSE L.part[s]],
     sheet |-> [s \in Slots(L) |-> IF s \in I THEN f[s] ELSE L.sheet[s]]]

\* splice_window with new sheets for the slots I and the parts looked up for
\* them by try_repack_window: the external id is used as an index of the
\* subset's cut_pieces.
Splice(L, I, local, f) ==
    [part  |-> [s \in Slots(L) |-> IF s \in I THEN local[L.part[s]] ELSE L.part[s]],
     sheet |-> [s \in Slots(L) |-> IF s \in I THEN f[s] ELSE L.sheet[s]]]

\* The sheets W become at most `target` ones; None if an id is out of range.
Repack(W, target) ==
    LET I == SlotsOnAll(layout, W)
    IN  /\ \A s \in I : layout.part[s] <= Cardinality(remaining)
        /\ \E local \in Numberings[remaining], f \in Distributions[I] :
            /\ Cardinality(Range(f)) <= target
            /\ layout' = Splice(layout, I, local, f)
            /\ \A k \in Range(f) : Fits(layout', k)

\* The windows of the consolidation: every pair, or the k emptiest sheets (the
\* limit of 12 sheets looked at is beyond the instances checked).
EmptiestFirst(W) == \A k \in W, j \in Sheets(layout) \ W : Load(layout, k) <= Load(layout, j)

Windows ==
    {W \in SUBSET Sheets(layout) :
        \/ Cardinality(W) = 2
        \/ Cardinality(W) \in 3..MaxWindow /\ EmptiestFirst(W)}

\* The windows of the LNS: the emptiest sheet and some others.
LnsWindows ==
    {W \in SUBSET Sheets(layout) :
        Cardinality(W) \in 2..MaxWindow /\ \E k \in W : EmptiestFirst({k})}

SheetCount(L) == Cardinality(Sheets(L))
MaxFreeArea(L) == Max({Capacity - Load(L, k) : k \in Sheets(L)})

\* Sheets a densest-first choice may freeze.
Densest(L) == {k \in Sheets(L) : \A j \in Sheets(L) : Load(L, j) <= Load(L, k)}

Surplus(a, b) == IF a > b THEN a - b ELSE 0     \* saturating_sub

\* An attempt is eligible if what is left after freezing its densest sheet can
\* still fit the sheets left, by area.
Eligible(L) ==
    ~LastIteration =>
        \A k \in Densest(L) :
            Surplus(AreaOf[remaining], Load(L, k)) <= Capacity * Surplus(MinSheets, Len(frozen) + 1)

DistinctOn(L, k) == \A s, t \in SlotsOn(L, k) : L.part[s] = L.part[t] => s = t

Finish(result) == pc' = "done" /\ outcome' = result

-----------------------------------------------------------------------------
(* Mutated forms of the definitions below: what a bug in them would be.    *)

RefineWindowMutant ==       \* a lateral move need not free any area
    /\ pc = "lns"
    /\ \E W \in LnsWindows : Repack(W, Cardinality(W))
    /\ SheetCount(layout') <= SheetCount(layout)
    /\ UNCHANGED <<pc, remaining, frozen, attempt, best, outcome>>

FreezeRestMutant ==         \* only one sheet of the rest is kept
    /\ pc = "freeze"
    /\ best # NoLayout
    /\ LastIteration
    /\ pc' = "merge"
    /\ \E k \in Sheets(best) :
        best' = [part  |-> Restrict(best.part, SlotsOn(best, k)),
                 sheet |-> Restrict(best.sheet, SlotsOn(best, k))]
    /\ UNCHANGED <<remaining, frozen, attempt, layout, outcome>>

MergeMutant ==              \* surplus sheets are accepted
    /\ pc = "merge"
    /\ Finish("applied")
    /\ UNCHANGED <<remaining, frozen, attempt, layout, best>>

-----------------------------------------------------------------------------
Init ==
    /\ pc = IF MinSheets < 2 THEN "done" ELSE "peel"
    /\ outcome = IF MinSheets < 2 THEN "fallback" ELSE "none"
    /\ remaining = Parts
    /\ frozen = <<>>
    /\ attempt = 0
    /\ layout = NoLayout
    /\ best = NoLayout

\* The total budget is used up at the start of an iteration.
PeelBudgetExhausted ==
    /\ pc = "peel"
    /\ attempt = 0
    /\ Finish("fallback")
    /\ UNCHANGED <<remaining, frozen, attempt, layout, best>>

\* run_subset packs all remaining parts.
RunSubset ==
    /\ pc = "peel"
    /\ attempt < MaxAttempts
    /\ attempt' = attempt + 1
    /\ layout' \in Packings(remaining)
    /\ pc' = IF Consolidate THEN "consolidate" ELSE IF Lns THEN "lns" ELSE "compare"
    /\ UNCHANGED <<remaining, frozen, best, outcome>>

\* The subset run times out or finds no layout: the next attempt is made.
SubsetFails ==
    /\ pc = "peel"
    /\ attempt < MaxAttempts
    /\ attempt' = attempt + 1
    /\ UNCHANGED <<pc, remaining, frozen, layout, best, outcome>>

\* An internal error of the subset run is passed on to the caller.
SubsetBreaks ==
    /\ pc = "peel"
    /\ attempt < MaxAttempts
    /\ Finish("error")
    /\ UNCHANGED <<remaining, frozen, attempt, layout, best>>

\* A window of the consolidation fits one sheet less.
ConsolidateWindow ==
    /\ pc = "consolidate"
    /\ \E W \in Windows : Repack(W, Cardinality(W) - 1)
    /\ SheetCount(layout') < SheetCount(layout)
    /\ UNCHANGED <<pc, remaining, frozen, attempt, best, outcome>>

\* No window fits, or the passes or the deadline are used up.
ConsolidateEnds ==
    /\ pc = "consolidate"
    /\ pc' = IF Lns THEN "lns" ELSE "compare"
    /\ UNCHANGED <<remaining, frozen, attempt, layout, best, outcome>>

\* A window of the LNS fits fewer sheets, or frees more of one sheet.
RefineWindow ==
    /\ pc = "lns"
    /\ \E W \in LnsWindows : Repack(W, Cardinality(W))
    /\ \/ SheetCount(layout') < SheetCount(layout)
       \/ SheetCount(layout') = SheetCount(layout) /\ MaxFreeArea(layout') > MaxFreeArea(layout)
    /\ UNCHANGED <<pc, remaining, frozen, attempt, best, outcome>>

RefineEnds ==
    /\ pc = "lns"
    /\ pc' = "compare"
    /\ UNCHANGED <<remaining, frozen, attempt, layout, best, outcome>>

\* peel_candidate_better, against the best attempt so far.  Which of two
\* eligible attempts wins depends on waste regions that areas do not show; on
\* the last iteration more sheets never win over fewer.
MayReplaceBest(L) ==
    /\ Eligible(L)
    /\ LastIteration /\ best # NoLayout => SheetCount(L) <= SheetCount(best)

MustReplaceBest(L) ==
    /\ Eligible(L)
    /\ LastIteration /\ best # NoLayout => SheetCount(L) < SheetCount(best)

Compete(L) ==
    \/ MayReplaceBest(L) /\ best' = L
    \/ ~MustReplaceBest(L) /\ best' = best

Compare ==
    /\ pc = "compare"
    /\ pc' = "peel"
    /\ Compete(layout)
    /\ UNCHANGED <<remaining, frozen, attempt, layout, outcome>>

\* The attempts end, by number or by time; at least one is made.
AttemptsEnd ==
    /\ pc = "peel"
    /\ attempt > 0
    /\ pc' = "columns"
    /\ UNCHANGED <<remaining, frozen, attempt, layout, best, outcome>>

\* build_column_candidates: one sheet of some of the parts, or, on the last
\* iteration, sheets that hold all of them.  The best of those constructed, if
\* any, competes with the best attempt.
ColumnLayouts ==
    IF LastIteration
    THEN Packings(remaining)
    ELSE {L \in UNION {Packings(S) : S \in (SUBSET remaining) \ {{}}} : SheetCount(L) = 1}

Columns ==
    /\ pc = "columns"
    /\ pc' = "freeze"
    /\ \/ best' = best
       \/ \E L \in ColumnLayouts : Compete(L)
    /\ UNCHANGED <<remaining, frozen, attempt, layout, outcome>>

\* No attempt was eligible.
PeelFails ==
    /\ pc = "freeze"
    /\ best = NoLayout
    /\ Finish("fallback")
    /\ UNCHANGED <<remaining, frozen, attempt, layout, best>>

\* The densest sheet is frozen and its parts leave the pool.
FreezeDensest ==
    /\ pc = "freeze"
    /\ best # NoLayout
    /\ ~LastIteration
    /\ \E k \in Densest(best) :
        /\ DistinctOn(best, k)
        /\ frozen' = Append(frozen, PartsOn(best, k))
        /\ remaining' = remaining \ PartsOn(best, k)
    /\ pc' = IF remaining' = {} THEN "merge" ELSE "peel"
    /\ attempt' = 0
    /\ layout' = NoLayout
    /\ best' = NoLayout
    /\ UNCHANGED outcome

\* The densest sheet holds a part twice: "missing_external_ids".
FreezeRefused ==
    /\ pc = "freeze"
    /\ best # NoLayout
    /\ ~LastIteration
    /\ \E k \in Densest(best) : ~DistinctOn(best, k)
    /\ Finish("fallback")
    /\ UNCHANGED <<remaining, frozen, attempt, layout, best>>

\* The rest fits one sheet by area: the whole layout in `best` is kept.
FreezeRest ==
    /\ pc = "freeze"
    /\ best # NoLayout
    /\ LastIteration
    /\ pc' = "merge"
    /\ UNCHANGED <<remaining, frozen, attempt, layout, best, outcome>>

\* More sheets than the lower bound are a regression: the regular pipeline
\* takes over.
TotalSheets == Len(frozen) + SheetCount(best)

Merge ==
    /\ pc = "merge"
    /\ Finish(IF TotalSheets > MinSheets THEN "fallback" ELSE "applied")
    /\ UNCHANGED <<remaining, frozen, attempt, layout, best>>

Done == pc = "done" /\ UNCHANGED vars

Next ==
    \/ PeelBudgetExhausted \/ RunSubset \/ SubsetFails \/ SubsetBreaks
    \/ ConsolidateWindow \/ ConsolidateEnds \/ RefineWindow \/ RefineEnds
    \/ Compare \/ AttemptsEnd \/ Columns
    \/ PeelFails \/ FreezeDensest \/ FreezeRefused \/ FreezeRest \/ Merge
    \/ Done

Spec == Init /\ [][Next]_vars

\* The peeling runs whenever it can; the clock is not needed for it to end.
FairSpec == Spec /\ WF_vars(Next)
-----------------------------------------------------------------------------
IsLayout(L) ==
    /\ Slots(L) \subseteq Parts
    /\ L \in [part : [Slots(L) -> Parts], sheet : [Slots(L) -> Slots(L)]]

TypeOK ==
    /\ pc \in Phases
    /\ remaining \subseteq Parts
    /\ frozen \in Seq(SUBSET Parts)
    /\ attempt \in 0..MaxAttempts
    /\ IsLayout(layout)
    /\ IsLayout(best)
    /\ outcome \in Outcomes

\* Each part is on exactly one frozen sheet or still to be packed, never both.
PeelingPartitions ==
    /\ \A i \in DOMAIN frozen : frozen[i] # {} /\ frozen[i] \cap remaining = {}
    /\ \A i, j \in DOMAIN frozen : i # j => frozen[i] \cap frozen[j] = {}
    /\ \A p \in Parts \ remaining : \E i \in DOMAIN frozen : p \in frozen[i]

\* A peeling that is applied places every part of the request exactly once,
\* whatever the subset runs it is made of did to the parts.
PartsConserved ==
    outcome = "applied" => PeelingPartitions /\ Holds(best, remaining)

\* It never uses more sheets than any layout needs.
AppliedIsMinimal == outcome = "applied" => TotalSheets = MinSheets

\* On the whole request the post-processes keep the set of parts.
WholeRequestKept ==
    pc \in {"consolidate", "lns", "compare"} /\ remaining = Parts => Holds(layout, Parts)

\* Every peeling ends, because each repack that is accepted and each iteration
\* is progress; no deadline is needed.
PeelingEnds == <>(outcome # "none")

\* What the comment on consolidate_underfull_sheets says of every run: "the
\* parts set is preserved exactly".
PartsPreserved ==
    pc \in {"consolidate", "lns", "compare"} => Holds(layout, remaining)
=============================================================================
