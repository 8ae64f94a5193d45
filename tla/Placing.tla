------------------------------- MODULE Placing -------------------------------
(***************************************************************************)
(* From the plans the engine hands back to the plan that is answered.      *)
(* pick_best_candidate compacts every valid plan piece by piece, restores  *)
(* the engine's own plan when the compacted one brings pieces closer than  *)
(* the blade is wide, and keeps the best plan so far                       *)
(* (src/src/optimizer.rs:2661-2727, 4842-4985).  The group-shift           *)
(* post-processor then pushes groups of pieces together, one best move per *)
(* pass, and nothing looks at the result again (5459-5520).  A sheet the   *)
(* peeling takes from the constructors (module Columns) is not compacted,  *)
(* but it is shifted like the others.                                      *)
(*                                                                         *)
(* In between, build_solutions and apply_qty_limits turn the plan into the *)
(* response; neither moves a piece (module Assembly).                      *)
(***************************************************************************)
EXTENDS GroupShift, Columns

CONSTANTS
    Jobs,           \* [objective, groupShift] of a request, and the engine's
                    \* solution set, a sequence of [valid, plan], or the parts
                    \* a sheet is constructed of and whether all of them are
    MaxPasses,      \* group_shift.max_passes
    Constructed(_, _, _)    \* what build_column_candidates makes: BuiltPlans of
                    \* module Columns.  (A parameter because TLC expands all an
                    \* action names, and this is too deep for it.)

\* Pieces as the engine places them, and as the constructors do; a plan is a
\* sequence of sheets with their pieces.
Pieces == [at : [Axes -> Nat], size : [Axes -> Lengths]]
             \cup [id : Nat, at : [Axes -> Nat], size : [Axes -> Lengths]]
Layouts == Seq([size : [Axes -> Lengths], pieces : Seq(Pieces)])

\* A plan that can be cut: every piece on its sheet, none on another one, and
\* a blade's width between any two.
Cuttable(p) == Disjoint(p) /\ KerfClear(p) /\ \A s \in DOMAIN p : OnSheet(p[s])

\* What the packer promises: its plans can be cut.  A request has a solution
\* set, or parts to construct sheets of, each of which fits the sheet one way.
ASSUME JobsAssumption ==
    /\ MaxPasses \in Nat
    /\ \A j \in Jobs :
          /\ j.groupShift \in BOOLEAN
          /\ j.batch \in Seq([valid : BOOLEAN, plan : Layouts])
          /\ \A k \in DOMAIN j.batch : j.batch[k].valid => Cuttable(j.batch[k].plan)
          /\ j.parts # <<>> =>
                /\ j.batch = <<>>
                /\ j.whole \in BOOLEAN
                /\ j.sheet \in [Axes -> Lengths]
                /\ j.parts \in Seq([size : [Axes -> Lengths], turn : BOOLEAN])
                /\ \A i \in DOMAIN j.parts :
                      \E size \in Range(Orientations(j.parts[i])) :
                            \A a \in Axes : size[a] <= j.sheet[a]

ASSUME ConstructedAssumption ==
    \A j \in Jobs :
        j.parts # <<>> =>
            Constructed(j.parts, j.sheet, j.whole) = BuiltPlans(j.parts, j.sheet, j.whole)

VARIABLES
    job,            \* the request and the engine's solution set
    next,           \* index of the solution at hand
    plan,           \* its sheets, as compacted so far; later the plan answered
    at,             \* the sheet and the piece compaction is at
    moved,          \* has compaction moved a piece, and in this pass
    finals,         \* the plan each solution became, <<>> for a refused one
    best,           \* index of the best so far, 0 for none
    counters,       \* how often each verdict was given
    passes,         \* group-shift passes made
    stage           \* "take", "slide", "shift" or "done"

vars == <<job, next, plan, at, moved, finals, best, counters,
          passes, stage>>

VerdictNames == {Verdicts[d] : d \in DOMAIN Verdicts} \cup {"better", "equal", "invalid"}

Init ==
    /\ job \in Jobs
    /\ next = 1
    /\ plan = <<>>
    /\ at = <<1, 1>>
    /\ moved = [ever |-> FALSE, pass |-> FALSE]
    /\ finals = <<>>
    /\ best = 0
    /\ counters = [v \in VerdictNames |-> 0]
    /\ passes = 0
    /\ stage = "take"

Count(verdict) == counters' = [counters EXCEPT ![verdict] = @ + 1]

-----------------------------------------------------------------------------
(***************************************************************************)
(* pick_best_candidate.                                                    *)
(***************************************************************************)
\* A plan with a negative fitness is counted and passed over.
Refuse ==
    /\ stage = "take" /\ next <= Len(job.batch)
    /\ ~job.batch[next].valid
    /\ Count("invalid")
    /\ finals' = Append(finals, <<>>)
    /\ next' = next + 1
    /\ UNCHANGED <<job, plan, at, moved, best, passes, stage>>

Take ==
    /\ stage = "take" /\ next <= Len(job.batch)
    /\ job.batch[next].valid
    /\ plan' = job.batch[next].plan
    /\ at' = <<1, 1>>
    /\ moved' = [ever |-> FALSE, pass |-> FALSE]
    /\ stage' = "slide"
    /\ UNCHANGED <<job, next, finals, best, counters, passes>>

\* The x slide comes first; the y slide starts from the new x.
SlidePiece ==
    LET s == at[1]
        i == at[2]
        old == plan[s].pieces
        new == Slid(Slid(old, i, 1), i, 2)
        slid == CanSlide(old, i, 1) \/ CanSlide(Slid(old, i, 1), i, 2)
    IN  /\ stage = "slide"
        /\ s <= Len(plan) /\ i <= Len(old)
        /\ plan' = [plan EXCEPT ![s].pieces = new]
        /\ moved' = [ever |-> moved.ever \/ slid, pass |-> moved.pass \/ slid]
        /\ at' = <<s, i + 1>>
        /\ UNCHANGED <<job, next, finals, best, counters, passes,
                       stage>>

\* A sheet is gone through until a pass moves nothing.
EndPass ==
    /\ stage = "slide"
    /\ at[1] <= Len(plan) /\ at[2] > Len(plan[at[1]].pieces)
    /\ at' = IF moved.pass THEN <<at[1], 1>> ELSE <<at[1] + 1, 1>>
    /\ moved' = [moved EXCEPT !.pass = FALSE]
    /\ UNCHANGED <<job, next, plan, finals, best, counters, passes,
                   stage>>

\* Mutants: no guard, and the bounding box centred on its sheet afterwards, as
\* it once was.
GuardedMutant == plan
GuardedCentredMutant ==
    LET Slack(s, a) == plan[s].size[a]
            - Max({Hi(plan[s].pieces[i], a) : i \in DOMAIN plan[s].pieces})
        Centred(s) == [i \in DOMAIN plan[s].pieces |->
            [plan[s].pieces[i] EXCEPT !.at =
                [a \in Axes |-> @[a] + Slack(s, a) \div 2]]]
    IN  [s \in DOMAIN plan |-> [plan[s] EXCEPT !.pieces = Centred(s)]]

\* compact_solution_guarded: the engine's plan comes back when the compacted
\* one has pieces too close to cut apart.
Guarded == IF moved.ever /\ ~KerfClear(plan) THEN job.batch[next].plan ELSE plan

\* A plan as good as the best so far does not replace it.
Rank ==
    LET verdict == IF best = 0 THEN "better"
                   ELSE CompareCandidates(Figures(Guarded),
                                          Figures(finals[best]), job.objective)
    IN  /\ stage = "slide" /\ at[1] > Len(plan)
        /\ finals' = Append(finals, Guarded)
        /\ best' = IF verdict = "better" THEN next ELSE best
        /\ Count(verdict)
        /\ next' = next + 1
        /\ plan' = <<>>
        /\ at' = <<1, 1>>
        /\ stage' = "take"
        /\ UNCHANGED <<job, moved, passes>>

-----------------------------------------------------------------------------
(***************************************************************************)
(* apply_group_shift_postprocess.                                          *)
(***************************************************************************)
\* Mutant: the last plan compared is the one that goes on.
PickedMutant ==
    /\ stage = "take" /\ next > Len(job.batch) /\ job.parts = <<>>
    /\ plan' = IF best = 0 THEN <<>> ELSE finals[Len(finals)]
    /\ stage' = IF best # 0 /\ job.groupShift THEN "shift" ELSE "done"
    /\ UNCHANGED <<job, next, at, moved, finals, best, counters, passes>>

\* Without a single valid plan there is nothing to answer.
Picked ==
    /\ stage = "take" /\ next > Len(job.batch) /\ job.parts = <<>>
    /\ plan' = IF best = 0 THEN <<>> ELSE finals[best]
    /\ stage' = IF best # 0 /\ job.groupShift THEN "shift" ELSE "done"
    /\ UNCHANGED <<job, next, at, moved, finals, best, counters,
                   passes>>

\* build_column_candidates, and the peeling's choice of any one of them.
Construct ==
    /\ stage = "take" /\ job.parts # <<>>
    /\ plan' \in Constructed(job.parts, job.sheet, job.whole)
    /\ stage' = IF job.groupShift THEN "shift" ELSE "done"
    /\ UNCHANGED <<job, next, at, moved, finals, best, counters,
                   passes>>

Shift ==
    /\ stage = "shift" /\ passes < MaxPasses
    /\ \E sm \in BestMoves(plan) : plan' = Shifted(plan, sm)
    /\ passes' = passes + 1
    /\ UNCHANGED <<job, next, at, moved, finals, best, counters,
                   stage>>

Answer ==
    /\ stage = "shift"
    /\ passes = MaxPasses \/ BestMoves(plan) = {}
    /\ stage' = "done"
    /\ UNCHANGED <<job, next, plan, at, moved, finals, best,
                   counters, passes>>

\* The answer is given and nothing more happens.
Done == stage = "done" /\ UNCHANGED vars

Next ==
    \/ Refuse \/ Take \/ SlidePiece \/ EndPass \/ Rank
    \/ Picked \/ Construct \/ Shift \/ Answer \/ Done

Spec == Init /\ [][Next]_vars

\* One thread runs the loop to its end.  This is WF_vars(Next) with ENABLED
\* written out: there is always a next step until the answer is given (no run
\* finds a deadlock), and none after it.
Fairness == []<><<Next>>_vars \/ []<>(stage = "done")
FairSpec == Spec /\ Fairness

-----------------------------------------------------------------------------
Solutions == DOMAIN finals
Valid == {k \in Solutions : job.batch[k].valid}

\* No sheet is added, resized or dropped, and every piece keeps its size, its
\* sheet and its place in the list: placing only moves pieces.
SameParts(p, q) ==
    /\ DOMAIN p = DOMAIN q
    /\ \A s \in DOMAIN p :
        /\ p[s].size = q[s].size
        /\ DOMAIN p[s].pieces = DOMAIN q[s].pieces
        /\ \A i \in DOMAIN p[s].pieces :
              p[s].pieces[i].size = q[s].pieces[i].size

\* Type correctness, with the promise that no step takes a piece off its
\* sheet: compaction ends at 0 and a group shift at the usable edge.
TypeOK ==
    /\ plan \in Layouts
    /\ finals \in Seq(Layouts)
    /\ stage \in {"take", "slide", "shift", "done"}
    /\ next \in 1 .. Len(job.batch) + 1
    /\ Len(finals) = next - 1
    /\ best \in {0} \cup Valid
    /\ at \in Nat \X Nat
    /\ moved \in [ever : BOOLEAN, pass : BOOLEAN]
    /\ counters \in [VerdictNames -> Nat]
    /\ passes \in 0 .. MaxPasses
    /\ \A s \in DOMAIN plan : OnSheet(plan[s])
    /\ stage = "slide" => SameParts(plan, job.batch[next].plan)
    /\ best # 0 /\ stage \in {"shift", "done"} => SameParts(plan, job.batch[best].plan)

\* Safety: whatever compaction does, a plan that enters the comparison, and
\* so the one that is picked, can be cut: the guard of compact_solution_guarded
\* gives back the engine's plan when pieces have come too close.  With a blade
\* of no width the guard sees nothing, and the slides must keep pieces apart.
KerfKept == \A k \in Valid : KerfClear(finals[k]) /\ Disjoint(finals[k])

\* Safety: what the peeling takes for granted of a constructed plan: it can be
\* cut, no part is in it twice or turned although it must not be, and all
\* parts are in it when all were asked for; also after the shelves have been
\* put in another order.
ConstructedHolds ==
    job.parts # <<>> /\ plan # <<>> =>
        LET pieces == FlattenSeq([s \in DOMAIN plan |-> plan[s].pieces])
            ids == [i \in DOMAIN pieces |-> pieces[i].id]
        IN  /\ passes = 0 => KerfClear(plan)
            /\ IsInjective(ids)
            /\ job.whole => Range(ids) = DOMAIN job.parts
            /\ \A i \in DOMAIN pieces :
                  pieces[i].size \in Range(Orientations(job.parts[ids[i]]))

\* Safety: compaction only adds to the remnant at the bottom right corner that
\* the comparison looks at first after the objective, on every sheet of every
\* plan (the reason the bounding box is no longer centred on the sheet).
CornerNeverShrinks ==
    \A k \in Valid : \A s \in DOMAIN finals[k] :
        CornerFree(finals[k][s]) >= CornerFree(job.batch[k].plan[s])

\* Safety: a compacted plan is at rest: no piece of it can slide any further,
\* whichever slide made room for whichever other (unless the guard took the
\* engine's plan back).
Settled ==
    \A k \in Valid :
        \/ finals[k] = job.batch[k].plan
        \/ \A s \in DOMAIN finals[k] : \A a \in Axes :
              \A i \in DOMAIN finals[k][s].pieces :
                ~CanSlide(finals[k][s].pieces, i, a)

\* Safety: the pick does not depend on the order of the engine's list: no
\* valid plan, compacted, does better on the objective, nor as well with a
\* larger corner remnant, and the pick is the first of its equals.
PickedIsBest ==
    LET FiguresOf(k) == Figures(finals[k])
        Aim(k) == Primary(FiguresOf(k), job.objective)
    IN  stage = "done" => \A k \in Valid :
            /\ best # 0
            /\ ~Beats(Aim(k), Aim(best))
            /\ Aim(k) = Aim(best) =>
                    FiguresOf(k).corner <= FiguresOf(best).corner
            /\ FiguresOf(k) = FiguresOf(best) => best <= k

\* Safety: a rejection on the objective stands: every plan counted as worse
\* on the objective than the best of its time does worse than the final pick.
RejectionsStand == stage = "done" =>
    counters["primary_objective"] <=
        Cardinality({k \in Valid :
            Beats(Primary(Figures(finals[best]), job.objective),
                  Primary(Figures(finals[k]), job.objective))})

\* The choice is right, and so is what is said about it.
PickHonest == PickedIsBest /\ RejectionsStand

\* Action property: a single group shift of a plan that can be cut never
\* pushes a piece onto another one, though it may leave two too close.
ShiftKeepsApart == [][stage = "shift" /\ Cuttable(plan) => Disjoint(plan')]_vars

\* What compact_solution_guarded says of the pipeline: "the service must never
\* emit an invalid layout as `status: ok`" (src/src/optimizer.rs:4838-4841).
PartsDisjoint == stage = "done" => Disjoint(plan)

\* Liveness: compaction comes to rest on every sheet and the answer is given,
\* however many slides make room for one another.
PlacingEnds == <>(stage = "done" /\ Settled)
=============================================================================
