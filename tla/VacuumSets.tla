----------------------------- MODULE VacuumSets ------------------------------
(***************************************************************************)
(* What the theorems about the vacuum layout of VacuumTable speak of: the  *)
(* rows, loads and plans that its planners may have in each step of their  *)
(* loops, and what makes a plan sound and a layout right.                  *)
(***************************************************************************)
EXTENDS VacuumTable, SheetSets

\* A part as it may lie, with its number; the rows that some parts make, none of
\* a row deeper than its first; and rows one behind the other.
SlabsOf(parts, ids) == {s \in Slabs : s.id \in ids /\ s.size \in Range(Orientations(parts[s.id]))}
RowsOf(parts, ids, axis) ==
    {row \in Seq(SlabsOf(parts, ids)) :
        /\ Len(row) > 0
        /\ \A i \in 1 .. Len(row) : row[i].size[Across(axis)] <= row[1].size[Across(axis)]}
Crosses(rows, axis) == [k \in DOMAIN rows |-> RowCross(rows[k], axis)]

\* Numbers of the parts in rows.
HasId(pieces, id) == \E i \in 1 .. Len(pieces) : pieces[i].id = id

\* Whether rows are no longer than a table, and together no deeper.
Within(rows, axis, table) ==
    /\ CrossUsed(rows, axis) <= table[Across(axis)]
    /\ \A k \in 1 .. Len(rows) : RowUsed(rows[k], axis) <= table[axis]

\* Whether a part is in some loads.
InLoads(loads, id) == \E k \in 1 .. Len(loads) : id \in IdsOf(loads[k])

\* A load of a plan: pieces on a table of that size, as their parts may lie and
\* a cut apart, of some parts.
LoadDrawn(load, parts, ids, table) ==
    /\ load \in NumberedSheets /\ load.size = table /\ load.pieces # <<>>
    /\ Clear(load.pieces) /\ Alike(parts, load.pieces)
    /\ \A i \in 1 .. Len(load.pieces) : load.pieces[i].id \in ids
NoneEmpty(loads) == \A k \in 1 .. Len(loads) : Len(loads[k]) > 0
PlanOfRows(plan, loads, left, parts, ids, axis, table) ==
    /\ plan.loads \in Seq(NumberedSheets) /\ Len(plan.loads) = Len(loads)
    /\ plan.axis = axis /\ plan.left = left /\ plan.fill \in Int
    /\ \A k \in 1 .. Len(loads) :
         /\ LoadDrawn(plan.loads[k], parts, ids, table)
         /\ \A id : HasId(plan.loads[k].pieces, id) <=> id \in IdsOf(loads[k])
         /\ Within(loads[k], axis, table) => OnSheet(plan.loads[k])
         /\ OnceInRows(loads[k]) => OnceEach(plan.loads[k].pieces)
    /\ \A id : Present(plan.loads, id) <=> InLoads(loads, id)

\* No part is in two loads.
Parted(loads) ==
    \A k, l \in 1 .. Len(loads) : \A id : id \in IdsOf(loads[k]) /\ id \in IdsOf(loads[l]) => k = l

\* Of those that none beats the one with the least number comes first.
ComesFirst(S, key, i) == \A j \in S \ {i} : ~Beats(key[j], key[i]) /\ (key[j] = key[i] => i < j)

\* No number twice in a row.
OnceInRow(row) == \A i, j \in 1 .. Len(row) : row[i].id = row[j].id => i = j

\* A part at the end of the last row of a load.
LastWith(rows, slab) == [rows EXCEPT ![Len(rows)] = Append(@, slab)]

\* A loop of n steps whose states after k of them are in S[k].
LoopsIn(n, S, first, F) ==
    {h \in [0 .. n -> UNION {S[k] : k \in 0 .. n}] :
        /\ h[0] = first /\ \A k \in 1 .. n : h[k] = F[k][h[k - 1]]
        /\ \A k \in 0 .. n : h[k] \in S[k]}

\* How the parts of a list fit into some room, those that do, and the first of
\* them as it lies best.
WaysIn(parts, left, axis, primary, cross) ==
    [i \in DOMAIN left |-> Fitting(parts[left[i]], axis, primary, cross)]
Able(fits) == {i \in DOMAIN fits : fits[i] # {}}
FirstOf(left, fits, axis) ==
    [id |-> left[Min(Able(fits))], size |-> BestOrientation(fits[Min(Able(fits))], axis)]

\* What the general packer has laid and what is left of some parts.
Laid(parts, ids, axis, table) ==
    {s \in [rows : Seq(RowsOf(parts, ids, axis)), left : Seq(ids)] :
        /\ Within(s.rows, axis, table) /\ OnceInRows(s.rows)
        /\ \A id \in Elements(s.left) : id \notin IdsOf(s.rows)}

\* Each of some parts fits the table by itself.
AllFit(parts, list, axis, table) ==
    \A i \in 1 .. Len(list) : Fitting(parts[list[i]], axis, table[axis], table[Across(axis)]) # {}

\* Loads that fit a table, each part in one place.
LoadsOf(parts, ids, axis, table) ==
    {rows \in Seq(RowsOf(parts, ids, axis)) : Within(rows, axis, table) /\ OnceInRows(rows)}

\* The states of the general packer.
GeneralRun(parts, order, n, axis, table, f) ==
    f = [k \in 0 .. n |-> IF k = 0 THEN [rows |-> <<>>, left |-> order] ELSE GeneralStep(f[k - 1], parts, axis, table)]
GeneralEnd(parts, order, n, axis, table) == (CHOOSE f : GeneralRun(parts, order, n, axis, table, f))[n]

\* A row of equal parts, the next m of a list.
RowOfEqual(fit, taken, m, size) == [i \in 1 .. m |-> [id |-> fit[taken + i], size |-> size]]

\* Each of some parts may lie like this.
AllLie(parts, fit, size) == \A i \in 1 .. Len(fit) : size \in Range(Orientations(parts[fit[i]]))

\* It is a row, of as many of them, each in one place.
EvenRow(parts, ids, axis, fit, taken, m, size, row) ==
    /\ row \in RowsOf(parts, ids, axis)
    /\ RowCross(row, axis) = size[Across(axis)] /\ RowUsed(row, axis) = m * (size[axis] + Kerf) - Kerf
    /\ OnceInRow(row)
    /\ \A id \in RowIds(row) : \E i \in 1 .. Len(fit) : i > taken /\ i <= taken + m /\ id = fit[i]

\* The states of the packer of equal parts, whose rows take no more than so deep.
EqualStates(parts, ids, fit, axis, table, deep) ==
    {s \in [rows : Seq(RowsOf(parts, ids, axis)), taken : 0 .. Len(fit)] :
        /\ CrossUsed(s.rows, axis) + Kerf <= deep
        /\ \A k \in 1 .. Len(s.rows) : RowUsed(s.rows[k], axis) <= table[axis]
        /\ OnceInRows(s.rows)
        /\ \A id \in IdsOf(s.rows) : \E i \in 1 .. Len(fit) : i <= s.taken /\ id = fit[i]}
MoreOf(s, fit, size, axis, table) ==
    Min({(table[axis] + Kerf) \div (size[axis] + Kerf), Len(fit) - s.taken})
EqualStep(s, fit, size, axis, table) ==
    IF MoreOf(s, fit, size, axis, table) = 0 THEN s
    ELSE [rows |-> Append(s.rows, RowOfEqual(fit, s.taken, MoreOf(s, fit, size, axis, table), size)),
          taken |-> s.taken + MoreOf(s, fit, size, axis, table)]

\* How deep k rows are, the first of one depth and the others of another.
Depths(first, c, d, n) == [k \in 0 .. n |-> IF k <= first THEN k * c ELSE first * c + (k - first) * d]

\* Each is so much deeper than the one before.
AddUp(deep, first, c, d, n) ==
    /\ deep \in [0 .. n -> Nat] /\ deep[0] = 0
    /\ \A k \in 1 .. n : deep[k] = deep[k - 1] + (IF k <= first THEN c ELSE d)

\* The states of the packer of equal parts.
EqualRun(fit, types, first, n, axis, table, f) ==
    f = [k \in 0 .. n |->
            IF k = 0 THEN [rows |-> <<>>, taken |-> 0]
            ELSE EqualStep(f[k - 1], fit, types[IF k <= first THEN 1 ELSE 2], axis, table)]
EqualEnd(fit, types, first, n, axis, table) == (CHOOSE f : EqualRun(fit, types, first, n, axis, table, f))[n]

\* The legacy planner after k loads: as many loads if parts are left, each part
\* in one load or left.
FilledLoads(parts, ids, axis, table) == {rows \in LoadsOf(parts, ids, axis, table) : rows # <<>>}
LegacyStates(parts, ids, axis, table, k) ==
    {s \in [loads : Seq(FilledLoads(parts, ids, axis, table)), left : Seq(ids)] :
        /\ Parted(s.loads) /\ Distinct(s.left)
        /\ \A id \in ids : id \in Elements(s.left) <=> ~InLoads(s.loads, id)
        /\ Len(s.loads) <= k /\ (s.left # <<>> => Len(s.loads) = k)}
RowsNext(s, parts, axis, table) == IF s.left = <<>> THEN <<>> ELSE LegacyLoad(parts, s.left, axis, table)
LegacyStep(s, parts, axis, table) ==
    IF RowsNext(s, parts, axis, table) = <<>> THEN s
    ELSE [loads |-> Append(s.loads, RowsNext(s, parts, axis, table)),
          left |-> Without(s.left, IdsOf(RowsNext(s, parts, axis, table)))]

\* Each of some parts, by their numbers, fits the table by itself.
EachFits(parts, ids, axis, table) ==
    \A id \in ids : Fitting(parts[id], axis, table[axis], table[Across(axis)]) # {}

\* The states of the legacy planner.
LegacyRun(parts, fit, axis, table, n, f) ==
    f = [k \in 0 .. n |-> IF k = 0 THEN [loads |-> <<>>, left |-> fit] ELSE LegacyStep(f[k - 1], parts, axis, table)]
LegacyEnd(parts, fit, axis, table, n) == (CHOOSE f : LegacyRun(parts, fit, axis, table, n, f))[n]

\* A plan that can be pressed: its loads are drawn from the parts of a list and
\* on the table, each part of the list is on one or left, and if one is left
\* there are as many loads as may be.
PlanSound(plan, parts, fit, table, most) ==
    /\ plan.loads \in Seq(NumberedSheets) /\ plan.axis \in Axes /\ plan.fill \in Int
    /\ \A k \in 1 .. Len(plan.loads) :
          LoadDrawn(plan.loads[k], parts, Elements(fit), table) /\ OnSheet(plan.loads[k])
    /\ OnceInPlan(plan.loads)
    /\ plan.left \in Seq(Elements(fit))
    /\ \A id \in Elements(fit) : id \in Elements(plan.left) <=> ~Present(plan.loads, id)
    /\ Len(plan.loads) <= most /\ (plan.left # <<>> => Len(plan.loads) = most)

\* One more part in the row, or none.
RowStep(row, parts, fit, axis, table) ==
    IF NextInRow(parts, fit, row, axis, table) = {} THEN row
    ELSE Append(row, CHOOSE p \in NextInRow(parts, fit, row, axis, table) : TRUE)

\* The states of the row.
RowRun(parts, fit, seed, axis, table, f) ==
    f = [n \in 1 .. Len(fit) |-> IF n = 1 THEN <<seed>> ELSE RowStep(f[n - 1], parts, fit, axis, table)]

\* The width-first planner after k rows: each part is in a row or left, and one
\* part is gone with each row.
WidthStates(parts, ids, axis, m, k) ==
    {s \in [rows : Seq(RowsOf(parts, ids, axis)), left : Seq(ids)] :
        /\ \A id \in ids : id \in Elements(s.left) <=> id \notin IdsOf(s.rows)
        /\ s.left = <<>> \/ Len(s.left) + k <= m}
WidthStep(s, parts, axis, table) ==
    IF s.left = <<>> THEN s
    ELSE [rows |-> Append(s.rows, BestRow(parts, s.left, axis, table)),
          left |-> Without(s.left, RowIds(BestRow(parts, s.left, axis, table)))]

\* Its states.
WidthRun(parts, fit, axis, table, n, f) ==
    f = [k \in 0 .. n |-> IF k = 0 THEN [rows |-> <<>>, left |-> fit] ELSE WidthStep(f[k - 1], parts, axis, table)]
WidthEnd(parts, fit, axis, table, n) == (CHOOSE f : WidthRun(parts, fit, axis, table, n, f))[n]

\* Rows of a load that has some.
SomeRows(parts, ids, axis) == {rows \in Seq(RowsOf(parts, ids, axis)) : rows # <<>>}

\* Whether packing one row kept what was packed and packed it, unless there are
\* as many loads as may be.
Packs(old, new, row, parts, ids, axis, most) ==
    /\ new \in Seq(SomeRows(parts, ids, axis)) /\ Len(new) <= most /\ Len(old) <= Len(new)
    /\ \A id : InLoads(old, id) => InLoads(new, id)
    /\ Len(new) < most => \A id \in RowIds(row) : InLoads(new, id)

\* A row behind the others of a load.
Behind(state, k, row) == [state EXCEPT ![k] = Append(@, row)]

\* The loads after k of the rows.
PackStates(parts, ids, order, axis, most, k) ==
    {loads \in Seq(SomeRows(parts, ids, axis)) :
        /\ Len(loads) <= most
        /\ Len(loads) < most => \A j \in 1 .. k : \A id \in RowIds(order[j]) : InLoads(loads, id)}
PackRun(order, axis, table, most, n, f) ==
    f = [k \in 0 .. n |-> IF k = 0 THEN <<>> ELSE PackRow(f[k - 1], order[k], axis, table, most)]
PackEnd(order, axis, table, most, n) == (CHOOSE f : PackRun(order, axis, table, most, n, f))[n]

\* A plan whose loads are drawn from the parts of a list, each part of it on one
\* or left, and as many loads as may be if one is left.
PlanDrawn(plan, parts, fit, table, most) ==
    /\ plan.loads \in Seq(NumberedSheets) /\ plan.axis \in Axes /\ plan.fill \in Int
    /\ \A k \in 1 .. Len(plan.loads) : LoadDrawn(plan.loads[k], parts, Elements(fit), table)
    /\ plan.left \in Seq(Elements(fit))
    /\ \A id \in Elements(fit) : id \in Elements(plan.left) <=> ~Present(plan.loads, id)
    /\ Len(plan.loads) <= most /\ (plan.left # <<>> => Len(plan.loads) = most)

\* The pieces of all loads of a plan.
PiecesIn(loads) == FlattenSeq([k \in DOMAIN loads |-> loads[k].pieces])

\* They are those of the loads, one by one.
Gathered(loads, flat) ==
    /\ \A i \in 1 .. Len(flat) : \E k \in 1 .. Len(loads) : \E j \in 1 .. Len(loads[k].pieces) :
            flat[i] = loads[k].pieces[j]
    /\ \A id : HasId(flat, id) <=> Present(loads, id)
    /\ OnceEach(flat) <=> OnceInPlan(loads)

\* The sheets of a solution of the engine that is found valid: all parts of a
\* list, each once.
NestedSheets(sheets, parts, fit, table) ==
    /\ sheets \in Seq(NumberedSheets)
    /\ \A k \in 1 .. Len(sheets) : LoadDrawn(sheets[k], parts, Elements(fit), table) /\ OnSheet(sheets[k])
    /\ OnceInPlan(sheets)
    /\ \A id \in Elements(fit) : Present(sheets, id)

\* The sheets of a solution.
Uprights(solution, axis, table) == [k \in DOMAIN solution |-> Upright(solution[k], axis, table)]

\* What a nested plan makes of the sheets of a solution.
NestedKey(sheets, axis) ==
    [k \in DOMAIN sheets |-> <<Len(sheets[k].pieces), Used(sheets[k]), -LoadFeed(sheets[k], axis)>>]

\* The first of the sheets in order.
Chosen(sheets, axis, n) == [k \in 1 .. n |-> Arranged(sheets, NestedKey(sheets, axis))[k]]

\* What a plan is rated by: parts placed, loads and film.
Rating(plan) == <<PlacedCount(plan), -Len(plan.loads), -Feed(plan)>>

\* A plan that rates no less than another.
NoWorse(new, old) == ~Beats(Rating(old), Rating(new))

\* The engine's promise, for every solution.
Promised(solutions, parts, fit, axis, table) ==
    /\ DOMAIN solutions = 1 .. Len(solutions) /\ Len(solutions) \in Nat
    /\ \A i \in 1 .. Len(solutions) : Nesting(solutions[i], parts, fit, axis, table)

\* The items of a request, as far as a layout looks at them.
Listed(items) ==
    /\ DOMAIN items = 1 .. Len(items) /\ Len(items) \in Nat
    /\ \A i \in 1 .. Len(items) :
         items[i].qty \in Nat /\ items[i].size \in [Axes -> Lengths] /\ items[i].turn \in BOOLEAN

\* What a layout is computed from, and the plan it is made of.
VacuumInput(items, stock, direction, solutions) ==
    /\ Listed(items)
    /\ stock.table \in [Axes -> Lengths] /\ stock.qty \in Nat
    /\ Promised(solutions, PartsOf(items), FittingParts(items, stock.table), Axis(direction, stock), stock.table)
RowPlanOf(parts, fit, stock, direction, baseline, inTime) ==
    LET advanced == WidthFirstPlan(parts, fit, Axis("optimal", stock), stock.table, MaxLoads(stock, fit))
    IN  IF direction = "optimal" /\ inTime /\ PlanValid(advanced, fit) /\ WidthFirstBetter(advanced, baseline)
        THEN advanced ELSE baseline
PlanOf(fit, stock, solutions, rowPlan) ==
    IF fit = <<>> THEN rowPlan
    ELSE WithNested(solutions, rowPlan, fit, stock.table, MaxLoads(stock, fit))

\* What VacuumHolds says of a layout.
LayoutHolds(loads, unplaced, parts, stock) ==
    LET pieces == FlattenSeq([k \in DOMAIN loads |-> loads[k].pieces])
        ids == [i \in DOMAIN pieces |-> pieces[i].id]
    IN /\ KerfClear(loads)
       /\ \A k \in DOMAIN loads : OnSheet(loads[k]) /\ loads[k].pieces # <<>>
       /\ \A i \in DOMAIN pieces : pieces[i].size \in Range(Orientations(parts[ids[i]]))
       /\ IsInjective(ids)
       /\ DOMAIN unplaced = DOMAIN parts \ Range(ids)
       /\ stock.qty > 0 => Len(loads) <= stock.qty
       /\ \A id \in DOMAIN unplaced :
              \/ unplaced[id] = "oversized" /\ Fitting(parts[id], 1, stock.table[1], stock.table[2]) = {}
              \/ unplaced[id] = "qty_limit" /\ Len(loads) = stock.qty

\* The parts a layout leaves out, and the reasons it gives.
Unplaced(parts, fit, plan, reason) ==
    [id \in (DOMAIN parts \ Range(fit)) \cup Range(plan.left) |-> IF id \in Range(fit) THEN reason ELSE "oversized"]
ReasonOf(stock, plan) == IF stock.qty > 0 /\ Len(plan.loads) >= stock.qty THEN "qty_limit" ELSE "no_space"
=============================================================================
