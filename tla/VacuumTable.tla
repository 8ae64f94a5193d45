----------------------------- MODULE VacuumTable -----------------------------
(***************************************************************************)
(* The vacuum-table layout of src/src/vacuum.rs as functions: rows of      *)
(* parts across the width of the table, whole rows packed into loads, and  *)
(* the choice between three planners.  Dispatch calls it.                  *)
(*                                                                         *)
(* Parts are numbered in the order of the request; a pool is a sequence of *)
(* such numbers.  A row runs along an axis, the primary one, and is a      *)
(* sequence of [id, size], its first part as long across the axis as any.  *)
(* Lengths are whole units and compared exactly; the code uses             *)
(* floating-point millimetres with a tolerance of 1e-7.                    *)
(***************************************************************************)
EXTENDS Sheets

RowCross(row, axis) == row[1].size[Across(axis)]
RowUsed(row, axis) == Extent([i \in DOMAIN row |-> row[i].size[axis]])
CrossUsed(rows, axis) == Extent([k \in DOMAIN rows |-> RowCross(rows[k], axis)])
RowIds(row) == {row[i].id : i \in DOMAIN row}
MinSeq(row) == Min(RowIds(row))
IdsOf(rows) == UNION {RowIds(rows[k]) : k \in DOMAIN rows}

\* rows_to_placements: a load of rows, packed to the corner of the table.
Placed(rows, axis) == InRows(rows, [k \in DOMAIN rows |-> RowCross(rows[k], axis)], axis)

\* The orientations of a part within two limits, and the largest one.
Fitting(part, axis, primary, cross) ==
    {size \in Range(Orientations(part)) :
        size[axis] <= primary /\ size[Across(axis)] <= cross}
BestOrientation(fitting, axis) ==
    CHOOSE size \in fitting : \A other \in fitting :
        ~Beats(<<other[axis], other[Across(axis)]>>, <<size[axis], size[Across(axis)]>>)

-----------------------------------------------------------------------------
(***************************************************************************)
(* The legacy planner: the best of four layouts, load after load.          *)
(***************************************************************************)
\* row_type_for: how many parts of a size a row takes; the two ways a part may
\* lie, the one that a row takes more of first.
Capacity(size, axis, table) == (table[axis] + Kerf) \div (size[axis] + Kerf)
RowTypes(part, axis, table) ==
    LET turned == Turned(part.size)
        Key(size) == <<Capacity(size, axis, table), size[Across(axis)]>>
    IN  IF Beats(Key(turned), Key(part.size)) THEN <<turned, part.size>> ELSE <<part.size, turned>>

\* How deep so many rows of either type are, and how many parts they hold.
CountsCross(counts, types, axis) ==
    counts[1] * (types[1][Across(axis)] + Kerf) + counts[2] * (types[2][Across(axis)] + Kerf) - Kerf
CountsHold(counts, types, axis, table) ==
    counts[1] * Capacity(types[1], axis, table) + counts[2] * Capacity(types[2], axis, table)

\* best_homogeneous_row_counts: of the numbers of rows that fit, those that
\* place the most of the parts.
RowCounts(part, types, most, axis, table) ==
    {counts \in (0 .. most) \X (0 .. most) :
        /\ counts[1] + counts[2] > 0 /\ CountsCross(counts, types, axis) <= table[Across(axis)]
        /\ \A i \in 1 .. 2 :
              counts[i] > 0 => types[i] \in Fitting(part, axis, table[axis], table[Across(axis)])}
BestCounts(all, types, most, axis, table) ==
    LET Held(counts) == CountsHold(counts, types, axis, table)
        key == [counts \in all |->
            <<Min({Held(counts), most}), -Max({Held(counts) - most, 0}),
              -(counts[1] + counts[2]), -CountsCross(counts, types, axis)>>]
    IN  CHOOSE counts \in all : \A other \in all : ~Beats(key[other], key[counts])

\* So many rows of either type, each of the next parts of the pool.
EqualRows(pool, types, counts, axis, table) ==
    LET state[k \in 0 .. counts[1] + counts[2]] ==
            IF k = 0 THEN [rows |-> <<>>, taken |-> 0]
            ELSE LET before == state[k - 1]
                     size == types[IF k <= counts[1] THEN 1 ELSE 2]
                     more == Min({Capacity(size, axis, table), Len(pool) - before.taken})
                     row == [i \in 1 .. more |-> [id |-> pool[before.taken + i], size |-> size]]
                 IN  IF more = 0 THEN before
                     ELSE [rows |-> Append(before.rows, row), taken |-> before.taken + more]
    IN  state[counts[1] + counts[2]].rows

\* pack_homogeneous: a load of equal parts.
Homogeneous(parts, pool, axis, table) ==
    LET part == parts[pool[1]]
        types == RowTypes(part, axis, table)
        all == RowCounts(part, types, Len(pool), axis, table)
    IN  IF all = {} \/ \E i \in DOMAIN pool : parts[pool[i]] # part THEN <<>>
        ELSE EqualRows(pool, types, BestCounts(all, types, Len(pool), axis, table), axis, table)

\* pack_general, one part at a time: the first part that fits the row at hand,
\* else the first that fits what is left of the load begins the next row.
GeneralStep(state, parts, axis, table) ==
    LET rows == state.rows
        row == rows[Len(rows)]
        Fits(primary, cross) == [i \in DOMAIN state.left |->
            Fitting(parts[state.left[i]], axis, primary, cross)]
        InRow == IF rows = <<>> THEN <<>>
                 ELSE Fits(table[axis] - RowUsed(row, axis) - Kerf, RowCross(row, axis))
        Seed == Fits(table[axis], IF rows = <<>> THEN table[Across(axis)]
                                  ELSE table[Across(axis)] - CrossUsed(rows, axis) - Kerf)
        Some(fits) == {i \in DOMAIN fits : fits[i] # {}}
        Taken(fits) == [id |-> state.left[Min(Some(fits))],
                        size |-> BestOrientation(fits[Min(Some(fits))], axis)]
    IN  IF Some(InRow) # {}
        THEN [rows |-> [rows EXCEPT ![Len(rows)] = Append(@, Taken(InRow))],
              left |-> Without(state.left, {Taken(InRow).id})]
        ELSE IF Some(Seed) # {}
        THEN [rows |-> Append(rows, <<Taken(Seed)>>),
              left |-> Without(state.left, {Taken(Seed).id})]
        ELSE state

General(parts, pool, axis, table, sorter) ==
    LET Key(size) == IF sorter = "area" THEN AreaOf(size)
                     ELSE IF sorter = "long" THEN Max({size[1], size[2]})
                     ELSE Min({size[1], size[2]})
        order == Arranged(pool, [i \in DOMAIN pool |-> <<Key(parts[pool[i]].size)>>])
        state[n \in 0 .. Len(pool)] ==
            IF n = 0 THEN [rows |-> <<>>, left |-> order]
            ELSE GeneralStep(state[n - 1], parts, axis, table)
    IN  state[Len(pool)].rows

\* score_better.  The height of the box counts before its width on either axis.
Score(rows, axis, homogeneous) ==
    LET pieces == Placed(rows, axis)
        Side(a) == Max({Hi(pieces[i], a) : i \in DOMAIN pieces})
    IN  <<Len(pieces), Used([pieces |-> pieces]), -Side(2), Side(1), homogeneous>>

\* choose_candidate, for the one axis that is asked for.
LegacyLoad(parts, pool, axis, table) ==
    LET options == <<Homogeneous(parts, pool, axis, table),
                     General(parts, pool, axis, table, "area"),
                     General(parts, pool, axis, table, "long"),
                     General(parts, pool, axis, table, "short")>>
        some == {i \in 1 .. 4 : options[i] # <<>>}
        score == [i \in some |-> Score(options[i], axis, IF i = 1 THEN 1 ELSE 0)]
    IN  IF some = {} THEN <<>>
        ELSE options[CHOOSE i \in some : \A j \in some \ {i} :
                        ~Beats(score[j], score[i]) /\ (score[j] = score[i] => i < j)]

-----------------------------------------------------------------------------
\* A plan, with the figures it is compared by: how much of the primary axis its
\* rows (or its nested loads) fill, and its parts in order.
RowPlan(loads, left, axis, table) ==
    [axis |-> axis, rows |-> loads, left |-> left,
     loads |-> [k \in DOMAIN loads |-> [size |-> table, pieces |-> Placed(loads[k], axis)]],
     fill |-> SumFunction([k \in DOMAIN loads |->
        SumFunction([r \in DOMAIN loads[k] |-> RowUsed(loads[k][r], axis)])])]

PlacedCount(plan) == SumFunction([k \in DOMAIN plan.loads |-> Len(plan.loads[k].pieces)])
LoadFeed(load, axis) == Max({0} \cup {Hi(p, Across(axis)) : p \in PieceSet(load)})
Feed(plan) == SumFunction([k \in DOMAIN plan.loads |-> LoadFeed(plan.loads[k], plan.axis)])
Sequence(plan) ==
    LET pieces == FlattenSeq([k \in DOMAIN plan.loads |-> plan.loads[k].pieces])
    IN  [i \in DOMAIN pieces |-> pieces[i].id]

\* build_legacy_plan
LegacyPlan(parts, pool, axis, table, maxSheets) ==
    LET state[n \in 0 .. maxSheets] ==
            IF n = 0 THEN [loads |-> <<>>, left |-> pool]
            ELSE LET before == state[n - 1]
                     rows == IF before.left = <<>> THEN <<>>
                             ELSE LegacyLoad(parts, before.left, axis, table)
                 IN  IF rows = <<>> THEN before
                     ELSE [loads |-> Append(before.loads, rows),
                           left |-> Without(before.left, IdsOf(rows))]
        end == state[maxSheets]
    IN  RowPlan(end.loads, end.left, axis, table)

-----------------------------------------------------------------------------
(***************************************************************************)
(* The width-first planner: the fullest rows first, then the rows into as  *)
(* few loads as they take.  (Of more than 256 parts the code tries at most *)
(* 32 as the first of a row; here every part is tried.)                    *)
(***************************************************************************)
\* best_width_first_next: the part that, with the best one after it, fills the
\* row most; {} if none fits.
NextInRow(parts, pool, row, axis, table) ==
    LET room == table[axis] - RowUsed(row, axis) - Kerf
        free == {id \in Range(pool) : id \notin RowIds(row)}
        Fits(ids, primary) == UNION {{[id |-> id, size |-> size] :
            size \in Fitting(parts[id], axis, primary, RowCross(row, axis))} : id \in ids}
        all == Fits(free, room)
        Ahead(p) == Max({0} \cup {q.size[axis] + Kerf :
                        q \in Fits(free \ {p.id}, room - p.size[axis] - Kerf)})
        key == [p \in all |-> <<p.size[axis] + Ahead(p), p.size[axis],
                                -p.size[Across(axis)], -p.id>>]
    IN  {p \in all : \A q \in all : ~Beats(key[q], key[p])}

RowFromSeed(parts, pool, seed, axis, table) ==
    LET row[n \in 1 .. Len(pool)] ==
            IF n = 1 THEN <<seed>>
            ELSE LET before == row[n - 1]
                     next == NextInRow(parts, pool, before, axis, table)
                 IN  IF next = {} THEN before
                     ELSE Append(before, CHOOSE p \in next : TRUE)
    IN  row[Len(pool)]

\* best_width_first_row, the first of the best as the seeds are tried.
BestRow(parts, pool, axis, table) ==
    LET ways(i) == Orientations(parts[pool[i]])
        seeds == {io \in (DOMAIN pool) \X {1, 2} : io[2] \in DOMAIN ways(io[1])
                    /\ ways(io[1])[io[2]] \in
                         Fitting(parts[pool[io[1]]], axis, table[axis], table[Across(axis)])}
        row == [io \in seeds |-> RowFromSeed(parts, pool,
                    [id |-> pool[io[1]], size |-> ways(io[1])[io[2]]], axis, table)]
        key == [io \in seeds |->
            <<RowUsed(row[io], axis), -RowCross(row[io], axis), Len(row[io]),
              -MinSeq(row[io]), -io[1], -io[2]>>]
    IN  row[CHOOSE io \in seeds : \A other \in seeds : ~Beats(key[other], key[io])]

\* pack_rows_best_fit, one row: onto the load it leaves the least room on; past
\* the last load it is rejected.
PackRow(state, row, axis, table, maxSheets) ==
    LET After(k) == CrossUsed(Append(state[k], row), axis)
        Open == {k \in DOMAIN state : After(k) <= table[Across(axis)]}
        best == CHOOSE k \in Open : \A j \in Open : ~Beats(<<After(j), -j>>, <<After(k), -k>>)
    IN  IF Open # {} THEN [state EXCEPT ![best] = Append(@, row)]
        ELSE IF Len(state) < maxSheets THEN Append(state, <<row>>) ELSE state

\* pack_rows_best_fit: deep rows first; then the rows of each load in order of
\* their first parts.
PackedLoads(rows, axis, table, maxSheets) ==
    LET order == Arranged(rows,
                    [k \in DOMAIN rows |-> <<RowCross(rows[k], axis), -MinSeq(rows[k])>>])
        packed[n \in 0 .. Len(rows)] ==
            IF n = 0 THEN <<>> ELSE PackRow(packed[n - 1], order[n], axis, table, maxSheets)
    IN  packed[Len(rows)]
InOrder(load) == Arranged(load, [k \in DOMAIN load |-> <<-MinSeq(load[k])>>])

\* Row after row, until no part is left.
WidthFirstRows(parts, pool, axis, table) ==
    LET state[n \in 0 .. Len(pool)] ==
            IF n = 0 THEN [rows |-> <<>>, left |-> pool]
            ELSE LET before == state[n - 1]
                     row == BestRow(parts, before.left, axis, table)
                 IN  IF before.left = <<>> THEN before
                     ELSE [rows |-> Append(before.rows, row),
                           left |-> Without(before.left, RowIds(row))]
    IN  state[Len(pool)].rows

\* build_width_first_plan
WidthFirstPlan(parts, pool, axis, table, maxSheets) ==
    LET packed == PackedLoads(WidthFirstRows(parts, pool, axis, table), axis, table, maxSheets)
        loads == [k \in DOMAIN packed |-> InOrder(packed[k])]
        ids == UNION {IdsOf(loads[k]) : k \in DOMAIN loads}
    IN  RowPlan(Arranged(loads, [k \in DOMAIN loads |-> <<-MinSeq(loads[k][1])>>]),
                Without(pool, ids), axis, table)

\* plan_is_valid: on the table, and every part once, placed or left.
PlanValid(plan, pool) ==
    /\ \A k \in DOMAIN plan.loads : OnSheet(plan.loads[k])
    /\ IsInjective(Sequence(plan) \o plan.left)
    /\ Range(Sequence(plan) \o plan.left) = Range(pool)

\* Mutant: nobody looks at what has become worse.
WidthFirstBetterMutant(advanced, baseline) ==
    \/ Len(advanced.loads) < Len(baseline.loads)
    \/ PlacedCount(advanced) > PlacedCount(baseline)
    \/ Feed(advanced) < Feed(baseline)

\* width_first_plan_is_better: nothing may get worse.
WidthFirstBetter(advanced, baseline) ==
    LET fewer == Len(advanced.loads) < Len(baseline.loads)
        more == PlacedCount(advanced) > PlacedCount(baseline)
    IN  /\ PlacedCount(advanced) >= PlacedCount(baseline)
        /\ Len(advanced.loads) <= Len(baseline.loads)
        /\ \/ fewer \/ more
           \/ Beats(<<-Feed(advanced), advanced.fill>>, <<-Feed(baseline), baseline.fill>>)
           \/ /\ Feed(advanced) = Feed(baseline) /\ advanced.fill = baseline.fill
              /\ Beats(Sequence(baseline), Sequence(advanced))

-----------------------------------------------------------------------------
(***************************************************************************)
(* The nested planner takes the engine's solutions, sequences of bins of   *)
(* [id, at, size] along the axis, as they come.                            *)
(***************************************************************************)
Upright(bin, axis, table) ==
    LET Turn(pair) == IF axis = 1 THEN pair ELSE Turned(pair)
    IN  [size |-> table,
         pieces |-> [i \in DOMAIN bin |->
            [id |-> bin[i].id, at |-> Turn(bin[i].at), size |-> Turn(bin[i].size)]]]

\* What the engine promises of a solution: every part of the pool is on one of
\* its bins, and every piece lies as its part may.
Solutions == Seq(Seq([id : Nat, at : [Axes -> Nat], size : [Axes -> Lengths]]))
Nesting(solution, parts, pool, axis, table) ==
    /\ solution \in Solutions
    /\ \A k \in DOMAIN solution :
          /\ solution[k] # <<>>
          /\ \A p \in PieceSet(Upright(solution[k], axis, table)) :
                p.id \in Range(pool) /\ p.size \in Range(Orientations(parts[p.id]))
    /\ \A id \in Range(pool) : \E k \in DOMAIN solution : \E i \in DOMAIN solution[k] : solution[k][i].id = id

\* Mutant: the clearance is not looked at.
NestedValidMutant(sheets) == \A k \in DOMAIN sheets : OnSheet(sheets[k])

\* placement_load_is_valid for every load, and no part twice.
NestedValid(sheets) ==
    LET pieces == FlattenSeq([k \in DOMAIN sheets |-> sheets[k].pieces])
    IN  /\ IsInjective([i \in DOMAIN pieces |-> pieces[i].id])
        /\ \A k \in DOMAIN sheets : OnSheet(sheets[k])
        /\ KerfClear(sheets)

NestedPlan(solution, pool, axis, table, maxSheets) ==
    LET sheets == [k \in DOMAIN solution |-> Upright(solution[k], axis, table)]
        order == Arranged(sheets, [k \in DOMAIN sheets |->
            <<Len(sheets[k].pieces), Used(sheets[k]), -LoadFeed(sheets[k], axis)>>])
        loads == [k \in 1 .. Min({Len(sheets), maxSheets}) |-> order[k]]
        ids == {p.id : p \in UNION {PieceSet(loads[k]) : k \in DOMAIN loads}}
    IN  [axis |-> axis, loads |-> loads, left |-> Without(pool, ids),
         fill |-> SumFunction([k \in DOMAIN loads |->
            Max({0} \cup {Hi(p, axis) : p \in PieceSet(loads[k])})])]

\* placement_plan_is_better and nested_plan_is_better (which sets the width of
\* the nested loads against the sum of the rows' widths).
Merits(plan) == <<PlacedCount(plan), -Len(plan.loads), -Feed(plan), plan.fill>>

\* build_nested_width_first_plan with its acceptance: the first of the best
\* solutions that are valid, if it beats the plan of rows.
WithNested(solutions, rowPlan, pool, table, maxSheets) ==
    LET axis == rowPlan.axis
        valid == {i \in DOMAIN solutions :
            NestedValid([k \in DOMAIN solutions[i] |-> Upright(solutions[i][k], axis, table)])}
        plans == [i \in valid |-> NestedPlan(solutions[i], pool, axis, table, maxSheets)]
        best == CHOOSE i \in valid : \A j \in valid \ {i} :
            /\ ~Beats(Merits(plans[j]), Merits(plans[i]))
            /\ Merits(plans[j]) = Merits(plans[i]) => i < j
    IN  IF valid # {} /\ Beats(Merits(plans[best]), Merits(rowPlan))
        THEN plans[best] ELSE rowPlan

-----------------------------------------------------------------------------
\* collect_vacuum_parts: one part for every instance of an item, in order.
PartsOf(items) ==
    FlattenSeq([i \in DOMAIN items |->
        [k \in 1 .. items[i].qty |-> [size |-> items[i].size, turn |-> items[i].turn]]])
FittingParts(items, table) ==
    LET parts == PartsOf(items)
    IN  Without([id \in DOMAIN parts |-> id],
                {id \in DOMAIN parts : Fitting(parts[id], 1, table[1], table[2]) = {}})

\* The axis of the rows: "optimal" takes the shorter side of the untrimmed stock.
Axis(direction, stock) ==
    IF direction = "width" \/ (direction = "optimal" /\ stock.raw[1] <= stock.raw[2])
    THEN 1 ELSE 2

MaxLoads(stock, pool) == IF stock.qty > 0 THEN stock.qty ELSE Max({Len(pool), 1})

Baseline(items, stock, direction) ==
    LET pool == FittingParts(items, stock.table)
    IN  LegacyPlan(PartsOf(items), pool, Axis(direction, stock), stock.table,
                   MaxLoads(stock, pool))

\* The width-first plan, for the direction "optimal" alone.
WidthFirst(items, stock) ==
    LET pool == FittingParts(items, stock.table)
    IN  WidthFirstPlan(PartsOf(items), pool, Axis("optimal", stock), stock.table,
                       MaxLoads(stock, pool))

\* run_vacuum_layout, with its baseline and its width-first plan, when the
\* baseline stays within its budget of probes; the width-first planner may
\* exceed its own.
VacuumLayout(items, stock, direction, solutions, inTime, baseline, advanced) ==
    LET parts == PartsOf(items)
        table == stock.table
        pool == FittingParts(items, table)
        axis == Axis(direction, stock)
        rowPlan == IF direction = "optimal" /\ inTime /\ PlanValid(advanced, pool)
                        /\ WidthFirstBetter(advanced, baseline)
                   THEN advanced ELSE baseline
        plan == IF pool = <<>> THEN rowPlan
                ELSE WithNested(solutions, rowPlan, pool, table, MaxLoads(stock, pool))
        reason == IF stock.qty > 0 /\ Len(plan.loads) >= stock.qty
                  THEN "qty_limit" ELSE "no_space"
    IN  [loads |-> plan.loads, axis |-> axis,
         unplaced |-> [id \in (DOMAIN parts \ Range(pool)) \cup Range(plan.left) |->
                          IF id \in Range(pool) THEN reason ELSE "oversized"]]
=============================================================================
