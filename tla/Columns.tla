------------------------------- MODULE Columns -------------------------------
(***************************************************************************)
(* Sheets constructed without the engine: columns of pieces of about one   *)
(* width, and shelves of pieces of falling height                          *)
(* (build_column_candidates, src/src/optimizer.rs:1637-1938).  The peeling *)
(* lets them compete with the engine's layouts (module Peeling).           *)
(*                                                                         *)
(* The pool is a sequence of the numbers of the parts that are not placed  *)
(* yet; a constructed piece is [id, at, size].                             *)
(***************************************************************************)
EXTENDS Sheets

CONSTANT Tolerance      \* 40 mm: how much narrower than its column a piece may be

ASSUME ToleranceAssumption == Tolerance \in Nat

\* Vec::swap_remove: the last element takes the place of the removed one.
SwapRemove(s, i) ==
    [j \in 1 .. Len(s) - 1 |-> IF j = i THEN s[Len(s)] ELSE s[j]]

-----------------------------------------------------------------------------
(***************************************************************************)
(* build_column_stock_piece, one piece at a time.  The state is the pool,  *)
(* the pieces placed, and the column being filled: its left side, its      *)
(* width (0 while none is open) and the height taken.                      *)
(***************************************************************************)
\* The pool's pieces between two sizes, each as its place and orientation.
Candidates(parts, pool, least, most) ==
    {c \in (DOMAIN pool) \X {1, 2} :
        LET ways == Orientations(parts[pool[c[1]]])
        IN  /\ c[2] \in DOMAIN ways
            /\ \A a \in Axes : least[a] <= ways[c[2]][a] /\ ways[c[2]][a] <= most[a]}

\* The first choice of the largest key.
FirstBest(choices, key) ==
    LET full == [c \in choices |-> key[c] \o <<-c[1], -c[2]>>]
    IN  CHOOSE c \in choices : \A d \in choices \ {c} : Beats(full[c], full[d])

ColumnStep(state, parts, sheet, tol, byArea) ==
    LET SizeOf(c) == Orientations(parts[state.pool[c[1]]])[c[2]]
        Stacked == Candidates(parts, state.pool, <<state.width - tol, 0>>,
                                              <<state.width, sheet[2] - state.y>>)
        left == IF state.width = 0 THEN state.x ELSE state.x + state.width + Kerf
        Anchors == Candidates(parts, state.pool, <<0, 0>>, <<sheet[1] - left, sheet[2]>>)
        stackKey == [c \in Stacked |->
            <<-(state.width - SizeOf(c)[1]), AreaOf(SizeOf(c))>>]
        anchorKey == [c \in Anchors |->
            IF byArea THEN <<AreaOf(SizeOf(c)), SizeOf(c)[1]>>
                      ELSE <<SizeOf(c)[1], AreaOf(SizeOf(c))>>]
        Put(c, x, y, width) ==
            [pool |-> SwapRemove(state.pool, c[1]),
             placed |-> Append(state.placed,
                [id |-> state.pool[c[1]], at |-> <<x, y>>, size |-> SizeOf(c)]),
             x |-> x, width |-> width, y |-> y + SizeOf(c)[2] + Kerf]
    IN  IF state.width > 0 /\ Stacked # {}
        THEN Put(FirstBest(Stacked, stackKey), state.x, state.y, state.width)
        ELSE IF Anchors # {}
        THEN LET c == FirstBest(Anchors, anchorKey)
             IN  Put(c, left, 0, SizeOf(c)[1])
        ELSE state

\* Every step but the last ones places a piece.
ColumnSheet(parts, pool, sheet, tol, byArea) ==
    LET state[n \in 0 .. Len(pool)] ==
            IF n = 0 THEN [pool |-> pool, placed |-> <<>>, x |-> 0, width |-> 0, y |-> 0]
            ELSE ColumnStep(state[n - 1], parts, sheet, tol, byArea)
        end == state[Len(pool)]
    IN  [pool |-> end.pool, pieces |-> end.placed]

-----------------------------------------------------------------------------
(***************************************************************************)
(* build_shelf_stock_piece: parts by falling height onto the first shelf   *)
(* with room; then the widest shelf on top, the tallest piece on the left. *)
(***************************************************************************)
\* Mutant: every part may be turned.
OrientMutant(part, wide) ==
    LET long == Max({part.size[1], part.size[2]})
        short == Min({part.size[1], part.size[2]})
    IN  IF wide THEN <<long, short>> ELSE <<short, long>>

Orient(part, wide) ==
    LET size == part.size
        long == Max({size[1], size[2]})
        short == Min({size[1], size[2]})
    IN  IF ~part.turn \/ long = short THEN size
        ELSE IF wide THEN <<long, short>> ELSE <<short, long>>

\* A piece wider than the sheet is laid the other way (also one that may not
\* be turned; but on sheets of one size such a piece never gets here).
Laid(part, sheet, wide) ==
    LET size == Orient(part, wide)
    IN  IF size[1] > sheet[1] THEN Turned(size) ELSE size

ShelfTakes(shelf, size, sheet) ==
    size[2] <= shelf.height /\ shelf.used + Kerf + size[1] <= sheet[1]

Shelve(state, id, size, sheet) ==
    LET Takers == {s \in DOMAIN state.shelves : ShelfTakes(state.shelves[s], size, sheet)}
        piece == [id |-> id, size |-> size]
        height == state.height + (IF state.shelves = <<>> THEN 0 ELSE Kerf) + size[2]
    IN  IF size[1] > sheet[1] THEN state
        ELSE IF Takers # {}
        THEN [state EXCEPT !.shelves[Min(Takers)].used = @ + Kerf + size[1],
                           !.shelves[Min(Takers)].pieces = Append(@, piece)]
        ELSE IF height > sheet[2] THEN state
        ELSE [height |-> height,
              shelves |-> Append(state.shelves,
                  [height |-> size[2], used |-> size[1], pieces |-> <<piece>>])]

ShelfSheet(parts, pool, sheet, wide) ==
    LET order == Arranged(pool, [i \in DOMAIN pool |->
                    LET size == Orient(parts[pool[i]], wide) IN <<size[2], size[1]>>])
        state[n \in 0 .. Len(pool)] ==
            IF n = 0 THEN [height |-> 0, shelves |-> <<>>]
            ELSE Shelve(state[n - 1], order[n], Laid(parts[order[n]], sheet, wide), sheet)
        filled == state[Len(pool)].shelves
        shelves == Arranged(filled, [k \in DOMAIN filled |-> <<filled[k].used>>])
        rows == [k \in DOMAIN shelves |->
                    LET row == shelves[k].pieces
                    IN  Arranged(row, [i \in DOMAIN row |-> <<row[i].size[2]>>])]
        pieces == InRows(rows, [k \in DOMAIN shelves |-> shelves[k].height], 1)
    IN  [pieces |-> pieces,
         pool |-> Without(pool, {pieces[i].id : i \in DOMAIN pieces})]

-----------------------------------------------------------------------------
\* The six generators, each with its two parameters.
Generators ==
    {<<"columns", t, FALSE>> : t \in {0, Tolerance, 2 * Tolerance}}
    \cup {<<"columns", Tolerance, TRUE>>}
    \cup {<<"shelves", 0, wide>> : wide \in BOOLEAN}

BuiltSheet(generator, parts, pool, sheet) ==
    IF generator[1] = "columns"
    THEN ColumnSheet(parts, pool, sheet, generator[2], generator[3])
    ELSE ShelfSheet(parts, pool, sheet, generator[3])

\* One sheet, or as many as it takes; a plan that leaves parts out then is none.
Built(generator, parts, sheet, whole) ==
    LET all == [i \in DOMAIN parts |-> i]
        state[n \in 0 .. Len(parts)] ==
            IF n = 0 THEN [plan |-> <<>>, pool |-> all]
            ELSE LET before == state[n - 1]
                     made == BuiltSheet(generator, parts, before.pool, sheet)
                 IN  IF made.pieces = <<>> THEN before
                     ELSE [plan |-> Append(before.plan,
                                        [size |-> sheet, pieces |-> made.pieces]),
                           pool |-> made.pool]
        end == IF whole THEN state[Len(parts)] ELSE state[1]
    IN  IF whole /\ end.pool # <<>> THEN <<>> ELSE end.plan

BuiltPlans(parts, sheet, whole) ==
    LET plans == {Built(g, parts, sheet, whole) : g \in Generators}
    IN  plans \ {<<>>}
=============================================================================
