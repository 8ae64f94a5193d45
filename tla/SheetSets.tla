------------------------------ MODULE SheetSets ------------------------------
(***************************************************************************)
(* What theorems about layouts speak of: pieces and parts with a number,   *)
(* rows of them, orders and loops, and sheets whose pieces are clear of    *)
(* one another and of one number each. PlacingProofs and DispatchProofs    *)
(* share them.                                                             *)
(***************************************************************************)
EXTENDS Sheets, FiniteSetsExt

\* A number and a size: a part of a row.  A piece of a sheet has a place as well.
Slabs == [id : Nat, size : [Axes -> Lengths]]
Numbered == [id : Nat, at : [Axes -> Nat], size : [Axes -> Lengths]]

\* No piece lies on another; no piece is closer to another than the blade is wide.
Apart(pieces) ==
    \A i, j \in DOMAIN pieces : i # j => ~Overlap(pieces[i], pieces[j])
Clear(pieces) ==
    \A i, j \in DOMAIN pieces : i # j => ~TooClose(pieces[i], pieces[j])

\* Tuples of n numbers.
Tuples(n) == [1 .. n -> Int]

\* The ways to number n things anew.
Orders(n) == {f \in [1 .. n -> 1 .. n] :
                 /\ \A i, j \in 1 .. n : f[i] = f[j] => i = j
                 /\ \A i \in 1 .. n : \E k \in 1 .. n : f[k] = i}

\* A larger key, or the same and a smaller number.
Ahead(key, j, i) == Beats(key[j], key[i]) \/ (key[j] = key[i] /\ j < i)
AllAhead(n, key, i) == {j \in 1 .. n : Ahead(key, j, i)}

\* What n rounds do, one after another, to the members of a set; and a function
\* of the rounds that starts with one of them.
Rounds(n, S) == [1 .. n -> [S -> S]]
RunsOf(n, S, first, F) ==
    {h \in [0 .. n -> S] : h[0] = first /\ \A k \in 1 .. n : h[k] = F[k][h[k - 1]]}
Distinct(list) == \A i, j \in 1 .. Len(list) : list[i] = list[j] => i = j

\* What is kept of the first k elements.
KeptOf(T, list, gone, k) == {s \in Seq(T) :
    /\ \A j \in 1 .. Len(s) : \E i \in 1 .. k : s[j] = list[i] /\ list[i] \notin gone
    /\ \A i \in 1 .. k : list[i] \notin gone => \E j \in 1 .. Len(s) : s[j] = list[i]
    /\ Len(s) <= k /\ ((\E i \in 1 .. k : list[i] \in gone) => Len(s) < k)
    /\ Distinct(list) => Distinct(s)}
Keeping(list, gone, f) ==
    f = [n \in 0 .. Len(list) |->
            IF n = 0 THEN <<>>
            ELSE IF list[n] \in gone THEN f[n - 1] ELSE Append(f[n - 1], list[n])]
StartOf(lengths, start) ==
    start = [k \in 1 .. Len(lengths) + 1 |->
                IF k = 1 THEN 0 ELSE start[k - 1] + lengths[k - 1] + Kerf]

\* The places of the elements of the first n of some sequences; and what the
\* first n are joined to: each element is that of another place.
Spots(seqs, n) == {si \in (1 .. n) \X Nat : si[2] \in 1 .. Len(seqs[si[1]])}
PlacesOf(seqs, n, flat) ==
    {place \in [1 .. Len(flat) -> Spots(seqs, n)] :
        /\ \A i, j \in 1 .. Len(flat) : place[i] = place[j] => i = j
        /\ \A si \in Spots(seqs, n) : \E i \in 1 .. Len(flat) : place[i] = si
        /\ \A i \in 1 .. Len(flat) : flat[i] = seqs[place[i][1]][place[i][2]]}
FlatOf(T, seqs, n) == {flat \in Seq(T) : PlacesOf(seqs, n, flat) # {}}
FlattenOf(seqs, f) ==
    f = [i \in 1 .. Len(seqs) |-> IF i = 1 THEN seqs[i] ELSE f[i - 1] \o seqs[i]]
Widths(row, axis) == [i \in DOMAIN row |-> row[i].size[axis]]
RowAt(row, y, axis) ==
    [i \in DOMAIN row |->
        [id |-> row[i].id, size |-> row[i].size,
         at |-> [a \in Axes |-> IF a = axis THEN Starts(Widths(row, axis))[i] ELSE y]]]

\* The pieces of some rows, each at the place its row and its neighbours give it.
Laying(rows, depths, axis, pieces) ==
    {place \in [1 .. Len(pieces) -> Spots(rows, Len(rows))] :
        /\ \A i, j \in 1 .. Len(pieces) : place[i] = place[j] => i = j
        /\ \A si \in Spots(rows, Len(rows)) : \E i \in 1 .. Len(pieces) : place[i] = si
        /\ \A i \in 1 .. Len(pieces) :
              /\ pieces[i].id = rows[place[i][1]][place[i][2]].id
              /\ pieces[i].size = rows[place[i][1]][place[i][2]].size
              /\ pieces[i].at[axis] = Starts(Widths(rows[place[i][1]], axis))[place[i][2]]
              /\ pieces[i].at[Across(axis)] = Starts(depths)[place[i][1]]}

\* Rows and their depths that a sheet is long enough for.
RowsWithin(rows, depths, axis, size) ==
    /\ Starts(depths)[Len(rows) + 1] <= size[Across(axis)] + Kerf
    /\ \A k \in 1 .. Len(rows) : Starts(Widths(rows[k], axis))[Len(rows[k]) + 1] <= size[axis] + Kerf
Elements(list) == {list[i] : i \in 1 .. Len(list)}
OnceEach(pieces) == \A i, j \in 1 .. Len(pieces) : pieces[i].id = pieces[j].id => i = j
PartTypes == [size : [Axes -> Lengths], turn : BOOLEAN]

\* What a part may look like in a plan, and the pieces that look like theirs.
Alike(parts, pieces) ==
    \A i \in 1 .. Len(pieces) :
        /\ pieces[i].id \in 1 .. Len(parts)
        /\ pieces[i].size \in Range(Orientations(parts[pieces[i].id]))

\* What is in order are the same things in other places.
Reordered(old, new) ==
    \E by \in Orders(Len(old)) : \A k \in 1 .. Len(old) : new[k] = old[by[k]]

\* How the things are reordered.
OrdersOf(old, new) ==
    {by \in Orders(Len(old)) :
        /\ \A k \in 1 .. Len(old) : by[k] \in 1 .. Len(old) /\ new[k] = old[by[k]]
        /\ \A i, j \in 1 .. Len(old) : by[i] = by[j] => i = j}

\* No number twice in some rows; and each piece that is laid is one of theirs.
OnceInRows(rows) ==
    \A k, l \in 1 .. Len(rows) : \A i \in 1 .. Len(rows[k]), j \in 1 .. Len(rows[l]) :
        rows[k][i].id = rows[l][j].id => k = l /\ i = j
InSomeRow(rows, p) ==
    \E k \in 1 .. Len(rows) : \E c \in 1 .. Len(rows[k]) : p.id = rows[k][c].id /\ p.size = rows[k][c].size
NumberedSheets == [size : [Axes -> Lengths], pieces : Seq(Numbered)]

\* The parts of a plan: each piece as its part may lie, no part twice.
Present(p, id) == \E k \in 1 .. Len(p) : \E i \in 1 .. Len(p[k].pieces) : p[k].pieces[i].id = id
OnceInPlan(p) ==
    \A k, l \in 1 .. Len(p) : \A i \in 1 .. Len(p[k].pieces), j \in 1 .. Len(p[l].pieces) :
        p[k].pieces[i].id = p[l].pieces[j].id => k = l /\ i = j

\* Whether two pieces of a plan have one number.
SameId(p, k, i, l, j) == p[k].pieces[i].id = p[l].pieces[j].id
=============================================================================
