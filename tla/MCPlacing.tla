------------------------------ MODULE MCPlacing ------------------------------
(***************************************************************************)
(* Instances of Placing for TLC.  A plan of the engine is what a           *)
(* guillotine packer makes of a list of pieces: each is put at the top     *)
(* left of a free rectangle, one cut apart from the rest of it, which is   *)
(* cut in two either way; the next sheet is opened when no free rectangle  *)
(* takes the piece.                                                        *)
(***************************************************************************)
EXTENDS Placing, TLC

Fits(size, rect) == \A a \in Axes : size[a] <= rect.size[a]

\* What is left of a rectangle once a piece is cut from its corner, the first
\* cut going right through on the given axis.
Cut(rect, size, a) ==
    LET b == Across(a)
        Along == [rect EXCEPT !.at[a] = @ + size[a] + Kerf,
                              !.size[a] = @ - size[a] - Kerf]
        Beside == [rect EXCEPT !.at[b] = @ + size[b] + Kerf,
                               !.size[b] = @ - size[b] - Kerf,
                               !.size[a] = size[a]]
    IN  {r \in {Along, Beside} : r.size[1] > 0 /\ r.size[2] > 0}

\* All plans for the pieces, on the given stock of sheets.
RECURSIVE Plans(_, _, _, _)
Plans(sizes, stock, made, free) ==
    IF sizes = <<>> THEN {made}
    ELSE LET size == Head(sizes)
             s == Len(made)
             Put(r) == [made EXCEPT ![s].pieces =
                            Append(@, [at |-> r.at, size |-> size])]
             Takers == {r \in free : Fits(size, r)}
         IN  IF Takers # {}
             THEN UNION {UNION {Plans(Tail(sizes), stock, Put(r),
                                      (free \ {r}) \cup Cut(r, size, a)) :
                                  a \in Axes} : r \in Takers}
             ELSE IF stock = <<>> THEN {}
             ELSE Plans(sizes, Tail(stock),
                        Append(made, [size |-> Head(stock), pieces |-> <<>>]),
                        {[at |-> <<0, 0>>, size |-> Head(stock)]})

PlansOf(sizes, stock) == Plans(sizes, stock, <<>>, {})

-----------------------------------------------------------------------------
\* Five pieces on one sheet: room for groups to form and to be pushed about.
WidePlans == PlansOf(<<<<1, 2>>, <<2, 1>>, <<1, 1>>, <<2, 1>>, <<4, 1>>>>,
                     <<<<10, 8>>>>)

\* Three pieces in any order on one sheet or on two or three smaller ones, for
\* the comparison to tell apart.
Orders == LET list == <<<<1, 2>>, <<2, 1>>, <<1, 1>>>>
          IN  {[i \in 1..3 |-> list[p[i]]] : p \in Permutations(1..3)}
Stocks == {<<<<6, 5>>>>, <<<<5, 5>>>>, <<<<4, 3>>, <<4, 3>>>>,
           <<<<3, 2>>, <<3, 5>>, <<6, 5>>>>}
PlansIn(orders) == UNION {PlansOf(sizes, stock) : sizes \in orders, stock \in Stocks}
SmallPlans == PlansIn(Orders)
SomePlans == PlansIn({<<<<1, 1>>, <<2, 1>>, <<1, 2>>>>})

Sound(plans) == [valid : {TRUE}, plan : plans]
Failed == [valid |-> FALSE, plan |-> CHOOSE p \in SmallPlans : TRUE]

\* Every pair in either order and all triples of some, with refused plans.
SmallBatches ==
    {<<s, t>> : s, t \in Sound(SmallPlans)}
    \cup {<<s, t, u>> : s, t, u \in Sound(SomePlans)}
    \cup {<<Failed>>}
    \cup {<<s, Failed, s>> : s \in Sound(SmallPlans)}

\* Up to four parts to construct sheets of.
Kinds == {[size |-> <<2, 1>>, turn |-> TRUE], [size |-> <<1, 2>>, turn |-> FALSE],
          [size |-> <<3, 2>>, turn |-> TRUE], [size |-> <<2, 1>>, turn |-> FALSE]}
Lists == UNION {[1 .. n -> Kinds] : n \in 1 .. 4}

Job(batch, parts, whole, objective, groupShift) ==
    [batch |-> batch, parts |-> parts, sheet |-> <<7, 6>>, whole |-> whole,
     objective |-> objective, groupShift |-> groupShift]

WideJobs == {Job(<<s>>, <<>>, FALSE, "min_sheets", TRUE) : s \in Sound(WidePlans)}
BuildJobs == {Job(<<>>, parts, whole, "min_sheets", shift) :
                parts \in Lists, whole \in BOOLEAN, shift \in BOOLEAN}
SmallJobs == {Job(batch, <<>>, FALSE, objective, FALSE) :
                batch \in SmallBatches, objective \in {"min_sheets", "min_waste"}}
AllJobs == WideJobs \cup BuildJobs \cup SmallJobs
=============================================================================
