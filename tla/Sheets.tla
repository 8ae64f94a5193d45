------------------------------- MODULE Sheets -------------------------------
(***************************************************************************)
(* The geometry of a cutting plan: pieces on sheets, the clearance the     *)
(* blade needs, the slide of one piece against its neighbours, and the     *)
(* figures by which two plans are compared.  Everything is in the engine's *)
(* integer units; axis 1 is x, axis 2 is y, and the corner of a sheet at   *)
(* <<0, 0>> is its top left one.                                           *)
(*                                                                         *)
(* A piece is [at, size], both pairs; a sheet is [size, pieces] with its   *)
(* pieces in the order the engine placed them; a plan is a sequence of     *)
(* sheets (src/src/optimizer.rs:4806-5187).                                *)
(***************************************************************************)
EXTENDS Integers, SequencesExt

CONSTANT Kerf       \* blade width plus spacing, the gap every cut leaves

ASSUME KerfAssumption == Kerf \in Nat

Axes == {1, 2}
Across(a) == 3 - a
Lengths == Nat \ {0}

\* A part is [size, turn]; both ways it may lie, as it came first.
Turned(size) == <<size[2], size[1]>>
Orientations(part) ==
    IF part.turn /\ part.size[1] # part.size[2]
    THEN <<part.size, Turned(part.size)>> ELSE <<part.size>>

Lo(p, a) == p.at[a]
Hi(p, a) == p.at[a] + p.size[a]
AreaOf(size) == size[1] * size[2]

\* The projections of two pieces on an axis overlap.
Meet(p, q, a) == Lo(p, a) < Hi(q, a) /\ Lo(q, a) < Hi(p, a)

\* The distance between the projections, 0 where they touch or overlap.
Gap(p, q, a) == Max({0, Lo(q, a) - Hi(p, a), Lo(p, a) - Hi(q, a)})

Overlap(p, q) == \A a \in Axes : Meet(p, q, a)
TooClose(p, q) ==
    Gap(p, q, 1) * Gap(p, q, 1) + Gap(p, q, 2) * Gap(p, q, 2) < Kerf * Kerf

Pairs(pieces) == {ij \in (DOMAIN pieces) \X (DOMAIN pieces) : ij[1] < ij[2]}

\* No two pieces lie on one another / are closer than the blade is wide.
Disjoint(plan) ==
    \A s \in DOMAIN plan : \A ij \in Pairs(plan[s].pieces) :
        ~Overlap(plan[s].pieces[ij[1]], plan[s].pieces[ij[2]])
KerfClear(plan) ==
    \A s \in DOMAIN plan : \A ij \in Pairs(plan[s].pieces) :
        ~TooClose(plan[s].pieces[ij[1]], plan[s].pieces[ij[2]])

OnSheet(sheet) ==
    \A i \in DOMAIN sheet.pieces : \A a \in Axes :
        Lo(sheet.pieces[i], a) >= 0 /\ Hi(sheet.pieces[i], a) <= sheet.size[a]

\* Where each of some lengths begins that lie in a line, a cut between any two,
\* and where one more would begin.
Starts(lengths) ==
    LET start[k \in 1 .. Len(lengths) + 1] ==
            IF k = 1 THEN 0 ELSE start[k - 1] + lengths[k - 1] + Kerf
    IN  start

\* How long such a line is.
Extent(lengths) == Starts(lengths)[Len(lengths) + 1] - Kerf

\* Rows of [id, size] as the pieces of a sheet: one row beyond the other, the
\* pieces of each side by side along an axis.
InRows(rows, depths, axis) ==
    LET top == Starts(depths)
        Row(k) ==
            LET start == Starts([i \in DOMAIN rows[k] |-> rows[k][i].size[axis]])
            IN  [i \in DOMAIN rows[k] |->
                    [id |-> rows[k][i].id, size |-> rows[k][i].size,
                     at |-> [a \in Axes |-> IF a = axis THEN start[i] ELSE top[k]]]]
    IN  FlattenSeq([k \in DOMAIN rows |-> Row(k)])

-----------------------------------------------------------------------------
(***************************************************************************)
(* Compaction moves a piece towards the low end of one axis until a piece  *)
(* that overlaps it on the other axis, and already lies a blade's width    *)
(* behind it, is in the way.                                               *)
(***************************************************************************)
Bound(pieces, i, a) ==
    Max({0} \cup {Hi(pieces[j], a) + Kerf :
            j \in {k \in DOMAIN pieces \ {i} :
                      /\ Meet(pieces[i], pieces[k], Across(a))
                      /\ Hi(pieces[k], a) + Kerf <= Lo(pieces[i], a)}})

\* Mutant: a piece that is at its bound is slid to it again.
CanSlideMutant(pieces, i, a) == Bound(pieces, i, a) <= Lo(pieces[i], a)

CanSlide(pieces, i, a) == Bound(pieces, i, a) < Lo(pieces[i], a)

Slid(pieces, i, a) ==
    IF CanSlide(pieces, i, a)
    THEN [pieces EXCEPT ![i].at[a] = Bound(pieces, i, a)]
    ELSE pieces

-----------------------------------------------------------------------------
(***************************************************************************)
(* What build_candidate measures of a plan.                                *)
(***************************************************************************)
PieceSet(sheet) == {sheet.pieces[i] : i \in DOMAIN sheet.pieces}
Used(sheet) ==
    SumFunction([i \in DOMAIN sheet.pieces |-> AreaOf(sheet.pieces[i].size)])

\* The largest free rectangle that reaches the bottom right corner: its left
\* side is 0 or a piece's right side, its top the lowest piece to its right.
CornerFree(sheet) ==
    LET Rights == {Hi(p, 1) : p \in PieceSet(sheet)}
        Bottom(l) == Max({0} \cup {Hi(p, 2) : p \in
                        {q \in PieceSet(sheet) : Lo(q, 1) < sheet.size[1]
                                                 /\ Hi(q, 1) > l}})
    IN  Max({(sheet.size[1] - l) * (sheet.size[2] - Bottom(l)) :
                l \in {0} \cup {r \in Rights : r < sheet.size[1]}})

\* The rectangle around the pieces of a sheet that has some.
BoxArea(sheet) ==
    LET Side(a) == Max({Hi(p, a) : p \in PieceSet(sheet)})
                     - Min({Lo(p, a) : p \in PieceSet(sheet)})
    IN  Side(1) * Side(2)

Filled(plan) == {s \in DOMAIN plan : plan[s].pieces # <<>>}

Figures(plan) ==
    LET Over(S, F(_)) == SumFunction([s \in S |-> F(plan[s])])
        Waste(sheet) == AreaOf(sheet.size) - Used(sheet)
        Void(sheet) == BoxArea(sheet) - Used(sheet)
        Around(sheet) == SumFunction([i \in DOMAIN sheet.pieces |->
            2 * (sheet.pieces[i].size[1] + sheet.pieces[i].size[2])])
        Utils == {(Used(plan[s]) * 10000) \div AreaOf(plan[s].size) :
                    s \in Filled(plan)}
    IN  [sheets    |-> Len(plan),
         waste     |-> Over(DOMAIN plan, Waste),
         corner    |-> Over(DOMAIN plan, CornerFree),
         minUtil   |-> IF Utils = {} THEN 0 ELSE Min(Utils),
         void      |-> Over(Filled(plan), Void),
         box       |-> Over(Filled(plan), BoxArea),
         perimeter |-> Over(DOMAIN plan, Around)]

-----------------------------------------------------------------------------
\* A larger tuple, compared from its first component on.
Beats(s, t) ==
    \E d \in DOMAIN s : s[d] > t[d] /\ \A e \in 1 .. d - 1 : s[e] = t[e]

\* is_better_stats: what the request's objective looks at first.
Primary(f, objective) ==
    IF objective = "min_sheets" THEN <<-f.sheets, -f.waste>>
                                ELSE <<-f.waste, -f.sheets>>

\* The numbers 1 .. n, those with the larger key first, in order among equals;
\* and a sequence arranged like that.  (TLC evaluates the elements of a SubSeq
\* once, and those of a function each time.)
Falling(n, key) ==
    LET Above(i) == {j \in 1 .. n : Beats(key[j], key[i]) \/ (key[j] = key[i] /\ j < i)}
    IN  [k \in 1 .. n |-> CHOOSE i \in 1 .. n : Cardinality(Above(i)) = k - 1]

Arranged(list, key) ==
    LET by == Falling(Len(list), key)
    IN  SubSeq([k \in DOMAIN list |-> list[by[k]]], 1, Len(list))

\* A sequence without some of its elements.
Without(list, gone) ==
    LET kept[n \in 0 .. Len(list)] ==
            IF n = 0 THEN <<>>
            ELSE IF list[n] \in gone THEN kept[n - 1] ELSE Append(kept[n - 1], list[n])
    IN  kept[Len(list)]

\* The figures in the order compare_candidates takes them, larger is better.
Ranking(f, objective) ==
    Primary(f, objective)
      \o <<f.corner, f.minUtil, -f.void, -f.box, -f.perimeter>>

\* The counter of the figure that lost, by its place in the ranking.
Verdicts == <<"primary_objective", "primary_objective", "tie_corner_free",
              "tie_min_util", "tie_bbox_void", "tie_bbox_area",
              "tie_perimeter">>

\* Mutant: any figure that is better makes the candidate the better one.
CompareCandidatesMutant(f, g, objective) ==
    LET s == Ranking(f, objective)
        t == Ranking(g, objective)
        D == {d \in DOMAIN s : s[d] # t[d]}
    IN  IF D = {} THEN "equal"
        ELSE IF \E d \in D : s[d] > t[d] THEN "better" ELSE Verdicts[Min(D)]

CompareCandidates(f, g, objective) ==
    LET s == Ranking(f, objective)
        t == Ranking(g, objective)
        D == {d \in DOMAIN s : s[d] # t[d]}
    IN  IF D = {} THEN "equal"
        ELSE IF Beats(s, t) THEN "better" ELSE Verdicts[Min(D)]
=============================================================================
