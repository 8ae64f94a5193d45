----------------------------- MODULE GroupShift -----------------------------
(***************************************************************************)
(* The moves the group-shift post-processor may make on one sheet          *)
(* (src/src/optimizer.rs:5523-6137): a group of pieces that holds at most  *)
(* half of the placed area is pushed along one axis, until the first of    *)
(* its pieces is a blade's width from a piece that stays.  The code works  *)
(* in floating-point millimetres with a tolerance of 1e-6; coordinates     *)
(* here are whole units and the tolerance is 0.                            *)
(***************************************************************************)
EXTENDS Sheets

CONSTANT MinShift       \* group_shift.min_shift_mm

ASSUME MinShiftAssumption == MinShift \in Nat

PieceArea(pieces, I) == MapThenSumSet(LAMBDA i : AreaOf(pieces[i].size), I)

-----------------------------------------------------------------------------
(***************************************************************************)
(* Pieces in contact, one cut apart, form a component.  The component with *)
(* the largest area, the first one among equals, is the anchor the others  *)
(* move to; a sheet in one component has no anchor.                        *)
(***************************************************************************)
Near(p, q) == \E a \in Axes : Gap(p, q, a) <= Kerf /\ Gap(p, q, Across(a)) = 0

Components(pieces) ==
    LET Closed(C) == \A i \in C : \A j \in DOMAIN pieces \ C :
                        ~Near(pieces[i], pieces[j])
        Groups == {C \in SUBSET DOMAIN pieces \ {{}} : Closed(C)}
    IN  {C \in Groups : \A D \in Groups : D \subseteq C => D = C}

Anchor(pieces, components) ==
    IF Cardinality(components) <= 1 THEN {}
    ELSE CHOOSE C \in components : \A D \in components \ {C} :
            \/ PieceArea(pieces, C) > PieceArea(pieces, D)
            \/ /\ PieceArea(pieces, C) = PieceArea(pieces, D)
               /\ Min(C) < Min(D)

\* Twice the centre of a group's bounding box.
Centre(pieces, I, a) ==
    Min({Lo(pieces[i], a) : i \in I}) + Max({Hi(pieces[i], a) : i \in I})

\* The groups tried, each with its axis and direction: everything beyond a
\* piece's low side pulled back, everything before a piece's high side pushed
\* on, and each component but the anchor pulled towards the anchor's centre.
Selections(pieces, components, anchor) ==
    LET All == DOMAIN pieces
        Beyond(a, c) == {i \in All : Lo(pieces[i], a) >= c}
        Before(a, c) == {i \in All : Hi(pieces[i], a) <= c}
        Towards(C, a) == Centre(pieces, anchor, a) - Centre(pieces, C, a)
    IN  {[axis |-> a, sign |-> -1, group |-> Beyond(a, Lo(pieces[i], a))] :
            a \in Axes, i \in All}
        \cup
        {[axis |-> a, sign |-> 1, group |-> Before(a, Hi(pieces[i], a))] :
            a \in Axes, i \in All}
        \cup
        {m \in [axis : Axes, sign : {-1, 1}, group : components \ {anchor}] :
            anchor # {} /\ m.sign * Towards(m.group, m.axis) > 0}

-----------------------------------------------------------------------------
\* How far the pieces of a group are from the edge of the sheet they move to.
Room(sheet, m) ==
    LET ToEdge(p) == IF m.sign < 0 THEN Lo(p, m.axis)
                     ELSE sheet.size[m.axis] - Hi(p, m.axis)
    IN  Min({ToEdge(sheet.pieces[i]) : i \in m.group})

\* obstacle_shift_limit: how far p may move before it is a blade's width from
\* q.  Only a q that is at least a blade's width ahead of p is an obstacle.
ObstacleLimit(p, q, m) ==
    IF m.sign < 0 THEN Lo(p, m.axis) - Hi(q, m.axis) - Kerf
                  ELSE Lo(q, m.axis) - Hi(p, m.axis) - Kerf

ObstacleLimits(pieces, m) ==
    {l \in {ObstacleLimit(pieces[ij[1]], pieces[ij[2]], m) :
              ij \in {k \in m.group \X (DOMAIN pieces \ m.group) :
                        Meet(pieces[k[1]], pieces[k[2]], Across(m.axis))}} :
        l >= 0}

\* Mutant: the pieces that stay are forgotten.
ShiftLimitMutant(sheet, m) == Room(sheet, m)

ShiftLimit(sheet, m) ==
    Min({Room(sheet, m)} \cup ObstacleLimits(sheet.pieces, m))

Span(pieces, m) ==
    Max({Hi(pieces[i], Across(m.axis)) : i \in m.group})
      - Min({Lo(pieces[i], Across(m.axis)) : i \in m.group})

\* The group moved by d.
Moved(pieces, m, d) ==
    [i \in DOMAIN pieces |->
        IF i \in m.group
        THEN [pieces[i] EXCEPT !.at[m.axis] = @ + m.sign * d]
        ELSE pieces[i]]

\* The length over which a group touches, one cut apart, the pieces it is
\* pushed to: the anchor's, or all the others where there is no anchor.
Contact(pieces, group, anchor) ==
    LET Targets == IF anchor = {} THEN DOMAIN pieces \ group ELSE anchor
        Shared(p, q, a) == Max({0, Min({Hi(p, a), Hi(q, a)})
                                     - Max({Lo(p, a), Lo(q, a)})})
        Touch(p, q) == MapThenSumSet(
            LAMBDA a : IF Gap(p, q, a) <= Kerf /\ Gap(p, q, Across(a)) = 0
                       THEN Shared(p, q, Across(a)) ELSE 0, Axes)
    IN  MapThenSumSet(LAMBDA ij : Touch(pieces[ij[1]], pieces[ij[2]]),
                      group \X Targets)

\* evaluate_group_shift_candidate: what may be moved at all.
MayMove(sheet, m, anchor) ==
    LET All == DOMAIN sheet.pieces
    IN  /\ m.group \cap anchor = {}
        /\ m.group # {} /\ m.group # All
        /\ 2 * PieceArea(sheet.pieces, m.group) <= PieceArea(sheet.pieces, All)
        /\ Room(sheet, m) > 0
        /\ ObstacleLimits(sheet.pieces, m) # {}
        /\ ShiftLimit(sheet, m) >= MinShift
        /\ ShiftLimit(sheet, m) * Span(sheet.pieces, m) > 0

\* compare_group_shift_moves: contact gained, corridor closed, distance, and
\* then the smaller and the shorter group.
Merit(sheet, m, anchor) ==
    LET d == ShiftLimit(sheet, m)
    IN  <<Max({0, Contact(Moved(sheet.pieces, m, d), m.group, anchor)
                    - Contact(sheet.pieces, m.group, anchor)}),
          d * Span(sheet.pieces, m),
          d,
          -PieceArea(sheet.pieces, m.group),
          -Cardinality(m.group)>>

\* Every move of a sheet, with its distance and merit.
SheetMoves(sheet) ==
    IF Len(sheet.pieces) < 2 THEN {}
    ELSE LET components == Components(sheet.pieces)
             anchor == Anchor(sheet.pieces, components)
         IN  {[axis |-> m.axis, sign |-> m.sign, group |-> m.group,
               by |-> ShiftLimit(sheet, m), merit |-> Merit(sheet, m, anchor)] :
                m \in {k \in Selections(sheet.pieces, components, anchor) :
                          MayMove(sheet, k, anchor)}}

\* The best moves over all sheets, the sheet with the move.  (Of moves that
\* are equal in every respect the code takes one by its place in the scan;
\* here any of them may be taken.)
BestMoves(plan) ==
    LET All == UNION {{<<s, m>> : m \in SheetMoves(plan[s])} : s \in DOMAIN plan}
    IN  {sm \in All : \A other \in All : ~Beats(other[2].merit, sm[2].merit)}

Shifted(plan, sm) ==
    [plan EXCEPT ![sm[1]].pieces = Moved(@, sm[2], sm[2].by)]
=============================================================================
