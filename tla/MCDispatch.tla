------------------------------ MODULE MCDispatch ------------------------------
(***************************************************************************)
(* Instances of Dispatch for TLC.  The time values are those of the code;  *)
(* requests vary one block or group of options at a time, with values on   *)
(* both sides of every limit, left out, and switched off.                  *)
(***************************************************************************)
EXTENDS Dispatch

Plain == [endpoint |-> "optimize", layout |-> "nested", gaps |-> TRUE, prepares |-> TRUE, fits |-> TRUE,
          stock |-> <<[id |-> "a", usable |-> TRUE]>>, items |-> <<[qty |-> 1, sized |-> TRUE]>>,
          options |-> <<>>, blocks |-> <<>>]

\* Every block that leaves out some of the fields; and switched off.
Blocks(values) ==
    LET Over(fields) == {f \in [fields -> UNION {values[x] : x \in fields}] : \A x \in fields : f[x] \in values[x]}
        blocks == UNION {Over(fields) : fields \in SUBSET DOMAIN values}
    IN blocks
Switched(blocks) == blocks \cup {block @@ ("enabled" :> FALSE) : block \in blocks}

With(endpoint, name, blocks) ==
    {[Plain EXCEPT !.endpoint = endpoint, !.blocks = name :> block] : block \in blocks}

Searching ==
    With("optimize", "portfolio", Switched(Blocks([deadline_ms |-> {50, 100, 2500}, candidate_count |-> {0, 1, 16, 17}])))
    \cup With("beam", "beam", Switched(Blocks([deadline_ms |-> {99}, beam_width |-> {0, 8, 9}, beam_depth |-> {1, 9},
                                       branch_factor |-> {0, 8}])))
    \cup With("alns", "alns", Switched(Blocks([iterations |-> {0, 512}, segment_size |-> {0, 64},
                                       temperature_start |-> {0, 500, 20000}, temperature_end |-> {1, 12000, 30000},
                                       reaction_factor |-> {0, One}])))
    \cup With("optimize", "ga_override", Blocks([epochs |-> {0, 2000}, top_k_candidates |-> {0, 64},
                                                  zone_penalty |-> {0, One + 1}, breed_factor |-> {0, 1}]))
    \cup With("optimize", "group_shift", Switched(Blocks([max_passes |-> {0, 16, 17}])))

Planning ==
    {[Plain EXCEPT !.options = [time_limit_ms |-> time, restarts |-> restarts, sla_profile |-> sla]] :
        time \in {99, 100, 1049, 1050, 1100, 1399, 2000, 5003, 30001}, restarts \in {0, 1, 2, 3, 5, 64},
        sla \in {"fast", "balanced", "quality"}}
    \cup {[Plain EXCEPT !.options = [ga_profile |-> profile]] : profile \in {"fast", "balanced", "quality"}}

-----------------------------------------------------------------------------
(* The engine's nested solutions for the parts on a table, as the planner asks *)
(* for them: parts of falling area go to the first free rectangle that takes   *)
(* them, which is cut in two along an axis; or each gets a bin of its own.     *)
(* With a gap of 0 for Kerf they come out as rounding to units may have them.  *)

Nest(items, stock, direction, cut, gap) ==
    LET axis == Axis(direction, stock)
        Along(pair) == IF axis = 1 THEN pair ELSE Turned(pair)
        parts == PartsOf(items)
        fitting == FittingParts(items, stock.table)
        by == Falling(Len(fitting), [i \in DOMAIN fitting |-> <<AreaOf(parts[fitting[i]].size)>>])
        bin == [free |-> <<[at |-> <<0, 0>>, size |-> Along(stock.table)]>>, pieces |-> <<>>]
        Ways(id, rect) == SelectSeq(Orientations([parts[id] EXCEPT !.size = Along(@)]),
                                    LAMBDA size : \A a \in Axes : size[a] <= rect.size[a])
        Takers(bins, id) == {kr \in (DOMAIN bins) \X (1..9) :
            kr[2] \in DOMAIN bins[kr[1]].free /\ Ways(id, bins[kr[1]].free[kr[2]]) # <<>>}
        Rest(rect, size) ==
            <<[at |-> [rect.at EXCEPT ![cut] = @ + size[cut] + gap],
               size |-> [rect.size EXCEPT ![cut] = @ - size[cut] - gap]],
              [at |-> [rect.at EXCEPT ![Across(cut)] = @ + size[Across(cut)] + gap],
               size |-> [rect.size EXCEPT ![Across(cut)] = @ - size[Across(cut)] - gap, ![cut] = size[cut]]]>>
        Put(bins, id) ==
            LET all == Takers(bins, id)
                kr == CHOOSE t \in all : \A u \in all : t[1] < u[1] \/ (t[1] = u[1] /\ t[2] <= u[2])
                rect == bins[kr[1]].free[kr[2]]
                size == Ways(id, rect)[1]
            IN [bins EXCEPT ![kr[1]] =
                    [free |-> ReplaceAt(@.free, kr[2], Rest(rect, size)[1]) \o <<Rest(rect, size)[2]>>,
                     pieces |-> Append(@.pieces, [id |-> id, at |-> rect.at, size |-> size])]]
        Place(bins, i) ==
            LET id == fitting[i]
            IN IF cut # 0 /\ Takers(bins, id) # {} THEN Put(bins, id)
               ELSE Append(bins, [bin EXCEPT !.pieces =
                        <<[id |-> id, at |-> <<0, 0>>, size |-> Ways(id, bin.free[1])[1]]>>,
                                             !.free = IF cut = 0 THEN <<>>
                                                      ELSE Rest(bin.free[1], Ways(id, bin.free[1])[1])])
        bins == FoldLeft(Place, <<>>, by)
    IN [k \in DOMAIN bins |-> bins[k].pieces]

\* What the engine may hand back: nothing, single bins, a good one, several.
Nested(items, stock, direction) ==
    LET good(cut) == Nest(items, stock, direction, cut, Kerf)
    IN {<<>>, <<good(0), good(1), good(2)>>, <<good(2)>>,
        <<Nest(items, stock, direction, 1, 0), good(0)>>}

TableItem(qty, size, turn) == [qty |-> qty, sized |-> TRUE, size |-> size, turn |-> turn]
TableItems ==
    {<<TableItem(n, size, turn)>> : n \in {1, 3, 5}, size \in {<<2, 1>>, <<3, 2>>, <<1, 4>>}, turn \in BOOLEAN}
    \cup {<<TableItem(2, <<4, 2>>, turn), TableItem(2, <<2, 4>>, turn), TableItem(1, <<1, 1>>, FALSE)>> : turn \in BOOLEAN}
    \cup {<<TableItem(2, <<3, 1>>, FALSE), TableItem(1, <<9, 1>>, TRUE), TableItem(2, <<2, 3>>, turn)>> : turn \in BOOLEAN}
    \cup {<<TableItem(1, a, TRUE), TableItem(2, b, FALSE), TableItem(1, <<2, 2>>, TRUE)>> :
             a \in {<<5, 2>>, <<1, 3>>}, b \in {<<2, 3>>, <<3, 3>>, <<1, 5>>}}
TableStock(raw, qty) == [id |-> "a", usable |-> TRUE, raw |-> raw, table |-> <<raw[1], raw[2] - 1>>, qty |-> qty]
TableRequests(endpoint, blocks, stocks, directions) ==
    UNION {{[Plain EXCEPT !.layout = "vacuum_table", !.endpoint = endpoint, !.blocks = blocks,
                          !.items = items, !.stock = <<stock>>]
              @@ [direction |-> direction, solutions |-> solutions] :
                 solutions \in Nested(items, stock, direction)} :
        items \in TableItems, stock \in stocks, direction \in directions}

OnTables ==
    TableRequests("optimize", <<>>, {TableStock(<<7, 8>>, qty) : qty \in 0..2}, {"optimal", "width", "height"})
    \cup TableRequests("optimize", <<>>, {TableStock(<<8, 6>>, qty) : qty \in 0..2}, {"optimal"})
    \cup TableRequests("alns", "profile_pool" :> [zone_penalties |-> <<1000>>], {TableStock(<<6, 7>>, 1)}, {"optimal"})

-----------------------------------------------------------------------------
Item(qty) == [qty |-> qty, sized |-> TRUE]
Odd ==
    {[Plain EXCEPT !.items = [i \in 1..n |-> Item(IF i = 1 THEN q ELSE r)]] : n \in 0..2, q \in 0..15, r \in {0, 4, 12}}
    \cup {[Plain EXCEPT !.items[1].sized = FALSE], [Plain EXCEPT !.gaps = FALSE],
          [Plain EXCEPT !.prepares = FALSE], [Plain EXCEPT !.fits = FALSE],
          [Plain EXCEPT !.stock[1].usable = FALSE], [Plain EXCEPT !.stock = @ \o @],
          [Plain EXCEPT !.stock = <<>>]}
    \cup {[Plain EXCEPT !.layout = "vacuum_table", !.stock = Append(@, [id |-> "b", usable |-> TRUE])]}
    \cup With("optimize", "partition", {<<>>, "enabled" :> FALSE})
    \cup With("alns", "partition", {<<>>})

Pools == {
    [preset |-> "balanced_quality"],
    [preset |-> "cheap", rescue_zone_penalties |-> <<4000, 6000>>, max_lead_drop_pp |-> 0],
    [preset |-> "aggressive", enabled |-> FALSE],
    [zone_penalties |-> <<1000, 3000>>, seed_offsets |-> <<7>>, rescue_when_max_corner_below_mm2 |-> 300000],
    [zone_penalties |-> <<1000, 3000>>, rescue_when_zones_gt |-> 0],
    [zone_penalties |-> <<1000>>, seed_offsets |-> <<1, 2>>, rescue_when_zones_gt |-> 0,
     rescue_accept_min_max_corner_mm2 |-> 300000, fill_penalty |-> 0],
    [zone_penalties |-> <<>>], [seed_offsets |-> <<0>>]}

Pooling ==
    With("optimize", "profile_pool", Pools)
    \cup With("beam", "profile_pool", {[preset |-> "cheap"]})
    \cup {[Plain EXCEPT !.blocks = ("profile_pool" :> [zone_penalties |-> <<1000>>]) @@ ("partition" :> <<>>)],
          [Plain EXCEPT !.blocks = "profile_pool" :> [zone_penalties |-> <<1000, 2000>>], !.fits = FALSE],
          [Plain EXCEPT !.blocks = "profile_pool" :> [zone_penalties |-> <<1000, 2000>>], !.prepares = FALSE]}
    \cup TableRequests("optimize", "profile_pool" :> [zone_penalties |-> <<1000>>], {TableStock(<<6, 7>>, 1)}, {"width"})

SomeRequests == Searching \cup Planning \cup Odd \cup Pooling \cup OnTables

Layout(sheets, visual, waste, lead, corner) ==
    [sheets |-> sheets, visual |-> visual, waste |-> waste, shift |-> 0, lead |-> lead, corner |-> corner]

\* One sheet or two, in and out of the lead's window, below and above the
\* corner and zone thresholds.
SomeResponses == {
    Layout(1, 5, 6, 900, 200000), Layout(1, 3, 3, 895, 400000), Layout(1, 4, 5, 920, 400000),
    Layout(1, 3, 4, 912, 250000), Layout(2, 2, 2, 990, 400000), Layout(2, 6, 7, 950, 200000)}
=============================================================================
