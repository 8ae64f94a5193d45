------------------------------- MODULE Assembly --------------------------------
(***************************************************************************)
(* From a request to its answer, around the solver: prepare_input sets     *)
(* oversized items apart and hands the solver unlimited sheets of every    *)
(* size; build_solutions then gives each sheet used a stock of the request *)
(* and a number, and apply_qty_limits drops the sheets the stock does not  *)
(* have.  Two passes count the sheets of a stock, each on its own.         *)
(*                                                                         *)
(* A stock is named by its place in the request.  Stocks with the same     *)
(* usable size share an entry of stock_map: the solver tells sizes apart,  *)
(* not stocks.                                                             *)
(***************************************************************************)
EXTENDS Integers, Sequences, FiniteSets, FiniteSetsExt

CONSTANTS
    NStocks,        \* stock entries of the request
    SizeOf,         \* the usable size of each
    Instances,      \* item instances of the request
    FitsOn,         \* the sizes each instance fits, clearances included
    Quantities      \* the values of a stock's qty; 0 is unlimited

Stocks == 1..NStocks
Sizes == {SizeOf[s] : s \in Stocks}

ASSUME AssemblyAssumption ==
    /\ NStocks \in Nat \ {0}
    /\ DOMAIN SizeOf = Stocks
    /\ IsFiniteSet(Instances)
    /\ FitsOn \in [Instances -> SUBSET Sizes]
    /\ Quantities \subseteq Nat

VARIABLES
    pc,         \* "prepare", "pack", "assign", "limit" or "done"
    qty,        \* quantity of each stock of the request
    oversized,  \* instances that fit no stock
    sheets,     \* what the solver returned: size and parts of each sheet
    assigned,   \* assigned_counts, and index_map with it
    solutions,  \* the sheets with their stock and number
    examined,   \* sheets apply_qty_limits has looked at
    counts,     \* stock_counts
    kept,       \* the positions of the sheets kept
    unplaced    \* instances reported with the reason "qty_limit"

vars == <<pc, qty, oversized, sheets, assigned, solutions, examined, counts, kept, unplaced>>

Phases == {"prepare", "pack", "assign", "limit", "done"}

Fitting == {i \in Instances : FitsOn[i] # {}}

Sheet == [size : Sizes, parts : (SUBSET Instances) \ {{}}]
Solution == [stock : Stocks, index : Nat, parts : SUBSET Instances]

\* The layout that puts part i on sheet where[i].
Layout(where, size) ==
    [n \in DOMAIN size |-> [size |-> size[n], parts |-> {i \in DOMAIN where : where[i] = n}]]

\* choose_stock_info, among the stocks of one size.  The first one that has a
\* sheet left; or the first unlimited one; or the first.
SameSize(z) == {s \in Stocks : SizeOf[s] = z}
LeftMutant(s) == qty[s] > 0             \* the sheets already taken are not counted

Left(s) == qty[s] > 0 /\ assigned[s] < qty[s]

ChooseStock(z) ==
    LET left == {s \in SameSize(z) : Left(s)}
        unlimited == {s \in SameSize(z) : qty[s] = 0}
    IN  IF left # {} THEN Min(left)
        ELSE IF unlimited # {} THEN Min(unlimited)
        ELSE Min(SameSize(z))

WithinLimit(s) == qty[s] > 0 => counts[s] < qty[s]

-----------------------------------------------------------------------------
(* Mutated forms of the actions below: what a bug in them would be.        *)

DropSheetMutant ==                      \* the parts of the sheet are forgotten
    /\ pc = "limit"
    /\ examined < Len(solutions)
    /\ ~WithinLimit(solutions[examined + 1].stock)
    /\ examined' = examined + 1
    /\ UNCHANGED <<pc, qty, oversized, sheets, assigned, solutions, counts, kept, unplaced>>

-----------------------------------------------------------------------------
Init ==
    /\ pc = "prepare"
    /\ qty \in [Stocks -> Quantities]
    /\ oversized = {}
    /\ sheets = <<>>
    /\ assigned = [s \in Stocks |-> 0]
    /\ solutions = <<>>
    /\ examined = 0
    /\ counts = [s \in Stocks |-> 0]
    /\ kept = {}
    /\ unplaced = {}

\* prepare_input; without a part that fits, the answer is empty.
Prepare ==
    /\ pc = "prepare"
    /\ oversized' = Instances \ Fitting
    /\ pc' = IF Fitting = {} THEN "done" ELSE "pack"
    /\ UNCHANGED <<qty, sheets, assigned, solutions, examined, counts, kept, unplaced>>

\* The solver returns a layout of all parts it was given: each is on one sheet,
\* of a size it fits, and no sheet is empty.
Pack ==
    /\ pc = "pack"
    /\ \E k \in 1..Cardinality(Fitting) :
        \E where \in [Fitting -> 1..k], size \in [1..k -> Sizes] :
            /\ \A n \in 1..k : \E i \in Fitting : where[i] = n
            /\ \A i \in Fitting : size[where[i]] \in FitsOn[i]
            /\ sheets' = Layout(where, size)
    /\ pc' = "assign"
    /\ UNCHANGED <<qty, oversized, assigned, solutions, examined, counts, kept, unplaced>>

\* build_solutions gives the next sheet a stock and the number it has there.
AssignSheet ==
    /\ pc = "assign"
    /\ Len(solutions) < Len(sheets)
    /\ LET sheet == sheets[Len(solutions) + 1]
           s == ChooseStock(sheet.size)
       IN  /\ solutions' = Append(solutions, [stock |-> s, index |-> assigned[s], parts |-> sheet.parts])
           /\ assigned' = [assigned EXCEPT ![s] = @ + 1]
    /\ UNCHANGED <<pc, qty, oversized, sheets, examined, counts, kept, unplaced>>

AssignEnds ==
    /\ pc = "assign"
    /\ Len(solutions) = Len(sheets)
    /\ pc' = "limit"
    /\ UNCHANGED <<qty, oversized, sheets, assigned, solutions, examined, counts, kept, unplaced>>

\* apply_qty_limits keeps the next sheet...
KeepSheet ==
    /\ pc = "limit"
    /\ examined < Len(solutions)
    /\ LET s == solutions[examined + 1].stock
       IN  /\ WithinLimit(s)
           /\ counts' = [counts EXCEPT ![s] = @ + 1]
    /\ kept' = kept \cup {examined + 1}
    /\ examined' = examined + 1
    /\ UNCHANGED <<pc, qty, oversized, sheets, assigned, solutions, unplaced>>

\* ...or reports its parts.
DropSheet ==
    /\ pc = "limit"
    /\ examined < Len(solutions)
    /\ ~WithinLimit(solutions[examined + 1].stock)
    /\ unplaced' = unplaced \cup solutions[examined + 1].parts
    /\ examined' = examined + 1
    /\ UNCHANGED <<pc, qty, oversized, sheets, assigned, solutions, counts, kept>>

Answer ==
    /\ pc = "limit"
    /\ examined = Len(solutions)
    /\ pc' = "done"
    /\ UNCHANGED <<qty, oversized, sheets, assigned, solutions, examined, counts, kept, unplaced>>

Done == pc = "done" /\ UNCHANGED vars

Next ==
    \/ Prepare \/ Pack
    \/ AssignSheet \/ AssignEnds
    \/ KeepSheet \/ DropSheet \/ Answer
    \/ Done

Spec == Init /\ [][Next]_vars
-----------------------------------------------------------------------------
TypeOK ==
    /\ pc \in Phases
    /\ qty \in [Stocks -> Nat]
    /\ oversized \subseteq Instances
    /\ sheets \in Seq(Sheet)
    /\ assigned \in [Stocks -> Nat]
    /\ solutions \in Seq(Solution)
    /\ examined \in 0..Len(solutions)
    /\ counts \in [Stocks -> Nat]
    /\ kept \subseteq 1..examined
    /\ unplaced \subseteq Instances

Placed(i) == \E n \in kept : i \in solutions[n].parts

\* The answer accounts for every instance of the request once: placed on one
\* sheet, or unplaced for one reason.
EveryInstanceOnce ==
    pc = "done" =>
        /\ \A m, n \in kept : m # n => solutions[m].parts \cap solutions[n].parts = {}
        /\ \A i \in Instances :
            /\ i \in oversized \/ i \in unplaced \/ Placed(i)
            /\ ~(i \in oversized /\ (i \in unplaced \/ Placed(i)))
            /\ ~(i \in unplaced /\ Placed(i))

\* Sheet k of a stock is in the answer.
Used(s, k) == \E n \in kept : solutions[n].stock = s /\ solutions[n].index = k

\* The sheets of a stock in the answer are numbered from 0 without a gap, no
\* two alike, and there are no more than it has.
SheetsNumbered ==
    pc = "done" =>
        /\ \A m, n \in kept :
            m # n => <<solutions[m].stock, solutions[m].index>> # <<solutions[n].stock, solutions[n].index>>
        /\ \A n \in kept :
            LET s == solutions[n].stock
            IN  /\ qty[s] > 0 => solutions[n].index < qty[s]
                /\ \A k \in 0..solutions[n].index : Used(s, k)

AllUsed(s) == qty[s] > 0 /\ \A k \in 0..(qty[s] - 1) : Used(s, k)

\* A sheet is dropped only if all sheets of its size are used, of whatever
\* stock: the two counts agree.
NoFalseQtyLimit ==
    pc = "done" =>
        \A n \in (1..Len(solutions)) \ kept : \A s \in SameSize(sheets[n].size) : AllUsed(s)
=============================================================================
