------------------------------ MODULE Validation ------------------------------
(***************************************************************************)
(* validate_request of src/src/validation.rs: what it refuses, and with    *)
(* which of its two codes.  The optional blocks of the parameters are      *)
(* functions whose domain is the set of fields the client sent; checks of  *)
(* lengths are flags.                                                      *)
(*                                                                         *)
(* Fractions are counted in ten-thousandths, lead drops in tenths of a     *)
(* percentage point.  JSON has no NaN and no infinity.                     *)
(***************************************************************************)
EXTENDS Integers, Sequences, FiniteSets, SequencesExt

CONSTANTS
    MaxStockTypes,   \* limits.max_stock_types
    MaxInstances,    \* limits.max_instances
    Word             \* quantities and their sum are numbers modulo Word

ASSUME ValidationAssumption ==
    /\ MaxStockTypes \in Nat \ {0}
    /\ Word \in Nat \ {0}
    /\ MaxInstances \in 0..(Word - 1)

One == 10000
Fractions == 0..One
PositiveFractions == 1..One
AtLeast(least) == {n \in Nat : n >= least}

\* The values that are accepted, per field of each block.
Allowed ==
    [ga_override |-> [epochs |-> 1..2000, breed_factor |-> PositiveFractions,
                      survival_factor |-> Fractions, top_k_candidates |-> 1..64,
                      zone_penalty |-> Fractions, fill_penalty |-> Fractions],
     profile_pool |-> [fill_penalty |-> Fractions, max_lead_drop_pp |-> 0..100,
                       rescue_when_max_corner_below_mm2 |-> Nat,
                       rescue_accept_min_max_corner_mm2 |-> Nat],
     group_shift |-> [min_shift_mm |-> Nat, max_passes |-> 1..16],
     portfolio |-> [deadline_ms |-> AtLeast(100), candidate_count |-> 1..16],
     beam |-> [deadline_ms |-> AtLeast(100), beam_width |-> 1..8, beam_depth |-> 1..8,
               branch_factor |-> 1..8],
     alns |-> [deadline_ms |-> AtLeast(100), iterations |-> 1..512, segment_size |-> 1..64,
               temperature_start |-> AtLeast(1), temperature_end |-> AtLeast(1),
               reaction_factor |-> PositiveFractions]]

\* The same of the elements of the lists.
AllowedElements ==
    [zone_penalties |-> Fractions, rescue_zone_penalties |-> Fractions, seed_offsets |-> AtLeast(1)]

Has(block, field) == field \in DOMAIN block
Value(block, field, default) == IF Has(block, field) THEN block[field] ELSE default
Enabled(block) == Value(block, "enabled", TRUE)

\* A block that is switched off is not looked at.
BlockValid(name, block) ==
    Enabled(block) => \A field \in DOMAIN block \cap DOMAIN Allowed[name] :
                          block[field] \in Allowed[name][field]

ListsValid(block) ==
    Enabled(block) => \A field \in DOMAIN block \cap DOMAIN AllowedElements :
                          /\ Len(block[field]) \in 1..8
                          /\ \A i \in DOMAIN block[field] : block[field][i] \in AllowedElements[field]

\* The two temperatures are compared only if both are given.
TemperaturesFall(block) ==
    Enabled(block) /\ Has(block, "temperature_start") /\ Has(block, "temperature_end")
        => block["temperature_end"] <= block["temperature_start"]

BlocksValid(blocks) ==
    /\ \A name \in DOMAIN blocks \cap DOMAIN Allowed : BlockValid(name, blocks[name]) /\ ListsValid(blocks[name])
    /\ Has(blocks, "alns") => TemperaturesFall(blocks["alns"])

StockValid(request) ==
    /\ Len(request.stock) \in 1..MaxStockTypes
    /\ request.layout = "vacuum_table" => Len(request.stock) = 1
    /\ IsInjective([i \in DOMAIN request.stock |-> request.stock[i].id])
    /\ \A i \in DOMAIN request.stock : request.stock[i].usable

\* The quantities, summed without end and as the sum of u32 comes out.
Instances(request) == FoldSeq(LAMBDA item, sum : item.qty + sum, 0, request.items)
TotalInstances(request) == Instances(request) % Word

TooMany(request) == TotalInstances(request) > MaxInstances

OptionsValid(options) ==
    /\ Value(options, "time_limit_ms", 100) >= 100
    /\ Value(options, "restarts", 1) >= 1

\* The quantities themselves are looked at after their sum.  Kerf, spacing and
\* trims that are not negative, a stock that the trims leave some of, and an
\* item of positive sides are flags of the request.
Verdict(request) ==
    IF ~(/\ request.items # <<>> /\ request.gaps
         /\ StockValid(request) /\ OptionsValid(request.options) /\ BlocksValid(request.blocks)) THEN "validation"
    ELSE IF TooMany(request) THEN "constraint"
    ELSE IF \E i \in DOMAIN request.items : request.items[i].qty < 1 \/ ~request.items[i].sized THEN "validation"
    ELSE "ok"
=============================================================================
