------------------------------- MODULE Schedule -------------------------------
(***************************************************************************)
(* How a time budget is cut into slices: derive_restarts_and_slice, used   *)
(* by the anytime searches, and derive_standard_restart_plan with          *)
(* build_restart_slice_schedule, used by the plain restart loop, of        *)
(* src/src/optimizer.rs.  Times are milliseconds.                          *)
(***************************************************************************)
EXTENDS Integers, Sequences, SequencesExt

CONSTANT MinSlice   \* MIN_SLICE_MS

ASSUME ScheduleAssumption == MinSlice \in Nat \ {0}

Larger(a, b) == IF a > b THEN a ELSE b
Smaller(a, b) == IF a < b THEN a ELSE b
Monus(a, b) == Larger(a - b, 0)
Clamp(n, lo, hi) == Smaller(Larger(n, lo), hi)

Total(slots) == FoldSeq(LAMBDA slot, sum : slot + sum, 0, slots)

\* Slices of equal length, fewer of them when they would get too short.
DeriveRestartsAndSlice(budget, requested) ==
    LET asked == Larger(1, requested)
        restarts == IF budget \div asked >= MinSlice THEN asked ELSE Larger(1, budget \div MinSlice)
    IN [restarts |-> restarts, slice |-> Larger(1, budget \div restarts)]

\* The tail slots share what the first leaves: by falling weights or evenly,
\* each on top of MinSlice; what the divisions leave goes to the first slots.
TailShares(extra, slots, progressive) ==
    LET Part(i) == IF progressive
                   THEN (extra * (slots - i + 1)) \div ((slots * (slots + 1)) \div 2)
                   ELSE extra \div slots
        rest == extra - Total([i \in 1..slots |-> Part(i)])
    IN [i \in 1..slots |-> Part(i) + (IF i <= rest THEN 1 ELSE 0)]

\* The overshoot is taken back from the last slot down, never below MinSlice.
Reduce(slots, over) ==
    LET Spare(i) == Monus(slots[i], MinSlice)
        Behind(i) == Total([j \in 1..(Len(slots) - i) |-> Spare(i + j)])
    IN [i \in DOMAIN slots |-> slots[i] - Smaller(Spare(i), Monus(over, Behind(i)))]

BuildSchedule(budget, restarts, minEffective, sharePercent, progressive) ==
    LET tail == restarts - 1
        target == Larger(Larger((budget * sharePercent) \div 100, minEffective), MinSlice)
        cap == Larger(Monus(budget, MinSlice * tail), MinSlice)
        baseline == Smaller(Smaller(target, cap), budget)
        extra == Monus(Monus(budget, baseline), MinSlice * tail)
        shares == TailShares(extra, tail, progressive)
        slots == <<baseline>> \o [i \in 1..tail |-> MinSlice + shares[i]]
        total == Total(slots)
    IN IF tail = 0 THEN <<budget>>
       ELSE IF total > budget THEN Reduce(slots, total - budget)
       ELSE [slots EXCEPT ![1] = @ + (budget - total)]

\* min_effective_slice_ms and the baseline's share, per SLA profile
Profiles ==
    [fast     |-> [minEffective |-> 700, share |-> 50],
     balanced |-> [minEffective |-> 550, share |-> 40],
     quality  |-> [minEffective |-> 400, share |-> 35]]

EffectiveRestartsMutant(budget, requested, minEffective) ==   \* nothing caps the restarts
    Larger(1, requested)

EffectiveRestarts(budget, requested, minEffective) ==
    Larger(1, Smaller(requested, Larger(1, Monus(budget, minEffective \div 2) \div minEffective)))

StandardPlan(budget, requested, profile) ==
    LET minEffective == Larger(Profiles[profile].minEffective, MinSlice)
        restarts == EffectiveRestarts(budget, requested, minEffective)
        schedule == BuildSchedule(Larger(1, budget), restarts, minEffective,
                                  Profiles[profile].share, profile # "fast")
    IN [restarts |-> restarts,
        schedule |-> schedule,
        fallback |-> IF restarts = 1 THEN Larger(1, budget)
                     ELSE Larger(1, Total(Tail(schedule)) \div (restarts - 1))]
=============================================================================
