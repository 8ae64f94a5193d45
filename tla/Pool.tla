--------------------------------- MODULE Pool ---------------------------------
(***************************************************************************)
(* The profile pool of src/src/optimizer.rs as functions: what its presets *)
(* set, which runs it plans, and which of their answers it returns         *)
(* (profile_pool_winner_idx).  Dispatch runs it.                           *)
(*                                                                         *)
(* A candidate is what the choice sees of a response: sheets used, visual  *)
(* and all waste regions, the three measures of group shifts as one number *)
(* (smaller is better), the fullest sheet's utilisation in tenths of a     *)
(* percent and the largest free corner.                                    *)
(***************************************************************************)
EXTENDS Validation

PresetProfiles(preset) ==
    IF preset \in {"cheap", "balanced_quality"} THEN <<2000, 3000, 5000>> ELSE <<2000, 3000, 4000, 5000>>

PresetRescueProfiles(preset) == IF preset \in {"cheap", "balanced_quality"} THEN <<4000>> ELSE <<>>

\* Thresholds that are not set are the sets of no value.
PresetZonesGt(preset) == CASE preset = "cheap" -> {5} [] preset = "balanced_quality" -> {4} [] OTHER -> {}
PresetCorner(preset) == IF preset = "balanced_quality" THEN {300000} ELSE {}

Given(pool, field) == IF Has(pool, field) THEN {pool[field]} ELSE {}

\* Without a preset the lists are those of "aggressive".
ProfilesOf(pool) ==
    Value(pool, "zone_penalties", PresetProfiles(Value(pool, "preset", "aggressive")))
RescueProfilesOf(pool) ==
    Value(pool, "rescue_zone_penalties", PresetRescueProfiles(Value(pool, "preset", "aggressive")))
OffsetsOf(pool) == Value(pool, "seed_offsets", <<>>)
DropOf(pool) == Value(pool, "max_lead_drop_pp", 8)

\* A rescue with nothing to run is never triggered.
CanRescue(pool) == OffsetsOf(pool) # <<>> \/ RescueProfilesOf(pool) # <<>>

\* The client's threshold, else the preset's, else a default.
ZonesGtOf(pool) ==
    LET preset == UNION {PresetZonesGt(name) : name \in Given(pool, "preset")}
    IN IF Has(pool, "rescue_when_zones_gt") THEN {pool["rescue_when_zones_gt"]}
       ELSE IF preset # {} THEN preset
       ELSE IF CanRescue(pool) THEN {5} ELSE {}

AcceptCornerOf(pool) ==
    IF Has(pool, "rescue_accept_min_max_corner_mm2") THEN {pool["rescue_accept_min_max_corner_mm2"]}
    ELSE UNION {PresetCorner(name) : name \in Given(pool, "preset")}

Task(zonePenalty, offset, isRescue) == [zonePenalty |-> zonePenalty, offset |-> offset, isRescue |-> isRescue]

BaseTasks(pool) ==
    LET profiles == ProfilesOf(pool)
    IN [i \in DOMAIN profiles |-> Task(profiles[i], 0, FALSE)]

RescueTasksMutant(pool) ==              \* the runs are not marked as rescues
    LET rescue == RescueProfilesOf(pool)
    IN [i \in DOMAIN rescue |-> Task(rescue[i], 0, FALSE)]

\* First the rescue profiles with the request's seed, then all profiles with
\* each offset.
RescueTasks(pool) ==
    LET profiles == ProfilesOf(pool)
        rescue == RescueProfilesOf(pool)
        offsets == OffsetsOf(pool)
    IN [i \in DOMAIN rescue |-> Task(rescue[i], 0, TRUE)]
       \o [i \in 1..(Len(offsets) * Len(profiles)) |->
              Task(profiles[((i - 1) % Len(profiles)) + 1], offsets[((i - 1) \div Len(profiles)) + 1], TRUE)]

Triggered(pool, provisional) ==
    /\ CanRescue(pool)
    /\ \/ \E limit \in ZonesGtOf(pool) : provisional.waste > limit
       \/ \E least \in Given(pool, "rescue_when_max_corner_below_mm2") : provisional.corner < least

-----------------------------------------------------------------------------
(* The choice *)

\* Compared one after the other; smaller is better.
Order(c) == <<c.sheets, c.visual, c.waste, c.shift, -c.lead, -c.corner>>

Precedes(s, t) ==
    \E k \in DOMAIN s : s[k] < t[k] /\ \A j \in 1..(k - 1) : s[j] = t[j]

BetterCandidate(a, b) == Precedes(Order(a), Order(b))

Rejected(candidate, guard) ==
    candidate.isRescue /\ \E least \in guard : candidate.corner < least

EligibleMutant(candidates, drop, guard) ==    \* the lead is not compared per sheet count
    LET kept == {i \in DOMAIN candidates : ~Rejected(candidates[i], guard)}
    IN {i \in kept : \A j \in kept : candidates[i].lead + drop >= candidates[j].lead}

\* Of the candidates that need the fewest sheets, those whose fullest sheet is
\* nearly as full as any.
Eligible(candidates, drop, guard) ==
    LET kept == {i \in DOMAIN candidates : ~Rejected(candidates[i], guard)}
        fewest == {i \in kept : \A j \in kept : candidates[i].sheets <= candidates[j].sheets}
    IN {i \in fewest : \A j \in fewest : candidates[i].lead + drop >= candidates[j].lead}

\* The first of the best; the first of all if there is none to choose from.
WinnerIdx(candidates, drop, guard) ==
    LET eligible == Eligible(candidates, drop, guard)
        best == {i \in eligible : \A j \in eligible : ~BetterCandidate(candidates[j], candidates[i])}
    IN IF best = {} THEN 1 ELSE CHOOSE i \in best : \A j \in best : i <= j
=============================================================================
