--------------------------------- MODULE Retry ---------------------------------
(***************************************************************************)
(* Smart retry: optimize_request answers with the best of several attempts *)
(* at a request, each with other settings, chosen from what is wrong with  *)
(* the best answer so far.  One strategy, the rebalance, is judged by      *)
(* another score than the others.                                          *)
(*                                                                         *)
(* A response is what the scores see of it: how many sheets are used, the  *)
(* utilisation in percent of the loosest and the densest one and of all    *)
(* together, whether items are unplaced, and whether it is an applied      *)
(* peeling.  Seeds count from the request's; one drawn at random is taken  *)
(* to differ from all others.                                              *)
(***************************************************************************)
EXTENDS Integers, Sequences, FiniteSets, FiniteSetsExt

CONSTANTS
    Responses,          \* what an attempt may answer
    Modes,              \* layout modes of the requests
    RestartsAsked,      \* values of params.restarts; 0 is unset
    DefaultRestarts,    \* config.default_restarts
    Attempts            \* values of max_retry_attempts

Response == [sheets : Nat, low : 0..100, high : 0..100, total : Nat, unplaced : BOOLEAN, applied : BOOLEAN]

AllModes == {"guillotine", "nested", "vacuum_table"}

ASSUME RetryAssumption ==
    /\ Responses \subseteq Response
    /\ Modes \subseteq AllModes
    /\ RestartsAsked \subseteq Nat
    /\ DefaultRestarts \in Nat \ {0}
    /\ Attempts \subseteq Nat \ {0}

VARIABLES
    pc,             \* "first", "choose", "search", "done" or "error"
    req,            \* the request
    best,           \* the best response so far
    retryIdx,       \* retry_idx
    strategy,       \* the strategy of the attempt under way
    settings,       \* and the settings of its search
    strategies,     \* the telemetry's list
    told,           \* telemetry is attached to the answer
    \* History:
    first,          \* the first attempt's response
    searched,       \* settings of the searches that answered
    made,           \* attempts that answered
    rebalanced      \* a rebalance was accepted

history == <<first, searched, made, rebalanced>>
vars == <<pc, req, best, retryIdx, strategy, settings, strategies, told, first, searched, made, rebalanced>>

Strategies == {"rebalance", "more_restarts", "different_seed", "switch_to_nested"}
Random == -1

Request == [smart : BOOLEAN, mode : Modes, seeded : BOOLEAN, restarts : RestartsAsked,
            attempts : Attempts, partition : BOOLEAN]
Settings == [mode : AllModes, seed : {Random} \cup Nat, restarts : Nat]

NoResponse == [sheets |-> 0, low |-> 0, high |-> 0, total |-> 0, unplaced |-> FALSE, applied |-> FALSE]

-----------------------------------------------------------------------------
(* Scores                                                                  *)

Spread(r) == r.high - r.low

\* assess_failure: what is wrong with a response.
FailureMode(r) ==
    IF r.sheets = 0 THEN "no_solution"
    ELSE IF r.sheets >= 5 THEN "too_many_sheets"
    ELSE IF r.low < 88 THEN "very_lumpy"
    ELSE IF r.low < 90 THEN "lumpy"
    ELSE IF Spread(r) > 5 THEN "imbalanced"
    ELSE "none"

Ok(r) == FailureMode(r) = "none"

\* is_better_response: fewer sheets, then a denser loosest sheet, then a
\* smaller spread; a response without sheets is the worst.
BetterMutant(a, b) ==               \* a loose sheet rather than one sheet less
    \/ b.sheets = 0 /\ a.sheets > 0
    \/ a.sheets > 0 /\ b.sheets > 0 /\ a.low > b.low

Better(a, b) ==
    \/ b.sheets = 0 /\ a.sheets > 0
    \/ /\ a.sheets > 0 /\ b.sheets > 0
       /\ \/ a.sheets < b.sheets
          \/ a.sheets = b.sheets /\ a.low > b.low
          \/ a.sheets = b.sheets /\ a.low = b.low /\ Spread(a) < Spread(b)

\* dense_score: fewer sheets, then denser sheets besides the loosest one.
Lead(r) == IF r.sheets > 1 THEN r.total - r.low ELSE r.total

Denser(a, b) ==
    \/ b.sheets = 0 /\ a.sheets > 0
    \/ /\ a.sheets > 0 /\ b.sheets > 0
       /\ \/ a.sheets < b.sheets
          \/ a.sheets = b.sheets /\ Lead(a) > Lead(b)
          \/ a.sheets = b.sheets /\ Lead(a) = Lead(b) /\ a.low > b.low

-----------------------------------------------------------------------------
(* Strategies                                                              *)

Direct == req.mode = "vacuum_table" \/ ~req.smart \/ req.attempts <= 1

ChooseStrategy(failure, idx) ==
    CASE failure = "no_solution" -> "different_seed"
      [] failure = "too_many_sheets" -> "switch_to_nested"
      [] failure \in {"imbalanced", "lumpy"} ->
            IF idx > 1 THEN "different_seed" ELSE IF req.partition THEN "rebalance" ELSE "more_restarts"
      [] failure = "very_lumpy" ->
            IF idx > 1 THEN "more_restarts" ELSE IF req.partition THEN "rebalance" ELSE "switch_to_nested"

FirstSettings ==
    [mode |-> req.mode,
     seed |-> IF req.seeded THEN 0 ELSE Random,
     restarts |-> IF req.restarts = 0 THEN DefaultRestarts ELSE req.restarts]

Doubled == Min({2 * (IF req.restarts = 0 THEN 5 ELSE req.restarts), 20})

\* apply_strategy to a fresh copy of the request.
ApplyStrategyMutant(s, idx) ==      \* every retry moves to the same seed
    [mode |-> IF s = "switch_to_nested" THEN "nested" ELSE req.mode,
     seed |-> 100,
     restarts |-> IF s = "more_restarts" THEN Doubled ELSE FirstSettings.restarts]

ApplyStrategy(s, idx) ==
    [mode |-> IF s = "switch_to_nested" THEN "nested" ELSE req.mode,
     seed |-> 100 * idx,
     restarts |-> IF s = "more_restarts" THEN Doubled ELSE FirstSettings.restarts]

\* rebalance_attempt moves parts between sheets of one size: they must all be
\* placed, and stay so; a sheet may empty.
CanRebalance(r) == r.sheets >= 2 /\ ~r.unplaced

Rebalances(a, r) ==
    /\ a.sheets \in 1..r.sheets
    /\ a.total = r.total
    /\ ~a.unplaced /\ ~a.applied

-----------------------------------------------------------------------------
(* Mutated forms of the actions below: what a bug in them would be.        *)

FinishMutant ==                     \* the last of several retries is not made
    /\ pc = "choose"
    /\ retryIdx >= Max({req.attempts - 1, 2}) \/ Ok(best)
    /\ pc' = "done"
    /\ told' = TRUE
    /\ UNCHANGED <<req, best, retryIdx, strategy, settings, strategies, history>>

-----------------------------------------------------------------------------
Init ==
    /\ pc = "first"
    /\ req \in Request
    /\ best = NoResponse
    /\ retryIdx = 1
    /\ strategy = "different_seed"
    /\ settings = FirstSettings
    /\ strategies = <<>>
    /\ told = FALSE
    /\ first = NoResponse
    /\ searched = {}
    /\ made = 0
    /\ rebalanced = FALSE

\* The first attempt answers; an applied peeling and a good response are final.
FirstAnswers ==
    /\ pc = "first"
    /\ \E r \in Responses :
        /\ r.applied => req.partition
        /\ best' = r
        /\ first' = r
        /\ pc' = IF Direct \/ r.applied \/ Ok(r) THEN "done" ELSE "choose"
    /\ searched' = {settings}
    /\ made' = 1
    /\ UNCHANGED <<req, retryIdx, strategy, settings, strategies, told, rebalanced>>

\* The head of the loop: what is wrong with the best response decides.
StartAttempt ==
    /\ pc = "choose"
    /\ retryIdx < req.attempts
    /\ ~Ok(best)
    /\ pc' = "search"
    /\ strategy' = ChooseStrategy(FailureMode(best), retryIdx)
    /\ settings' = ApplyStrategy(strategy', retryIdx)
    /\ UNCHANGED <<req, best, retryIdx, strategies, told, history>>

\* An attempt with other settings answers.
SearchAnswers ==
    /\ pc = "search" /\ strategy # "rebalance"
    /\ \E r \in Responses :
        /\ r.applied => req.partition
        /\ best' = IF Better(r, best) THEN r ELSE best
    /\ pc' = "choose"
    /\ retryIdx' = retryIdx + 1
    /\ strategies' = Append(strategies, strategy)
    /\ searched' = searched \cup {settings}
    /\ made' = made + 1
    /\ UNCHANGED <<req, strategy, settings, told, first, rebalanced>>

\* No move of a part was verified: the slot goes to another seed.
RebalanceFails ==
    /\ pc = "search" /\ strategy = "rebalance"
    /\ strategy' = "different_seed"
    /\ settings' = ApplyStrategy("different_seed", retryIdx)
    /\ UNCHANGED <<pc, req, best, retryIdx, strategies, told, history>>

\* A denser rebalance is the answer.
RebalanceAccepted ==
    /\ pc = "search" /\ strategy = "rebalance"
    /\ CanRebalance(best)
    /\ \E r \in Responses :
        /\ Rebalances(r, best) /\ Denser(r, best)
        /\ best' = r
    /\ pc' = "done"
    /\ strategies' = Append(strategies, strategy)
    /\ told' = TRUE
    /\ made' = made + 1
    /\ rebalanced' = TRUE
    /\ UNCHANGED <<req, retryIdx, strategy, settings, first, searched>>

RebalanceRejected ==
    /\ pc = "search" /\ strategy = "rebalance"
    /\ CanRebalance(best)
    /\ \E r \in Responses : Rebalances(r, best) /\ ~Denser(r, best)
    /\ pc' = "choose"
    /\ retryIdx' = retryIdx + 1
    /\ strategies' = Append(strategies, strategy)
    /\ made' = made + 1
    /\ UNCHANGED <<req, best, strategy, settings, told, first, searched, rebalanced>>

\* Any attempt may fail (a timeout without a layout, a constraint, a panicked
\* job): the error is the answer.
AttemptFails ==
    /\ pc \in {"first", "search"}
    /\ pc' = "error"
    /\ UNCHANGED <<req, best, retryIdx, strategy, settings, strategies, told, history>>

\* The loop ends, and the telemetry is attached.
Finish ==
    /\ pc = "choose"
    /\ retryIdx >= req.attempts \/ Ok(best)
    /\ pc' = "done"
    /\ told' = TRUE
    /\ UNCHANGED <<req, best, retryIdx, strategy, settings, strategies, history>>

Done == pc \in {"done", "error"} /\ UNCHANGED vars

Step ==
    \/ FirstAnswers \/ AttemptFails
    \/ StartAttempt \/ SearchAnswers
    \/ RebalanceFails \/ RebalanceAccepted \/ RebalanceRejected
    \/ Finish

Next == Step \/ Done

Spec == Init /\ [][Next]_vars
-----------------------------------------------------------------------------
TypeOK ==
    /\ pc \in {"first", "choose", "search", "done", "error"}
    /\ req \in Request
    /\ best \in Response /\ first \in Response
    /\ retryIdx \in Nat \ {0}
    /\ strategy \in Strategies
    /\ settings \in Settings
    /\ strategies \in Seq(Strategies)
    /\ told \in BOOLEAN /\ rebalanced \in BOOLEAN
    /\ searched \subseteq Settings
    /\ made \in Nat

\* The answer is no worse than the first response by the score of the retries,
\* unless it is a rebalance of it, which is denser.  Either way it has no more
\* sheets.
NeverWorse ==
    /\ IF rebalanced THEN Denser(best, first) ELSE ~Better(first, best)
    /\ first.sheets > 0 => best.sheets \in 1..first.sheets

\* The telemetry counts the attempts that were made, within the limit, and is
\* there if there was more than one.
AttemptsCounted ==
    /\ made <= req.attempts
    /\ pc = "done" => (told <=> made > 1)
    /\ told => made = Len(strategies) + 1

\* No two attempts search with the same settings: a search is deterministic
\* in them, and would answer the same.
SearchesDiffer ==
    made = Cardinality(searched) + Cardinality({k \in DOMAIN strategies : strategies[k] = "rebalance"})

\* A response that is not good is the answer only if all attempts were made,
\* or it is final by intent.
TriesEnough ==
    pc = "done" => Ok(best) \/ Direct \/ first.applied \/ rebalanced \/ made = req.attempts

-----------------------------------------------------------------------------
(* What the comments say                                                   *)

\* RetryStrategy::Smart "picks the best of up to max_retry_attempts runs":
\* once the first attempt has placed every item, neither a failed retry nor
\* one that leaves items unplaced is the answer.
PicksBest ==
    made > 0 /\ ~first.unplaced /\ pc \in {"done", "error"} => pc = "done" /\ ~best.unplaced
================================================================================
