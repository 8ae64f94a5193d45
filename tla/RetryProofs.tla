------------------------------ MODULE RetryProofs --------------------------------
(***************************************************************************)
(* Proofs about Retry: whatever the attempts answer, the answer is never   *)
(* worse than the first response nor uses more sheets, the telemetry       *)
(* counts the attempts made, no two of them search alike, and a bad        *)
(* response is the answer only when all attempts were made.                *)
(*                                                                         *)
(* The two scores do not agree, so a rebalance accepted after another      *)
(* retry could undo its gain.  It never is: the rebalance is only tried    *)
(* first, while the best response is still the first one, and is final.    *)
(***************************************************************************)
EXTENDS Retry, TLAPS, FiniteSetTheorems

Running == pc \in {"choose", "search"}

Rebalanced(list) == {k \in DOMAIN list : list[k] = "rebalance"}

FirstInv ==
    pc = "first" =>
        /\ best = NoResponse /\ first = NoResponse
        /\ made = 0 /\ searched = {} /\ strategies = <<>>
        /\ settings = FirstSettings /\ retryIdx = 1
        /\ ~told /\ ~rebalanced

LoopInv ==
    Running =>
        /\ ~Direct /\ ~told /\ ~rebalanced
        /\ made = retryIdx
        /\ made = Len(strategies) + 1
        /\ retryIdx <= req.attempts
        /\ retryIdx = 1 => best = first /\ ~Ok(best)

SearchInv ==
    pc = "search" =>
        /\ retryIdx < req.attempts
        /\ strategy = "rebalance" => retryIdx = 1
        /\ settings.seed = 100 * retryIdx

\* The seeds of the searches made are below that of the next one.
SeedInv ==
    /\ IsFiniteSet(searched)
    /\ \A q \in searched : q.seed < 100 * retryIdx

IInv ==
    /\ TypeOK
    /\ FirstInv
    /\ LoopInv
    /\ SearchInv
    /\ SeedInv
    /\ NeverWorse
    /\ AttemptsCounted
    /\ SearchesDiffer
    /\ TriesEnough

-----------------------------------------------------------------------------
(* The scores                                                              *)

\* A response that is better than one no worse than the first is no worse than
\* the first, and has no more sheets.
LEMMA BetterStays ==
    ASSUME NEW a \in Response, NEW b \in Response, NEW f \in Response,
           ~Better(f, b), Better(a, b), f.sheets > 0 => b.sheets \in 1..f.sheets
    PROVE  ~Better(f, a) /\ (f.sheets > 0 => a.sheets \in 1..f.sheets)
<1>1. /\ a.sheets \in Nat /\ b.sheets \in Nat /\ f.sheets \in Nat
      /\ a.low \in Int /\ b.low \in Int /\ f.low \in Int
      /\ Spread(a) \in Int /\ Spread(b) \in Int /\ Spread(f) \in Int
  BY DEF Response, Spread
<1>2. f.sheets > 0 => a.sheets \in 1..f.sheets
  BY <1>1 DEF Better
<1>3. ~Better(f, a)
  BY <1>1 DEF Better
<1> QED
  BY <1>2, <1>3

\* No response is better than itself.
LEMMA NotBetter ==
    ASSUME NEW a \in Response
    PROVE  ~Better(a, a)
BY DEF Better, Response, Spread

\* The rebalance comes first or never.
LEMMA Strategy ==
    ASSUME NEW f \in {"no_solution", "too_many_sheets", "very_lumpy", "lumpy", "imbalanced"},
           NEW k \in Nat \ {0}
    PROVE  /\ ChooseStrategy(f, k) \in Strategies
           /\ ChooseStrategy(f, k) = "rebalance" => k = 1
<1>1. CASE f = "no_solution"
  <2>1. ChooseStrategy(f, k) = "different_seed"
    BY <1>1 DEF ChooseStrategy
  <2> QED
    BY <2>1 DEF Strategies
<1>2. CASE f = "too_many_sheets"
  <2>1. ChooseStrategy(f, k) = "switch_to_nested"
    BY <1>2 DEF ChooseStrategy
  <2> QED
    BY <2>1 DEF Strategies
<1>3. CASE f = "very_lumpy"
  <2>1. ChooseStrategy(f, k) =
            IF k > 1 THEN "more_restarts" ELSE IF req.partition THEN "rebalance" ELSE "switch_to_nested"
    BY <1>3 DEF ChooseStrategy
  <2> QED
    BY <2>1 DEF Strategies
<1>4. CASE f \in {"lumpy", "imbalanced"}
  <2>1. ChooseStrategy(f, k) =
            IF k > 1 THEN "different_seed" ELSE IF req.partition THEN "rebalance" ELSE "more_restarts"
    BY <1>4 DEF ChooseStrategy
  <2> QED
    BY <2>1 DEF Strategies
<1> QED
  BY <1>1, <1>2, <1>3, <1>4

\* The settings of an attempt are well-typed, with the seed of its retry.
LEMMA SettingsType ==
    ASSUME TypeOK, NEW s \in Strategies, NEW k \in Nat
    PROVE  /\ ApplyStrategy(s, k) \in Settings
           /\ ApplyStrategy(s, k).seed = 100 * k
           /\ FirstSettings \in Settings
<1>1. req.mode \in AllModes /\ req.restarts \in Nat /\ req.seeded \in BOOLEAN
  BY RetryAssumption DEF TypeOK, Request
<1>2. FirstSettings \in Settings
  BY <1>1, RetryAssumption DEF FirstSettings, Settings
<1>3. Doubled \in Nat
  <2> DEFINE a == 2 * (IF req.restarts = 0 THEN 5 ELSE req.restarts)
  <2>1. a \in Nat
    BY <1>1
  <2> HIDE DEF a
  <2>2. \E x \in {a, 20} : \A y \in {a, 20} : x <= y
    BY <2>1
  <2>3. Min({a, 20}) \in {a, 20}
    BY <2>2 DEF Min
  <2>4. Doubled = Min({a, 20})
    BY DEF Doubled, a
  <2> QED
    BY <2>1, <2>3, <2>4
<1>4. "nested" \in AllModes /\ 100 * k \in {Random} \cup Nat
  BY DEF AllModes
<1>5. FirstSettings.restarts \in Nat
  BY <1>2 DEF Settings
<1> QED
  BY <1>1, <1>2, <1>3, <1>4, <1>5 DEF ApplyStrategy, Settings

-----------------------------------------------------------------------------
(* Counting                                                                *)

\* One more strategy is one more rebalance, or as many.
LEMMA OneMore ==
    ASSUME NEW list \in Seq(Strategies), NEW s \in Strategies
    PROVE  LET more == Rebalanced(Append(list, s))
           IN  /\ Cardinality(Rebalanced(list)) \in Nat
               /\ Cardinality(more) = IF s = "rebalance" THEN Cardinality(Rebalanced(list)) + 1
                                      ELSE Cardinality(Rebalanced(list))
<1> DEFINE n == Len(list) + 1
           old == Rebalanced(list)
           more == Rebalanced(Append(list, s))
<1>1. /\ Len(list) \in Nat
      /\ DOMAIN list = 1..Len(list)
      /\ DOMAIN Append(list, s) = 1..n
      /\ Append(list, s)[n] = s
      /\ \A k \in 1..Len(list) : Append(list, s)[k] = list[k]
  OBVIOUS
<1>2. old \subseteq 1..Len(list) /\ n \notin old
  BY <1>1 DEF Rebalanced
<1>3. IsFiniteSet(old) /\ Cardinality(old) \in Nat
  <2>1. 1 \in Int /\ Len(list) \in Int
    BY <1>1
  <2>2. IsFiniteSet(1..Len(list))
    BY <2>1, FS_Interval
  <2> QED
    BY <1>2, <2>2, FS_Subset, FS_CardinalityType
<1>4. CASE s = "rebalance"
  <2>1. more = old \cup {n}
    BY <1>1, <1>4 DEF Rebalanced
  <2>2. Cardinality(old \cup {n}) = Cardinality(old) + 1
    BY <1>2, <1>3, FS_AddElement
  <2> QED
    BY <1>3, <1>4, <2>1, <2>2
<1>5. CASE s # "rebalance"
  <2>1. more = old
    BY <1>1, <1>5 DEF Rebalanced
  <2> QED
    BY <1>3, <1>5, <2>1
<1> QED
  BY <1>4, <1>5

-----------------------------------------------------------------------------
(* The invariant is inductive                                              *)

\* It holds when a request arrives.
LEMMA InitInv == Init => IInv
<1> SUFFICES ASSUME Init PROVE IInv
  OBVIOUS
<1>1. req \in Request /\ req.attempts \in Nat \ {0} /\ req.mode \in AllModes
             /\ req.restarts \in Nat /\ req.seeded \in BOOLEAN
  BY RetryAssumption DEF Init, Request
<1>2. FirstSettings \in Settings
  BY <1>1, RetryAssumption DEF FirstSettings, Settings
<1>3. NoResponse \in Response
  BY DEF NoResponse, Response
<1>4. TypeOK
  <2>1. strategies \in Seq(Strategies)
    BY DEF Init
  <2>2. /\ pc \in {"first", "choose", "search", "done", "error"}
        /\ strategy \in Strategies /\ retryIdx \in Nat \ {0} /\ made \in Nat
        /\ searched \subseteq Settings
    BY DEF Init, Strategies
  <2>4. told \in BOOLEAN /\ rebalanced \in BOOLEAN
    BY Zenon DEF Init
  <2>3. req \in Request /\ best \in Response /\ first \in Response /\ settings \in Settings
    BY <1>1, <1>2, <1>3 DEF Init
  <2> QED
    BY <2>1, <2>2, <2>3, <2>4 DEF TypeOK
<1>5. FirstInv /\ LoopInv /\ SearchInv
  BY DEF Init, FirstInv, LoopInv, SearchInv, Running
<1>6. SeedInv
  BY FS_EmptySet DEF Init, SeedInv
<1>7. NeverWorse
  BY DEF Init, NeverWorse, NoResponse, Better
<1>8. AttemptsCounted /\ TriesEnough
  BY <1>1 DEF Init, AttemptsCounted, TriesEnough
<1>9. SearchesDiffer
  <2>1. {k \in DOMAIN strategies : strategies[k] = "rebalance"} = {}
    BY DEF Init
  <2> QED
    BY <2>1, FS_EmptySet DEF Init, SearchesDiffer
<1> QED
  BY <1>4, <1>5, <1>6, <1>7, <1>8, <1>9 DEF IInv

\* The first response is the best one; if it is not final, the loop begins.
LEMMA FirstStep == IInv /\ FirstAnswers => IInv'
<1> SUFFICES ASSUME IInv, FirstAnswers PROVE IInv'
  OBVIOUS
<1> USE DEF IInv, FirstAnswers
<1>1. PICK r \in Responses :
        /\ best' = r
        /\ first' = r
        /\ pc' = IF Direct \/ r.applied \/ Ok(r) THEN "done" ELSE "choose"
  OBVIOUS
<1>2. r \in Response /\ req.attempts \in Nat \ {0}
  BY RetryAssumption DEF TypeOK, Request
<1>3. /\ searched' = {settings} /\ made' = 1
      /\ strategies' = <<>> /\ retryIdx' = 1 /\ req' = req
      /\ told' = FALSE /\ rebalanced' = FALSE
      /\ settings' = FirstSettings /\ settings = FirstSettings /\ strategy' = strategy
  BY DEF FirstInv, TypeOK
<1>4. settings \in Settings
  BY DEF TypeOK
<1>5. TypeOK'
  <2>1. <<>> \in Seq(Strategies)
    OBVIOUS
  <2> QED
    BY <1>1, <1>2, <1>3, <1>4, <2>1 DEF TypeOK
<1>6. FirstInv' /\ SearchInv'
  BY <1>1 DEF FirstInv, SearchInv
<1>7. LoopInv'
  <2>1. Direct' = Direct
    BY <1>3 DEF Direct
  <2> QED
    BY <1>1, <1>2, <1>3, <2>1 DEF LoopInv, Running
<1>8. SeedInv'
  <2>1. settings.seed \in {Random, 0}
    BY <1>3 DEF FirstSettings
  <2>2. settings.seed < 100
    BY <2>1 DEF Random
  <2>3. IsFiniteSet({settings})
    BY FS_Singleton
  <2>4. 100 * retryIdx' = 100
    BY <1>3
  <2>5. \A q \in searched' : q.seed < 100
    BY <1>3, <2>2
  <2> QED
    BY <1>3, <2>3, <2>4, <2>5 DEF SeedInv
<1>9. NeverWorse'
  <2>1. ~Better(r, r)
    BY <1>2, NotBetter
  <2>2. r.sheets > 0 => r.sheets \in 1..r.sheets
    BY <1>2 DEF Response
  <2> QED
    BY <1>1, <1>3, <2>1, <2>2 DEF NeverWorse
<1>10. AttemptsCounted'
  BY <1>2, <1>3 DEF AttemptsCounted
<1>11. SearchesDiffer'
  <2>1. {k \in DOMAIN strategies' : strategies'[k] = "rebalance"} = {}
    BY <1>3
  <2>2. Cardinality({settings}) = 1
    BY FS_Singleton
  <2> QED
    BY <1>3, <2>1, <2>2, FS_EmptySet DEF SearchesDiffer
<1>12. TriesEnough'
  BY <1>1, <1>3 DEF TriesEnough, Direct
<1> QED
  BY <1>5, <1>6, <1>7, <1>8, <1>9, <1>10, <1>11, <1>12

\* An attempt is begun with the seed of its retry.
LEMMA StartStep == IInv /\ StartAttempt => IInv'
<1> SUFFICES ASSUME IInv, StartAttempt PROVE IInv'
  OBVIOUS
<1> USE DEF IInv, StartAttempt
<1>1. best \in Response /\ retryIdx \in Nat \ {0} /\ Running
  BY DEF TypeOK, Running
<1>2. FailureMode(best) \in {"no_solution", "too_many_sheets", "very_lumpy", "lumpy", "imbalanced"}
  BY DEF Ok, FailureMode
<1>3. strategy' \in Strategies /\ (strategy' = "rebalance" => retryIdx = 1)
  BY <1>1, <1>2, Strategy
<1>4. settings' \in Settings /\ settings'.seed = 100 * retryIdx
  BY <1>1, <1>3, SettingsType
<1>5. /\ UNCHANGED <<req, best, retryIdx, strategies, told, first, searched, made, rebalanced>>
      /\ pc' = "search"
  BY DEF history
<1>6. TypeOK'
  BY <1>3, <1>4, <1>5 DEF TypeOK
<1>7. FirstInv' /\ LoopInv'
  BY <1>1, <1>5 DEF FirstInv, LoopInv, Running, Direct
<1>8. SearchInv' /\ SeedInv'
  BY <1>3, <1>4, <1>5 DEF SearchInv, SeedInv
<1>9. NeverWorse' /\ AttemptsCounted' /\ SearchesDiffer' /\ TriesEnough'
  BY <1>5 DEF NeverWorse, AttemptsCounted, SearchesDiffer, TriesEnough
<1> QED
  BY <1>6, <1>7, <1>8, <1>9

\* The best response is kept or gives way to a better one.
LEMMA SearchStep == IInv /\ SearchAnswers => IInv'
<1> SUFFICES ASSUME IInv, SearchAnswers PROVE IInv'
  OBVIOUS
<1> USE DEF IInv, SearchAnswers
<1>1. PICK r \in Responses : best' = IF Better(r, best) THEN r ELSE best
  OBVIOUS
<1>2. /\ r \in Response /\ best \in Response /\ first \in Response
      /\ retryIdx \in Nat \ {0} /\ strategy \in Strategies /\ settings \in Settings
      /\ strategies \in Seq(Strategies) /\ made \in Nat /\ Len(strategies) \in Nat
      /\ req.attempts \in Nat
  <2>1. r \in Response
    BY RetryAssumption
  <2>2. /\ best \in Response /\ first \in Response /\ settings \in Settings
        /\ retryIdx \in Nat \ {0} /\ strategy \in Strategies
        /\ strategies \in Seq(Strategies) /\ made \in Nat /\ Len(strategies) \in Nat
    BY DEF TypeOK
  <2>3. req.attempts \in Nat
    BY RetryAssumption DEF TypeOK, Request
  <2> QED
    BY <2>1, <2>2, <2>3
<1>3. /\ ~Direct /\ ~told /\ ~rebalanced
      /\ made = retryIdx /\ made = Len(strategies) + 1
      /\ retryIdx < req.attempts
      /\ settings.seed = 100 * retryIdx
  BY DEF LoopInv, SearchInv, Running
<1>4. /\ pc' = "choose" /\ retryIdx' = retryIdx + 1 /\ made' = made + 1
      /\ strategies' = Append(strategies, strategy)
      /\ searched' = searched \cup {settings}
      /\ UNCHANGED <<req, strategy, settings, told, first, rebalanced>>
  OBVIOUS
<1>5. strategies' \in Seq(Strategies) /\ Len(strategies') = Len(strategies) + 1
  BY <1>2, <1>4
<1>6. TypeOK'
  <2>1. best' \in Response
    BY <1>1, <1>2
  <2> QED
    BY <1>2, <1>4, <1>5, <2>1 DEF TypeOK
<1>7. FirstInv' /\ SearchInv'
  BY <1>4 DEF FirstInv, SearchInv
<1>8. LoopInv'
  BY <1>2, <1>3, <1>4, <1>5 DEF LoopInv, Running, Direct
<1>9. SeedInv'
  <2>1. IsFiniteSet(searched \cup {settings})
    BY FS_AddElement DEF SeedInv
  <2>2. ASSUME NEW q \in searched \cup {settings} PROVE q.seed < 100 * (retryIdx + 1)
    <3>1. q \in Settings
      BY <1>2 DEF TypeOK
    <3>2. q.seed \in Int
      BY <3>1 DEF Settings, Random
    <3> QED
      BY <1>2, <1>3, <3>2 DEF SeedInv
  <2> QED
    BY <1>4, <2>1, <2>2 DEF SeedInv
<1>10. NeverWorse'
  <2>1. ~Better(first, best) /\ (first.sheets > 0 => best.sheets \in 1..first.sheets)
    BY <1>3 DEF NeverWorse
  <2>2. ~Better(first, best') /\ (first.sheets > 0 => best'.sheets \in 1..first.sheets)
    <3>1. CASE Better(r, best)
      <4>1. best' = r
        BY <1>1, <3>1
      <4>2. ~Better(first, r) /\ (first.sheets > 0 => r.sheets \in 1..first.sheets)
        BY <1>2, <2>1, <3>1, BetterStays
      <4> QED
        BY <4>1, <4>2
    <3>2. CASE ~Better(r, best)
      <4>1. best' = best
        BY <1>1, <3>2
      <4> QED
        BY <2>1, <4>1
    <3> QED
      BY <3>1, <3>2
  <2> QED
    BY <1>3, <1>4, <2>2 DEF NeverWorse
<1>11. AttemptsCounted' /\ TriesEnough'
  BY <1>2, <1>3, <1>4 DEF AttemptsCounted, TriesEnough
<1>12. SearchesDiffer'
  <2>1. settings \notin searched
    <3>1. ~(100 * retryIdx < 100 * retryIdx)
      BY <1>2
    <3> QED
      BY <1>3, <3>1 DEF SeedInv
  <2>2. Cardinality(searched') = Cardinality(searched) + 1 /\ Cardinality(searched) \in Nat
    BY <1>4, <2>1, FS_AddElement, FS_CardinalityType DEF SeedInv
  <2>3. Cardinality(Rebalanced(strategies')) = Cardinality(Rebalanced(strategies))
        /\ Cardinality(Rebalanced(strategies)) \in Nat
    BY <1>2, <1>4, OneMore
  <2>4. made = Cardinality(searched) + Cardinality(Rebalanced(strategies))
    BY DEF SearchesDiffer, Rebalanced
  <2>5. made' = Cardinality(searched') + Cardinality(Rebalanced(strategies'))
    BY <1>2, <1>4, <2>2, <2>3, <2>4
  <2> QED
    BY <2>5 DEF SearchesDiffer, Rebalanced
<1> QED
  BY <1>6, <1>7, <1>8, <1>9, <1>10, <1>11, <1>12

\* A rebalance that answers is one attempt more and searches nothing.
LEMMA RebalanceCounted ==
    ASSUME IInv, pc = "search", strategy = "rebalance",
           strategies' = Append(strategies, strategy), made' = made + 1, UNCHANGED searched
    PROVE  /\ SearchesDiffer'
           /\ strategies' \in Seq(Strategies)
           /\ Len(strategies') = Len(strategies) + 1 /\ Len(strategies) \in Nat
<1> USE DEF IInv
<1>1. strategies \in Seq(Strategies) /\ strategy \in Strategies /\ made \in Nat
  BY DEF TypeOK
<1>2. strategies' \in Seq(Strategies) /\ Len(strategies') = Len(strategies) + 1 /\ Len(strategies) \in Nat
  BY <1>1
<1>3. Cardinality(searched) \in Nat
  BY FS_CardinalityType DEF SeedInv
<1>4. Cardinality(Rebalanced(strategies')) = Cardinality(Rebalanced(strategies)) + 1
      /\ Cardinality(Rebalanced(strategies)) \in Nat
  BY <1>1, OneMore
<1>5. made = Cardinality(searched) + Cardinality(Rebalanced(strategies))
  BY DEF SearchesDiffer, Rebalanced
<1>6. made' = Cardinality(searched') + Cardinality(Rebalanced(strategies'))
  BY <1>1, <1>3, <1>4, <1>5
<1> QED
  BY <1>2, <1>6 DEF SearchesDiffer, Rebalanced

\* A rebalance is accepted only of the first response.
LEMMA AcceptStep == IInv /\ RebalanceAccepted => IInv'
<1> SUFFICES ASSUME IInv, RebalanceAccepted PROVE IInv'
  OBVIOUS
<1> USE DEF IInv, RebalanceAccepted
<1>1. PICK r \in Responses : Rebalances(r, best) /\ Denser(r, best) /\ best' = r
  OBVIOUS
<1>2. /\ r \in Response /\ req.attempts \in Nat /\ retryIdx \in Nat /\ made \in Nat
      /\ best \in Response
  BY RetryAssumption DEF TypeOK, Request
<1>3. /\ made = retryIdx /\ made = Len(strategies) + 1
      /\ retryIdx < req.attempts /\ retryIdx = 1
      /\ best = first
  BY DEF LoopInv, SearchInv, Running
<1>4. /\ pc' = "done" /\ told' = TRUE /\ made' = made + 1 /\ rebalanced' = TRUE
      /\ strategies' = Append(strategies, strategy)
      /\ UNCHANGED <<req, retryIdx, strategy, settings, first, searched>>
  OBVIOUS
<1>5. /\ SearchesDiffer'
      /\ strategies' \in Seq(Strategies)
      /\ Len(strategies') = Len(strategies) + 1 /\ Len(strategies) \in Nat
  BY RebalanceCounted
<1>6. TypeOK'
  BY <1>1, <1>2, <1>4, <1>5 DEF TypeOK
<1>7. FirstInv' /\ LoopInv' /\ SearchInv' /\ SeedInv'
  BY <1>4 DEF FirstInv, LoopInv, SearchInv, SeedInv, Running
<1>8. NeverWorse'
  <2>1. Denser(best', first') /\ first' = best
    BY <1>1, <1>3, <1>4
  <2>2. best'.sheets \in 1..best.sheets
    BY <1>1 DEF Rebalances
  <2> QED
    BY <1>4, <2>1, <2>2 DEF NeverWorse
<1>9. AttemptsCounted'
  BY <1>2, <1>3, <1>4, <1>5 DEF AttemptsCounted
<1>10. TriesEnough'
  BY <1>4 DEF TriesEnough
<1> QED
  BY <1>5, <1>6, <1>7, <1>8, <1>9, <1>10

\* A rejected rebalance uses up an attempt.
LEMMA RejectStep == IInv /\ RebalanceRejected => IInv'
<1> SUFFICES ASSUME IInv, RebalanceRejected PROVE IInv'
  OBVIOUS
<1> USE DEF IInv, RebalanceRejected
<1>1. req.attempts \in Nat /\ retryIdx \in Nat \ {0} /\ made \in Nat
  BY RetryAssumption DEF TypeOK, Request
<1>2. /\ ~Direct /\ ~told /\ ~rebalanced
      /\ made = retryIdx /\ made = Len(strategies) + 1
      /\ retryIdx < req.attempts
  BY DEF LoopInv, SearchInv, Running
<1>3. /\ pc' = "choose" /\ retryIdx' = retryIdx + 1 /\ made' = made + 1
      /\ strategies' = Append(strategies, strategy)
      /\ UNCHANGED <<req, best, strategy, settings, told, first, searched, rebalanced>>
  OBVIOUS
<1>4. /\ SearchesDiffer'
      /\ strategies' \in Seq(Strategies)
      /\ Len(strategies') = Len(strategies) + 1 /\ Len(strategies) \in Nat
  BY RebalanceCounted
<1>5. TypeOK'
  BY <1>1, <1>3, <1>4 DEF TypeOK
<1>6. FirstInv' /\ SearchInv'
  BY <1>3 DEF FirstInv, SearchInv
<1>7. LoopInv'
  BY <1>1, <1>2, <1>3, <1>4 DEF LoopInv, Running, Direct
<1>8. SeedInv'
  <2>1. ASSUME NEW q \in searched PROVE q.seed < 100 * (retryIdx + 1)
    <3>1. q.seed \in Int
      BY DEF TypeOK, Settings, Random
    <3> QED
      BY <1>1, <3>1 DEF SeedInv
  <2> QED
    BY <1>3, <2>1 DEF SeedInv
<1>9. NeverWorse'
  BY <1>3 DEF NeverWorse
<1>10. AttemptsCounted' /\ TriesEnough'
  BY <1>1, <1>2, <1>3 DEF AttemptsCounted, TriesEnough
<1> QED
  BY <1>4, <1>5, <1>6, <1>7, <1>8, <1>9, <1>10

\* Every step preserves the invariant.
LEMMA NextInv == IInv /\ [Next]_vars => IInv'
<1> SUFFICES ASSUME IInv, [Next]_vars PROVE IInv'
  OBVIOUS
<1> USE DEF IInv
<1>1. CASE FirstAnswers
  BY <1>1, FirstStep
<1>2. CASE AttemptFails
  <2>1. /\ pc' = "error"
        /\ UNCHANGED <<req, best, retryIdx, strategy, settings, strategies, told, first, searched, made, rebalanced>>
    BY <1>2 DEF AttemptFails, history
  <2>2. TypeOK' /\ FirstInv' /\ LoopInv' /\ SearchInv' /\ SeedInv'
    BY <2>1 DEF TypeOK, FirstInv, LoopInv, SearchInv, SeedInv, Running
  <2>3. NeverWorse' /\ AttemptsCounted' /\ SearchesDiffer' /\ TriesEnough'
    BY <2>1 DEF NeverWorse, AttemptsCounted, SearchesDiffer, TriesEnough
  <2> QED
    BY <2>2, <2>3
<1>3. CASE StartAttempt
  BY <1>3, StartStep
<1>4. CASE SearchAnswers
  BY <1>4, SearchStep
<1>5. CASE RebalanceFails
  <2>1. /\ strategy' = "different_seed" /\ settings' = ApplyStrategy("different_seed", retryIdx)
        /\ UNCHANGED <<pc, req, best, retryIdx, strategies, told, first, searched, made, rebalanced>>
    BY <1>5 DEF RebalanceFails, history
  <2>2. "different_seed" \in Strategies /\ retryIdx \in Nat /\ pc = "search"
    BY <1>5 DEF Strategies, TypeOK, RebalanceFails
  <2>3. settings' \in Settings /\ settings'.seed = 100 * retryIdx
    BY <2>1, <2>2, SettingsType
  <2>4. TypeOK'
    BY <2>1, <2>2, <2>3 DEF TypeOK
  <2>5. FirstInv' /\ LoopInv' /\ SearchInv' /\ SeedInv'
    BY <2>1, <2>2, <2>3 DEF FirstInv, LoopInv, SearchInv, SeedInv, Running, Direct
  <2>6. NeverWorse' /\ AttemptsCounted' /\ SearchesDiffer' /\ TriesEnough'
    BY <2>1, <2>2 DEF NeverWorse, AttemptsCounted, SearchesDiffer, TriesEnough
  <2> QED
    BY <2>4, <2>5, <2>6
<1>6. CASE RebalanceAccepted
  BY <1>6, AcceptStep
<1>7. CASE RebalanceRejected
  BY <1>7, RejectStep
<1>8. CASE Finish
  <2>1. /\ pc = "choose" /\ (retryIdx >= req.attempts \/ Ok(best))
        /\ pc' = "done" /\ told' = TRUE
        /\ UNCHANGED <<req, best, retryIdx, strategy, settings, strategies, first, searched, made, rebalanced>>
    BY <1>8 DEF Finish, history
  <2>2. /\ made = retryIdx /\ made = Len(strategies) + 1 /\ retryIdx <= req.attempts
        /\ retryIdx \in Nat \ {0} /\ req.attempts \in Nat /\ ~Direct
        /\ (retryIdx = 1 => ~Ok(best))
    BY <2>1, RetryAssumption DEF LoopInv, Running, TypeOK, Request
  <2>3. TypeOK'
    BY <2>1 DEF TypeOK
  <2>7. FirstInv' /\ LoopInv' /\ SearchInv' /\ SeedInv'
    BY <2>1 DEF FirstInv, LoopInv, SearchInv, SeedInv, Running
  <2>4. NeverWorse' /\ SearchesDiffer'
    BY <2>1 DEF NeverWorse, SearchesDiffer
  <2>5. TriesEnough'
    BY <2>1, <2>2 DEF TriesEnough, Direct
  <2>6. AttemptsCounted'
    <3>1. made > 1
      <4>1. req.attempts > 1
        BY <2>2 DEF Direct
      <4> QED
        BY <2>1, <2>2, <4>1
    <3>2. made' > 1 /\ made' <= req'.attempts /\ made' = Len(strategies') + 1
      BY <2>1, <2>2, <3>1
    <3>3. pc' = "done" /\ told' = TRUE
      BY <2>1
    <3> QED
      BY <3>2, <3>3, Zenon DEF AttemptsCounted
  <2> QED
    BY <2>3, <2>4, <2>5, <2>6, <2>7
<1>9. CASE UNCHANGED vars
  <2>1. TypeOK' /\ FirstInv'
    BY <1>9 DEF vars, TypeOK, FirstInv, FirstSettings
  <2>3. LoopInv' /\ SearchInv' /\ SeedInv'
    BY <1>9 DEF vars, LoopInv, SearchInv, SeedInv, Running, Direct
  <2>2. NeverWorse' /\ AttemptsCounted' /\ SearchesDiffer' /\ TriesEnough'
    BY <1>9 DEF vars, NeverWorse, AttemptsCounted, SearchesDiffer, TriesEnough, Direct
  <2> QED
    BY <2>1, <2>2, <2>3
<1> QED
  BY <1>1, <1>2, <1>3, <1>4, <1>5, <1>6, <1>7, <1>8, <1>9 DEF Next, Step, Done

-----------------------------------------------------------------------------
(* The theorems                                                            *)

\* The strengthened invariant holds throughout every request.
THEOREM Invariance == Spec => []IInv
  BY InitInv, NextInv, PTL DEF Spec

\* The retry loop's bookkeeping is well-typed.
THEOREM TypeCorrect == Spec => []TypeOK
<1>1. IInv => TypeOK
  BY DEF IInv
<1> QED
  BY <1>1, Invariance, PTL

\* optimize_with_smart_retry never answers with a worse response than its
\* first attempt's, nor with more sheets.
THEOREM NoWorse == Spec => []NeverWorse
<1>1. IInv => NeverWorse
  BY DEF IInv
<1> QED
  BY <1>1, Invariance, PTL

\* RetryTelemetry counts the attempts made, never more than the limit.
THEOREM Counted == Spec => []AttemptsCounted
<1>1. IInv => AttemptsCounted
  BY DEF IInv
<1> QED
  BY <1>1, Invariance, PTL

\* No two attempts of a request search with the same settings.
THEOREM NoRepeat == Spec => []SearchesDiffer
<1>1. IInv => SearchesDiffer
  BY DEF IInv
<1> QED
  BY <1>1, Invariance, PTL

\* A bad response is the answer only if every attempt allowed was made.
THEOREM NoEarlyStop == Spec => []TriesEnough
<1>1. IInv => TriesEnough
  BY DEF IInv
<1> QED
  BY <1>1, Invariance, PTL
=============================================================================
