---------------------------- MODULE PeelingProofs ------------------------------
(***************************************************************************)
(* Proofs about Peeling: its bookkeeping is well-typed, the frozen sheets  *)
(* and the remaining parts always partition the request, a peeling that is *)
(* applied places every part exactly once and on as few sheets as there    *)
(* can be, for every set of parts, areas and sheet capacity.               *)
(*                                                                         *)
(* Inside a subset run a repack may lose parts.  The argument why none is  *)
(* lost from the outcome: the part with an id beyond the subset's number   *)
(* of parts is never in a window that is repacked, so a layout that lost   *)
(* parts has two sheets at least; and the rest of a peeling whose layout   *)
(* has two sheets is one sheet above the lower bound, which the last check *)
(* refuses.                                                                *)
(***************************************************************************)
EXTENDS Peeling, TLAPS, FiniteSetTheorems

\* A layout of parts of R whose sheets have a name and enough area.
Sound(L, R) ==
    /\ Slots(L) \subseteq R
    /\ L \in [part : [Slots(L) -> R], sheet : [Slots(L) -> Slots(L)]]
    /\ \A s \in Slots(L) : L.sheet[L.sheet[s]] = L.sheet[s]
    /\ \A k \in Sheets(L) : AreaOf[PartsOn(L, k)] <= Capacity

Apart(L) == \E s, t \in Slots(L) : L.sheet[s] # L.sheet[t]

\* A layout with a slot for each part of R: unless it has two sheets, it holds
\* exactly these parts; it does if their ids are the indices of the subset.
Complete(L, R) ==
    /\ Slots(L) = R
    /\ R = 1..Cardinality(R) => Holds(L, R)
    /\ Holds(L, R) \/ Apart(L)

\* The parts with an id out of the subset's range are where they were packed.
LargeKept(L, R) == \A m \in R : m > Cardinality(R) => L.part[m] = m

\* The areas of the frozen sheets and of the rest cover the request.
AreaCovered == AreaOf[Parts] <= Capacity * Len(frozen) + AreaOf[remaining]

LayoutInv ==
    /\ Sound(layout, remaining)
    /\ pc \in {"consolidate", "lns", "compare"} => Complete(layout, remaining) /\ LargeKept(layout, remaining)

BestInv ==
    /\ Sound(best, remaining)
    /\ best # NoLayout => Slots(best) # {}
    /\ best # NoLayout /\ LastIteration => Complete(best, remaining)

PhaseInv ==
    /\ pc \notin {"merge", "done"} => remaining # {}
    /\ pc = "merge" => LastIteration /\ (remaining = {} <=> best = NoLayout)
    /\ pc # "done" => outcome = "none"

IInv ==
    /\ TypeOK
    /\ PeelingPartitions
    /\ LayoutInv
    /\ BestInv
    /\ PhaseInv
    /\ AreaCovered
    /\ PartsConserved
    /\ AppliedIsMinimal

-----------------------------------------------------------------------------
(* Cardinalities                                                           *)

\* Every set of parts is finite.
LEMMA PartsFinite ==
    ASSUME NEW S \in SUBSET Parts
    PROVE  IsFiniteSet(S) /\ Cardinality(S) \in Nat
<1>1. IsFiniteSet(Parts)
  BY FS_Interval, PeelingAssumption DEF Parts
<1> QED
  BY <1>1, FS_Subset, FS_CardinalityType

\* If no id is beyond the number of the remaining parts, their ids are the
\* indices of the subset.
LEMMA NoneLarge ==
    ASSUME NEW S \in SUBSET Parts, \A m \in S : m <= Cardinality(S)
    PROVE  S = 1..Cardinality(S)
<1> DEFINE n == Cardinality(S)
<1>1. IsFiniteSet(S) /\ n \in Nat
  BY PartsFinite
<1>2. S \subseteq 1..n
  BY <1>1, PeelingAssumption DEF Parts
<1>3. IsFiniteSet(1..n) /\ Cardinality(1..n) = n
  <2>1. /\ IsFiniteSet(1..n)
        /\ Cardinality(1..n) = IF 1 > n THEN 0 ELSE n - 1 + 1
    BY <1>1, FS_Interval
  <2> QED
    BY <2>1, <1>1
<1> HIDE DEF n
<1>4. S = 1..n
  BY <1>1, <1>2, <1>3, FS_Subset DEF n
<1> QED
  BY <1>4 DEF n

\* When they are, the subset's index of a part is its id.
LEMMA NumberingIsIdentity ==
    ASSUME NEW S \in SUBSET Parts, S = 1..Cardinality(S),
           NEW local \in Numberings[S], NEW i \in 1..Cardinality(S)
    PROVE  local[i] = i
<1> DEFINE n == Cardinality(S)
<1>1. n \in Nat
  BY PartsFinite
<1>2. local \in [1..n -> S] /\ Cardinality({q \in S : q <= local[i]}) = i
  BY DEF Numberings
<1>3. local[i] \in 1..n
  BY <1>2
<1>4. {q \in S : q <= local[i]} = 1..local[i]
  BY <1>1, <1>3
<1>5. Cardinality(1..local[i]) = local[i]
  <2>1. 1 \in Int /\ local[i] \in Int /\ local[i] >= 1
    BY <1>1, <1>3
  <2>2. Cardinality(1..local[i]) = IF 1 > local[i] THEN 0 ELSE local[i] - 1 + 1
    BY <2>1, FS_Interval
  <2> QED
    BY <2>1, <2>2
<1> QED
  BY <1>2, <1>4, <1>5

\* The sheets of a sound layout can be counted; there is one unless it has no
\* slot, and there are two when two slots are on different sheets.
LEMMA CountSheets ==
    ASSUME NEW L, NEW R \in SUBSET Parts, Sound(L, R)
    PROVE  /\ SheetCount(L) \in Nat
           /\ Slots(L) # {} => SheetCount(L) >= 1
           /\ Apart(L) => SheetCount(L) >= 2
<1>1. Sheets(L) \subseteq Parts
  BY DEF Sound, Sheets, Range
<1>2. IsFiniteSet(Sheets(L)) /\ SheetCount(L) \in Nat
  BY <1>1, PartsFinite DEF SheetCount
<1>3. ASSUME Slots(L) # {} PROVE SheetCount(L) >= 1
  <2>1. Sheets(L) # {}
    BY <1>3 DEF Sound, Sheets, Range
  <2>2. SheetCount(L) # 0
    BY <2>1, <1>2, FS_EmptySet DEF SheetCount
  <2> QED
    BY <2>2, <1>2
<1>4. ASSUME Apart(L) PROVE SheetCount(L) >= 2
  <2>1. PICK s \in Slots(L), t \in Slots(L) : L.sheet[s] # L.sheet[t]
    BY <1>4 DEF Apart
  <2> DEFINE T == {L.sheet[s], L.sheet[t]}
  <2>2. T \subseteq Sheets(L)
    BY <2>1 DEF Sound, Sheets, Range
  <2>3. Cardinality({L.sheet[s]}) = 1 /\ IsFiniteSet({L.sheet[s]})
    BY FS_Singleton
  <2>4. Cardinality({L.sheet[s]} \cup {L.sheet[t]}) = 2
    BY <2>1, <2>3, FS_AddElement
  <2>5. T = {L.sheet[s]} \cup {L.sheet[t]}
    OBVIOUS
  <2>6. Cardinality(T) <= Cardinality(Sheets(L))
    BY <2>2, <1>2, FS_Subset
  <2> QED
    BY <2>4, <2>5, <2>6, <1>2 DEF SheetCount
<1> QED
  BY <1>2, <1>3, <1>4

\* What a packer returns for some of the parts is sound and holds these parts,
\* each in its own slot.
LEMMA PackingsAreComplete ==
    ASSUME NEW R \in SUBSET Parts, NEW S \in SUBSET R, NEW L \in Packings(S)
    PROVE  /\ Sound(L, R)
           /\ Slots(L) = S
           /\ Complete(L, S)
           /\ LargeKept(L, S)
<1>1. PICK f \in Distributions[S] : L = [part |-> [p \in S |-> p], sheet |-> f]
  BY DEF Packings
<1>2. f \in [S -> S] /\ \A s \in S : f[f[s]] = f[s]
  BY DEF Distributions
<1>3. Slots(L) = S
  BY <1>1 DEF Slots
<1>4. \A k \in Sheets(L) : AreaOf[PartsOn(L, k)] <= Capacity
  BY DEF Packings, Fits
<1>5. L \in [part : [S -> R], sheet : [S -> S]]
  BY <1>1, <1>2
<1>6. Sound(L, R)
  BY <1>1, <1>2, <1>3, <1>4, <1>5 DEF Sound
<1>7. Holds(L, S)
  BY <1>1, <1>3 DEF Holds, IsInjective, Range
<1> QED
  BY <1>1, <1>3, <1>6, <1>7 DEF Complete, LargeKept

\* A repacked window keeps all that: only slots of the window change, none of
\* them holds a large part, and their new sheets are named by slots of it.
LEMMA SpliceStep ==
    ASSUME NEW R \in SUBSET Parts,
           NEW L, Sound(L, R), Complete(L, R), LargeKept(L, R),
           NEW W \in SUBSET Sheets(L), W # {},
           \A s \in SlotsOnAll(L, W) : L.part[s] <= Cardinality(R),
           NEW local \in Numberings[R], NEW f \in Distributions[SlotsOnAll(L, W)],
           NEW L2, L2 = Splice(L, SlotsOnAll(L, W), local, f),
           \A k \in Range(f) : AreaOf[PartsOn(L2, k)] <= Capacity
    PROVE  Sound(L2, R) /\ Complete(L2, R) /\ LargeKept(L2, R)
<1> DEFINE n == Cardinality(R)
           I == SlotsOnAll(L, W)
<1>1. /\ Slots(L) = R
      /\ L.part \in [R -> R]
      /\ L.sheet \in [R -> R]
  BY DEF Sound, Complete
<1>2. I \subseteq R /\ \A s \in R : s \in I <=> L.sheet[s] \in W
  BY <1>1 DEF SlotsOnAll
<1>3. f \in [I -> I] /\ \A s \in I : f[f[s]] = f[s]
  BY <1>2 DEF Distributions
<1>4. n \in Nat /\ local \in [1..n -> R]
  BY PartsFinite DEF Numberings
<1>5. \A s \in I : L.part[s] \in 1..n /\ local[L.part[s]] \in R
  <2> SUFFICES ASSUME NEW s \in I PROVE L.part[s] \in 1..n
    BY <1>4
  <2>1. L.part[s] \in Parts /\ L.part[s] <= n
    BY <1>1, <1>2
  <2> QED
    BY <2>1, <1>4, PeelingAssumption DEF Parts
<1>6. /\ L2.part = [s \in R |-> IF s \in I THEN local[L.part[s]] ELSE L.part[s]]
      /\ L2.sheet = [s \in R |-> IF s \in I THEN f[s] ELSE L.sheet[s]]
      /\ L2 = [part |-> L2.part, sheet |-> L2.sheet]
  BY <1>1 DEF Splice
<1> HIDE DEF I
<1>7. Slots(L2) = R
  BY <1>6 DEF Slots
<1>8. L2.part \in [R -> R] /\ L2.sheet \in [R -> R]
  BY <1>1, <1>2, <1>3, <1>5, <1>6
<1>9. \A s \in R \ I : L.sheet[s] \in R \ I
  BY <1>1, <1>2 DEF Sound
<1>10. \A s \in R : L2.sheet[L2.sheet[s]] = L2.sheet[s]
  <2> SUFFICES ASSUME NEW s \in R PROVE L2.sheet[L2.sheet[s]] = L2.sheet[s]
    OBVIOUS
  <2>1. CASE s \in I
    BY <2>1, <1>2, <1>3, <1>6
  <2>2. CASE s \notin I
    <3>1. L2.sheet[s] = L.sheet[s] /\ L.sheet[s] \in R \ I
      BY <2>2, <1>6, <1>9
    <3>2. L2.sheet[L.sheet[s]] = L.sheet[L.sheet[s]]
      BY <3>1, <1>6
    <3> QED
      BY <3>1, <3>2, <1>1 DEF Sound
  <2> QED
    BY <2>1, <2>2
<1>11. ASSUME NEW k \in Sheets(L2) PROVE AreaOf[PartsOn(L2, k)] <= Capacity
  <2>1. CASE k \in Range(f)
    BY <2>1
  <2>2. CASE k \notin Range(f)
    <3>1. PICK s \in R : L2.sheet[s] = k
      BY <1>6 DEF Sheets, Range
    <3>2. s \notin I
      BY <3>1, <2>2, <1>3, <1>6 DEF Range
    <3>3. k = L.sheet[s] /\ k \in R \ I /\ k \notin W
      BY <3>1, <3>2, <1>2, <1>6, <1>9
    <3>4. SlotsOn(L2, k) = {t \in R : L2.sheet[t] = k}
      BY <1>7 DEF SlotsOn
    <3>5. SlotsOn(L, k) = {t \in R : L.sheet[t] = k}
      BY <1>1 DEF SlotsOn
    <3>6. \A t \in R : L2.sheet[t] = k <=> L.sheet[t] = k
      BY <3>3, <1>2, <1>3, <1>6
    <3>7. SlotsOn(L2, k) = SlotsOn(L, k)
      BY <3>4, <3>5, <3>6
    <3>8. \A t \in SlotsOn(L, k) : L2.part[t] = L.part[t]
      BY <3>3, <3>5, <1>2, <1>6
    <3>9. PartsOn(L2, k) = PartsOn(L, k)
      BY <3>7, <3>8 DEF PartsOn
    <3>10. k \in Sheets(L)
      BY <3>3, <1>1 DEF Sheets, Range
    <3> QED
      BY <3>9, <3>10 DEF Sound
  <2> QED
    BY <2>1, <2>2
<1>12. Sound(L2, R)
  BY <1>6, <1>7, <1>8, <1>10, <1>11 DEF Sound
<1>13. ASSUME R = 1..n PROVE Holds(L2, R)
  <2>1. \A s \in I : local[L.part[s]] = L.part[s]
    BY <1>5, <1>13, NumberingIsIdentity
  <2>2. \A s \in R : L2.part[s] = L.part[s]
    BY <2>1, <1>6
  <2>3. L2.part = L.part
    BY <2>2, <1>1, <1>8
  <2>4. Holds(L, R)
    BY <1>13 DEF Complete
  <2> QED
    BY <2>3, <2>4, <1>1, <1>7 DEF Holds
<1>14. LargeKept(L2, R)
  <2> SUFFICES ASSUME NEW m \in R, m > n PROVE L2.part[m] = m
    BY DEF LargeKept
  <2>1. L.part[m] = m
    BY DEF LargeKept
  <2>2. m \notin I
    BY <2>1, <1>5, <1>4
  <2> QED
    BY <2>1, <2>2, <1>6
<1>15. ASSUME R # 1..n PROVE Apart(L2)
  <2>1. \A m \in R : m \in Nat
    BY PeelingAssumption DEF Parts
  <2>2. PICK m \in R : m > n
    BY <2>1, <1>4, <1>15, NoneLarge
  <2>3. m \notin I
    BY <2>2, <1>4, <1>5 DEF LargeKept
  <2>4. L2.sheet[m] \notin I
    BY <2>3, <1>6, <1>9
  <2>5. PICK s \in R : L.sheet[s] \in W
    BY <1>1 DEF Sheets, Range
  <2>6. L2.sheet[s] \in I
    BY <2>5, <1>2, <1>3, <1>6
  <2> QED
    BY <2>4, <2>6, <1>7 DEF Apart
<1>16. Complete(L2, R)
  BY <1>7, <1>13, <1>15 DEF Complete
<1> QED
  BY <1>12, <1>14, <1>16

-----------------------------------------------------------------------------
(* The lower bound                                                         *)

\* The number of sheets a total area calls for.
LEMMA CeilingDivision ==
    ASSUME NEW a \in Nat, NEW c \in Nat \ {0}, NEW k \in Nat
    PROVE  a <= c * k <=> (a + c - 1) \div c <= k
<1> DEFINE q == (a + c - 1) \div c
<1>1. q \in Int /\ c * q <= a + c - 1 /\ a + c - 1 < c * (q + 1)
  OBVIOUS
<1> HIDE DEF q
<1>2. ASSUME a <= c * k, k + 1 <= q PROVE FALSE
  <2>1. c * (k + 1) <= c * q
    BY <1>1, <1>2
  <2> QED
    BY <1>1, <1>2, <2>1
<1>3. ASSUME q <= k PROVE a <= c * k
  <2>1. c * (q + 1) <= c * (k + 1)
    BY <1>1, <1>3
  <2> QED
    BY <1>1, <1>3, <2>1
<1> QED
  BY <1>1, <1>2, <1>3 DEF q

\* n_min_sheets sheets are needed, and enough by area.
LEMMA LowerBound ==
    ASSUME NEW k \in Nat
    PROVE  MinSheets \in Nat /\ (AreaOf[Parts] <= Capacity * k <=> MinSheets <= k)
<1>1. AreaOf[Parts] \in Nat /\ Capacity \in Nat \ {0}
  BY AreaAssumption, PeelingAssumption
<1>2. AreaOf[Parts] <= Capacity * k <=> MinSheets <= k
  BY <1>1, CeilingDivision DEF MinSheets
<1>3. MinSheets \in Nat
  BY <1>1 DEF MinSheets
<1> QED
  BY <1>2, <1>3

-----------------------------------------------------------------------------
(* The invariant, action by action                                         *)

\* No layout at all is a sound one.
LEMMA EmptyLayout ==
    ASSUME NEW R \in SUBSET Parts
    PROVE  /\ Slots(NoLayout) = {} /\ Sheets(NoLayout) = {}
           /\ Sound(NoLayout, R)
           /\ IsLayout(NoLayout)
           /\ Holds(NoLayout, {})
<1>1. Slots(NoLayout) = {} /\ NoLayout.part \in [{} -> R] /\ NoLayout.sheet \in [{} -> {}]
  BY DEF Slots, NoLayout
<1>2. Sheets(NoLayout) = {}
  BY <1>1 DEF Sheets, Range
<1>3. NoLayout \in [part : [{} -> R], sheet : [{} -> {}]]
  BY DEF NoLayout
<1>4. NoLayout \in [part : [{} -> Parts], sheet : [{} -> {}]]
  BY DEF NoLayout
<1>5. Sound(NoLayout, R)
  BY <1>1, <1>2, <1>3 DEF Sound
<1>6. IsLayout(NoLayout)
  BY <1>1, <1>4 DEF IsLayout
<1>7. Holds(NoLayout, {})
  BY <1>1 DEF Holds, IsInjective, Range, Slots
<1> QED
  BY <1>1, <1>2, <1>5, <1>6, <1>7

\* A sound layout of remaining parts is well-typed.
LEMMA SoundIsTyped ==
    ASSUME NEW R \in SUBSET Parts, NEW L, Sound(L, R)
    PROVE  IsLayout(L)
<1>1. Slots(L) \subseteq Parts
  BY DEF Sound
<1>2. L \in [part : [Slots(L) -> Parts], sheet : [Slots(L) -> Slots(L)]]
  BY DEF Sound
<1> QED
  BY <1>1, <1>2 DEF IsLayout

\* It holds at first.
LEMMA InitInv == Init => IInv
<1> SUFFICES ASSUME Init PROVE IInv
  OBVIOUS
<1>1. 1 \in Parts /\ Parts \in SUBSET Parts
  BY PeelingAssumption DEF Parts
<1>2. /\ layout = NoLayout /\ best = NoLayout /\ remaining = Parts
      /\ frozen = <<>> /\ attempt = 0
      /\ pc \in {"peel", "done"} /\ outcome \in {"none", "fallback"}
      /\ pc # "done" => outcome = "none"
  BY DEF Init
<1>3. TypeOK
  <2>1. frozen \in Seq(SUBSET Parts)
    BY <1>2
  <2>2. IsLayout(layout) /\ IsLayout(best)
    BY <1>1, <1>2, EmptyLayout
  <2>3. attempt \in 0..MaxAttempts
    BY <1>2, PeelingAssumption
  <2> QED
    BY <1>2, <2>1, <2>2, <2>3 DEF TypeOK, Phases, Outcomes
<1>4. PeelingPartitions
  BY <1>2 DEF PeelingPartitions
<1>5. LayoutInv /\ BestInv
  BY <1>2, EmptyLayout DEF LayoutInv, BestInv
<1>6. PhaseInv
  BY <1>1, <1>2 DEF PhaseInv
<1>7. AreaCovered
  <2>1. Len(frozen) = 0 /\ Capacity * 0 = 0 /\ AreaOf[Parts] \in Nat
    BY <1>2, AreaAssumption, PeelingAssumption
  <2> QED
    BY <2>1, <1>2 DEF AreaCovered
<1>8. PartsConserved /\ AppliedIsMinimal
  BY <1>2 DEF PartsConserved, AppliedIsMinimal
<1> QED
  BY <1>3, <1>4, <1>5, <1>6, <1>7, <1>8 DEF IInv

\* A step that moves on, counts or gives up, and leaves the sheets alone.
LEMMA ControlStep ==
    ASSUME IInv, UNCHANGED <<remaining, frozen, layout, best>>,
           pc' \in Phases, attempt' \in 0..MaxAttempts,
           outcome' \in Outcomes \ {"applied"},
           pc' # "done" => outcome' = "none",
           pc' \notin {"merge", "done"} => remaining # {},
           pc' = "merge" => LastIteration /\ (remaining = {} <=> best = NoLayout),
           pc' \in {"consolidate", "lns", "compare"} => pc \in {"consolidate", "lns", "compare"}
    PROVE  IInv'
<1> USE DEF IInv
<1>1. TypeOK'
  BY DEF TypeOK
<1>2. PeelingPartitions'
  BY DEF PeelingPartitions
<1>3. LayoutInv'
  BY DEF LayoutInv
<1>4. BestInv'
  BY DEF BestInv, LastIteration
<1>5. PhaseInv'
  BY DEF PhaseInv, LastIteration
<1>6. AreaCovered'
  BY DEF AreaCovered
<1>7. PartsConserved' /\ AppliedIsMinimal'
  BY DEF PartsConserved, AppliedIsMinimal
<1> QED
  BY <1>1, <1>2, <1>3, <1>4, <1>5, <1>6, <1>7

\* A step that puts another sound and complete layout under way.
LEMMA LayoutStep ==
    ASSUME IInv, UNCHANGED <<remaining, frozen, best, outcome>>,
           pc \notin {"merge", "done"},
           pc' \in {"consolidate", "lns", "compare"}, attempt' \in 0..MaxAttempts,
           Sound(layout', remaining), Complete(layout', remaining),
           LargeKept(layout', remaining)
    PROVE  IInv'
<1> USE DEF IInv
<1>1. TypeOK'
  <2>1. IsLayout(layout')
    BY SoundIsTyped DEF TypeOK
  <2> QED
    BY <2>1 DEF TypeOK, Phases
<1>2. PeelingPartitions'
  BY DEF PeelingPartitions
<1>3. LayoutInv'
  BY DEF LayoutInv
<1>4. BestInv'
  BY DEF BestInv, LastIteration
<1>5. PhaseInv'
  BY DEF PhaseInv, LastIteration
<1>6. AreaCovered'
  BY DEF AreaCovered
<1>7. PartsConserved' /\ AppliedIsMinimal'
  BY DEF PartsConserved, AppliedIsMinimal, PhaseInv
<1> QED
  BY <1>1, <1>2, <1>3, <1>4, <1>5, <1>6, <1>7

\* A subset run packs all remaining parts.
LEMMA RunSubsetInv == IInv /\ RunSubset => IInv'
<1> SUFFICES ASSUME IInv, RunSubset PROVE IInv'
  OBVIOUS
<1>1. remaining \in SUBSET Parts /\ layout' \in Packings(remaining)
  BY DEF IInv, TypeOK, RunSubset
<1>2. /\ Sound(layout', remaining)
      /\ Complete(layout', remaining)
      /\ LargeKept(layout', remaining)
  BY <1>1, PackingsAreComplete
<1>3. attempt' \in 0..MaxAttempts
  BY PeelingAssumption DEF IInv, TypeOK, RunSubset
<1>4. pc = "peel" /\ pc' \in {"consolidate", "lns", "compare"}
  BY DEF RunSubset
<1> QED
  BY <1>2, <1>3, <1>4, LayoutStep DEF RunSubset

\* Repacking a window of two sheets or more.
LEMMA RepackInv ==
    ASSUME IInv, NEW W \in SUBSET Sheets(layout), W # {}, NEW target,
           Repack(W, target), pc \in {"consolidate", "lns"},
           UNCHANGED <<pc, remaining, frozen, attempt, best, outcome>>
    PROVE  IInv'
<1> DEFINE I == SlotsOnAll(layout, W)
<1>1. PICK local \in Numberings[remaining], f \in Distributions[I] :
          /\ layout' = Splice(layout, I, local, f)
          /\ \A k \in Range(f) : Fits(layout', k)
  BY DEF Repack
<1>2. \A s \in I : layout.part[s] <= Cardinality(remaining)
  BY DEF Repack
<1>3. remaining \in SUBSET Parts /\ attempt \in 0..MaxAttempts
  BY DEF IInv, TypeOK
<1>4. Sound(layout, remaining) /\ Complete(layout, remaining) /\ LargeKept(layout, remaining)
  BY DEF IInv, LayoutInv
<1>5. \A k \in Range(f) : AreaOf[PartsOn(layout', k)] <= Capacity
  BY <1>1 DEF Fits
<1>6. Sound(layout', remaining) /\ Complete(layout', remaining) /\ LargeKept(layout', remaining)
  BY <1>1, <1>2, <1>3, <1>4, <1>5, SpliceStep
<1> QED
  BY <1>3, <1>6, LayoutStep

\* The windows of both post-processes are repacked.
LEMMA WindowInv == IInv /\ (ConsolidateWindow \/ RefineWindow) => IInv'
<1>1. ASSUME IInv, ConsolidateWindow PROVE IInv'
  <2>1. PICK W \in Windows : Repack(W, Cardinality(W) - 1)
    BY <1>1 DEF ConsolidateWindow
  <2>2. W \in SUBSET Sheets(layout) /\ W # {}
    <3>1. Cardinality(W) # 0
      BY <1>1, PeelingAssumption DEF Windows
    <3> QED
      BY <3>1, FS_EmptySet DEF Windows
  <2> QED
    BY <1>1, <2>1, <2>2, RepackInv DEF ConsolidateWindow
<1>2. ASSUME IInv, RefineWindow PROVE IInv'
  <2>1. PICK W \in LnsWindows : Repack(W, Cardinality(W))
    BY <1>2 DEF RefineWindow
  <2>2. W \in SUBSET Sheets(layout) /\ W # {}
    BY DEF LnsWindows
  <2> QED
    BY <1>2, <2>1, <2>2, RepackInv DEF RefineWindow
<1> QED
  BY <1>1, <1>2

\* A step in which the best attempt stays or gives way to another layout.
LEMMA BestStep ==
    ASSUME IInv, UNCHANGED <<remaining, frozen, attempt, layout, outcome>>,
           pc \notin {"merge", "done"}, pc' \in {"peel", "freeze"},
           best' # best =>
               /\ Sound(best', remaining)
               /\ Slots(best') # {}
               /\ LastIteration => Complete(best', remaining)
    PROVE  IInv'
<1> USE DEF IInv
<1>1. Sound(best', remaining)
  BY DEF BestInv
<1>2. TypeOK'
  <2>1. IsLayout(best')
    BY <1>1, SoundIsTyped DEF TypeOK
  <2> QED
    BY <2>1 DEF TypeOK, Phases
<1>3. PeelingPartitions'
  BY DEF PeelingPartitions
<1>4. LayoutInv'
  BY DEF LayoutInv
<1>5. BestInv'
  <2>1. LastIteration' <=> LastIteration
    BY DEF LastIteration
  <2> QED
    BY <1>1, <2>1 DEF BestInv
<1>6. PhaseInv'
  BY DEF PhaseInv
<1>7. AreaCovered'
  BY DEF AreaCovered
<1>8. PartsConserved' /\ AppliedIsMinimal'
  BY DEF PartsConserved, AppliedIsMinimal, PhaseInv
<1> QED
  BY <1>2, <1>3, <1>4, <1>5, <1>6, <1>7, <1>8

\* The attempt just made is compared with the best one.
LEMMA CompareInv == IInv /\ Compare => IInv'
<1> SUFFICES ASSUME IInv, Compare PROVE IInv'
  OBVIOUS
<1>1. pc = "compare" /\ pc' = "peel" /\ (best' = layout \/ best' = best)
  BY DEF Compare, Compete
<1>2. Sound(layout, remaining) /\ Complete(layout, remaining) /\ remaining # {}
  BY <1>1 DEF IInv, LayoutInv, PhaseInv
<1>3. Slots(layout) # {}
  BY <1>2 DEF Complete
<1> QED
  BY <1>1, <1>2, <1>3, BestStep DEF Compare

\* The columns and shelves compete with it too.
LEMMA ColumnsInv == IInv /\ Columns => IInv'
<1> SUFFICES ASSUME IInv, Columns PROVE IInv'
  OBVIOUS
<1>1. pc = "columns" /\ pc' = "freeze"
  BY DEF Columns
<1>2. remaining \in SUBSET Parts /\ remaining # {}
  BY <1>1 DEF IInv, TypeOK, PhaseInv
<1>3. CASE best' = best
  BY <1>1, <1>3, BestStep DEF Columns
<1>4. ASSUME NEW L \in ColumnLayouts, best' = L PROVE IInv'
  <2>1. PICK S \in (SUBSET remaining) \ {{}} :
            L \in Packings(S) /\ (LastIteration => S = remaining)
    BY <1>2, <1>4 DEF ColumnLayouts
  <2>2. Sound(L, remaining) /\ Slots(L) # {} /\ Complete(L, S)
    BY <1>2, <2>1, PackingsAreComplete
  <2>3. LastIteration => Complete(L, remaining)
    BY <2>1, <2>2
  <2> QED
    BY <1>1, <1>4, <2>2, <2>3, BestStep DEF Columns
<1> QED
  BY <1>3, <1>4 DEF Columns, Compete

\* The densest sheet is frozen: its parts are remaining ones, and their area
\* fits a sheet.
LEMMA FreezeDensestInv == IInv /\ FreezeDensest => IInv'
<1> SUFFICES ASSUME IInv, FreezeDensest PROVE IInv'
  OBVIOUS
<1>1. PICK k \in Densest(best) :
          /\ frozen' = Append(frozen, PartsOn(best, k))
          /\ remaining' = remaining \ PartsOn(best, k)
  BY DEF FreezeDensest
<1> DEFINE P == PartsOn(best, k)
<1>2. /\ remaining \in SUBSET Parts
      /\ frozen \in Seq(SUBSET Parts)
      /\ Sound(best, remaining)
      /\ k \in Sheets(best)
  BY DEF IInv, TypeOK, BestInv, Densest
<1>3. P \subseteq remaining /\ P # {} /\ AreaOf[P] <= Capacity
  <2>1. PICK s \in Slots(best) : best.sheet[s] = k
    BY <1>2 DEF Sound, Sheets, Range
  <2>2. s \in SlotsOn(best, k)
    BY <2>1 DEF SlotsOn
  <2>3. P # {}
    BY <2>2 DEF PartsOn
  <2>4. P \subseteq remaining
    BY <1>2 DEF PartsOn, SlotsOn, Sound
  <2> QED
    BY <1>2, <2>3, <2>4 DEF Sound
<1> HIDE DEF P
<1>4. /\ remaining' = remaining \ P /\ remaining' \in SUBSET Parts
      /\ frozen' \in Seq(SUBSET Parts)
      /\ Len(frozen) \in Nat /\ Len(frozen') = Len(frozen) + 1
      /\ \A i \in 1..Len(frozen) : frozen'[i] = frozen[i]
      /\ frozen'[Len(frozen) + 1] = P
  BY <1>1, <1>2, <1>3 DEF P
<1>5. /\ layout' = NoLayout /\ best' = NoLayout /\ attempt' = 0 /\ outcome' = outcome
      /\ pc = "freeze" /\ pc' = IF remaining' = {} THEN "merge" ELSE "peel"
  BY DEF FreezeDensest
<1>6. outcome = "none"
  BY <1>5 DEF IInv, PhaseInv
<1>7. TypeOK'
  <2>1. IsLayout(layout') /\ IsLayout(best')
    BY <1>2, <1>5, EmptyLayout
  <2>2. attempt' \in 0..MaxAttempts
    BY <1>5, PeelingAssumption
  <2> QED
    BY <1>4, <1>5, <1>6, <2>1, <2>2 DEF TypeOK, Phases, Outcomes
<1>8. PeelingPartitions'
  <2>1. /\ DOMAIN frozen = 1..Len(frozen)
        /\ DOMAIN frozen' = 1..(Len(frozen) + 1)
    BY <1>2, <1>4
  <2>2. ASSUME NEW i \in DOMAIN frozen'
        PROVE  frozen'[i] # {} /\ frozen'[i] \cap remaining' = {}
    BY <1>3, <1>4, <2>1 DEF IInv, PeelingPartitions
  <2>3. ASSUME NEW i \in DOMAIN frozen', NEW j \in DOMAIN frozen', i # j
        PROVE  frozen'[i] \cap frozen'[j] = {}
    <3>1. CASE i \in DOMAIN frozen /\ j \in DOMAIN frozen
      BY <1>4, <2>1, <2>3, <3>1 DEF IInv, PeelingPartitions
    <3>2. CASE i = Len(frozen) + 1
      BY <1>3, <1>4, <2>1, <2>3, <3>2 DEF IInv, PeelingPartitions
    <3>3. CASE j = Len(frozen) + 1
      BY <1>3, <1>4, <2>1, <2>3, <3>3 DEF IInv, PeelingPartitions
    <3> QED
      BY <1>4, <2>1, <3>1, <3>2, <3>3
  <2>4. ASSUME NEW p \in Parts \ remaining'
        PROVE  \E i \in DOMAIN frozen' : p \in frozen'[i]
    <3>1. CASE p \in P
      BY <1>4, <2>1, <3>1
    <3>2. CASE p \notin P
      <4>1. PICK i \in DOMAIN frozen : p \in frozen[i]
        BY <1>4, <3>2, <2>4 DEF IInv, PeelingPartitions
      <4> QED
        BY <1>4, <2>1, <4>1
    <3> QED
      BY <3>1, <3>2
  <2> QED
    BY <2>2, <2>3, <2>4 DEF PeelingPartitions
<1>9. LayoutInv' /\ BestInv'
  <2>1. Sound(NoLayout, remaining')
    BY <1>4, EmptyLayout
  <2>2. pc' \notin {"consolidate", "lns", "compare"}
    BY <1>5
  <2> QED
    BY <1>5, <2>1, <2>2 DEF LayoutInv, BestInv
<1>10. PhaseInv'
  <2>1. remaining' = {} => LastIteration'
    BY AreaAssumption, PeelingAssumption DEF LastIteration
  <2> QED
    BY <1>5, <1>6, <2>1 DEF PhaseInv
<1>11. AreaCovered'
  <2>1. AreaOf[remaining] = AreaOf[remaining'] + AreaOf[P]
    <3>1. remaining' \cap P = {} /\ remaining' \cup P = remaining
      BY <1>3, <1>4
    <3>2. P \in SUBSET Parts
      BY <1>2, <1>3
    <3>3. AreaOf[remaining' \cup P] = AreaOf[remaining'] + AreaOf[P]
      <4> DEFINE R == remaining'
      <4>1. R \in SUBSET Parts /\ R \cap P = {}
        BY <1>4, <3>1
      <4> HIDE DEF R
      <4>2. AreaOf[R \cup P] = AreaOf[R] + AreaOf[P]
        BY <3>2, <4>1, AreaAssumption
      <4> QED
        BY <4>2 DEF R
    <3> QED
      BY <3>1, <3>3
  <2>2. /\ AreaOf[remaining'] \in Nat /\ AreaOf[P] \in Nat /\ AreaOf[Parts] \in Nat
        /\ Capacity \in Nat
    BY <1>2, <1>3, <1>4, AreaAssumption, PeelingAssumption
  <2>3. Capacity * (Len(frozen) + 1) = Capacity * Len(frozen) + Capacity
    BY <1>4, <2>2
  <2>4. AreaOf[Parts] <= Capacity * Len(frozen) + AreaOf[remaining]
    BY DEF IInv, AreaCovered
  <2>5. Capacity * Len(frozen) \in Nat
    BY <1>4, <2>2
  <2>6. AreaOf[Parts] <= Capacity * Len(frozen') + AreaOf[remaining']
    BY <1>3, <1>4, <2>1, <2>2, <2>3, <2>4, <2>5
  <2> QED
    BY <2>6 DEF AreaCovered
<1>12. PartsConserved' /\ AppliedIsMinimal'
  BY <1>5, <1>6 DEF PartsConserved, AppliedIsMinimal
<1> QED
  BY <1>7, <1>8, <1>9, <1>10, <1>11, <1>12 DEF IInv

\* The number of sheets is compared with the lower bound: if it is not above,
\* the rest is on one sheet and so holds all remaining parts.
LEMMA MergeInv == IInv /\ Merge => IInv'
<1> SUFFICES ASSUME IInv, Merge PROVE IInv'
  OBVIOUS
<1> USE DEF IInv
<1>1. /\ pc = "merge" /\ pc' = "done"
      /\ outcome' = IF TotalSheets > MinSheets THEN "fallback" ELSE "applied"
      /\ UNCHANGED <<remaining, frozen, attempt, layout, best>>
  BY DEF Merge, Finish
<1>2. CASE outcome' = "fallback"
  BY <1>1, <1>2, ControlStep DEF TypeOK, Phases, Outcomes
<1>3. CASE outcome' = "applied"
  <2>1. /\ remaining \in SUBSET Parts /\ Sound(best, remaining)
        /\ Len(frozen) \in Nat
        /\ LastIteration /\ (remaining = {} <=> best = NoLayout)
    BY <1>1 DEF TypeOK, BestInv, PhaseInv
  <2>2. /\ SheetCount(best) \in Nat
        /\ Slots(best) # {} => SheetCount(best) >= 1
        /\ Apart(best) => SheetCount(best) >= 2
    BY <2>1, CountSheets
  <2>3. MinSheets \in Nat
    BY LowerBound
  <2>4. TotalSheets = Len(frozen) + SheetCount(best) /\ TotalSheets <= MinSheets
    BY <1>1, <1>3, <2>1, <2>2, <2>3 DEF TotalSheets
  <2>5. /\ AreaOf[remaining] \in Nat /\ AreaOf[Parts] \in Nat
        /\ AreaOf[remaining] <= Capacity
        /\ Capacity \in Nat /\ Capacity * Len(frozen) \in Nat
        /\ AreaOf[Parts] <= Capacity * Len(frozen) + AreaOf[remaining]
    BY <2>1, AreaAssumption, PeelingAssumption DEF AreaCovered, LastIteration
  <2>6. Holds(best, remaining) /\ TotalSheets = MinSheets
    <3>1. CASE remaining = {}
      <4>1. AreaOf[Parts] <= Capacity * Len(frozen)
        BY <2>5, <3>1, AreaAssumption
      <4>2. MinSheets <= Len(frozen)
        BY <2>1, <4>1, LowerBound
      <4>3. Holds(best, remaining)
        BY <2>1, <3>1, EmptyLayout
      <4> QED
        BY <2>1, <2>2, <2>3, <2>4, <4>2, <4>3
    <3>2. CASE remaining # {}
      <4>1. Complete(best, remaining) /\ Slots(best) # {}
        BY <2>1, <3>2 DEF BestInv
      <4>2. Capacity * (Len(frozen) + 1) = Capacity * Len(frozen) + Capacity
        BY <2>1, <2>5
      <4>3. AreaOf[Parts] <= Capacity * (Len(frozen) + 1)
        BY <2>5, <4>2
      <4>4. MinSheets <= Len(frozen) + 1
        BY <2>1, <4>3, LowerBound
      <4>5. SheetCount(best) = 1 /\ TotalSheets = MinSheets
        BY <2>1, <2>2, <2>3, <2>4, <4>1, <4>4
      <4>6. Holds(best, remaining)
        BY <2>2, <4>1, <4>5 DEF Complete
      <4> QED
        BY <4>5, <4>6
    <3> QED
      BY <3>1, <3>2
  <2>7. PeelingPartitions'
    BY <1>1 DEF PeelingPartitions
  <2>8. TypeOK'
    BY <1>1, <1>3 DEF TypeOK, Phases, Outcomes
  <2>9. LayoutInv' /\ BestInv'
    BY <1>1 DEF LayoutInv, BestInv, LastIteration
  <2>10. PhaseInv' /\ AreaCovered'
    BY <1>1 DEF PhaseInv, AreaCovered
  <2>11. PartsConserved'
    BY <1>1, <2>6, <2>7 DEF PartsConserved
  <2>12. AppliedIsMinimal'
    BY <1>1, <2>6 DEF AppliedIsMinimal, TotalSheets, SheetCount
  <2> QED
    BY <2>7, <2>8, <2>9, <2>10, <2>11, <2>12
<1> QED
  BY <1>1, <1>2, <1>3

\* Every step preserves the invariant.
LEMMA NextInv == IInv /\ [Next]_vars => IInv'
<1> SUFFICES ASSUME IInv, [Next]_vars PROVE IInv'
  OBVIOUS
<1> USE DEF IInv, TypeOK, Phases, Outcomes, PhaseInv, Finish
<1>1. CASE PeelBudgetExhausted
  BY <1>1, ControlStep DEF PeelBudgetExhausted
<1>2. CASE RunSubset
  BY <1>2, RunSubsetInv
<1>3. CASE SubsetFails
  <2>1. attempt' \in 0..MaxAttempts
    BY <1>3, PeelingAssumption DEF SubsetFails
  <2> QED
    BY <1>3, <2>1, ControlStep DEF SubsetFails
<1>4. CASE SubsetBreaks
  BY <1>4, ControlStep DEF SubsetBreaks
<1>5. CASE ConsolidateWindow \/ RefineWindow
  BY <1>5, WindowInv
<1>6. CASE ConsolidateEnds
  BY <1>6, ControlStep DEF ConsolidateEnds
<1>7. CASE RefineEnds
  BY <1>7, ControlStep DEF RefineEnds
<1>8. CASE Compare
  BY <1>8, CompareInv
<1>9. CASE AttemptsEnd
  BY <1>9, ControlStep DEF AttemptsEnd
<1>10. CASE Columns
  BY <1>10, ColumnsInv
<1>11. CASE PeelFails
  BY <1>11, ControlStep DEF PeelFails
<1>12. CASE FreezeDensest
  BY <1>12, FreezeDensestInv
<1>13. CASE FreezeRefused
  BY <1>13, ControlStep DEF FreezeRefused
<1>14. CASE FreezeRest
  BY <1>14, ControlStep DEF FreezeRest
<1>15. CASE Merge
  BY <1>15, MergeInv
<1>16. CASE UNCHANGED vars
  <2>1. UNCHANGED <<pc, remaining, frozen, attempt, layout, best, outcome>>
    BY <1>16 DEF vars
  <2> QED
    BY <2>1 DEF PeelingPartitions, LayoutInv, BestInv, AreaCovered,
                PartsConserved, AppliedIsMinimal, LastIteration, TotalSheets, SheetCount
<1> QED
  BY <1>1, <1>2, <1>3, <1>4, <1>5, <1>6, <1>7, <1>8, <1>9, <1>10, <1>11, <1>12,
     <1>13, <1>14, <1>15, <1>16 DEF Next, Done
-----------------------------------------------------------------------------
(* The theorems                                                            *)

\* The strengthened invariant holds in every state of every peeling.
THEOREM Invariance == Spec => []IInv
  BY InitInv, NextInv, PTL DEF Spec

\* The bookkeeping of a peeling is well-typed.
THEOREM TypeCorrect == Spec => []TypeOK
<1>1. IInv => TypeOK
  BY DEF IInv
<1> QED
  BY <1>1, Invariance, PTL

\* The frozen sheets and the remaining parts always partition the request.
THEOREM FrozenPartition == Spec => []PeelingPartitions
<1>1. IInv => PeelingPartitions
  BY DEF IInv
<1> QED
  BY <1>1, Invariance, PTL

\* A peeling that is applied places every part of the request exactly once,
\* though its subset runs may lose parts.
THEOREM NoPartLost == Spec => []PartsConserved
<1>1. IInv => PartsConserved
  BY DEF IInv
<1> QED
  BY <1>1, Invariance, PTL

\* A peeling that is applied uses as many sheets as the lower bound.
THEOREM Minimal == Spec => []AppliedIsMinimal
<1>1. IInv => AppliedIsMinimal
  BY DEF IInv
<1> QED
  BY <1>1, Invariance, PTL

\* As long as nothing is frozen, the post-processes keep the set of parts.
THEOREM WholeRequestSafe == Spec => []WholeRequestKept
<1>1. IInv => WholeRequestKept
  <2> SUFFICES ASSUME IInv, pc \in {"consolidate", "lns", "compare"}, remaining = Parts
               PROVE  Holds(layout, Parts)
    BY DEF WholeRequestKept
  <2>1. Cardinality(Parts) = NParts
    <3>1. Cardinality(1..NParts) = IF 1 > NParts THEN 0 ELSE NParts - 1 + 1
      BY PeelingAssumption, FS_Interval
    <3> QED
      BY <3>1, PeelingAssumption DEF Parts
  <2>2. Complete(layout, remaining)
    BY DEF IInv, LayoutInv
  <2> QED
    BY <2>1, <2>2 DEF Complete, Parts
<1> QED
  BY <1>1, Invariance, PTL
=============================================================================
