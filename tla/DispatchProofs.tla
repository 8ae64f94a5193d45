----------------------------- MODULE DispatchProofs -----------------------------
(***************************************************************************)
(* Theorems about Dispatch, for every set of requests and of responses,    *)
(* every limit and every default: the pool counts every run it plans, and  *)
(* answers with the best candidate it may choose; every search is called   *)
(* with parameters it can take, and the plan of the restart loop fills     *)
(* the time limit.  A layout of a vacuum table can be pressed and is no    *)
(* worse than the legacy planner's, for any parts, table and solutions of  *)
(* the engine: rows make loads, loads sound plans, and the choice keeps    *)
(* the best.                                                               *)
(***************************************************************************)
EXTENDS Dispatch, VacuumSets, FiniteSetTheorems, SequenceTheorems, WellFoundedInduction, TLAPS

-----------------------------------------------------------------------------
(* Sequences and division                                                  *)

\* A sequence that is not empty has a first element.
LEMMA HasFirst ==
    ASSUME NEW S, NEW s \in Seq(S), s # <<>>
    PROVE  1 \in DOMAIN s /\ Len(s) > 0
  OBVIOUS

\* What is defined on the first numbers is a sequence.
LEMMA AsSequence ==
    ASSUME NEW S, NEW n \in Nat, NEW f \in [1..n -> S]
    PROVE  f \in Seq(S) /\ Len(f) = n
  OBVIOUS

\* Two sequences one after the other.
LEMMA Joined ==
    ASSUME NEW S, NEW s \in Seq(S), NEW t \in Seq(S)
    PROVE  s \o t \in Seq(S) /\ Len(s \o t) = Len(s) + Len(t)
  OBVIOUS

\* The numbers below a product are pairs of a remainder and a quotient.
LEMMA QuotientAndRemainder ==
    ASSUME NEW p \in Nat, p > 0, NEW o \in Nat, NEW x \in Nat, x < o * p
    PROVE  x % p \in 0..(p - 1) /\ x \div p \in 0..(o - 1)
<1>1. x % p \in 0..(p - 1)
  BY Z3
<1>2. x = p * (x \div p) + (x % p)
  BY Z3
<1>3. x \div p \in Int
  BY Z3
<1> QED
  BY <1>1, <1>2, <1>3, Z3

-----------------------------------------------------------------------------
(* Choosing among finitely many                                            *)

\* Of natural numbers one is the least.
LEMMA LeastNumber ==
    ASSUME NEW S, S \subseteq Nat, S # {}
    PROVE  \E m \in S : \A k \in S : m <= k
<1>1. PICK m \in S : \A k \in S : ~(<<k, m>> \in OpToRel(<, Nat))
  BY NatLessThanWellFounded, WFMin
<1>2. \A k \in S : ~(k < m)
  BY <1>1 DEF OpToRel
<1> QED
  BY <1>2

Transitive(R, T) ==
    \A i, j, k \in T : <<i, j>> \in R /\ <<j, k>> \in R => <<i, k>> \in R
Irreflexive(R, T) == \A i \in T : <<i, i>> \notin R

\* Of some of the first n numbers there is one no other precedes, in whatever
\* strict order.
LEMMA Minimal ==
    ASSUME NEW n \in Nat, NEW T, T \subseteq 1..n, T # {}, NEW R, Transitive(R, 1..n), Irreflexive(R, 1..n)
    PROVE  \E i \in T : \A j \in T : <<j, i>> \notin R
<1> DEFINE NoMinimal(U) == U # {} /\ \A i \in U : \E j \in U : <<j, i>> \in R
           Bad == {m \in 0..n : \E U \in SUBSET (1..m) : NoMinimal(U)}
<1>1. SUFFICES ASSUME NoMinimal(T) PROVE FALSE
  OBVIOUS
<1>2. n \in Bad
  BY <1>1
<1>3. PICK m \in Bad : \A k \in Bad : m <= k
  <2>1. Bad # {}
    BY <1>2, Zenon
  <2>2. Bad \subseteq 0..n
    BY Zenon
  <2>3. Bad \subseteq Nat
    <3> HIDE DEF Bad
    <3> QED
      BY <2>2
  <2> HIDE DEF Bad
  <2> QED
    BY <2>1, <2>3, LeastNumber
<1>4. m \in 0..n /\ m \in Nat /\ \A k \in Bad : m <= k
  <2>1. m \in 0..n
    BY <1>3, Zenon
  <2> HIDE DEF Bad
  <2> QED
    BY <1>3, <2>1
<1>5. PICK U \in SUBSET (1..m) : NoMinimal(U)
  BY <1>3
<1>6. m \in U /\ m \in 1..n /\ m - 1 \in 0..n
  <2>1. m # 0
    <3>1. ASSUME m = 0 PROVE U = {}
      BY <3>1
    <3> QED
      BY <3>1, <1>5
  <2>2. CASE m \notin U
    <3>1. U \in SUBSET (1..(m - 1)) /\ m - 1 \in 0..n /\ m \in 1..n
      BY <2>1, <2>2, <1>4
    <3>2. m - 1 \in Bad
      BY <3>1, <1>5
    <3> HIDE DEF Bad
    <3> QED
      BY <3>1, <3>2, <1>4
  <2>3. m # 0 => m \in 1..n /\ m - 1 \in 0..n
    BY <1>4
  <2> QED
    BY <2>1, <2>2, <2>3
<1> DEFINE V == U \ {m}
<1>7. V \in SUBSET (1..(m - 1)) /\ U \subseteq 1..n
  BY <1>4
<1>8. PICK k \in U : <<k, m>> \in R
  BY <1>5, <1>6
<1>9. k \in V
  BY <1>6, <1>7, <1>8 DEF Irreflexive
<1>10. PICK i \in V : \A j \in V : <<j, i>> \notin R
  <2>1. ~NoMinimal(V)
    <3>1. m - 1 \notin Bad
      <4> HIDE DEF Bad
      <4> QED
        BY <1>4, <1>6
    <3> QED
      BY <3>1, <1>6, <1>7
  <2> QED
    BY <2>1, <1>9
<1>11. <<m, i>> \in R
  BY <1>5, <1>10
<1>12. <<k, i>> \in R
  BY <1>6, <1>7, <1>8, <1>9, <1>10, <1>11 DEF Transitive
<1>13. FALSE
  <2> HIDE DEF V, Bad, NoMinimal
  <2> QED
    BY <1>9, <1>10, <1>12
<1> QED
  BY <1>13

\* They have a first one.
LEMMA First ==
    ASSUME NEW n \in Nat, NEW T, T \subseteq 1..n, T # {}
    PROVE  \E i \in T : \A j \in T : i <= j
<1> DEFINE R == {ij \in (1..n) \X (1..n) : ij[1] < ij[2]}
<1>1. Transitive(R, 1..n) /\ Irreflexive(R, 1..n)
  BY DEF Transitive, Irreflexive
<1>2. PICK i \in T : \A j \in T : <<j, i>> \notin R
  <2> HIDE DEF R
  <2> QED
    BY <1>1, Minimal
<1>3. ASSUME NEW j \in T, j < i PROVE FALSE
  BY <1>3, <1>2
<1> QED
  BY <1>3

\* And one whose value is the least.
LEMMA Smallest ==
    ASSUME NEW n \in Nat, NEW T, T \subseteq 1..n, T # {}, NEW F \in [1..n -> Int]
    PROVE  \E i \in T : \A j \in T : F[i] <= F[j]
<1> DEFINE R == {ij \in (1..n) \X (1..n) : F[ij[1]] < F[ij[2]]}
<1>1. \A i, j \in 1..n : <<i, j>> \in R <=> F[i] < F[j]
  OBVIOUS
<1>2. \A i \in 1..n : F[i] \in Int
  OBVIOUS
<1> HIDE DEF R
<1>3. Transitive(R, 1..n)
  BY <1>1, <1>2 DEF Transitive
<1>4. Irreflexive(R, 1..n)
  BY <1>1, <1>2 DEF Irreflexive
<1>5. PICK i \in T : \A j \in T : <<j, i>> \notin R
  BY <1>3, <1>4, Minimal
<1>6. ASSUME NEW j \in T PROVE F[i] <= F[j]
  <2>1. i \in 1..n /\ j \in 1..n /\ ~(<<j, i>> \in R)
    BY <1>5
  <2>2. ~(F[j] < F[i])
    BY <1>1, <2>1
  <2> QED
    BY <1>2, <2>1, <2>2
<1> QED
  BY <1>6

\* What is compared field by field is a strict order.
LEMMA PrecedesOrder ==
    ASSUME NEW n \in Nat, NEW s \in [1..n -> Int], NEW t \in [1..n -> Int], NEW u \in [1..n -> Int]
    PROVE  /\ ~Precedes(s, s)
           /\ Precedes(s, t) /\ Precedes(t, u) => Precedes(s, u)
<1>1. ~Precedes(s, s)
  BY DEF Precedes
<1>2. ASSUME Precedes(s, t), Precedes(t, u) PROVE Precedes(s, u)
  <2>1. PICK k \in 1..n : s[k] < t[k] /\ \A j \in 1..(k - 1) : s[j] = t[j]
    BY <1>2 DEF Precedes
  <2>2. PICK l \in 1..n : t[l] < u[l] /\ \A j \in 1..(l - 1) : t[j] = u[j]
    BY <1>2 DEF Precedes
  <2>3. CASE k < l
    BY <2>1, <2>2, <2>3 DEF Precedes
  <2>4. CASE l < k
    BY <2>1, <2>2, <2>4 DEF Precedes
  <2>5. CASE k = l
    BY <2>1, <2>2, <2>5 DEF Precedes
  <2> QED
    BY <2>3, <2>4, <2>5
<1> QED
  BY <1>1, <1>2

\* What is compared are numbers.
LEMMA Measures ==
    ASSUME NEW c \in Candidates
    PROVE  /\ c.sheets \in Nat /\ c.visual \in Nat /\ c.waste \in Nat /\ c.shift \in Nat
           /\ c.lead \in Nat /\ c.corner \in Nat /\ c.isRescue \in BOOLEAN
  BY DEF Candidates

\* The comparison of candidates is a strict order.
LEMMA BetterOrder ==
    ASSUME NEW a \in Candidates, NEW b \in Candidates, NEW c \in Candidates
    PROVE  /\ ~BetterCandidate(a, a)
           /\ BetterCandidate(a, b) /\ BetterCandidate(b, c) => BetterCandidate(a, c)
           /\ BetterCandidate(a, b) => a.sheets <= b.sheets
<1>1. \A d \in Candidates : Order(d) \in [1..6 -> Int] /\ Order(d)[1] = d.sheets
  BY DEF Order, Candidates
<1>2. /\ ~BetterCandidate(a, a)
      /\ BetterCandidate(a, b) /\ BetterCandidate(b, c) => BetterCandidate(a, c)
  BY <1>1, PrecedesOrder DEF BetterCandidate
<1>3. ASSUME BetterCandidate(a, b) PROVE a.sheets <= b.sheets
  BY <1>1, <1>3 DEF BetterCandidate, Precedes
<1> QED
  BY <1>2, <1>3

-----------------------------------------------------------------------------
(* The winner                                                              *)

Kept(guard) == {i \in DOMAIN candidates : ~Rejected(candidates[i], guard)}
Fewest(guard) == {i \in Kept(guard) : \A j \in Kept(guard) : candidates[i].sheets <= candidates[j].sheets}

\* If the guard leaves a candidate, the winner is one of those it leaves that
\* need the fewest sheets, is within the window, and none of the others within
\* it is better.
LEMMA WinnerFound ==
    ASSUME candidates \in Seq(Candidates), NEW drop \in Nat, NEW guard, Kept(guard) # {}
    PROVE  LET w == WinnerIdx(candidates, drop, guard)
           IN /\ w \in Eligible(candidates, drop, guard)
              /\ \A j \in Eligible(candidates, drop, guard) : ~BetterCandidate(candidates[j], candidates[w])
<1> DEFINE n == Len(candidates)
           kept == Kept(guard)
           fewest == Fewest(guard)
           eligible == Eligible(candidates, drop, guard)
           best == {i \in eligible : \A j \in eligible : ~BetterCandidate(candidates[j], candidates[i])}
<1>1. n \in Nat /\ DOMAIN candidates = 1..n /\ \A i \in 1..n : candidates[i] \in Candidates
  OBVIOUS
<1>2. kept \subseteq 1..n /\ kept # {}
  BY <1>1 DEF Kept
<1>3. eligible = {i \in fewest : \A j \in fewest : candidates[i].lead + drop >= candidates[j].lead}
  BY DEF Eligible, Fewest, Kept
<1>4. fewest \subseteq kept /\ fewest # {}
  <2> DEFINE F == [i \in 1..n |-> candidates[i].sheets]
  <2>1. F \in [1..n -> Int]
    BY <1>1 DEF Candidates
  <2>2. PICK i \in kept : \A j \in kept : F[i] <= F[j]
    <3> HIDE DEF F, n, kept
    <3> QED
      BY <1>1, <1>2, <2>1, Smallest
  <2>3. \A j \in kept : candidates[i].sheets <= candidates[j].sheets
    BY <1>2, <2>2
  <2> QED
    BY <2>3 DEF Fewest
<1>5. eligible \subseteq fewest /\ eligible # {}
  <2> DEFINE F == [i \in 1..n |-> -candidates[i].lead]
  <2>1. F \in [1..n -> Int] /\ \A i \in 1..n : candidates[i].lead \in Int
    <3>1. \A i \in 1..n : candidates[i].lead \in Int
      BY <1>1 DEF Candidates
    <3>2. \A i \in 1..n : -candidates[i].lead \in Int
      BY <3>1
    <3> QED
      BY <3>1, <3>2
  <2>2. fewest \subseteq 1..n
    BY <1>2, <1>4
  <2>3. PICK i \in fewest : \A j \in fewest : F[i] <= F[j]
    <3> HIDE DEF F, n, fewest
    <3> QED
      BY <1>1, <1>4, <2>1, <2>2, Smallest
  <2>4. \A j \in fewest : candidates[i].lead + drop >= candidates[j].lead
    <3> SUFFICES ASSUME NEW j \in fewest PROVE candidates[i].lead + drop >= candidates[j].lead
      OBVIOUS
    <3>1. F[i] <= F[j] /\ F[i] = -candidates[i].lead /\ F[j] = -candidates[j].lead
      BY <2>2, <2>3
    <3>2. candidates[i].lead \in Int /\ candidates[j].lead \in Int
      BY <2>1, <2>2
    <3> HIDE DEF F, n, fewest
    <3> QED
      BY <3>1, <3>2
  <2> HIDE DEF fewest, eligible
  <2> QED
    BY <2>4, <1>3
<1>6. best # {}
  <2> DEFINE R == {ij \in (1..n) \X (1..n) : BetterCandidate(candidates[ij[1]], candidates[ij[2]])}
  <2>2. \A i, j \in 1..n : <<i, j>> \in R <=> BetterCandidate(candidates[i], candidates[j])
    OBVIOUS
  <2>6. eligible \subseteq 1..n
    BY <1>2, <1>4, <1>5
  <2> HIDE DEF R, n, eligible
  <2>3. Transitive(R, 1..n) /\ Irreflexive(R, 1..n)
    BY <1>1, <2>2, BetterOrder DEF Transitive, Irreflexive
  <2>4. PICK i \in eligible : \A j \in eligible : <<j, i>> \notin R
    BY <1>1, <1>5, <2>3, <2>6, Minimal
  <2> QED
    BY <2>2, <2>4, <2>6
<1>7. WinnerIdx(candidates, drop, guard) = CHOOSE i \in best : \A j \in best : i <= j
  BY <1>6 DEF WinnerIdx
<1>8. best \subseteq 1..n
  BY <1>2, <1>4, <1>5
<1>9. WinnerIdx(candidates, drop, guard) \in best
  <2> HIDE DEF best, n
  <2>1. \E i \in best : \A j \in best : i <= j
    BY <1>1, <1>6, <1>8, First
  <2> QED
    BY <1>7, <2>1
<1> QED
  BY <1>9

\* The base stage's winner: of the base candidates on as few sheets, none is
\* fuller by more than the window.
LEMMA BaseWinner ==
    ASSUME candidates \in Seq(Candidates), candidates # <<>>, NEW drop \in Nat
    PROVE  LET w == WinnerIdx(candidates, drop, {})
           IN /\ w \in DOMAIN candidates
              /\ \A j \in DOMAIN candidates : candidates[j].sheets = candidates[w].sheets
                     => candidates[w].lead + drop >= candidates[j].lead
<1> DEFINE w == WinnerIdx(candidates, drop, {})
<1>1. Kept({}) = DOMAIN candidates
  BY DEF Kept, Rejected
<1>2. DOMAIN candidates # {}
  BY HasFirst
<1>3. w \in Eligible(candidates, drop, {})
  BY <1>1, <1>2, WinnerFound
<1>4. w \in Fewest({}) /\ \A j \in Fewest({}) : candidates[w].lead + drop >= candidates[j].lead
  BY <1>3 DEF Eligible, Fewest, Kept
<1>5. w \in DOMAIN candidates /\ \A j \in DOMAIN candidates : candidates[w].sheets <= candidates[j].sheets
  BY <1>1, <1>4 DEF Fewest
<1>6. ASSUME NEW j \in DOMAIN candidates, candidates[j].sheets = candidates[w].sheets PROVE j \in Fewest({})
  <2> HIDE DEF w
  <2> QED
    BY <1>1, <1>5, <1>6 DEF Fewest
<1> QED
  BY <1>4, <1>5, <1>6

\* The winner of all: none the guard leaves needs fewer sheets, and none as
\* full on as many is better.
LEMMA FinalWinner ==
    ASSUME candidates \in Seq(Candidates), NEW drop \in Nat, NEW guard, Kept(guard) # {}
    PROVE  LET w == WinnerIdx(candidates, drop, guard)
           IN /\ w \in Kept(guard)
              /\ \A j \in Kept(guard) :
                     /\ candidates[w].sheets <= candidates[j].sheets
                     /\ candidates[j].sheets = candidates[w].sheets /\ candidates[j].lead >= candidates[w].lead
                            => ~BetterCandidate(candidates[j], candidates[w])
                     /\ candidates[j].sheets = candidates[w].sheets /\ BetterCandidate(candidates[j], candidates[w])
                            => \E i \in Kept(guard) : /\ candidates[i].sheets = candidates[w].sheets
                                                      /\ candidates[i].lead > candidates[j].lead + drop
<1> DEFINE w == WinnerIdx(candidates, drop, guard)
           eligible == Eligible(candidates, drop, guard)
<1>1. w \in eligible /\ \A j \in eligible : ~BetterCandidate(candidates[j], candidates[w])
  BY WinnerFound
<1>2. eligible = {i \in Fewest(guard) : \A j \in Fewest(guard) : candidates[i].lead + drop >= candidates[j].lead}
  BY DEF Eligible, Fewest, Kept
<1>3. Kept(guard) \subseteq DOMAIN candidates
  BY DEF Kept
<1>4. \A i \in Kept(guard) : candidates[i].sheets \in Int /\ candidates[i].lead \in Int
  BY <1>3, Measures
<1> HIDE DEF w, eligible
<1>5. w \in Fewest(guard) /\ w \in Kept(guard)
  BY <1>1, <1>2 DEF Fewest
<1>6. \A j \in Kept(guard) : candidates[w].sheets <= candidates[j].sheets
  BY <1>5 DEF Fewest
<1>7. ASSUME NEW j \in Kept(guard), candidates[j].sheets = candidates[w].sheets
      PROVE  j \in Fewest(guard)
  BY <1>6, <1>7 DEF Fewest
<1>8. ASSUME NEW j \in Kept(guard), candidates[j].sheets = candidates[w].sheets, BetterCandidate(candidates[j], candidates[w])
      PROVE  \E i \in Kept(guard) : /\ candidates[i].sheets = candidates[w].sheets
                                    /\ candidates[i].lead > candidates[j].lead + drop
  <2>1. j \in Fewest(guard) /\ j \notin eligible
    BY <1>1, <1>7, <1>8
  <2>2. PICK i \in Fewest(guard) : ~(candidates[j].lead + drop >= candidates[i].lead)
    BY <2>1, <1>2
  <2>3. i \in Kept(guard) /\ candidates[i].sheets <= candidates[w].sheets
    BY <2>2, <1>5 DEF Fewest
  <2>4. candidates[i].sheets = candidates[w].sheets
    BY <2>3, <1>4, <1>5, <1>6
  <2>5. candidates[i].lead > candidates[j].lead + drop
    BY <2>2, <2>3, <1>4
  <2> QED
    BY <2>3, <2>4, <2>5
<1>9. ASSUME NEW j \in Kept(guard), candidates[j].sheets = candidates[w].sheets, candidates[j].lead >= candidates[w].lead
      PROVE  ~BetterCandidate(candidates[j], candidates[w])
  BY <1>8, <1>9, <1>7, <1>1, <1>2, <1>4, <1>5
<1> QED
  BY <1>5, <1>6, <1>8, <1>9 DEF w

-----------------------------------------------------------------------------
(* What validation leaves of a pool's block                                *)

\* The block of a pool that is entered, with its lists of numbers.
PoolChecked(block) ==
    /\ \A field \in DOMAIN block \cap DOMAIN AllowedElements :
           /\ block[field] \in Seq(Int)
           /\ Len(block[field]) \in 1..8
           /\ \A i \in DOMAIN block[field] : block[field][i] \in AllowedElements[field]
    /\ \A field \in DOMAIN block \cap DOMAIN Allowed["profile_pool"] : block[field] \in Allowed["profile_pool"][field]

\* A list is the client's, which is short and in range, or the preset's.
LEMMA ListsOf ==
    ASSUME NEW block, PoolChecked(block)
    PROVE  /\ ProfilesOf(block) \in Seq(Fractions) /\ Len(ProfilesOf(block)) \in 1..8
           /\ RescueProfilesOf(block) \in Seq(Fractions) /\ Len(RescueProfilesOf(block)) \in 0..8
           /\ OffsetsOf(block) \in Seq(Nat) /\ Len(OffsetsOf(block)) \in 0..8
<1>1. /\ DOMAIN AllowedElements = {"zone_penalties", "rescue_zone_penalties", "seed_offsets"}
      /\ AllowedElements["zone_penalties"] = Fractions
      /\ AllowedElements["rescue_zone_penalties"] = Fractions
      /\ AllowedElements["seed_offsets"] = AtLeast(1)
  BY DEF AllowedElements
<1>2. AtLeast(1) \subseteq Nat
  BY DEF AtLeast
<1>3. ASSUME NEW list \in Seq(Int), NEW S, \A i \in DOMAIN list : list[i] \in S PROVE list \in Seq(S)
  BY <1>3
<1>4. ASSUME NEW p PROVE PresetProfiles(p) \in Seq(Fractions) /\ Len(PresetProfiles(p)) \in 1..8
  <2>1. 2000 \in Fractions /\ 3000 \in Fractions /\ 4000 \in Fractions /\ 5000 \in Fractions
    BY DEF Fractions, One
  <2> HIDE DEF Fractions
  <2> QED
    BY <2>1 DEF PresetProfiles
<1>5. ASSUME NEW p PROVE PresetRescueProfiles(p) \in Seq(Fractions) /\ Len(PresetRescueProfiles(p)) \in 0..8
  <2>1. 4000 \in Fractions
    BY DEF Fractions, One
  <2> QED
    BY <2>1 DEF PresetRescueProfiles
<1>6. ProfilesOf(block) \in Seq(Fractions) /\ Len(ProfilesOf(block)) \in 1..8
  BY <1>1, <1>3, <1>4 DEF ProfilesOf, Value, Has, PoolChecked
<1>7. RescueProfilesOf(block) \in Seq(Fractions) /\ Len(RescueProfilesOf(block)) \in 0..8
  BY <1>1, <1>3, <1>5 DEF RescueProfilesOf, Value, Has, PoolChecked
<1>8. OffsetsOf(block) \in Seq(Nat) /\ Len(OffsetsOf(block)) \in 0..8
  <2>1. CASE Has(block, "seed_offsets")
    <3>1. Len(OffsetsOf(block)) \in 1..8
      BY <2>1, <1>1 DEF OffsetsOf, Value, Has, PoolChecked
    <3> QED
      BY <2>1, <3>1, <1>1, <1>2, <1>3 DEF OffsetsOf, Value, Has, PoolChecked
  <2>2. CASE ~Has(block, "seed_offsets")
    BY <2>2 DEF OffsetsOf, Value
  <2> QED
    BY <2>1, <2>2
<1> QED
  BY <1>6, <1>7, <1>8

\* The window is a share.
LEMMA WindowOf ==
    ASSUME NEW block, PoolChecked(block)
    PROVE  DropOf(block) \in Nat
<1>1. /\ DOMAIN Allowed["profile_pool"] = {"fill_penalty", "max_lead_drop_pp",
                       "rescue_when_max_corner_below_mm2", "rescue_accept_min_max_corner_mm2"}
      /\ Allowed["profile_pool"]["max_lead_drop_pp"] = 0..100
  BY DEF Allowed
<1>2. CASE Has(block, "max_lead_drop_pp")
  <2>1. block["max_lead_drop_pp"] \in 0..100
    BY <1>1, <1>2 DEF Has, PoolChecked
  <2> QED
    BY <1>2, <2>1 DEF DropOf, Value
<1>3. CASE ~Has(block, "max_lead_drop_pp")
  BY <1>3 DEF DropOf, Value
<1> QED
  BY <1>2, <1>3

\* The base stage has a run for every profile.
LEMMA BaseRuns ==
    ASSUME NEW block, PoolChecked(block)
    PROVE  BaseTasks(block) \in Seq(Tasks(FALSE)) /\ Len(BaseTasks(block)) \in 1..8
<1> DEFINE profiles == ProfilesOf(block)
<1>1. profiles \in Seq(Fractions) /\ Len(profiles) \in 1..8
  BY ListsOf
<1>2. BaseTasks(block) = [i \in 1..Len(profiles) |-> Task(profiles[i], 0, FALSE)]
  BY <1>1 DEF BaseTasks
<1>3. \A i \in 1..Len(profiles) : Task(profiles[i], 0, FALSE) \in Tasks(FALSE)
  BY <1>1 DEF Task, Tasks
<1> HIDE DEF profiles
<1>4. BaseTasks(block) \in [1..Len(profiles) -> Tasks(FALSE)]
  BY <1>2, <1>3
<1> DEFINE S == Tasks(FALSE)
           f == BaseTasks(block)
           n == Len(profiles)
<1>5. n \in Nat /\ n \in 1..8 /\ f \in [1..n -> S]
  <2>1. n \in 1..8
    BY <1>1
  <2>2. f \in [1..n -> S]
    BY <1>4
  <2> HIDE DEF n, f, S
  <2> QED
    BY <2>1, <2>2
<1> HIDE DEF S, f, n
<1>6. f \in Seq(S) /\ Len(f) = n
  BY <1>5, AsSequence
<1> QED
  BY <1>5, <1>6 DEF S, f

\* The rescue stage has at most eight, and eight for each profile.
LEMMA RescueRuns ==
    ASSUME NEW block, PoolChecked(block)
    PROVE  RescueTasks(block) \in Seq(Tasks(TRUE)) /\ Len(RescueTasks(block)) \in 0..72
<1> DEFINE profiles == ProfilesOf(block)
           rescue == RescueProfilesOf(block)
           offsets == OffsetsOf(block)
           P == Len(profiles)
           O == Len(offsets)
           one == [i \in DOMAIN rescue |-> Task(rescue[i], 0, TRUE)]
           two == [i \in 1..(O * P) |-> Task(profiles[((i - 1) % P) + 1], offsets[((i - 1) \div P) + 1], TRUE)]
<1>1. /\ profiles \in Seq(Fractions) /\ P \in 1..8
      /\ rescue \in Seq(Fractions) /\ Len(rescue) \in 0..8
      /\ offsets \in Seq(Nat) /\ O \in 0..8
  BY ListsOf
<1>2. one \in Seq(Tasks(TRUE)) /\ Len(one) = Len(rescue)
  <2>1. \A i \in 1..Len(rescue) : Task(rescue[i], 0, TRUE) \in Tasks(TRUE)
    BY <1>1 DEF Task, Tasks
  <2>2. DOMAIN rescue = 1..Len(rescue) /\ Len(rescue) \in Nat
    BY <1>1
  <2>3. one \in [1..Len(rescue) -> Tasks(TRUE)]
    BY <2>1, <2>2
  <2> HIDE DEF one
  <2> QED
    BY <2>2, <2>3, AsSequence
<1>3. O * P \in 0..64
  <2> HIDE DEF O, P
  <2>1. \A p \in 1..8, o \in 0..8 : o * p \in 0..64
    BY Z3
  <2> QED
    BY <2>1, <1>1
<1>4. ASSUME NEW i \in 1..(O * P) PROVE ((i - 1) % P) + 1 \in 1..P /\ ((i - 1) \div P) + 1 \in 1..O
  <2> HIDE DEF O, P
  <2>3. P \in Nat /\ P > 0 /\ O \in Nat
    BY <1>1
  <2>4. \A a \in 0..64 : \A k \in 1..a : k - 1 \in Nat /\ k - 1 < a
    OBVIOUS
  <2>1. P \in Nat /\ P > 0 /\ O \in Nat /\ i - 1 \in Nat /\ i - 1 < O * P
    BY <1>3, <1>4, <2>3, <2>4
  <2>2. (i - 1) % P \in 0..(P - 1) /\ (i - 1) \div P \in 0..(O - 1)
    BY <2>1, QuotientAndRemainder
  <2> QED
    BY <2>1, <2>2
<1>5. two \in Seq(Tasks(TRUE)) /\ Len(two) = O * P
  <2>1. ASSUME NEW i \in 1..(O * P)
        PROVE  Task(profiles[((i - 1) % P) + 1], offsets[((i - 1) \div P) + 1], TRUE) \in Tasks(TRUE)
    <3> DEFINE r == ((i - 1) % P) + 1
               q == ((i - 1) \div P) + 1
    <3>1. r \in 1..P /\ q \in 1..O
      BY <1>4, <2>1
    <3> HIDE DEF r, q
    <3>2. profiles[r] \in Fractions
      BY <1>1, <3>1
    <3>3. offsets[q] \in Nat
      BY <1>1, <3>1
    <3>4. Task(profiles[r], offsets[q], TRUE) \in Tasks(TRUE)
      BY <3>2, <3>3 DEF Task, Tasks
    <3> QED
      BY <3>4 DEF r, q
  <2>2. O * P \in Nat
    BY <1>3
  <2>3. two \in [1..(O * P) -> Tasks(TRUE)]
    <3> HIDE DEF O, P, profiles, offsets
    <3> QED
      BY <2>1
  <2> HIDE DEF O, P, two
  <2> QED
    BY <2>2, <2>3, AsSequence
<1>6. RescueTasks(block) = one \o two
  BY DEF RescueTasks
<1> HIDE DEF one, two, O, P, rescue
<1>7. Len(one \o two) = Len(one) + Len(two) /\ one \o two \in Seq(Tasks(TRUE))
  BY <1>2, <1>5, Joined
<1>8. O * P \in 0..64 /\ Len(rescue) \in 0..8
  BY <1>1, <1>3
<1>9. Len(RescueTasks(block)) = Len(rescue) + O * P
  BY <1>2, <1>5, <1>6, <1>7
<1>10. Len(RescueTasks(block)) \in 0..72
  <2>1. \A a \in 0..64, b \in 0..8 : b + a \in 0..72
    OBVIOUS
  <2>2. Len(rescue) + O * P \in 0..72
    BY <2>1, <1>8
  <2> QED
    BY <2>2, <1>9
<1> QED
  BY <1>6, <1>7, <1>10

-----------------------------------------------------------------------------
(* The inductive invariant                                                 *)

Running == pc \in {"solve", "search", "await"}

\* The requests a pool runs for.
Entered == Pooled /\ Verdict(request) = "ok" /\ request.layout # "vacuum_table"

Untouched ==
    /\ task = Alone /\ todo = <<>> /\ stage = "base"
    /\ candidates = <<>> /\ timedOut = 0 /\ failed = 0 /\ lastError = NoAnswer
    /\ provisional = EmptyResponse

\* The runs planned so far, each to come, under way or counted.
Planned ==
    Len(BaseTasks(PoolBlock))
    + (IF stage = "rescue" /\ Triggered(PoolBlock, provisional) THEN Len(RescueTasks(PoolBlock)) ELSE 0)
Counted ==
    Len(todo) + (IF Running THEN 1 ELSE 0) + Len(candidates) + timedOut + failed = Planned

\* Only what is valid gets past validation; a pool is touched only by the
\* requests it runs for, and counts its runs from when it is entered.
Phases ==
    /\ request \in Requests
    /\ pc \notin {"received", "done"} => Verdict(request) = "ok" /\ request.layout # "vacuum_table"
    /\ pc = "pool" => Pooled
    /\ pc = "received" \/ ~Entered => Untouched
    /\ Untouched \/ Counted
    /\ pc \notin {"received", "done"} /\ Pooled => Counted
    /\ Running /\ Pooled => task \in Tasks(stage = "rescue")
    /\ Won => todo = <<>>

\* The base stage's candidates are not marked as rescues, and its winner is one
\* of them that none of them as small leaves outside the window.
Marks ==
    /\ stage = "base" => \A i \in DOMAIN candidates : ~candidates[i].isRescue
    /\ stage = "rescue" =>
           \E p \in DOMAIN candidates :
               /\ provisional = candidates[p] /\ ~candidates[p].isRescue
               /\ \A j \in DOMAIN candidates :
                      ~candidates[j].isRescue /\ candidates[j].sheets = provisional.sheets
                          => provisional.lead + DropOf(PoolBlock) >= candidates[j].lead

IInv == TypeOK /\ Phases /\ Marks /\ PoolChoosesWell /\ PoolErrorMeansNothing

-----------------------------------------------------------------------------
(* What steps have in common                                               *)

\* What a request asks for does not change.
LEMMA SameRequest ==
    ASSUME request' = request
    PROVE  /\ Pooled' = Pooled /\ PoolBlock' = PoolBlock /\ Entered' = Entered
           /\ DropOf(PoolBlock)' = DropOf(PoolBlock)
           /\ AcceptCornerOf(PoolBlock)' = AcceptCornerOf(PoolBlock)
<1>1. Pooled' = Pooled /\ PoolBlock' = PoolBlock
  BY DEF Pooled, IsDefault, On, PoolBlock, Block
<1> QED
  BY <1>1 DEF Entered

\* Nor does the number of runs while the stage and its winner do not.
LEMMA SamePlan ==
    ASSUME request' = request, stage' = stage, provisional' = provisional
    PROVE  Planned' = Planned
  BY SameRequest DEF Planned

\* The block of a pool that is entered has been looked at.
LEMMA EnteredBlock ==
    ASSUME request \in Requests, Entered
    PROVE  PoolChecked(PoolBlock)
<1> DEFINE block == request.blocks["profile_pool"]
<1>1. "profile_pool" \in DOMAIN request.blocks /\ Enabled(block) /\ PoolBlock = block
  BY DEF Entered, Pooled, On, Has, PoolBlock, Block, Value
<1>2. BlocksValid(request.blocks)
  BY DEF Entered, Verdict
<1>3. "profile_pool" \in DOMAIN Allowed
  BY DEF Allowed
<1>4. BlockValid("profile_pool", block) /\ ListsValid(block)
  BY <1>1, <1>2, <1>3 DEF BlocksValid
<1>5. \A field \in DOMAIN block \cap DOMAIN AllowedElements : block[field] \in Seq(Int)
  BY <1>1, <1>3, RequestsAssumption DEF RequestsAssumption
<1> QED
  BY <1>1, <1>4, <1>5 DEF PoolChecked, BlockValid, ListsValid

\* What a pool counts is within what its lists allow.
LEMMA WithinLists ==
    ASSUME request' = request, request \in Requests, Entered, Counted',
           todo' \in Seq(Tasks((stage = "rescue")')), candidates' \in Seq(Candidates), timedOut' \in Nat, failed' \in Nat
    PROVE  Len(todo') + Len(candidates') + timedOut' + failed' <= 8 + 8 * 9
<1>1. Len(todo') \in Nat /\ Len(candidates') \in Nat
  OBVIOUS
<1>2. Len(BaseTasks(PoolBlock)) \in 1..8 /\ Len(RescueTasks(PoolBlock)) \in 0..72
  BY EnteredBlock, BaseRuns, RescueRuns
<1> DEFINE b == Len(BaseTasks(PoolBlock))
           r == Len(RescueTasks(PoolBlock))
           under == (IF Running THEN 1 ELSE 0)'
<1>3. Planned' = b \/ Planned' = b + 0 \/ Planned' = b + r
  BY SameRequest DEF Planned
<1>4. under \in 0..1
  OBVIOUS
<1>5. Len(todo') + under + Len(candidates') + timedOut' + failed' = Planned'
  BY DEF Counted
<1>6. Planned' <= 80 /\ Planned' \in Int
  <2>1. b \in 1..8 /\ r \in 0..72
    BY <1>2
  <2> HIDE DEF b, r
  <2> QED
    BY <2>1, <1>3
<1> DEFINE l == Len(todo')
           c == Len(candidates')
           p == Planned'
<1>7. /\ l \in Nat /\ c \in Nat /\ under \in 0..1 /\ timedOut' \in Nat /\ failed' \in Nat /\ p \in Int
      /\ l + under + c + timedOut' + failed' = p /\ p <= 80
  BY <1>1, <1>4, <1>5, <1>6
<1> HIDE DEF l, c, p, under
<1>8. \A l1, c1, t1, f1 \in Nat, u1 \in 0..1, p1 \in Int :
          l1 + u1 + c1 + t1 + f1 = p1 /\ p1 <= 80 => l1 + c1 + t1 + f1 <= 8 + 8 * 9
  OBVIOUS
<1>9. l + c + timedOut' + failed' <= 8 + 8 * 9
  BY <1>7, <1>8
<1> QED
  BY <1>9 DEF l, c

\* Nothing is claimed of an answer that has not been given, nor of a winner
\* that has not been chosen.
LEMMA NothingWon ==
    /\ pc' # "done" => PoolChoosesWell' /\ PoolErrorMeansNothing'
    /\ stage' # "rescue" => PoolChoosesWell'
  BY DEF PoolChoosesWell, WinnerIsBest, RescueNeverHurts, PoolErrorMeansNothing, Won

-----------------------------------------------------------------------------
(* The invariant is inductive                                              *)

\* It holds when a request arrives.
LEMMA InitInv == Init => IInv
<1> SUFFICES ASSUME Init PROVE IInv
  OBVIOUS
<1> USE DEF Init
<1>1. TypeOK
  BY RequestsAssumption DEF TypeOK, RequestsAssumption, NoAnswer, Kinds
<1>2. Phases
  BY DEF Phases, Untouched, Running, Won
<1>3. Marks
  BY DEF Marks
<1>4. PoolChoosesWell /\ PoolErrorMeansNothing
  BY DEF PoolChoosesWell, WinnerIsBest, RescueNeverHurts, PoolErrorMeansNothing, Won
<1> QED
  BY <1>1, <1>2, <1>3, <1>4 DEF IInv

\* A request is answered whose pool nobody has touched.
LEMMA AnswerAlone ==
    ASSUME IInv, Untouched, NEW result, Answer(result), result.kind \in Kinds, Pooled => result.kind # "timeout"
    PROVE  IInv'
<1> USE DEF Answer, pool
<1>1. TypeOK'
  BY DEF IInv, TypeOK
<1>2. Phases'
  BY SameRequest DEF Untouched, Won, Running, IInv, Phases
<1>3. Marks'
  BY DEF Marks, Untouched
<1>4. PoolChoosesWell' /\ PoolErrorMeansNothing'
  BY SameRequest, NothingWon DEF Untouched, PoolErrorMeansNothing
<1> QED
  BY <1>1, <1>2, <1>3, <1>4 DEF IInv

\* The request is refused.
LEMMA RejectStep == IInv /\ Reject => IInv'
<1> SUFFICES ASSUME IInv, Reject PROVE IInv'
  OBVIOUS
<1>1. Untouched
  BY DEF IInv, Phases, Reject
<1>2. Verdict(request) \in {"validation", "constraint"}
  BY DEF Reject, Verdict
<1>3. Error(Verdict(request)).kind \in Kinds /\ Error(Verdict(request)).kind # "timeout"
  BY <1>2 DEF Error, Kinds
<1> QED
  BY <1>1, <1>3, AnswerAlone DEF Reject

\* The vacuum layout answers.
LEMMA VacuumStep == IInv /\ Vacuum => IInv'
<1> SUFFICES ASSUME IInv, Vacuum PROVE IInv'
  OBVIOUS
<1>1. Untouched
  BY DEF IInv, Phases, Vacuum, Accepted
<1>2. \A response : Ok(response).kind \in Kinds /\ Ok(response).kind # "timeout"
  BY DEF Ok, Kinds
<1>3. Error("constraint").kind \in Kinds /\ Error("constraint").kind # "timeout"
  BY DEF Error, Kinds
<1>4. CASE Answer(Error("constraint"))
  BY <1>1, <1>3, <1>4, AnswerAlone
<1>5. CASE \E inTime \in BOOLEAN : Answer(Ok(TableLayout(request, inTime)))
  BY <1>5, <1>1, <1>2, AnswerAlone
<1> QED
  BY <1>4, <1>5 DEF Vacuum

\* The pool is entered.
LEMMA EnterPoolStep == IInv /\ EnterPool => IInv'
<1> SUFFICES ASSUME IInv, EnterPool PROVE IInv'
  OBVIOUS
<1> USE DEF EnterPool
<1>1. Untouched /\ Entered /\ request \in Requests
  BY DEF IInv, Phases, Accepted, Entered
<1>2. /\ BaseTasks(PoolBlock) \in Seq(Tasks(FALSE)) /\ Len(BaseTasks(PoolBlock)) \in 1..8
      /\ todo' = BaseTasks(PoolBlock)
  BY <1>1, EnteredBlock, BaseRuns DEF PoolBlock
<1>3. stage' = "base" /\ Entered' /\ ~Running' /\ ~Won' /\ (stage = "rescue")' = FALSE
  BY <1>1, SameRequest DEF Untouched, Running, Won
<1>4. candidates' = <<>> /\ timedOut' = 0 /\ failed' = 0
  BY <1>1 DEF Untouched
<1>5. Counted'
  BY <1>3, SameRequest, <1>2, <1>4 DEF Planned, Counted
<1>6. TypeOK'
  <2>1. todo' \in Seq(Tasks((stage = "rescue")'))
    BY <1>2, <1>3
  <2>2. candidates' \in Seq(Candidates) /\ timedOut' \in Nat /\ failed' \in Nat
    BY <1>4
  <2>3. Len(todo') + Len(candidates') + timedOut' + failed' <= 8 + 8 * 9
    BY <1>1, <1>5, <2>1, <2>2, WithinLists
  <2> QED
    BY <2>1, <2>2, <2>3 DEF IInv, TypeOK
<1>7. Phases'
  BY <1>1, <1>3, <1>5, SameRequest DEF Phases, Entered
<1>8. Marks'
  BY <1>3, <1>4 DEF Marks
<1> QED
  BY <1>6, <1>7, <1>8, NothingWon DEF IInv

\* The request goes on to be solved, or a solve goes on.
LEMMA Onwards ==
    ASSUME IInv, UNCHANGED <<request, pool, answer>>, pc' \in {"solve", "search", "await"},
           Running \/ (Accepted /\ request.layout # "vacuum_table" /\ ~Pooled)
    PROVE  IInv'
<1> USE DEF pool
<1>1. TypeOK'
  BY DEF IInv, TypeOK
<1>2. ~Won' /\ Running' /\ Won' = FALSE
  BY DEF Won, Running
<1>3. Verdict(request) = "ok" /\ request.layout # "vacuum_table"
  BY DEF IInv, Phases, Running, Accepted
<1>6. Marks'
  BY SameRequest DEF IInv, Marks
<1>7. PoolChoosesWell' /\ PoolErrorMeansNothing'
  BY NothingWon
<1>4. CASE Pooled
  <2>1. Running /\ Counted /\ task \in Tasks(stage = "rescue")
    BY <1>4 DEF IInv, Phases, Running
  <2>2. Counted' /\ Pooled' /\ Entered' /\ task' \in Tasks((stage = "rescue")')
    BY <1>2, <1>3, <1>4, <2>1, SameRequest, SamePlan DEF Counted, Entered
  <2>3. Phases'
    BY <1>2, <1>3, <2>2 DEF IInv, Phases, Running
  <2> QED
    BY <1>1, <1>6, <1>7, <2>3 DEF IInv
<1>5. CASE ~Pooled
  <2>1. Untouched
    BY <1>5 DEF IInv, Phases, Entered
  <2>2. Untouched' /\ ~Pooled'
    BY <1>5, <2>1, SameRequest DEF Untouched
  <2>3. Phases'
    BY <1>2, <1>3, <2>2 DEF IInv, Phases, Running
  <2> QED
    BY <1>1, <1>6, <1>7, <2>3 DEF IInv
<1> QED
  BY <1>4, <1>5

\* The pool starts its next run.
LEMMA StartCandidateStep == IInv /\ StartCandidate => IInv'
<1> SUFFICES ASSUME IInv, StartCandidate PROVE IInv'
  OBVIOUS
<1> USE DEF StartCandidate
<1>1. Pooled /\ Counted /\ Entered /\ request \in Requests /\ ~Running
  BY DEF IInv, Phases, Running, Entered
<1> DEFINE S == Tasks(stage = "rescue")
<1>2. todo \in Seq(S) /\ Len(todo) > 0 /\ Len(todo) \in Nat
  BY HasFirst DEF IInv, TypeOK
<1>3. task' \in S /\ todo' \in Seq(S) /\ Len(todo') = Len(todo) - 1
  BY <1>2
<1>4. Running' /\ ~Won' /\ Pooled' /\ Entered' /\ Tasks(stage = "rescue")' = S
  BY <1>1, SameRequest DEF Running, Won
<1> HIDE DEF S
<1>5. Counted'
  <2>1. Len(todo) + 0 + Len(candidates) + timedOut + failed = Planned
    BY <1>1 DEF Counted
  <2>2. Planned' = Planned
    BY SamePlan
  <2>3. Len(candidates) \in Nat /\ timedOut \in Nat /\ failed \in Nat
    BY DEF IInv, TypeOK
  <2>4. \A l, c, t, f \in Nat : (l - 1) + 1 + c + t + f = l + 0 + c + t + f
    OBVIOUS
  <2>5. Len(todo') + 1 + Len(candidates) + timedOut + failed = Planned'
    BY <1>2, <1>3, <2>1, <2>2, <2>3, <2>4
  <2> QED
    BY <1>4, <2>5 DEF Counted
<1>6. TypeOK'
  BY <1>3, <1>4, <1>1, <1>5, WithinLists DEF IInv, TypeOK
<1>7. Phases'
  BY <1>1, <1>3, <1>4, <1>5 DEF IInv, Phases, Running, Entered
<1>8. Marks'
  BY SameRequest DEF IInv, Marks
<1> QED
  BY <1>6, <1>7, <1>8, NothingWon DEF IInv

\* A run of the pool comes back: as a candidate, as timed out or as failed.
Response == [sheets : Nat, visual : Nat, waste : Nat, shift : Nat, lead : Nat, corner : Nat]

\* Recording the result of a run keeps the invariant, whatever the result.
LEMMA RecordStep ==
    ASSUME IInv, Running, Pooled, NEW result, Record(result), result.response \in Response
    PROVE  IInv'
<1> USE DEF Record
<1>1. Pooled /\ Counted /\ Entered /\ request \in Requests /\ task \in Tasks(stage = "rescue")
  BY DEF IInv, Phases, Running, Entered
<1>2. ~Running' /\ ~Won' /\ Pooled' /\ Entered' /\ Tasks(stage = "rescue")' = Tasks(stage = "rescue")
  BY <1>1, SameRequest DEF Running, Won
<1>3. candidates \in Seq(Candidates) /\ timedOut \in Nat /\ failed \in Nat /\ Len(candidates) \in Nat /\ Len(todo) \in Nat
  BY DEF IInv, TypeOK
<1>4. Candidate(result.response) \in Candidates /\ Candidate(result.response).isRescue = (stage = "rescue")
  BY <1>1 DEF Candidate, Response, Candidates, Tasks
<1>5. /\ candidates' \in Seq(Candidates) /\ timedOut' \in Nat /\ failed' \in Nat
      /\ Len(todo) + 0 + Len(candidates') + timedOut' + failed' = Len(todo) + 1 + Len(candidates) + timedOut + failed
      /\ lastError'.kind \in {"none", "constraint", "internal"}
  <2>1. CASE result.kind = "ok" /\ candidates' = Append(candidates, Candidate(result.response))
                /\ UNCHANGED <<timedOut, failed, lastError>>
    BY <2>1, <1>3, <1>4 DEF IInv, TypeOK
  <2>2. CASE result.kind = "timeout" /\ timedOut' = timedOut + 1 /\ UNCHANGED <<candidates, failed, lastError>>
    BY <1>3, <2>2 DEF IInv, TypeOK
  <2>3. CASE result.kind \in {"constraint", "internal"} /\ failed' = failed + 1 /\ lastError' = result
                /\ UNCHANGED <<candidates, timedOut>>
    BY <1>3, <2>3
  <2> QED
    BY <2>1, <2>2, <2>3
<1>6. Counted'
  BY <1>1, SamePlan, <1>2, <1>5 DEF Counted
<1>7. TypeOK'
  BY <1>2, <1>1, <1>5, <1>6, WithinLists DEF IInv, TypeOK
<1>8. Phases'
  BY <1>1, <1>2, <1>6 DEF IInv, Phases, Running, Entered
<1>9. Marks'
  <2>1. candidates' = candidates \/ candidates' = Append(candidates, Candidate(result.response))
    OBVIOUS
  <2>2. CASE candidates' = candidates
    BY <2>2, SameRequest DEF IInv, Marks
  <2>3. CASE candidates' = Append(candidates, Candidate(result.response))
    <3> DEFINE n == Len(candidates)
    <3>1. /\ DOMAIN candidates = 1..n /\ DOMAIN candidates' = 1..(n + 1) /\ n \in Nat
          /\ \A i \in 1..n : candidates'[i] = candidates[i]
          /\ candidates'[n + 1] = Candidate(result.response)
      BY <2>3, <1>3
    <3> HIDE DEF n
    <3>2. \A i \in 1..(n + 1) : i \in 1..n \/ i = n + 1
      BY <3>1
    <3>3. CASE stage = "base"
      BY <3>1, <3>3, <1>4, <3>2 DEF IInv, Marks
    <3>4. CASE stage = "rescue"
      <4>1. PICK p \in 1..n :
               /\ provisional = candidates[p] /\ ~candidates[p].isRescue
               /\ \A j \in 1..n : ~candidates[j].isRescue /\ candidates[j].sheets = provisional.sheets
                      => provisional.lead + DropOf(PoolBlock) >= candidates[j].lead
        BY <3>1, <3>4 DEF IInv, Marks
      <4>2. Candidate(result.response).isRescue
        BY <1>4, <3>4
      <4>3. p \in DOMAIN candidates' /\ provisional' = candidates'[p] /\ ~candidates'[p].isRescue
        BY <3>1, <4>1
      <4>4. ASSUME NEW j \in DOMAIN candidates', ~candidates'[j].isRescue, candidates'[j].sheets = provisional'.sheets
            PROVE  provisional'.lead + DropOf(PoolBlock)' >= candidates'[j].lead
        BY <3>1, <3>2, <4>2, <4>4, <4>1, SameRequest
      <4> QED
        BY <3>4, <4>3, <4>4 DEF Marks
    <3> QED
      BY <3>3, <3>4 DEF IInv, TypeOK
  <2> QED
    BY <2>1, <2>2, <2>3
<1> QED
  BY <1>7, <1>8, <1>9, NothingWon DEF IInv

\* A solve returns, to the pool or to the client.
LEMMA ReturnStep ==
    ASSUME IInv, Running, NEW result, Return(result), result.response \in Response,
           result.kind \in {"ok", "timeout", "constraint", "internal"}
    PROVE  IInv'
<1>1. CASE Pooled
  BY <1>1, RecordStep DEF Return
<1>2. CASE ~Pooled
  BY <1>2, AnswerAlone DEF IInv, Phases, Entered, Kinds, Return
<1> QED
  BY <1>1, <1>2

\* The results there are.
LEMMA ResultsTyped ==
    /\ \A response \in Responses : Ok(response).response \in Response /\ Ok(response).kind = "ok"
    /\ \A kind : Error(kind).response \in Response /\ Error(kind).kind = kind
    /\ Ok(EmptyResponse).response \in Response /\ Ok(EmptyResponse).kind = "ok"
<1>1. EmptyResponse \in Response
  BY DEF EmptyResponse, Response
<1>2. Responses \subseteq Response
  BY DispatchAssumption DEF DispatchAssumption, Response
<1> QED
  BY <1>1, <1>2 DEF Ok, Error

\* A solve is refused, finds nothing to place, or is partitioned.
LEMMA PrepareFailsStep == IInv /\ PrepareFails => IInv'
  BY ReturnStep, ResultsTyped DEF PrepareFails, Running

\* A request none of whose parts fits a sheet is answered at once.
LEMMA NothingToPlaceStep == IInv /\ NothingToPlace => IInv'
  BY ReturnStep, ResultsTyped DEF NothingToPlace, Running

\* Dense-first peeling answers in place of the search.
LEMMA PartitionStep == IInv /\ Partition => IInv'
<1> SUFFICES ASSUME IInv, Partition PROVE IInv'
  OBVIOUS
<1>1. Running
  BY DEF Partition, Solvable, Running
<1>2. CASE \E response \in Responses : Return(Ok(response))
  BY <1>1, <1>2, ReturnStep, ResultsTyped
<1>3. CASE Return(Error("internal"))
  BY <1>1, <1>3, ReturnStep, ResultsTyped
<1>4. CASE pc' = "search" /\ UNCHANGED <<request, pool, answer>>
  BY <1>1, <1>4, Onwards
<1> QED
  BY <1>2, <1>3, <1>4 DEF Partition

\* A search starts, and returns.
LEMMA StartSearchStep == IInv /\ StartSearch => IInv'
  BY Onwards DEF StartSearch, Solvable, Running

\* Whatever a search comes back with, the invariant is kept.
LEMMA SearchReturnsStep == IInv /\ SearchReturns => IInv'
<1> SUFFICES ASSUME IInv, SearchReturns PROVE IInv'
  OBVIOUS
<1>1. Running
  BY DEF SearchReturns, Running
<1>2. PICK result \in Results : Return(result)
  BY DEF SearchReturns
<1>3. result.response \in Response /\ result.kind \in {"ok", "timeout", "constraint", "internal"}
  BY <1>2, ResultsTyped DEF Results
<1> QED
  BY <1>1, <1>2, <1>3, ReturnStep

\* A request without a pool is solved once.
LEMMA SolveAloneStep == IInv /\ SolveAlone => IInv'
  BY Onwards DEF SolveAlone

\* The pool has nothing to choose from.
LEMMA PoolFailsStep == IInv /\ PoolFails => IInv'
<1> SUFFICES ASSUME IInv, PoolFails PROVE IInv'
  OBVIOUS
<1> USE DEF PoolFails, Answer, pool
<1>1. Pooled /\ Counted /\ Entered /\ ~Running /\ stage = "base" /\ candidates = <<>>
  BY DEF IInv, Phases, Running, Entered
<1>2. timedOut \in Nat /\ lastError.kind \in {"none", "constraint", "internal"}
  BY DEF IInv, TypeOK
<1>3. answer'.kind \in Kinds /\ (answer'.kind = "timeout" <=> timedOut > 0)
  BY <1>2 DEF Error, Kinds
<1>4. TypeOK'
  BY <1>3 DEF IInv, TypeOK
<1>5. ~Running' /\ Entered' /\ Pooled' /\ Counted' /\ ~Won'
  BY <1>1, SameRequest, SamePlan DEF Running, Won, Counted
<1>6. Phases'
  BY <1>5, <1>1 DEF IInv, Phases, Running
<1>7. Marks'
  BY <1>1 DEF Marks
<1>8. PoolErrorMeansNothing'
  BY <1>1, <1>3 DEF PoolErrorMeansNothing
<1> QED
  BY <1>1, <1>4, <1>6, <1>7, <1>8, NothingWon DEF IInv

\* The base stage ends with a provisional winner.
LEMMA BaseDoneStep == IInv /\ BaseDone => IInv'
<1> SUFFICES ASSUME IInv, BaseDone PROVE IInv'
  OBVIOUS
<1> USE DEF BaseDone
<1> DEFINE w == WinnerIdx(candidates, DropOf(PoolBlock), {})
<1>1. Pooled /\ Counted /\ Entered /\ ~Running /\ request \in Requests
  BY DEF IInv, Phases, Running, Entered
<1>2. candidates \in Seq(Candidates) /\ timedOut \in Nat /\ failed \in Nat /\ Len(candidates) \in Nat
  BY DEF IInv, TypeOK
<1>3. DropOf(PoolBlock) \in Nat
  BY <1>1, EnteredBlock, WindowOf
<1>4. /\ w \in DOMAIN candidates
      /\ \A j \in DOMAIN candidates : candidates[j].sheets = candidates[w].sheets
             => candidates[w].lead + DropOf(PoolBlock) >= candidates[j].lead
  BY <1>2, <1>3, BaseWinner
<1>5. provisional' = candidates[w] /\ candidates' = candidates /\ \A j \in DOMAIN candidates : ~candidates[j].isRescue
  BY DEF IInv, Marks
<1> HIDE DEF w
<1>6. ~Running' /\ ~Won' /\ Pooled' /\ Entered' /\ (stage = "rescue")' = TRUE
  BY <1>1, SameRequest DEF Running, Won
<1>7. todo' = IF Triggered(PoolBlock, provisional') THEN RescueTasks(PoolBlock) ELSE <<>>
  OBVIOUS
<1>8. todo' \in Seq(Tasks(TRUE))
  <2>1. RescueTasks(PoolBlock) \in Seq(Tasks(TRUE))
    BY <1>1, EnteredBlock, RescueRuns
  <2>2. <<>> \in Seq(Tasks(TRUE))
    OBVIOUS
  <2> QED
    BY <1>7, <2>1, <2>2
<1>9. Counted'
  <2>1. 0 + 0 + Len(candidates) + timedOut + failed = Len(BaseTasks(PoolBlock)) + 0
    BY <1>1 DEF Counted, Planned
  <2>2. Len(BaseTasks(PoolBlock)) \in Nat /\ Len(RescueTasks(PoolBlock)) \in Nat
    BY <1>1, EnteredBlock, BaseRuns, RescueRuns
  <2>3. \A b, r, c, t, f \in Nat : 0 + 0 + c + t + f = b + 0 => r + 0 + c + t + f = b + r /\ 0 + 0 + c + t + f = b + 0
    OBVIOUS
  <2>4. CASE Triggered(PoolBlock, provisional')
    <3>1. Planned' = Len(BaseTasks(PoolBlock)) + Len(RescueTasks(PoolBlock)) /\ todo' = RescueTasks(PoolBlock)
      BY <1>6, <1>7, <2>4, SameRequest DEF Planned
    <3>2. Len(todo') + 0 + Len(candidates') + timedOut' + failed' = Planned'
      BY <1>2, <2>1, <2>2, <2>3, <3>1
    <3> QED
      BY <1>6, <3>2 DEF Counted
  <2>5. CASE ~Triggered(PoolBlock, provisional')
    <3>1. Planned' = Len(BaseTasks(PoolBlock)) + 0 /\ todo' = <<>> /\ Len(todo') = 0
      BY <1>6, <1>7, <2>5, SameRequest DEF Planned
    <3>2. Len(todo') + 0 + Len(candidates') + timedOut' + failed' = Planned'
      BY <1>2, <2>1, <3>1
    <3> QED
      BY <1>6, <3>2 DEF Counted
  <2> QED
    BY <2>4, <2>5
<1>10. TypeOK'
  <2>1. todo' \in Seq(Tasks((stage = "rescue")')) /\ candidates' \in Seq(Candidates) /\ timedOut' \in Nat /\ failed' \in Nat
    BY <1>2, <1>6, <1>8
  <2>2. Len(todo') + Len(candidates') + timedOut' + failed' <= 8 + 8 * 9
    BY <1>1, <1>9, <2>1, WithinLists
  <2> QED
    BY <2>1, <2>2 DEF IInv, TypeOK
<1>11. Phases'
  BY <1>1, <1>6, <1>9 DEF IInv, Phases, Running, Entered
<1>12. Marks'
  BY <1>4, <1>5, SameRequest DEF Marks
<1> QED
  BY <1>10, <1>11, <1>12, NothingWon DEF IInv

\* The pool answers with its winner.
LEMMA PickWinnerStep == IInv /\ PickWinner => IInv'
<1> SUFFICES ASSUME IInv, PickWinner PROVE IInv'
  OBVIOUS
<1> USE DEF PickWinner, Answer, pool
<1> DEFINE drop == DropOf(PoolBlock)
           guard == AcceptCornerOf(PoolBlock)
           w == WinnerIdx(candidates, drop, guard)
<1>1. Pooled /\ Counted /\ Entered /\ ~Running /\ request \in Requests /\ stage = "rescue"
  BY DEF IInv, Phases, Running, Entered
<1>2. candidates \in Seq(Candidates) /\ drop \in Nat
  BY <1>1, EnteredBlock, WindowOf DEF IInv, TypeOK
<1>3. PICK p \in DOMAIN candidates :
               /\ provisional = candidates[p] /\ ~candidates[p].isRescue
               /\ \A j \in DOMAIN candidates : ~candidates[j].isRescue /\ candidates[j].sheets = provisional.sheets
                      => provisional.lead + drop >= candidates[j].lead
  BY <1>1 DEF IInv, Marks
<1> HIDE DEF drop, guard
<1>4. p \in Kept(guard)
  BY <1>3 DEF Kept, Rejected
<1>5. /\ w \in Kept(guard)
      /\ \A j \in Kept(guard) :
             /\ candidates[w].sheets <= candidates[j].sheets
             /\ candidates[j].sheets = candidates[w].sheets /\ candidates[j].lead >= candidates[w].lead
                    => ~BetterCandidate(candidates[j], candidates[w])
             /\ candidates[j].sheets = candidates[w].sheets /\ BetterCandidate(candidates[j], candidates[w])
                    => \E i \in Kept(guard) : /\ candidates[i].sheets = candidates[w].sheets
                                              /\ candidates[i].lead > candidates[j].lead + drop
  BY <1>2, <1>4, FinalWinner
<1>6. answer' = Ok(candidates[w]) /\ Winner' = candidates[w] /\ answer'.kind = "ok" /\ w \in DOMAIN candidates
  BY <1>5 DEF Winner, Ok, Kept, drop, guard
<1> HIDE DEF w
<1>7. \A i : i \in DOMAIN candidates' /\ Acceptable(i)' <=> i \in Kept(guard)
  BY SameRequest DEF Acceptable, guard, Kept
<1>8. Won'
  BY <1>1 DEF Won
<1>9. WinnerIsBest'
  BY <1>5, <1>6, <1>7 DEF WinnerIsBest
<1>10. RescueNeverHurts'
  <2>1. candidates[w].sheets <= provisional.sheets
    BY <1>3, <1>4, <1>5
  <2>2. ASSUME BetterCandidate(provisional, candidates[w])
        PROVE  \E i \in DOMAIN candidates : /\ i \in Kept(guard) /\ candidates[i].isRescue
                                            /\ candidates[i].sheets = candidates[w].sheets
                                            /\ candidates[i].lead > provisional.lead + drop
    <3>1. candidates[w] \in Candidates /\ provisional \in Candidates
      BY <1>2, <1>3, <1>6
    <3>2. provisional.sheets <= candidates[w].sheets
      BY <2>2, <3>1, BetterOrder
    <3>3. provisional.sheets = candidates[w].sheets
      BY <2>1, <3>1, <3>2, Measures
    <3>4. PICK i \in Kept(guard) : /\ candidates[i].sheets = candidates[w].sheets
                                   /\ candidates[i].lead > provisional.lead + drop
      BY <1>3, <1>4, <1>5, <2>2, <3>3
    <3>5. i \in DOMAIN candidates /\ candidates[i] \in Candidates
      BY <1>2, <3>4 DEF Kept
    <3>6. candidates[i].lead \in Nat /\ provisional.lead \in Nat
      BY <3>1, <3>5, Measures
    <3>7. candidates[i].isRescue
      BY <1>3, <3>3, <3>4, <3>5, <1>2, <3>6
    <3> QED
      BY <3>4, <3>5, <3>7
  <2>3. drop' = drop /\ DropOf(PoolBlock)' = drop
    BY SameRequest DEF drop
  <2> QED
    BY <1>6, <1>7, <2>1, <2>2, <2>3 DEF RescueNeverHurts
<1>11. TypeOK'
  BY <1>6 DEF IInv, TypeOK, Kinds
<1>12. Phases'
  BY <1>1, SameRequest, SamePlan DEF Running, Counted, IInv, Phases
<1>13. Marks'
  BY SameRequest DEF IInv, Marks
<1>14. PoolErrorMeansNothing'
  BY <1>6 DEF PoolErrorMeansNothing
<1> QED
  BY <1>9, <1>10, <1>11, <1>12, <1>13, <1>14 DEF IInv, PoolChoosesWell

\* The invariant holds in every state of every request.
THEOREM Invariance == Spec => []IInv
<1>1. IInv /\ [Next]_vars => IInv'
  <2> SUFFICES ASSUME IInv, [Next]_vars PROVE IInv'
    OBVIOUS
  <2>1. CASE UNCHANGED vars
    <3>1. UNCHANGED <<request, pool, answer, pc>>
      BY <2>1 DEF vars
    <3>2. Planned' = Planned /\ Running' = Running /\ Won' = Won /\ Accepted' = Accepted
      BY <3>1, SamePlan DEF pool, Running, Won, Accepted
    <3>3. Phases'
      BY <3>1, <3>2, SameRequest DEF IInv, Phases, pool, Untouched, Counted
    <3>4. TypeOK' /\ Marks'
      BY <3>1, SameRequest DEF IInv, TypeOK, Marks, pool
    <3>5. PoolErrorMeansNothing'
      BY <3>1, SameRequest DEF IInv, PoolErrorMeansNothing, pool
    <3>6. PoolChoosesWell'
      BY <3>1, <3>2, SameRequest DEF IInv, PoolChoosesWell, WinnerIsBest, RescueNeverHurts, Winner, Acceptable, pool
    <3> QED
      BY <3>3, <3>4, <3>5, <3>6 DEF IInv
  <2>2. CASE Next
    BY <2>1, <2>2, RejectStep, VacuumStep, EnterPoolStep, SolveAloneStep, PrepareFailsStep, NothingToPlaceStep,
       PartitionStep, StartSearchStep, SearchReturnsStep, StartCandidateStep, PoolFailsStep, BaseDoneStep,
       PickWinnerStep DEF Next, Done
  <2> QED
    BY <2>1, <2>2
<1> QED
  BY InitInv, <1>1, PTL DEF Spec

\* The state of a request is well-typed, and its pool plans no more runs than
\* its lists allow.
THEOREM TypeCorrect == Spec => []TypeOK
<1>1. IInv => TypeOK
  BY DEF IInv
<1> QED
  BY <1>1, Invariance, PTL

\* The pool answers with a candidate the guard leaves, on as few sheets as any,
\* and better than any as full; and no rescue makes its answer worse than the
\* base stage's, but for a fuller sheet.
THEOREM ChoosesWell == Spec => []PoolChoosesWell
<1>1. IInv => PoolChoosesWell
  BY DEF IInv
<1> QED
  BY <1>1, Invariance, PTL

\* Every run of a pool is counted once, and the pool answers with an error only
\* if it has no candidate.
THEOREM AccountsAddUp == Spec => []PoolAccounts
<1>1. IInv => PoolAccounts
  <2> SUFFICES ASSUME IInv, Won PROVE PoolCountsAddUp
    BY DEF IInv, PoolAccounts, PoolCountsAddUp
  <2>1. todo = <<>> /\ Counted /\ ~Running /\ stage = "rescue"
    BY DEF IInv, Phases, Won, Untouched, Running
  <2>2. Len(candidates) \in Nat /\ timedOut \in Nat /\ failed \in Nat
    BY DEF IInv, TypeOK
  <2>3. \A c, t, f \in Nat : 0 + 0 + c + t + f = c + t + f
    OBVIOUS
  <2>4. Len(todo) = 0
    BY <2>1
  <2>5. 0 + 0 + Len(candidates) + timedOut + failed = Planned
    BY <2>1, <2>4 DEF Counted
  <2>6. Len(candidates) + timedOut + failed = Planned
    BY <2>2, <2>3, <2>5
  <2> QED
    BY <2>1, <2>6 DEF PoolCountsAddUp, Planned
<1> QED
  BY <1>1, Invariance, PTL

-----------------------------------------------------------------------------
(* What reaches a search                                                   *)

\* What a block that is valid and switched on holds is allowed.
LEMMA ValidBlock ==
    ASSUME Verdict(request) = "ok", NEW name \in DOMAIN Allowed, On(name)
    PROVE  \A field \in DOMAIN Block(name) \cap DOMAIN Allowed[name] : Block(name)[field] \in Allowed[name][field]
<1>1. BlocksValid(request.blocks)
  BY DEF Verdict
<1>2. name \in DOMAIN request.blocks /\ Block(name) = request.blocks[name] /\ Enabled(Block(name))
  BY DEF On, Has, Block, Value
<1> QED
  BY <1>1, <1>2 DEF BlocksValid, BlockValid

\* The fields of a block are numbers, whether anybody has looked at it or not.
LEMMA Numbers ==
    ASSUME request \in Requests, NEW name \in DOMAIN Allowed, NEW field \in DOMAIN Allowed[name], NEW default \in Int
    PROVE  Value(Block(name), field, default) \in Int
<1>1. CASE Has(request.blocks, name)
  BY <1>1, RequestsAssumption DEF Block, Value, Has, RequestsAssumption
<1>2. CASE ~Has(request.blocks, name)
  BY <1>2 DEF Block, Value, Has
<1> QED
  BY <1>1, <1>2

\* What is given stays within the range it was given in.
LEMMA GivenOrDefault ==
    ASSUME NEW block, NEW field, NEW default, NEW S, default \in S, Has(block, field) => block[field] \in S
    PROVE  Value(block, field, default) \in S /\ (Has(block, field) => Value(block, field, default) = block[field])
  BY DEF Value

\* The built-in profiles are in range.
GaInRange(profile) ==
    /\ profile.epochs \in 1..2000 /\ profile.breed_factor \in PositiveFractions
    /\ profile.survival_factor \in Fractions /\ profile.top_k_candidates \in 1..64

\* The presets of the genetic algorithm are within its ranges.
LEMMA ProfilesInRange ==
    ASSUME NEW name \in {"fast", "balanced", "quality"}
    PROVE  GaInRange(GaProfiles[name])
<1> DEFINE f == [epochs |-> 60, breed_factor |-> 4500, survival_factor |-> 5000, top_k_candidates |-> 3]
           b == [epochs |-> 100, breed_factor |-> 5000, survival_factor |-> 6000, top_k_candidates |-> 6]
           q == [epochs |-> 180, breed_factor |-> 5500, survival_factor |-> 7000, top_k_candidates |-> 12]
<1>1. GaInRange(f) /\ GaInRange(b) /\ GaInRange(q)
  BY DEF GaInRange, Fractions, PositiveFractions, One
<1>2. GaProfiles = [fast |-> f, balanced |-> b, quality |-> q]
  BY DEF GaProfiles
<1> HIDE DEF f, b, q
<1>3. GaProfiles["fast"] = f /\ GaProfiles["balanced"] = b /\ GaProfiles["quality"] = q
  BY <1>2
<1>4. CASE name = "fast"
  BY <1>1, <1>3, <1>4
<1>5. CASE name = "balanced"
  BY <1>1, <1>3, <1>5
<1>6. CASE name = "quality"
  BY <1>1, <1>3, <1>6
<1> QED
  BY <1>4, <1>5, <1>6

\* An override that is given was looked at: it has no switch.
LEMMA OverrideInRange ==
    ASSUME request \in Requests, Verdict(request) = "ok",
           NEW field \in DOMAIN Allowed["ga_override"], NEW default \in Allowed["ga_override"][field]
    PROVE  Value(Block("ga_override"), field, default) \in Allowed["ga_override"][field]
<1> DEFINE override == Block("ga_override")
           S == Allowed["ga_override"][field]
<1>1. "ga_override" \in DOMAIN Allowed
  BY DEF Allowed
<1>2. ASSUME Has(override, field) PROVE override[field] \in S
  <2>1. CASE Has(request.blocks, "ga_override")
    <3>1. ~Has(request.blocks["ga_override"], "enabled")
      BY <2>1, RequestsAssumption DEF RequestsAssumption
    <3>2. On("ga_override")
      BY <2>1, <3>1 DEF On, Enabled, Value
    <3> QED
      BY <1>1, <1>2, <3>2, ValidBlock DEF Has
  <2>2. CASE ~Has(request.blocks, "ga_override")
    BY <2>2, <1>2 DEF Block, Value, Has
  <2> QED
    BY <2>1, <2>2
<1>3. default \in S
  OBVIOUS
<1> HIDE DEF override, S
<1>4. Value(override, field, default) \in S
  BY <1>2, <1>3, GivenOrDefault
<1> QED
  BY <1>4 DEF override, S

\* Nor does the pool's own penalty leave its range.
LEMMA FillPenaltyInRange ==
    ASSUME Pooled, Verdict(request) = "ok", NEW default \in Fractions
    PROVE  Value(Block("profile_pool"), "fill_penalty", default) \in Fractions
<1>1. /\ Allowed["profile_pool"]["fill_penalty"] = Fractions
      /\ "fill_penalty" \in DOMAIN Allowed["profile_pool"] /\ "profile_pool" \in DOMAIN Allowed
  BY DEF Allowed
<1>2. On("profile_pool")
  BY DEF Pooled
<1>3. Has(Block("profile_pool"), "fill_penalty") => Block("profile_pool")["fill_penalty"] \in Fractions
  BY <1>1, <1>2, ValidBlock DEF Has
<1> QED
  BY <1>3, GivenOrDefault

\* A genetic search evolves at least once, and from a part of its population.
LEMMA SafeGa ==
    ASSUME IInv, pc = "await"
    PROVE  \A field \in DOMAIN GaParameters : GaParameters[field] \in Allowed["ga_override"][field]
<1> DEFINE override == Block("ga_override")
           name == Value(request.options, "ga_profile", "balanced")
           profile == GaProfiles[name]
           allowed == Allowed["ga_override"]
           epochs == Value(override, "epochs", profile.epochs)
           breed == Value(override, "breed_factor", profile.breed_factor)
           survival == Value(override, "survival_factor", profile.survival_factor)
           topK == Value(override, "top_k_candidates", profile.top_k_candidates)
           zone == Value(override, "zone_penalty", 3000)
           fill == Value(override, "fill_penalty", 1000)
           poolFill == Value(Block("profile_pool"), "fill_penalty", fill)
<1>1. request \in Requests /\ Verdict(request) = "ok" /\ (Pooled => task \in Tasks(stage = "rescue"))
  BY DEF IInv, Phases, Running
<1>2. allowed = [epochs |-> 1..2000, breed_factor |-> PositiveFractions,
                 survival_factor |-> Fractions, top_k_candidates |-> 1..64,
                 zone_penalty |-> Fractions, fill_penalty |-> Fractions]
  BY DEF Allowed
<1>3. /\ DOMAIN allowed = {"epochs", "breed_factor", "survival_factor", "top_k_candidates", "zone_penalty", "fill_penalty"}
      /\ allowed["epochs"] = 1..2000 /\ allowed["breed_factor"] = PositiveFractions
      /\ allowed["survival_factor"] = Fractions /\ allowed["top_k_candidates"] = 1..64
      /\ allowed["zone_penalty"] = Fractions /\ allowed["fill_penalty"] = Fractions
  BY <1>2
<1>4. name \in {"fast", "balanced", "quality"}
  BY <1>1, RequestsAssumption DEF RequestsAssumption
<1>5. /\ profile.epochs \in 1..2000 /\ profile.breed_factor \in PositiveFractions
      /\ profile.survival_factor \in Fractions /\ profile.top_k_candidates \in 1..64
  <2>1. GaInRange(profile)
    BY <1>4, ProfilesInRange, Zenon
  <2> HIDE DEF profile
  <2> QED
    BY <2>1 DEF GaInRange
<1> HIDE DEF profile
<1>6. epochs \in 1..2000
  BY <1>1, <1>3, <1>5, OverrideInRange, SMTT(30)
<1>7. breed \in PositiveFractions
  BY <1>1, <1>3, <1>5, OverrideInRange, SMTT(30)
<1>8. survival \in Fractions
  BY <1>1, <1>3, <1>5, OverrideInRange, SMTT(30)
<1>9. topK \in 1..64
  BY <1>1, <1>3, <1>5, OverrideInRange, SMTT(30)
<1>10. zone \in Fractions
  <2>1. 3000 \in Fractions
    BY DEF Fractions, One
  <2> QED
    BY <1>1, <1>3, <2>1, OverrideInRange
<1>11. fill \in Fractions
  <2>1. 1000 \in Fractions
    BY DEF Fractions, One
  <2> QED
    BY <1>1, <1>3, <2>1, OverrideInRange
<1>12. Pooled => poolFill \in Fractions /\ task.zonePenalty \in Fractions
  BY <1>1, <1>11, FillPenaltyInRange DEF Tasks
<1> DEFINE ga == GaParameters
<1>13. ga = [epochs |-> Larger(1, epochs), breed_factor |-> Clamp(breed, 1, One),
             survival_factor |-> Clamp(survival, 0, One), top_k_candidates |-> Larger(1, topK),
             zone_penalty |-> IF Pooled THEN task.zonePenalty ELSE zone,
             fill_penalty |-> IF Pooled THEN poolFill ELSE fill]
  BY DEF GaParameters, profile
<1> HIDE DEF ga, epochs, breed, survival, topK, zone, fill, poolFill, allowed
<1>14. Larger(1, epochs) \in 1..2000
  BY <1>6 DEF Larger
<1>15. Larger(1, topK) \in 1..64
  BY <1>9 DEF Larger
<1>16. Clamp(breed, 1, One) \in PositiveFractions
  <2> SUFFICES ASSUME NEW n \in PositiveFractions PROVE Clamp(n, 1, One) \in PositiveFractions
    BY <1>7
  <2> QED
    BY DEF Clamp, Larger, Smaller, PositiveFractions, One
<1>17. Clamp(survival, 0, One) \in Fractions
  BY <1>8 DEF Clamp, Larger, Smaller, Fractions, One
<1>18. /\ ga["epochs"] \in 1..2000 /\ ga["breed_factor"] \in PositiveFractions
       /\ ga["survival_factor"] \in Fractions /\ ga["top_k_candidates"] \in 1..64
       /\ DOMAIN ga = DOMAIN allowed
  BY <1>3, <1>13, <1>14, <1>15, <1>16, <1>17
<1>19. ga["zone_penalty"] \in Fractions /\ ga["fill_penalty"] \in Fractions
  BY <1>10, <1>11, <1>12, <1>13
<1>20. \A field \in DOMAIN ga : ga[field] \in allowed[field]
  BY <1>18, <1>3, <1>19
<1> QED
  BY <1>20 DEF ga, allowed

\* A field that is clamped is allowed, and is the client's where it was checked.
LEMMA ClampedField ==
    ASSUME request \in Requests, Verdict(request) = "ok",
           NEW name \in DOMAIN Allowed, NEW field \in DOMAIN Allowed[name], NEW default \in Int,
           NEW hi \in Nat, hi >= 1, Allowed[name][field] = 1..hi
    PROVE  LET c == Clamp(Value(Block(name), field, default), 1, hi)
           IN /\ c \in Allowed[name][field]
              /\ On(name) /\ Has(Block(name), field) => c = Block(name)[field]
<1> DEFINE v == Value(Block(name), field, default)
<1>1. v \in Int
  BY Numbers
<1>2. On(name) /\ Has(Block(name), field) => v = Block(name)[field] /\ v \in 1..hi
  BY ValidBlock DEF Value, Has
<1> HIDE DEF v
<1>3. Clamp(v, 1, hi) \in 1..hi /\ (v \in 1..hi => Clamp(v, 1, hi) = v)
  BY <1>1 DEF Clamp, Larger, Smaller
<1> QED
  BY <1>2, <1>3 DEF v

\* And so is one that is only kept from being too small.
LEMMA LeastField ==
    ASSUME request \in Requests, Verdict(request) = "ok",
           NEW name \in DOMAIN Allowed, NEW field \in DOMAIN Allowed[name], NEW default \in Int,
           NEW lo \in Nat, Allowed[name][field] = AtLeast(lo)
    PROVE  LET c == Larger(Value(Block(name), field, default), lo)
           IN /\ c \in Allowed[name][field]
              /\ On(name) /\ Has(Block(name), field) => c = Block(name)[field]
<1> DEFINE v == Value(Block(name), field, default)
<1>1. v \in Int
  BY Numbers
<1>2. On(name) /\ Has(Block(name), field) => v = Block(name)[field] /\ v \in AtLeast(lo)
  BY ValidBlock DEF Value, Has
<1> HIDE DEF v
<1>3. Larger(v, lo) \in AtLeast(lo) /\ (v \in AtLeast(lo) => Larger(v, lo) = v)
  BY <1>1 DEF Larger, AtLeast
<1> QED
  BY <1>2, <1>3 DEF v

\* The parameters of a search are allowed, and those of the client kept.
Safe(search, parameters) ==
    \A field \in DOMAIN Allowed[search] : parameters[field] \in Allowed[search][field]
Honoured(search, parameters) ==
    On(search) => \A field \in DOMAIN Block(search) \cap DOMAIN Allowed[search] :
                      \/ parameters[field] = Block(search)[field]
                      \/ field = "temperature_end" /\ ~Has(Block(search), "temperature_start")

\* The time limit is a number.
LEMMA TimeLimitTyped ==
    ASSUME request \in Requests
    PROVE  TimeLimit \in Int /\ RestartsRequested \in Int /\ RestartsRequested >= 1
<1>1. DefaultTimeLimit \in Int /\ DefaultRestarts \in Int
  BY DispatchAssumption DEF DispatchAssumption
<1>2. TimeLimit \in Int /\ Value(request.options, "restarts", DefaultRestarts) \in Int
  BY <1>1, RequestsAssumption DEF RequestsAssumption, TimeLimit, Value
<1> QED
  BY <1>2 DEF RestartsRequested, Larger

\* What the portfolio search is called with is safe, and as the client asked.
LEMMA PortfolioRight ==
    ASSUME request \in Requests, Verdict(request) = "ok"
    PROVE  Safe("portfolio", PortfolioParameters) /\ Honoured("portfolio", PortfolioParameters)
<1> DEFINE block == Block("portfolio")
           p == PortfolioParameters
<1>1. "portfolio" \in DOMAIN Allowed
  BY DEF Allowed
<1>2. /\ DOMAIN Allowed["portfolio"] = {"deadline_ms", "candidate_count"}
      /\ Allowed["portfolio"]["deadline_ms"] = AtLeast(100) /\ Allowed["portfolio"]["candidate_count"] = 1..16
  BY DEF Allowed
<1>3. /\ p["deadline_ms"] = Larger(Value(block, "deadline_ms", TimeLimit), 100)
      /\ p["candidate_count"] = Clamp(Value(block, "candidate_count", 4), 1, 16)
  BY DEF PortfolioParameters, DeadlineOf
<1> HIDE DEF p
<1>4. /\ p["deadline_ms"] \in Allowed["portfolio"]["deadline_ms"]
      /\ On("portfolio") /\ Has(block, "deadline_ms") => p["deadline_ms"] = block["deadline_ms"]
  BY <1>1, <1>2, <1>3, TimeLimitTyped, LeastField
<1>5. /\ p["candidate_count"] \in Allowed["portfolio"]["candidate_count"]
      /\ On("portfolio") /\ Has(block, "candidate_count") => p["candidate_count"] = block["candidate_count"]
  <2> DEFINE hi == 16
             default == 4
  <2>1. hi \in Nat /\ hi >= 1 /\ Allowed["portfolio"]["candidate_count"] = 1..hi /\ "candidate_count" \in DOMAIN Allowed["portfolio"]
    BY <1>2
  <2>2. p["candidate_count"] = Clamp(Value(block, "candidate_count", default), 1, hi) /\ default \in Int
    BY <1>3
  <2> HIDE DEF hi, default
  <2> QED
    BY <1>1, <2>1, <2>2, ClampedField
<1>6. Safe("portfolio", p)
  BY <1>2, <1>4, <1>5 DEF Safe
<1>7. Honoured("portfolio", p)
  BY <1>2, <1>4, <1>5 DEF Honoured, Has
<1> QED
  BY <1>6, <1>7 DEF p

\* What the beam search is called with is safe, and as the client asked.
LEMMA BeamRight ==
    ASSUME request \in Requests, Verdict(request) = "ok"
    PROVE  Safe("beam", BeamParameters) /\ Honoured("beam", BeamParameters)
<1> DEFINE block == Block("beam")
           p == BeamParameters
<1>1. "beam" \in DOMAIN Allowed
  BY DEF Allowed
<1>2. /\ DOMAIN Allowed["beam"] = {"deadline_ms", "beam_width", "beam_depth", "branch_factor"}
      /\ Allowed["beam"]["deadline_ms"] = AtLeast(100) /\ Allowed["beam"]["beam_width"] = 1..8
      /\ Allowed["beam"]["beam_depth"] = 1..8 /\ Allowed["beam"]["branch_factor"] = 1..8
  BY DEF Allowed
<1>3. /\ p["deadline_ms"] = Larger(Value(block, "deadline_ms", TimeLimit), 100)
      /\ p["beam_width"] = Clamp(Value(block, "beam_width", 2), 1, 8)
      /\ p["beam_depth"] = Clamp(Value(block, "beam_depth", 2), 1, 8)
      /\ p["branch_factor"] = Clamp(Value(block, "branch_factor", 2), 1, 8)
  BY DEF BeamParameters, DeadlineOf
<1> HIDE DEF p
<1>4. /\ p["deadline_ms"] \in Allowed["beam"]["deadline_ms"]
      /\ On("beam") /\ Has(block, "deadline_ms") => p["deadline_ms"] = block["deadline_ms"]
  BY <1>1, <1>2, <1>3, TimeLimitTyped, LeastField
<1>5. /\ p["beam_width"] \in Allowed["beam"]["beam_width"]
      /\ On("beam") /\ Has(block, "beam_width") => p["beam_width"] = block["beam_width"]
  <2> DEFINE hi == 8
             default == 2
  <2>1. hi \in Nat /\ hi >= 1 /\ Allowed["beam"]["beam_width"] = 1..hi /\ "beam_width" \in DOMAIN Allowed["beam"]
    BY <1>2
  <2>2. p["beam_width"] = Clamp(Value(block, "beam_width", default), 1, hi) /\ default \in Int
    BY <1>3
  <2> HIDE DEF hi, default
  <2> QED
    BY <1>1, <2>1, <2>2, ClampedField
<1>6. /\ p["beam_depth"] \in Allowed["beam"]["beam_depth"]
      /\ On("beam") /\ Has(block, "beam_depth") => p["beam_depth"] = block["beam_depth"]
  <2> DEFINE hi == 8
             default == 2
  <2>1. hi \in Nat /\ hi >= 1 /\ Allowed["beam"]["beam_depth"] = 1..hi /\ "beam_depth" \in DOMAIN Allowed["beam"]
    BY <1>2
  <2>2. p["beam_depth"] = Clamp(Value(block, "beam_depth", default), 1, hi) /\ default \in Int
    BY <1>3
  <2> HIDE DEF hi, default
  <2> QED
    BY <1>1, <2>1, <2>2, ClampedField
<1>7. /\ p["branch_factor"] \in Allowed["beam"]["branch_factor"]
      /\ On("beam") /\ Has(block, "branch_factor") => p["branch_factor"] = block["branch_factor"]
  <2> DEFINE hi == 8
             default == 2
  <2>1. hi \in Nat /\ hi >= 1 /\ Allowed["beam"]["branch_factor"] = 1..hi /\ "branch_factor" \in DOMAIN Allowed["beam"]
    BY <1>2
  <2>2. p["branch_factor"] = Clamp(Value(block, "branch_factor", default), 1, hi) /\ default \in Int
    BY <1>3
  <2> HIDE DEF hi, default
  <2> QED
    BY <1>1, <2>1, <2>2, ClampedField
<1>8. Safe("beam", p)
  BY <1>2, <1>4, <1>5, <1>6, <1>7 DEF Safe
<1>9. Honoured("beam", p)
  BY <1>2, <1>4, <1>5, <1>6, <1>7 DEF Honoured, Has
<1> QED
  BY <1>8, <1>9 DEF p

\* ALNS also starts no colder than it ends.
LEMMA AlnsRight ==
    ASSUME request \in Requests, Verdict(request) = "ok"
    PROVE  /\ Safe("alns", AlnsParameters) /\ Honoured("alns", AlnsParameters)
           /\ AlnsParameters.temperature_end <= AlnsParameters.temperature_start
<1> DEFINE block == Block("alns")
           p == AlnsParameters
           start == Larger(Value(block, "temperature_start", One), 1)
           end == Larger(Value(block, "temperature_end", 1200), 1)
<1>1. "alns" \in DOMAIN Allowed
  BY DEF Allowed
<1>2. /\ DOMAIN Allowed["alns"] = {"deadline_ms", "iterations", "segment_size", "temperature_start", "temperature_end",
                                   "reaction_factor"}
      /\ Allowed["alns"]["deadline_ms"] = AtLeast(100) /\ Allowed["alns"]["iterations"] = 1..512
      /\ Allowed["alns"]["segment_size"] = 1..64 /\ Allowed["alns"]["temperature_start"] = AtLeast(1)
      /\ Allowed["alns"]["temperature_end"] = AtLeast(1) /\ Allowed["alns"]["reaction_factor"] = 1..One
  BY DEF Allowed, PositiveFractions
<1>3. /\ p["deadline_ms"] = Larger(Value(block, "deadline_ms", TimeLimit), 100)
      /\ p["iterations"] = Clamp(Value(block, "iterations", 24), 1, 512)
      /\ p["segment_size"] = Clamp(Value(block, "segment_size", 6), 1, 64)
      /\ p["temperature_start"] = start
      /\ p["temperature_end"] = Smaller(end, start)
      /\ p["reaction_factor"] = Clamp(Value(block, "reaction_factor", 3000), 1, One)
  BY DEF AlnsParameters, DeadlineOf
<1> HIDE DEF p
<1>4. /\ p["deadline_ms"] \in Allowed["alns"]["deadline_ms"]
      /\ On("alns") /\ Has(block, "deadline_ms") => p["deadline_ms"] = block["deadline_ms"]
  BY <1>1, <1>2, <1>3, TimeLimitTyped, LeastField
<1>5. /\ p["iterations"] \in Allowed["alns"]["iterations"]
      /\ On("alns") /\ Has(block, "iterations") => p["iterations"] = block["iterations"]
  <2> DEFINE hi == 512
             default == 24
  <2>1. hi \in Nat /\ hi >= 1 /\ Allowed["alns"]["iterations"] = 1..hi /\ "iterations" \in DOMAIN Allowed["alns"]
    BY <1>2
  <2>2. p["iterations"] = Clamp(Value(block, "iterations", default), 1, hi) /\ default \in Int
    BY <1>3
  <2> HIDE DEF hi, default
  <2> QED
    BY <1>1, <2>1, <2>2, ClampedField
<1>6. /\ p["segment_size"] \in Allowed["alns"]["segment_size"]
      /\ On("alns") /\ Has(block, "segment_size") => p["segment_size"] = block["segment_size"]
  <2> DEFINE hi == 64
             default == 6
  <2>1. hi \in Nat /\ hi >= 1 /\ Allowed["alns"]["segment_size"] = 1..hi /\ "segment_size" \in DOMAIN Allowed["alns"]
    BY <1>2
  <2>2. p["segment_size"] = Clamp(Value(block, "segment_size", default), 1, hi) /\ default \in Int
    BY <1>3
  <2> HIDE DEF hi, default
  <2> QED
    BY <1>1, <2>1, <2>2, ClampedField
<1>7. One \in Nat /\ One >= 1
  BY DEF One
<1>8. /\ p["reaction_factor"] \in Allowed["alns"]["reaction_factor"]
      /\ On("alns") /\ Has(block, "reaction_factor") => p["reaction_factor"] = block["reaction_factor"]
  BY <1>1, <1>2, <1>3, <1>7, ClampedField
<1>9. /\ start \in AtLeast(1)
      /\ On("alns") /\ Has(block, "temperature_start") => start = block["temperature_start"]
  BY <1>1, <1>2, <1>7, LeastField
<1>10. /\ end \in AtLeast(1)
       /\ On("alns") /\ Has(block, "temperature_end") => end = block["temperature_end"]
  BY <1>1, <1>2, LeastField
<1>11. On("alns") /\ Has(block, "temperature_start") /\ Has(block, "temperature_end")
          => block["temperature_end"] <= block["temperature_start"]
  BY DEF Verdict, On, Block, Value, BlocksValid, TemperaturesFall
<1> HIDE DEF start, end
<1>12. /\ Smaller(end, start) \in AtLeast(1) /\ Smaller(end, start) <= start
       /\ end <= start => Smaller(end, start) = end
  BY <1>9, <1>10 DEF Smaller, AtLeast
<1>13. Safe("alns", p)
  <2>1. p["temperature_start"] \in AtLeast(1) /\ p["temperature_end"] \in AtLeast(1)
    BY <1>3, <1>9, <1>12
  <2> SUFFICES ASSUME NEW field \in DOMAIN Allowed["alns"] PROVE p[field] \in Allowed["alns"][field]
    BY DEF Safe
  <2>2. CASE field \in {"temperature_start", "temperature_end"}
    BY <1>2, <2>1, <2>2
  <2>3. CASE field \in {"deadline_ms", "iterations", "segment_size", "reaction_factor"}
    BY <1>4, <1>5, <1>6, <1>8, <2>3
  <2> QED
    BY <1>2, <2>2, <2>3
<1>14. ASSUME On("alns"), Has(block, "temperature_end"), Has(block, "temperature_start")
       PROVE  p["temperature_end"] = block["temperature_end"]
  BY <1>3, <1>9, <1>10, <1>11, <1>12, <1>14
<1>15. Honoured("alns", p)
  <2> SUFFICES ASSUME On("alns"), NEW field \in DOMAIN block \cap DOMAIN Allowed["alns"]
               PROVE  \/ p[field] = block[field]
                      \/ field = "temperature_end" /\ ~Has(block, "temperature_start")
    BY DEF Honoured
  <2>1. Has(block, field)
    BY DEF Has
  <2>2. CASE field = "temperature_end"
    BY <1>14, <2>1, <2>2
  <2>3. CASE field = "temperature_start"
    BY <1>3, <1>9, <2>1, <2>3
  <2>4. CASE field \in {"deadline_ms", "iterations", "segment_size", "reaction_factor"}
    BY <1>4, <1>5, <1>6, <1>8, <2>1, <2>4
  <2> QED
    BY <1>2, <2>2, <2>3, <2>4
<1>16. p.temperature_end <= p.temperature_start
  BY <1>3, <1>12
<1> QED
  BY <1>13, <1>15, <1>16 DEF p

\* Which of the searches is called is told by its parameters.
LEMMA CalledParameters ==
    ASSUME request \in Requests
    PROVE  /\ Calling("portfolio") => Called.parameters = PortfolioParameters
           /\ Calling("beam") => Called.parameters = BeamParameters
           /\ Calling("alns") => Called.parameters = AlnsParameters
<1>1. /\ PortfolioParameters.search = "portfolio" /\ BeamParameters.search = "beam"
      /\ AlnsParameters.search = "alns" /\ RestartsParameters.search = "restarts"
  BY DEF PortfolioParameters, BeamParameters, AlnsParameters, RestartsParameters
<1>2. Called.parameters \in {PortfolioParameters, BeamParameters, AlnsParameters, RestartsParameters}
  BY DEF Called, Parameters
<1>3. \A search : Calling(search) => Called.parameters.search = search
  BY DEF Calling
<1> HIDE DEF Called
<1> QED
  BY <1>1, <1>2, <1>3

\* No search is called with a parameter it cannot take, no value of a block that
\* is on is replaced, and no solve has more instances than allowed.
THEOREM InputsRight == Spec => []SearchInputsRight
<1>1. IInv => SearchInputsRight
  <2> SUFFICES ASSUME IInv PROVE SearchInputsRight
    OBVIOUS
  <2>1. request \in Requests /\ (pc \notin {"received", "done"} => Verdict(request) = "ok")
    BY DEF IInv, Phases
  <2>2. ASSUME NEW search \in {"portfolio", "beam", "alns"}, Calling(search)
        PROVE  Safe(search, Called.parameters) /\ Honoured(search, Called.parameters)
    BY <2>1, <2>2, CalledParameters, PortfolioRight, BeamRight, AlnsRight DEF Calling
  <2>3. ASSUME Calling("alns") PROVE Called.parameters.temperature_end <= Called.parameters.temperature_start
    BY <2>1, <2>3, CalledParameters, AlnsRight DEF Calling
  <2>4. ASSUME pc = "await"
        PROVE  /\ Called.restarts >= 1
               /\ \A field \in DOMAIN Called.ga : Called.ga[field] \in Allowed["ga_override"][field]
    <3>1. Called.restarts = RestartsRequested /\ Called.ga = GaParameters
      BY DEF Called
    <3> HIDE DEF Called
    <3> QED
      BY <2>1, <2>4, <3>1, TimeLimitTyped, SafeGa
  <2>5. SafeParameters
    BY <2>2, <2>3, <2>4 DEF SafeParameters, Safe
  <2>6. ValuesHonoured
    BY <2>2 DEF ValuesHonoured, Honoured
  <2>7. InstancesBounded
    <3> SUFFICES ASSUME pc \in {"solve", "search", "await", "pool"}, Instances(request) < Word
                 PROVE  Instances(request) <= MaxInstances
      BY <2>1, RequestsAssumption, ValidationAssumption DEF RequestsAssumption, ValidationAssumption,
         InstancesBounded
    <3> DEFINE n == Instances(request)
    <3>1. n \in Int /\ Word \in Nat /\ Word > 0 /\ MaxInstances \in Nat /\ n < Word
      BY <2>1, RequestsAssumption, ValidationAssumption DEF RequestsAssumption, ValidationAssumption
    <3>2. n % Word <= MaxInstances
      BY <2>1, <3>1 DEF Verdict, TotalInstances, TooMany
    <3> HIDE DEF n
    <3>3. n >= 0 => n % Word = n
      BY <3>1
    <3>4. n <= MaxInstances
      BY <3>1, <3>2, <3>3
    <3> QED
      BY <3>4 DEF n
  <2> QED
    BY <2>5, <2>6, <2>7 DEF SearchInputsRight
<1> QED
  BY <1>1, Invariance, PTL

-----------------------------------------------------------------------------
(* Sums                                                                    *)

\* What holds of 0 and of the successor of any, holds of all up to n.
LEMMA Counting ==
    ASSUME NEW n \in Nat, NEW S, 0 \in S, \A i \in 1 .. n : i - 1 \in S => i \in S
    PROVE  \A i \in 0 .. n : i \in S
<1> DEFINE Bad == {i \in 0 .. n : i \notin S}
<1> SUFFICES ASSUME Bad # {} PROVE FALSE
  OBVIOUS
<1>1. PICK m \in Bad : \A k \in Bad : m <= k
  <2>1. Bad \subseteq Nat
    OBVIOUS
  <2> HIDE DEF Bad
  <2> QED
    BY <2>1, LeastNumber
<1>2. m # 0 /\ m \in 1 .. n
  OBVIOUS
<1>3. m - 1 \notin Bad /\ m - 1 \in 0 .. n
  BY <1>1, <1>2
<1>4. m - 1 \in S
  BY <1>3
<1> QED
  BY <1>2, <1>4

\* The element a fold takes out of a set, and the sums of a function over the
\* subsets of S: each is that of the rest with one element added.
Taken(s) == CHOOSE x \in s : TRUE
SumsOf(S, g, h) ==
    h = [s \in SUBSET S |-> IF s = {} THEN 0 ELSE g[Taken(s)] + h[s \ {Taken(s)}]]

\* Taking an element out makes a set smaller by one.
LEMMA TakenOut ==
    ASSUME NEW S, IsFiniteSet(S), NEW s \in SUBSET S, s # {}
    PROVE  /\ Taken(s) \in s /\ Taken(s) \in S
           /\ Cardinality(s) \in Nat /\ Cardinality(s) > 0
           /\ \A x \in s : s \ {x} \in SUBSET S /\ Cardinality(s \ {x}) = Cardinality(s) - 1
<1>1. Taken(s) \in s
  BY Zenon DEF Taken
<1>2. IsFiniteSet(s)
  BY FS_Subset
<1>3. Cardinality(s) \in Nat /\ \A x \in s : Cardinality(s \ {x}) = Cardinality(s) - 1
  BY <1>2, FS_CardinalityType, FS_RemoveElement
<1>4. Cardinality(s) # 0
  BY <1>1, <1>2, FS_EmptySet
<1> QED
  BY <1>1, <1>3, <1>4

\* There are such sums, and they are numbers.  (The least size of a set without
\* one would be that of a set whose rest has one.)
LEMMA SumsExist ==
    ASSUME NEW S, IsFiniteSet(S), NEW g \in [S -> Int]
    PROVE  \E h \in [SUBSET S -> Int] : SumsOf(S, g, h)
<1> DEFINE Upto(n) == {s \in SUBSET S : Cardinality(s) <= n}
           Added(h, s) == IF s = {} THEN 0 ELSE g[Taken(s)] + h[s \ {Taken(s)}]
           Good(n) == \E h \in [Upto(n) -> Int] : \A s \in Upto(n) : h[s] = Added(h, s)
           size == Cardinality(S)
           Fine == {n \in Nat : Good(n)}
<1>1. \A s \in SUBSET S : Cardinality(s) \in Nat /\ (Cardinality(s) = 0 <=> s = {})
  BY FS_Subset, FS_CardinalityType, FS_EmptySet
<1>2. ASSUME NEW s \in SUBSET S, s # {}
      PROVE  /\ Taken(s) \in S /\ s \ {Taken(s)} \in SUBSET S
             /\ Cardinality(s \ {Taken(s)}) = Cardinality(s) - 1
  BY <1>2, TakenOut
<1>3. Good(0)
  <2> DEFINE h == [s \in Upto(0) |-> 0]
  <2>1. \A s \in Upto(0) : s = {}
    BY <1>1
  <2>2. h \in [Upto(0) -> Int] /\ \A s \in Upto(0) : h[s] = Added(h, s)
    BY <2>1
  <2> QED
    BY <2>2
<1>4. ASSUME NEW n \in Nat, Good(n) PROVE Good(n + 1)
  <2>1. PICK h \in [Upto(n) -> Int] : \A s \in Upto(n) : h[s] = Added(h, s)
    BY <1>4
  <2> DEFINE k == [s \in Upto(n + 1) |-> Added(h, s)]
  <2>2. ASSUME NEW s \in Upto(n + 1), s # {}
        PROVE  Taken(s) \in S /\ s \ {Taken(s)} \in Upto(n) /\ s \ {Taken(s)} \in Upto(n + 1)
    BY <1>1, <1>2, <2>2
  <2>3. ASSUME NEW s \in Upto(n + 1) PROVE Added(h, s) \in Int
    BY <2>1, <2>2
  <2>4. ASSUME NEW s \in Upto(n) PROVE s \in Upto(n + 1) /\ k[s] = h[s]
    BY <1>1, <2>1
  <2>5. ASSUME NEW s \in Upto(n + 1) PROVE k[s] = Added(k, s)
    BY <2>2, <2>4
  <2>6. k \in [Upto(n + 1) -> Int]
    BY <2>3
  <2> QED
    BY <2>5, <2>6
<1>5. size \in Nat /\ \A s \in SUBSET S : Cardinality(s) <= size
  BY FS_CardinalityType, FS_Subset
<1>6. Upto(size) = SUBSET S
  BY <1>5
<1>7. Good(size)
  <2> HIDE DEF Good, size
  <2>1. 0 \in Fine /\ \A i \in 1 .. size : i - 1 \in Fine => i \in Fine
    BY <1>5, <1>4, <1>3
  <2>2. size \in 0 .. size
    BY <1>5
  <2> HIDE DEF Fine
  <2>3. size \in Fine
    BY <1>5, <2>1, <2>2, Counting
  <2> QED
    BY <2>3 DEF Fine
<1>8. PICK h \in [Upto(size) -> Int] : \A s \in Upto(size) : h[s] = Added(h, s)
  <2> HIDE DEF size
  <2> QED
    BY <1>7
<1>9. h \in [SUBSET S -> Int] /\ \A s \in SUBSET S : h[s] = Added(h, s)
  BY <1>6, <1>8
<1>10. h = [s \in SUBSET S |-> Added(h, s)]
  <2> HIDE DEF Added
  <2> QED
    BY <1>9
<1> QED
  BY <1>9, <1>10 DEF SumsOf

\* Any element may be taken out first.
Splits(S, g, h) ==
    h[{}] = 0 /\ \A s \in SUBSET S : \A x \in s : h[s] = g[x] + h[s \ {x}]

\* And it does not matter which the fold takes out.
LEMMA SumSplits ==
    ASSUME NEW S, IsFiniteSet(S), NEW g \in [S -> Int], NEW h \in [SUBSET S -> Int], SumsOf(S, g, h)
    PROVE  Splits(S, g, h)
<1> DEFINE ok(s) == \A x \in s : h[s] = g[x] + h[s \ {x}]
           Bad == {n \in Nat : \E s \in SUBSET S : Cardinality(s) = n /\ ~ok(s)}
<1>1. \A s \in SUBSET S : h[s] = IF s = {} THEN 0 ELSE g[Taken(s)] + h[s \ {Taken(s)}]
  BY Zenon DEF SumsOf
<1> SUFFICES ASSUME NEW s0 \in SUBSET S, ~ok(s0) PROVE FALSE
  BY <1>1 DEF Splits
<1>2. Cardinality(s0) \in Bad
  <2>1. Cardinality(s0) \in Nat
    BY FS_Subset, FS_CardinalityType
  <2> HIDE DEF ok
  <2> QED
    BY <2>1
<1>3. PICK m \in Bad : \A k \in Bad : m <= k
  <2>1. Bad \subseteq Nat
    OBVIOUS
  <2> HIDE DEF Bad
  <2> QED
    BY <1>2, <2>1, LeastNumber
<1>4. PICK s \in SUBSET S : Cardinality(s) = m /\ ~ok(s)
  BY <1>3
<1>5. PICK x \in s : h[s] # g[x] + h[s \ {x}]
  BY <1>4
<1> DEFINE y == Taken(s)
<1>6. /\ y \in s /\ y \in S /\ x \in S /\ m \in Nat /\ m > 0
      /\ \A z \in s : s \ {z} \in SUBSET S /\ Cardinality(s \ {z}) = m - 1
  BY <1>4, <1>5, TakenOut
<1>7. h[s] = g[y] + h[s \ {y}]
  BY <1>1, <1>5
<1> HIDE DEF y
<1>8. \A z \in s : ok(s \ {z})
  <2> HIDE DEF ok
  <2>1. m - 1 \in Nat /\ m - 1 \notin Bad
    BY <1>3, <1>6
  <2> QED
    BY <1>6, <2>1
<1>9. x # y
  BY <1>5, <1>7
<1>10. h[s \ {y}] = g[x] + h[(s \ {y}) \ {x}] /\ h[s \ {x}] = g[y] + h[(s \ {x}) \ {y}]
  BY <1>5, <1>6, <1>9, <1>8
<1>11. (s \ {y}) \ {x} = (s \ {x}) \ {y}
  OBVIOUS
<1> DEFINE gx == g[x]
           gy == g[y]
           rest == h[(s \ {x}) \ {y}]
<1>12. gx \in Int /\ gy \in Int /\ rest \in Int
  BY <1>6
<1>13. h[s] = gy + (gx + rest) /\ h[s \ {x}] = gy + rest
  BY <1>7, <1>10, <1>11
<1>14. h[s] # gx + h[s \ {x}]
  BY <1>5
<1> HIDE DEF gx, gy, rest
<1> QED
  BY <1>12, <1>13, <1>14

\* There is only one such function.
LEMMA SumsUnique ==
    ASSUME NEW S, IsFiniteSet(S), NEW g, NEW h, NEW k, SumsOf(S, g, h), SumsOf(S, g, k)
    PROVE  \A s \in SUBSET S : h[s] = k[s]
<1> DEFINE Bad == {n \in Nat : \E s \in SUBSET S : Cardinality(s) = n /\ h[s] # k[s]}
<1> SUFFICES ASSUME NEW s0 \in SUBSET S, h[s0] # k[s0] PROVE FALSE
  OBVIOUS
<1>1. \A s \in SUBSET S : h[s] = IF s = {} THEN 0 ELSE g[Taken(s)] + h[s \ {Taken(s)}]
  BY Zenon DEF SumsOf
<1>2. \A s \in SUBSET S : k[s] = IF s = {} THEN 0 ELSE g[Taken(s)] + k[s \ {Taken(s)}]
  BY Zenon DEF SumsOf
<1>3. Cardinality(s0) \in Bad
  BY FS_Subset, FS_CardinalityType
<1>4. PICK m \in Bad : \A i \in Bad : m <= i
  <2>1. Bad \subseteq Nat
    OBVIOUS
  <2> HIDE DEF Bad
  <2> QED
    BY <1>3, <2>1, LeastNumber
<1>5. PICK s \in SUBSET S : m \in Nat /\ Cardinality(s) = m /\ h[s] # k[s]
  BY <1>4
<1>6. s # {}
  BY <1>1, <1>2, <1>5
<1> DEFINE r == s \ {Taken(s)}
<1>7. r \in SUBSET S /\ Cardinality(r) = m - 1 /\ m - 1 \in Nat
  BY <1>5, <1>6, TakenOut
<1>8. h[r] # k[r]
  BY <1>1, <1>2, <1>5, <1>6
<1>9. m - 1 \in Bad
  BY <1>7, <1>8
<1> QED
  <2> HIDE DEF Bad
  <2>1. m <= m - 1 /\ m \in Nat
    BY <1>4, <1>5, <1>9
  <2> QED
    BY <2>1

\* The sums p of the first 0, 1, ... n of some slots.
Adding(slots, n, p) ==
    p \in [0 .. n -> Int] /\ p[0] = 0 /\ \A i \in 1 .. n : p[i] = p[i - 1] + slots[i]

\* The last of them is the total.
LEMMA TotalIs ==
    ASSUME NEW n \in Nat, NEW slots \in [1 .. n -> Int]
    PROVE  \E p : Adding(slots, n, p) /\ Total(slots) = p[n]
<1> DEFINE S == 1 .. n
           h == CHOOSE k : SumsOf(S, slots, k)
<1>1. IsFiniteSet(S)
  BY FS_Interval
<1>2. PICK k \in [SUBSET S -> Int] : SumsOf(S, slots, k)
  BY <1>1, SumsExist
<1>3. SumsOf(S, slots, h)
  BY <1>2, Zenon
<1>4. Total(slots) = h[S]
  BY DEF Total, FoldSeq, FoldFunction, FoldFunctionOnSet, MapThenFoldSet, SumsOf, Taken
<1>5. h[S] = k[S]
  <2> HIDE DEF h, S
  <2> QED
    BY <1>1, <1>2, <1>3, SumsUnique
<1> HIDE DEF h
<1>6. k[{}] = 0 /\ \A s \in SUBSET S : \A x \in s : k[s] = slots[x] + k[s \ {x}]
  <2>1. Splits(S, slots, k)
    BY <1>1, <1>2, SumSplits, Zenon
  <2> QED
    BY <2>1 DEF Splits
<1> DEFINE p == [i \in 0 .. n |-> k[1 .. i]]
<1>7. p \in [0 .. n -> Int]
  BY <1>2
<1>8. p[0] = 0 /\ p[n] = k[S]
  BY <1>6
<1>9. ASSUME NEW i \in 1 .. n PROVE p[i] = p[i - 1] + slots[i]
  <2>1. 1 .. i \in SUBSET S /\ i \in 1 .. i /\ (1 .. i) \ {i} = 1 .. (i - 1)
    OBVIOUS
  <2>2. k[1 .. i] = slots[i] + k[(1 .. i) \ {i}]
    BY <1>6, <2>1
  <2>3. p[i] = k[1 .. i] /\ p[i - 1] = k[1 .. (i - 1)]
    OBVIOUS
  <2>4. p[i] = slots[i] + p[i - 1]
    BY <2>1, <2>2, <2>3
  <2>5. p[i] \in Int /\ p[i - 1] \in Int /\ slots[i] \in Int
    <3>1. i \in 0 .. n /\ i - 1 \in 0 .. n
      OBVIOUS
    <3> HIDE DEF p
    <3> QED
      BY <1>7, <3>1
  <2> HIDE DEF p
  <2> QED
    BY <2>4, <2>5
<1>10. Adding(slots, n, p)
  <2> HIDE DEF p
  <2> QED
    BY <1>7, <1>8, <1>9 DEF Adding
<1> QED
  BY <1>4, <1>5, <1>8, <1>10

\* Slots that are of equal length but for what they share: their total.
LEMMA TotalOfShared ==
    ASSUME NEW n \in Nat, NEW shares \in [1 .. n -> Int], NEW first \in Int, NEW base \in Int,
           NEW slots \in [1 .. n + 1 -> Int], slots[1] = first,
           \A i \in 1 .. n : slots[i + 1] = base + shares[i]
    PROVE  /\ Total(slots) = first + n * base + Total(shares)
           /\ Total(slots) \in Int /\ Total(shares) \in Int
<1>1. PICK p : Adding(shares, n, p) /\ Total(shares) = p[n]
  BY TotalIs
<1>2. PICK q : Adding(slots, n + 1, q) /\ Total(slots) = q[n + 1]
  BY TotalIs
<1>3. p \in [0 .. n -> Int] /\ p[0] = 0 /\ \A i \in 1 .. n : p[i] = p[i - 1] + shares[i]
  BY <1>1 DEF Adding
<1>4. q \in [0 .. n + 1 -> Int] /\ q[0] = 0 /\ \A i \in 1 .. n + 1 : q[i] = q[i - 1] + slots[i]
  BY <1>2 DEF Adding
<1> DEFINE S == {i \in 0 .. n : q[i + 1] = first + i * base + p[i]}
<1>5. 0 \in S
  BY <1>4, <1>3
<1>6. ASSUME NEW i \in 1 .. n, i - 1 \in S PROVE i \in S
  <2> DEFINE x == (i - 1) * base
             a == p[i - 1]
             b == shares[i]
             c == q[i]
  <2>0. i \in 0 .. n /\ i - 1 \in 0 .. n /\ i \in 0 .. n + 1 /\ i + 1 \in 1 .. n + 1 /\ (i + 1) - 1 = i
        /\ (i - 1) + 1 = i
    OBVIOUS
  <2>1. q[i] = first + x + a
    BY <1>6, <2>0
  <2>2. q[i + 1] = c + slots[i + 1] /\ slots[i + 1] = base + b /\ p[i] = a + b
    BY <1>4, <2>0, <1>3
  <2>3. a \in Int /\ b \in Int /\ x \in Int /\ c \in Int
    <3>1. a \in Int /\ c \in Int
      BY <1>3, <1>4, <2>0
    <3> QED
      BY <3>1
  <2>4. i * base = x + base
    BY Z3
  <2> DEFINE y == i * base
  <2>5. y = x + base
    BY <2>4
  <2> HIDE DEF x, a, b, c, y
  <2>6. q[i + 1] = first + y + p[i]
    BY <2>1, <2>2, <2>3, <2>5 DEF c
  <2> QED
    BY <2>0, <2>6 DEF y
<1>7. n \in S
  <2>1. n \in 0 .. n
    OBVIOUS
  <2> HIDE DEF S
  <2> QED
    BY <1>5, <1>6, <2>1, Counting
<1> QED
  BY <1>1, <1>2, <1>3, <1>4, <1>7

\* Shares proportional to weights of the total D, rounded down: what they leave
\* of the whole is less than one for each.  Weight i is Z[i] - Z[i - 1].
LEMMA RoundedShares ==
    ASSUME NEW n \in Nat, NEW whole \in Nat, NEW D \in Nat, D > 0, NEW part \in [1 .. n -> Int],
           NEW Z \in [0 .. n -> Int], Z[0] = 0, Z[n] = D,
           \A i \in 1 .. n : /\ D * part[i] <= whole * (Z[i] - Z[i - 1])
                             /\ whole * (Z[i] - Z[i - 1]) <= D * part[i] + D
    PROVE  Total(part) \in Int /\ Total(part) <= whole /\ whole <= Total(part) + n
<1>1. PICK p : Adding(part, n, p) /\ Total(part) = p[n]
  BY TotalIs
<1>2. p \in [0 .. n -> Int] /\ p[0] = 0 /\ \A i \in 1 .. n : p[i] = p[i - 1] + part[i]
  BY <1>1 DEF Adding
<1> DEFINE S == {i \in 0 .. n : D * p[i] <= whole * Z[i] /\ whole * Z[i] <= D * p[i] + D * i}
<1>3. 0 \in S
  BY <1>2
<1>4. ASSUME NEW i \in 1 .. n, i - 1 \in S PROVE i \in S
  <2> DEFINE a == p[i - 1]
             b == part[i]
             y == Z[i - 1]
             z == Z[i]
  <2>0. i \in 0 .. n /\ i - 1 \in 0 .. n
    OBVIOUS
  <2>1. a \in Int /\ b \in Int /\ y \in Int /\ z \in Int /\ p[i] = a + b
    <3>1. a \in Int /\ y \in Int /\ z \in Int
      BY <1>2, <2>0
    <3>2. b \in Int /\ p[i] = a + b
      BY <1>2
    <3> QED
      BY <3>1, <3>2
  <2>2. D * a <= whole * y /\ whole * y <= D * a + D * (i - 1)
    BY <1>4
  <2>3. D * b <= whole * (z - y) /\ whole * (z - y) <= D * b + D
    OBVIOUS
  <2> HIDE DEF a, b, y, z
  <2>4. D * (a + b) = D * a + D * b /\ whole * (z - y) = whole * z - whole * y /\ D * (i - 1) = D * i - D
    BY <2>1, Z3
  <2> DEFINE Da == D * a
             Db == D * b
             Dab == D * (a + b)
             wy == whole * y
             wz == whole * z
             Di == D * i
  <2>5. Da \in Int /\ Db \in Int /\ wy \in Int /\ wz \in Int /\ Di \in Int
    BY <2>1
  <2>6. Dab = Da + Db /\ Da <= wy /\ wy <= Da + (Di - D) /\ Db <= wz - wy /\ wz - wy <= Db + D
    BY <2>2, <2>3, <2>4
  <2> HIDE DEF Da, Db, Dab, wy, wz, Di
  <2>7. Dab <= wz /\ wz <= Dab + Di
    BY <2>5, <2>6
  <2>8. D * p[i] = Dab
    BY <2>1 DEF Dab
  <2>9. D * p[i] <= whole * Z[i] /\ whole * Z[i] <= D * p[i] + D * i
    BY <2>7, <2>8 DEF wz, Di, z
  <2> QED
    BY <2>9
<1>5. n \in S
  <2>1. n \in 0 .. n
    OBVIOUS
  <2> HIDE DEF S
  <2> QED
    BY <1>3, <1>4, <2>1, Counting
<1> DEFINE t == p[n]
<1>6. t \in Int /\ Total(part) = t /\ D * t <= whole * D /\ whole * D <= D * t + D * n
  BY <1>1, <1>2, <1>5
<1> HIDE DEF t
<1>7. t <= whole
  <2> SUFFICES ASSUME t >= whole + 1 PROVE FALSE
    BY <1>6
  <2>1. D * t >= D * (whole + 1)
    BY <1>6, Z3
  <2>2. D * (whole + 1) = whole * D + D
    BY Z3
  <2> DEFINE x == D * t
             y == whole * D
             z == D * (whole + 1)
  <2>3. x \in Int /\ y \in Int /\ x >= z /\ z = y + D /\ x <= y
    BY <1>6, <2>1, <2>2
  <2> HIDE DEF x, y, z
  <2> QED
    BY <2>3
<1>8. whole <= t + n
  <2> SUFFICES ASSUME whole >= t + n + 1 PROVE FALSE
    BY <1>6
  <2>1. D * whole >= D * (t + n + 1)
    BY <1>6, Z3
  <2>2. D * (t + n + 1) = D * t + D * n + D /\ D * whole = whole * D
    BY <1>6, Z3
  <2> DEFINE x == D * t + D * n
             y == whole * D
             z == D * (t + n + 1)
  <2>3. x \in Int /\ y \in Int /\ y >= z /\ z = x + D /\ y <= x
    BY <1>6, <2>1, <2>2
  <2> HIDE DEF x, y, z
  <2> QED
    BY <2>3
<1> QED
  BY <1>6, <1>7, <1>8

-----------------------------------------------------------------------------
(* The plan of the restart loop                                            *)

\* Division rounds down.
LEMMA RoundedDown ==
    /\ \A a, b \in Nat : b > 0 => a \div b \in Nat /\ b * (a \div b) <= a /\ a < b * (a \div b) + b
    /\ \A a, b, c \in Nat : b > 0 /\ a >= c => a \div b >= c \div b
<1>1. ASSUME NEW a \in Nat, NEW b \in Nat, b > 0
      PROVE  a \div b \in Nat /\ b * (a \div b) <= a /\ a < b * (a \div b) + b
  BY <1>1, Z3
<1>2. ASSUME NEW a \in Nat, NEW b \in Nat, NEW c \in Nat, b > 0, a >= c
      PROVE  a \div b >= c \div b
  <2> DEFINE q == a \div b
             r == c \div b
  <2> SUFFICES ASSUME r >= q + 1 PROVE FALSE
    BY <1>1, <1>2
  <2>1. q \in Nat /\ r \in Nat /\ a < b * q + b /\ b * r <= c
    BY <1>1, <1>2
  <2> HIDE DEF q, r
  <2>2. b * r >= b * (q + 1)
    BY <2>1, Z3
  <2>3. b * (q + 1) = b * q + b
    BY <2>1, Z3
  <2> DEFINE x == b * q
             y == b * r
             z == b * (q + 1)
  <2>4. x \in Int /\ y \in Int /\ y >= z /\ z = x + b /\ a < x + b /\ y <= c
    BY <2>1, <2>2, <2>3
  <2> HIDE DEF x, y, z
  <2> QED
    BY <1>2, <2>4
<1> QED
  BY <1>1, <1>2

\* The product of a number and its successor is even.
LEMMA EvenProduct ==
    ASSUME NEW n \in Nat
    PROVE  n * (n + 1) \in Nat /\ 2 * ((n * (n + 1)) \div 2) = n * (n + 1)
<1>1. PICK k \in Nat : n = 2 * k \/ n = 2 * k + 1
  <2>1. n \div 2 \in Nat /\ (n = 2 * (n \div 2) \/ n = 2 * (n \div 2) + 1)
    OBVIOUS
  <2> QED
    BY <2>1
<1>2. \E m \in Nat : n * (n + 1) = 2 * m
  <2>1. CASE n = 2 * k
    BY <2>1
  <2>2. CASE n = 2 * k + 1
    <3>1. n * (n + 1) = 2 * ((2 * k + 1) * (k + 1)) /\ (2 * k + 1) * (k + 1) \in Nat
      BY <2>2, Z3
    <3> QED
      BY <3>1
  <2> QED
    BY <1>1, <2>1, <2>2
<1> DEFINE p == n * (n + 1)
<1> HIDE DEF p
<1>3. PICK m \in Nat : p = 2 * m
  BY <1>2 DEF p
<1>4. p \in Nat /\ 2 * (p \div 2) = p
  BY <1>3
<1> QED
  BY <1>4 DEF p

\* The parts of a tail, rounded down: by falling weights or all the same.
Parts(extra, n, progressive) ==
    [i \in 1 .. n |-> IF progressive
                      THEN (extra * (n - i + 1)) \div ((n * (n + 1)) \div 2)
                      ELSE extra \div n]

\* They leave less than one for each slot, and do not grow.
LEMMA PartsAre ==
    ASSUME NEW extra \in Nat, NEW n \in Nat, n > 0, NEW progressive \in BOOLEAN
    PROVE  /\ Parts(extra, n, progressive) \in [1 .. n -> Nat]
           /\ Total(Parts(extra, n, progressive)) \in Int
           /\ extra - Total(Parts(extra, n, progressive)) \in 0 .. n
           /\ \A i \in 1 .. n - 1 : Parts(extra, n, progressive)[i] >= Parts(extra, n, progressive)[i + 1]
<1> DEFINE part == Parts(extra, n, progressive)
<1>1. CASE progressive
  <2> DEFINE D == n * (n + 1)
             W == D \div 2
             Z == [i \in 0 .. n |-> i * (2 * n - i + 1)]
  <2>1. D \in Nat /\ D > 0 /\ 2 * W = D /\ W \in Nat /\ W > 0
    <3>1. n * (n + 1) > 0
      BY Z3
    <3> DEFINE d == n * (n + 1)
    <3>2. d \in Nat /\ d > 0 /\ 2 * (d \div 2) = d
      BY <3>1, EvenProduct
    <3> HIDE DEF d
    <3>3. d \div 2 \in Nat /\ d \div 2 > 0
      BY <3>2
    <3> QED
      BY <3>2, <3>3 DEF d
  <2>2. ASSUME NEW i \in 1 .. n
        PROVE  /\ extra * (n - i + 1) \in Nat /\ part[i] = (extra * (n - i + 1)) \div W
               /\ part[i] \in Nat
               /\ W * part[i] <= extra * (n - i + 1) /\ extra * (n - i + 1) < W * part[i] + W
    <3> DEFINE a == extra * (n - i + 1)
    <3>1. a \in Nat
      BY Z3
    <3>2. part[i] = a \div W
      BY <1>1 DEF Parts
    <3> HIDE DEF a, W, part
    <3>3. part[i] \in Nat /\ W * part[i] <= a /\ a < W * part[i] + W
      BY <2>1, <3>1, <3>2, RoundedDown
    <3> QED
      BY <3>1, <3>2, <3>3 DEF a
  <2>3. part \in [1 .. n -> Nat]
    <3>1. part = [i \in 1 .. n |-> part[i]]
      BY DEF Parts
    <3> HIDE DEF part
    <3> QED
      BY <2>2, <3>1
  <2>4. ASSUME NEW i \in 1 .. n - 1 PROVE part[i] >= part[i + 1]
    <3> DEFINE a == extra * (n - i + 1)
               b == extra * (n - (i + 1) + 1)
    <3>1. i \in 1 .. n /\ i + 1 \in 1 .. n
      OBVIOUS
    <3>2. a = b + extra
      BY Z3
    <3>3. a \in Nat /\ b \in Nat /\ part[i] = a \div W /\ part[i + 1] = b \div W
      BY <2>2, <3>1
    <3> HIDE DEF a, b, W, part
    <3> QED
      BY <2>1, <3>2, <3>3, RoundedDown
  <2>5. Z \in [0 .. n -> Int] /\ Z[0] = 0 /\ Z[n] = D
    OBVIOUS
  <2>6. ASSUME NEW i \in 1 .. n
        PROVE  D * part[i] <= extra * (Z[i] - Z[i - 1]) /\ extra * (Z[i] - Z[i - 1]) <= D * part[i] + D
    <3> DEFINE a == extra * (n - i + 1)
               x == W * part[i]
               p == part[i]
    <3>1. Z[i] - Z[i - 1] = 2 * (n - i + 1)
      OBVIOUS
    <3>2. extra * (2 * (n - i + 1)) = 2 * a
      BY Z3
    <3>3. (2 * W) * p = 2 * (W * p)
      <4> HIDE DEF W, p
      <4>1. W \in Int /\ p \in Int
        BY <2>1, <2>2 DEF p
      <4> QED
        BY <4>1, Z3
    <3>4. D * part[i] = 2 * x
      BY <2>1, <3>3
    <3>5. a \in Int /\ x \in Int /\ x <= a /\ a < x + W
      <4>1. x \in Int
        <5> HIDE DEF W, part
        <5> QED
          BY <2>1, <2>2
      <4> QED
        BY <2>2, <4>1
    <3> HIDE DEF a, x
    <3>6. 2 * x <= 2 * a /\ 2 * a <= 2 * x + 2 * W
      <4> HIDE DEF W
      <4> QED
        BY <2>1, <3>5
    <3> QED
      BY <2>1, <3>1, <3>2, <3>4, <3>6
  <2> HIDE DEF D, Z, part
  <2>7. part \in [1 .. n -> Int]
    BY <2>3
  <2>8. Total(part) \in Int /\ Total(part) <= extra /\ extra <= Total(part) + n
    BY <2>1, <2>5, <2>6, <2>7, RoundedShares
  <2> QED
    BY <2>3, <2>4, <2>8 DEF part
<1>2. CASE ~progressive
  <2> DEFINE q == extra \div n
             Z == [i \in 0 .. n |-> i]
  <2>1. part = [i \in 1 .. n |-> q]
    BY <1>2 DEF Parts
  <2>2. q \in Nat /\ n * q <= extra /\ extra < n * q + n
    BY RoundedDown
  <2> HIDE DEF q, part
  <2>3. part \in [1 .. n -> Nat] /\ part \in [1 .. n -> Int] /\ \A i \in 1 .. n : part[i] = q
    BY <2>1, <2>2
  <2>4. Z \in [0 .. n -> Int] /\ Z[0] = 0 /\ Z[n] = n
    OBVIOUS
  <2>5. ASSUME NEW i \in 1 .. n
        PROVE  n * part[i] <= extra * (Z[i] - Z[i - 1]) /\ extra * (Z[i] - Z[i - 1]) <= n * part[i] + n
    <3>1. Z[i] - Z[i - 1] = 1
      OBVIOUS
    <3> HIDE DEF Z
    <3> QED
      BY <2>2, <2>3, <3>1
  <2> HIDE DEF Z
  <2>6. Total(part) \in Int /\ Total(part) <= extra /\ extra <= Total(part) + n
    BY <2>3, <2>4, <2>5, RoundedShares
  <2> QED
    BY <2>2, <2>3, <2>6 DEF part
<1> QED
  BY <1>1, <1>2

\* What is left goes to the first slots, one each.
LEMMA RestGiven ==
    ASSUME NEW n \in Nat, NEW part \in [1 .. n -> Int], NEW rest \in 0 .. n,
           NEW shares \in [1 .. n -> Int],
           \A i \in 1 .. n : shares[i] = part[i] + (IF i <= rest THEN 1 ELSE 0)
    PROVE  Total(shares) = Total(part) + rest
<1>1. PICK p : Adding(part, n, p) /\ Total(part) = p[n]
  BY TotalIs
<1>2. PICK q : Adding(shares, n, q) /\ Total(shares) = q[n]
  BY TotalIs
<1>3. p \in [0 .. n -> Int] /\ p[0] = 0 /\ \A i \in 1 .. n : p[i] = p[i - 1] + part[i]
  BY <1>1 DEF Adding
<1>4. q \in [0 .. n -> Int] /\ q[0] = 0 /\ \A i \in 1 .. n : q[i] = q[i - 1] + shares[i]
  BY <1>2 DEF Adding
<1> DEFINE S == {i \in 0 .. n : q[i] = p[i] + (IF i <= rest THEN i ELSE rest)}
<1>5. 0 \in S
  BY <1>3, <1>4
<1>6. ASSUME NEW i \in 1 .. n, i - 1 \in S PROVE i \in S
  <2>1. i \in 0 .. n /\ i - 1 \in 0 .. n
    OBVIOUS
  <2>2. p[i - 1] \in Int /\ part[i] \in Int
    BY <1>3, <2>1
  <2>3. q[i - 1] = p[i - 1] + (IF i - 1 <= rest THEN i - 1 ELSE rest)
    BY <1>6
  <2>4. q[i] = q[i - 1] + shares[i] /\ p[i] = p[i - 1] + part[i]
    BY <1>3, <1>4
  <2>6. shares[i] = part[i] + (IF i <= rest THEN 1 ELSE 0)
    OBVIOUS
  <2>5. q[i] = p[i] + (IF i <= rest THEN i ELSE rest)
    <3> DEFINE a == p[i - 1]
               b == part[i]
               c == q[i - 1]
               d == shares[i]
    <3>1. a \in Int /\ b \in Int
      BY <2>2
    <3>2. c = a + (IF i - 1 <= rest THEN i - 1 ELSE rest)
      BY <2>3
    <3>3. d = b + (IF i <= rest THEN 1 ELSE 0)
      BY <2>6
    <3>4. i \in Int /\ rest \in Int
      OBVIOUS
    <3> HIDE DEF a, b, c, d
    <3>5. CASE i <= rest
      <4>1. c = a + (i - 1) /\ d = b + 1
        BY <3>2, <3>3, <3>4, <3>5
      <4>2. c + d = (a + b) + i
        BY <3>1, <3>4, <4>1
      <4> QED
        BY <2>4, <3>5, <4>2 DEF a, b, c, d
    <3>6. CASE i > rest
      <4>1. c = a + rest /\ d = b
        BY <3>1, <3>2, <3>3, <3>4, <3>6
      <4>2. c + d = (a + b) + rest
        BY <3>1, <3>4, <4>1
      <4> QED
        BY <2>4, <3>4, <3>6, <4>2 DEF a, b, c, d
    <3> QED
      BY <3>4, <3>5, <3>6
  <2> QED
    BY <2>1, <2>5
<1>7. n \in S
  <2>1. n \in 0 .. n
    OBVIOUS
  <2> HIDE DEF S
  <2> QED
    BY <1>5, <1>6, <2>1, Counting
<1> QED
  BY <1>1, <1>2, <1>3, <1>7

\* The shares of a tail add up to what there is to share, and do not grow.
LEMMA SharesFill ==
    ASSUME NEW extra \in Nat, NEW n \in Nat, n > 0, NEW progressive \in BOOLEAN
    PROVE  LET shares == TailShares(extra, n, progressive)
           IN  /\ shares \in [1 .. n -> Nat] /\ Total(shares) = extra
               /\ \A i \in 1 .. n - 1 : shares[i] >= shares[i + 1]
<1> DEFINE part == Parts(extra, n, progressive)
           rest == extra - Total(part)
           shares == TailShares(extra, n, progressive)
<1>1. /\ part \in [1 .. n -> Nat] /\ Total(part) \in Int /\ rest \in 0 .. n
      /\ \A i \in 1 .. n - 1 : part[i] >= part[i + 1]
  BY PartsAre
<1>2. shares = [i \in 1 .. n |-> part[i] + (IF i <= rest THEN 1 ELSE 0)]
  BY DEF TailShares, Parts
<1>3. rest = extra - Total(part)
  OBVIOUS
<1> HIDE DEF part, rest, shares
<1>4. shares \in [1 .. n -> Nat]
  BY <1>1, <1>2
<1>5. \A i \in 1 .. n : shares[i] = part[i] + (IF i <= rest THEN 1 ELSE 0)
  BY <1>2
<1>6. Total(shares) = Total(part) + rest
  <2>1. part \in [1 .. n -> Int] /\ shares \in [1 .. n -> Int]
    BY <1>1, <1>4
  <2> QED
    BY <1>1, <1>5, <2>1, RestGiven
<1>7. Total(shares) = extra
  BY <1>1, <1>3, <1>6
<1>8. \A i \in 1 .. n - 1 : shares[i] >= shares[i + 1]
  <2> SUFFICES ASSUME NEW i \in 1 .. n - 1 PROVE shares[i] >= shares[i + 1]
    OBVIOUS
  <2>1. i \in 1 .. n /\ i + 1 \in 1 .. n /\ part[i] \in Nat /\ part[i + 1] \in Nat /\ part[i] >= part[i + 1]
    BY <1>1
  <2>2. /\ shares[i] = part[i] + (IF i <= rest THEN 1 ELSE 0)
        /\ shares[i + 1] = part[i + 1] + (IF i + 1 <= rest THEN 1 ELSE 0)
    BY <1>5, <2>1
  <2>3. rest \in Int
    BY <1>1
  <2> QED
    BY <2>1, <2>2, <2>3
<1> QED
  BY <1>4, <1>7, <1>8 DEF shares

\* A plan makes fewer restarts if their slices would get too short.
LEMMA RestartsBounded ==
    ASSUME NEW budget \in Nat, NEW requested \in Nat, requested >= 1, NEW minEffective \in Nat, minEffective >= MinSlice
    PROVE  LET restarts == EffectiveRestarts(budget, requested, minEffective)
           IN  /\ restarts \in Nat /\ restarts >= 1 /\ restarts <= requested
               /\ restarts > 1 => MinSlice * restarts <= budget
<1> DEFINE half == Monus(budget, minEffective \div 2)
           most == half \div minEffective
           restarts == EffectiveRestarts(budget, requested, minEffective)
<1>1. minEffective > 0 /\ MinSlice \in Nat
  BY ScheduleAssumption DEF ScheduleAssumption
<1>2. half \in Nat /\ half <= budget
  BY DEF Monus, Larger
<1> HIDE DEF half
<1>3. most \in Nat /\ minEffective * most <= half
  BY <1>1, <1>2, RoundedDown
<1>4. restarts = Larger(1, Smaller(requested, Larger(1, most)))
  BY DEF EffectiveRestarts, half
<1> HIDE DEF most, restarts
<1>5. restarts \in Nat /\ restarts >= 1 /\ restarts <= requested /\ (restarts > 1 => restarts <= most)
  BY <1>3, <1>4 DEF Larger, Smaller
<1>6. ASSUME restarts > 1 PROVE MinSlice * restarts <= budget
  <2>1. restarts <= most
    BY <1>5, <1>6
  <2> DEFINE x == MinSlice * restarts
             y == minEffective * restarts
             z == minEffective * most
  <2>2. x <= y
    BY <1>1, <1>5, Z3
  <2>3. y <= z
    BY <1>1, <1>3, <1>5, <2>1, Z3
  <2>4. x \in Int /\ y \in Int /\ z \in Int /\ z <= half
    BY <1>1, <1>3, <1>5
  <2> HIDE DEF x, y, z
  <2>5. x <= budget
    BY <1>2, <2>2, <2>3, <2>4
  <2> QED
    BY <2>5 DEF x
<1> QED
  BY <1>5, <1>6 DEF restarts

\* What a schedule of a budget is: its slots fill the budget, are no shorter
\* than the shortest slice allowed, and do not grow behind the first.
FillsBudget(slots, budget, restarts) ==
    /\ slots \in [1 .. restarts -> Nat] /\ Total(slots) = budget
    /\ \A i \in 2 .. restarts - 1 : slots[i] >= slots[i + 1]
    /\ restarts > 1 =>
           /\ \A i \in 1 .. restarts : slots[i] >= MinSlice
           /\ Total(Tail(slots)) \in Nat /\ Total(Tail(slots)) >= restarts - 1 /\ Total(Tail(slots)) <= budget

\* A single slot is all of the budget.
LEMMA OneSlot ==
    ASSUME NEW budget \in Nat
    PROVE  FillsBudget(<<budget>>, budget, 1)
<1> DEFINE slots == <<budget>>
<1>1. slots \in [1 .. 1 -> Nat] /\ slots[1] = budget /\ slots \in [1 .. 1 -> Int]
  OBVIOUS
<1> HIDE DEF slots
<1>2. PICK p : Adding(slots, 1, p) /\ Total(slots) = p[1]
  BY <1>1, TotalIs
<1>3. p[0] = 0 /\ p[1] = p[1 - 1] + slots[1]
  BY <1>2 DEF Adding
<1>4. Total(slots) = budget
  BY <1>1, <1>2, <1>3
<1>5. FillsBudget(slots, budget, 1)
  BY <1>1, <1>4 DEF FillsBudget
<1> QED
  BY <1>5 DEF slots

\* A number before a sequence of numbers.
LEMMA Prepended ==
    ASSUME NEW first \in Nat, NEW tail \in Seq(Nat), NEW n \in Nat, Len(tail) = n, NEW slots, slots = <<first>> \o tail
    PROVE  /\ slots \in Seq(Nat) /\ slots \in [1 .. n + 1 -> Nat] /\ Len(slots) = n + 1
           /\ slots[1] = first /\ \A i \in 1 .. n : slots[i + 1] = tail[i]
<1> DEFINE s == <<first>>
<1>1. s \in Seq(Nat) /\ Len(s) = 1 /\ s[1] = first
  OBVIOUS
<1> HIDE DEF s
<1>2. /\ slots \in Seq(Nat) /\ Len(slots) = 1 + Len(tail)
      /\ \A i \in 1 .. Len(s) + Len(tail) : slots[i] = IF i <= Len(s) THEN s[i] ELSE tail[i - Len(s)]
  BY <1>1, ConcatProperties
<1>3. Len(slots) = n + 1 /\ slots \in [1 .. n + 1 -> Nat]
  <2> HIDE DEF s
  <2>1. slots \in Seq(Nat) /\ Len(slots) = n + 1
    BY <1>2
  <2>2. slots \in [1 .. Len(slots) -> Nat]
    BY <2>1, LenProperties
  <2> QED
    BY <2>1, <2>2, Zenon
<1>4. \A i \in 1 .. n + 1 : slots[i] = IF i <= 1 THEN s[i] ELSE tail[i - 1]
  BY <1>1, <1>2
<1>5. slots[1] = first
  BY <1>1, <1>4
<1>6. \A i \in 1 .. n : slots[i + 1] = tail[i]
  BY <1>4
<1> QED
  BY <1>2, <1>3, <1>5, <1>6, Zenon

\* A first slot, and others on top of a base.
Shared(slots, n, first, base, shares) ==
    /\ shares \in [1 .. n -> Int] /\ slots \in [1 .. n + 1 -> Int] /\ slots[1] = first
    /\ \A i \in 1 .. n : slots[i + 1] = base + shares[i]

\* Its total is the first slot, the base for each other slot, and the shares.
LEMMA TotalShared ==
    ASSUME NEW n \in Nat, NEW first \in Int, NEW base \in Int, NEW slots, NEW shares,
           Shared(slots, n, first, base, shares)
    PROVE  Total(slots) = first + n * base + Total(shares)
<1>1. /\ shares \in [1 .. n -> Int] /\ slots \in [1 .. n + 1 -> Int] /\ slots[1] = first
      /\ \A i \in 1 .. n : slots[i + 1] = base + shares[i]
  BY DEF Shared
<1> QED
  BY <1>1, TotalOfShared, Zenon

\* The slots of a schedule: a first one, and a tail that shares what is extra.
Slots(first, extra, n, progressive) ==
    <<first>> \o [i \in 1 .. n |-> MinSlice + TailShares(extra, n, progressive)[i]]

\* What the first slot and the shortest tail leave of a budget is extra.
Leaves(budget, first, n, extra) == first + n * MinSlice + extra = budget

\* A first slot, and a tail of slots that share what it leaves.
LEMMA SlotsFill ==
    ASSUME NEW budget \in Nat, NEW n \in Nat, n > 0, NEW progressive \in BOOLEAN, NEW first \in Nat,
           first >= MinSlice, NEW extra \in Nat, Leaves(budget, first, n, extra),
           NEW slots, slots = Slots(first, extra, n, progressive)
    PROVE  FillsBudget(slots, budget, n + 1)
<1> DEFINE shares == TailShares(extra, n, progressive)
           tail == [i \in 1 .. n |-> MinSlice + shares[i]]
<1>1. MinSlice \in Nat /\ MinSlice > 0
  BY ScheduleAssumption DEF ScheduleAssumption
<1>2. /\ shares \in [1 .. n -> Nat] /\ Total(shares) = extra
      /\ \A i \in 1 .. n - 1 : shares[i] >= shares[i + 1]
  BY SharesFill
<1> HIDE DEF shares
<1>3. /\ tail \in Seq(Nat) /\ Len(tail) = n /\ tail \in [1 .. n -> Nat]
      /\ \A i \in 1 .. n : tail[i] = MinSlice + shares[i] /\ tail[i] >= MinSlice
  <2>1. tail \in [1 .. n -> Nat]
    BY <1>1, <1>2
  <2>2. tail \in Seq(Nat) /\ Len(tail) = n
    <3> HIDE DEF tail
    <3> QED
      BY <2>1, AsSequence
  <2>3. \A i \in 1 .. n : tail[i] = MinSlice + shares[i] /\ tail[i] >= MinSlice
    BY <1>1, <1>2
  <2> QED
    BY <2>1, <2>2, <2>3
<1>4. slots = <<first>> \o tail
  BY DEF Slots, shares
<1> HIDE DEF tail
<1>5. /\ slots \in [1 .. n + 1 -> Nat] /\ slots[1] = first
      /\ \A i \in 1 .. n : slots[i + 1] = tail[i]
      /\ Tail(slots) = tail
  <2>1. slots \in Seq(Nat) /\ Len(slots) = n + 1
    BY <1>3, <1>4, Prepended
  <2>2. slots \in [1 .. n + 1 -> Nat]
    BY <2>1, LenProperties
  <2>3. slots[1] = first /\ \A i \in 1 .. n : slots[i + 1] = tail[i]
    BY <1>3, <1>4, Prepended
  <2>4. Tail(slots) = tail
    <3>1. Tail(slots) \in Seq(Nat) /\ Len(Tail(slots)) = n /\ \A i \in 1 .. n : Tail(slots)[i] = slots[i + 1]
      BY <2>1
    <3> QED
      BY <1>3, <2>3, <3>1
  <2> QED
    BY <2>2, <2>3, <2>4
<1>6. Total(slots) = budget
  <2>1. shares \in [1 .. n -> Int] /\ slots \in [1 .. n + 1 -> Int] /\ first \in Int /\ MinSlice \in Int
    BY <1>1, <1>2, <1>5
  <2>2. slots[1] = first /\ \A i \in 1 .. n : slots[i + 1] = MinSlice + shares[i]
    BY <1>3, <1>5
  <2>3. Shared(slots, n, first, MinSlice, shares)
    BY <2>1, <2>2, Zenon DEF Shared
  <2>4. Total(slots) = first + n * MinSlice + Total(shares)
    BY <2>1, <2>3, TotalShared
  <2> QED
    BY <1>2, <2>4 DEF Leaves
<1>7. Total(tail) \in Nat /\ Total(tail) >= n /\ Total(tail) <= budget
  <2>1. PICK p : Adding(tail, n, p) /\ Total(tail) = p[n]
    BY <1>3, TotalIs
  <2>2. PICK q : Adding(slots, n + 1, q) /\ Total(slots) = q[n + 1]
    <3>1. slots \in [1 .. n + 1 -> Int] /\ n + 1 \in Nat
      BY <1>5
    <3> QED
      BY <3>1, TotalIs
  <2>3. p \in [0 .. n -> Int] /\ p[0] = 0 /\ \A i \in 1 .. n : p[i] = p[i - 1] + tail[i]
    BY <2>1 DEF Adding
  <2>4. q \in [0 .. n + 1 -> Int] /\ q[0] = 0 /\ \A i \in 1 .. n + 1 : q[i] = q[i - 1] + slots[i]
    BY <2>2 DEF Adding
  <2> DEFINE S == {i \in 0 .. n : p[i] >= i /\ q[i + 1] = first + p[i]}
  <2>5. 0 \in S
    <3>1. q[1] = q[1 - 1] + slots[1] /\ 1 - 1 = 0
      BY <2>4
    <3>2. p[0] = 0 /\ q[1] = first
      BY <1>5, <2>3, <2>4, <3>1
    <3>3. 0 \in 0 .. n /\ p[0] >= 0 /\ q[0 + 1] = first + p[0]
      BY <3>2
    <3> QED
      BY <3>3, Zenon
  <2>6. ASSUME NEW i \in 1 .. n, i - 1 \in S PROVE i \in S
    <3>1. i \in 0 .. n /\ i - 1 \in 0 .. n /\ i + 1 \in 1 .. n + 1 /\ i + 1 - 1 = i /\ i - 1 + 1 = i
      OBVIOUS
    <3>6. tail[i] \in Nat /\ tail[i] >= MinSlice
      BY <1>3
    <3>7. p[i - 1] \in Int
      BY <2>3, <3>1
    <3>2. p[i - 1] \in Int /\ tail[i] \in Nat /\ tail[i] >= 1
      BY <1>1, <3>6, <3>7
    <3>3. p[i - 1] >= i - 1 /\ q[i] = first + p[i - 1]
      BY <2>6, <3>1
    <3>4. q[i + 1] = q[i] + slots[i + 1] /\ slots[i + 1] = tail[i] /\ p[i] = p[i - 1] + tail[i]
      <4>1. q[i + 1] = q[i + 1 - 1] + slots[i + 1]
        BY <2>4, <3>1
      <4>2. slots[i + 1] = tail[i] /\ p[i] = p[i - 1] + tail[i]
        BY <1>5, <2>3
      <4> QED
        BY <3>1, <4>1, <4>2
    <3>5. p[i] >= i /\ q[i + 1] = first + p[i]
      BY <3>2, <3>3, <3>4
    <3> QED
      BY <3>1, <3>5, Zenon
  <2>7. n \in S
    <3>1. n \in 0 .. n
      OBVIOUS
    <3> HIDE DEF S
    <3> QED
      BY <2>5, <2>6, <3>1, Counting
  <2>8. p[n] \in Int /\ p[n] >= n /\ q[n + 1] = first + p[n]
    BY <2>3, <2>7
  <2> QED
    BY <1>6, <2>1, <2>2, <2>8
<1>8. \A i \in 1 .. n + 1 : slots[i] >= MinSlice
  <2> SUFFICES ASSUME NEW i \in 1 .. n + 1 PROVE slots[i] >= MinSlice
    OBVIOUS
  <2>1. CASE i = 1
    BY <1>5, <2>1
  <2>2. CASE i # 1
    <3>1. i - 1 \in 1 .. n /\ i - 1 + 1 = i
      BY <2>2
    <3>2. slots[i] = tail[i - 1]
      BY <1>5, <3>1
    <3> QED
      BY <1>3, <3>1, <3>2
  <2> QED
    BY <2>1, <2>2
<1>9. \A i \in 2 .. n + 1 - 1 : slots[i] >= slots[i + 1]
  <2> SUFFICES ASSUME NEW i \in 2 .. n PROVE slots[i] >= slots[i + 1]
    OBVIOUS
  <2>1. i - 1 \in 1 .. n - 1 /\ i - 1 \in 1 .. n /\ i \in 1 .. n /\ i - 1 + 1 = i
    OBVIOUS
  <2>2. slots[i] = MinSlice + shares[i - 1] /\ slots[i + 1] = MinSlice + shares[i]
    BY <1>3, <1>5, <2>1
  <2>3. shares[i - 1] >= shares[i] /\ shares[i - 1] \in Nat /\ shares[i] \in Nat
    BY <1>2, <2>1
  <2> QED
    BY <1>1, <2>2, <2>3
<1>10. n + 1 - 1 = n
  OBVIOUS
<1>11. FillsBudget(slots, budget, n + 1)
  <2>1. n + 1 > 1 => /\ \A i \in 1 .. n + 1 : slots[i] >= MinSlice
                    /\ Total(Tail(slots)) \in Nat /\ Total(Tail(slots)) >= n + 1 - 1
                    /\ Total(Tail(slots)) <= budget
    BY <1>5, <1>7, <1>8, <1>10, Zenon
  <2> QED
    BY <1>5, <1>6, <1>9, <2>1 DEF FillsBudget
<1> QED
  BY <1>11

\* So is every schedule whose slots are long enough: it needs no correction.
LEMMA ScheduleFilled ==
    ASSUME NEW budget \in Nat, NEW restarts \in Nat, restarts >= 1, restarts > 1 => MinSlice * restarts <= budget,
           NEW minEffective \in Nat, NEW sharePercent \in Nat, NEW progressive \in BOOLEAN
    PROVE  FillsBudget(BuildSchedule(budget, restarts, minEffective, sharePercent, progressive), budget, restarts)
<1> DEFINE n == restarts - 1
           target == Larger(Larger((budget * sharePercent) \div 100, minEffective), MinSlice)
           cap == Larger(Monus(budget, MinSlice * n), MinSlice)
           first == Smaller(Smaller(target, cap), budget)
           extra == Monus(Monus(budget, first), MinSlice * n)
           slots == Slots(first, extra, n, progressive)
           schedule == BuildSchedule(budget, restarts, minEffective, sharePercent, progressive)
<1>1. MinSlice \in Nat /\ MinSlice > 0 /\ n \in Nat
  BY ScheduleAssumption DEF ScheduleAssumption
<1>2. schedule = IF n = 0 THEN <<budget>>
                 ELSE IF Total(slots) > budget THEN Reduce(slots, Total(slots) - budget)
                 ELSE [slots EXCEPT ![1] = @ + (budget - Total(slots))]
  BY DEF BuildSchedule, Slots
<1>3. CASE n = 0
  <2>1. schedule = <<budget>> /\ restarts = 1
    BY <1>2, <1>3
  <2> HIDE DEF schedule
  <2> QED
    BY <2>1, OneSlot DEF schedule
<1>4. CASE n > 0
  <2> DEFINE reserved == MinSlice * n
  <2>1. reserved \in Nat /\ reserved + MinSlice <= budget
    BY <1>1, <1>4
  <2>2. (budget * sharePercent) \div 100 \in Int
    OBVIOUS
  <2>3. target \in Int /\ target >= MinSlice
    <3> DEFINE share == (budget * sharePercent) \div 100
    <3> HIDE DEF share
    <3>1. share \in Int
      BY <2>2 DEF share
    <3>2. Larger(Larger(share, minEffective), MinSlice) \in Int
          /\ Larger(Larger(share, minEffective), MinSlice) >= MinSlice
      BY <1>1, <3>1 DEF Larger
    <3> QED
      BY <3>2 DEF share
  <2> HIDE DEF target, reserved
  <2>4. cap = Larger(Monus(budget, reserved), MinSlice) /\ extra = Monus(Monus(budget, first), reserved)
    BY DEF reserved
  <2> HIDE DEF cap, extra
  <2>5. cap \in Int /\ cap >= MinSlice /\ cap + reserved <= budget
    BY <1>1, <2>1, <2>4 DEF Larger, Monus
  <2>6. first \in Nat /\ first >= MinSlice /\ first + reserved <= budget
    BY <1>1, <2>1, <2>3, <2>5 DEF Smaller
  <2> HIDE DEF first
  <2>7. extra \in Nat /\ first + reserved + extra = budget
    BY <2>1, <2>4, <2>6 DEF Larger, Monus
  <2>8. FillsBudget(slots, budget, n + 1)
    <3>1. reserved = n * MinSlice
      <4> HIDE DEF n
      <4> QED
        BY <1>1, Z3 DEF reserved
    <3>2. Leaves(budget, first, n, extra)
      BY <2>7, <3>1, Zenon DEF Leaves
    <3>3. slots = Slots(first, extra, n, progressive)
      OBVIOUS
    <3> HIDE DEF n, slots
    <3> QED
      BY <1>1, <1>4, <2>6, <2>7, <3>2, <3>3, SlotsFill
  <2> HIDE DEF slots
  <2>9. slots \in [1 .. restarts -> Nat] /\ Total(slots) = budget
    BY <2>8 DEF FillsBudget
  <2>10. schedule = [slots EXCEPT ![1] = @ + (budget - Total(slots))]
    <3> HIDE DEF schedule
    <3> QED
      BY <1>2, <1>4, <2>9
  <2>11. schedule = slots
    <3>1. slots[1] \in Nat /\ slots[1] + (budget - budget) = slots[1]
      BY <2>9
    <3>2. [slots EXCEPT ![1] = slots[1]] = slots
      BY <2>9
    <3> HIDE DEF schedule
    <3> QED
      BY <2>9, <2>10, <3>1, <3>2
  <2> HIDE DEF schedule
  <2>12. FillsBudget(schedule, budget, restarts)
    BY <2>8, <2>11
  <2> QED
    BY <2>12 DEF schedule
<1> QED
  BY <1>1, <1>3, <1>4

\* What the restart loop is told of a plan is right: its slots fill the budget,
\* and it makes no more restarts than are asked for.
PlanRight(plan, budget, requested) ==
    /\ plan.schedule \in Seq(Nat) /\ Len(plan.schedule) > 0
    /\ Total(plan.schedule) = Larger(1, budget)
    /\ Len(plan.schedule) = plan.restarts
    /\ plan.restarts <= requested
    /\ Len(plan.schedule) > 1 => \A i \in DOMAIN plan.schedule : plan.schedule[i] >= MinSlice
    /\ \A i \in 2..(Len(plan.schedule) - 1) : plan.schedule[i] >= plan.schedule[i + 1]
    /\ plan.fallback * (Len(plan.schedule) - 1) <= budget

\* The SLA profiles are numbers.
LEMMA ProfilesTyped ==
    ASSUME NEW name \in {"fast", "balanced", "quality"}
    PROVE  Profiles[name].minEffective \in Nat /\ Profiles[name].share \in Nat
<1>1. CASE name = "fast"
  BY <1>1 DEF Profiles
<1>2. CASE name = "balanced"
  BY <1>2 DEF Profiles
<1>3. CASE name = "quality"
  BY <1>3 DEF Profiles
<1> QED
  BY <1>1, <1>2, <1>3

\* So is every plan of a budget that is not negative.
LEMMA StandardPlanRight ==
    ASSUME NEW budget \in Nat, NEW requested \in Nat, requested >= 1, NEW profile \in {"fast", "balanced", "quality"}
    PROVE  PlanRight(StandardPlan(budget, requested, profile), budget, requested)
<1> DEFINE minEffective == Larger(Profiles[profile].minEffective, MinSlice)
           restarts == EffectiveRestarts(budget, requested, minEffective)
           whole == Larger(1, budget)
           schedule == BuildSchedule(whole, restarts, minEffective, Profiles[profile].share, profile # "fast")
           later == Total(Tail(schedule))
           fallback == IF restarts = 1 THEN whole ELSE Larger(1, later \div (restarts - 1))
           plan == StandardPlan(budget, requested, profile)
<1>1. plan.restarts = restarts /\ plan.schedule = schedule /\ plan.fallback = fallback
  <2>1. plan = [restarts |-> restarts, schedule |-> schedule, fallback |-> fallback]
    BY DEF StandardPlan
  <2> HIDE DEF plan, restarts, schedule, fallback
  <2> QED
    BY <2>1
<1>2. minEffective \in Nat /\ minEffective >= MinSlice /\ MinSlice \in Nat /\ Profiles[profile].share \in Nat
  BY ScheduleAssumption, ProfilesTyped DEF ScheduleAssumption, Larger
<1> HIDE DEF minEffective
<1>3. /\ restarts \in Nat /\ restarts >= 1 /\ restarts <= requested
      /\ restarts > 1 => MinSlice * restarts <= budget
  BY <1>2, RestartsBounded
<1> HIDE DEF restarts
<1>4. whole \in Nat /\ whole >= 1 /\ budget <= whole /\ (budget >= 1 => whole = budget)
  BY DEF Larger
<1> HIDE DEF whole
<1>5. FillsBudget(schedule, whole, restarts)
  <2>1. restarts > 1 => MinSlice * restarts <= whole
    <3> DEFINE x == MinSlice * restarts
    <3>1. x \in Int /\ (restarts > 1 => x <= budget)
      BY <1>2, <1>3
    <3> HIDE DEF x
    <3>2. restarts > 1 => x <= whole
      BY <1>4, <3>1
    <3> QED
      BY <3>2 DEF x
  <2> DEFINE share == Profiles[profile].share
             progressive == profile # "fast"
  <2>2. share \in Nat /\ progressive \in BOOLEAN
    BY <1>2
  <2>3. schedule = BuildSchedule(whole, restarts, minEffective, share, progressive)
    OBVIOUS
  <2> HIDE DEF share, progressive, schedule
  <2> QED
    BY <1>2, <1>3, <1>4, <2>1, <2>2, <2>3, ScheduleFilled
<1> HIDE DEF schedule
<1>6. /\ schedule \in [1 .. restarts -> Nat] /\ Total(schedule) = whole
      /\ \A i \in 2 .. restarts - 1 : schedule[i] >= schedule[i + 1]
      /\ restarts > 1 => /\ \A i \in 1 .. restarts : schedule[i] >= MinSlice
                         /\ later \in Nat /\ later >= restarts - 1 /\ later <= whole
  BY <1>5 DEF FillsBudget
<1> HIDE DEF later
<1>7. Len(schedule) = restarts /\ DOMAIN schedule = 1 .. restarts /\ schedule \in Seq(Nat)
  BY <1>3, <1>6, AsSequence
<1>8. fallback * (restarts - 1) <= budget
  <2>1. CASE restarts = 1
    <3>1. fallback = whole /\ restarts - 1 = 0
      BY <2>1
    <3> HIDE DEF fallback
    <3>2. fallback * 0 = 0
      BY <1>4, <3>1
    <3> QED
      BY <3>1, <3>2
  <2>2. CASE restarts # 1
    <3> DEFINE n == restarts - 1
    <3>1. n \in Nat /\ n > 0 /\ later \in Nat /\ later >= n /\ later <= whole
      BY <1>3, <1>6, <2>2
    <3>2. fallback = Larger(1, later \div n)
      BY <2>2
    <3> HIDE DEF n, fallback
    <3> DEFINE q == later \div n
               one == n \div n
    <3>3. q \in Nat /\ n * q <= later /\ q >= one
      BY <3>1, RoundedDown
    <3>4. one = 1
      BY <3>1, Z3
    <3> HIDE DEF q, one
    <3>5. fallback = q
      BY <3>2, <3>3, <3>4 DEF q, Larger
    <3>6. budget = whole
      <4>1. budget >= 1
        <5>1. MinSlice * restarts >= 1
          BY <1>3, ScheduleAssumption, <1>2 DEF ScheduleAssumption
        <5> DEFINE x == MinSlice * restarts
        <5>2. x \in Int /\ x <= budget /\ x >= 1
          BY <1>2, <1>3, <2>2, <5>1
        <5> HIDE DEF x
        <5> QED
          BY <5>2
      <4> QED
        BY <1>4, <4>1
    <3>7. fallback * n = n * q
      BY <3>1, <3>3, <3>5, Z3
    <3> DEFINE x == n * q
    <3>8. x \in Int /\ x <= later /\ fallback * n = x
      BY <3>1, <3>3, <3>7
    <3> HIDE DEF x
    <3>9. x <= budget
      BY <1>4, <3>1, <3>6, <3>8
    <3>10. fallback * n <= budget
      BY <3>8, <3>9, Zenon
    <3> QED
      BY <3>10 DEF n
  <2> QED
    BY <2>1, <2>2
<1> HIDE DEF fallback, plan
<1>9. PlanRight(plan, budget, requested)
  BY <1>1, <1>6, <1>3, <1>7, <1>8 DEF whole, PlanRight
<1> QED
  BY <1>9 DEF plan

\* The time limit of a request that is valid is none that is negative.
LEMMA TimeLimitNatural ==
    ASSUME request \in Requests, Verdict(request) = "ok"
    PROVE  TimeLimit \in Nat
<1>1. OptionsValid(request.options)
  BY DEF Verdict
<1>2. Value(request.options, "time_limit_ms", 100) >= 100
  BY <1>1 DEF OptionsValid
<1>3. DefaultTimeLimit \in Nat
  BY DispatchAssumption DEF DispatchAssumption
<1>4. TimeLimit \in Int
  BY TimeLimitTyped
<1> QED
  BY <1>2, <1>3, <1>4 DEF TimeLimit, Value

\* Which plan the restart loop is called with.
LEMMA CalledPlan ==
    ASSUME request \in Requests, Calling("restarts")
    PROVE  Called.parameters = RestartsParameters /\ Called.restarts = RestartsRequested
<1>1. /\ PortfolioParameters.search = "portfolio" /\ BeamParameters.search = "beam"
      /\ AlnsParameters.search = "alns"
  BY DEF PortfolioParameters, BeamParameters, AlnsParameters
<1>2. /\ Called.parameters \in {PortfolioParameters, BeamParameters, AlnsParameters, RestartsParameters}
      /\ Called.restarts = RestartsRequested
  BY DEF Called, Parameters
<1>3. Called.parameters.search = "restarts"
  BY DEF Calling
<1> HIDE DEF Called
<1> QED
  BY <1>1, <1>2, <1>3

\* Whenever the restart loop is called, its plan is right.
LEMMA PlansRight ==
    ASSUME IInv, Calling("restarts")
    PROVE  PlanRight(Called.parameters.plan, Called.parameters.budget, Called.restarts)
<1>1. request \in Requests /\ Verdict(request) = "ok"
  BY DEF IInv, Phases, Calling
<1> DEFINE profile == Value(request.options, "sla_profile", "balanced")
           budget == TimeLimit
           requested == RestartsRequested
<1>2. profile \in {"fast", "balanced", "quality"}
  BY <1>1, RequestsAssumption DEF RequestsAssumption
<1>3. budget \in Nat /\ requested \in Nat /\ requested >= 1
  BY <1>1, TimeLimitNatural, TimeLimitTyped
<1>4. Called.parameters = RestartsParameters /\ Called.restarts = requested
  BY <1>1, CalledPlan
<1>5. RestartsParameters.plan = StandardPlan(budget, requested, profile) /\ RestartsParameters.budget = budget
  BY DEF RestartsParameters
<1> HIDE DEF Called, profile, budget, requested
<1>6. PlanRight(StandardPlan(budget, requested, profile), budget, requested)
  BY <1>2, <1>3, StandardPlanRight
<1> QED
  BY <1>4, <1>5, <1>6

\* The slices of every plan the restart loop is called with add up to the time
\* limit, none is too short, and they are no more than the restarts asked for.
THEOREM BudgetFilled == Spec => []PlanFillsBudget
<1>1. IInv => PlanFillsBudget
  BY PlansRight, Zenon DEF PlanFillsBudget, PlanRight
<1> QED
  BY <1>1, Invariance, PTL

\* They are what Restarts assumes of its schedules: numbers, and at least one.
THEOREM ScheduleGiven ==
    Spec => [](Calling("restarts") => /\ Called.parameters.plan.schedule \in Seq(Nat)
                                      /\ Len(Called.parameters.plan.schedule) > 0)
<1>1. IInv /\ Calling("restarts") => /\ Called.parameters.plan.schedule \in Seq(Nat)
                                      /\ Len(Called.parameters.plan.schedule) > 0
  BY PlansRight, Zenon DEF PlanRight
<1> QED
  BY <1>1, Invariance, PTL

-----------------------------------------------------------------------------
(* The vacuum layout: numbers, pieces and orders                           *)

\* The least of some natural numbers is one of them.
LEMMA MinOf ==
    ASSUME NEW S, S \subseteq Nat, S # {}
    PROVE  Min(S) \in S /\ \A k \in S : Min(S) <= k
<1>1. \E m \in S : \A k \in S : m <= k
  BY LeastNumber
<1> QED
  BY <1>1 DEF Min

\* The greatest of some numbers that have a bound is one of them.
LEMMA MaxOf ==
    ASSUME NEW S, S \subseteq Int, S # {}, NEW bound \in Int, \A k \in S : k <= bound
    PROVE  Max(S) \in S /\ \A k \in S : Max(S) >= k
<1> DEFINE T == {n \in Nat : \E k \in S : n = bound - k}
<1>1. T \subseteq Nat /\ T # {}
  <2>1. PICK k \in S : TRUE
    OBVIOUS
  <2>2. bound - k \in T
    OBVIOUS
  <2> QED
    BY <2>2
<1>2. PICK n \in T : \A l \in T : n <= l
  <2> HIDE DEF T
  <2> QED
    BY <1>1, LeastNumber
<1>3. PICK m \in S : n = bound - m
  BY <1>2
<1>4. \A k \in S : m >= k
  <2> SUFFICES ASSUME NEW k \in S PROVE m >= k
    OBVIOUS
  <2>1. bound - k \in T
    OBVIOUS
  <2>2. n <= bound - k /\ k \in Int /\ m \in Int
    BY <1>2, <2>1
  <2> QED
    BY <1>3, <2>2
<1> QED
  BY <1>4 DEF Max

\* A larger factor makes a larger product.
LEMMA ProductsGrow ==
    ASSUME NEW a \in Nat, NEW b \in Nat, NEW c \in Nat, NEW d \in Nat, a <= c, b <= d
    PROVE  a * b \in Nat /\ c * d \in Nat /\ a * b <= c * d
<1>1. a * b \in Nat /\ c * b \in Nat /\ a * b <= c * b
  BY Z3
<1>2. c * d \in Nat /\ c * b <= c * d
  BY Z3
<1> QED
  BY <1>1, <1>2

\* A sequence with one element changed.
LEMMA Changed ==
    ASSUME NEW S, NEW seq \in Seq(S), NEW i \in DOMAIN seq, NEW e \in S
    PROVE  /\ [seq EXCEPT ![i] = e] \in Seq(S)
           /\ Len([seq EXCEPT ![i] = e]) = Len(seq)
           /\ DOMAIN [seq EXCEPT ![i] = e] = DOMAIN seq
           /\ \A j \in DOMAIN seq : [seq EXCEPT ![i] = e][j] = IF j = i THEN e ELSE seq[j]
<1>1. DOMAIN seq = 1..Len(seq)
  BY LenProperties
<1> QED
  BY <1>1, ExceptSeq

\* Where a piece begins and ends.
LEMMA PieceNumbers ==
    ASSUME NEW p \in Numbered, NEW a \in Axes
    PROVE  /\ p.at \in [Axes -> Nat] /\ p.size \in [Axes -> Lengths]
           /\ p.size[a] \in Nat /\ p.size[a] > 0
           /\ Lo(p, a) \in Nat /\ Hi(p, a) \in Nat /\ Lo(p, a) < Hi(p, a)
           /\ Hi(p, a) = Lo(p, a) + p.size[a]
<1>1. p.at \in [Axes -> Nat] /\ p.size \in [Axes -> Lengths]
  BY DEF Numbered
<1>2. p.at[a] \in Nat /\ p.size[a] \in Lengths
  BY <1>1
<1> QED
  BY <1>1, <1>2 DEF Lo, Hi, Lengths

\* The other axis.
LEMMA AcrossAxis == \A a \in Axes : Across(a) \in Axes /\ Across(a) # a /\ \A b \in Axes : b = a \/ b = Across(a)
BY DEF Axes, Across

\* The gap between two pieces.
LEMMA GapNumber ==
    ASSUME NEW p \in Numbered, NEW q \in Numbered, NEW a \in Axes
    PROVE  /\ Gap(p, q, a) \in Nat /\ Gap(q, p, a) = Gap(p, q, a)
           /\ Meet(p, q, a) => Gap(p, q, a) = 0
           /\ ~Meet(p, q, a) => \/ Gap(p, q, a) = Lo(q, a) - Hi(p, a)
                                \/ Gap(p, q, a) = Lo(p, a) - Hi(q, a)
           /\ Gap(p, q, a) >= Lo(q, a) - Hi(p, a) /\ Gap(p, q, a) >= Lo(p, a) - Hi(q, a)
<1> DEFINE x == Lo(q, a) - Hi(p, a)
           y == Lo(p, a) - Hi(q, a)
           S == {0, x, y}
<1>1. /\ Lo(p, a) \in Nat /\ Hi(p, a) \in Nat /\ Lo(p, a) < Hi(p, a)
      /\ Lo(q, a) \in Nat /\ Hi(q, a) \in Nat /\ Lo(q, a) < Hi(q, a)
  BY PieceNumbers
<1>2. x \in Int /\ y \in Int
  BY <1>1
<1>3. \E bound \in Int : \A k \in S : k <= bound
  <2> HIDE DEF x, y
  <2>1. CASE x <= 0 /\ y <= 0
    BY <1>2, <2>1
  <2>2. CASE x > 0 /\ y <= x
    BY <1>2, <2>2
  <2>3. CASE y > 0 /\ x <= y
    BY <1>2, <2>3
  <2> QED
    BY <1>2, <2>1, <2>2, <2>3
<1>4. S \subseteq Int /\ S # {}
  BY <1>2
<1>5. Max(S) \in S /\ \A k \in S : Max(S) >= k
  <2> HIDE DEF S
  <2> QED
    BY <1>3, <1>4, MaxOf
<1>6. Gap(p, q, a) = Max(S)
  BY DEF Gap
<1>7. Gap(q, p, a) = Max(S)
  BY DEF Gap
<1>8. Max(S) \in {0, x, y} /\ Max(S) >= 0 /\ Max(S) >= x /\ Max(S) >= y
  BY <1>5
<1> DEFINE g == Max(S)
<1> HIDE DEF g
<1>9. g \in Int /\ g >= 0 /\ g >= x /\ g >= y /\ (g = 0 \/ g = x \/ g = y)
  BY <1>2, <1>8 DEF g
<1>10. g \in Nat /\ g >= Lo(q, a) - Hi(p, a) /\ g >= Lo(p, a) - Hi(q, a)
  BY <1>9
<1>11. Meet(p, q, a) => g = 0
  BY <1>1, <1>9 DEF Meet
<1>12. ~Meet(p, q, a) => g = Lo(q, a) - Hi(p, a) \/ g = Lo(p, a) - Hi(q, a)
  BY <1>1, <1>9 DEF Meet
<1> HIDE DEF S, x, y
<1> QED
  BY <1>6, <1>7, <1>10, <1>11, <1>12 DEF g

\* It does not matter which of two pieces comes first.
LEMMA Symmetric ==
    ASSUME NEW p \in Numbered, NEW q \in Numbered
    PROVE  (Overlap(p, q) <=> Overlap(q, p)) /\ (TooClose(p, q) <=> TooClose(q, p))
<1>1. Overlap(p, q) <=> Overlap(q, p)
  BY DEF Overlap, Meet
<1>2. 1 \in Axes /\ 2 \in Axes
  BY DEF Axes
<1>3. Gap(p, q, 1) = Gap(q, p, 1) /\ Gap(p, q, 2) = Gap(q, p, 2)
  BY <1>2, GapNumber
<1> QED
  BY <1>1, <1>3, Zenon DEF TooClose

\* What holds of the pairs of a sheet holds of its pieces.
LEMMA PairsOfPieces ==
    ASSUME NEW pieces \in Seq(Numbered)
    PROVE  /\ (\A ij \in Pairs(pieces) : ~Overlap(pieces[ij[1]], pieces[ij[2]])) <=> Apart(pieces)
           /\ (\A ij \in Pairs(pieces) : ~TooClose(pieces[ij[1]], pieces[ij[2]])) <=> Clear(pieces)
<1>1. DOMAIN pieces = 1..Len(pieces) /\ Len(pieces) \in Nat
  BY LenProperties
<1>2. \A i \in DOMAIN pieces : pieces[i] \in Numbered
  BY <1>1, ElementOfSeq
<1>3. ASSUME NEW i \in DOMAIN pieces, NEW j \in DOMAIN pieces, i < j
      PROVE  <<i, j>> \in Pairs(pieces) /\ <<i, j>>[1] = i /\ <<i, j>>[2] = j
  BY <1>3 DEF Pairs
<1>4. \A i, j \in DOMAIN pieces : i # j => i < j \/ j < i
  BY <1>1
<1>5. \A ij \in Pairs(pieces) : ij[1] \in DOMAIN pieces /\ ij[2] \in DOMAIN pieces /\ ij[1] # ij[2]
  BY <1>1 DEF Pairs
<1>6. ASSUME \A ij \in Pairs(pieces) : ~Overlap(pieces[ij[1]], pieces[ij[2]])
      PROVE  Apart(pieces)
  <2>1. ASSUME NEW i \in DOMAIN pieces, NEW j \in DOMAIN pieces, i < j
        PROVE  ~Overlap(pieces[i], pieces[j]) /\ ~Overlap(pieces[j], pieces[i])
    <3> DEFINE ij == <<i, j>>
    <3>0. ij \in Pairs(pieces) /\ ij[1] = i /\ ij[2] = j
      BY <1>3, <2>1
    <3> HIDE DEF ij
    <3>1. ~Overlap(pieces[i], pieces[j])
      BY <1>6, <3>0, Zenon
    <3> QED
      BY <1>2, <3>1, Symmetric
  <2> QED
    BY <1>4, <2>1 DEF Apart
<1>7. ASSUME \A ij \in Pairs(pieces) : ~TooClose(pieces[ij[1]], pieces[ij[2]])
      PROVE  Clear(pieces)
  <2>1. ASSUME NEW i \in DOMAIN pieces, NEW j \in DOMAIN pieces, i < j
        PROVE  ~TooClose(pieces[i], pieces[j]) /\ ~TooClose(pieces[j], pieces[i])
    <3> DEFINE ij == <<i, j>>
    <3>0. ij \in Pairs(pieces) /\ ij[1] = i /\ ij[2] = j
      BY <1>3, <2>1
    <3> HIDE DEF ij
    <3>1. ~TooClose(pieces[i], pieces[j])
      BY <1>7, <3>0, Zenon
    <3> QED
      BY <1>2, <3>1, Symmetric
  <2> QED
    BY <1>4, <2>1 DEF Clear
<1> QED
  BY <1>5, <1>6, <1>7 DEF Apart, Clear

\* What satisfies the equation of the sums has numbers for its values.
LEMMA SumTyped ==
    ASSUME NEW S, IsFiniteSet(S), NEW g \in [S -> Int], NEW h, SumsOf(S, g, h)
    PROVE  h[S] \in Int /\ ((\A x \in S : g[x] >= 0) => h[S] >= 0)
<1> DEFINE ok(s) == h[s] \in Int /\ ((\A x \in S : g[x] >= 0) => h[s] >= 0)
           Bad == {n \in Nat : \E s \in SUBSET S : Cardinality(s) = n /\ ~ok(s)}
<1> SUFFICES ASSUME ~ok(S) PROVE FALSE
  OBVIOUS
<1>1. Cardinality(S) \in Bad
  <2>1. S \in SUBSET S /\ Cardinality(S) \in Nat
    BY FS_CardinalityType
  <2> HIDE DEF ok
  <2> QED
    BY <2>1
<1>2. PICK m \in Bad : \A k \in Bad : m <= k
  <2>1. Bad \subseteq Nat
    OBVIOUS
  <2> HIDE DEF Bad
  <2> QED
    BY <1>1, <2>1, LeastNumber
<1>3. PICK s \in SUBSET S : Cardinality(s) = m /\ ~ok(s)
  BY <1>2
<1>4. \A t \in SUBSET S : h[t] = IF t = {} THEN 0 ELSE g[Taken(t)] + h[t \ {Taken(t)}]
  BY Zenon DEF SumsOf
<1>5. s # {}
  BY <1>3, <1>4
<1>6. /\ Taken(s) \in S /\ s \ {Taken(s)} \in SUBSET S
      /\ m \in Nat /\ m > 0 /\ Cardinality(s \ {Taken(s)}) = m - 1
  BY <1>3, <1>5, TakenOut
<1>7. ok(s \ {Taken(s)})
  <2> DEFINE t == s \ {Taken(s)}
  <2> HIDE DEF ok, t
  <2>1. m - 1 \in Nat /\ m - 1 \notin Bad
    BY <1>2, <1>6
  <2>2. t \in SUBSET S /\ Cardinality(t) = m - 1
    BY <1>6 DEF t
  <2> QED
    BY <2>1, <2>2 DEF t
<1>8. h[s] = g[Taken(s)] + h[s \ {Taken(s)}] /\ g[Taken(s)] \in Int
  BY <1>4, <1>5, <1>6
<1> DEFINE x == g[Taken(s)]
           y == h[s \ {Taken(s)}]
<1>9. h[s] = x + y /\ x \in Int /\ y \in Int
  BY <1>7, <1>8
<1>10. (\A z \in S : g[z] >= 0) => x >= 0 /\ y >= 0
  BY <1>6, <1>7
<1> HIDE DEF x, y
<1>11. ok(s)
  BY <1>9, <1>10
<1> QED
  BY <1>3, <1>11

\* What SumFunction of the community modules adds up is such a sum.
LEMMA SumIs ==
    ASSUME NEW S, IsFiniteSet(S), NEW g \in [S -> Int]
    PROVE  SumFunction(g) \in Int /\ ((\A x \in S : g[x] >= 0) => SumFunction(g) >= 0)
<1> DEFINE sums == CHOOSE h : SumsOf(S, g, h)
<1>1. SumsOf(S, g, sums)
  BY SumsExist, Zenon
<1>2. SumFunction(g) = sums[S]
  BY DEF SumFunction, SumFunctionOnSet, FoldFunctionOnSet, MapThenFoldSet, SumsOf, Taken
<1> HIDE DEF sums
<1> QED
  BY <1>1, <1>2, SumTyped

\* Two tuples differ somewhere first.
LEMMA FirstDifference ==
    ASSUME NEW n \in Nat, NEW x \in Tuples(n), NEW y \in Tuples(n), x # y
    PROVE  \E d \in 1 .. n : x[d] # y[d] /\ \A e \in 1 .. d - 1 : x[e] = y[e]
<1> DEFINE D == {d \in 1 .. n : x[d] # y[d]}
<1>1. D # {} /\ D \subseteq Nat
  BY DEF Tuples
<1>2. PICK d \in D : \A e \in D : d <= e
  <2> HIDE DEF D
  <2> QED
    BY <1>1, LeastNumber
<1>3. ASSUME NEW e \in 1 .. d - 1 PROVE x[e] = y[e]
  BY <1>2
<1> QED
  BY <1>2, <1>3

\* Of two tuples one is larger, or they are the same.
LEMMA OneBeats ==
    ASSUME NEW n \in Nat, NEW x \in Tuples(n), NEW y \in Tuples(n), x # y
    PROVE  Beats(x, y) \/ Beats(y, x)
<1>1. PICK d \in 1 .. n : x[d] # y[d] /\ \A e \in 1 .. d - 1 : x[e] = y[e]
  BY FirstDifference
<1>2. DOMAIN x = 1 .. n /\ DOMAIN y = 1 .. n /\ x[d] \in Int /\ y[d] \in Int
  BY DEF Tuples
<1>3. x[d] > y[d] \/ y[d] > x[d]
  BY <1>1, <1>2
<1> QED
  BY <1>1, <1>2, <1>3 DEF Beats

\* None is larger than itself.
LEMMA NoneBeatsItself ==
    ASSUME NEW n \in Nat, NEW x \in Tuples(n)
    PROVE  ~Beats(x, x)
BY DEF Beats, Tuples

\* And the order is transitive.
LEMMA BeatsOn ==
    ASSUME NEW n \in Nat, NEW x \in Tuples(n), NEW y \in Tuples(n), NEW z \in Tuples(n),
           Beats(x, y), Beats(y, z)
    PROVE  Beats(x, z)
<1>1. DOMAIN x = 1 .. n /\ DOMAIN y = 1 .. n
      /\ \A e \in 1 .. n : x[e] \in Int /\ y[e] \in Int /\ z[e] \in Int
  BY DEF Tuples
<1>2. PICK d \in 1 .. n : x[d] > y[d] /\ \A e \in 1 .. d - 1 : x[e] = y[e]
  BY <1>1 DEF Beats
<1>3. PICK c \in 1 .. n : y[c] > z[c] /\ \A e \in 1 .. c - 1 : y[e] = z[e]
  BY <1>1 DEF Beats
<1>4. CASE d <= c
  <2>1. x[d] > z[d]
    BY <1>1, <1>2, <1>3, <1>4
  <2>2. \A e \in 1 .. d - 1 : x[e] = z[e]
    BY <1>2, <1>3, <1>4
  <2> QED
    BY <1>1, <2>1, <2>2 DEF Beats
<1>5. CASE c < d
  <2>1. x[c] > z[c]
    BY <1>1, <1>2, <1>3, <1>5
  <2>2. \A e \in 1 .. c - 1 : x[e] = z[e]
    BY <1>2, <1>3, <1>5
  <2> QED
    BY <1>1, <2>1, <2>2 DEF Beats
<1> QED
  BY <1>4, <1>5

\* Of two numbers one is ahead of the other, and whatever is ahead of the first
\* is ahead of the second.
LEMMA AheadOrder ==
    ASSUME NEW n \in Nat, NEW m \in Nat, NEW key \in [1 .. n -> Tuples(m)]
    PROVE  /\ \A i \in 1 .. n : ~Ahead(key, i, i)
           /\ \A i, j \in 1 .. n : i # j => Ahead(key, i, j) \/ Ahead(key, j, i)
           /\ \A i, j, k \in 1 .. n : Ahead(key, i, j) /\ Ahead(key, j, k) => Ahead(key, i, k)
<1>1. \A i \in 1 .. n : key[i] \in Tuples(m)
  OBVIOUS
<1>2. ASSUME NEW i \in 1 .. n PROVE ~Ahead(key, i, i)
  BY <1>1, NoneBeatsItself DEF Ahead
<1>3. ASSUME NEW i \in 1 .. n, NEW j \in 1 .. n, i # j PROVE Ahead(key, i, j) \/ Ahead(key, j, i)
  BY <1>3, <1>1, OneBeats DEF Ahead
<1>4. ASSUME NEW i \in 1 .. n, NEW j \in 1 .. n, NEW k \in 1 .. n, Ahead(key, i, j), Ahead(key, j, k)
      PROVE  Ahead(key, i, k)
  BY <1>1, BeatsOn, <1>4 DEF Ahead
<1> QED
  BY <1>2, <1>3, <1>4, Zenon

\* Falling orders the numbers: how many are ahead of each is another number for
\* each, so that there is one for each place.
LEMMA FallingIs ==
    ASSUME NEW n \in Nat, NEW m \in Nat, NEW key \in [1 .. n -> Tuples(m)]
    PROVE  Falling(n, key) \in Orders(n)
<1> DEFINE rank == [i \in 1 .. n |-> Cardinality(AllAhead(n, key, i))]
           f == Falling(n, key)
<1>1. IsFiniteSet(1 .. n) /\ Cardinality(1 .. n) = n
      /\ IsFiniteSet(0 .. n - 1) /\ Cardinality(0 .. n - 1) = n
  BY FS_Interval
<1>2. ASSUME NEW i \in 1 .. n
      PROVE  /\ IsFiniteSet(AllAhead(n, key, i)) /\ rank[i] \in Nat
             /\ AllAhead(n, key, i) \in SUBSET (1 .. n) /\ i \notin AllAhead(n, key, i)
  BY AheadOrder, <1>1, FS_Subset, FS_CardinalityType DEF AllAhead
<1>3. ASSUME NEW i \in 1 .. n PROVE rank[i] \in 0 .. n - 1
  <2>1. AllAhead(n, key, i) \in SUBSET ((1 .. n) \ {i})
    BY <1>2
  <2>2. IsFiniteSet((1 .. n) \ {i}) /\ Cardinality((1 .. n) \ {i}) = n - 1
    BY <1>1, FS_RemoveElement
  <2>3. Cardinality(AllAhead(n, key, i)) <= n - 1
    BY <2>1, <2>2, FS_Subset
  <2> QED
    BY <1>2, <2>3
<1>4. ASSUME NEW i \in 1 .. n, NEW j \in 1 .. n, Ahead(key, i, j) PROVE rank[i] < rank[j]
  <2> DEFINE A == AllAhead(n, key, i)
             B == AllAhead(n, key, j)
  <2>1. A \in SUBSET B
    BY <1>4, AheadOrder DEF AllAhead
  <2>2. i \in B /\ i \notin A
    BY <1>2, <1>4 DEF AllAhead
  <2>3. IsFiniteSet(B) /\ IsFiniteSet(A) /\ Cardinality(A) \in Nat /\ Cardinality(B) \in Nat
    BY <1>2
  <2> HIDE DEF A, B
  <2>4. Cardinality(A) <= Cardinality(B) /\ Cardinality(A) # Cardinality(B)
    BY <2>1, <2>2, <2>3, FS_Subset
  <2>5. Cardinality(A) < Cardinality(B)
    BY <2>3, <2>4
  <2> QED
    BY <2>5 DEF A, B
<1>5. \A i, j \in 1 .. n : rank[i] = rank[j] => i = j
  <2> SUFFICES ASSUME NEW i \in 1 .. n, NEW j \in 1 .. n, rank[i] = rank[j], i # j PROVE FALSE
    OBVIOUS
  <2>1. Ahead(key, i, j) \/ Ahead(key, j, i)
    BY AheadOrder
  <2>2. rank[i] < rank[j] \/ rank[j] < rank[i]
    BY <1>4, <2>1
  <2>3. rank[i] \in 0 .. n - 1 /\ rank[j] \in 0 .. n - 1
    BY <1>3
  <2> HIDE DEF rank
  <2> QED
    BY <2>2, <2>3
<1>6. rank \in [1 .. n -> 0 .. n - 1]
  <2> DEFINE r(i) == Cardinality(AllAhead(n, key, i))
  <2>1. \A i \in 1 .. n : r(i) \in 0 .. n - 1
    BY <1>3
  <2>2. rank = [i \in 1 .. n |-> r(i)]
    OBVIOUS
  <2> HIDE DEF r, rank
  <2> QED
    BY <2>1, <2>2
<1> HIDE DEF rank
<1>7. \A k \in 0 .. n - 1 : \E i \in 1 .. n : rank[i] = k
  <2>1. rank \in Injection(1 .. n, 0 .. n - 1)
    BY <1>5, <1>6 DEF Injection, IsInjective
  <2>2. rank \in Surjection(1 .. n, 0 .. n - 1)
    BY <1>1, <2>1, FS_Injection
  <2> QED
    BY <2>2 DEF Surjection
<1>8. f = [k \in 1 .. n |-> CHOOSE i \in 1 .. n : Cardinality(AllAhead(n, key, i)) = k - 1]
  BY DEF Falling, AllAhead, Ahead
<1>0. \A i \in 1 .. n : rank[i] = Cardinality(AllAhead(n, key, i))
  BY DEF rank
<1> HIDE DEF f
<1>9. ASSUME NEW k \in 1 .. n PROVE f[k] \in 1 .. n /\ rank[f[k]] = k - 1
  <2>1. k - 1 \in 0 .. n - 1
    OBVIOUS
  <2>2. PICK i \in 1 .. n : rank[i] = k - 1
    BY <1>7, <2>1
  <2>3. Cardinality(AllAhead(n, key, i)) = k - 1
    BY <1>0, <2>2
  <2>4. f[k] = CHOOSE j \in 1 .. n : Cardinality(AllAhead(n, key, j)) = k - 1
    BY <1>8
  <2>5. f[k] \in 1 .. n /\ Cardinality(AllAhead(n, key, f[k])) = k - 1
    BY <2>3, <2>4, Zenon
  <2> QED
    BY <1>0, <2>5
<1>10. f \in [1 .. n -> 1 .. n]
  BY <1>8, <1>9
<1>11. ASSUME NEW i \in 1 .. n, NEW j \in 1 .. n, f[i] = f[j] PROVE i = j
  <2>1. i - 1 = j - 1
    BY <1>9, <1>11
  <2> QED
    BY <2>1
<1>12. ASSUME NEW i \in 1 .. n PROVE \E k \in 1 .. n : f[k] = i
  <2>1. rank[i] \in 0 .. n - 1
    BY <1>6
  <2>2. rank[i] + 1 \in 1 .. n /\ (rank[i] + 1) - 1 = rank[i]
    BY <2>1
  <2>3. rank[f[rank[i] + 1]] = rank[i] /\ f[rank[i] + 1] \in 1 .. n
    BY <1>9, <2>2
  <2>4. f[rank[i] + 1] = i
    BY <1>5, <2>3
  <2> QED
    BY <2>2, <2>4
<1> QED
  BY <1>10, <1>11, <1>12, Zenon DEF Orders, f

\* A sequence arranged holds the same elements, each in another place.
LEMMA ArrangedIs ==
    ASSUME NEW T, NEW list \in Seq(T), NEW m \in Nat, NEW key \in [1 .. Len(list) -> Tuples(m)]
    PROVE  /\ Arranged(list, key) \in Seq(T) /\ Len(Arranged(list, key)) = Len(list)
           /\ \E by \in Orders(Len(list)) : \A k \in 1 .. Len(list) : Arranged(list, key)[k] = list[by[k]]
<1> DEFINE n == Len(list)
           by == Falling(n, key)
           g == [k \in 1 .. n |-> list[by[k]]]
<1>1. n \in Nat /\ DOMAIN list = 1 .. n
  OBVIOUS
<1>2. by \in Orders(n)
  BY <1>1, FallingIs
<1>3. Arranged(list, key) = SubSeq(g, 1, n)
  BY <1>1 DEF Arranged
<1> HIDE DEF by, n
<1>4. ASSUME NEW k \in 1 .. n PROVE g[k] \in T
  BY <1>2, ElementOfSeq DEF Orders, n
<1> HIDE DEF g
<1>5. /\ SubSeq(g, 1, n) \in Seq(T)
      /\ Len(SubSeq(g, 1, n)) = n
      /\ \A k \in 1 .. n : SubSeq(g, 1, n)[k] = g[k]
  BY <1>1, <1>4, SubSeqProperties
<1>6. \A k \in 1 .. n : g[k] = list[by[k]]
  BY DEF g
<1> QED
  BY <1>2, <1>3, <1>5, <1>6 DEF n

-----------------------------------------------------------------------------
(* Loops and sequences                                                     *)

\* What holds at first and is kept by each of n steps holds all along.
LEMMA KeptAllAlong ==
    ASSUME NEW n \in Nat, NEW f, NEW S, f[0] \in S, \A k \in 1 .. n : f[k - 1] \in S => f[k] \in S
    PROVE  \A k \in 0 .. n : f[k] \in S
<1> DEFINE Bad == {k \in 0 .. n : f[k] \notin S}
<1> SUFFICES ASSUME Bad # {} PROVE FALSE
  OBVIOUS
<1>1. PICK m \in Bad : \A k \in Bad : m <= k
  <2>1. Bad \subseteq Nat
    OBVIOUS
  <2> HIDE DEF Bad
  <2> QED
    BY <2>1, LeastNumber
<1>2. m \in 1 .. n
  BY <1>1
<1>3. m - 1 \in 0 .. n /\ ~(m <= m - 1)
  BY <1>2
<1>4. f[m - 1] \in S
  BY <1>1, <1>3
<1> QED
  BY <1>1, <1>2, <1>4

\* There is such a function: a loop of n steps that stay within the set.
LEMMA LoopRuns ==
    ASSUME NEW n \in Nat, NEW S, NEW first \in S, NEW F \in Rounds(n, S)
    PROVE  RunsOf(n, S, first, F) # {}
<1>0. F \in [1 .. n -> [S -> S]]
  BY DEF Rounds
<1> DEFINE Good(m) == \E h \in [0 .. m -> S] : h[0] = first /\ \A k \in 1 .. m : h[k] = F[k][h[k - 1]]
<1>1. Good(0)
  <2> DEFINE h == [k \in 0 .. 0 |-> first]
  <2>1. h \in [0 .. 0 -> S] /\ h[0] = first
    OBVIOUS
  <2> HIDE DEF h
  <2> QED
    BY <2>1
<1>2. ASSUME NEW m \in 1 .. n, Good(m - 1) PROVE Good(m)
  <2>1. PICK g \in [0 .. m - 1 -> S] : g[0] = first /\ \A k \in 1 .. m - 1 : g[k] = F[k][g[k - 1]]
    BY <1>2
  <2> DEFINE h == [k \in 0 .. m |-> IF k = m THEN F[m][g[m - 1]] ELSE g[k]]
  <2>2. m - 1 \in 0 .. m - 1 /\ \A k \in 0 .. m : k # m => k \in 0 .. m - 1
    OBVIOUS
  <2>0. m \in 1 .. n /\ F \in [1 .. n -> [S -> S]]
    BY <1>0
  <2>3. g[m - 1] \in S /\ F[m][g[m - 1]] \in S /\ \A k \in 0 .. m - 1 : g[k] \in S
    BY <2>0, <2>2
  <2>4. h \in [0 .. m -> S]
    BY <2>2, <2>3
  <2>5. h[0] = first
    BY <2>1
  <2>6. ASSUME NEW k \in 1 .. m PROVE h[k] = F[k][h[k - 1]]
    BY <2>1
  <2> HIDE DEF h
  <2> QED
    BY <2>4, <2>5, <2>6
<1> DEFINE f == [m \in 0 .. n |-> Good(m)]
<1> HIDE DEF Good
<1>3. f[0] \in {TRUE} /\ \A k \in 1 .. n : f[k - 1] \in {TRUE} => f[k] \in {TRUE}
  <2>1. f[0] = Good(0) /\ \A k \in 1 .. n : f[k] = Good(k) /\ f[k - 1] = Good(k - 1)
    OBVIOUS
  <2>2. \A k \in 1 .. n : Good(k - 1) => Good(k)
    BY <1>2
  <2> HIDE DEF f
  <2> QED
    BY <1>1, <2>1, <2>2
<1>4. \A k \in 0 .. n : f[k] \in {TRUE}
  <2> HIDE DEF f
  <2> QED
    BY <1>3, KeptAllAlong
<1>5. f[n] = Good(n) /\ n \in 0 .. n
  OBVIOUS
<1>6. Good(n)
  BY <1>4, <1>5
<1> QED
  BY <1>6 DEF Good, RunsOf

\* One more element is gone or kept.
LEMMA OneKept ==
    ASSUME NEW T, NEW list \in Seq(T), NEW gone, NEW k \in 1 .. Len(list),
           NEW s \in KeptOf(T, list, gone, k - 1)
    PROVE  (IF list[k] \in gone THEN s ELSE Append(s, list[k])) \in KeptOf(T, list, gone, k)
<1>1. /\ s \in Seq(T) /\ k - 1 \in Nat /\ k \in Nat /\ k <= Len(list) /\ Len(list) \in Nat /\ Len(s) \in Nat
      /\ \A j \in 1 .. Len(s) : \E i \in 1 .. k - 1 : s[j] = list[i] /\ list[i] \notin gone
      /\ \A i \in 1 .. k - 1 : list[i] \notin gone => \E j \in 1 .. Len(s) : s[j] = list[i]
      /\ Len(s) <= k - 1 /\ ((\E i \in 1 .. k - 1 : list[i] \in gone) => Len(s) < k - 1)
      /\ Distinct(list) => Distinct(s)
  BY DEF KeptOf
<1>2. \A i \in 1 .. k : i \in 1 .. k - 1 \/ i = k
  BY <1>1
<1>3. \A i \in 1 .. k - 1 : i \in 1 .. k /\ i \in 1 .. Len(list) /\ i # k
  BY <1>1
<1>4. CASE list[k] \in gone
  BY <1>1, <1>3, <1>2, <1>4 DEF KeptOf
<1>5. CASE list[k] \notin gone
  <2> DEFINE t == Append(s, list[k])
  <2>1. /\ list[k] \in T /\ t \in Seq(T) /\ Len(t) = Len(s) + 1
        /\ t[Len(s) + 1] = list[k] /\ \A j \in 1 .. Len(s) : t[j] = s[j]
    BY <1>1, ElementOfSeq, AppendProperties
  <2> HIDE DEF t
  <2>2. \A j \in 1 .. Len(t) : j \in 1 .. Len(s) \/ j = Len(s) + 1
    BY <1>1, <2>1
  <2>3. Len(s) + 1 \in 1 .. Len(t) /\ \A j \in 1 .. Len(s) : j \in 1 .. Len(t)
    BY <1>1, <2>1
  <2>4. ASSUME NEW j \in 1 .. Len(t) PROVE \E i \in 1 .. k : t[j] = list[i] /\ list[i] \notin gone
    <3>1. CASE j \in 1 .. Len(s)
      BY <1>1, <1>3, <2>1, <3>1
    <3>2. CASE j = Len(s) + 1
      BY <1>1, <1>5, <2>1, <3>2
    <3> QED
      BY <2>2, <3>1, <3>2
  <2>5. ASSUME NEW i \in 1 .. k, list[i] \notin gone PROVE \E j \in 1 .. Len(t) : t[j] = list[i]
    BY <1>1, <2>5, <2>1, <2>3, <1>2
  <2>6. Len(t) <= k /\ ((\E i \in 1 .. k : list[i] \in gone) => Len(t) < k)
    BY <1>2, <1>5, <1>1, <2>1
  <2>7. ASSUME Distinct(list) PROVE Distinct(t)
    BY <1>1, <1>3, <2>7, <2>1, <2>2 DEF Distinct
  <2>8. t \in KeptOf(T, list, gone, k)
    BY <2>1, <2>4, <2>5, <2>6, <2>7 DEF KeptOf
  <2> QED
    BY <1>5, <2>8 DEF t
<1> QED
  BY <1>4, <1>5

\* Without keeps what is not gone, in distinct places if it was.
LEMMA WithoutIs ==
    ASSUME NEW T, NEW list \in Seq(T), NEW gone
    PROVE  Without(list, gone) \in KeptOf(T, list, gone, Len(list))
<1> DEFINE N == Len(list)
           step(k, s) == IF list[k] \in gone THEN s ELSE Append(s, list[k])
           F == [k \in 1 .. N |-> [s \in Seq(T) |-> step(k, s)]]
           first == <<>>
           kept == CHOOSE f : Keeping(list, gone, f)
<1>1. N \in Nat /\ \A k \in 1 .. N : list[k] \in T
  BY ElementOfSeq
<1>2. first \in Seq(T) /\ first \in KeptOf(T, list, gone, 0)
  BY EmptySeq DEF KeptOf, Distinct
<1>3. Keeping(list, gone, kept)
  <2>1. \A k \in 1 .. N : \A s \in Seq(T) : step(k, s) \in Seq(T)
    BY <1>1, AppendProperties
  <2> HIDE DEF N, step, first
  <2>2. F \in [1 .. N -> [Seq(T) -> Seq(T)]]
    BY <2>1
  <2>3. \A k \in 1 .. N : \A s \in Seq(T) : F[k][s] = step(k, s)
    OBVIOUS
  <2> HIDE DEF F
  <2>4. PICK h \in [0 .. N -> Seq(T)] : h[0] = first /\ \A k \in 1 .. N : h[k] = F[k][h[k - 1]]
    <3>1. F \in Rounds(N, Seq(T))
      BY <2>2 DEF Rounds
    <3>2. RunsOf(N, Seq(T), first, F) # {}
      BY <1>1, <1>2, <3>1, LoopRuns
    <3> QED
      BY <3>2 DEF RunsOf
  <2>5. ASSUME NEW k \in 0 .. N PROVE h[k] = IF k = 0 THEN first ELSE step(k, h[k - 1])
    <3>1. CASE k = 0
      BY <2>4, <3>1
    <3>2. CASE k # 0
      <4>1. k \in 1 .. N /\ k - 1 \in 0 .. N
        BY <1>1, <3>2
      <4>2. h[k - 1] \in Seq(T)
        BY <4>1
      <4> QED
        BY <2>3, <2>4, <3>2, <4>1, <4>2
    <3> QED
      BY <3>1, <3>2
  <2>6. h = [k \in 0 .. N |-> IF k = 0 THEN first ELSE step(k, h[k - 1])]
    BY <2>5
  <2>7. Keeping(list, gone, h)
    BY <2>6 DEF Keeping, N, step, first
  <2> QED
    BY <2>7, Zenon
<1>4. Without(list, gone) = kept[N]
  BY DEF Without, Keeping
<1> HIDE DEF kept
<1>5. kept = [k \in 0 .. N |-> IF k = 0 THEN first ELSE step(k, kept[k - 1])]
  BY <1>3 DEF Keeping
<1> HIDE DEF first, step, N
<1>6. kept[0] = first /\ \A k \in 1 .. N : kept[k] = step(k, kept[k - 1])
  BY <1>1, <1>5
<1> DEFINE Right(k) == kept[k] \in KeptOf(T, list, gone, k)
           f == [k \in 0 .. N |-> Right(k)]
<1>7. ASSUME NEW k \in 1 .. N, Right(k - 1) PROVE Right(k)
  <2>1. k \in 1 .. Len(list)
    BY DEF N
  <2>2. step(k, kept[k - 1]) \in KeptOf(T, list, gone, k)
    BY <1>7, <2>1, OneKept DEF step
  <2> QED
    BY <1>6, <2>2
<1>8. Right(0)
  BY <1>2, <1>6
<1> HIDE DEF Right
<1>9. f[0] \in {TRUE} /\ \A k \in 1 .. N : f[k - 1] \in {TRUE} => f[k] \in {TRUE}
  <2>1. 0 \in 0 .. N /\ \A k \in 1 .. N : k \in 0 .. N /\ k - 1 \in 0 .. N
    BY <1>1
  <2>2. f[0] = Right(0) /\ \A k \in 1 .. N : f[k] = Right(k) /\ f[k - 1] = Right(k - 1)
    BY <2>1
  <2> HIDE DEF f
  <2> QED
    BY <1>7, <1>8, <2>2
<1>10. \A k \in 0 .. N : f[k] \in {TRUE}
  <2> HIDE DEF f
  <2> QED
    BY <1>1, <1>9, KeptAllAlong
<1>11. N \in 0 .. N /\ f[N] = Right(N)
  BY <1>1
<1>12. Right(N)
  BY <1>10, <1>11
<1> QED
  BY <1>4, <1>12 DEF Right, N

\* A function on 1 .. n is a sequence of n elements.
LEMMA FunctionSeq ==
    ASSUME NEW n \in Nat, NEW S, NEW f \in [1 .. n -> S]
    PROVE  f \in Seq(S) /\ Len(f) = n /\ DOMAIN f = 1 .. n
<1>1. f \in Seq(S)
  BY SeqDef
<1>2. Len(f) \in Nat /\ DOMAIN f = 1 .. Len(f) /\ DOMAIN f = 1 .. n
  BY <1>1, LenProperties
<1>3. Len(f) = n
  BY <1>2
<1> QED
  BY <1>1, <1>2, <1>3

\* What holds of 0 and is handed on by each place to the next holds of all.
LEMMA Stepwise ==
    ASSUME NEW n \in Nat, NEW R, 0 \in R, \A k \in 1 .. n : k - 1 \in R => k \in R
    PROVE  \A k \in 0 .. n : k \in R
<1> DEFINE f == [k \in 0 .. n |-> k \in R]
<1>1. f[0] \in {TRUE} /\ \A k \in 1 .. n : f[k - 1] \in {TRUE} => f[k] \in {TRUE}
  <2>1. 0 \in 0 .. n /\ \A k \in 1 .. n : k \in 0 .. n /\ k - 1 \in 0 .. n
    OBVIOUS
  <2>2. f[0] = (0 \in R) /\ \A k \in 1 .. n : f[k] = (k \in R) /\ f[k - 1] = (k - 1 \in R)
    BY <2>1
  <2> HIDE DEF f
  <2> QED
    BY <2>2
<1>2. \A k \in 0 .. n : f[k] \in {TRUE}
  <2> HIDE DEF f
  <2> QED
    BY <1>1, KeptAllAlong
<1> QED
  BY <1>2

-----------------------------------------------------------------------------
(* Rows on a sheet                                                         *)

\* Each begins a cut behind the one before.
LEMMA StartsIs ==
    ASSUME NEW lengths \in Seq(Nat)
    PROVE  /\ Starts(lengths) \in [1 .. Len(lengths) + 1 -> Nat] /\ Starts(lengths)[1] = 0
           /\ \A k \in 1 .. Len(lengths) : Starts(lengths)[k + 1] = Starts(lengths)[k] + lengths[k] + Kerf
<1> DEFINE n == Len(lengths)
           F == [k \in 1 .. n |-> [x \in Nat |-> x + lengths[k] + Kerf]]
           st == CHOOSE start : StartOf(lengths, start)
<1>1. n \in Nat /\ Kerf \in Nat /\ \A k \in 1 .. n : lengths[k] \in Nat
  BY ElementOfSeq, KerfAssumption DEF KerfAssumption
<1>2. StartOf(lengths, st)
  <2> HIDE DEF n
  <2>1. F \in Rounds(n, Nat) /\ \A k \in 1 .. n : \A x \in Nat : F[k][x] = x + lengths[k] + Kerf
    BY <1>1 DEF Rounds
  <2> HIDE DEF F
  <2>2. PICK h \in [0 .. n -> Nat] : h[0] = 0 /\ \A k \in 1 .. n : h[k] = F[k][h[k - 1]]
    <3>1. RunsOf(n, Nat, 0, F) # {}
      BY <1>1, <2>1, LoopRuns
    <3> QED
      BY <3>1 DEF RunsOf
  <2> DEFINE g == [k \in 1 .. n + 1 |-> h[k - 1]]
  <2>3. ASSUME NEW k \in 1 .. n + 1
        PROVE g[k] = IF k = 1 THEN 0 ELSE g[k - 1] + lengths[k - 1] + Kerf
    <3>1. CASE k = 1
      BY <2>2, <3>1
    <3>2. CASE k # 1
      <4>1. k - 1 \in 1 .. n /\ k - 1 \in 1 .. n + 1 /\ (k - 1) - 1 \in 0 .. n /\ k - 1 \in 0 .. n
        BY <1>1, <3>2
      <4>2. g[k] = h[k - 1] /\ g[k - 1] = h[(k - 1) - 1] /\ h[(k - 1) - 1] \in Nat
        BY <4>1
      <4>3. h[k - 1] = F[k - 1][h[(k - 1) - 1]]
        BY <2>2, <4>1
      <4>4. h[k - 1] = h[(k - 1) - 1] + lengths[k - 1] + Kerf
        BY <2>1, <4>1, <4>2, <4>3
      <4> QED
        BY <3>2, <4>2, <4>4
    <3> QED
      BY <3>1, <3>2
  <2>4. g = [k \in 1 .. n + 1 |-> IF k = 1 THEN 0 ELSE g[k - 1] + lengths[k - 1] + Kerf]
    <3>1. g = [k \in 1 .. n + 1 |-> g[k]]
      OBVIOUS
    <3> HIDE DEF g
    <3> QED
      BY <2>3, <3>1
  <2>5. StartOf(lengths, g)
    <3> HIDE DEF g
    <3> QED
      BY <2>4 DEF StartOf, n
  <2> QED
    BY <2>5, Zenon
<1>3. Starts(lengths) = st
  BY DEF Starts, StartOf
<1> HIDE DEF st
<1>4. st = [k \in 1 .. n + 1 |-> IF k = 1 THEN 0 ELSE st[k - 1] + lengths[k - 1] + Kerf]
  BY <1>2 DEF StartOf
<1> HIDE DEF n
<1>5. st[1] = 0 /\ \A k \in 1 .. n : st[k + 1] = st[k] + lengths[k] + Kerf
  BY <1>1, <1>4
<1> DEFINE R == {k \in 0 .. n : st[k + 1] \in Nat}
<1>6. \A k \in 0 .. n : k \in R
  <2>1. 0 \in R
    BY <1>1, <1>5
  <2>2. ASSUME NEW k \in 1 .. n, k - 1 \in R PROVE k \in R
    <3>1. (k - 1) + 1 = k /\ k \in 0 .. n
      BY <1>1
    <3>2. st[k] \in Nat
      BY <2>2, <3>1
    <3>3. st[k + 1] = st[k] + lengths[k] + Kerf /\ lengths[k] \in Nat
      BY <1>1, <1>5
    <3>4. st[k + 1] \in Nat
      BY <1>1, <3>2, <3>3
    <3> QED
      BY <3>1, <3>4
  <2> HIDE DEF R
  <2> QED
    BY <1>1, <2>1, <2>2, Stepwise
<1>7. \A k \in 1 .. n + 1 : st[k] \in Nat
  <2> SUFFICES ASSUME NEW k \in 1 .. n + 1 PROVE st[k] \in Nat
    OBVIOUS
  <2>1. k - 1 \in 0 .. n /\ (k - 1) + 1 = k
    BY <1>1
  <2> QED
    BY <1>6, <2>1
<1>8. st \in [1 .. n + 1 -> Nat]
  BY <1>4, <1>7
<1> QED
  BY <1>3, <1>5, <1>8 DEF n

\* So all that come before end a cut before it.
LEMMA StartsApart ==
    ASSUME NEW lengths \in Seq(Nat), NEW j \in 1 .. Len(lengths), NEW k \in 1 .. Len(lengths) + 1, j < k
    PROVE  Starts(lengths)[j] + lengths[j] + Kerf <= Starts(lengths)[k]
<1> DEFINE n == Len(lengths)
           st == Starts(lengths)
           R == {i \in 0 .. n : i < j \/ st[j] + lengths[j] + Kerf <= st[i + 1]}
<1>1. n \in Nat /\ Kerf \in Nat /\ \A i \in 1 .. n : lengths[i] \in Nat
  BY ElementOfSeq, KerfAssumption DEF KerfAssumption
<1>2. st \in [1 .. n + 1 -> Nat] /\ \A i \in 1 .. n : st[i + 1] = st[i] + lengths[i] + Kerf
  BY StartsIs
<1> HIDE DEF n, st
<1>3. j \in 1 .. n /\ k \in 1 .. n + 1
  BY DEF n
<1>4. 0 \in R
  BY <1>1, <1>3
<1>5. ASSUME NEW i \in 1 .. n, i - 1 \in R PROVE i \in R
  <2>1. i \in 0 .. n /\ (i - 1) + 1 = i /\ st[i] \in Nat /\ lengths[i] \in Nat /\ i \in 1 .. n + 1
    BY <1>1, <1>2
  <2>2. st[i + 1] = st[i] + lengths[i] + Kerf
    BY <1>2
  <2>3. CASE i < j
    BY <2>1, <2>3
  <2>4. CASE i = j
    BY <1>1, <2>1, <2>2, <2>4
  <2>5. CASE j < i
    <3>1. st[j] + lengths[j] + Kerf <= st[i]
      BY <1>3, <1>5, <2>1, <2>5
    <3>2. st[j] \in Nat /\ lengths[j] \in Nat
      BY <1>1, <1>2, <1>3
    <3>3. st[j] + lengths[j] + Kerf <= st[i + 1]
      <4> DEFINE x == st[j] + lengths[j]
                 y == st[i]
                 z == st[i + 1]
                 l == lengths[i]
      <4>1. x \in Nat /\ y \in Nat /\ l \in Nat /\ z = y + l + Kerf /\ x + Kerf <= y
        BY <2>1, <2>2, <3>1, <3>2
      <4> HIDE DEF x, y, z, l
      <4>2. x + Kerf <= z
        BY <1>1, <4>1
      <4> QED
        BY <4>2 DEF x, z
    <3> QED
      BY <2>1, <3>3
  <2> QED
    BY <1>3, <2>3, <2>4, <2>5
<1>6. \A i \in 0 .. n : i \in R
  <2> HIDE DEF R
  <2> QED
    BY <1>1, <1>4, <1>5, Stepwise
<1>7. k - 1 \in 0 .. n /\ (k - 1) + 1 = k /\ ~(k - 1 < j)
  BY <1>1, <1>3
<1>8. st[j] + lengths[j] + Kerf <= st[k]
  BY <1>6, <1>7
<1> QED
  BY <1>8 DEF st

\* What the first k of a line take is the sum over the numbers they have in
\* another order.
LEMMA LineIs ==
    ASSUME NEW lengths \in Seq(Nat), NEW other \in Seq(Nat), Len(other) = Len(lengths),
           NEW by \in Orders(Len(lengths)), \A k \in 1 .. Len(lengths) : other[k] = lengths[by[k]],
           NEW h \in [SUBSET (1 .. Len(lengths)) -> Int],
           Splits(1 .. Len(lengths), [k \in 1 .. Len(lengths) |-> lengths[k] + Kerf], h)
    PROVE  Starts(other)[Len(lengths) + 1] = h[1 .. Len(lengths)]
<1> DEFINE n == Len(lengths)
           g == [k \in 1 .. n |-> lengths[k] + Kerf]
           st == Starts(other)
           Image(k) == {by[i] : i \in 1 .. k}
           R == {k \in 0 .. n : st[k + 1] = h[Image(k)]}
<1>1. n \in Nat /\ Kerf \in Nat /\ \A k \in 1 .. n : lengths[k] \in Nat
  BY ElementOfSeq, KerfAssumption DEF KerfAssumption
<1>2. st[1] = 0 /\ \A k \in 1 .. n : st[k + 1] = st[k] + other[k] + Kerf /\ st[k] \in Nat
  <2>1. /\ st \in [1 .. n + 1 -> Nat] /\ st[1] = 0
        /\ \A k \in 1 .. n : st[k + 1] = st[k] + other[k] + Kerf
    BY StartsIs
  <2> HIDE DEF st, n
  <2>2. \A k \in 1 .. n : k \in 1 .. n + 1
    BY <1>1
  <2> QED
    BY <2>1, <2>2
<1>3. /\ \A i \in 1 .. n : by[i] \in 1 .. n
      /\ \A i, j \in 1 .. n : by[i] = by[j] => i = j
      /\ \A i \in 1 .. n : \E k \in 1 .. n : by[k] = i
  BY DEF Orders
<1>4. h[{}] = 0 /\ \A s \in SUBSET (1 .. n) : \A x \in s : h[s] = g[x] + h[s \ {x}]
  BY DEF Splits
<1>5. \A k \in 1 .. n : other[k] = lengths[by[k]] /\ g[by[k]] = lengths[by[k]] + Kerf
  BY <1>3
<1> HIDE DEF n, st, g
<1>6. 0 \in R
  <2>1. Image(0) = {} /\ 0 + 1 = 1 /\ 0 \in 0 .. n
    BY <1>1
  <2> HIDE DEF Image
  <2> QED
    BY <1>2, <1>4, <2>1
<1>7. ASSUME NEW k \in 1 .. n, k - 1 \in R PROVE k \in R
  <2>1. k \in 0 .. n /\ (k - 1) + 1 = k
    BY <1>1
  <2>2. st[k] = h[Image(k - 1)]
    BY <1>7, <2>1
  <2>3. \A i \in 1 .. k : i \in 1 .. n
    BY <1>1
  <2>4. \A i \in 1 .. k : i \in 1 .. k - 1 \/ i = k
    BY <1>1
  <2>5. \A i \in 1 .. k - 1 : i \in 1 .. k /\ i # k
    BY <1>1
  <2>6. k \in 1 .. k
    BY <1>1
  <2>7. Image(k) \in SUBSET (1 .. n) /\ by[k] \in Image(k)
    <3>1. \A i \in 1 .. k : by[i] \in 1 .. n
      BY <1>3, <2>3
    <3>2. by[k] \in Image(k)
      BY <2>6
    <3> QED
      BY <3>1, <3>2
  <2>8. Image(k) \ {by[k]} = Image(k - 1)
    <3>1. ASSUME NEW x \in Image(k), x # by[k] PROVE x \in Image(k - 1)
      BY <3>1, <2>4
    <3>2. ASSUME NEW x \in Image(k - 1) PROVE x \in Image(k) /\ x # by[k]
      <4>1. PICK i \in 1 .. k - 1 : x = by[i]
        BY <3>2
      <4>2. i \in 1 .. k /\ i # k /\ i \in 1 .. n
        BY <2>3, <2>5
      <4>3. by[i] # by[k]
        BY <1>3, <4>2
      <4> QED
        BY <4>1, <4>2, <4>3
    <3> HIDE DEF Image
    <3> QED
      BY <3>1, <3>2
  <2> HIDE DEF Image
  <2>9. h[Image(k)] = g[by[k]] + h[Image(k - 1)]
    <3> DEFINE I == Image(k)
               x == by[k]
    <3>1. I \in SUBSET (1 .. n) /\ x \in I /\ I \ {x} = Image(k - 1)
      BY <2>7, <2>8
    <3> HIDE DEF I, x
    <3>2. h[I] = g[x] + h[I \ {x}]
      BY <1>4, <3>1, Zenon
    <3> QED
      BY <3>1, <3>2 DEF I, x
  <2>10. st[k + 1] = st[k] + other[k] + Kerf
    BY <1>2
  <2>11. g[by[k]] = other[k] + Kerf /\ other[k] \in Nat /\ st[k] \in Nat
    BY <1>1, <1>2, <1>3, <1>5
  <2> DEFINE x == st[k]
             y == other[k]
             z == g[by[k]]
  <2>12. h[Image(k)] = z + x /\ z = y + Kerf /\ st[k + 1] = x + y + Kerf /\ x \in Nat /\ y \in Nat
    BY <2>2, <2>9, <2>10, <2>11
  <2> HIDE DEF x, y, z
  <2>13. st[k + 1] = h[Image(k)]
    BY <1>1, <2>12
  <2> QED
    BY <2>1, <2>13
<1>8. \A k \in 0 .. n : k \in R
  <2> HIDE DEF R
  <2> QED
    BY <1>1, <1>6, <1>7, Stepwise
<1>9. n \in 0 .. n /\ Image(n) = 1 .. n
  <2>1. ASSUME NEW i \in 1 .. n PROVE i \in Image(n)
    <3>1. PICK k \in 1 .. n : by[k] = i
      BY <1>3
    <3> QED
      BY <3>1
  <2>2. \A x \in Image(n) : x \in 1 .. n
    BY <1>3
  <2>3. n \in 0 .. n
    BY <1>1
  <2> HIDE DEF Image
  <2>4. Image(n) = 1 .. n
    BY <2>1, <2>2
  <2> QED
    BY <2>3, <2>4
<1> QED
  BY <1>8, <1>9 DEF st, n

\* One more sequence is joined to those before.
LEMMA OneJoined ==
    ASSUME NEW T, NEW seqs \in Seq(Seq(T)), NEW n \in 1 .. Len(seqs), NEW flat \in FlatOf(T, seqs, n - 1)
    PROVE  flat \o seqs[n] \in FlatOf(T, seqs, n)
<1> DEFINE new == seqs[n]
           l == Len(flat)
           m == Len(new)
           all == flat \o new
<1>1. new \in Seq(T) /\ flat \in Seq(T) /\ m \in Nat /\ l \in Nat /\ n \in Nat
  BY ElementOfSeq, LenProperties DEF FlatOf
<1>2. PICK place \in PlacesOf(seqs, n - 1, flat) : TRUE
  BY DEF FlatOf
<1>3. /\ \A i \in 1 .. l : place[i] \in Spots(seqs, n - 1)
      /\ \A i, j \in 1 .. l : place[i] = place[j] => i = j
      /\ \A si \in Spots(seqs, n - 1) : \E i \in 1 .. l : place[i] = si
      /\ \A i \in 1 .. l : flat[i] = seqs[place[i][1]][place[i][2]]
  BY <1>2 DEF PlacesOf
<1>4. /\ all \in Seq(T) /\ Len(all) = l + m
      /\ \A i \in 1 .. l + m : all[i] = IF i <= l THEN flat[i] ELSE new[i - l]
  BY <1>1, ConcatProperties
<1> HIDE DEF all
<1> DEFINE to == [i \in 1 .. l + m |-> IF i <= l THEN place[i] ELSE <<n, i - l>>]
<1>5. \A si \in Spots(seqs, n - 1) : si \in Spots(seqs, n) /\ si[1] # n
  BY <1>1 DEF Spots
<1>6. \A i \in 1 .. l + m : ~(i <= l) => i - l \in 1 .. m /\ <<n, i - l>> \in Spots(seqs, n)
  BY <1>1 DEF Spots
<1>7. \A si \in Spots(seqs, n) : si \in Spots(seqs, n - 1) \/ (si[1] = n /\ si[2] \in 1 .. m /\ si = <<n, si[2]>>)
  BY <1>1 DEF Spots
<1>8. \A i \in 1 .. l + m : i <= l => i \in 1 .. l
  BY <1>1
<1> HIDE DEF new, l, m
<1>9. \A i \in 1 .. l + m : to[i] \in Spots(seqs, n)
  BY <1>3, <1>5, <1>6, <1>8
<1>10. ASSUME NEW i \in 1 .. l + m, NEW j \in 1 .. l + m, to[i] = to[j] PROVE i = j
  <2>1. CASE i <= l /\ j <= l
    BY <1>3, <1>8, <1>10, <2>1
  <2>2. CASE ~(i <= l) /\ ~(j <= l)
    BY <1>10, <2>2, <1>1
  <2>3. CASE i <= l /\ ~(j <= l)
    BY <1>3, <1>5, <1>8, <2>3, <1>10
  <2>4. CASE ~(i <= l) /\ j <= l
    BY <1>3, <1>5, <1>8, <2>4, <1>10
  <2> QED
    BY <2>1, <2>2, <2>3, <2>4
<1>11. ASSUME NEW si \in Spots(seqs, n) PROVE \E i \in 1 .. l + m : to[i] = si
  <2>1. CASE si \in Spots(seqs, n - 1)
    BY <1>3, <2>1, <1>1
  <2>2. CASE si[1] = n /\ si[2] \in 1 .. m /\ si = <<n, si[2]>>
    <3> DEFINE i == l + si[2]
    <3>1. i \in 1 .. l + m /\ ~(i <= l) /\ i - l = si[2]
      BY <1>1, <2>2
    <3>2. to[i] = <<n, si[2]>>
      BY <3>1
    <3> HIDE DEF i, to
    <3> QED
      BY <2>2, <3>1, <3>2
  <2> QED
    BY <1>7, <2>1, <2>2
<1>12. ASSUME NEW i \in 1 .. l + m PROVE all[i] = seqs[to[i][1]][to[i][2]]
  <2>1. CASE i <= l
    <3>1. to[i] = place[i] /\ all[i] = flat[i] /\ i \in 1 .. l
      BY <1>4, <1>8, <2>1
    <3> HIDE DEF to
    <3> QED
      BY <1>3, <3>1
  <2>2. CASE ~(i <= l)
    <3>1. to[i] = <<n, i - l>> /\ all[i] = new[i - l]
      BY <1>4, <2>2
    <3> HIDE DEF to
    <3> QED
      BY <3>1 DEF new
  <2> QED
    BY <2>1, <2>2
<1>13. to \in PlacesOf(seqs, n, all)
  <2>1. to \in [1 .. l + m -> Spots(seqs, n)]
    <3>1. to = [i \in 1 .. l + m |-> to[i]]
      OBVIOUS
    <3> HIDE DEF to
    <3> QED
      BY <1>9, <3>1
  <2> HIDE DEF to
  <2> QED
    BY <1>4, <1>10, <1>11, <1>12, <2>1 DEF PlacesOf
<1> QED
  BY <1>4, <1>13 DEF FlatOf, all, new

\* Nothing is joined at first.
LEMMA NoneJoined ==
    ASSUME NEW T, NEW seqs
    PROVE  <<>> \in FlatOf(T, seqs, 0)
<1> DEFINE flat == <<>>
<1>1. flat \in Seq(T) /\ Len(flat) = 0
  BY EmptySeq
<1>2. Spots(seqs, 0) = {}
  BY DEF Spots
<1>3. \A i : i \notin 1 .. 0
  OBVIOUS
<1> DEFINE place == [i \in 1 .. 0 |-> i]
<1>4. place \in [1 .. 0 -> Spots(seqs, 0)]
  BY <1>3
<1> HIDE DEF flat, place
<1>5. place \in PlacesOf(seqs, 0, flat)
  BY <1>1, <1>2, <1>3, <1>4 DEF PlacesOf
<1> QED
  BY <1>1, <1>5 DEF FlatOf, flat

\* FlattenSeq of the community modules joins all of them.
LEMMA FlattenIs ==
    ASSUME NEW T, NEW seqs \in Seq(Seq(T))
    PROVE  FlattenSeq(seqs) \in FlatOf(T, seqs, Len(seqs))
<1> DEFINE n == Len(seqs)
<1>1. n \in Nat /\ \A k \in 1 .. n : seqs[k] \in Seq(T)
  BY ElementOfSeq, LenProperties
<1>2. CASE n = 0
  BY <1>2, EmptySeq, NoneJoined DEF FlattenSeq
<1>3. CASE n # 0
  <2> DEFINE fl == CHOOSE f : FlattenOf(seqs, f)
             first == <<>>
             F == [k \in 1 .. n |-> [x \in Seq(T) |-> x \o seqs[k]]]
  <2>1. FlattenSeq(seqs) = fl[n]
    BY <1>3 DEF FlattenSeq, FlattenOf
  <2>2. FlattenOf(seqs, fl)
    <3> HIDE DEF n
    <3>1. \A k \in 1 .. n : \A x \in Seq(T) : x \o seqs[k] \in Seq(T)
      BY <1>1, ConcatProperties
    <3>2. F \in Rounds(n, Seq(T)) /\ \A k \in 1 .. n : \A x \in Seq(T) : F[k][x] = x \o seqs[k]
      BY <3>1 DEF Rounds
    <3>3. first \in Seq(T)
      BY EmptySeq
    <3> HIDE DEF F, first
    <3>4. PICK h \in [0 .. n -> Seq(T)] : h[0] = first /\ \A k \in 1 .. n : h[k] = F[k][h[k - 1]]
      <4>1. RunsOf(n, Seq(T), first, F) # {}
        BY <1>1, <3>2, <3>3, LoopRuns
      <4> QED
        BY <4>1 DEF RunsOf
    <3>5. ASSUME NEW k \in 1 .. n PROVE h[k] = IF k = 1 THEN seqs[k] ELSE h[k - 1] \o seqs[k]
      <4>1. k - 1 \in 0 .. n /\ h[k - 1] \in Seq(T) /\ seqs[k] \in Seq(T)
        BY <1>1
      <4>2. h[k] = h[k - 1] \o seqs[k]
        BY <3>2, <3>4, <4>1
      <4>3. CASE k = 1
        <5>1. h[k - 1] = <<>>
          BY <3>4, <4>3 DEF first
        <5>2. <<>> \o seqs[k] = seqs[k]
          BY <4>1, ConcatEmptySeq
        <5> QED
          BY <4>2, <4>3, <5>1, <5>2
      <4> QED
        BY <4>2, <4>3
    <3> DEFINE g == [k \in 1 .. n |-> h[k]]
    <3>6. g = [k \in 1 .. n |-> IF k = 1 THEN seqs[k] ELSE g[k - 1] \o seqs[k]]
      <4>1. ASSUME NEW k \in 1 .. n PROVE g[k] = IF k = 1 THEN seqs[k] ELSE g[k - 1] \o seqs[k]
        <5>1. k # 1 => k - 1 \in 1 .. n
          BY <1>1
        <5>2. k # 1 => g[k - 1] = h[k - 1]
          BY <5>1
        <5>3. g[k] = h[k]
          OBVIOUS
        <5> HIDE DEF g
        <5> QED
          BY <3>5, <5>2, <5>3
      <4>2. g = [k \in 1 .. n |-> g[k]]
        OBVIOUS
      <4> HIDE DEF g
      <4> QED
        BY <4>1, <4>2
    <3>7. FlattenOf(seqs, g)
      <4> HIDE DEF g
      <4> QED
        BY <3>6 DEF FlattenOf, n
    <3> QED
      BY <3>7, Zenon
  <2> HIDE DEF fl, first
  <2>3. fl = [k \in 1 .. n |-> IF k = 1 THEN seqs[k] ELSE fl[k - 1] \o seqs[k]]
    BY <2>2 DEF FlattenOf
  <2> HIDE DEF n
  <2>4. \A k \in 1 .. n : fl[k] = IF k = 1 THEN seqs[k] ELSE fl[k - 1] \o seqs[k]
    BY <2>3
  <2> DEFINE R == {k \in 0 .. n : k = 0 \/ fl[k] \in FlatOf(T, seqs, k)}
  <2>5. 0 \in R
    BY <1>1
  <2>6. ASSUME NEW k \in 1 .. n, k - 1 \in R PROVE k \in R
    <3>1. k \in 0 .. n /\ k \in 1 .. Len(seqs)
      BY <1>1 DEF n
    <3>2. CASE k = 1
      <4>1. k - 1 = 0
        BY <3>2
      <4>2. <<>> \in FlatOf(T, seqs, k - 1)
        BY <4>1, NoneJoined
      <4>3. <<>> \o seqs[k] \in FlatOf(T, seqs, k)
        BY <3>1, <4>2, OneJoined
      <4>4. <<>> \o seqs[k] = seqs[k]
        BY <1>1, ConcatEmptySeq
      <4> QED
        BY <2>4, <3>1, <3>2, <4>3, <4>4
    <3>3. CASE k # 1
      <4>1. k - 1 # 0
        BY <3>3
      <4>2. fl[k - 1] \in FlatOf(T, seqs, k - 1)
        BY <2>6, <4>1
      <4>3. fl[k - 1] \o seqs[k] \in FlatOf(T, seqs, k)
        BY <3>1, <4>2, OneJoined
      <4> QED
        BY <2>4, <3>1, <3>3, <4>3
    <3> QED
      BY <3>2, <3>3
  <2>7. \A k \in 0 .. n : k \in R
    <3> HIDE DEF R
    <3> QED
      BY <1>1, <2>5, <2>6, Stepwise
  <2>8. n \in 0 .. n
    BY <1>1
  <2>9. fl[n] \in FlatOf(T, seqs, n)
    BY <1>3, <2>7, <2>8
  <2> QED
    BY <2>1, <2>9 DEF n
<1> QED
  BY <1>2, <1>3

\* The widths of a row are numbers.
LEMMA WidthsTyped ==
    ASSUME NEW row \in Seq(Slabs), NEW axis \in Axes
    PROVE  /\ Widths(row, axis) \in Seq(Nat) /\ Len(Widths(row, axis)) = Len(row)
           /\ DOMAIN row = 1 .. Len(row) /\ Len(row) \in Nat
           /\ \A i \in 1 .. Len(row) : Widths(row, axis)[i] = row[i].size[axis] /\ row[i] \in Slabs
<1>1. DOMAIN row = 1 .. Len(row) /\ Len(row) \in Nat
  BY LenProperties
<1>2. \A i \in 1 .. Len(row) : row[i] \in Slabs
  BY ElementOfSeq
<1>3. \A i \in 1 .. Len(row) : row[i].size[axis] \in Nat
  BY <1>2 DEF Slabs, Lengths
<1>4. Widths(row, axis) \in [1 .. Len(row) -> Nat]
  BY <1>1, <1>3 DEF Widths
<1>5. \A i \in 1 .. Len(row) : Widths(row, axis)[i] = row[i].size[axis]
  BY <1>1 DEF Widths
<1> QED
  BY <1>1, <1>2, <1>4, <1>5, FunctionSeq

\* A row put somewhere.
LEMMA RowAtIs ==
    ASSUME NEW row \in Seq(Slabs), NEW axis \in Axes, NEW y \in Nat
    PROVE  /\ RowAt(row, y, axis) \in Seq(Numbered) /\ Len(RowAt(row, y, axis)) = Len(row)
           /\ \A i \in 1 .. Len(row) :
                 /\ RowAt(row, y, axis)[i].id = row[i].id
                 /\ RowAt(row, y, axis)[i].size = row[i].size
                 /\ RowAt(row, y, axis)[i].at[axis] = Starts(Widths(row, axis))[i]
                 /\ RowAt(row, y, axis)[i].at[Across(axis)] = y
<1> DEFINE st == Starts(Widths(row, axis))
           spot(i) == [a \in Axes |-> IF a = axis THEN st[i] ELSE y]
           n == Len(row)
<1>1. /\ DOMAIN row = 1 .. n /\ n \in Nat
      /\ \A i \in 1 .. n : row[i] \in Slabs
      /\ Widths(row, axis) \in Seq(Nat) /\ Len(Widths(row, axis)) = n
  BY WidthsTyped
<1>2. \A i \in 1 .. n : st[i] \in Nat
  <2>1. st \in [1 .. n + 1 -> Nat]
    BY <1>1, StartsIs
  <2>2. \A i \in 1 .. n : i \in 1 .. n + 1
    BY <1>1
  <2> HIDE DEF st, n
  <2> QED
    BY <2>1, <2>2
<1>3. RowAt(row, y, axis) = [i \in 1 .. n |-> [id |-> row[i].id, size |-> row[i].size, at |-> spot(i)]]
  BY <1>1 DEF RowAt
<1> HIDE DEF st, n
<1>4. \A i \in 1 .. n : spot(i) \in [Axes -> Nat] /\ spot(i)[axis] = st[i] /\ spot(i)[Across(axis)] = y
  BY <1>2, AcrossAxis
<1> HIDE DEF spot
<1>5. \A i \in 1 .. n : [id |-> row[i].id, size |-> row[i].size, at |-> spot(i)] \in Numbered
  BY <1>1, <1>4 DEF Slabs, Numbered
<1>6. RowAt(row, y, axis) \in [1 .. n -> Numbered]
  BY <1>3, <1>5
<1>7. \A i \in 1 .. n :
          RowAt(row, y, axis)[i] = [id |-> row[i].id, size |-> row[i].size, at |-> spot(i)]
  BY <1>3
<1>8. RowAt(row, y, axis) \in Seq(Numbered) /\ Len(RowAt(row, y, axis)) = n
  BY <1>1, <1>6, FunctionSeq
<1> DEFINE ra == RowAt(row, y, axis)
<1> HIDE DEF ra
<1>9. ASSUME NEW i \in 1 .. n
      PROVE  ra[i].id = row[i].id /\ ra[i].size = row[i].size /\ ra[i].at[axis] = st[i] /\ ra[i].at[Across(axis)] = y
  <2>1. ra[i] = [id |-> row[i].id, size |-> row[i].size, at |-> spot(i)]
    BY <1>7 DEF ra
  <2>2. ra[i].id = row[i].id /\ ra[i].size = row[i].size /\ ra[i].at = spot(i)
    BY <2>1
  <2> QED
    BY <1>4, <2>2
<1> QED
  BY <1>8, <1>9, Zenon DEF n, st, ra

\* Every piece of some rows is laid where it belongs, and nothing else.
LEMMA InRowsIs ==
    ASSUME NEW rows \in Seq(Seq(Slabs)), NEW depths \in Seq(Nat), Len(depths) = Len(rows), NEW axis \in Axes
    PROVE  /\ InRows(rows, depths, axis) \in Seq(Numbered)
           /\ Laying(rows, depths, axis, InRows(rows, depths, axis)) # {}
<1> DEFINE n == Len(rows)
           top == Starts(depths)
           seqs == [k \in 1 .. n |-> RowAt(rows[k], top[k], axis)]
           flat == InRows(rows, depths, axis)
<1>1. n \in Nat /\ DOMAIN rows = 1 .. n /\ \A k \in 1 .. n : rows[k] \in Seq(Slabs)
  BY LenProperties, ElementOfSeq
<1>2. \A k \in 1 .. n : top[k] \in Nat
  <2>1. top \in [1 .. n + 1 -> Nat]
    BY StartsIs
  <2>2. \A i \in 1 .. n : i \in 1 .. n + 1
    BY <1>1
  <2> HIDE DEF top, n
  <2> QED
    BY <2>1, <2>2
<1>3. flat = FlattenSeq(seqs)
  BY <1>1 DEF InRows, RowAt, Widths
<1> HIDE DEF flat, n, top
<1>4. ASSUME NEW k \in 1 .. n
      PROVE  /\ seqs[k] \in Seq(Numbered) /\ Len(seqs[k]) = Len(rows[k])
             /\ \A i \in 1 .. Len(rows[k]) :
                   /\ seqs[k][i].id = rows[k][i].id
                   /\ seqs[k][i].size = rows[k][i].size
                   /\ seqs[k][i].at[axis] = Starts(Widths(rows[k], axis))[i]
                   /\ seqs[k][i].at[Across(axis)] = top[k]
  <2>1. seqs[k] = RowAt(rows[k], top[k], axis)
    OBVIOUS
  <2> HIDE DEF seqs
  <2> QED
    BY <1>1, <1>2, <2>1, RowAtIs
<1>5. seqs \in Seq(Seq(Numbered)) /\ Len(seqs) = n
  <2>1. seqs \in [1 .. n -> Seq(Numbered)]
    BY <1>4
  <2> HIDE DEF seqs
  <2> QED
    BY <1>1, <2>1, FunctionSeq
<1> HIDE DEF seqs
<1>6. flat \in FlatOf(Numbered, seqs, n)
  BY <1>3, <1>5, FlattenIs
<1>7. PICK place \in PlacesOf(seqs, n, flat) : TRUE
  BY <1>6 DEF FlatOf
<1>8. Spots(seqs, n) = Spots(rows, n)
  BY <1>4 DEF Spots
<1>9. \A i \in 1 .. Len(flat) : place[i][1] \in 1 .. n /\ place[i][2] \in 1 .. Len(rows[place[i][1]])
  BY <1>7, <1>8 DEF PlacesOf, Spots
<1>10. ASSUME NEW i \in 1 .. Len(flat)
       PROVE  /\ flat[i].id = rows[place[i][1]][place[i][2]].id
              /\ flat[i].size = rows[place[i][1]][place[i][2]].size
              /\ flat[i].at[axis] = Starts(Widths(rows[place[i][1]], axis))[place[i][2]]
              /\ flat[i].at[Across(axis)] = top[place[i][1]]
  <2> DEFINE r == place[i][1]
             c == place[i][2]
  <2>1. flat[i] = seqs[r][c] /\ r \in 1 .. n /\ c \in 1 .. Len(rows[r])
    BY <1>7, <1>9 DEF PlacesOf
  <2> HIDE DEF r, c
  <2>2. flat[i].id = rows[r][c].id /\ flat[i].size = rows[r][c].size
        /\ flat[i].at[axis] = Starts(Widths(rows[r], axis))[c] /\ flat[i].at[Across(axis)] = top[r]
    BY <1>4, <2>1
  <2> QED
    BY <2>2 DEF r, c
<1>11. place \in Laying(rows, depths, axis, flat)
  BY <1>7, <1>8, <1>10 DEF PlacesOf, n, Laying, top
<1> QED
  BY <1>6, <1>11 DEF FlatOf, flat

\* Pieces of which one ends a cut before the other along an axis are not too
\* close.
LEMMA SeparateClear ==
    ASSUME NEW p \in Numbered, NEW q \in Numbered, NEW a \in Axes,
           Hi(p, a) + Kerf <= Lo(q, a) \/ Hi(q, a) + Kerf <= Lo(p, a)
    PROVE  ~TooClose(p, q)
<1> DEFINE g == Gap(p, q, a)
           o == Gap(p, q, Across(a))
<1>1. Across(a) \in Axes /\ Kerf \in Nat
  BY AcrossAxis, KerfAssumption DEF KerfAssumption
<1>2. g \in Nat /\ o \in Nat
  BY <1>1, GapNumber
<1>3. g >= Kerf
  <2>1. g >= Lo(q, a) - Hi(p, a) /\ g >= Lo(p, a) - Hi(q, a)
    BY GapNumber
  <2>2. Lo(q, a) \in Nat /\ Hi(p, a) \in Nat /\ Lo(p, a) \in Nat /\ Hi(q, a) \in Nat
    BY PieceNumbers
  <2> HIDE DEF g
  <2> QED
    BY <1>1, <1>2, <2>1, <2>2
<1>4. TooClose(p, q) <=> g * g + o * o < Kerf * Kerf
  <2>1. CASE a = 1
    BY <2>1 DEF Across, TooClose
  <2>2. CASE a = 2
    <3>1. Across(a) = 1
      BY <2>2 DEF Across
    <3> DEFINE x == g * g
               y == o * o
    <3>2. x \in Nat /\ y \in Nat
      BY <1>2
    <3>3. TooClose(p, q) <=> y + x < Kerf * Kerf
      BY <2>2, <3>1 DEF TooClose
    <3> HIDE DEF x, y
    <3>4. x + y = y + x
      BY <3>2
    <3>5. TooClose(p, q) <=> x + y < Kerf * Kerf
      BY <3>3, <3>4
    <3> QED
      BY <3>5 DEF x, y
  <2> QED
    BY <2>1, <2>2 DEF Axes
<1> HIDE DEF g, o
<1>5. Kerf * Kerf <= g * g /\ Kerf * Kerf \in Nat
  BY <1>1, <1>2, <1>3, ProductsGrow
<1>6. o * o \in Nat /\ g * g \in Nat
  BY <1>2
<1> DEFINE x == g * g
           y == o * o
           z == Kerf * Kerf
<1>7. x \in Nat /\ y \in Nat /\ z \in Nat /\ z <= x
  BY <1>5, <1>6
<1>8. TooClose(p, q) <=> x + y < z
  BY <1>4
<1> HIDE DEF x, y, z
<1> QED
  BY <1>7, <1>8

\* The pieces of a sheet.
LEMMA NumberedPieces ==
    ASSUME NEW pieces \in Seq(Numbered)
    PROVE  /\ DOMAIN pieces = 1 .. Len(pieces) /\ Len(pieces) \in Nat
           /\ \A i \in 1 .. Len(pieces) : pieces[i] \in Numbered
BY LenProperties, ElementOfSeq

\* Rows whose pieces are no deeper than they are leave a cut between any two
\* pieces, and lie on a sheet that is long enough.
LEMMA RowsFit ==
    ASSUME NEW rows \in Seq(Seq(Slabs)), NEW depths \in Seq(Nat), Len(depths) = Len(rows), NEW axis \in Axes,
           \A k \in 1 .. Len(rows) : \A i \in 1 .. Len(rows[k]) :
                rows[k][i].size[Across(axis)] <= depths[k],
           NEW size \in [Axes -> Lengths]
    PROVE  /\ InRows(rows, depths, axis) \in Seq(Numbered)
           /\ Clear(InRows(rows, depths, axis))
           /\ RowsWithin(rows, depths, axis, size) =>
                OnSheet([size |-> size, pieces |-> InRows(rows, depths, axis)])
<1> DEFINE n == Len(rows)
           top == Starts(depths)
           flat == InRows(rows, depths, axis)
           b == Across(axis)
           start(k) == Starts(Widths(rows[k], axis))
           wide(k) == Widths(rows[k], axis)
<1>1. n \in Nat /\ DOMAIN rows = 1 .. n /\ \A k \in 1 .. n : rows[k] \in Seq(Slabs)
  BY LenProperties, ElementOfSeq
<1>2. PICK place \in Laying(rows, depths, axis, flat) : TRUE
  BY InRowsIs
<1>3. flat \in Seq(Numbered)
  BY InRowsIs
<1>4. Kerf \in Nat /\ b \in Axes /\ \A a \in Axes : a = axis \/ a = b
  BY KerfAssumption, AcrossAxis DEF KerfAssumption
<1>5. ASSUME NEW k \in 1 .. n
      PROVE  /\ top[k] \in Nat /\ depths[k] \in Nat /\ top[k] + depths[k] + Kerf <= top[n + 1]
             /\ \A l \in 1 .. n : k < l => top[k] + depths[k] + Kerf <= top[l]
  <2>1. top \in [1 .. n + 1 -> Nat] /\ k \in 1 .. n + 1 /\ k < n + 1 /\ n + 1 \in 1 .. n + 1
    BY <1>1, StartsIs
  <2>2. \A l \in 1 .. n : l \in 1 .. n + 1
    BY <1>1
  <2>3. \A l \in 1 .. n + 1 : k < l => top[k] + depths[k] + Kerf <= top[l]
    BY StartsApart
  <2>4. depths[k] \in Nat
    BY ElementOfSeq
  <2> HIDE DEF top, n
  <2> QED
    BY <2>1, <2>2, <2>3, <2>4
<1>6. ASSUME NEW k \in 1 .. n, NEW i \in 1 .. Len(rows[k])
      PROVE  /\ start(k)[i] \in Nat /\ rows[k][i] \in Slabs
             /\ start(k)[i] + rows[k][i].size[axis] + Kerf <= start(k)[Len(rows[k]) + 1]
             /\ \A j \in 1 .. Len(rows[k]) : i < j => start(k)[i] + rows[k][i].size[axis] + Kerf <= start(k)[j]
  <2> DEFINE w == wide(k)
             m == Len(rows[k])
             st == start(k)
  <2>1. /\ w \in Seq(Nat) /\ Len(w) = m /\ m \in Nat /\ w[i] = rows[k][i].size[axis] /\ rows[k][i] \in Slabs
    BY <1>1, WidthsTyped
  <2>2. st = Starts(w)
    OBVIOUS
  <2>3. i \in 1 .. m
    OBVIOUS
  <2> HIDE DEF w, m, st
  <2>4. st \in [1 .. m + 1 -> Nat]
    BY <2>1, <2>2, StartsIs
  <2>5. \A j \in 1 .. m + 1 : i < j => st[i] + w[i] + Kerf <= st[j]
    BY <2>1, <2>2, <2>3, StartsApart
  <2>6. m \in Nat /\ i \in 1 .. m + 1 /\ i < m + 1 /\ m + 1 \in 1 .. m + 1 /\ \A j \in 1 .. m : j \in 1 .. m + 1
    <3>1. m \in Nat
      BY <2>1
    <3> QED
      BY <2>3, <3>1
  <2>7. /\ st[i] \in Nat
        /\ st[i] + rows[k][i].size[axis] + Kerf <= st[m + 1]
        /\ \A j \in 1 .. m : i < j => st[i] + rows[k][i].size[axis] + Kerf <= st[j]
    BY <2>1, <2>4, <2>5, <2>6
  <2> QED
    BY <2>1, <2>7 DEF st, m
<1> HIDE DEF n, top, flat, b, start
<1> DEFINE At(i, k, c) ==
               /\ k \in 1 .. n /\ c \in 1 .. Len(rows[k])
               /\ place[i] = <<k, c>>
               /\ Lo(flat[i], axis) = start(k)[c] /\ Lo(flat[i], b) = top[k]
               /\ Hi(flat[i], axis) = start(k)[c] + rows[k][c].size[axis]
               /\ Hi(flat[i], b) = top[k] + rows[k][c].size[b]
               /\ rows[k][c].size[axis] \in Nat /\ rows[k][c].size[b] \in Nat
               /\ rows[k][c].size[b] <= depths[k]
<1>7. ASSUME NEW i \in 1 .. Len(flat)
      PROVE  \E k, c : At(i, k, c)
  <2>1. place[i] \in Spots(rows, n)
    BY <1>2 DEF Laying, n
  <2>0. /\ place[i][1] \in 1 .. n /\ place[i][2] \in Nat /\ place[i][2] \in 1 .. Len(rows[place[i][1]])
        /\ place[i] = <<place[i][1], place[i][2]>>
    BY <2>1 DEF Spots
  <2>2. PICK k \in 1 .. n, c \in Nat : place[i] = <<k, c>> /\ c \in 1 .. Len(rows[k])
    BY <2>0, Zenon
  <2>3. place[i][1] = k /\ place[i][2] = c
    BY <2>2
  <2>4. /\ flat[i].size = rows[k][c].size
        /\ flat[i].at[axis] = start(k)[c] /\ flat[i].at[b] = top[k]
    BY <1>2, <2>3 DEF Laying, start, top, b
  <2>5. rows[k][c] \in Slabs
    BY <1>6, <2>2
  <2>6. rows[k][c].size[axis] \in Nat /\ rows[k][c].size[b] \in Nat
    BY <1>4, <2>5 DEF Slabs, Lengths
  <2>7. rows[k][c].size[b] <= depths[k]
    BY <2>2 DEF b, n
  <2>8. /\ Lo(flat[i], axis) = start(k)[c] /\ Lo(flat[i], b) = top[k]
        /\ Hi(flat[i], axis) = start(k)[c] + rows[k][c].size[axis]
        /\ Hi(flat[i], b) = top[k] + rows[k][c].size[b]
    BY <2>4 DEF Lo, Hi
  <2> QED
    BY <2>2, <2>4, <2>6, <2>7, <2>8
<1>8. ASSUME NEW i \in 1 .. Len(flat), NEW j \in 1 .. Len(flat), i # j
      PROVE  ~TooClose(flat[i], flat[j])
  <2>1. flat[i] \in Numbered /\ flat[j] \in Numbered
    BY <1>3, NumberedPieces
  <2>2. PICK k, c : At(i, k, c)
    BY <1>7
  <2>7. k \in 1 .. n /\ c \in 1 .. Len(rows[k])
    BY <2>2
  <2>3. PICK l, d : At(j, l, d)
    BY <1>7
  <2>8. l \in 1 .. n /\ d \in 1 .. Len(rows[l])
    BY <2>3
  <2>4. place[i] # place[j]
    BY <1>2, <1>8 DEF Laying
  <2>5. CASE k = l
    <3>1. c # d
      BY <2>2, <2>3, <2>4, <2>5
    <3>2. Len(rows[k]) \in Nat /\ c \in Nat /\ d \in Nat
      BY <1>1, <2>7, LenProperties, <2>5, <2>8
    <3>3. c < d \/ d < c
      BY <3>1, <3>2
    <3>4. \/ start(k)[c] + rows[k][c].size[axis] + Kerf <= start(k)[d]
          \/ start(k)[d] + rows[k][d].size[axis] + Kerf <= start(k)[c]
      BY <1>6, <2>5, <2>7, <2>8, <3>3
    <3>5. Hi(flat[i], axis) + Kerf <= Lo(flat[j], axis) \/ Hi(flat[j], axis) + Kerf <= Lo(flat[i], axis)
      BY <2>2, <2>3, <2>5, <3>4
    <3> QED
      BY <2>1, <3>5, SeparateClear
  <2>6. CASE k # l
    <3>1. k < l \/ l < k
      BY <1>1, <2>6, <2>7, <2>8
    <3>2. /\ top[k] \in Nat /\ depths[k] \in Nat /\ top[l] \in Nat /\ depths[l] \in Nat
          /\ top[k] + depths[k] + Kerf <= top[l] \/ top[l] + depths[l] + Kerf <= top[k]
      BY <1>5, <2>7, <2>8, <3>1
    <3>3. Hi(flat[i], b) + Kerf <= Lo(flat[j], b) \/ Hi(flat[j], b) + Kerf <= Lo(flat[i], b)
      <4> DEFINE x == rows[k][c].size[b]
                 y == rows[l][d].size[b]
                 tk == top[k]
                 tl == top[l]
                 dk == depths[k]
                 dl == depths[l]
      <4>1. /\ x \in Nat /\ y \in Nat /\ tk \in Nat /\ tl \in Nat /\ dk \in Nat /\ dl \in Nat
            /\ x <= dk /\ y <= dl /\ (tk + dk + Kerf <= tl \/ tl + dl + Kerf <= tk)
            /\ Hi(flat[i], b) = tk + x /\ Lo(flat[i], b) = tk
            /\ Hi(flat[j], b) = tl + y /\ Lo(flat[j], b) = tl
        BY <2>2, <2>3, <3>2
      <4> HIDE DEF x, y, tk, tl, dk, dl
      <4> QED
        BY <1>4, <4>1
    <3> QED
      BY <1>4, <2>1, <3>3, SeparateClear
  <2> QED
    BY <2>5, <2>6
<1>9. ASSUME RowsWithin(rows, depths, axis, size), NEW i \in 1 .. Len(flat)
      PROVE  \A a \in Axes : Lo(flat[i], a) >= 0 /\ Hi(flat[i], a) <= size[a]
  <2>1. PICK k, c : At(i, k, c)
    BY <1>7
  <2>0. k \in 1 .. n /\ c \in 1 .. Len(rows[k])
    BY <2>1
  <2>2. size[axis] \in Nat /\ size[b] \in Nat
    BY <1>4 DEF Lengths
  <2>3. /\ start(k)[c] \in Nat
        /\ start(k)[c] + rows[k][c].size[axis] + Kerf <= start(k)[Len(rows[k]) + 1]
    BY <1>6, <2>0
  <2>4. top[k] \in Nat /\ depths[k] \in Nat /\ top[k] + depths[k] + Kerf <= top[n + 1]
    BY <1>5, <2>0
  <2>5. start(k)[Len(rows[k]) + 1] <= size[axis] + Kerf /\ top[n + 1] <= size[b] + Kerf
    BY <1>9, <2>0 DEF start, top, b, n, RowsWithin
  <2>6. start(k)[Len(rows[k]) + 1] \in Int /\ top[n + 1] \in Int
    <3>1. top \in [1 .. n + 1 -> Nat] /\ n + 1 \in 1 .. n + 1
      BY <1>1, StartsIs DEF top, n
    <3>2. Widths(rows[k], axis) \in Seq(Nat) /\ Len(Widths(rows[k], axis)) = Len(rows[k]) /\ Len(rows[k]) \in Nat
      BY <1>1, <2>0, WidthsTyped
    <3>3. start(k)[Len(rows[k]) + 1] \in Nat
      <4> DEFINE w == Widths(rows[k], axis)
                 m == Len(rows[k])
      <4>1. w \in Seq(Nat) /\ Len(w) = m /\ m \in Nat
        BY <3>2
      <4>2. start(k) = Starts(w)
        BY DEF start
      <4> HIDE DEF w, m
      <4>3. Starts(w) \in [1 .. m + 1 -> Nat] /\ m + 1 \in 1 .. m + 1
        <5>1. Starts(w) \in [1 .. Len(w) + 1 -> Nat]
          BY <4>1, StartsIs
        <5>2. m + 1 \in 1 .. m + 1
          BY <4>1
        <5> QED
          BY <4>1, <5>1, <5>2
      <4>4. start(k)[m + 1] \in Nat
        BY <4>2, <4>3
      <4> QED
        BY <4>4 DEF m
    <3> QED
      BY <3>1, <3>3
  <2> DEFINE s == start(k)[c]
             se == start(k)[Len(rows[k]) + 1]
             w == rows[k][c].size[axis]
             h == rows[k][c].size[b]
             t == top[k]
             te == top[n + 1]
             d == depths[k]
  <2>7. /\ s \in Nat /\ w \in Nat /\ se \in Int /\ s + w + Kerf <= se /\ se <= size[axis] + Kerf
        /\ t \in Nat /\ h \in Nat /\ d \in Nat /\ te \in Int /\ h <= d /\ t + d + Kerf <= te /\ te <= size[b] + Kerf
        /\ Lo(flat[i], axis) = s /\ Hi(flat[i], axis) = s + w /\ Lo(flat[i], b) = t /\ Hi(flat[i], b) = t + h
    BY <2>1, <2>3, <2>4, <2>5, <2>6
  <2> HIDE DEF s, se, w, h, t, te, d
  <2> DEFINE sa == size[axis]
             sb == size[b]
             lo == Lo(flat[i], axis)
             hi == Hi(flat[i], axis)
  <2>10. /\ s \in Nat /\ w \in Nat /\ se \in Int /\ s + w + Kerf <= se /\ se <= sa + Kerf
         /\ lo = s /\ hi = s + w /\ Kerf \in Nat /\ sa \in Nat
    BY <1>4, <2>2, <2>7
  <2> HIDE DEF sa, lo, hi
  <2>11. lo >= 0 /\ hi <= sa
    BY <2>10
  <2>8. Lo(flat[i], axis) >= 0 /\ Hi(flat[i], axis) <= size[axis]
    BY <2>11 DEF lo, hi, sa
  <2>9. Lo(flat[i], b) >= 0 /\ Hi(flat[i], b) <= size[b]
    BY <1>4, <2>2, <2>7
  <2> QED
    BY <1>4, <2>8, <2>9
<1>10. DOMAIN flat = 1 .. Len(flat)
  BY <1>3, LenProperties
<1>11. Clear(flat)
  BY <1>8, <1>10 DEF Clear
<1>12. RowsWithin(rows, depths, axis, size) => OnSheet([size |-> size, pieces |-> flat])
  BY <1>9, <1>10 DEF OnSheet
<1> QED
  BY <1>3, <1>11, <1>12 DEF flat

\* Of finitely many tuples there is one that none of the others beats.
LEMMA Largest ==
    ASSUME NEW n \in Nat, NEW S, IsFiniteSet(S), S # {}, NEW key \in [S -> Tuples(n)]
    PROVE  \E c \in S : \A d \in S : ~Beats(key[d], key[c])
<1> DEFINE NoLargest(T) == T # {} /\ \A c \in T : \E d \in T : Beats(key[d], key[c])
           Bad == {m \in Nat : \E T \in SUBSET S : Cardinality(T) = m /\ NoLargest(T)}
<1>1. SUFFICES ASSUME NoLargest(S) PROVE FALSE
  OBVIOUS
<1>2. Bad # {}
  <2>1. Cardinality(S) \in Nat /\ S \in SUBSET S
    BY FS_CardinalityType
  <2> HIDE DEF NoLargest
  <2> QED
    BY <1>1, <2>1, Zenon
<1>3. PICK m \in Bad : \A k \in Bad : m <= k
  <2>1. Bad \subseteq Nat
    OBVIOUS
  <2> HIDE DEF Bad
  <2> QED
    BY <1>2, <2>1, LeastNumber
<1>4. PICK T \in SUBSET S : Cardinality(T) = m /\ NoLargest(T)
  BY <1>3
<1> DEFINE x == Taken(T)
           U == T \ {x}
<1>5. /\ x \in T /\ x \in S /\ U \in SUBSET S
      /\ Cardinality(U) \in Nat /\ Cardinality(U) < m
  <2>1. T # {}
    BY <1>4
  <2>2. /\ x \in T /\ x \in S /\ U \in SUBSET S /\ Cardinality(T) \in Nat /\ Cardinality(T) > 0
        /\ Cardinality(U) = Cardinality(T) - 1
    BY <2>1, TakenOut
  <2> HIDE DEF x, U, NoLargest
  <2> QED
    BY <1>4, <2>2
<1> HIDE DEF x
<1>6. \A c \in S : key[c] \in Tuples(n)
  OBVIOUS
<1>7. ~Beats(key[x], key[x])
  BY <1>5, <1>6, NoneBeatsItself
<1>8. PICK e \in T : Beats(key[e], key[x])
  BY <1>4, <1>5
<1>9. e \in U
  BY <1>7, <1>8
<1>10. ~NoLargest(U)
  <2>1. Cardinality(U) \notin Bad
    <3> HIDE DEF U, Bad
    <3>1. m \in Nat
      BY <1>3 DEF Bad
    <3> QED
      BY <1>3, <1>5, <3>1
  <2> HIDE DEF NoLargest, U
  <2> QED
    BY <1>5, <2>1
<1>11. PICK c \in U : \A d \in U : ~Beats(key[d], key[c])
  BY <1>9, <1>10
<1>12. PICK d \in T : Beats(key[d], key[c])
  BY <1>4, <1>11
<1>13. d = x
  BY <1>11, <1>12
<1>14. Beats(key[e], key[c])
  BY <1>5, <1>6, <1>9, <1>11, <1>8, <1>12, <1>13, BeatsOn
<1> QED
  BY <1>9, <1>11, <1>14

\* A turned length and width are ones.
LEMMA TurnedIs ==
    ASSUME NEW size \in [Axes -> Lengths]
    PROVE  Turned(size) \in [Axes -> Lengths]
<1>1. size[1] \in Lengths /\ size[2] \in Lengths
  BY DEF Axes
<1> DEFINE u == size[1]
           v == size[2]
           t == <<v, u>>
<1>2. Turned(size) = t /\ t[1] = v /\ t[2] = u /\ DOMAIN t = 1 .. 2 /\ t = [a \in 1 .. 2 |-> t[a]]
  BY DEF Turned
<1>3. 1 .. 2 = Axes
  BY DEF Axes
<1> HIDE DEF t
<1>4. \A a \in Axes : t[a] \in Lengths
  BY <1>1, <1>2 DEF Axes
<1> QED
  BY <1>2, <1>3, <1>4

\* A part lies as it came, or turned.
LEMMA OrientationsAre ==
    ASSUME NEW part \in PartTypes
    PROVE  /\ DOMAIN Orientations(part) \subseteq {1, 2}
           /\ \A d \in DOMAIN Orientations(part) :
                 /\ Orientations(part)[d] \in [Axes -> Lengths]
                 /\ Orientations(part)[d] \in Range(Orientations(part))
<1> DEFINE ways == Orientations(part)
<1>1. part.size \in [Axes -> Lengths] /\ part.turn \in BOOLEAN
  BY DEF PartTypes
<1>2. Turned(part.size) \in [Axes -> Lengths]
  BY <1>1, TurnedIs
<1>3. ways = <<part.size, Turned(part.size)>> \/ ways = <<part.size>>
  BY DEF Orientations
<1>4. /\ DOMAIN ways \subseteq {1, 2}
      /\ \A d \in DOMAIN ways : ways[d] = part.size \/ ways[d] = Turned(part.size)
  <2>1. CASE ways = <<part.size, Turned(part.size)>>
    <3>1. DOMAIN ways = 1 .. 2 /\ ways[1] = part.size /\ ways[2] = Turned(part.size)
      BY <2>1
    <3>2. \A d \in 1 .. 2 : d = 1 \/ d = 2
      OBVIOUS
    <3> HIDE DEF ways
    <3> QED
      BY <3>1, <3>2
  <2>2. CASE ways = <<part.size>>
    <3>1. DOMAIN ways = 1 .. 1 /\ ways[1] = part.size
      BY <2>2
    <3>2. \A d \in 1 .. 1 : d = 1
      OBVIOUS
    <3> HIDE DEF ways
    <3> QED
      BY <3>1, <3>2
  <2> QED
    BY <1>3, <2>1, <2>2
<1> HIDE DEF ways
<1> QED
  BY <1>1, <1>2, <1>4 DEF ways, Range

\* One more length makes a line longer by itself and a cut.
LEMMA StartsGrow ==
    ASSUME NEW lengths \in Seq(Nat), NEW more \in Seq(Nat), Len(more) = Len(lengths) + 1,
           \A k \in 1 .. Len(lengths) : more[k] = lengths[k]
    PROVE  Starts(more)[Len(lengths) + 2]
                = Starts(lengths)[Len(lengths) + 1] + more[Len(lengths) + 1] + Kerf
<1> DEFINE n == Len(lengths)
           a == Starts(lengths)
           b == Starts(more)
           R == {k \in 0 .. n : a[k + 1] = b[k + 1]}
<1>1. n \in Nat /\ Len(more) = n + 1
  BY LenProperties
<1>2. a[1] = 0 /\ \A k \in 1 .. n : a[k + 1] = a[k] + lengths[k] + Kerf
  BY StartsIs
<1>3. b[1] = 0 /\ \A k \in 1 .. n + 1 : b[k + 1] = b[k] + more[k] + Kerf
  <2> HIDE DEF b
  <2>1. b[1] = 0 /\ \A k \in 1 .. Len(more) : b[k + 1] = b[k] + more[k] + Kerf
    BY StartsIs DEF b
  <2> QED
    BY <1>1, <2>1
<1>4. \A k \in 1 .. n : more[k] = lengths[k]
  OBVIOUS
<1> HIDE DEF a, b, n
<1>5. 0 \in R
  BY <1>1, <1>2, <1>3
<1>6. ASSUME NEW k \in 1 .. n, k - 1 \in R PROVE k \in R
  BY <1>1, <1>6, <1>2, <1>3, <1>4
<1>7. n \in R
  <2> HIDE DEF R
  <2>1. \A k \in 0 .. n : k \in R
    BY <1>1, <1>5, <1>6, Stepwise
  <2> QED
    BY <1>1, <2>1
<1>8. b[(n + 1) + 1] = b[n + 1] + more[n + 1] + Kerf
  BY <1>1, <1>3
<1>9. (n + 1) + 1 = n + 2
  BY <1>1
<1> QED
  BY <1>7, <1>8, <1>9 DEF a, b, n

\* Some length on its own.
LEMMA StartsOfOne ==
    ASSUME NEW lengths \in Seq(Nat), Len(lengths) = 1
    PROVE  Starts(lengths)[2] = lengths[1] + Kerf
<1>1. Starts(lengths)[1] = 0 /\ Starts(lengths)[1 + 1] = Starts(lengths)[1] + lengths[1] + Kerf
  BY StartsIs
<1>2. lengths[1] \in Nat /\ Kerf \in Nat /\ 1 + 1 = 2
  BY ElementOfSeq, KerfAssumption DEF KerfAssumption
<1> DEFINE st == Starts(lengths)
<1> HIDE DEF st
<1>3. st[1] = 0 /\ st[2] = st[1] + lengths[1] + Kerf
  BY <1>1, <1>2 DEF st
<1> QED
  BY <1>2, <1>3 DEF st

\* One number is a tuple.
LEMMA OneNumber ==
    ASSUME NEW i \in Int
    PROVE  <<i>> \in Tuples(1)
<1>1. <<i>> \in [1 .. 1 -> Int]
  OBVIOUS
<1> QED
  BY <1>1 DEF Tuples

\* Two places of rows that hold each part once are one place if they hold one part.
LEMMA OnceAt ==
    ASSUME NEW rows, OnceInRows(rows), NEW k \in 1 .. Len(rows), NEW l \in 1 .. Len(rows),
           NEW i \in 1 .. Len(rows[k]), NEW j \in 1 .. Len(rows[l]), rows[k][i].id = rows[l][j].id
    PROVE  k = l /\ i = j
BY DEF OnceInRows

\* Pieces of rows with no number twice are laid once each.
LEMMA LaidOnce ==
    ASSUME NEW rows \in Seq(Seq(Slabs)), NEW depths \in Seq(Nat), Len(depths) = Len(rows), NEW axis \in Axes
    PROVE  LET flat == InRows(rows, depths, axis)
           IN  /\ \A i \in 1 .. Len(flat) : InSomeRow(rows, flat[i])
               /\ OnceInRows(rows) => OnceEach(flat)
<1> DEFINE flat == InRows(rows, depths, axis)
           At(i, k, c) == /\ k \in 1 .. Len(rows) /\ c \in 1 .. Len(rows[k])
                          /\ flat[i].id = rows[k][c].id /\ flat[i].size = rows[k][c].size
<1>1. PICK place \in Laying(rows, depths, axis, flat) : TRUE
  BY InRowsIs
<1>2. \A i \in 1 .. Len(flat) : place[i] \in Spots(rows, Len(rows))
                                /\ flat[i].id = rows[place[i][1]][place[i][2]].id
                                /\ flat[i].size = rows[place[i][1]][place[i][2]].size
  BY <1>1 DEF Laying
<1>3. \A i, j \in 1 .. Len(flat) : place[i] = place[j] => i = j
  BY <1>1 DEF Laying
<1> HIDE DEF flat
<1>4. ASSUME NEW i \in 1 .. Len(flat)
      PROVE  \E k, c : place[i] = <<k, c>> /\ At(i, k, c)
  <2> DEFINE n == Len(rows)
  <2>0. place[i] \in Spots(rows, n)
    BY <1>2
  <2> HIDE DEF n
  <2> DEFINE k == place[i][1]
             c == place[i][2]
  <2>1. place[i] \in (1 .. n) \X Nat /\ c \in 1 .. Len(rows[k])
    BY <2>0 DEF Spots
  <2>2. place[i] = <<k, c>> /\ k \in 1 .. Len(rows)
    BY <2>1 DEF n
  <2>3. flat[i].id = rows[k][c].id /\ flat[i].size = rows[k][c].size
    BY <1>2
  <2> HIDE DEF k, c
  <2> QED
    BY <2>1, <2>2, <2>3
<1>5. \A i \in 1 .. Len(flat) : InSomeRow(rows, flat[i])
  BY <1>4 DEF InSomeRow
<1>6. ASSUME OnceInRows(rows), NEW i \in 1 .. Len(flat), NEW j \in 1 .. Len(flat), flat[i].id = flat[j].id
      PROVE  i = j
  <2>1. PICK k, c : place[i] = <<k, c>> /\ At(i, k, c)
    BY <1>4
  <2>2. PICK l, d : place[j] = <<l, d>> /\ At(j, l, d)
    BY <1>4
  <2>3. rows[k][c].id = rows[l][d].id
    BY <1>6, <2>1, <2>2
  <2>5. k \in 1 .. Len(rows) /\ c \in 1 .. Len(rows[k]) /\ l \in 1 .. Len(rows) /\ d \in 1 .. Len(rows[l])
    BY <2>1, <2>2
  <2> HIDE DEF At
  <2>4. k = l /\ c = d
    BY <1>6, <2>3, <2>5, OnceAt
  <2> QED
    BY <1>3, <2>1, <2>2, <2>4
<1>7. OnceInRows(rows) => OnceEach(flat)
  BY <1>6 DEF OnceEach
<1> QED
  BY <1>5, <1>7 DEF flat

\* In a plan that has each part once they are one piece.
LEMMA OnceIs ==
    ASSUME NEW p, OnceInPlan(p), NEW k \in 1 .. Len(p), NEW l \in 1 .. Len(p),
           NEW i \in 1 .. Len(p[k].pieces), NEW j \in 1 .. Len(p[l].pieces), SameId(p, k, i, l, j)
    PROVE  k = l /\ i = j
BY DEF OnceInPlan, SameId

-----------------------------------------------------------------------------
(* Rows and loads                                                          *)

\* Where a line ends.
LEMMA LineEnd ==
    ASSUME NEW lengths \in Seq(Nat)
    PROVE  Starts(lengths)[Len(lengths) + 1] \in Nat
<1>1. Starts(lengths) \in [1 .. Len(lengths) + 1 -> Nat]
  BY StartsIs
<1>2. Len(lengths) \in Nat
  BY LenProperties
<1> DEFINE n == Len(lengths)
           st == Starts(lengths)
<1>3. st \in [1 .. n + 1 -> Nat] /\ n \in Nat
  BY <1>1, <1>2
<1> HIDE DEF n, st
<1>4. n + 1 \in 1 .. n + 1
  BY <1>3
<1>5. st[n + 1] \in Nat
  BY <1>3, <1>4
<1> QED
  BY <1>5 DEF n, st

\* What a row is, and what it takes of each axis.
LEMMA RowIs ==
    ASSUME NEW parts, NEW ids, NEW axis \in Axes, NEW row \in RowsOf(parts, ids, axis)
    PROVE  /\ row \in Seq(Slabs) /\ row \in Seq(SlabsOf(parts, ids))
           /\ DOMAIN row = 1 .. Len(row) /\ Len(row) \in Nat /\ Len(row) > 0
           /\ \A i \in 1 .. Len(row) : /\ row[i] \in SlabsOf(parts, ids)
                                       /\ row[i].size[Across(axis)] <= RowCross(row, axis)
           /\ RowCross(row, axis) \in Nat /\ RowCross(row, axis) > 0
           /\ Widths(row, axis) \in Seq(Nat) /\ Len(Widths(row, axis)) = Len(row)
           /\ RowUsed(row, axis) \in Int
           /\ Starts(Widths(row, axis))[Len(row) + 1] = RowUsed(row, axis) + Kerf
<1>1. row \in Seq(SlabsOf(parts, ids)) /\ Len(row) > 0
  BY DEF RowsOf
<1>2. SlabsOf(parts, ids) \subseteq Slabs
  BY DEF SlabsOf
<1>3. Len(row) \in Nat /\ DOMAIN row = 1 .. Len(row) /\ \A i \in 1 .. Len(row) : row[i] \in SlabsOf(parts, ids)
  BY <1>1, LenProperties, ElementOfSeq
<1>4. row \in Seq(Slabs)
  BY <1>1, <1>3, LenProperties, <1>2, FunctionSeq
<1>5. Across(axis) \in Axes
  BY AcrossAxis
<1>6. 1 \in 1 .. Len(row)
  BY <1>1, <1>3
<1>7. RowCross(row, axis) \in Nat /\ RowCross(row, axis) > 0
  BY <1>2, <1>3, <1>6, <1>5 DEF Slabs, Lengths, RowCross
<1>8. \A i \in 1 .. Len(row) : row[i].size[Across(axis)] <= RowCross(row, axis)
  BY DEF RowsOf, RowCross
<1>9. Widths(row, axis) \in Seq(Nat) /\ Len(Widths(row, axis)) = Len(row)
  BY <1>4, WidthsTyped
<1>10. RowUsed(row, axis) = Starts(Widths(row, axis))[Len(row) + 1] - Kerf
  BY <1>9 DEF RowUsed, Extent, Widths
<1>11. Starts(Widths(row, axis))[Len(row) + 1] \in Nat
  BY <1>9, LineEnd
<1>12. Kerf \in Nat
  BY KerfAssumption DEF KerfAssumption
<1> DEFINE end == Starts(Widths(row, axis))[Len(row) + 1]
<1>13. RowUsed(row, axis) = end - Kerf /\ end \in Nat
  BY <1>10, <1>11
<1> HIDE DEF end
<1>14. RowUsed(row, axis) \in Int /\ end = RowUsed(row, axis) + Kerf
  BY <1>12, <1>13
<1> QED
  BY <1>1, <1>3, <1>4, <1>7, <1>8, <1>9, <1>14 DEF end

\* What some rows take.
LEMMA LoadIs ==
    ASSUME NEW parts, NEW ids, NEW axis \in Axes, NEW rows \in Seq(RowsOf(parts, ids, axis))
    PROVE  /\ rows \in Seq(Seq(Slabs)) /\ DOMAIN rows = 1 .. Len(rows) /\ Len(rows) \in Nat
           /\ \A k \in 1 .. Len(rows) : rows[k] \in RowsOf(parts, ids, axis)
           /\ Crosses(rows, axis) \in Seq(Nat) /\ Len(Crosses(rows, axis)) = Len(rows)
           /\ \A k \in 1 .. Len(rows) : Crosses(rows, axis)[k] = RowCross(rows[k], axis)
           /\ CrossUsed(rows, axis) \in Int
           /\ Starts(Crosses(rows, axis))[Len(rows) + 1] = CrossUsed(rows, axis) + Kerf
           /\ Placed(rows, axis) = InRows(rows, Crosses(rows, axis), axis)
<1>1. Len(rows) \in Nat /\ DOMAIN rows = 1 .. Len(rows) /\ \A k \in 1 .. Len(rows) : rows[k] \in RowsOf(parts, ids, axis)
  BY LenProperties, ElementOfSeq
<1>2. \A k \in 1 .. Len(rows) : rows[k] \in Seq(Slabs) /\ RowCross(rows[k], axis) \in Nat
  BY <1>1, RowIs
<1>3. rows \in Seq(Seq(Slabs))
  BY <1>1, LenProperties, <1>2, FunctionSeq
<1> DEFINE c == Crosses(rows, axis)
           n == Len(rows)
<1>4. c \in [1 .. n -> Nat] /\ \A k \in 1 .. n : c[k] = RowCross(rows[k], axis)
  BY <1>1, <1>2 DEF Crosses
<1>5. CrossUsed(rows, axis) = Extent(c)
  BY DEF CrossUsed, Crosses
<1>6. Placed(rows, axis) = InRows(rows, c, axis)
  BY DEF Placed, Crosses
<1>7. n \in Nat
  BY <1>1
<1> HIDE DEF c, n
<1>8. c \in Seq(Nat) /\ Len(c) = n
  BY <1>4, <1>7, FunctionSeq
<1> DEFINE end == Starts(c)[n + 1]
<1>10. end \in Nat
  BY <1>8, LineEnd
<1>11. CrossUsed(rows, axis) = end - Kerf
  BY <1>5, <1>8 DEF Extent
<1>12. Kerf \in Nat
  BY KerfAssumption DEF KerfAssumption
<1> HIDE DEF end
<1>13. CrossUsed(rows, axis) \in Int /\ end = CrossUsed(rows, axis) + Kerf
  BY <1>10, <1>11, <1>12
<1> QED
  BY <1>1, <1>3, <1>4, <1>6, <1>8, <1>13 DEF end, c, n

\* The numbers in some rows.
LEMMA IdsOfRows ==
    ASSUME NEW parts, NEW ids, NEW axis \in Axes, NEW rows \in Seq(RowsOf(parts, ids, axis)), NEW id
    PROVE  id \in IdsOf(rows) <=> \E k \in 1 .. Len(rows) : \E i \in 1 .. Len(rows[k]) : rows[k][i].id = id
<1>1. DOMAIN rows = 1 .. Len(rows) /\ \A k \in 1 .. Len(rows) : DOMAIN rows[k] = 1 .. Len(rows[k])
  <2>1. DOMAIN rows = 1 .. Len(rows) /\ \A k \in 1 .. Len(rows) : rows[k] \in RowsOf(parts, ids, axis)
    BY LoadIs
  <2>2. \A row \in RowsOf(parts, ids, axis) : DOMAIN row = 1 .. Len(row)
    BY RowIs
  <2> QED
    BY <2>1, <2>2
<1>2. \A k \in 1 .. Len(rows) : RowIds(rows[k]) = {rows[k][i].id : i \in 1 .. Len(rows[k])}
  BY <1>1 DEF RowIds
<1> QED
  BY <1>1, <1>2 DEF IdsOf

\* The pieces of a load: there are some, as their parts may lie and a cut apart;
\* they are those of the rows, and on the table if the rows fit it.
LEMMA PlacedIs ==
    ASSUME NEW parts, NEW ids, ids \subseteq 1 .. Len(parts), NEW axis \in Axes, NEW table \in [Axes -> Lengths],
           NEW rows \in Seq(RowsOf(parts, ids, axis)), Len(rows) > 0
    PROVE  /\ Placed(rows, axis) \in Seq(Numbered) /\ Placed(rows, axis) # <<>>
           /\ Clear(Placed(rows, axis)) /\ Alike(parts, Placed(rows, axis))
           /\ \A id : HasId(Placed(rows, axis), id) <=> id \in IdsOf(rows)
           /\ \A i \in 1 .. Len(Placed(rows, axis)) : Placed(rows, axis)[i].id \in ids
           /\ OnceInRows(rows) => OnceEach(Placed(rows, axis))
           /\ Within(rows, axis, table) => OnSheet([size |-> table, pieces |-> Placed(rows, axis)])
<1> DEFINE depths == Crosses(rows, axis)
           flat == Placed(rows, axis)
<1>1. /\ rows \in Seq(Seq(Slabs)) /\ Len(rows) \in Nat /\ depths \in Seq(Nat) /\ Len(depths) = Len(rows)
      /\ \A k \in 1 .. Len(rows) : rows[k] \in RowsOf(parts, ids, axis) /\ depths[k] = RowCross(rows[k], axis)
      /\ flat = InRows(rows, depths, axis)
      /\ Starts(depths)[Len(rows) + 1] = CrossUsed(rows, axis) + Kerf /\ CrossUsed(rows, axis) \in Int
  BY LoadIs
<1>2. \A k \in 1 .. Len(rows) : \A i \in 1 .. Len(rows[k]) :
        rows[k][i].size[Across(axis)] <= depths[k]
  <2> SUFFICES ASSUME NEW k \in 1 .. Len(rows), NEW i \in 1 .. Len(rows[k])
               PROVE  rows[k][i].size[Across(axis)] <= depths[k]
    OBVIOUS
  <2>1. rows[k] \in RowsOf(parts, ids, axis) /\ depths[k] = RowCross(rows[k], axis)
    BY <1>1
  <2>2. rows[k][i].size[Across(axis)] <= RowCross(rows[k], axis)
    BY <2>1, RowIs
  <2> QED
    BY <2>1, <2>2
<1> HIDE DEF depths, flat
<1>3. Within(rows, axis, table) => RowsWithin(rows, depths, axis, table)
  <2> SUFFICES ASSUME Within(rows, axis, table) PROVE RowsWithin(rows, depths, axis, table)
    OBVIOUS
  <2>1. Kerf \in Nat /\ table[axis] \in Nat /\ table[Across(axis)] \in Nat
    BY KerfAssumption, AcrossAxis DEF KerfAssumption, Lengths
  <2>2. Starts(depths)[Len(rows) + 1] <= table[Across(axis)] + Kerf
    BY <1>1, <2>1 DEF Within
  <2>3. ASSUME NEW k \in 1 .. Len(rows)
        PROVE  Starts(Widths(rows[k], axis))[Len(rows[k]) + 1] <= table[axis] + Kerf
    <3>1. rows[k] \in RowsOf(parts, ids, axis)
      BY <1>1
    <3>2. /\ RowUsed(rows[k], axis) \in Int
          /\ Starts(Widths(rows[k], axis))[Len(rows[k]) + 1] = RowUsed(rows[k], axis) + Kerf
      BY <3>1, RowIs
    <3>3. RowUsed(rows[k], axis) <= table[axis]
      BY DEF Within
    <3> QED
      BY <2>1, <3>2, <3>3
  <2> QED
    BY <2>2, <2>3 DEF RowsWithin
<1>4. /\ flat \in Seq(Numbered) /\ Clear(flat)
      /\ RowsWithin(rows, depths, axis, table) => OnSheet([size |-> table, pieces |-> flat])
  BY <1>1, <1>2, RowsFit
<1>5. (\A i \in 1 .. Len(flat) : InSomeRow(rows, flat[i])) /\ (OnceInRows(rows) => OnceEach(flat))
  BY <1>1, LaidOnce
<1>6. PICK place \in Laying(rows, depths, axis, flat) : TRUE
  BY <1>1, InRowsIs
<1>7. ASSUME NEW i \in 1 .. Len(flat)
      PROVE  \E k \in 1 .. Len(rows) : \E c \in 1 .. Len(rows[k]) :
                /\ flat[i].id = rows[k][c].id /\ flat[i].size = rows[k][c].size
                /\ rows[k][c] \in SlabsOf(parts, ids)
  <2>4. PICK k \in 1 .. Len(rows) :
            \E c \in 1 .. Len(rows[k]) : flat[i].id = rows[k][c].id /\ flat[i].size = rows[k][c].size
    BY <1>5 DEF InSomeRow
  <2>1. PICK c \in 1 .. Len(rows[k]) : flat[i].id = rows[k][c].id /\ flat[i].size = rows[k][c].size
    BY <2>4
  <2>2. rows[k] \in RowsOf(parts, ids, axis)
    BY <1>1
  <2>3. rows[k][c] \in SlabsOf(parts, ids)
    BY <2>2, RowIs
  <2> QED
    BY <2>1, <2>3
<1>8. Alike(parts, flat) /\ \A i \in 1 .. Len(flat) : flat[i].id \in ids
  BY <1>7 DEF Alike, SlabsOf
<1>9. ASSUME NEW k \in 1 .. Len(rows), NEW c \in 1 .. Len(rows[k])
      PROVE  HasId(flat, rows[k][c].id)
  <2>1. Len(rows[k]) \in Nat
    BY <1>1, RowIs
  <2>2. <<k, c>> \in Spots(rows, Len(rows))
    BY <1>1, <2>1 DEF Spots
  <2>3. PICK i \in 1 .. Len(flat) : place[i] = <<k, c>>
    BY <1>6, <2>2 DEF Laying
  <2>4. place[i][1] = k /\ place[i][2] = c
    BY <2>3
  <2>5. flat[i].id = rows[place[i][1]][place[i][2]].id
    BY <1>6 DEF Laying
  <2> QED
    BY <2>4, <2>5 DEF HasId
<1>10. ASSUME NEW id PROVE HasId(flat, id) <=> id \in IdsOf(rows)
  <2>1. ASSUME HasId(flat, id) PROVE id \in IdsOf(rows)
    BY <2>1, <1>7, IdsOfRows DEF HasId
  <2>2. ASSUME id \in IdsOf(rows) PROVE HasId(flat, id)
    BY <2>2, IdsOfRows, <1>9
  <2> QED
    BY <2>1, <2>2
<1>11. flat # <<>>
  <2>1. 1 \in 1 .. Len(rows) /\ rows[1] \in RowsOf(parts, ids, axis)
    BY <1>1
  <2>2. 1 \in 1 .. Len(rows[1])
    BY <2>1, RowIs
  <2>3. PICK i \in 1 .. Len(flat) : flat[i].id = rows[1][1].id
    BY <1>9, <2>1, <2>2 DEF HasId
  <2>4. i \in 1 .. Len(flat)
    OBVIOUS
  <2> QED
    BY <1>4, <2>4
<1>12. Within(rows, axis, table) => OnSheet([size |-> table, pieces |-> flat])
  BY <1>3, <1>4
<1> QED
  BY <1>4, <1>5, <1>8, <1>10, <1>11, <1>12 DEF flat

-----------------------------------------------------------------------------
(* Plans of rows                                                           *)

\* How far the pieces of a load reach.
LEMMA ReachIs ==
    ASSUME NEW load \in NumberedSheets, OnSheet(load), NEW a \in Axes
    PROVE  Max({0} \cup {Hi(p, a) : p \in PieceSet(load)}) \in Nat
<1> DEFINE S == {0} \cup {Hi(p, a) : p \in PieceSet(load)}
           bound == load.size[a]
<1>1. load.pieces \in Seq(Numbered) /\ load.size \in [Axes -> Lengths]
  BY DEF NumberedSheets
<1>2. DOMAIN load.pieces = 1 .. Len(load.pieces) /\ \A i \in 1 .. Len(load.pieces) : load.pieces[i] \in Numbered
  BY <1>1, NumberedPieces
<1>3. bound \in Nat
  BY <1>1 DEF Lengths
<1>4. \A p \in PieceSet(load) : Hi(p, a) \in Nat /\ Hi(p, a) <= bound
  BY <1>2, PieceNumbers DEF PieceSet, OnSheet
<1>5. S \subseteq Int /\ S # {} /\ (\A k \in S : k <= bound) /\ \A k \in S : k \in Nat
  BY <1>3, <1>4
<1> HIDE DEF S, bound
<1>6. Max(S) \in S
  <2>1. bound \in Int
    BY <1>3
  <2> QED
    BY <1>5, <2>1, MaxOf, Zenon
<1> QED
  BY <1>5, <1>6 DEF S

\* The figures of a plan whose loads lie on their table are numbers.
LEMMA FiguresTyped ==
    ASSUME NEW plan, plan.loads \in Seq(NumberedSheets), \A k \in 1 .. Len(plan.loads) : OnSheet(plan.loads[k]),
           plan.axis \in Axes
    PROVE  PlacedCount(plan) \in Int /\ Feed(plan) \in Int /\ Len(plan.loads) \in Nat
<1> DEFINE loads == plan.loads
           n == Len(loads)
           counts == [k \in 1 .. n |-> Len(loads[k].pieces)]
           feeds == [k \in 1 .. n |-> LoadFeed(loads[k], plan.axis)]
<1>1. n \in Nat /\ DOMAIN loads = 1 .. n /\ \A k \in 1 .. n : loads[k] \in NumberedSheets
  BY LenProperties, ElementOfSeq
<1>2. Across(plan.axis) \in Axes
  BY AcrossAxis
<1>3. ASSUME NEW k \in 1 .. n PROVE Len(loads[k].pieces) \in Int /\ LoadFeed(loads[k], plan.axis) \in Int
  <2>1. loads[k] \in NumberedSheets
    BY <1>1
  <2>2. loads[k].pieces \in Seq(Numbered)
    BY <2>1 DEF NumberedSheets
  <2>3. Len(loads[k].pieces) \in Nat
    BY <2>2, LenProperties
  <2>4. OnSheet(loads[k])
    OBVIOUS
  <2>5. LoadFeed(loads[k], plan.axis) \in Nat
    BY <1>2, <2>1, <2>4, ReachIs DEF LoadFeed
  <2> QED
    BY <2>3, <2>5
<1>4. counts \in [1 .. n -> Int] /\ feeds \in [1 .. n -> Int]
  BY <1>3
<1>5. PlacedCount(plan) = SumFunction(counts) /\ Feed(plan) = SumFunction(feeds)
  BY <1>1 DEF PlacedCount, Feed
<1>6. IsFiniteSet(1 .. n)
  BY <1>1, FS_Interval
<1> HIDE DEF counts, feeds, n
<1>7. SumFunction(counts) \in Int /\ SumFunction(feeds) \in Int
  BY <1>4, <1>6, SumIs
<1> QED
  BY <1>1, <1>5, <1>7 DEF n

\* What is used of a load.
LEMMA UsedTyped ==
    ASSUME NEW load, load.pieces \in Seq(Numbered)
    PROVE  Used(load) \in Int
<1> DEFINE n == Len(load.pieces)
           areas == [i \in 1 .. n |-> AreaOf(load.pieces[i].size)]
<1>1. n \in Nat /\ DOMAIN load.pieces = 1 .. n /\ \A i \in 1 .. n : load.pieces[i] \in Numbered
  BY NumberedPieces
<1>2. ASSUME NEW i \in 1 .. n PROVE AreaOf(load.pieces[i].size) \in Int
  <2> DEFINE x == load.pieces[i].size[1]
             y == load.pieces[i].size[2]
  <2>1. load.pieces[i] \in Numbered
    BY <1>1
  <2>4. 1 \in Axes /\ 2 \in Axes
    BY DEF Axes
  <2>2. x \in Int /\ y \in Int
    <3>1. load.pieces[i].size[1] \in Nat
      BY <2>1, <2>4, PieceNumbers
    <3>2. load.pieces[i].size[2] \in Nat
      BY <2>1, <2>4, PieceNumbers
    <3> QED
      BY <3>1, <3>2
  <2> HIDE DEF x, y
  <2>3. x * y \in Int
    BY <2>2
  <2> QED
    BY <2>3 DEF AreaOf, x, y
<1>3. areas \in [1 .. n -> Int]
  BY <1>2
<1>4. Used(load) = SumFunction(areas)
  BY <1>1 DEF Used
<1>5. IsFiniteSet(1 .. n)
  BY <1>1, FS_Interval
<1> HIDE DEF areas, n
<1> QED
  BY <1>3, <1>4, <1>5, SumIs

\* So is how much of their axis the rows of a plan fill.
LEMMA FillTyped ==
    ASSUME NEW parts, NEW ids, NEW axis \in Axes, NEW table, NEW left,
           NEW loads \in Seq(Seq(RowsOf(parts, ids, axis)))
    PROVE  RowPlan(loads, left, axis, table).fill \in Int
<1> DEFINE n == Len(loads)
           inner(k) == [r \in 1 .. Len(loads[k]) |-> RowUsed(loads[k][r], axis)]
           sums == [k \in 1 .. n |-> SumFunction(inner(k))]
<1>1. n \in Nat /\ DOMAIN loads = 1 .. n /\ \A k \in 1 .. n : loads[k] \in Seq(RowsOf(parts, ids, axis))
  BY LenProperties, ElementOfSeq
<1>2. ASSUME NEW k \in 1 .. n
      PROVE  /\ SumFunction(inner(k)) \in Int
             /\ [r \in DOMAIN loads[k] |-> RowUsed(loads[k][r], axis)] = inner(k)
  <2> DEFINE m == Len(loads[k])
             uses == inner(k)
  <2>1. loads[k] \in Seq(RowsOf(parts, ids, axis))
    BY <1>1
  <2>2. m \in Nat /\ DOMAIN loads[k] = 1 .. m /\ \A r \in 1 .. m : loads[k][r] \in RowsOf(parts, ids, axis)
    BY <2>1, LoadIs
  <2>3. \A row \in RowsOf(parts, ids, axis) : RowUsed(row, axis) \in Int
    BY RowIs
  <2>4. uses \in [1 .. m -> Int]
    BY <2>2, <2>3
  <2>5. IsFiniteSet(1 .. m)
    BY <2>2, FS_Interval
  <2>6. [r \in DOMAIN loads[k] |-> RowUsed(loads[k][r], axis)] = uses
    BY <2>2
  <2> HIDE DEF uses, m
  <2>7. SumFunction(uses) \in Int
    BY <2>4, <2>5, SumIs
  <2> QED
    BY <2>6, <2>7 DEF uses
<1>3. sums \in [1 .. n -> Int]
  BY <1>2
<1>4. RowPlan(loads, left, axis, table).fill = SumFunction(sums)
  BY <1>1, <1>2 DEF RowPlan
<1>5. IsFiniteSet(1 .. n)
  BY <1>1, FS_Interval
<1> HIDE DEF sums, n
<1> QED
  BY <1>3, <1>4, <1>5, SumIs

\* The loads of a plan of rows are those of its rows.
LEMMA RowPlanIs ==
    ASSUME NEW parts, NEW ids, ids \subseteq 1 .. Len(parts), NEW axis \in Axes, NEW table \in [Axes -> Lengths], NEW left,
           NEW loads \in Seq(Seq(RowsOf(parts, ids, axis))), NoneEmpty(loads)
    PROVE  PlanOfRows(RowPlan(loads, left, axis, table), loads, left, parts, ids, axis, table)
<1> DEFINE plan == RowPlan(loads, left, axis, table)
           n == Len(loads)
           Sheet(k) == [size |-> table, pieces |-> Placed(loads[k], axis)]
<1>1. n \in Nat /\ DOMAIN loads = 1 .. n /\ \A k \in 1 .. n : loads[k] \in Seq(RowsOf(parts, ids, axis)) /\ Len(loads[k]) > 0
  BY LenProperties, ElementOfSeq DEF NoneEmpty
<1>2. plan.axis = axis /\ plan.left = left /\ plan.loads = [k \in 1 .. n |-> Sheet(k)]
  BY <1>1 DEF RowPlan
<1>3. plan.fill \in Int
  BY FillTyped
<1> HIDE DEF plan
<1>4. ASSUME NEW k \in 1 .. n
      PROVE  /\ plan.loads[k] = Sheet(k) /\ Sheet(k) \in NumberedSheets
             /\ LoadDrawn(plan.loads[k], parts, ids, table)
             /\ \A id : HasId(plan.loads[k].pieces, id) <=> id \in IdsOf(loads[k])
             /\ Within(loads[k], axis, table) => OnSheet(plan.loads[k])
             /\ OnceInRows(loads[k]) => OnceEach(plan.loads[k].pieces)
  <2> DEFINE rows == loads[k]
             flat == Placed(rows, axis)
  <2>1. rows \in Seq(RowsOf(parts, ids, axis)) /\ Len(rows) > 0
    BY <1>1
  <2>2. plan.loads[k] = [size |-> table, pieces |-> flat] /\ Sheet(k) = [size |-> table, pieces |-> flat]
    BY <1>2
  <2> HIDE DEF rows, Sheet
  <2>3. /\ flat \in Seq(Numbered) /\ flat # <<>> /\ Clear(flat) /\ Alike(parts, flat)
        /\ \A id : HasId(flat, id) <=> id \in IdsOf(rows)
        /\ \A i \in 1 .. Len(flat) : flat[i].id \in ids
        /\ OnceInRows(rows) => OnceEach(flat)
        /\ Within(rows, axis, table) => OnSheet([size |-> table, pieces |-> flat])
    BY <2>1, PlacedIs
  <2> HIDE DEF flat
  <2> DEFINE sheet == [size |-> table, pieces |-> flat]
  <2>4. sheet \in NumberedSheets /\ sheet.size = table /\ sheet.pieces = flat
    BY <2>3 DEF NumberedSheets
  <2> HIDE DEF sheet
  <2>5. LoadDrawn(sheet, parts, ids, table)
    BY <2>3, <2>4 DEF LoadDrawn
  <2>6. plan.loads[k] = sheet /\ Sheet(k) = sheet
    BY <2>2 DEF sheet
  <2>7. Within(rows, axis, table) => OnSheet(sheet)
    BY <2>3 DEF sheet
  <2> QED
    BY <2>3, <2>4, <2>5, <2>6, <2>7 DEF rows
<1>5. plan.loads \in [1 .. n -> NumberedSheets]
  BY <1>2, <1>4
<1>6. plan.loads \in Seq(NumberedSheets) /\ Len(plan.loads) = n
  BY <1>1, <1>5, FunctionSeq
<1> HIDE DEF n, Sheet
<1>7. ASSUME NEW id PROVE Present(plan.loads, id) <=> InLoads(loads, id)
  BY <1>4, <1>6 DEF Present, HasId, InLoads, n
<1> QED
  BY <1>2, <1>3, <1>4, <1>6, <1>7 DEF PlanOfRows, n, plan

\* No part is twice in a plan whose loads have none twice and none in common.
LEMMA OncePlanned ==
    ASSUME NEW p \in Seq(NumberedSheets), NEW loads, Len(p) = Len(loads), Parted(loads),
           \A k \in 1 .. Len(loads) :
                /\ \A id : HasId(p[k].pieces, id) <=> id \in IdsOf(loads[k])
                /\ OnceEach(p[k].pieces)
    PROVE  OnceInPlan(p)
<1> SUFFICES ASSUME NEW k \in 1 .. Len(p), NEW l \in 1 .. Len(p),
                    NEW i \in 1 .. Len(p[k].pieces), NEW j \in 1 .. Len(p[l].pieces),
                    p[k].pieces[i].id = p[l].pieces[j].id
             PROVE  k = l /\ i = j
  BY DEF OnceInPlan
<1> DEFINE id == p[k].pieces[i].id
<1>1. HasId(p[k].pieces, id) /\ HasId(p[l].pieces, id)
  BY DEF HasId
<1> HIDE DEF id
<1>2. id \in IdsOf(loads[k]) /\ id \in IdsOf(loads[l])
  BY <1>1
<1>3. k = l
  BY <1>2 DEF Parted
<1>4. i = j
  BY <1>3 DEF OnceEach
<1> QED
  BY <1>3, <1>4

-----------------------------------------------------------------------------
(* Parts and the room for them                                             *)

\* There is a first one that none beats.
LEMMA FirstLargest ==
    ASSUME NEW n \in Nat, NEW S, S \subseteq Nat, IsFiniteSet(S), S # {}, NEW key \in [S -> Tuples(n)]
    PROVE  \E i \in S : ComesFirst(S, key, i)
<1> DEFINE M == {c \in S : \A d \in S : ~Beats(key[d], key[c])}
<1>1. M # {} /\ M \subseteq Nat
  BY Largest
<1>2. PICK i \in M : \A c \in M : i <= c
  BY <1>1, LeastNumber
<1>3. ASSUME NEW j \in S, j # i PROVE ~Beats(key[j], key[i]) /\ (key[j] = key[i] => i < j)
  BY <1>2, <1>1, <1>3
<1>4. i \in S
  OBVIOUS
<1> QED
  BY <1>3, <1>4 DEF ComesFirst

\* The ways a part fits into some room.
LEMMA FittingIs ==
    ASSUME NEW part \in PartTypes, NEW axis \in Axes, NEW primary, NEW cross
    PROVE  /\ Fitting(part, axis, primary, cross) \subseteq Range(Orientations(part))
           /\ Fitting(part, axis, primary, cross) \subseteq [Axes -> Lengths]
           /\ \A size \in Fitting(part, axis, primary, cross) :
                    size[axis] <= primary /\ size[Across(axis)] <= cross
           /\ IsFiniteSet(Fitting(part, axis, primary, cross))
<1> DEFINE o == Orientations(part)
<1>1. \A d \in DOMAIN o : d \in {1, 2} /\ o[d] \in [Axes -> Lengths]
  BY OrientationsAre
<1> HIDE DEF o
<1>2. Range(o) = {o[d] : d \in DOMAIN o}
  BY DEF Range
<1>3. Range(o) \subseteq {o[1], o[2]} /\ Range(o) \subseteq [Axes -> Lengths]
  BY <1>1, <1>2
<1>4. IsFiniteSet({o[1], o[2]})
  <2>1. IsFiniteSet({o[1]}) /\ IsFiniteSet({o[2]})
    BY FS_Singleton
  <2>2. IsFiniteSet({o[1]} \cup {o[2]})
    BY <2>1, FS_Union
  <2>3. {o[1]} \cup {o[2]} = {o[1], o[2]}
    OBVIOUS
  <2> QED
    BY <2>2, <2>3
<1>5. Fitting(part, axis, primary, cross) \subseteq Range(o)
  BY DEF Fitting, o
<1>6. IsFiniteSet(Fitting(part, axis, primary, cross))
  BY <1>3, <1>4, <1>5, FS_Subset
<1> QED
  BY <1>3, <1>5, <1>6 DEF Fitting, o

\* Whether it fits a table does not depend on the axis.
LEMMA FitsTable ==
    ASSUME NEW part, NEW axis \in Axes, NEW table
    PROVE  Fitting(part, 1, table[1], table[2]) = Fitting(part, axis, table[axis], table[Across(axis)])
<1>1. axis = 1 \/ axis = 2
  BY DEF Axes
<1>2. CASE axis = 1
  BY <1>2 DEF Fitting, Across
<1>3. CASE axis = 2
  BY <1>3 DEF Fitting, Across
<1> QED
  BY <1>1, <1>2, <1>3

\* The largest of them is one of them.
LEMMA BestFits ==
    ASSUME NEW part \in PartTypes, NEW axis \in Axes, NEW primary, NEW cross,
           Fitting(part, axis, primary, cross) # {}
    PROVE  BestOrientation(Fitting(part, axis, primary, cross), axis) \in Fitting(part, axis, primary, cross)
<1> DEFINE S == Fitting(part, axis, primary, cross)
           key == [size \in S |-> <<size[axis], size[Across(axis)]>>]
<1>1. S \subseteq [Axes -> Lengths] /\ IsFiniteSet(S) /\ S # {}
  BY FittingIs
<1> HIDE DEF S
<1>2. key \in [S -> Tuples(2)]
  BY <1>1, AcrossAxis DEF Lengths, Tuples
<1>3. PICK c \in S : \A d \in S : ~Beats(key[d], key[c])
  BY <1>1, <1>2, Largest
<1>4. \A d \in S : ~Beats(<<d[axis], d[Across(axis)]>>, <<c[axis], c[Across(axis)]>>)
  BY <1>3
<1>5. BestOrientation(S, axis) \in S
  BY <1>3, <1>4, Zenon DEF BestOrientation
<1> QED
  BY <1>5 DEF S

\* One more part in a row.
LEMMA RowGrown ==
    ASSUME NEW parts, NEW ids, NEW axis \in Axes, NEW row \in RowsOf(parts, ids, axis), NEW slab \in SlabsOf(parts, ids),
           slab.size[Across(axis)] <= RowCross(row, axis)
    PROVE  /\ Append(row, slab) \in RowsOf(parts, ids, axis)
           /\ RowCross(Append(row, slab), axis) = RowCross(row, axis)
           /\ RowUsed(Append(row, slab), axis) = RowUsed(row, axis) + slab.size[axis] + Kerf
           /\ RowIds(Append(row, slab)) = RowIds(row) \cup {slab.id}
<1> DEFINE new == Append(row, slab)
           n == Len(row)
<1>1. /\ row \in Seq(SlabsOf(parts, ids)) /\ DOMAIN row = 1 .. n /\ n \in Nat /\ n > 0
      /\ \A i \in 1 .. n : row[i] \in SlabsOf(parts, ids) /\ row[i].size[Across(axis)] <= RowCross(row, axis)
      /\ Widths(row, axis) \in Seq(Nat) /\ Len(Widths(row, axis)) = n
      /\ RowUsed(row, axis) \in Int
      /\ Starts(Widths(row, axis))[n + 1] = RowUsed(row, axis) + Kerf
      /\ row \in Seq(Slabs)
  BY RowIs
<1>2. /\ new \in Seq(SlabsOf(parts, ids)) /\ Len(new) = n + 1 /\ DOMAIN new = 1 .. n + 1
      /\ \A i \in 1 .. n : new[i] = row[i]
      /\ new[n + 1] = slab
  BY <1>1
<1> HIDE DEF new, n
<1>3. new[1] = row[1]
  BY <1>1, <1>2
<1>4. RowCross(new, axis) = RowCross(row, axis)
  BY <1>3 DEF RowCross
<1>5. \A i \in 1 .. n + 1 : i \in 1 .. n \/ i = n + 1
  BY <1>1
<1>6. \A i \in 1 .. Len(new) : new[i].size[Across(axis)] <= new[1].size[Across(axis)]
  BY <1>1, <1>2, <1>5, <1>4 DEF RowCross
<1>7. new \in RowsOf(parts, ids, axis)
  BY <1>1, <1>2, <1>6 DEF RowsOf
<1>8. RowIds(new) = RowIds(row) \cup {slab.id}
  <2>1. \A i \in 1 .. n : i \in 1 .. n + 1 /\ new[i].id = row[i].id
    BY <1>1, <1>2
  <2>2. RowIds(new) = {new[i].id : i \in 1 .. n + 1} /\ RowIds(row) = {row[i].id : i \in 1 .. n}
    BY <1>1, <1>2 DEF RowIds
  <2>3. n + 1 \in 1 .. n + 1 /\ new[n + 1].id = slab.id
    BY <1>1, <1>2
  <2> QED
    BY <1>5, <2>1, <2>2, <2>3
<1>9. /\ Widths(new, axis) \in Seq(Nat) /\ Len(Widths(new, axis)) = n + 1
      /\ RowUsed(new, axis) \in Int /\ Starts(Widths(new, axis))[n + 2] = RowUsed(new, axis) + Kerf
  BY <1>7, RowIs, <1>1, <1>2
<1>10. \A i \in 1 .. n : Widths(new, axis)[i] = Widths(row, axis)[i]
  BY <1>1, <1>2, <1>5 DEF Widths
<1>11. Widths(new, axis)[n + 1] = slab.size[axis]
  BY <1>1, <1>2 DEF Widths
<1> DEFINE w == Widths(new, axis)
           v == Widths(row, axis)
<1>12. w \in Seq(Nat) /\ v \in Seq(Nat) /\ Len(v) = n /\ Len(w) = n + 1 /\ \A i \in 1 .. n : w[i] = v[i]
  BY <1>1, <1>9, <1>10
<1> HIDE DEF w, v
<1>13. Starts(w)[n + 2] = Starts(v)[n + 1] + w[n + 1] + Kerf
  BY <1>12, StartsGrow
<1>14. Kerf \in Nat /\ slab.size[axis] \in Nat
  BY KerfAssumption DEF SlabsOf, KerfAssumption, Slabs, Lengths
<1> DEFINE a == RowUsed(new, axis)
           b == RowUsed(row, axis)
           s == slab.size[axis]
<1>15. a + Kerf = b + Kerf + s + Kerf /\ a \in Int /\ b \in Int /\ s \in Nat
  BY <1>1, <1>9, <1>11, <1>13, <1>14 DEF w, v
<1> HIDE DEF a, b, s
<1>16. a = b + s + Kerf
  BY <1>14, <1>15
<1> QED
  BY <1>4, <1>7, <1>8, <1>16 DEF new, a, b, s

\* The first part of a row.
LEMMA RowBegun ==
    ASSUME NEW parts, NEW ids, NEW axis \in Axes, NEW slab \in SlabsOf(parts, ids)
    PROVE  /\ <<slab>> \in RowsOf(parts, ids, axis)
           /\ RowCross(<<slab>>, axis) = slab.size[Across(axis)]
           /\ RowUsed(<<slab>>, axis) = slab.size[axis]
           /\ RowIds(<<slab>>) = {slab.id}
<1>1. slab \in Slabs
  BY DEF SlabsOf
<1>2. slab.size[axis] \in Nat /\ slab.size[Across(axis)] \in Nat
  BY <1>1, AcrossAxis DEF Slabs, Lengths
<1>3. /\ <<slab>> \in Seq(SlabsOf(parts, ids)) /\ Len(<<slab>>) = 1 /\ <<slab>>[1] = slab
      /\ DOMAIN <<slab>> = {1}
  OBVIOUS
<1>4. RowCross(<<slab>>, axis) = slab.size[Across(axis)]
  BY DEF RowCross
<1>5. <<slab>> \in RowsOf(parts, ids, axis)
  BY <1>2, <1>3 DEF RowsOf
<1>6. RowIds(<<slab>>) = {slab.id}
  BY <1>3 DEF RowIds
<1> DEFINE w == Widths(<<slab>>, axis)
           u == RowUsed(<<slab>>, axis)
           s == slab.size[axis]
<1>7. /\ w \in Seq(Nat) /\ Len(w) = 1 /\ u \in Int /\ Starts(w)[2] = u + Kerf
  BY <1>5, RowIs, <1>3
<1>8. w[1] = s
  BY <1>3 DEF Widths
<1> HIDE DEF w
<1>9. Starts(w)[2] = w[1] + Kerf
  BY <1>7, StartsOfOne
<1>10. u + Kerf = s + Kerf /\ u \in Int /\ s \in Nat /\ Kerf \in Nat
  BY <1>2, <1>7, <1>8, <1>9, KerfAssumption DEF KerfAssumption
<1> HIDE DEF u, s
<1>11. u = s
  BY <1>10
<1> QED
  BY <1>4, <1>5, <1>6, <1>11 DEF u, s

\* What remains of a list.
LEMMA LeftOf ==
    ASSUME NEW T, NEW list \in Seq(T), NEW gone
    PROVE  /\ Without(list, gone) \in Seq(T) /\ Elements(Without(list, gone)) = Elements(list) \ gone
           /\ Len(Without(list, gone)) \in Nat /\ Len(Without(list, gone)) <= Len(list)
           /\ (\E i \in 1 .. Len(list) : list[i] \in gone) => Len(Without(list, gone)) < Len(list)
           /\ Distinct(list) => Distinct(Without(list, gone))
<1> DEFINE s == Without(list, gone)
<1>1. s \in KeptOf(T, list, gone, Len(list))
  BY WithoutIs
<1> HIDE DEF s
<1>2. /\ s \in Seq(T) /\ Len(s) <= Len(list)
      /\ \A j \in 1 .. Len(s) : \E i \in 1 .. Len(list) : s[j] = list[i] /\ list[i] \notin gone
      /\ \A i \in 1 .. Len(list) : list[i] \notin gone => \E j \in 1 .. Len(s) : s[j] = list[i]
      /\ (\E i \in 1 .. Len(list) : list[i] \in gone) => Len(s) < Len(list)
      /\ Distinct(list) => Distinct(s)
  BY <1>1 DEF KeptOf
<1>3. Elements(s) = Elements(list) \ gone
  <2>1. ASSUME NEW x \in Elements(s) PROVE x \in Elements(list) \ gone
    BY <1>2 DEF Elements
  <2>2. ASSUME NEW x \in Elements(list) \ gone PROVE x \in Elements(s)
    BY <1>2 DEF Elements
  <2> QED
    BY <2>1, <2>2
<1>4. Len(s) \in Nat
  BY <1>2, LenProperties
<1> QED
  BY <1>2, <1>3, <1>4 DEF s

\* One more row in a load.
LEMMA LoadGrown ==
    ASSUME NEW parts, NEW ids, NEW axis \in Axes, NEW rows \in Seq(RowsOf(parts, ids, axis)),
           NEW row \in RowsOf(parts, ids, axis)
    PROVE  /\ Append(rows, row) \in Seq(RowsOf(parts, ids, axis)) /\ Len(Append(rows, row)) = Len(rows) + 1
           /\ CrossUsed(Append(rows, row), axis) = CrossUsed(rows, axis) + RowCross(row, axis) + Kerf
           /\ IdsOf(Append(rows, row)) = IdsOf(rows) \cup RowIds(row)
           /\ OnceInRows(rows) /\ OnceInRow(row) /\ (\A id \in RowIds(row) : id \notin IdsOf(rows))
                => OnceInRows(Append(rows, row))
<1> DEFINE n == Len(rows)
           new == Append(rows, row)
           c == Crosses(rows, axis)
           d == Crosses(new, axis)
<1>1. /\ n \in Nat /\ DOMAIN rows = 1 .. n /\ \A k \in 1 .. n : rows[k] \in RowsOf(parts, ids, axis)
      /\ c \in Seq(Nat) /\ Len(c) = n /\ (\A k \in 1 .. n : c[k] = RowCross(rows[k], axis))
      /\ CrossUsed(rows, axis) \in Int /\ Starts(c)[n + 1] = CrossUsed(rows, axis) + Kerf
  BY LoadIs
<1>2. /\ new \in Seq(RowsOf(parts, ids, axis)) /\ Len(new) = n + 1 /\ DOMAIN new = 1 .. n + 1
      /\ (\A k \in 1 .. n : new[k] = rows[k]) /\ new[n + 1] = row
  BY <1>1
<1> HIDE DEF new
<1>3. /\ d \in Seq(Nat) /\ Len(d) = Len(new) /\ (\A k \in 1 .. Len(new) : d[k] = RowCross(new[k], axis))
      /\ CrossUsed(new, axis) \in Int /\ Starts(d)[Len(new) + 1] = CrossUsed(new, axis) + Kerf
  BY <1>2, LoadIs
<1> HIDE DEF n, new, c, d
<1>4. \A k \in 1 .. n + 1 : k \in 1 .. n \/ k = n + 1
  BY <1>1
<1>5. \A k \in 1 .. n : k \in 1 .. n + 1
  BY <1>1
<1>6. n + 1 \in 1 .. n + 1
  BY <1>1
<1>7. Starts(d)[n + 2] = Starts(c)[n + 1] + RowCross(row, axis) + Kerf
  <2>1. Len(d) = Len(c) + 1 /\ (\A k \in 1 .. Len(c) : d[k] = c[k]) /\ d[n + 1] = RowCross(row, axis)
    BY <1>1, <1>2, <1>3, <1>5, <1>6
  <2>2. Starts(d)[Len(c) + 2] = Starts(c)[Len(c) + 1] + d[Len(c) + 1] + Kerf
    BY <1>1, <1>3, <2>1, StartsGrow
  <2> QED
    BY <1>1, <2>1, <2>2
<1>8. CrossUsed(new, axis) = CrossUsed(rows, axis) + RowCross(row, axis) + Kerf
  <2> DEFINE x == CrossUsed(new, axis)
             y == CrossUsed(rows, axis)
             z == RowCross(row, axis)
  <2>1. z \in Nat /\ Kerf \in Nat
    BY RowIs, KerfAssumption DEF KerfAssumption
  <2>2. Len(new) + 1 = n + 2
    BY <1>1, <1>2
  <2>3. x \in Int /\ y \in Int /\ x + Kerf = y + Kerf + z + Kerf
    BY <1>1, <1>3, <1>7, <2>2
  <2> HIDE DEF x, y, z
  <2>4. x = y + z + Kerf
    BY <2>1, <2>3
  <2> QED
    BY <2>4 DEF x, y, z
<1>9. IdsOf(new) = IdsOf(rows) \cup RowIds(row)
  BY <1>1, <1>2, <1>4, <1>5, <1>6 DEF IdsOf
<1>10. ASSUME OnceInRows(rows), OnceInRow(row), \A id \in RowIds(row) : id \notin IdsOf(rows)
       PROVE  OnceInRows(new)
  <2> SUFFICES ASSUME NEW k \in 1 .. n + 1, NEW l \in 1 .. n + 1,
                      NEW i \in 1 .. Len(new[k]), NEW j \in 1 .. Len(new[l]), new[k][i].id = new[l][j].id
               PROVE  k = l /\ i = j
    BY <1>2 DEF OnceInRows
  <2>1. \A m \in 1 .. n : DOMAIN rows[m] = 1 .. Len(rows[m])
    BY RowIs, <1>1
  <2>2. DOMAIN row = 1 .. Len(row)
    BY RowIs
  <2>3. ASSUME NEW m \in 1 .. n, NEW p \in 1 .. Len(rows[m]), NEW q \in 1 .. Len(row)
        PROVE  rows[m][p].id # row[q].id
    <3>1. row[q].id \in RowIds(row)
      BY <2>2 DEF RowIds
    <3>2. rows[m][p].id \in RowIds(rows[m])
      BY <2>1 DEF RowIds
    <3>3. RowIds(rows[m]) \subseteq IdsOf(rows)
      BY <1>1 DEF IdsOf
    <3> QED
      BY <1>10, <3>1, <3>2, <3>3
  <2>4. CASE k = n + 1 /\ l = n + 1
    BY <1>2, <1>10, <2>4 DEF OnceInRow
  <2>5. CASE k \in 1 .. n /\ l = n + 1
    BY <1>2, <2>3, <2>5
  <2>6. CASE k = n + 1 /\ l \in 1 .. n
    BY <1>2, <2>3, <2>6
  <2>7. CASE k \in 1 .. n /\ l \in 1 .. n
    BY <1>2, <1>10, <2>7 DEF OnceInRows, n
  <2> QED
    BY <1>4, <2>4, <2>5, <2>6, <2>7
<1> QED
  BY <1>2, <1>8, <1>9, <1>10 DEF new, n

\* The last row of a load with one more part, which must be as shallow.
LEMMA LastGrown ==
    ASSUME NEW parts, NEW ids, NEW axis \in Axes, NEW rows \in Seq(RowsOf(parts, ids, axis)), Len(rows) > 0,
           NEW slab \in SlabsOf(parts, ids), slab.size[Across(axis)] <= RowCross(rows[Len(rows)], axis)
    PROVE  /\ LastWith(rows, slab) \in Seq(RowsOf(parts, ids, axis)) /\ Len(LastWith(rows, slab)) = Len(rows)
           /\ CrossUsed(LastWith(rows, slab), axis) = CrossUsed(rows, axis)
           /\ IdsOf(LastWith(rows, slab)) = IdsOf(rows) \cup {slab.id}
           /\ \A k \in 1 .. Len(rows) :
                LastWith(rows, slab)[k] = IF k = Len(rows) THEN Append(rows[k], slab) ELSE rows[k]
           /\ OnceInRows(rows) /\ slab.id \notin IdsOf(rows) => OnceInRows(LastWith(rows, slab))
<1> DEFINE n == Len(rows)
           row == rows[n]
           longer == Append(row, slab)
           new == LastWith(rows, slab)
<1>1. /\ n \in Nat /\ DOMAIN rows = 1 .. n /\ \A k \in 1 .. n : rows[k] \in RowsOf(parts, ids, axis)
      /\ CrossUsed(rows, axis) = Extent(Crosses(rows, axis))
  BY LoadIs DEF CrossUsed, Crosses
<1>2. n \in 1 .. n /\ row \in RowsOf(parts, ids, axis)
  BY <1>1
<1>3. /\ longer \in RowsOf(parts, ids, axis) /\ RowCross(longer, axis) = RowCross(row, axis)
      /\ RowIds(longer) = RowIds(row) \cup {slab.id}
  BY <1>2, RowGrown
<1>4. /\ row \in Seq(SlabsOf(parts, ids)) /\ Len(row) \in Nat /\ DOMAIN row = 1 .. Len(row)
  BY <1>2, RowIs
<1>5. /\ Len(longer) = Len(row) + 1 /\ \A i \in 1 .. Len(row) : longer[i] = row[i]
      /\ longer[Len(row) + 1] = slab
  BY <1>4
<1>6. new = [rows EXCEPT ![n] = longer]
  BY DEF LastWith
<1> HIDE DEF n, row, longer, new
<1>7. /\ new \in Seq(RowsOf(parts, ids, axis)) /\ Len(new) = n
      /\ DOMAIN new = 1 .. n /\ \A k \in 1 .. n : new[k] = IF k = n THEN longer ELSE rows[k]
  BY <1>1, <1>2, <1>3, Changed, <1>6 DEF n
<1>8. Crosses(new, axis) = Crosses(rows, axis)
  BY <1>3, <1>7, <1>1 DEF row, Crosses
<1>9. CrossUsed(new, axis) = CrossUsed(rows, axis)
  BY <1>1, <1>8 DEF CrossUsed, Crosses
<1>10. IdsOf(new) = IdsOf(rows) \cup {slab.id}
  BY <1>1, <1>2, <1>3, <1>7 DEF IdsOf, row
<1>11. ASSUME OnceInRows(rows), slab.id \notin IdsOf(rows) PROVE OnceInRows(new)
  <2> SUFFICES ASSUME NEW k \in 1 .. n, NEW l \in 1 .. n,
                      NEW i \in 1 .. Len(new[k]), NEW j \in 1 .. Len(new[l]), new[k][i].id = new[l][j].id
               PROVE  k = l /\ i = j
    BY <1>7 DEF OnceInRows
  <2> DEFINE Old(m, p) == p \in 1 .. Len(rows[m]) /\ new[m][p].id = rows[m][p].id
             Added(m, p) == m = n /\ p = Len(row) + 1 /\ new[m][p].id = slab.id
  <2>1. ASSUME NEW m \in 1 .. n, NEW p \in 1 .. Len(new[m]) PROVE Old(m, p) \/ Added(m, p)
    <3>1. CASE m # n
      BY <1>7, <3>1
    <3>2. CASE m = n
      <4>1. new[m] = longer /\ rows[m] = row
        BY <1>7, <3>2 DEF row
      <4>2. p \in 1 .. Len(row) \/ p = Len(row) + 1
        BY <1>4, <1>5, <4>1
      <4> QED
        BY <1>5, <3>2, <4>1, <4>2
    <3> QED
      BY <3>1, <3>2
  <2>2. \A m \in 1 .. n : DOMAIN rows[m] = 1 .. Len(rows[m])
    BY RowIs, <1>1
  <2>3. \A m \in 1 .. n : \A p \in 1 .. Len(rows[m]) : rows[m][p].id # slab.id
    <3> SUFFICES ASSUME NEW m \in 1 .. n, NEW p \in 1 .. Len(rows[m]) PROVE rows[m][p].id # slab.id
      OBVIOUS
    <3>1. rows[m][p].id \in RowIds(rows[m])
      BY <2>2 DEF RowIds
    <3>2. RowIds(rows[m]) \subseteq IdsOf(rows)
      BY <1>1 DEF IdsOf
    <3> QED
      BY <1>11, <3>1, <3>2
  <2>4. CASE Old(k, i) /\ Old(l, j)
    <3>1. k \in 1 .. Len(rows) /\ l \in 1 .. Len(rows)
      BY DEF n
    <3>2. i \in 1 .. Len(rows[k]) /\ j \in 1 .. Len(rows[l]) /\ rows[k][i].id = rows[l][j].id
      BY <2>4
    <3> HIDE DEF Old, Added
    <3> QED
      BY <1>11, <3>1, <3>2, OnceAt
  <2>5. CASE Added(k, i) /\ Added(l, j)
    BY <2>5
  <2>6. CASE Old(k, i) /\ Added(l, j)
    BY <2>3, <2>6
  <2>7. CASE Added(k, i) /\ Old(l, j)
    BY <2>3, <2>7
  <2> HIDE DEF Old, Added
  <2> QED
    BY <2>1, <2>4, <2>5, <2>6, <2>7
<1> QED
  BY <1>7, <1>9, <1>10, <1>11 DEF n, longer, row, new

-----------------------------------------------------------------------------
(* The general packer                                                      *)

\* There is a loop of n steps if each leads from one set to the next.
LEMMA LoopIn ==
    ASSUME NEW n \in Nat, NEW S, NEW first \in S[0], NEW F,
           \A k \in 1 .. n : \A s \in S[k - 1] : F[k][s] \in S[k]
    PROVE  LoopsIn(n, S, first, F) # {}
<1> DEFINE U == UNION {S[k] : k \in 0 .. n}
           G == [k \in 1 .. n |-> [s \in U |-> IF s \in S[k - 1] THEN F[k][s] ELSE s]]
<1>1. \A k \in 0 .. n : S[k] \subseteq U
  OBVIOUS
<1>2. first \in U
  BY <1>1
<1>3. \A k \in 1 .. n : k \in 0 .. n /\ k - 1 \in 0 .. n
  OBVIOUS
<1> HIDE DEF U
<1>4. \A k \in 1 .. n : \A s \in U : G[k][s] = IF s \in S[k - 1] THEN F[k][s] ELSE s
  OBVIOUS
<1>5. G \in [1 .. n -> [U -> U]]
  BY <1>1, <1>3
<1> HIDE DEF G
<1>6. PICK h \in [0 .. n -> U] : h[0] = first /\ \A k \in 1 .. n : h[k] = G[k][h[k - 1]]
  <2>1. G \in Rounds(n, U)
    BY <1>5 DEF Rounds
  <2>2. RunsOf(n, U, first, G) # {}
    BY <1>2, <2>1, LoopRuns
  <2> QED
    BY <2>2 DEF RunsOf
<1> DEFINE R == {k \in 0 .. n : h[k] \in S[k]}
<1>7. \A k \in 1 .. n : k - 1 \in R => k \in R /\ h[k] = F[k][h[k - 1]]
  <2> SUFFICES ASSUME NEW k \in 1 .. n, k - 1 \in R PROVE k \in R /\ h[k] = F[k][h[k - 1]]
    OBVIOUS
  <2>1. k \in 0 .. n /\ k - 1 \in 0 .. n /\ h[k - 1] \in S[k - 1] /\ h[k - 1] \in U
    BY <1>3, <1>6
  <2>2. h[k] = F[k][h[k - 1]]
    BY <1>4, <1>6, <2>1
  <2>3. h[k] \in S[k]
    BY <2>1, <2>2
  <2> QED
    BY <2>1, <2>2, <2>3
<1>8. 0 \in R
  BY <1>6
<1> HIDE DEF R
<1>9. \A k \in 0 .. n : k \in R
  BY <1>7, <1>8, Stepwise
<1>10. \A k \in 1 .. n : h[k] = F[k][h[k - 1]]
  BY <1>3, <1>7, <1>9
<1>11. \A k \in 0 .. n : h[k] \in S[k]
  BY <1>9 DEF R
<1>12. h \in LoopsIn(n, S, first, F)
  BY <1>6, <1>10, <1>11 DEF LoopsIn, U
<1> QED
  BY <1>12

\* And each of its states is.
LEMMA LoopKept ==
    ASSUME NEW n \in Nat, NEW S, NEW f, f[0] \in S[0], \A k \in 1 .. n : f[k - 1] \in S[k - 1] => f[k] \in S[k]
    PROVE  \A k \in 0 .. n : f[k] \in S[k]
<1> DEFINE R == {k \in 0 .. n : f[k] \in S[k]}
<1>1. 0 \in R
  OBVIOUS
<1>2. \A k \in 1 .. n : k - 1 \in R => k \in R
  OBVIOUS
<1> HIDE DEF R
<1>3. \A k \in 0 .. n : k \in R
  BY <1>1, <1>2, Stepwise
<1> QED
  BY <1>3 DEF R

\* The part taken fits the room.
LEMMA TakenFits ==
    ASSUME NEW parts \in Seq(PartTypes), NEW ids, ids \subseteq 1 .. Len(parts), NEW left \in Seq(ids), NEW axis \in Axes,
           NEW primary, NEW cross, Able(WaysIn(parts, left, axis, primary, cross)) # {}
    PROVE  /\ FirstOf(left, WaysIn(parts, left, axis, primary, cross), axis) \in SlabsOf(parts, ids)
           /\ FirstOf(left, WaysIn(parts, left, axis, primary, cross), axis).id \in Elements(left)
           /\ FirstOf(left, WaysIn(parts, left, axis, primary, cross), axis).size[axis] <= primary
           /\ FirstOf(left, WaysIn(parts, left, axis, primary, cross), axis).size[Across(axis)] <= cross
<1> DEFINE fits == WaysIn(parts, left, axis, primary, cross)
           S == Able(fits)
           slab == FirstOf(left, fits, axis)
<1>0. /\ fits = [i \in DOMAIN left |-> Fitting(parts[left[i]], axis, primary, cross)]
      /\ S = {i \in DOMAIN fits : fits[i] # {}} /\ S # {}
      /\ slab = [id |-> left[Min(S)], size |-> BestOrientation(fits[Min(S)], axis)]
  BY DEF WaysIn, Able, FirstOf
<1> HIDE DEF fits, S, slab
<1>1. DOMAIN left = 1 .. Len(left) /\ Len(left) \in Nat /\ \A i \in 1 .. Len(left) : left[i] \in ids
  BY LenProperties, ElementOfSeq
<1> DEFINE m == Min(S)
<1>2. S \subseteq Nat
  BY <1>0, <1>1
<1>3. m \in S
  BY <1>0, <1>2, MinOf
<1> HIDE DEF m
<1>4. m \in 1 .. Len(left) /\ left[m] \in ids /\ left[m] \in 1 .. Len(parts)
  BY <1>0, <1>1, <1>3
<1> DEFINE part == parts[left[m]]
<1>5. part \in PartTypes
  BY <1>4, ElementOfSeq
<1>6. fits[m] = Fitting(part, axis, primary, cross) /\ fits[m] # {}
  BY <1>0, <1>1, <1>3, <1>4
<1> HIDE DEF part
<1> DEFINE size == BestOrientation(fits[m], axis)
<1>7. size \in Fitting(part, axis, primary, cross)
  BY <1>5, <1>6, BestFits
<1> HIDE DEF size
<1>8. /\ size \in Range(Orientations(part)) /\ size \in [Axes -> Lengths]
      /\ size[axis] <= primary /\ size[Across(axis)] <= cross
  BY <1>5, <1>7, FittingIs
<1>9. slab = [id |-> left[m], size |-> size]
  BY <1>0 DEF m, size
<1>13. slab.id = left[m] /\ slab.size = size
  BY <1>9
<1>10. slab \in Slabs
  BY <1>4, <1>8, <1>9 DEF Slabs
<1>11. slab \in SlabsOf(parts, ids)
  BY <1>4, <1>8, <1>10, <1>13 DEF SlabsOf, part
<1>12. slab.id \in Elements(left)
  BY <1>4, <1>13, Zenon DEF Elements
<1> QED
  BY <1>8, <1>11, <1>12, <1>13 DEF slab, fits

\* Nothing takes no room.
LEMMA NoRows ==
    ASSUME NEW parts, NEW ids, NEW axis \in Axes, NEW table \in [Axes -> Lengths]
    PROVE  /\ <<>> \in Seq(RowsOf(parts, ids, axis)) /\ CrossUsed(<<>>, axis) = 0 - Kerf
           /\ Within(<<>>, axis, table) /\ OnceInRows(<<>>) /\ IdsOf(<<>>) = {}
<1> DEFINE e == <<>>
<1>1. e \in Seq(RowsOf(parts, ids, axis)) /\ Len(e) = 0 /\ DOMAIN e = {}
  BY EmptySeq
<1>2. e \in Seq(Nat)
  BY EmptySeq
<1>3. Starts(e)[1] = 0
  BY <1>2, StartsIs
<1> HIDE DEF e
<1>4. Crosses(e, axis) = e
  BY <1>1 DEF Crosses, e
<1>5. Starts(Crosses(e, axis))[Len(e) + 1] = CrossUsed(e, axis) + Kerf /\ CrossUsed(e, axis) \in Int
  <2>1. e \in Seq(RowsOf(parts, ids, axis))
    BY <1>1
  <2> QED
    BY <2>1, LoadIs
<1>6. Kerf \in Nat /\ table[Across(axis)] \in Nat
  BY KerfAssumption, AcrossAxis DEF KerfAssumption, Lengths
<1>7. CrossUsed(e, axis) = 0 - Kerf
  BY <1>1, <1>3, <1>4, <1>5, <1>6
<1>8. Within(e, axis, table)
  BY <1>1, <1>6, <1>7 DEF Within
<1>9. OnceInRows(e) /\ IdsOf(e) = {}
  BY <1>1 DEF OnceInRows, IdsOf
<1> QED
  BY <1>1, <1>7, <1>8, <1>9 DEF e

\* What Laid says of a state.
LEMMA LaidIs ==
    ASSUME NEW parts, NEW ids, NEW axis, NEW table, NEW s \in Laid(parts, ids, axis, table)
    PROVE  /\ s.rows \in Seq(RowsOf(parts, ids, axis)) /\ s.left \in Seq(ids)
           /\ Within(s.rows, axis, table) /\ OnceInRows(s.rows)
           /\ \A id \in Elements(s.left) : id \notin IdsOf(s.rows)
BY DEF Laid

\* And when it holds of one.
LEMMA IsLaid ==
    ASSUME NEW parts, NEW ids, NEW axis, NEW table, NEW rows \in Seq(RowsOf(parts, ids, axis)), NEW left \in Seq(ids),
           Within(rows, axis, table), OnceInRows(rows), \A id \in Elements(left) : id \notin IdsOf(rows)
    PROVE  [rows |-> rows, left |-> left] \in Laid(parts, ids, axis, table)
BY DEF Laid

\* A part that fits the last row is laid in it.
LEMMA LaidInRow ==
    ASSUME NEW parts \in Seq(PartTypes), NEW ids, ids \subseteq 1 .. Len(parts), NEW axis \in Axes,
           NEW table \in [Axes -> Lengths], NEW s \in Laid(parts, ids, axis, table), Len(s.rows) > 0,
           NEW slab \in SlabsOf(parts, ids), slab.id \in Elements(s.left),
           slab.size[axis] <= table[axis] - RowUsed(s.rows[Len(s.rows)], axis) - Kerf,
           slab.size[Across(axis)] <= RowCross(s.rows[Len(s.rows)], axis)
    PROVE  /\ [rows |-> LastWith(s.rows, slab), left |-> Without(s.left, {slab.id})] \in Laid(parts, ids, axis, table)
           /\ LastWith(s.rows, slab) # <<>>
<1> DEFINE rows == s.rows
           new == LastWith(rows, slab)
           n == Len(rows)
           rest == Without(s.left, {slab.id})
<1>1. /\ rows \in Seq(RowsOf(parts, ids, axis)) /\ s.left \in Seq(ids)
      /\ Within(rows, axis, table) /\ OnceInRows(rows) /\ \A id \in Elements(s.left) : id \notin IdsOf(rows)
  BY LaidIs
<1> HIDE DEF rows, new
<1>2. /\ new \in Seq(RowsOf(parts, ids, axis)) /\ Len(new) = n
      /\ CrossUsed(new, axis) = CrossUsed(rows, axis)
      /\ IdsOf(new) = IdsOf(rows) \cup {slab.id}
      /\ \A k \in 1 .. n : new[k] = IF k = n THEN Append(rows[k], slab) ELSE rows[k]
      /\ OnceInRows(rows) /\ slab.id \notin IdsOf(rows) => OnceInRows(new)
  BY <1>1, LastGrown DEF rows, new
<1>3. slab.id \notin IdsOf(rows)
  BY <1>1 DEF rows
<1>4. n \in Nat /\ n > 0 /\ \A k \in 1 .. n : rows[k] \in RowsOf(parts, ids, axis)
  BY <1>1, LoadIs DEF rows
<1>5. n \in 1 .. n
  BY <1>4
<1>6. /\ RowUsed(Append(rows[n], slab), axis) = RowUsed(rows[n], axis) + slab.size[axis] + Kerf
      /\ RowUsed(rows[n], axis) \in Int
  <2>1. rows[n] \in RowsOf(parts, ids, axis) /\ slab.size[Across(axis)] <= RowCross(rows[n], axis)
    BY <1>4, <1>5 DEF rows
  <2>2. RowUsed(rows[n], axis) \in Int
    BY <2>1, RowIs
  <2>3. RowUsed(Append(rows[n], slab), axis) = RowUsed(rows[n], axis) + slab.size[axis] + Kerf
    BY <2>1, RowGrown
  <2> QED
    BY <2>2, <2>3
<1>7. RowUsed(Append(rows[n], slab), axis) <= table[axis]
  <2> DEFINE u == RowUsed(rows[n], axis)
             v == RowUsed(Append(rows[n], slab), axis)
             w == slab.size[axis]
             t == table[axis]
  <2>1. slab \in Slabs
    BY DEF SlabsOf
  <2>2. w \in Nat /\ t \in Nat /\ Kerf \in Nat
    BY <2>1, KerfAssumption DEF KerfAssumption, Slabs, Lengths
  <2>3. v = u + w + Kerf /\ u \in Int /\ w <= t - u - Kerf
    BY <1>6 DEF rows
  <2> HIDE DEF u, v, w, t
  <2>4. v <= t
    BY <2>2, <2>3
  <2> QED
    BY <2>4 DEF v, t
<1>8. Within(new, axis, table)
  BY <1>1, <1>2, <1>7 DEF Within
<1>9. rest \in Seq(ids) /\ Elements(rest) = Elements(s.left) \ {slab.id}
  BY <1>1, LeftOf
<1>10. \A id \in Elements(rest) : id \notin IdsOf(new)
  BY <1>1, <1>2, <1>9
<1> HIDE DEF rest
<1>11. [rows |-> new, left |-> rest] \in Laid(parts, ids, axis, table)
  BY <1>1, <1>2, <1>3, <1>8, <1>9, <1>10, IsLaid
<1>12. new # <<>>
  BY <1>2, <1>4
<1> QED
  BY <1>11, <1>12 DEF rest, new, rows

\* A part that fits what is left of the load begins a row.
LEMMA LaidNext ==
    ASSUME NEW parts \in Seq(PartTypes), NEW ids, ids \subseteq 1 .. Len(parts), NEW axis \in Axes,
           NEW table \in [Axes -> Lengths], NEW s \in Laid(parts, ids, axis, table),
           NEW slab \in SlabsOf(parts, ids), slab.id \in Elements(s.left),
           slab.size[axis] <= table[axis],
           slab.size[Across(axis)] <= IF s.rows = <<>> THEN table[Across(axis)]
                                      ELSE table[Across(axis)] - CrossUsed(s.rows, axis) - Kerf
    PROVE  /\ [rows |-> Append(s.rows, <<slab>>), left |-> Without(s.left, {slab.id})] \in Laid(parts, ids, axis, table)
           /\ Append(s.rows, <<slab>>) # <<>>
<1> DEFINE rows == s.rows
           n == Len(rows)
           row == <<slab>>
           new == Append(rows, row)
           rest == Without(s.left, {slab.id})
<1>1. /\ rows \in Seq(RowsOf(parts, ids, axis)) /\ s.left \in Seq(ids)
      /\ Within(rows, axis, table) /\ OnceInRows(rows) /\ \A id \in Elements(s.left) : id \notin IdsOf(rows)
  BY LaidIs
<1>2. /\ row \in RowsOf(parts, ids, axis) /\ RowCross(row, axis) = slab.size[Across(axis)]
      /\ RowUsed(row, axis) = slab.size[axis] /\ RowIds(row) = {slab.id}
  BY RowBegun
<1>3. OnceInRow(row)
  BY DEF OnceInRow
<1> HIDE DEF rows, row
<1>4. /\ new \in Seq(RowsOf(parts, ids, axis)) /\ Len(new) = n + 1
      /\ CrossUsed(new, axis) = CrossUsed(rows, axis) + RowCross(row, axis) + Kerf
      /\ IdsOf(new) = IdsOf(rows) \cup RowIds(row)
      /\ OnceInRows(rows) /\ OnceInRow(row) /\ (\A id \in RowIds(row) : id \notin IdsOf(rows)) => OnceInRows(new)
  BY <1>1, <1>2, LoadGrown
<1>5. OnceInRows(new)
  BY <1>1, <1>2, <1>3, <1>4 DEF rows
<1>6. n \in Nat /\ (\A k \in 1 .. n : new[k] = rows[k]) /\ new[n + 1] = row /\ CrossUsed(rows, axis) \in Int
  BY <1>1, LoadIs
<1> HIDE DEF new
<1>7. CrossUsed(new, axis) <= table[Across(axis)]
  <2> DEFINE u == CrossUsed(rows, axis)
             v == CrossUsed(new, axis)
             w == slab.size[Across(axis)]
             t == table[Across(axis)]
  <2>1. slab \in Slabs
    BY DEF SlabsOf
  <2>2. w \in Nat /\ t \in Nat /\ Kerf \in Nat
    BY <2>1, AcrossAxis, KerfAssumption DEF KerfAssumption, Slabs, Lengths
  <2>3. v = u + w + Kerf /\ u \in Int
    BY <1>2, <1>4, <1>6
  <2>4. CASE rows = <<>>
    <3>1. u = 0 - Kerf /\ w <= t
      BY <2>4, NoRows DEF rows
    <3> HIDE DEF u, v, w, t
    <3>2. v <= t
      BY <2>2, <2>3, <3>1
    <3> QED
      BY <3>2 DEF v, t
  <2>5. CASE rows # <<>>
    <3>1. w <= t - u - Kerf
      BY <2>5 DEF rows
    <3> HIDE DEF u, v, w, t
    <3>2. v <= t
      BY <2>2, <2>3, <3>1
    <3> QED
      BY <3>2 DEF v, t
  <2> QED
    BY <2>4, <2>5
<1>8. Within(new, axis, table)
  BY <1>1, <1>6, <1>2, <1>4, <1>7 DEF Within
<1>9. rest \in Seq(ids) /\ Elements(rest) = Elements(s.left) \ {slab.id}
  BY <1>1, LeftOf
<1>10. \A id \in Elements(rest) : id \notin IdsOf(new)
  BY <1>1, <1>2, <1>4, <1>9
<1> HIDE DEF rest
<1>11. [rows |-> new, left |-> rest] \in Laid(parts, ids, axis, table)
  BY <1>4, <1>5, <1>8, <1>9, <1>10, IsLaid
<1>12. new # <<>>
  BY <1>4, <1>6
<1> QED
  BY <1>11, <1>12 DEF rest, new, rows, row

\* A step of the general packer.
LEMMA GeneralKeeps ==
    ASSUME NEW parts \in Seq(PartTypes), NEW ids, ids \subseteq 1 .. Len(parts), NEW axis \in Axes,
           NEW table \in [Axes -> Lengths], NEW s \in Laid(parts, ids, axis, table)
    PROVE  /\ GeneralStep(s, parts, axis, table) \in Laid(parts, ids, axis, table)
           /\ s.rows # <<>> => GeneralStep(s, parts, axis, table).rows # <<>>
           /\ s.rows = <<>> /\ s.left # <<>> /\ AllFit(parts, s.left, axis, table)
                => GeneralStep(s, parts, axis, table).rows # <<>>
<1> DEFINE rows == s.rows
           row == rows[Len(rows)]
           roomIn == table[axis] - RowUsed(row, axis) - Kerf
           deepIn == RowCross(row, axis)
           deepOn == IF rows = <<>> THEN table[Across(axis)]
                     ELSE table[Across(axis)] - CrossUsed(rows, axis) - Kerf
           room == table[axis]
           waysIn == WaysIn(parts, s.left, axis, roomIn, deepIn)
           waysOn == WaysIn(parts, s.left, axis, room, deepOn)
           in == FirstOf(s.left, waysIn, axis)
           on == FirstOf(s.left, waysOn, axis)
           next == GeneralStep(s, parts, axis, table)
<1>1. rows \in Seq(RowsOf(parts, ids, axis)) /\ s.left \in Seq(ids)
  BY LaidIs
<1>2. next = IF rows # <<>> /\ Able(waysIn) # {}
             THEN [rows |-> LastWith(rows, in), left |-> Without(s.left, {in.id})]
             ELSE IF Able(waysOn) # {}
             THEN [rows |-> Append(rows, <<on>>), left |-> Without(s.left, {on.id})]
             ELSE s
  <2>1. CASE rows = <<>>
    BY <2>1 DEF Able, GeneralStep, LastWith, FirstOf, WaysIn
  <2>2. CASE rows # <<>>
    BY <2>2, Zenon DEF GeneralStep, LastWith, FirstOf, Able, WaysIn
  <2> QED
    BY <2>1, <2>2
<1> HIDE DEF next, waysIn, waysOn, in, on
<1>3. CASE rows # <<>> /\ Able(waysIn) # {}
  <2>1. Len(rows) > 0
    BY <1>1, <1>3
  <2>2. next = [rows |-> LastWith(rows, in), left |-> Without(s.left, {in.id})]
    BY <1>2, <1>3
  <2> HIDE DEF roomIn, deepIn, rows
  <2>3. /\ in \in SlabsOf(parts, ids) /\ in.id \in Elements(s.left)
        /\ in.size[axis] <= roomIn /\ in.size[Across(axis)] <= deepIn
    BY <1>1, <1>3, TakenFits DEF in, waysIn
  <2>4. /\ [rows |-> LastWith(rows, in), left |-> Without(s.left, {in.id})] \in Laid(parts, ids, axis, table)
        /\ LastWith(rows, in) # <<>>
    BY <2>1, <2>3, LaidInRow DEF roomIn, deepIn, rows
  <2>5. next \in Laid(parts, ids, axis, table) /\ next.rows # <<>>
    BY <2>2, <2>4
  <2> QED
    BY <2>5 DEF next
<1>4. CASE ~(rows # <<>> /\ Able(waysIn) # {}) /\ Able(waysOn) # {}
  <2>2. next = [rows |-> Append(rows, <<on>>), left |-> Without(s.left, {on.id})]
    BY <1>2, <1>4
  <2> HIDE DEF room, deepOn, rows
  <2>3. /\ on \in SlabsOf(parts, ids) /\ on.id \in Elements(s.left)
        /\ on.size[axis] <= room /\ on.size[Across(axis)] <= deepOn
    BY <1>1, <1>4, TakenFits DEF on, waysOn
  <2>4. /\ [rows |-> Append(rows, <<on>>), left |-> Without(s.left, {on.id})] \in Laid(parts, ids, axis, table)
        /\ Append(rows, <<on>>) # <<>>
    BY <2>3, LaidNext DEF room, deepOn, rows
  <2>5. next \in Laid(parts, ids, axis, table) /\ next.rows # <<>>
    BY <2>2, <2>4
  <2> QED
    BY <2>5 DEF next
<1>5. CASE ~(rows # <<>> /\ Able(waysIn) # {}) /\ Able(waysOn) = {}
  <2>1. next = s
    BY <1>2, <1>5
  <2>2. ASSUME rows = <<>>, s.left # <<>>, AllFit(parts, s.left, axis, table) PROVE FALSE
    <3>1. 1 \in 1 .. Len(s.left) /\ DOMAIN s.left = 1 .. Len(s.left)
      BY <1>1, <2>2
    <3>2. deepOn = table[Across(axis)]
      BY <2>2
    <3>3. Fitting(parts[s.left[1]], axis, table[axis], table[Across(axis)]) # {}
      BY <2>2, <3>1 DEF AllFit
    <3>4. waysOn[1] = Fitting(parts[s.left[1]], axis, room, deepOn) /\ 1 \in DOMAIN waysOn
      BY <3>1 DEF waysOn, WaysIn
    <3>5. 1 \in Able(waysOn)
      BY <3>2, <3>3, <3>4 DEF Able
    <3> QED
      BY <1>5, <3>5
  <2> QED
    BY <2>1, <2>2 DEF next
<1> QED
  BY <1>3, <1>4, <1>5

\* The keys by which parts are sorted are numbers.
LEMMA KeyNumbers ==
    ASSUME NEW size \in [Axes -> Lengths]
    PROVE  AreaOf(size) \in Int /\ Max({size[1], size[2]}) \in Int /\ Min({size[1], size[2]}) \in Int
<1> DEFINE x == size[1]
           y == size[2]
<1>1. x \in Nat /\ y \in Nat
  BY DEF Axes, Lengths
<1>2. AreaOf(size) = x * y
  BY DEF AreaOf
<1> HIDE DEF x, y
<1>3. x * y \in Int
  BY <1>1
<1>4. Min({x, y}) \in {x, y}
  BY <1>1, MinOf
<1>5. Max({x, y}) \in {x, y}
  BY <1>1, MaxOf
<1>6. Max({x, y}) \in Int /\ Min({x, y}) \in Int
  BY <1>1, <1>4, <1>5
<1> QED
  BY <1>2, <1>3, <1>6 DEF x, y

\* What the loop of the general packer ends with.
LEMMA GeneralRuns ==
    ASSUME NEW parts \in Seq(PartTypes), NEW ids, ids \subseteq 1 .. Len(parts), NEW axis \in Axes,
           NEW table \in [Axes -> Lengths], NEW order \in Seq(ids), NEW n \in Nat
    PROVE  /\ GeneralEnd(parts, order, n, axis, table) \in Laid(parts, ids, axis, table)
           /\ n > 0 /\ order # <<>> /\ AllFit(parts, order, axis, table)
                => GeneralEnd(parts, order, n, axis, table).rows # <<>>
<1> DEFINE run == CHOOSE f : GeneralRun(parts, order, n, axis, table, f)
           first == [rows |-> <<>>, left |-> order]
           Good(s) == order # <<>> /\ AllFit(parts, order, axis, table) => s.rows # <<>>
           All == Laid(parts, ids, axis, table)
           S == [k \in 0 .. n |-> IF k = 0 THEN {first} ELSE {s \in All : Good(s)}]
           step(s) == GeneralStep(s, parts, axis, table)
           F == [k \in 1 .. n |-> [s \in All |-> step(s)]]
<1>1. first \in All
  BY NoRows, IsLaid
<1>2. ASSUME NEW s \in All, s = first \/ Good(s) PROVE step(s) \in All /\ Good(step(s))
  <2>1. /\ step(s) \in All
        /\ s.rows # <<>> => step(s).rows # <<>>
        /\ s.rows = <<>> /\ s.left # <<>> /\ AllFit(parts, s.left, axis, table) => step(s).rows # <<>>
    BY GeneralKeeps
  <2> HIDE DEF step
  <2> QED
    BY <1>2, <2>1
<1> HIDE DEF first, Good, step, All
<1>3. \A k \in 1 .. n : k \in 0 .. n /\ k - 1 \in 0 .. n /\ k # 0
  OBVIOUS
<1>4. S[0] = {first} /\ \A k \in 1 .. n : S[k] = {s \in All : Good(s)}
  BY <1>3
<1>5. \A k \in 1 .. n : \A s \in S[k - 1] : s \in All /\ (s = first \/ Good(s))
  BY <1>1, <1>3
<1> HIDE DEF S
<1>6. \A k \in 1 .. n : \A s \in S[k - 1] : F[k][s] = step(s) /\ step(s) \in S[k]
  BY <1>2, <1>4, <1>5
<1> HIDE DEF F
<1>7. GeneralRun(parts, order, n, axis, table, run)
  <2>1. PICK h \in LoopsIn(n, S, first, F) : TRUE
    <3>1. first \in S[0] /\ \A k \in 1 .. n : \A s \in S[k - 1] : F[k][s] \in S[k]
      BY <1>4, <1>6
    <3> QED
      BY <3>1, LoopIn
  <2>2. /\ h \in [0 .. n -> UNION {S[k] : k \in 0 .. n}] /\ h[0] = first
        /\ \A k \in 1 .. n : h[k] = F[k][h[k - 1]]
        /\ \A k \in 0 .. n : h[k] \in S[k]
    BY DEF LoopsIn
  <2>3. \A k \in 1 .. n : h[k] = step(h[k - 1])
    BY <1>3, <1>6, <2>2
  <2>4. h = [k \in 0 .. n |-> IF k = 0 THEN first ELSE step(h[k - 1])]
    BY <2>2, <2>3
  <2>5. GeneralRun(parts, order, n, axis, table, h)
    BY <2>4 DEF GeneralRun, first, step
  <2> QED
    BY <2>5, Zenon
<1>13. GeneralEnd(parts, order, n, axis, table) = run[n]
  BY DEF GeneralEnd
<1> HIDE DEF run
<1>8. run = [k \in 0 .. n |-> IF k = 0 THEN first ELSE step(run[k - 1])]
  BY <1>7 DEF GeneralRun, first, step
<1>9. run[0] = first /\ \A k \in 1 .. n : run[k] = step(run[k - 1])
  BY <1>3, <1>8
<1>10. \A k \in 0 .. n : run[k] \in S[k]
  <2>1. run[0] \in S[0]
    BY <1>4, <1>9
  <2>2. \A k \in 1 .. n : run[k - 1] \in S[k - 1] => run[k] \in S[k]
    BY <1>6, <1>9
  <2> QED
    BY <2>1, <2>2, LoopKept
<1>11. run[n] \in S[n]
  BY <1>10
<1>12. run[n] \in All /\ (n > 0 => Good(run[n]))
  BY <1>1, <1>4, <1>11
<1> QED
  BY <1>12, <1>13 DEF All, Good

\* What general packing comes to: a load, and one that is not empty if there are
\* parts and they fit.
LEMMA GeneralIs ==
    ASSUME NEW parts \in Seq(PartTypes), NEW ids, ids \subseteq 1 .. Len(parts), NEW axis \in Axes,
           NEW table \in [Axes -> Lengths], NEW fit \in Seq(ids), NEW sorter
    PROVE  /\ General(parts, fit, axis, table, sorter) \in LoadsOf(parts, ids, axis, table)
           /\ fit # <<>> /\ AllFit(parts, fit, axis, table) => General(parts, fit, axis, table, sorter) # <<>>
<1> DEFINE n == Len(fit)
           Key(size) == IF sorter = "area" THEN AreaOf(size)
                        ELSE IF sorter = "long" THEN Max({size[1], size[2]})
                        ELSE Min({size[1], size[2]})
           key == [i \in DOMAIN fit |-> <<Key(parts[fit[i]].size)>>]
           order == Arranged(fit, key)
           end == GeneralEnd(parts, order, n, axis, table)
<1>1. n \in Nat /\ DOMAIN fit = 1 .. n /\ \A i \in 1 .. n : fit[i] \in ids
  BY LenProperties, ElementOfSeq
<1>2. General(parts, fit, axis, table, sorter) = end.rows
  BY Zenon DEF General, GeneralRun, GeneralEnd
<1>3. key \in [1 .. n -> Tuples(1)]
  <2>1. ASSUME NEW i \in 1 .. n PROVE <<Key(parts[fit[i]].size)>> \in Tuples(1)
    <3> DEFINE size == parts[fit[i]].size
    <3>1. parts[fit[i]] \in PartTypes
      BY <1>1, ElementOfSeq
    <3>2. size \in [Axes -> Lengths]
      BY <3>1 DEF PartTypes
    <3> HIDE DEF size
    <3>3. Key(size) \in Int
      BY <3>2, KeyNumbers
    <3> HIDE DEF Key
    <3> QED
      BY <3>3, OneNumber DEF size
  <2> QED
    BY <1>1, <2>1
<1> HIDE DEF key, n
<1>4. /\ order \in Seq(ids) /\ Len(order) = n
      /\ \E by \in Orders(n) : \A k \in 1 .. n : order[k] = fit[by[k]]
  <2>1. key \in [1 .. Len(fit) -> Tuples(1)] /\ 1 \in Nat
    BY <1>3 DEF n
  <2> HIDE DEF order
  <2>2. /\ Arranged(fit, key) \in Seq(ids) /\ Len(Arranged(fit, key)) = Len(fit)
        /\ \E by \in Orders(Len(fit)) : \A k \in 1 .. Len(fit) : Arranged(fit, key)[k] = fit[by[k]]
    BY <2>1, ArrangedIs
  <2> QED
    BY <2>2 DEF order, n
<1> HIDE DEF order
<1>5. ASSUME AllFit(parts, fit, axis, table) PROVE AllFit(parts, order, axis, table)
  BY <1>4, <1>5 DEF Orders, AllFit, n
<1>6. fit # <<>> => n > 0 /\ order # <<>>
  BY <1>1, <1>4 DEF n
<1> HIDE DEF end
<1>7. /\ end \in Laid(parts, ids, axis, table)
      /\ n > 0 /\ order # <<>> /\ AllFit(parts, order, axis, table) => end.rows # <<>>
  <2>1. order \in Seq(ids) /\ n \in Nat
    BY <1>1, <1>4
  <2>2. /\ GeneralEnd(parts, order, n, axis, table) \in Laid(parts, ids, axis, table)
        /\ n > 0 /\ order # <<>> /\ AllFit(parts, order, axis, table)
             => GeneralEnd(parts, order, n, axis, table).rows # <<>>
    BY <2>1, GeneralRuns
  <2> QED
    BY <2>2 DEF end
<1>8. end.rows \in LoadsOf(parts, ids, axis, table)
  BY <1>7, LaidIs DEF LoadsOf
<1> QED
  BY <1>2, <1>5, <1>6, <1>7, <1>8

-----------------------------------------------------------------------------
(* The packer of equal parts                                               *)

\* How often a length goes into another.
LEMMA GoesInto ==
    ASSUME NEW a \in Nat, NEW b \in Nat, b > 0
    PROVE  a \div b \in Nat /\ (a \div b) * b <= a
<1>1. a % b \in 0..(b - 1)
  BY Z3
<1>2. a = b * (a \div b) + (a % b)
  BY Z3
<1>3. a \div b \in Nat
  BY Z3
<1> DEFINE q == a \div b
           r == a % b
<1>4. q \in Nat /\ r \in Nat /\ a = b * q + r
  BY <1>1, <1>2, <1>3
<1> HIDE DEF q, r
<1>5. q * b <= a
  BY <1>4, Z3
<1> QED
  BY <1>4, <1>5 DEF q

\* One more of a length.
LEMMA OneMoreOf ==
    ASSUME NEW k \in Nat, k > 0, NEW c \in Nat
    PROVE  k * c \in Nat /\ (k - 1) * c \in Nat /\ k * c = (k - 1) * c + c
<1>1. k * c = (k - 1) * c + c
  BY Z3
<1>2. k * c \in Nat /\ (k - 1) * c \in Nat
  BY Z3
<1> QED
  BY <1>1, <1>2

\* A line of equal lengths.
LEMMA EvenLine ==
    ASSUME NEW lengths \in Seq(Nat), NEW w \in Nat, \A i \in 1 .. Len(lengths) : lengths[i] = w
    PROVE  Starts(lengths)[Len(lengths) + 1] = Len(lengths) * (w + Kerf)
<1> DEFINE n == Len(lengths)
           st == Starts(lengths)
           c == w + Kerf
           R == {k \in 0 .. n : st[k + 1] = k * c}
<1>1. /\ n \in Nat /\ st[1] = 0 /\ \A k \in 1 .. n : st[k + 1] = st[k] + lengths[k] + Kerf
  BY StartsIs, LenProperties
<1>2. c \in Nat /\ Kerf \in Nat
  BY KerfAssumption DEF KerfAssumption
<1>3. \A k \in 1 .. n : st[k + 1] = st[k] + w + Kerf
  BY <1>1
<1> HIDE DEF n, st
<1>4. ASSUME NEW k \in 1 .. n, k - 1 \in R PROVE k \in R
  <2>1. st[k] = (k - 1) * c /\ k \in Nat /\ k > 0
    BY <1>1, <1>4
  <2>2. k * c \in Nat /\ (k - 1) * c \in Nat /\ k * c = (k - 1) * c + c
    BY <1>2, <2>1, OneMoreOf
  <2> DEFINE x == k * c
             y == (k - 1) * c
             z == st[k + 1]
  <2>3. z = y + w + Kerf /\ x = y + c /\ y \in Nat
    BY <1>3, <2>1, <2>2
  <2> HIDE DEF x, y, z
  <2>4. z = x
    BY <1>2, <2>3
  <2>5. k \in 0 .. n
    BY <1>1
  <2> QED
    BY <2>4, <2>5 DEF z, x
<1>5. 0 \in R
  BY <1>2, <1>1
<1> HIDE DEF R
<1>6. \A k \in 0 .. n : k \in R
  BY <1>4, <1>1, <1>5, Stepwise
<1>7. n \in R
  BY <1>1, <1>6
<1> QED
  BY <1>7 DEF R, n, st

\* Equal parts in a row.
LEMMA EqualRow ==
    ASSUME NEW parts, NEW ids, ids \subseteq Nat, NEW axis \in Axes, NEW fit \in Seq(ids),
           NEW size \in [Axes -> Lengths], AllLie(parts, fit, size),
           NEW taken \in Nat, NEW m \in Nat, m > 0, taken + m <= Len(fit), Distinct(fit)
    PROVE  EvenRow(parts, ids, axis, fit, taken, m, size, RowOfEqual(fit, taken, m, size))
<1> DEFINE row == RowOfEqual(fit, taken, m, size)
<1>1. Len(fit) \in Nat /\ \A i \in 1 .. Len(fit) : fit[i] \in ids
  BY LenProperties, ElementOfSeq
<1>2. \A i \in 1 .. m : taken + i \in 1 .. Len(fit)
  BY <1>1
<1>3. DOMAIN row = 1 .. m /\ \A i \in 1 .. m : row[i] = [id |-> fit[taken + i], size |-> size]
  BY DEF RowOfEqual
<1>4. size[Across(axis)] \in Nat /\ size[axis] \in Nat
  BY AcrossAxis DEF Lengths
<1>5. ASSUME NEW i \in 1 .. m
      PROVE  /\ row[i] \in SlabsOf(parts, ids) /\ row[i].id = fit[taken + i] /\ row[i].size = size
  <2>1. fit[taken + i] \in ids /\ fit[taken + i] \in Nat /\ size \in Range(Orientations(parts[fit[taken + i]]))
    BY <1>1, <1>2 DEF AllLie
  <2>2. \A x \in Nat : \A y \in [Axes -> Lengths] : [id |-> x, size |-> y] \in Slabs
    BY DEF Slabs
  <2>3. [id |-> fit[taken + i], size |-> size] \in Slabs
    BY <2>1, <2>2
  <2> DEFINE slab == [id |-> fit[taken + i], size |-> size]
  <2>4. slab.id = fit[taken + i] /\ slab.size = size /\ row[i] = slab /\ slab \in Slabs
    BY <1>3, <2>3
  <2> HIDE DEF slab
  <2>5. slab \in SlabsOf(parts, ids)
    BY <2>1, <2>4 DEF SlabsOf
  <2> QED
    BY <2>4, <2>5
<1>16. row = [i \in 1 .. m |-> row[i]]
  BY <1>3 DEF RowOfEqual
<1> HIDE DEF row
<1>6. row \in [1 .. m -> SlabsOf(parts, ids)]
  BY <1>5, <1>16
<1>7. row \in Seq(SlabsOf(parts, ids)) /\ Len(row) = m
  BY <1>6, FunctionSeq
<1>8. 1 \in 1 .. m
  OBVIOUS
<1>17. /\ m > 0 /\ RowCross(row, axis) = size[Across(axis)]
       /\ \A i \in 1 .. m : row[i].size[Across(axis)] <= row[1].size[Across(axis)]
  <2>1. row[1].size = size /\ \A i \in 1 .. m : row[i].size = size
    BY <1>5, <1>8
  <2> QED
    BY <1>4, <2>1 DEF RowCross
<1>9. row \in RowsOf(parts, ids, axis) /\ RowCross(row, axis) = size[Across(axis)]
  BY <1>7, <1>17 DEF RowsOf
<1>10. OnceInRow(row)
  <2> SUFFICES ASSUME NEW i \in 1 .. m, NEW j \in 1 .. m, row[i].id = row[j].id PROVE i = j
    BY <1>7 DEF OnceInRow
  <2>1. fit[taken + i] = fit[taken + j]
    BY <1>5
  <2>2. taken + i = taken + j
    BY <1>2, <2>1 DEF Distinct
  <2> QED
    BY <2>2
<1>11. ASSUME NEW id \in RowIds(row) PROVE \E i \in 1 .. Len(fit) : i > taken /\ i <= taken + m /\ id = fit[i]
  <2>1. PICK j \in 1 .. m : id = row[j].id
    BY <1>3 DEF RowIds
  <2>3. id = fit[taken + j]
    BY <1>5, <2>1
  <2>4. taken + j > taken /\ taken + j <= taken + m
    OBVIOUS
  <2>2. taken + j \in 1 .. Len(fit) /\ taken + j > taken /\ taken + j <= taken + m /\ id = fit[taken + j]
    BY <1>2, <2>3, <2>4
  <2> QED
    BY <2>2
<1> DEFINE ws == Widths(row, axis)
<1>12. /\ ws \in Seq(Nat) /\ Len(ws) = m /\ RowUsed(row, axis) \in Int
       /\ Starts(ws)[m + 1] = RowUsed(row, axis) + Kerf
  BY <1>7, <1>9, RowIs
<1>13. \A i \in 1 .. m : ws[i] = size[axis]
  BY <1>3, <1>5 DEF Widths
<1> HIDE DEF ws
<1>14. Starts(ws)[m + 1] = m * (size[axis] + Kerf)
  BY <1>4, <1>12, <1>13, EvenLine
<1>15. RowUsed(row, axis) = m * (size[axis] + Kerf) - Kerf
  <2> DEFINE x == m * (size[axis] + Kerf)
             u == RowUsed(row, axis)
  <2>1. x = u + Kerf /\ u \in Int /\ Kerf \in Nat
    BY <1>12, <1>14, KerfAssumption DEF KerfAssumption
  <2> HIDE DEF x, u
  <2>2. u = x - Kerf
    BY <2>1
  <2> QED
    BY <2>2 DEF x, u
<1> QED
  BY <1>9, <1>10, <1>11, <1>15 DEF row, EvenRow

\* No more of them are taken than a row holds and than there are.
LEMMA MoreIs ==
    ASSUME NEW fit, Len(fit) \in Nat, NEW s, s.taken \in 0 .. Len(fit), NEW axis \in Axes,
           NEW size \in [Axes -> Lengths], NEW table \in [Axes -> Lengths]
    PROVE  /\ MoreOf(s, fit, size, axis, table) \in Nat
           /\ s.taken + MoreOf(s, fit, size, axis, table) \in 0 .. Len(fit)
           /\ MoreOf(s, fit, size, axis, table) * (size[axis] + Kerf) - Kerf <= table[axis]
<1> DEFINE a == table[axis] + Kerf
           c == size[axis] + Kerf
           q == a \div c
           r == Len(fit) - s.taken
           m == MoreOf(s, fit, size, axis, table)
<1>1. Kerf \in Nat /\ table[axis] \in Nat /\ size[axis] \in Nat /\ size[axis] > 0
  BY KerfAssumption DEF KerfAssumption, Lengths
<1>2. a \in Nat /\ c \in Nat /\ c > 0
  BY <1>1
<1>3. r \in Nat
  OBVIOUS
<1>4. m = Min({q, r})
  BY DEF MoreOf
<1>5. table[axis] = a - Kerf
  BY <1>1
<1>11. r = Len(fit) - s.taken /\ c = size[axis] + Kerf
  OBVIOUS
<1> HIDE DEF a, c
<1>6. q \in Nat /\ q * c <= a
  BY <1>2, GoesInto
<1> HIDE DEF q, r, m
<1>7. m \in {q, r} /\ \A k \in {q, r} : m <= k
  BY <1>3, <1>6, <1>4, MinOf
<1>8. m \in Nat /\ m <= q /\ m <= r
  BY <1>3, <1>6, <1>7
<1>9. m * c \in Nat /\ m * c <= q * c /\ q * c \in Nat
  BY <1>2, <1>6, <1>8, ProductsGrow
<1> DEFINE x == m * c
           y == q * c
<1>10. x - Kerf <= table[axis]
  <2>1. x \in Nat /\ x <= y /\ y \in Nat /\ y <= a
    BY <1>6, <1>9
  <2> HIDE DEF x, y
  <2> QED
    BY <1>1, <1>2, <1>5, <2>1
<1>12. s.taken + m \in 0 .. Len(fit)
  BY <1>8, <1>11
<1> QED
  BY <1>8, <1>10, <1>11, <1>12 DEF m

\* What a sequence holds with one more element.
LEMMA AppendedIs ==
    ASSUME NEW T, NEW seq \in Seq(T), NEW e \in T
    PROVE  /\ Append(seq, e) \in Seq(T) /\ Len(Append(seq, e)) = Len(seq) + 1
           /\ \A k \in 1 .. Len(Append(seq, e)) :
                (k \in 1 .. Len(seq) /\ Append(seq, e)[k] = seq[k]) \/ Append(seq, e)[k] = e
<1>1. Len(seq) \in Nat
  BY LenProperties
<1>2. /\ Append(seq, e) \in Seq(T) /\ Len(Append(seq, e)) = Len(seq) + 1
      /\ (\A k \in 1 .. Len(seq) : Append(seq, e)[k] = seq[k]) /\ Append(seq, e)[Len(seq) + 1] = e
  OBVIOUS
<1>3. \A k \in 1 .. Len(seq) + 1 : k \in 1 .. Len(seq) \/ k = Len(seq) + 1
  BY <1>1
<1> QED
  BY <1>2, <1>3

\* One more row of equal parts.
LEMMA EqualKeeps ==
    ASSUME NEW parts, NEW ids, ids \subseteq Nat, NEW axis \in Axes, NEW table \in [Axes -> Lengths],
           NEW fit \in Seq(ids), Distinct(fit),
           NEW size \in [Axes -> Lengths], AllLie(parts, fit, size),
           NEW deep \in Nat, NEW s \in EqualStates(parts, ids, fit, axis, table, deep)
    PROVE  EqualStep(s, fit, size, axis, table)
               \in EqualStates(parts, ids, fit, axis, table, deep + size[Across(axis)] + Kerf)
<1> DEFINE All == Seq(RowsOf(parts, ids, axis))
           rows == s.rows
           had == s.taken
           few == MoreOf(s, fit, size, axis, table)
           row == RowOfEqual(fit, had, few, size)
           next == Append(rows, row)
           more2 == had + few
           far == deep + size[Across(axis)] + Kerf
<1>1. /\ rows \in All /\ had \in 0 .. Len(fit) /\ CrossUsed(rows, axis) + Kerf <= deep
      /\ \A k \in 1 .. Len(rows) : RowUsed(rows[k], axis) <= table[axis]
      /\ OnceInRows(rows)
      /\ \A id \in IdsOf(rows) : \E i \in 1 .. Len(fit) : i <= had /\ id = fit[i]
  BY DEF EqualStates
<1>2. Len(fit) \in Nat
  BY LenProperties
<1>3. few \in Nat /\ had + few \in 0 .. Len(fit) /\ few * (size[axis] + Kerf) - Kerf <= table[axis]
  BY <1>1, <1>2, MoreIs
<1>4. size[Across(axis)] \in Nat /\ Kerf \in Nat
  BY AcrossAxis, KerfAssumption DEF KerfAssumption, Lengths
<1>5. CrossUsed(rows, axis) \in Int
  BY <1>1, LoadIs
<1>6. far \in Nat /\ deep <= far
  BY <1>4
<1>7. CASE few = 0
  <2>1. EqualStep(s, fit, size, axis, table) = s
    BY <1>7 DEF EqualStep
  <2>2. CrossUsed(rows, axis) + Kerf <= far
    <3> HIDE DEF far, rows
    <3> QED
      BY <1>1, <1>4, <1>5, <1>6
  <2>3. s \in EqualStates(parts, ids, fit, axis, table, far)
    <3> HIDE DEF far
    <3> QED
      BY <2>2 DEF EqualStates
  <2> QED
    BY <2>1, <2>3
<1>8. CASE few # 0
  <2>1. EqualStep(s, fit, size, axis, table) = [rows |-> next, taken |-> more2]
    BY <1>8 DEF EqualStep
  <2>2. had \in Nat /\ few > 0 /\ had + few <= Len(fit)
    BY <1>1, <1>2, <1>3, <1>8
  <2>3. /\ row \in RowsOf(parts, ids, axis) /\ RowCross(row, axis) = size[Across(axis)]
        /\ RowUsed(row, axis) = few * (size[axis] + Kerf) - Kerf
        /\ OnceInRow(row)
        /\ \A id \in RowIds(row) : \E i \in 1 .. Len(fit) : i > had /\ i <= had + few /\ id = fit[i]
    <3>1. few \in Nat
      BY <1>3
    <3> HIDE DEF had, few, row
    <3>2. EvenRow(parts, ids, axis, fit, had, few, size, RowOfEqual(fit, had, few, size))
      BY <2>2, <3>1, EqualRow
    <3>3. EvenRow(parts, ids, axis, fit, had, few, size, row)
      BY <3>2 DEF row
    <3> QED
      BY <3>3 DEF EvenRow
  <2> HIDE DEF row, rows
  <2>4. \A id \in RowIds(row) : id \notin IdsOf(rows)
    BY <2>3, <1>1, <2>2 DEF Distinct
  <2>5. /\ next \in All /\ Len(next) = Len(rows) + 1
        /\ CrossUsed(next, axis) = CrossUsed(rows, axis) + RowCross(row, axis) + Kerf
        /\ IdsOf(next) = IdsOf(rows) \cup RowIds(row)
        /\ OnceInRows(rows) /\ OnceInRow(row) /\ (\A id \in RowIds(row) : id \notin IdsOf(rows))
             => OnceInRows(next)
    BY <1>1, <2>3, LoadGrown
  <2>6. OnceInRows(next)
    BY <1>1, <2>3, <2>4, <2>5
  <2>7. CrossUsed(next, axis) + Kerf <= far
    <3> DEFINE u == CrossUsed(rows, axis)
               v == CrossUsed(next, axis)
               w == size[Across(axis)]
    <3>1. v = u + w + Kerf /\ u \in Int /\ w \in Nat /\ u + Kerf <= deep /\ far = deep + w + Kerf
      BY <1>1, <1>4, <1>5, <2>3, <2>5
    <3> HIDE DEF u, v, w, far
    <3>2. v + Kerf <= far
      BY <1>4, <3>1
    <3> QED
      BY <3>2 DEF v
  <2>8. \A k \in 1 .. Len(next) : RowUsed(next[k], axis) <= table[axis]
    BY <1>1, <2>3, AppendedIs, <1>3
  <2>9. \A id \in IdsOf(next) : \E i \in 1 .. Len(fit) : i <= had + few /\ id = fit[i]
    BY <1>1, <1>3, <2>2, <2>3, <2>5
  <2> HIDE DEF next, far
  <2> DEFINE end == [rows |-> next, taken |-> more2]
  <2>10. end \in [rows : All, taken : 0 .. Len(fit)] /\ end.rows = next /\ end.taken = more2
    BY <1>3, <2>5
  <2> HIDE DEF end
  <2>12. end \in EqualStates(parts, ids, fit, axis, table, far)
    BY <2>6, <2>7, <2>8, <2>9, <2>10 DEF EqualStates
  <2> QED
    BY <2>1, <2>12 DEF end, far
<1> QED
  BY <1>7, <1>8

\* The depths of so many rows of either kind.
LEMMA DepthsAre ==
    ASSUME NEW first \in Nat, NEW c \in Nat, NEW d \in Nat, NEW n \in Nat
    PROVE  AddUp(Depths(first, c, d, n), first, c, d, n)
<1> DEFINE D == Depths(first, c, d, n)
           at(k) == IF k <= first THEN k * c ELSE first * c + (k - first) * d
<1>1. D = [k \in 0 .. n |-> at(k)]
  BY DEF Depths
<1>2. first * c \in Nat /\ 0 * c = 0 /\ 0 * d = 0
  BY Z3
<1>3. ASSUME NEW k \in 1 .. n PROVE at(k) \in Nat /\ at(k) = at(k - 1) + (IF k <= first THEN c ELSE d)
  <2>1. CASE k <= first
    BY <2>1, OneMoreOf
  <2>2. CASE k > first
    <3> DEFINE e == k - first
    <3>1. e \in Nat /\ e > 0
      BY <2>2
    <3>2. e * d \in Nat /\ (e - 1) * d \in Nat /\ e * d = (e - 1) * d + d
      <4> HIDE DEF e
      <4> QED
        BY <3>1, OneMoreOf
    <3>3. at(k) = first * c + e * d
      BY <2>2
    <3>4. at(k - 1) = first * c + (e - 1) * d
      BY <2>2, <1>2
    <3> DEFINE x == first * c
               y == e * d
               z == (e - 1) * d
               u == at(k)
               v == at(k - 1)
    <3>5. x \in Nat /\ y \in Nat /\ z \in Nat /\ y = z + d /\ u = x + y /\ v = x + z
      BY <1>2, <3>2, <3>3, <3>4
    <3> HIDE DEF x, y, z, u, v
    <3>6. u \in Nat /\ u = v + d
      BY <3>5
    <3> QED
      BY <2>2, <3>6 DEF u, v
  <2>3. k <= first \/ k > first
    OBVIOUS
  <2> QED
    BY <2>1, <2>2, <2>3
<1>4. at(0) = 0
  BY <1>2
<1> HIDE DEF at
<1>5. \A k \in 0 .. n : at(k) \in Nat
  BY <1>3, <1>4
<1>6. D \in [0 .. n -> Nat] /\ 0 \in 0 .. n /\ \A k \in 0 .. n : D[k] = at(k)
  BY <1>1, <1>5
<1>7. \A k \in 1 .. n : k \in 0 .. n /\ k - 1 \in 0 .. n
  OBVIOUS
<1> QED
  BY <1>3, <1>4, <1>6, <1>7 DEF AddUp

\* What the loop of the packer of equal parts ends with.
LEMMA EqualRuns ==
    ASSUME NEW parts, NEW ids, ids \subseteq Nat, NEW axis \in Axes, NEW table \in [Axes -> Lengths],
           NEW fit \in Seq(ids), Distinct(fit), NEW types, types[1] \in [Axes -> Lengths], types[2] \in [Axes -> Lengths],
           NEW first \in Nat, NEW n \in Nat, first <= n,
           first > 0 => AllLie(parts, fit, types[1]), n > first => AllLie(parts, fit, types[2])
    PROVE  EqualEnd(fit, types, first, n, axis, table)
             \in EqualStates(parts, ids, fit, axis, table,
                    Depths(first, types[1][Across(axis)] + Kerf, types[2][Across(axis)] + Kerf, n)[n])
<1> DEFINE run == CHOOSE f : EqualRun(fit, types, first, n, axis, table, f)
           begin == [rows |-> <<>>, taken |-> 0]
           one == types[1][Across(axis)] + Kerf
           two == types[2][Across(axis)] + Kerf
           D == Depths(first, one, two, n)
           At(e) == EqualStates(parts, ids, fit, axis, table, e)
           type(k) == types[IF k <= first THEN 1 ELSE 2]
           step(k, s) == EqualStep(s, fit, type(k), axis, table)
           S == [k \in 0 .. n |-> At(D[k])]
           F == [k \in 1 .. n |-> [s \in At(D[k - 1]) |-> step(k, s)]]
<1>1. one \in Nat /\ two \in Nat /\ Kerf \in Nat
  <2>1. Across(axis) \in Axes
    BY AcrossAxis
  <2>2. types[1][Across(axis)] \in Nat /\ types[2][Across(axis)] \in Nat
    BY <2>1 DEF Lengths
  <2>3. Kerf \in Nat
    BY KerfAssumption DEF KerfAssumption
  <2> QED
    BY <2>2, <2>3
<1>2. /\ D \in [0 .. n -> Nat] /\ D[0] = 0
      /\ \A k \in 1 .. n : D[k] = D[k - 1] + (IF k <= first THEN one ELSE two)
  <2> HIDE DEF one, two
  <2>1. AddUp(Depths(first, one, two, n), first, one, two, n)
    BY <1>1, DepthsAre
  <2>2. AddUp(D, first, one, two, n)
    BY <2>1
  <2> HIDE DEF D
  <2> QED
    BY <2>2 DEF AddUp
<1>3. \A k \in 1 .. n : k \in 0 .. n /\ k - 1 \in 0 .. n /\ k # 0
  OBVIOUS
<1>4. ASSUME NEW k \in 1 .. n, NEW s \in At(D[k - 1]) PROVE step(k, s) \in At(D[k])
  <2>1. type(k) \in [Axes -> Lengths] /\ AllLie(parts, fit, type(k))
    OBVIOUS
  <2>2. D[k - 1] \in Nat /\ D[k] = D[k - 1] + type(k)[Across(axis)] + Kerf
    <3>1. D[k - 1] \in Nat /\ D[k] = D[k - 1] + (IF k <= first THEN one ELSE two)
      BY <1>2, <1>3
    <3>2. type(k)[Across(axis)] \in Nat /\ (IF k <= first THEN one ELSE two) = type(k)[Across(axis)] + Kerf
      BY <2>1, AcrossAxis DEF Lengths
    <3> DEFINE x == IF k <= first THEN one ELSE two
               y == type(k)[Across(axis)]
               z == D[k - 1]
               u == D[k]
    <3>3. z \in Nat /\ u = z + x /\ y \in Nat /\ x = y + Kerf
      BY <3>1, <3>2
    <3> HIDE DEF x, y, z, u
    <3>4. z \in Nat /\ u = z + y + Kerf
      BY <1>1, <3>3
    <3> QED
      BY <3>4 DEF y, z, u
  <2> HIDE DEF D, type
  <2> DEFINE e == D[k - 1]
             t == type(k)
  <2>3. e \in Nat /\ s \in EqualStates(parts, ids, fit, axis, table, e)
    BY <1>4, <2>2
  <2>5. t \in [Axes -> Lengths] /\ AllLie(parts, fit, t)
    BY <2>1
  <2> HIDE DEF e, t
  <2>4. EqualStep(s, fit, t, axis, table)
          \in EqualStates(parts, ids, fit, axis, table, e + t[Across(axis)] + Kerf)
    BY <2>3, <2>5, EqualKeeps
  <2> QED
    BY <2>2, <2>4 DEF e, t
<1>5. begin \in At(D[0])
  <2>1. /\ <<>> \in Seq(RowsOf(parts, ids, axis)) /\ CrossUsed(<<>>, axis) = 0 - Kerf
        /\ OnceInRows(<<>>) /\ IdsOf(<<>>) = {}
    BY NoRows
  <2>2. Len(fit) \in Nat
    BY LenProperties
  <2>3. CrossUsed(<<>>, axis) + Kerf <= 0
    BY <1>1, <2>1
  <2>4. begin \in [rows : Seq(RowsOf(parts, ids, axis)), taken : 0 .. Len(fit)]
    BY <2>1, <2>2
  <2>5. begin.rows = <<>> /\ \A k \in 1 .. Len(<<>>) : RowUsed(<<>>[k], axis) <= table[axis]
    OBVIOUS
  <2> HIDE DEF begin, D
  <2> QED
    BY <1>2, <2>1, <2>3, <2>4, <2>5 DEF EqualStates
<1> HIDE DEF begin, step, At, D
<1>6. S[0] = At(D[0]) /\ \A k \in 1 .. n : S[k] = At(D[k]) /\ S[k - 1] = At(D[k - 1])
  BY <1>3
<1> HIDE DEF S
<1>7. \A k \in 1 .. n : \A s \in S[k - 1] : F[k][s] = step(k, s) /\ step(k, s) \in S[k]
  BY <1>4, <1>6
<1> HIDE DEF F
<1>8. begin \in S[0]
  BY <1>5, <1>6
<1>9. EqualRun(fit, types, first, n, axis, table, run)
  <2>1. PICK h \in LoopsIn(n, S, begin, F) : TRUE
    BY <1>7, <1>8, LoopIn
  <2>2. /\ h \in [0 .. n -> UNION {S[k] : k \in 0 .. n}] /\ h[0] = begin
        /\ \A k \in 1 .. n : h[k] = F[k][h[k - 1]]
        /\ \A k \in 0 .. n : h[k] \in S[k]
    BY DEF LoopsIn
  <2>3. \A k \in 1 .. n : h[k] = step(k, h[k - 1])
    BY <1>3, <1>7, <2>2
  <2>4. h = [k \in 0 .. n |-> IF k = 0 THEN begin ELSE step(k, h[k - 1])]
    BY <2>2, <2>3
  <2>5. EqualRun(fit, types, first, n, axis, table, h)
    BY <2>4 DEF EqualRun, begin, step
  <2> QED
    BY <2>5, Zenon
<1>10. EqualEnd(fit, types, first, n, axis, table) = run[n]
  BY DEF EqualEnd
<1> HIDE DEF run
<1>11. run = [k \in 0 .. n |-> IF k = 0 THEN begin ELSE step(k, run[k - 1])]
  BY <1>9 DEF EqualRun, begin, step
<1>12. run[0] = begin /\ \A k \in 1 .. n : run[k] = step(k, run[k - 1])
  BY <1>3, <1>11
<1>13. \A k \in 0 .. n : run[k] \in S[k]
  <2>1. run[0] \in S[0] /\ \A k \in 1 .. n : run[k - 1] \in S[k - 1] => run[k] \in S[k]
    BY <1>7, <1>8, <1>12
  <2> QED
    BY <2>1, LoopKept
<1>14. run[n] \in At(D[n])
  BY <1>6, <1>13
<1> QED
  BY <1>10, <1>14 DEF At, D

\* What packing equal parts comes to: a load, which may be empty.
LEMMA HomogeneousIs ==
    ASSUME NEW parts \in Seq(PartTypes), NEW ids, ids \subseteq 1 .. Len(parts), NEW axis \in Axes,
           NEW table \in [Axes -> Lengths], NEW fit \in Seq(ids), fit # <<>>, Distinct(fit)
    PROVE  Homogeneous(parts, fit, axis, table) \in LoadsOf(parts, ids, axis, table)
<1> DEFINE b == Across(axis)
           part == parts[fit[1]]
           types == RowTypes(part, axis, table)
           most == Len(fit)
           Room(size) == Capacity(size, axis, table)
           Cross(counts) == CountsCross(counts, types, axis)
           Holds(counts) == CountsHold(counts, types, axis, table)
           all == RowCounts(part, types, most, axis, table)
           key == [counts \in all |->
               <<Min({Holds(counts), most}), -Max({Holds(counts) - most, 0}),
                 -(counts[1] + counts[2]), -Cross(counts)>>]
           best == BestCounts(all, types, most, axis, table)
           end == EqualEnd(fit, types, best[1], best[1] + best[2], axis, table)
<1>15. EqualRows(fit, types, best, axis, table) = end.rows
  <2> HIDE DEF types, best
  <2> QED
    BY Zenon DEF EqualRows, EqualEnd, EqualRun, EqualStep, MoreOf, RowOfEqual, Capacity, end
<1>1. Homogeneous(parts, fit, axis, table)
        = IF all = {} \/ \E i \in DOMAIN fit : parts[fit[i]] # part THEN <<>> ELSE end.rows
  BY <1>15, Zenon DEF Homogeneous
<1>16. best = CHOOSE counts \in all : \A other \in all : ~Beats(key[other], key[counts])
  BY Zenon DEF BestCounts
<1>2. /\ Len(fit) \in Nat /\ Len(fit) > 0 /\ DOMAIN fit = 1 .. Len(fit)
      /\ \A i \in 1 .. Len(fit) : fit[i] \in ids
  BY LenProperties, ElementOfSeq
<1>3. part \in PartTypes
  <2>1. fit[1] \in 1 .. Len(parts)
    <3>1. 1 \in 1 .. Len(fit)
      BY <1>2
    <3> QED
      BY <1>2, <3>1
  <2> QED
    BY <2>1, ElementOfSeq
<1>4. types[1] \in [Axes -> Lengths] /\ types[2] \in [Axes -> Lengths]
  <2>1. part.size \in [Axes -> Lengths]
    BY <1>3 DEF PartTypes
  <2>2. Turned(part.size) \in [Axes -> Lengths]
    BY <2>1, TurnedIs
  <2>3. types = <<Turned(part.size), part.size>> \/ types = <<part.size, Turned(part.size)>>
    <3> HIDE DEF part
    <3> QED
      BY DEF RowTypes
  <2> HIDE DEF part, types
  <2> QED
    BY <2>1, <2>2, <2>3
<1> HIDE DEF types
<1>5. ASSUME NEW size \in [Axes -> Lengths] PROVE Room(size) \in Nat
  <2> DEFINE x == table[axis] + Kerf
             y == size[axis] + Kerf
  <2>1. x \in Nat /\ y \in Nat /\ y > 0
    BY KerfAssumption DEF KerfAssumption, Lengths
  <2> HIDE DEF x, y
  <2>2. x \div y \in Nat
    BY <2>1, GoesInto
  <2> QED
    BY <2>2 DEF x, y, Capacity
<1> DEFINE one == types[1][b] + Kerf
           two == types[2][b] + Kerf
<1>6. one \in Nat /\ two \in Nat /\ Kerf \in Nat /\ table[b] \in Nat
  BY <1>4, AcrossAxis, KerfAssumption DEF KerfAssumption, Lengths
<1>7. \A counts : Cross(counts) = counts[1] * one + counts[2] * two - Kerf
  BY DEF CountsCross
<1> HIDE DEF one, two
<1>8. ASSUME NEW counts \in (0 .. Len(fit)) \X (0 .. Len(fit)) PROVE Cross(counts) \in Int /\ Holds(counts) \in Nat
  <2>1. counts[1] \in Nat /\ counts[2] \in Nat
    BY <1>2
  <2> DEFINE x == counts[1]
             y == counts[2]
             p == Room(types[1])
             q == Room(types[2])
  <2>2. x \in Nat /\ y \in Nat /\ p \in Nat /\ q \in Nat
    BY <1>4, <1>5, <2>1
  <2>3. Cross(counts) = x * one + y * two - Kerf /\ Holds(counts) = x * p + y * q
    BY <1>7 DEF CountsHold
  <2> HIDE DEF x, y, p, q, Holds, Cross
  <2>4. x * one \in Nat /\ y * two \in Nat /\ x * p \in Nat /\ y * q \in Nat
    BY <1>6, <2>2, ProductsGrow
  <2>5. \A e, f \in Nat : e + f \in Nat /\ e + f - Kerf \in Int
    BY <1>6
  <2> QED
    BY <2>3, <2>4, <2>5
<1>9. \A counts \in all : /\ counts \in (0 .. Len(fit)) \X (0 .. Len(fit))
                          /\ counts[1] + counts[2] > 0 /\ Cross(counts) <= table[b]
                          /\ \A i \in 1 .. 2 :
                               counts[i] > 0 => types[i] \in Fitting(part, axis, table[axis], table[b])
  BY DEF RowCounts
<1>10. IsFiniteSet(all)
  <2>1. all \subseteq (0 .. Len(fit)) \X (0 .. Len(fit))
    BY DEF RowCounts
  <2>2. IsFiniteSet(0 .. Len(fit))
    BY <1>2, FS_Interval
  <2> HIDE DEF all
  <2>3. IsFiniteSet((0 .. Len(fit)) \X (0 .. Len(fit)))
    BY <2>2, FS_Product
  <2> QED
    BY <2>1, <2>3, FS_Subset
<1> HIDE DEF all, Holds, Cross, Room
<1>11. key \in [all -> Tuples(4)]
  <2> SUFFICES ASSUME NEW counts \in all PROVE key[counts] \in Tuples(4)
    OBVIOUS
  <2> DEFINE h == Holds(counts)
             n == Len(fit)
             x == Min({h, n})
             y == -Max({h - n, 0})
             u == -(counts[1] + counts[2])
             v == -Cross(counts)
  <2>1. h \in Nat /\ Cross(counts) \in Int /\ n \in Nat
    BY <1>2, <1>8, <1>9
  <2>2. counts[1] \in Nat /\ counts[2] \in Nat
    BY <1>2, <1>9
  <2>3. u \in Int /\ v \in Int
    BY <2>1, <2>2
  <2>4. key[counts] = <<x, y, u, v>>
    OBVIOUS
  <2> HIDE DEF h, n, u, v
  <2>5. x \in Int
    <3>1. {h, n} \subseteq Nat /\ {h, n} # {}
      BY <2>1
    <3>2. Min({h, n}) \in {h, n}
      BY <3>1, MinOf
    <3> QED
      BY <2>1, <3>2
  <2>6. y \in Int
    <3> DEFINE e == h - n
    <3>1. {e, 0} \subseteq Int /\ {e, 0} # {} /\ h \in Int /\ \A i \in {e, 0} : i <= h
      BY <2>1
    <3> HIDE DEF e
    <3>2. Max({e, 0}) \in {e, 0}
      BY <3>1, MaxOf
    <3>3. Max({e, 0}) \in Int
      BY <3>1, <3>2
    <3> QED
      BY <3>3 DEF e
  <2> HIDE DEF x, y, key
  <2>7. <<x, y, u, v>> \in Tuples(4)
    BY <2>3, <2>5, <2>6 DEF Tuples
  <2> QED
    BY <2>4, <2>7
<1> HIDE DEF key
<1>12. ASSUME all # {} PROVE best \in all
  BY <1>10, <1>11, <1>12, <1>16, Largest
<1> HIDE DEF best
<1>13. ASSUME all # {}, \A i \in DOMAIN fit : parts[fit[i]] = part
       PROVE  end.rows \in LoadsOf(parts, ids, axis, table)
  <2> DEFINE first == best[1]
             rest == best[2]
             n == first + rest
             D == Depths(first, one, two, n)
  <2>1. best \in all /\ first \in Nat /\ rest \in Nat /\ Cross(best) \in Int /\ Cross(best) <= table[b]
    BY <1>2, <1>8, <1>9, <1>12, <1>13
  <2>2. ASSUME NEW i \in 1 .. 2, best[i] > 0 PROVE AllLie(parts, fit, types[i])
    <3>1. types[i] \in Fitting(part, axis, table[axis], table[b])
      BY <1>9, <2>1, <2>2
    <3>2. types[i] \in Range(Orientations(part))
      <4> HIDE DEF part
      <4> QED
        BY <1>3, <3>1, FittingIs
    <3> QED
      BY <1>2, <1>13, <3>2 DEF AllLie
  <2>3. /\ first \in Nat /\ n \in Nat /\ first <= n
        /\ (first > 0 => AllLie(parts, fit, types[1])) /\ (n > first => AllLie(parts, fit, types[2]))
    BY <2>1, <2>2
  <2>4. D[n] = Cross(best) + Kerf
    <3>1. AddUp(D, first, one, two, n)
      <4> HIDE DEF first, n, D
      <4>1. AddUp(Depths(first, one, two, n), first, one, two, n)
        BY <1>6, <2>3, DepthsAre
      <4> QED
        BY <4>1 DEF D
    <3>2. D[n] = IF n <= first THEN n * one ELSE first * one + (n - first) * two
      <4>1. n \in 0 .. n
        BY <2>3
      <4> HIDE DEF first, n
      <4> QED
        BY <4>1 DEF Depths
    <3>3. first * one \in Nat /\ rest * two \in Nat /\ 0 * two = 0
      <4> HIDE DEF first, rest
      <4> QED
        BY <1>6, <2>1, ProductsGrow, Z3
    <3>4. n - first = rest
      BY <2>1
    <3>5. D[n] = first * one + rest * two
      <4>1. CASE rest = 0
        <5>1. n = first /\ n <= first
          BY <2>1, <4>1
        <5> HIDE DEF first, rest, n, D
        <5>2. D[n] = n * one
          BY <3>2, <5>1
        <5>3. rest * two = 0 /\ n * one = first * one
          BY <3>3, <4>1, <5>1
        <5> QED
          BY <3>3, <5>2, <5>3
      <4>2. CASE rest # 0
        <5>1. ~(n <= first)
          BY <2>1, <4>2
        <5> HIDE DEF first, rest, n, D
        <5>2. D[n] = first * one + (n - first) * two
          BY <3>2, <5>1
        <5> QED
          BY <3>4, <5>2
      <4> QED
        BY <4>1, <4>2
    <3>6. Cross(best) = first * one + rest * two - Kerf
      BY <1>7
    <3> DEFINE x == first * one
               y == rest * two
               u == D[n]
               v == Cross(best)
    <3>7. x \in Nat /\ y \in Nat /\ u = x + y /\ v = x + y - Kerf
      BY <3>3, <3>5, <3>6
    <3> HIDE DEF x, y, u, v
    <3>8. u = v + Kerf
      BY <1>6, <3>7
    <3> QED
      BY <3>8 DEF u, v
  <2>5. EqualEnd(fit, types, first, n, axis, table) \in EqualStates(parts, ids, fit, axis, table, D[n])
    <3> HIDE DEF first, n
    <3>1. ids \subseteq Nat
      OBVIOUS
    <3>2. EqualEnd(fit, types, first, n, axis, table)
             \in EqualStates(parts, ids, fit, axis, table,
                    Depths(first, types[1][Across(axis)] + Kerf, types[2][Across(axis)] + Kerf, n)[n])
      BY <1>4, <2>3, <3>1, EqualRuns
    <3> QED
      BY <3>2 DEF one, two
  <2>6. end \in EqualStates(parts, ids, fit, axis, table, Cross(best) + Kerf)
    BY <2>4, <2>5
  <2> HIDE DEF end
  <2>7. /\ end.rows \in Seq(RowsOf(parts, ids, axis)) /\ OnceInRows(end.rows)
        /\ CrossUsed(end.rows, axis) + Kerf <= Cross(best) + Kerf
        /\ \A k \in 1 .. Len(end.rows) : RowUsed(end.rows[k], axis) <= table[axis]
    BY <2>6 DEF EqualStates
  <2>8. CrossUsed(end.rows, axis) <= table[b]
    <3> DEFINE u == CrossUsed(end.rows, axis)
               v == Cross(best)
    <3>1. u \in Int
      BY <2>7, LoadIs
    <3>2. u + Kerf <= v + Kerf /\ v \in Int /\ v <= table[b]
      BY <2>1, <2>7
    <3> HIDE DEF u, v, b
    <3>3. u <= table[b]
      BY <1>6, <3>1, <3>2
    <3> QED
      BY <3>3 DEF u
  <2> QED
    BY <2>7, <2>8 DEF LoadsOf, Within
<1>14. <<>> \in LoadsOf(parts, ids, axis, table)
  BY NoRows DEF LoadsOf
<1> HIDE DEF end, part
<1> QED
  BY <1>1, <1>13, <1>14

-----------------------------------------------------------------------------
(* The legacy planner                                                      *)

\* How far the pieces on a table reach.
LEMMA SideIs ==
    ASSUME NEW pieces \in Seq(Numbered), pieces # <<>>, NEW table \in [Axes -> Lengths],
           OnSheet([size |-> table, pieces |-> pieces]), NEW a \in Axes
    PROVE  Max({Hi(pieces[i], a) : i \in DOMAIN pieces}) \in Int
<1> DEFINE S == {Hi(pieces[i], a) : i \in DOMAIN pieces}
<1>1. DOMAIN pieces = 1 .. Len(pieces) /\ Len(pieces) \in Nat /\ \A i \in 1 .. Len(pieces) : pieces[i] \in Numbered
  BY NumberedPieces
<1>2. \A i \in 1 .. Len(pieces) : Hi(pieces[i], a) \in Int
  BY PieceNumbers, <1>1
<1>3. S \subseteq Int /\ S # {}
  BY <1>1, <1>2
<1>4. table[a] \in Int /\ \A x \in S : x <= table[a]
  BY DEF OnSheet, Lengths
<1> HIDE DEF S
<1>5. Max(S) \in S
  <2> DEFINE t == table[a]
  <2>1. t \in Int /\ \A x \in S : x <= t
    BY <1>4
  <2> HIDE DEF t
  <2> QED
    BY <1>3, <2>1, MaxOf
<1>6. Max(S) \in Int
  BY <1>3, <1>5
<1> QED
  BY <1>6 DEF S

\* The score of a load.
LEMMA ScoreTyped ==
    ASSUME NEW parts, NEW ids, ids \subseteq 1 .. Len(parts), NEW axis \in Axes, NEW table \in [Axes -> Lengths],
           NEW rows \in LoadsOf(parts, ids, axis, table), rows # <<>>, NEW homogeneous \in Int
    PROVE  Score(rows, axis, homogeneous) \in Tuples(5)
<1> DEFINE pieces == Placed(rows, axis)
           Side(a) == Max({Hi(pieces[i], a) : i \in DOMAIN pieces})
           used == Used([pieces |-> pieces])
<1>1. rows \in Seq(RowsOf(parts, ids, axis)) /\ Within(rows, axis, table)
  BY DEF LoadsOf
<1>2. Len(rows) > 0
  BY <1>1, LoadIs
<1>3. /\ pieces \in Seq(Numbered) /\ pieces # <<>>
      /\ OnSheet([size |-> table, pieces |-> pieces])
  BY <1>1, <1>2, PlacedIs
<1>4. Score(rows, axis, homogeneous) = <<Len(pieces), used, -Side(2), Side(1), homogeneous>>
  BY Zenon DEF Score
<1> HIDE DEF pieces
<1>5. Side(1) \in Int /\ Side(2) \in Int
  BY <1>3, SideIs DEF Axes
<1> DEFINE load == [pieces |-> pieces]
<1>6. used \in Int
  <2>1. load.pieces \in Seq(Numbered)
    BY <1>3
  <2> HIDE DEF load
  <2>2. Used(load) \in Int
    BY <2>1, UsedTyped
  <2> QED
    BY <2>2 DEF load
<1>7. Len(pieces) \in Int
  BY <1>3, LenProperties
<1> DEFINE v == Side(2)
           w == Side(1)
<1>8. v \in Int /\ w \in Int /\ Score(rows, axis, homogeneous) = <<Len(pieces), used, -v, w, homogeneous>>
  BY <1>4, <1>5
<1> HIDE DEF v, w, used
<1> QED
  BY <1>6, <1>7, <1>8 DEF Tuples

\* What a load of the legacy planner is: the best of four, if one of them has
\* rows; and it has if there are parts and they fit.
LEMMA LegacyLoadIs ==
    ASSUME NEW parts \in Seq(PartTypes), NEW ids, ids \subseteq 1 .. Len(parts), NEW axis \in Axes,
           NEW table \in [Axes -> Lengths], NEW fit \in Seq(ids), fit # <<>>, Distinct(fit)
    PROVE  /\ LegacyLoad(parts, fit, axis, table) \in LoadsOf(parts, ids, axis, table)
           /\ AllFit(parts, fit, axis, table) => LegacyLoad(parts, fit, axis, table) # <<>>
<1> DEFINE All == LoadsOf(parts, ids, axis, table)
           options == <<Homogeneous(parts, fit, axis, table),
                        General(parts, fit, axis, table, "area"),
                        General(parts, fit, axis, table, "long"),
                        General(parts, fit, axis, table, "short")>>
           some == {i \in 1 .. 4 : options[i] # <<>>}
           score == [i \in some |-> Score(options[i], axis, IF i = 1 THEN 1 ELSE 0)]
           choice == CHOOSE i \in some : \A j \in some \ {i} :
                        ~Beats(score[j], score[i]) /\ (score[j] = score[i] => i < j)
<1>1. LegacyLoad(parts, fit, axis, table) = IF some = {} THEN <<>> ELSE options[choice]
  BY Zenon DEF LegacyLoad
<1>2. Homogeneous(parts, fit, axis, table) \in All
  BY HomogeneousIs
<1>3. \A sorter : /\ General(parts, fit, axis, table, sorter) \in All
                  /\ AllFit(parts, fit, axis, table) => General(parts, fit, axis, table, sorter) # <<>>
  BY GeneralIs
<1> HIDE DEF All
<1>4. \A i \in 1 .. 4 : options[i] \in All
  <2>1. \A i \in 1 .. 4 : i = 1 \/ i = 2 \/ i = 3 \/ i = 4
    OBVIOUS
  <2>2. options[1] \in All /\ options[2] \in All /\ options[3] \in All /\ options[4] \in All
    BY <1>2, <1>3
  <2> HIDE DEF options
  <2> QED
    BY <2>1, <2>2
<1>5. AllFit(parts, fit, axis, table) => some # {}
  <2>1. AllFit(parts, fit, axis, table) => options[2] # <<>>
    BY <1>3
  <2> HIDE DEF options
  <2>2. 2 \in 1 .. 4
    OBVIOUS
  <2> QED
    BY <2>1, <2>2
<1> HIDE DEF options
<1>6. some \subseteq Nat /\ IsFiniteSet(some) /\ \A i \in some : i \in 1 .. 4 /\ options[i] # <<>>
  <2>3. some \subseteq 1 .. 4
    OBVIOUS
  <2>4. 1 \in Int /\ 4 \in Int
    OBVIOUS
  <2>5. IsFiniteSet(1 .. 4)
    BY <2>4, FS_Interval
  <2>1. some \subseteq 1 .. 4 /\ IsFiniteSet(1 .. 4)
    BY <2>3, <2>5
  <2>2. IsFiniteSet(some)
    BY <2>1, FS_Subset
  <2> QED
    BY <2>1, <2>2
<1> HIDE DEF some
<1>7. score \in [some -> Tuples(5)]
  <2> SUFFICES ASSUME NEW i \in some PROVE Score(options[i], axis, IF i = 1 THEN 1 ELSE 0) \in Tuples(5)
    OBVIOUS
  <2> DEFINE h == IF i = 1 THEN 1 ELSE 0
             rows == options[i]
  <2>1. h \in Int /\ rows \in LoadsOf(parts, ids, axis, table) /\ rows # <<>>
    BY <1>4, <1>6 DEF All
  <2> HIDE DEF h, rows
  <2>2. Score(rows, axis, h) \in Tuples(5)
    BY <2>1, ScoreTyped
  <2> QED
    BY <2>2 DEF h, rows
<1> HIDE DEF score
<1>8. ASSUME some # {} PROVE choice \in some
  <2>1. \E i \in some : ComesFirst(some, score, i)
    BY <1>6, <1>7, <1>8, FirstLargest
  <2>2. PICK i \in some : ComesFirst(some, score, i)
    BY <2>1
  <2>3. \A j \in some \ {i} : ~Beats(score[j], score[i]) /\ (score[j] = score[i] => i < j)
    BY <2>2 DEF ComesFirst
  <2> QED
    BY <2>3, Zenon
<1> HIDE DEF choice
<1>9. <<>> \in All
  BY NoRows DEF LoadsOf, All
<1>10. LegacyLoad(parts, fit, axis, table) \in All
  BY <1>1, <1>4, <1>6, <1>8, <1>9
<1>11. AllFit(parts, fit, axis, table) => LegacyLoad(parts, fit, axis, table) # <<>>
  BY <1>1, <1>5, <1>6, <1>8
<1> QED
  BY <1>10, <1>11 DEF All

\* Sequences over more.
LEMMA SeqWider ==
    ASSUME NEW S, NEW T, S \subseteq T, NEW seq \in Seq(S)
    PROVE  seq \in Seq(T)
<1> DEFINE n == Len(seq)
<1>1. n \in Nat /\ DOMAIN seq = 1 .. n /\ \A i \in 1 .. n : seq[i] \in S
  BY LenProperties, ElementOfSeq
<1>2. seq = [i \in 1 .. n |-> seq[i]]
  BY <1>1
<1> HIDE DEF n
<1>3. seq \in [1 .. n -> T]
  BY <1>1, <1>2
<1> QED
  BY <1>1, <1>3, FunctionSeq

\* A list is one of its elements.
LEMMA InElements ==
    ASSUME NEW T, NEW list \in Seq(T)
    PROVE  /\ list \in Seq(Elements(list)) /\ Elements(list) \subseteq T
           /\ Len(list) \in Nat /\ \A i \in 1 .. Len(list) : list[i] \in T /\ list[i] \in Elements(list)
<1> DEFINE n == Len(list)
           E == Elements(list)
<1>1. n \in Nat /\ DOMAIN list = 1 .. n /\ \A i \in 1 .. n : list[i] \in T
  BY LenProperties, ElementOfSeq
<1>2. E \subseteq T /\ \A i \in 1 .. n : list[i] \in E
  BY <1>1 DEF Elements
<1>3. list = [i \in 1 .. n |-> list[i]]
  BY <1>1
<1> HIDE DEF n, E
<1>4. list \in [1 .. n -> E]
  BY <1>2, <1>3
<1>5. list \in Seq(E)
  BY <1>1, <1>4, FunctionSeq
<1> QED
  BY <1>1, <1>2, <1>5 DEF n, E

\* What rows of some parts are rows of more.
LEMMA MoreRows ==
    ASSUME NEW parts, NEW some, NEW ids, some \subseteq ids, NEW axis \in Axes
    PROVE  RowsOf(parts, some, axis) \subseteq RowsOf(parts, ids, axis)
<1> SUFFICES ASSUME NEW row \in RowsOf(parts, some, axis) PROVE row \in RowsOf(parts, ids, axis)
  OBVIOUS
<1>1. SlabsOf(parts, some) \subseteq SlabsOf(parts, ids)
  BY DEF SlabsOf
<1>2. row \in Seq(SlabsOf(parts, some))
  BY DEF RowsOf
<1>3. row \in Seq(SlabsOf(parts, ids))
  BY <1>1, <1>2, SeqWider
<1> QED
  BY <1>3 DEF RowsOf

\* The numbers in some rows are those of their parts.
LEMMA IdsAreOf ==
    ASSUME NEW parts, NEW ids, NEW axis \in Axes, NEW rows \in Seq(RowsOf(parts, ids, axis))
    PROVE  IdsOf(rows) \subseteq ids /\ (rows # <<>> => IdsOf(rows) # {})
<1>1. Len(rows) \in Nat /\ \A k \in 1 .. Len(rows) : rows[k] \in RowsOf(parts, ids, axis)
  BY LoadIs
<1>2. \A row \in RowsOf(parts, ids, axis) : 
        Len(row) \in Nat /\ Len(row) > 0 /\ \A i \in 1 .. Len(row) : row[i] \in SlabsOf(parts, ids)
  BY RowIs
<1>3. ASSUME NEW id \in IdsOf(rows) PROVE id \in ids
  BY <1>3, IdsOfRows, <1>1, <1>2 DEF SlabsOf
<1>4. ASSUME rows # <<>> PROVE IdsOf(rows) # {}
  <2>1. 1 \in 1 .. Len(rows)
    BY <1>1, <1>4
  <2>2. 1 \in 1 .. Len(rows[1])
    BY <1>1, <1>2, <2>1
  <2> DEFINE id == rows[1][1].id
  <2>3. \E k \in 1 .. Len(rows) : \E i \in 1 .. Len(rows[k]) : rows[k][i].id = id
    BY <2>1, <2>2
  <2> HIDE DEF id
  <2>4. id \in IdsOf(rows)
    BY <2>3, IdsOfRows
  <2> QED
    BY <2>4
<1> QED
  BY <1>3, <1>4

\* What loads of some parts are loads of more.
LEMMA MoreLoads ==
    ASSUME NEW parts, NEW some, NEW ids, some \subseteq ids, NEW axis \in Axes, NEW table,
           NEW rows \in LoadsOf(parts, some, axis, table)
    PROVE  rows \in LoadsOf(parts, ids, axis, table) /\ IdsOf(rows) \subseteq some
<1>1. rows \in Seq(RowsOf(parts, some, axis)) /\ Within(rows, axis, table) /\ OnceInRows(rows)
  BY DEF LoadsOf
<1>2. RowsOf(parts, some, axis) \subseteq RowsOf(parts, ids, axis)
  BY MoreRows
<1>3. rows \in Seq(RowsOf(parts, ids, axis))
  BY <1>1, <1>2, SeqWider
<1> QED
  BY <1>1, <1>3, IdsAreOf DEF LoadsOf

\* One more load, of parts that are in none yet.
LEMMA LoadsGrown ==
    ASSUME NEW T, NEW loads \in Seq(T), NEW rows \in T
    PROVE  /\ \A id : InLoads(Append(loads, rows), id) <=> InLoads(loads, id) \/ id \in IdsOf(rows)
           /\ Parted(loads) /\ (\A id \in IdsOf(rows) : ~InLoads(loads, id)) => Parted(Append(loads, rows))
<1> DEFINE new == Append(loads, rows)
           n == Len(loads)
<1>1. /\ n \in Nat /\ Len(new) = n + 1 /\ (\A k \in 1 .. n : new[k] = loads[k]) /\ new[n + 1] = rows
  BY LenProperties
<1>2. (\A k \in 1 .. n : k \in 1 .. n + 1) /\ n + 1 \in 1 .. n + 1 /\ \A k \in 1 .. n + 1 : k \in 1 .. n \/ k = n + 1
  BY <1>1
<1>5. \A id : InLoads(loads, id) <=> \E k \in 1 .. n : id \in IdsOf(loads[k])
  BY DEF InLoads
<1>6. \A id : InLoads(new, id) <=> \E k \in 1 .. n + 1 : id \in IdsOf(new[k])
  BY <1>1 DEF InLoads
<1>7. Parted(loads) <=> \A k, l \in 1 .. n : \A id : id \in IdsOf(loads[k]) /\ id \in IdsOf(loads[l]) => k = l
  BY DEF Parted
<1>8. Parted(new) <=> \A k, l \in 1 .. n + 1 : \A id : id \in IdsOf(new[k]) /\ id \in IdsOf(new[l]) => k = l
  BY <1>1 DEF Parted
<1> HIDE DEF new, n
<1>3. \A id : InLoads(new, id) <=> InLoads(loads, id) \/ id \in IdsOf(rows)
  BY <1>1, <1>2, <1>5, <1>6
<1>4. ASSUME Parted(loads), \A id \in IdsOf(rows) : ~InLoads(loads, id) PROVE Parted(new)
  BY <1>8, <1>1, <1>5, <1>2, <1>4, <1>7
<1> QED
  BY <1>3, <1>4 DEF new

\* One more load.
LEMMA LegacyKeeps ==
    ASSUME NEW parts \in Seq(PartTypes), NEW ids, ids \subseteq 1 .. Len(parts), NEW axis \in Axes,
           NEW table \in [Axes -> Lengths], EachFits(parts, ids, axis, table),
           NEW k \in Nat, k > 0, NEW s \in LegacyStates(parts, ids, axis, table, k - 1)
    PROVE  LegacyStep(s, parts, axis, table) \in LegacyStates(parts, ids, axis, table, k)
<1> DEFINE loads == s.loads
           left == s.left
           rows == RowsNext(s, parts, axis, table)
           All == FilledLoads(parts, ids, axis, table)
<1>1. /\ loads \in Seq(All) /\ left \in Seq(ids) /\ Parted(loads) /\ Distinct(left)
      /\ \A id \in ids : id \in Elements(left) <=> ~InLoads(loads, id)
      /\ Len(loads) <= k - 1 /\ (left # <<>> => Len(loads) = k - 1)
      /\ s \in [loads : Seq(All), left : Seq(ids)]
  BY DEF LegacyStates
<1>2. Len(loads) \in Nat
  BY <1>1, LenProperties
<1>3. CASE left = <<>>
  BY <1>3, <1>1, <1>2 DEF RowsNext, LegacyStep, LegacyStates
<1>4. CASE left # <<>>
  <2>1. rows = LegacyLoad(parts, left, axis, table)
    BY <1>4 DEF RowsNext
  <2> DEFINE some == Elements(left)
  <2>2. /\ Len(left) \in Nat /\ DOMAIN left = 1 .. Len(left)
        /\ \A i \in 1 .. Len(left) : left[i] \in ids /\ left[i] \in some
    BY <1>1, LenProperties, ElementOfSeq DEF Elements
  <2>3. some \subseteq ids /\ some \subseteq 1 .. Len(parts)
    BY <2>2 DEF Elements
  <2>4. left \in Seq(some)
    BY <1>1, InElements
  <2> HIDE DEF some, rows, left, loads
  <2>5. AllFit(parts, left, axis, table)
    BY <2>2 DEF AllFit, EachFits
  <2>6. rows \in LoadsOf(parts, some, axis, table) /\ rows # <<>>
    BY <1>1, <1>4, <2>3, <2>4, LegacyLoadIs, <2>1, <2>5
  <2>7. rows \in All /\ IdsOf(rows) \subseteq some
    BY <2>3, <2>6, MoreLoads DEF FilledLoads
  <2> DEFINE newLoads == Append(loads, rows)
             newLeft == Without(left, IdsOf(rows))
             end == [loads |-> newLoads, left |-> newLeft]
  <2>8. LegacyStep(s, parts, axis, table) = end
    BY <2>6 DEF LegacyStep, rows, left, loads
  <2>9. /\ \A id : InLoads(newLoads, id) <=> InLoads(loads, id) \/ id \in IdsOf(rows)
        /\ Parted(loads) /\ (\A id \in IdsOf(rows) : ~InLoads(loads, id)) => Parted(newLoads)
    <3> HIDE DEF All
    <3> QED
      BY <1>1, <2>7, LoadsGrown
  <2>10. \A id \in IdsOf(rows) : ~InLoads(loads, id)
    BY <1>1, <2>3, <2>7 DEF some
  <2>11. Parted(newLoads)
    BY <1>1, <2>9, <2>10
  <2>12. /\ newLeft \in Seq(ids) /\ Elements(newLeft) = Elements(left) \ IdsOf(rows)
         /\ Distinct(newLeft)
    BY <1>1, LeftOf
  <2>13. newLoads \in Seq(All) /\ Len(newLoads) = k
    <3> HIDE DEF All
    <3>1. newLoads \in Seq(All) /\ Len(newLoads) = Len(loads) + 1
      BY <1>1, <2>7, AppendedIs
    <3>2. Len(loads) + 1 = k
      BY <1>1, <1>2, <1>4
    <3> QED
      BY <3>1, <3>2
  <2> HIDE DEF newLoads, newLeft, All
  <2>14. end \in [loads : Seq(All), left : Seq(ids)] /\ end.loads = newLoads /\ end.left = newLeft
    BY <2>12, <2>13
  <2> HIDE DEF end
  <2>15. \A id \in ids : id \in Elements(newLeft) <=> ~InLoads(newLoads, id)
    BY <1>1, <2>9, <2>12
  <2>16. end \in LegacyStates(parts, ids, axis, table, k)
    BY <2>11, <2>12, <2>13, <2>14, <2>15 DEF LegacyStates, All
  <2> QED
    BY <2>8, <2>16
<1> QED
  BY <1>3, <1>4

\* What the loop over the loads ends with.
LEMMA LegacyRuns ==
    ASSUME NEW parts \in Seq(PartTypes), NEW ids, ids \subseteq 1 .. Len(parts), NEW axis \in Axes,
           NEW table \in [Axes -> Lengths], EachFits(parts, ids, axis, table),
           NEW fit \in Seq(ids), Distinct(fit), ids = Elements(fit), NEW n \in Nat
    PROVE  LegacyEnd(parts, fit, axis, table, n) \in LegacyStates(parts, ids, axis, table, n)
<1> DEFINE run == CHOOSE f : LegacyRun(parts, fit, axis, table, n, f)
           begin == [loads |-> <<>>, left |-> fit]
           At(k) == LegacyStates(parts, ids, axis, table, k)
           step(s) == LegacyStep(s, parts, axis, table)
           S == [k \in 0 .. n |-> At(k)]
           F == [k \in 1 .. n |-> [s \in At(k - 1) |-> step(s)]]
<1>1. \A k \in 1 .. n : k \in 0 .. n /\ k - 1 \in 0 .. n /\ k # 0 /\ k \in Nat /\ k > 0
  OBVIOUS
<1>2. ASSUME NEW k \in 1 .. n, NEW s \in At(k - 1) PROVE step(s) \in At(k)
  BY <1>1, <1>2, LegacyKeeps
<1>3. begin \in At(0)
  <2>1. begin.loads = <<>> /\ begin.left = fit
    OBVIOUS
  <2>2. begin \in [loads : Seq(FilledLoads(parts, ids, axis, table)), left : Seq(ids)]
    OBVIOUS
  <2>3. Len(<<>>) = 0 /\ Parted(<<>>) /\ \A id : ~InLoads(<<>>, id)
    BY DEF Parted, InLoads
  <2> HIDE DEF begin
  <2> QED
    BY <2>1, <2>2, <2>3 DEF LegacyStates
<1> HIDE DEF begin, step, At
<1>4. S[0] = At(0) /\ S[n] = At(n) /\ \A k \in 1 .. n : S[k] = At(k) /\ S[k - 1] = At(k - 1)
  BY <1>1
<1> HIDE DEF S
<1>5. \A k \in 1 .. n : \A s \in S[k - 1] : F[k][s] = step(s) /\ step(s) \in S[k]
  BY <1>2, <1>4
<1> HIDE DEF F
<1>6. begin \in S[0]
  BY <1>3, <1>4
<1>7. LegacyRun(parts, fit, axis, table, n, run)
  <2>1. PICK h \in LoopsIn(n, S, begin, F) : TRUE
    BY <1>5, <1>6, LoopIn
  <2>2. /\ h \in [0 .. n -> UNION {S[k] : k \in 0 .. n}] /\ h[0] = begin
        /\ \A k \in 1 .. n : h[k] = F[k][h[k - 1]]
        /\ \A k \in 0 .. n : h[k] \in S[k]
    BY DEF LoopsIn
  <2>3. \A k \in 1 .. n : h[k] = step(h[k - 1])
    BY <1>1, <1>5, <2>2
  <2>4. h = [k \in 0 .. n |-> IF k = 0 THEN begin ELSE step(h[k - 1])]
    BY <2>2, <2>3
  <2>5. LegacyRun(parts, fit, axis, table, n, h)
    BY <2>4 DEF LegacyRun, begin, step
  <2> QED
    BY <2>5, Zenon
<1>8. LegacyEnd(parts, fit, axis, table, n) = run[n]
  BY DEF LegacyEnd
<1> HIDE DEF run
<1>9. run = [k \in 0 .. n |-> IF k = 0 THEN begin ELSE step(run[k - 1])]
  BY <1>7 DEF LegacyRun, begin, step
<1>10. run[0] = begin /\ \A k \in 1 .. n : run[k] = step(run[k - 1])
  BY <1>1, <1>9
<1>11. \A k \in 0 .. n : run[k] \in S[k]
  <2>1. run[0] \in S[0] /\ \A k \in 1 .. n : run[k - 1] \in S[k - 1] => run[k] \in S[k]
    BY <1>5, <1>6, <1>10
  <2> QED
    BY <2>1, LoopKept
<1>12. run[n] \in S[n]
  BY <1>11
<1> QED
  BY <1>4, <1>8, <1>12 DEF At

\* The plan of some rows that fit their table, each part in one load.
LEMMA RowPlanSound ==
    ASSUME NEW parts, NEW fit, Elements(fit) \subseteq 1 .. Len(parts), NEW axis \in Axes,
           NEW table \in [Axes -> Lengths], NEW left \in Seq(Elements(fit)), NEW most,
           NEW loads \in Seq(FilledLoads(parts, Elements(fit), axis, table)), Parted(loads),
           \A id \in Elements(fit) : id \in Elements(left) <=> ~InLoads(loads, id),
           Len(loads) <= most, left # <<>> => Len(loads) = most
    PROVE  PlanSound(RowPlan(loads, left, axis, table), parts, fit, table, most)
<1> DEFINE ids == Elements(fit)
           plan == RowPlan(loads, left, axis, table)
           p == plan.loads
<1> HIDE DEF ids
<1>1. Len(loads) \in Nat /\ \A k \in 1 .. Len(loads) : loads[k] \in FilledLoads(parts, ids, axis, table)
  BY LenProperties, ElementOfSeq DEF ids
<1>2. \A k \in 1 .. Len(loads) : /\ loads[k] \in Seq(RowsOf(parts, ids, axis)) /\ Len(loads[k]) > 0
                                 /\ Within(loads[k], axis, table) /\ OnceInRows(loads[k])
  <2>1. \A rows \in FilledLoads(parts, ids, axis, table) :
            /\ rows \in Seq(RowsOf(parts, ids, axis)) /\ rows # <<>>
            /\ Within(rows, axis, table) /\ OnceInRows(rows)
    BY DEF FilledLoads, LoadsOf
  <2>2. \A rows \in Seq(RowsOf(parts, ids, axis)) : rows # <<>> => Len(rows) > 0
    BY LenProperties
  <2> QED
    BY <1>1, <2>1, <2>2
<1>3. loads \in Seq(Seq(RowsOf(parts, ids, axis)))
  BY SeqWider DEF FilledLoads, LoadsOf, ids
<1>4. /\ plan.loads \in Seq(NumberedSheets) /\ Len(plan.loads) = Len(loads)
      /\ plan.axis = axis /\ plan.left = left /\ plan.fill \in Int
      /\ \A k \in 1 .. Len(loads) :
           /\ LoadDrawn(plan.loads[k], parts, ids, table)
           /\ \A id : HasId(plan.loads[k].pieces, id) <=> id \in IdsOf(loads[k])
           /\ Within(loads[k], axis, table) => OnSheet(plan.loads[k])
           /\ OnceInRows(loads[k]) => OnceEach(plan.loads[k].pieces)
      /\ \A id : Present(plan.loads, id) <=> InLoads(loads, id)
  <2>1. ids \subseteq 1 .. Len(parts) /\ NoneEmpty(loads)
    BY <1>2 DEF ids, NoneEmpty
  <2>2. PlanOfRows(RowPlan(loads, left, axis, table), loads, left, parts, ids, axis, table)
    BY <1>3, <2>1, RowPlanIs
  <2> HIDE DEF plan
  <2>3. PlanOfRows(plan, loads, left, parts, ids, axis, table)
    BY <2>2 DEF plan
  <2> QED
    BY <2>3 DEF PlanOfRows
<1> HIDE DEF plan
<1>5. OnceInPlan(p)
  <2>1. p \in Seq(NumberedSheets) /\ Len(p) = Len(loads)
    BY <1>4
  <2>2. \A k \in 1 .. Len(loads) :
          /\ \A id : HasId(p[k].pieces, id) <=> id \in IdsOf(loads[k])
          /\ OnceEach(p[k].pieces)
    BY <1>2, <1>4
  <2> HIDE DEF p
  <2> QED
    BY <2>1, <2>2, OncePlanned
<1>6. \A k \in 1 .. Len(plan.loads) : LoadDrawn(plan.loads[k], parts, ids, table) /\ OnSheet(plan.loads[k])
  BY <1>2, <1>4
<1>7. \A id \in ids : id \in Elements(plan.left) <=> ~Present(plan.loads, id)
  BY <1>4 DEF ids
<1>8. /\ plan.left \in Seq(ids) /\ Len(plan.loads) <= most
      /\ (plan.left # <<>> => Len(plan.loads) = most)
  BY <1>4 DEF ids
<1>9. PlanSound(plan, parts, fit, table, most)
  BY <1>4, <1>5, <1>6, <1>7, <1>8 DEF PlanSound, ids
<1> QED
  BY <1>9 DEF plan

\* What the legacy planner makes of parts that each fit the table.
LEMMA LegacyPlanIs ==
    ASSUME NEW parts \in Seq(PartTypes), NEW axis \in Axes, NEW table \in [Axes -> Lengths],
           NEW fit \in Seq(1 .. Len(parts)), Distinct(fit), EachFits(parts, Elements(fit), axis, table),
           NEW most \in Nat
    PROVE  PlanSound(LegacyPlan(parts, fit, axis, table, most), parts, fit, table, most)
<1> DEFINE end == LegacyEnd(parts, fit, axis, table, most)
           ids == Elements(fit)
<1>1. LegacyPlan(parts, fit, axis, table, most) = RowPlan(end.loads, end.left, axis, table)
  BY Zenon DEF LegacyPlan, LegacyEnd, LegacyRun, LegacyStep, RowsNext
<1>2. fit \in Seq(ids) /\ ids \subseteq 1 .. Len(parts)
  BY InElements
<1>3. end \in LegacyStates(parts, ids, axis, table, most)
  <2>1. ids = Elements(fit)
    OBVIOUS
  <2> HIDE DEF ids
  <2> QED
    BY <1>2, <2>1, LegacyRuns
<1> HIDE DEF end
<1>4. /\ end.loads \in Seq(FilledLoads(parts, ids, axis, table)) /\ end.left \in Seq(ids) /\ Parted(end.loads)
      /\ \A id \in ids : id \in Elements(end.left) <=> ~InLoads(end.loads, id)
      /\ Len(end.loads) <= most /\ (end.left # <<>> => Len(end.loads) = most)
  BY <1>3 DEF LegacyStates
<1> DEFINE loads == end.loads
           left == end.left
<1> HIDE DEF loads, left
<1>5. PlanSound(RowPlan(loads, left, axis, table), parts, fit, table, most)
  BY <1>2, <1>4, RowPlanSound DEF loads, left
<1> QED
  BY <1>1, <1>5 DEF loads, left

-----------------------------------------------------------------------------
(* The width-first planner                                                 *)

\* What may come next in a row is a part of the list, no deeper than the row.
LEMMA NextIs ==
    ASSUME NEW parts \in Seq(PartTypes), NEW fit \in Seq(1 .. Len(parts)), NEW axis \in Axes,
           NEW table, NEW row, NEW p \in NextInRow(parts, fit, row, axis, table)
    PROVE  p \in SlabsOf(parts, Elements(fit)) /\ p.size[Across(axis)] <= RowCross(row, axis)
<1> DEFINE room == table[axis] - RowUsed(row, axis) - Kerf
           free == {id \in Range(fit) : id \notin RowIds(row)}
           Fits(ids, primary) == UNION {{[id |-> id, size |-> size] :
                size \in Fitting(parts[id], axis, primary, RowCross(row, axis))} : id \in ids}
<1>1. p \in Fits(free, room)
  BY Zenon DEF NextInRow
<1> HIDE DEF room
<1>2. PICK id \in free : p \in {[id |-> id, size |-> size] : size \in Fitting(parts[id], axis, room, RowCross(row, axis))}
  BY <1>1
<1>3. PICK size \in Fitting(parts[id], axis, room, RowCross(row, axis)) : p = [id |-> id, size |-> size]
  BY <1>2
<1>4. id \in Elements(fit) /\ id \in 1 .. Len(parts)
  BY LenProperties, InElements DEF Range, Elements
<1>5. parts[id] \in PartTypes
  BY <1>4, ElementOfSeq
<1> DEFINE cross == RowCross(row, axis)
           part == parts[id]
<1>6. size \in Range(Orientations(part)) /\ size \in [Axes -> Lengths] /\ size[Across(axis)] <= cross
  <2>1. part \in PartTypes /\ size \in Fitting(part, axis, room, cross)
    BY <1>3, <1>5
  <2> HIDE DEF part, cross
  <2> QED
    BY <2>1, FittingIs
<1>7. p.id = id /\ p.size = size /\ p \in Slabs
  BY <1>4, <1>3, <1>6 DEF Slabs
<1>8. p \in SlabsOf(parts, Elements(fit))
  BY <1>4, <1>6, <1>7 DEF SlabsOf
<1> QED
  BY <1>6, <1>7, <1>8

\* A step of the row.
LEMMA RowKeeps ==
    ASSUME NEW parts \in Seq(PartTypes), NEW fit \in Seq(1 .. Len(parts)), NEW axis \in Axes,
           NEW table, NEW row \in RowsOf(parts, Elements(fit), axis)
    PROVE  RowStep(row, parts, fit, axis, table) \in RowsOf(parts, Elements(fit), axis)
<1> DEFINE next == NextInRow(parts, fit, row, axis, table)
           c == CHOOSE p \in next : TRUE
<1>1. CASE next = {}
  BY <1>1 DEF RowStep
<1>2. CASE next # {}
  <2>1. c \in next
    BY <1>2
  <2>2. RowStep(row, parts, fit, axis, table) = Append(row, c)
    BY <1>2 DEF RowStep
  <2> HIDE DEF c
  <2>3. c \in SlabsOf(parts, Elements(fit)) /\ c.size[Across(axis)] <= RowCross(row, axis)
    BY <2>1, NextIs
  <2>4. Append(row, c) \in RowsOf(parts, Elements(fit), axis)
    BY <2>3, RowGrown
  <2> QED
    BY <2>2, <2>4
<1> QED
  BY <1>1, <1>2

\* What a row of a seed is.
LEMMA SeededIs ==
    ASSUME NEW parts \in Seq(PartTypes), NEW fit \in Seq(1 .. Len(parts)), NEW axis \in Axes,
           NEW table, Len(fit) > 0, NEW seed \in SlabsOf(parts, Elements(fit))
    PROVE  RowFromSeed(parts, fit, seed, axis, table) \in RowsOf(parts, Elements(fit), axis)
<1> DEFINE run == CHOOSE f : RowRun(parts, fit, seed, axis, table, f)
           begin == <<seed>>
           All == RowsOf(parts, Elements(fit), axis)
           step(s) == RowStep(s, parts, fit, axis, table)
           m == Len(fit) - 1
           F == [k \in 1 .. m |-> [s \in All |-> step(s)]]
<1>1. RowFromSeed(parts, fit, seed, axis, table) = run[Len(fit)]
  BY Zenon DEF RowFromSeed, RowRun, RowStep
<1>2. begin \in All
  BY RowBegun
<1>3. \A s \in All : step(s) \in All
  BY RowKeeps
<1>4. Len(fit) \in Nat /\ m \in Nat /\ Len(fit) = m + 1
  BY LenProperties
<1> HIDE DEF begin, step, All, m
<1>5. F \in Rounds(m, All) /\ \A k \in 1 .. m : \A s \in All : F[k][s] = step(s)
  BY <1>3 DEF Rounds
<1> HIDE DEF F
<1>6. PICK h \in RunsOf(m, All, begin, F) : TRUE
  BY <1>2, <1>4, <1>5, LoopRuns
<1>7. h \in [0 .. m -> All] /\ h[0] = begin /\ \A k \in 1 .. m : h[k] = F[k][h[k - 1]]
  BY DEF RunsOf
<1>8. \A k \in 1 .. m : h[k] = step(h[k - 1])
  <2>1. \A k \in 1 .. m : k - 1 \in 0 .. m
    BY <1>4
  <2> QED
    BY <1>5, <1>7, <2>1
<1> DEFINE g == [n \in 1 .. Len(fit) |-> h[n - 1]]
<1>9. RowRun(parts, fit, seed, axis, table, g)
  <2>1. ASSUME NEW n \in 1 .. Len(fit) PROVE g[n] = IF n = 1 THEN begin ELSE step(g[n - 1])
    BY <1>7, <1>4, <1>8
  <2>2. DOMAIN g = 1 .. Len(fit) /\ g = [n \in 1 .. Len(fit) |-> g[n]]
    OBVIOUS
  <2> HIDE DEF g
  <2>3. g = [n \in 1 .. Len(fit) |-> IF n = 1 THEN begin ELSE step(g[n - 1])]
    BY <2>1, <2>2
  <2> QED
    BY <2>3 DEF RowRun, begin, step
<1> HIDE DEF g
<1>10. RowRun(parts, fit, seed, axis, table, run)
  BY <1>9, Zenon
<1> HIDE DEF run
<1>11. run = [n \in 1 .. Len(fit) |-> IF n = 1 THEN begin ELSE step(run[n - 1])]
  BY <1>10 DEF RowRun, begin, step
<1> DEFINE R == {k \in 0 .. m : run[k + 1] \in All}
<1>12. \A k \in 0 .. m : k \in R
  <2>1. 0 \in R
    BY <1>4, <1>11, <1>2
  <2>2. ASSUME NEW k \in 1 .. m, k - 1 \in R PROVE k \in R
    <3>1. k + 1 \in 1 .. Len(fit) /\ k + 1 # 1 /\ (k + 1) - 1 = k /\ (k - 1) + 1 = k /\ k \in 0 .. m
      BY <1>4
    <3>2. run[k + 1] = step(run[k])
      BY <1>11, <3>1
    <3>3. run[k] \in All
      BY <2>2, <3>1
    <3> QED
      BY <1>3, <3>1, <3>2, <3>3
  <2> HIDE DEF R
  <2>3. \A k \in 1 .. m : k - 1 \in R => k \in R
    BY <2>2
  <2> QED
    BY <1>4, <2>1, <2>3, Stepwise
<1>13. m \in R
  BY <1>4, <1>12
<1> QED
  BY <1>1, <1>4, <1>13 DEF All

\* What a row is compared by is made of numbers.
LEMMA RowNumbers ==
    ASSUME NEW parts, NEW ids, ids \subseteq Nat, NEW axis \in Axes, NEW row \in RowsOf(parts, ids, axis)
    PROVE  RowUsed(row, axis) \in Int /\ RowCross(row, axis) \in Int /\ Len(row) \in Int /\ MinSeq(row) \in Int
<1>1. /\ DOMAIN row = 1 .. Len(row) /\ Len(row) \in Nat /\ Len(row) > 0
      /\ \A i \in 1 .. Len(row) : row[i] \in SlabsOf(parts, ids)
      /\ RowCross(row, axis) \in Nat /\ RowUsed(row, axis) \in Int
  BY RowIs
<1>2. \A i \in 1 .. Len(row) : row[i].id \in Nat
  BY <1>1 DEF SlabsOf
<1>3. RowIds(row) \subseteq Nat /\ RowIds(row) # {}
  BY <1>1, <1>2 DEF RowIds
<1>4. MinSeq(row) \in RowIds(row)
  BY <1>3, MinOf DEF MinSeq
<1> QED
  BY <1>1, <1>3, <1>4

\* The row that fills the most is one, if there are parts and they fit.
LEMMA BestRowIs ==
    ASSUME NEW parts \in Seq(PartTypes), NEW fit \in Seq(1 .. Len(parts)), NEW axis \in Axes,
           NEW table, Len(fit) > 0, AllFit(parts, fit, axis, table)
    PROVE  BestRow(parts, fit, axis, table) \in RowsOf(parts, Elements(fit), axis)
<1> DEFINE ways(i) == Orientations(parts[fit[i]])
           seeds == {io \in (DOMAIN fit) \X {1, 2} : io[2] \in DOMAIN ways(io[1])
                       /\ ways(io[1])[io[2]] \in
                            Fitting(parts[fit[io[1]]], axis, table[axis], table[Across(axis)])}
           seedAt(io) == [id |-> fit[io[1]], size |-> ways(io[1])[io[2]]]
           row == [io \in seeds |-> RowFromSeed(parts, fit, seedAt(io), axis, table)]
           key == [io \in seeds |->
               <<RowUsed(row[io], axis), -RowCross(row[io], axis), Len(row[io]),
                 -MinSeq(row[io]), -io[1], -io[2]>>]
           c == CHOOSE io \in seeds : \A other \in seeds : ~Beats(key[other], key[io])
           All == RowsOf(parts, Elements(fit), axis)
<1>1. BestRow(parts, fit, axis, table) = row[c]
  BY Zenon DEF BestRow
<1>2. /\ Len(fit) \in Nat /\ DOMAIN fit = 1 .. Len(fit)
      /\ \A i \in 1 .. Len(fit) : fit[i] \in 1 .. Len(parts) /\ fit[i] \in Elements(fit)
  BY InElements, LenProperties
<1>3. \A i \in 1 .. Len(fit) : parts[fit[i]] \in PartTypes
  BY <1>2, ElementOfSeq
<1>4. \A i \in 1 .. Len(fit) : /\ DOMAIN ways(i) \subseteq {1, 2}
                               /\ \A d \in DOMAIN ways(i) : /\ ways(i)[d] \in [Axes -> Lengths]
                                                            /\ ways(i)[d] \in Range(ways(i))
  BY <1>3, OrientationsAre
<1>5. \A io \in seeds : /\ io \in (1 .. Len(fit)) \X {1, 2} /\ io[1] \in 1 .. Len(fit) /\ io[2] \in {1, 2}
                        /\ io[2] \in DOMAIN ways(io[1])
  <2>1. seeds \subseteq (1 .. Len(fit)) \X {1, 2}
    BY <1>2
  <2>2. \A io \in seeds : io[2] \in DOMAIN ways(io[1])
    OBVIOUS
  <2> HIDE DEF seeds, ways
  <2> QED
    BY <2>1, <2>2
<1>6. IsFiniteSet(seeds)
  <2>1. IsFiniteSet(1 .. Len(fit)) /\ IsFiniteSet({1, 2})
    <3>1. IsFiniteSet(1 .. Len(fit))
      BY <1>2, FS_Interval
    <3>2. IsFiniteSet({1, 2})
      <4>3. 1 \in Int /\ 2 \in Int
        OBVIOUS
      <4>1. IsFiniteSet(1 .. 2)
        BY <4>3, FS_Interval
      <4>2. 1 .. 2 = {1, 2}
        OBVIOUS
      <4> QED
        BY <4>1, <4>2
    <3> QED
      BY <3>1, <3>2
  <2> HIDE DEF seeds
  <2>2. IsFiniteSet((1 .. Len(fit)) \X {1, 2})
    BY <2>1, FS_Product
  <2>3. seeds \subseteq (1 .. Len(fit)) \X {1, 2}
    BY <1>5
  <2> QED
    BY <2>2, <2>3, FS_Subset
<1>7. seeds # {}
  <2>1. 1 \in 1 .. Len(fit)
    BY <1>2
  <2>2. PICK size \in Fitting(parts[fit[1]], axis, table[axis], table[Across(axis)]) : TRUE
    BY <2>1 DEF AllFit
  <2>3. size \in Range(ways(1))
    <3> DEFINE part == parts[fit[1]]
               wide == table[axis]
               deep == table[Across(axis)]
    <3>1. part \in PartTypes /\ size \in Fitting(part, axis, wide, deep)
      BY <1>3, <2>1, <2>2
    <3> HIDE DEF part, wide, deep
    <3>2. size \in Range(Orientations(part))
      BY <3>1, FittingIs
    <3> QED
      BY <3>2 DEF part
  <2>4. PICK d \in DOMAIN ways(1) : size = ways(1)[d]
    BY <2>3 DEF Range
  <2>5. d \in {1, 2}
    BY <1>4, <2>1
  <2> DEFINE io == <<1, d>>
  <2>6. io \in (DOMAIN fit) \X {1, 2} /\ io[1] = 1 /\ io[2] = d
    BY <1>2, <2>1, <2>5
  <2> HIDE DEF io
  <2>7. io \in seeds
    BY <2>2, <2>4, <2>6
  <2> QED
    BY <2>7
<1>8. ASSUME NEW io \in seeds PROVE row[io] \in All
  <2> DEFINE i == io[1]
             d == io[2]
  <2>1. i \in 1 .. Len(fit) /\ d \in DOMAIN ways(i) /\ seedAt(io) = [id |-> fit[i], size |-> ways(i)[d]]
    BY <1>5
  <2>2. fit[i] \in Nat /\ fit[i] \in Elements(fit) /\ ways(i)[d] \in [Axes -> Lengths] /\ ways(i)[d] \in Range(ways(i))
    <3> HIDE DEF ways, seeds, i, d
    <3>1. fit[i] \in 1 .. Len(parts) /\ fit[i] \in Elements(fit)
      BY <1>2, <2>1
    <3>2. ways(i)[d] \in [Axes -> Lengths] /\ ways(i)[d] \in Range(ways(i))
      BY <1>4, <2>1
    <3> QED
      BY <3>1, <3>2
  <2> DEFINE seed == seedAt(io)
  <2>3. seed.id = fit[i] /\ seed.size = ways(i)[d] /\ seed \in Slabs
    BY <2>1, <2>2 DEF Slabs
  <2>4. row[io] = RowFromSeed(parts, fit, seed, axis, table)
    OBVIOUS
  <2> HIDE DEF seed, seeds, i, d
  <2>5. seed \in SlabsOf(parts, Elements(fit))
    BY <2>2, <2>3 DEF SlabsOf
  <2> HIDE DEF row
  <2>6. RowFromSeed(parts, fit, seed, axis, table) \in RowsOf(parts, Elements(fit), axis)
    BY <2>5, SeededIs
  <2> QED
    BY <2>4, <2>6
<1> HIDE DEF seeds, row
<1>9. key \in [seeds -> Tuples(6)]
  <2> SUFFICES ASSUME NEW io \in seeds
               PROVE  <<RowUsed(row[io], axis), -RowCross(row[io], axis), Len(row[io]),
                        -MinSeq(row[io]), -io[1], -io[2]>> \in Tuples(6)
    OBVIOUS
  <2> DEFINE r == row[io]
             u == RowUsed(r, axis)
             v == RowCross(r, axis)
             w == Len(r)
             x == MinSeq(r)
             y == io[1]
             z == io[2]
  <2>1. r \in RowsOf(parts, Elements(fit), axis) /\ Elements(fit) \subseteq Nat
    BY <1>8, InElements
  <2>2. y \in Int /\ z \in Int
    BY <1>5
  <2> HIDE DEF r, y, z
  <2>3. u \in Int /\ v \in Int /\ w \in Int /\ x \in Int
    BY <2>1, RowNumbers
  <2> HIDE DEF u, v, w, x
  <2>4. <<u, -v, w, -x, -y, -z>> \in Tuples(6)
    BY <2>2, <2>3 DEF Tuples
  <2> QED
    BY <2>4 DEF u, v, w, x, y, z, r
<1> HIDE DEF key
<1>10. c \in seeds
  BY <1>6, <1>7, <1>9, Largest
<1> HIDE DEF c
<1> QED
  BY <1>1, <1>8, <1>10

\* One more row.
LEMMA WidthKeeps ==
    ASSUME NEW parts \in Seq(PartTypes), NEW ids, ids \subseteq 1 .. Len(parts), NEW axis \in Axes,
           NEW table, EachFits(parts, ids, axis, table), NEW m \in Nat,
           NEW k \in Nat, k > 0, NEW s \in WidthStates(parts, ids, axis, m, k - 1)
    PROVE  WidthStep(s, parts, axis, table) \in WidthStates(parts, ids, axis, m, k)
<1> DEFINE rows == s.rows
           left == s.left
           row == BestRow(parts, left, axis, table)
           All == RowsOf(parts, ids, axis)
           some == Elements(left)
<1>1. /\ rows \in Seq(All) /\ left \in Seq(ids)
      /\ \A id \in ids : id \in some <=> id \notin IdsOf(rows)
      /\ left = <<>> \/ Len(left) + (k - 1) <= m
      /\ s \in [rows : Seq(All), left : Seq(ids)]
  BY DEF WidthStates
<1>2. CASE left = <<>>
  BY <1>2, <1>1 DEF WidthStep, WidthStates
<1>3. CASE left # <<>>
  <2>1. /\ some \subseteq ids /\ Len(left) \in Nat
        /\ \A i \in 1 .. Len(left) : left[i] \in ids /\ left[i] \in some
    BY <1>1, InElements
  <2>2. Len(left) > 0 /\ left \in Seq(1 .. Len(parts))
    <3>1. left \in Seq(1 .. Len(parts))
      <4> HIDE DEF left
      <4> QED
        BY <1>1, SeqWider
    <3>2. Len(left) > 0
      BY <1>1, <1>3, LenProperties
    <3> QED
      BY <3>1, <3>2
  <2> HIDE DEF some, rows, left
  <2>3. AllFit(parts, left, axis, table)
    BY <2>1 DEF AllFit, EachFits
  <2>4. row \in RowsOf(parts, some, axis)
    BY <2>2, <2>3, BestRowIs DEF some
  <2> DEFINE newRows == Append(rows, row)
             newLeft == Without(left, RowIds(row))
             end == [rows |-> newRows, left |-> newLeft]
  <2>5. WidthStep(s, parts, axis, table) = end
    BY <1>3 DEF WidthStep, rows, left
  <2> HIDE DEF row
  <2>6. row \in All
    BY <2>1, MoreRows, <2>4
  <2>7. newRows \in Seq(All) /\ IdsOf(newRows) = IdsOf(rows) \cup RowIds(row)
    BY <1>1, <2>6, LoadGrown
  <2>8. \E i \in 1 .. Len(left) : left[i] \in RowIds(row)
    <3>1. DOMAIN row = 1 .. Len(row) /\ Len(row) \in Nat /\ Len(row) > 0 /\ \A i \in 1 .. Len(row) : row[i] \in SlabsOf(parts, some)
      BY <2>4, RowIs
    <3>2. 1 \in 1 .. Len(row)
      BY <3>1
    <3>3. row[1].id \in some /\ row[1].id \in RowIds(row)
      BY <3>1, <3>2 DEF SlabsOf, RowIds
    <3> QED
      BY <3>3 DEF some, Elements
  <2>9. /\ newLeft \in Seq(ids) /\ Elements(newLeft) = some \ RowIds(row)
        /\ Len(newLeft) \in Nat /\ Len(newLeft) < Len(left)
    BY <1>1, <2>8, LeftOf DEF some
  <2>10. Len(newLeft) + k <= m
    BY <1>1, <1>3, <2>1, <2>9
  <2> HIDE DEF newRows, newLeft
  <2>11. \A id \in ids : id \in Elements(newLeft) <=> id \notin IdsOf(newRows)
    BY <1>1, <2>7, <2>9
  <2>12. end \in [rows : Seq(All), left : Seq(ids)] /\ end.rows = newRows /\ end.left = newLeft
    BY <2>7, <2>9
  <2> HIDE DEF end
  <2>13. end \in WidthStates(parts, ids, axis, m, k)
    BY <2>10, <2>11, <2>12 DEF WidthStates
  <2> QED
    BY <2>5, <2>13
<1> QED
  BY <1>2, <1>3

\* What the loop over the rows ends with.
LEMMA WidthRuns ==
    ASSUME NEW parts \in Seq(PartTypes), NEW ids, ids \subseteq 1 .. Len(parts), NEW axis \in Axes,
           NEW table, EachFits(parts, ids, axis, table), NEW fit \in Seq(ids), ids = Elements(fit),
           NEW n \in Nat, n = Len(fit)
    PROVE  WidthEnd(parts, fit, axis, table, n) \in WidthStates(parts, ids, axis, n, n)
<1> DEFINE run == CHOOSE f : WidthRun(parts, fit, axis, table, n, f)
           begin == [rows |-> <<>>, left |-> fit]
           At(k) == WidthStates(parts, ids, axis, n, k)
           step(s) == WidthStep(s, parts, axis, table)
           S == [k \in 0 .. n |-> At(k)]
           F == [k \in 1 .. n |-> [s \in At(k - 1) |-> step(s)]]
<1>1. \A k \in 1 .. n : k \in 0 .. n /\ k - 1 \in 0 .. n /\ k # 0 /\ k \in Nat /\ k > 0
  OBVIOUS
<1>2. ASSUME NEW k \in 1 .. n, NEW s \in At(k - 1) PROVE step(s) \in At(k)
  BY <1>1, <1>2, WidthKeeps
<1>3. begin \in At(0)
  <2>1. begin.rows = <<>> /\ begin.left = fit
    OBVIOUS
  <2>2. begin \in [rows : Seq(RowsOf(parts, ids, axis)), left : Seq(ids)]
    OBVIOUS
  <2>3. IdsOf(<<>>) = {}
    BY DEF IdsOf
  <2>4. Len(fit) + 0 <= n
    OBVIOUS
  <2> HIDE DEF begin
  <2> QED
    BY <2>1, <2>2, <2>3, <2>4 DEF WidthStates
<1> HIDE DEF begin, step, At
<1>4. S[0] = At(0) /\ S[n] = At(n) /\ \A k \in 1 .. n : S[k] = At(k) /\ S[k - 1] = At(k - 1)
  BY <1>1
<1> HIDE DEF S
<1>5. \A k \in 1 .. n : \A s \in S[k - 1] : F[k][s] = step(s) /\ step(s) \in S[k]
  BY <1>2, <1>4
<1> HIDE DEF F
<1>6. begin \in S[0]
  BY <1>3, <1>4
<1>7. WidthRun(parts, fit, axis, table, n, run)
  <2>1. PICK h \in LoopsIn(n, S, begin, F) : TRUE
    BY <1>5, <1>6, LoopIn
  <2>2. /\ h \in [0 .. n -> UNION {S[k] : k \in 0 .. n}] /\ h[0] = begin
        /\ \A k \in 1 .. n : h[k] = F[k][h[k - 1]]
        /\ \A k \in 0 .. n : h[k] \in S[k]
    BY DEF LoopsIn
  <2>3. \A k \in 1 .. n : h[k] = step(h[k - 1])
    BY <1>1, <1>5, <2>2
  <2>4. h = [k \in 0 .. n |-> IF k = 0 THEN begin ELSE step(h[k - 1])]
    BY <2>2, <2>3
  <2>5. WidthRun(parts, fit, axis, table, n, h)
    BY <2>4 DEF WidthRun, begin, step
  <2> QED
    BY <2>5, Zenon
<1>8. WidthEnd(parts, fit, axis, table, n) = run[n]
  BY DEF WidthEnd
<1> HIDE DEF run
<1>9. run = [k \in 0 .. n |-> IF k = 0 THEN begin ELSE step(run[k - 1])]
  BY <1>7 DEF WidthRun, begin, step
<1>10. run[0] = begin /\ \A k \in 1 .. n : run[k] = step(run[k - 1])
  BY <1>1, <1>9
<1>11. \A k \in 0 .. n : run[k] \in S[k]
  <2>1. run[0] \in S[0] /\ \A k \in 1 .. n : run[k - 1] \in S[k - 1] => run[k] \in S[k]
    BY <1>5, <1>6, <1>10
  <2> QED
    BY <2>1, LoopKept
<1>12. run[n] \in S[n]
  BY <1>11
<1> QED
  BY <1>4, <1>8, <1>12 DEF At

\* A row packed behind the others of a load.
LEMMA PacksBehind ==
    ASSUME NEW parts, NEW ids, NEW axis \in Axes, NEW state \in Seq(SomeRows(parts, ids, axis)),
           NEW row \in RowsOf(parts, ids, axis), NEW most, Len(state) <= most, NEW k \in DOMAIN state
    PROVE  Packs(state, Behind(state, k, row), row, parts, ids, axis, most)
<1> DEFINE load == Append(state[k], row)
           new == [state EXCEPT ![k] = load]
           All == SomeRows(parts, ids, axis)
<1>1. state[k] \in Seq(RowsOf(parts, ids, axis))
  BY ElementOfSeq DEF SomeRows
<1>2. load \in Seq(RowsOf(parts, ids, axis)) /\ Len(load) = Len(state[k]) + 1 /\ IdsOf(load) = IdsOf(state[k]) \cup RowIds(row)
  BY <1>1, LoadGrown
<1>3. load \in All
  <2>1. Len(state[k]) \in Nat
    BY <1>1, LenProperties
  <2>2. Len(load) # 0
    BY <1>2, <2>1
  <2> HIDE DEF load
  <2>3. load # <<>>
    BY <2>2
  <2> QED
    BY <1>2, <2>3 DEF SomeRows
<1>7. Behind(state, k, row) = new
  BY DEF Behind
<1> HIDE DEF load, All
<1>4. /\ new \in Seq(All) /\ Len(new) = Len(state) /\ DOMAIN new = DOMAIN state
      /\ \A j \in DOMAIN state : new[j] = IF j = k THEN load ELSE state[j]
  BY <1>3, Changed DEF All
<1> HIDE DEF new
<1>5. DOMAIN state = 1 .. Len(state) /\ Len(state) \in Nat
  BY LenProperties
<1>6. /\ \A id : InLoads(state, id) => InLoads(new, id)
      /\ \A id \in RowIds(row) : InLoads(new, id)
  BY <1>2, <1>4, <1>5 DEF InLoads
<1>8. Len(state) <= Len(new)
  BY <1>4, <1>5
<1> QED
  BY <1>4, <1>6, <1>7, <1>8 DEF Packs, All

\* A row on a load of its own.
LEMMA PacksAlone ==
    ASSUME NEW parts, NEW ids, NEW axis \in Axes, NEW state \in Seq(SomeRows(parts, ids, axis)),
           NEW row \in RowsOf(parts, ids, axis), NEW most \in Nat, Len(state) < most
    PROVE  Packs(state, Append(state, <<row>>), row, parts, ids, axis, most)
<1> DEFINE load == <<row>>
           All == SomeRows(parts, ids, axis)
<1>1. load \in Seq(RowsOf(parts, ids, axis)) /\ load # <<>> /\ DOMAIN load = 1 .. 1 /\ load[1] = row
  OBVIOUS
<1> HIDE DEF load
<1>2. load \in All
  BY <1>1 DEF SomeRows
<1>3. IdsOf(load) = RowIds(row)
  BY <1>1 DEF IdsOf
<1> HIDE DEF All
<1>4. Append(state, load) \in Seq(All) /\ Len(Append(state, load)) = Len(state) + 1 /\ Len(state) \in Nat
  BY <1>2, AppendedIs, LenProperties DEF All
<1>5. \A id : InLoads(Append(state, load), id) <=> InLoads(state, id) \/ id \in IdsOf(load)
  BY <1>2, LoadsGrown DEF All
<1>6. Len(Append(state, load)) <= most /\ Len(state) <= Len(Append(state, load))
  BY <1>4
<1> QED
  BY <1>3, <1>4, <1>5, <1>6 DEF Packs, All, load

\* Packing a row.
LEMMA PackRowIs ==
    ASSUME NEW parts, NEW ids, NEW axis \in Axes, NEW table, NEW state \in Seq(SomeRows(parts, ids, axis)),
           NEW row \in RowsOf(parts, ids, axis), NEW most \in Nat, Len(state) <= most
    PROVE  Packs(state, PackRow(state, row, axis, table, most), row, parts, ids, axis, most)
<1> DEFINE After(k) == CrossUsed(Append(state[k], row), axis)
           Open == {k \in DOMAIN state : After(k) <= table[Across(axis)]}
           best == CHOOSE k \in Open : \A j \in Open : ~Beats(<<After(j), -j>>, <<After(k), -k>>)
           key == [k \in Open |-> <<After(k), -k>>]
<1>1. PackRow(state, row, axis, table, most)
        = IF Open # {} THEN Behind(state, best, row)
          ELSE IF Len(state) < most THEN Append(state, <<row>>) ELSE state
  BY Zenon DEF PackRow, Behind
<1>2. DOMAIN state = 1 .. Len(state) /\ Len(state) \in Nat
  BY LenProperties
<1>3. \A k \in 1 .. Len(state) : After(k) \in Int
  <2> SUFFICES ASSUME NEW k \in 1 .. Len(state) PROVE After(k) \in Int
    OBVIOUS
  <2>1. state[k] \in Seq(RowsOf(parts, ids, axis))
    BY ElementOfSeq DEF SomeRows
  <2> DEFINE load == Append(state[k], row)
  <2>2. load \in Seq(RowsOf(parts, ids, axis))
    BY <2>1, LoadGrown
  <2> HIDE DEF load
  <2>3. CrossUsed(load, axis) \in Int
    BY <2>2, LoadIs
  <2> QED
    BY <2>3 DEF load
<1> HIDE DEF After
<1>4. IsFiniteSet(Open) /\ Open \subseteq 1 .. Len(state)
  <2>1. Open \subseteq 1 .. Len(state)
    BY <1>2
  <2>2. IsFiniteSet(1 .. Len(state))
    BY <1>2, FS_Interval
  <2> QED
    BY <2>1, <2>2, FS_Subset
<1> HIDE DEF Open
<1>5. key \in [Open -> Tuples(2)]
  <2> SUFFICES ASSUME NEW k \in Open PROVE <<After(k), -k>> \in Tuples(2)
    OBVIOUS
  <2> DEFINE a == After(k)
             b == -k
  <2>1. a \in Int /\ b \in Int
    BY <1>2, <1>3, <1>4
  <2> HIDE DEF a, b
  <2>2. <<a, b>> \in Tuples(2)
    BY <2>1 DEF Tuples
  <2> QED
    BY <2>2 DEF a, b
<1>6. ASSUME Open # {} PROVE best \in DOMAIN state
  <2>1. PICK k \in Open : \A j \in Open : ~Beats(key[j], key[k])
    <3> HIDE DEF key
    <3> QED
      BY <1>4, <1>5, <1>6, Largest
  <2>2. \A j \in Open : ~Beats(<<After(j), -j>>, <<After(k), -k>>)
    BY <2>1
  <2>3. best \in Open
    BY <2>2, Zenon
  <2> QED
    BY <1>2, <1>4, <2>3
<1> HIDE DEF best, key
<1>7. CASE Open # {}
  BY <1>6, <1>7, PacksBehind, <1>1
<1>8. CASE Open = {} /\ Len(state) < most
  BY <1>1, <1>8, PacksAlone
<1>9. CASE Open = {} /\ ~(Len(state) < most)
  BY <1>2, <1>9, <1>1 DEF Packs
<1> QED
  BY <1>7, <1>8, <1>9

\* Arranged, a list has the same elements.
LEMMA SameElements ==
    ASSUME NEW T, NEW list \in Seq(T), NEW m \in Nat, NEW key \in [1 .. Len(list) -> Tuples(m)]
    PROVE  /\ Arranged(list, key) \in Seq(T) /\ Len(Arranged(list, key)) = Len(list)
           /\ Elements(Arranged(list, key)) = Elements(list)
<1> DEFINE n == Len(list)
           new == Arranged(list, key)
<1>1. new \in Seq(T) /\ Len(new) = n /\ \E by \in Orders(n) : \A k \in 1 .. n : new[k] = list[by[k]]
  BY ArrangedIs
<1> HIDE DEF new
<1>2. PICK by \in Orders(n) : \A k \in 1 .. n : new[k] = list[by[k]]
  BY <1>1
<1>3. (\A k \in 1 .. n : by[k] \in 1 .. n) /\ \A i \in 1 .. n : \E k \in 1 .. n : by[k] = i
  BY DEF Orders
<1>4. Elements(new) = Elements(list)
  <2>1. ASSUME NEW x \in Elements(new) PROVE x \in Elements(list)
    BY <1>1, <1>2, <1>3 DEF Elements
  <2>2. ASSUME NEW x \in Elements(list) PROVE x \in Elements(new)
    BY <1>3, <1>2, <1>1 DEF Elements
  <2> QED
    BY <2>1, <2>2
<1> QED
  BY <1>1, <1>4 DEF new

\* What is in rows or in loads does not depend on their order.
LEMMA IdsByElements ==
    ASSUME NEW rows, DOMAIN rows = 1 .. Len(rows), NEW id
    PROVE  id \in IdsOf(rows) <=> \E row \in Elements(rows) : id \in RowIds(row)
BY DEF IdsOf, Elements
\* The same of loads.
LEMMA LoadsByElements ==
    ASSUME NEW loads, NEW id
    PROVE  InLoads(loads, id) <=> \E rows \in Elements(loads) : id \in IdsOf(rows)
BY DEF InLoads, Elements

\* The rows of a load in the order of their parts are the same rows.
LEMMA ByPartsIs ==
    ASSUME NEW parts, NEW ids, ids \subseteq Nat, NEW axis \in Axes, NEW load \in SomeRows(parts, ids, axis)
    PROVE  InOrder(load) \in SomeRows(parts, ids, axis) /\ IdsOf(InOrder(load)) = IdsOf(load)
<1> DEFINE key == [k \in DOMAIN load |-> <<-MinSeq(load[k])>>]
           new == Arranged(load, key)
           All == RowsOf(parts, ids, axis)
<1>1. /\ load \in Seq(All) /\ load # <<>> /\ DOMAIN load = 1 .. Len(load) /\ Len(load) \in Nat
      /\ \A k \in 1 .. Len(load) : load[k] \in All
  BY LenProperties, ElementOfSeq DEF SomeRows
<1>2. key \in [1 .. Len(load) -> Tuples(1)]
  <2>1. ASSUME NEW k \in 1 .. Len(load) PROVE <<-MinSeq(load[k])>> \in Tuples(1)
    <3> DEFINE e == -MinSeq(load[k])
    <3>1. MinSeq(load[k]) \in Int
      <4> DEFINE r == load[k]
      <4>1. r \in All
        BY <1>1
      <4> HIDE DEF r
      <4>2. MinSeq(r) \in Int
        BY <4>1, RowNumbers
      <4> QED
        BY <4>2 DEF r
    <3>2. e \in Int
      BY <3>1
    <3> HIDE DEF e
    <3>3. <<e>> \in Tuples(1)
      BY <3>2, OneNumber
    <3> QED
      BY <3>3 DEF e
  <2> QED
    BY <1>1, <2>1
<1>3. InOrder(load) = new
  BY DEF InOrder
<1> HIDE DEF key, All
<1>4. new \in Seq(All) /\ Len(new) = Len(load) /\ Elements(new) = Elements(load)
  BY <1>1, <1>2, SameElements
<1> HIDE DEF new
<1>5. new # <<>> /\ DOMAIN new = 1 .. Len(new)
  BY <1>1, <1>4, LenProperties
<1>6. \A id : id \in IdsOf(new) <=> id \in IdsOf(load)
  BY <1>1, <1>4, <1>5, IdsByElements
<1>7. IdsOf(new) = IdsOf(load)
  BY <1>6
<1> QED
  BY <1>3, <1>4, <1>5, <1>7 DEF SomeRows, All

\* What the loop that packs the rows ends with.
LEMMA PackRuns ==
    ASSUME NEW parts, NEW ids, NEW axis \in Axes, NEW table, NEW order \in Seq(RowsOf(parts, ids, axis)),
           NEW most \in Nat, NEW n \in Nat, n = Len(order)
    PROVE  PackEnd(order, axis, table, most, n) \in PackStates(parts, ids, order, axis, most, n)
<1> DEFINE run == CHOOSE f : PackRun(order, axis, table, most, n, f)
           begin == <<>>
           At(k) == PackStates(parts, ids, order, axis, most, k)
           step(k, s) == PackRow(s, order[k], axis, table, most)
           S == [k \in 0 .. n |-> At(k)]
           F == [k \in 1 .. n |-> [s \in At(k - 1) |-> step(k, s)]]
<1>1. \A k \in 1 .. n : k \in 0 .. n /\ k - 1 \in 0 .. n /\ k # 0
  OBVIOUS
<1>2. ASSUME NEW k \in 1 .. n, NEW s \in At(k - 1) PROVE step(k, s) \in At(k)
  <2> DEFINE row == order[k]
             new == PackRow(s, row, axis, table, most)
  <2>1. row \in RowsOf(parts, ids, axis)
    BY ElementOfSeq
  <2>2. /\ s \in Seq(SomeRows(parts, ids, axis)) /\ Len(s) <= most
        /\ Len(s) < most => \A j \in 1 .. k - 1 : \A id \in RowIds(order[j]) : InLoads(s, id)
    BY DEF PackStates
  <2> HIDE DEF row
  <2>3. Packs(s, new, row, parts, ids, axis, most)
    BY <2>1, <2>2, PackRowIs
  <2> HIDE DEF new
  <2>4. /\ new \in Seq(SomeRows(parts, ids, axis)) /\ Len(new) <= most /\ Len(s) <= Len(new)
        /\ \A id : InLoads(s, id) => InLoads(new, id)
        /\ Len(new) < most => \A id \in RowIds(row) : InLoads(new, id)
    BY <2>3 DEF Packs
  <2>5. Len(s) \in Nat /\ Len(new) \in Nat
    BY <2>2, <2>4, LenProperties
  <2>6. \A j \in 1 .. k : j \in 1 .. k - 1 \/ j = k
    OBVIOUS
  <2>7. Len(new) < most => Len(s) < most
    BY <2>4, <2>5
  <2>8. Len(new) < most => \A j \in 1 .. k : \A id \in RowIds(order[j]) : InLoads(new, id)
    BY <2>2, <2>4, <2>6, <2>7 DEF row
  <2>9. new \in PackStates(parts, ids, order, axis, most, k)
    BY <2>4, <2>8 DEF PackStates
  <2> QED
    BY <2>9 DEF new, row
<1>3. begin \in At(0)
  BY DEF PackStates
<1> HIDE DEF begin, step, At
<1>4. S[0] = At(0) /\ S[n] = At(n) /\ \A k \in 1 .. n : S[k] = At(k) /\ S[k - 1] = At(k - 1)
  BY <1>1
<1> HIDE DEF S
<1>5. \A k \in 1 .. n : \A s \in S[k - 1] : F[k][s] = step(k, s) /\ step(k, s) \in S[k]
  BY <1>2, <1>4
<1> HIDE DEF F
<1>6. begin \in S[0]
  BY <1>3, <1>4
<1>7. PackRun(order, axis, table, most, n, run)
  <2>1. PICK h \in LoopsIn(n, S, begin, F) : TRUE
    BY <1>5, <1>6, LoopIn
  <2>2. /\ h \in [0 .. n -> UNION {S[k] : k \in 0 .. n}] /\ h[0] = begin
        /\ \A k \in 1 .. n : h[k] = F[k][h[k - 1]]
        /\ \A k \in 0 .. n : h[k] \in S[k]
    BY DEF LoopsIn
  <2>3. \A k \in 1 .. n : h[k] = step(k, h[k - 1])
    BY <1>1, <1>5, <2>2
  <2>6. \A k \in 0 .. n : h[k] = IF k = 0 THEN begin ELSE step(k, h[k - 1])
    <3>1. \A k \in 0 .. n : k = 0 \/ k \in 1 .. n
      OBVIOUS
    <3> QED
      BY <2>2, <2>3, <3>1
  <2>4. h = [k \in 0 .. n |-> IF k = 0 THEN begin ELSE step(k, h[k - 1])]
    BY <2>2, <2>6
  <2>5. PackRun(order, axis, table, most, n, h)
    BY <2>4 DEF PackRun, begin, step
  <2> QED
    BY <2>5, Zenon
<1>8. PackEnd(order, axis, table, most, n) = run[n]
  BY DEF PackEnd
<1> HIDE DEF run
<1>9. run = [k \in 0 .. n |-> IF k = 0 THEN begin ELSE step(k, run[k - 1])]
  BY <1>7 DEF PackRun, begin, step
<1>10. run[0] = begin /\ \A k \in 1 .. n : run[k] = step(k, run[k - 1])
  BY <1>1, <1>9
<1>11. \A k \in 0 .. n : run[k] \in S[k]
  <2>1. run[0] \in S[0] /\ \A k \in 1 .. n : run[k - 1] \in S[k - 1] => run[k] \in S[k]
    BY <1>5, <1>6, <1>10
  <2> QED
    BY <2>1, LoopKept
<1>12. run[n] \in S[n]
  BY <1>11
<1> QED
  BY <1>4, <1>8, <1>12 DEF At

\* The plan of rows that have all the parts unless there are as many loads as may be.
LEMMA RowPlanDrawn ==
    ASSUME NEW parts, NEW fit \in Seq(1 .. Len(parts)), NEW axis \in Axes, NEW table \in [Axes -> Lengths],
           NEW loads \in Seq(SomeRows(parts, Elements(fit), axis)), NEW most \in Nat, Len(loads) <= most,
           Len(loads) < most => \A id \in Elements(fit) : InLoads(loads, id),
           NEW gone, \A id \in Elements(fit) : id \in gone <=> InLoads(loads, id)
    PROVE  PlanDrawn(RowPlan(loads, Without(fit, gone), axis, table), parts, fit, table, most)
<1> DEFINE ids == Elements(fit)
           left == Without(fit, gone)
           plan == RowPlan(loads, left, axis, table)
<1>1. fit \in Seq(ids) /\ ids \subseteq 1 .. Len(parts)
  BY InElements
<1>2. left \in Seq(ids) /\ Elements(left) = ids \ gone
  <2>1. fit \in Seq(ids) /\ ids = Elements(fit)
    BY <1>1
  <2> HIDE DEF ids
  <2> QED
    BY <2>1, LeftOf
<1> HIDE DEF left
<1>3. loads \in Seq(Seq(RowsOf(parts, ids, axis))) /\ NoneEmpty(loads)
  <2>1. SomeRows(parts, ids, axis) \subseteq Seq(RowsOf(parts, ids, axis)) /\ loads \in Seq(SomeRows(parts, ids, axis))
    BY DEF SomeRows
  <2>2. \A rows \in SomeRows(parts, ids, axis) : Len(rows) > 0
    BY LenProperties DEF SomeRows
  <2> HIDE DEF ids
  <2>3. loads \in Seq(Seq(RowsOf(parts, ids, axis)))
    BY <2>1, SeqWider
  <2>4. \A k \in 1 .. Len(loads) : loads[k] \in SomeRows(parts, ids, axis)
    BY <2>1, ElementOfSeq
  <2> QED
    BY <2>2, <2>3, <2>4 DEF NoneEmpty
<1>4. PlanOfRows(RowPlan(loads, left, axis, table), loads, left, parts, ids, axis, table)
  <2> HIDE DEF ids
  <2> QED
    BY <1>1, <1>3, RowPlanIs
<1> HIDE DEF plan
<1>5. /\ plan.loads \in Seq(NumberedSheets) /\ Len(plan.loads) = Len(loads)
      /\ plan.axis = axis /\ plan.left = left /\ plan.fill \in Int
      /\ \A k \in 1 .. Len(loads) : LoadDrawn(plan.loads[k], parts, ids, table)
      /\ \A id : Present(plan.loads, id) <=> InLoads(loads, id)
  <2>1. PlanOfRows(plan, loads, left, parts, ids, axis, table)
    BY <1>4 DEF plan
  <2> HIDE DEF ids
  <2> QED
    BY <2>1 DEF PlanOfRows
<1>6. \A id \in ids : id \in Elements(left) <=> ~Present(plan.loads, id)
  BY <1>2, <1>5
<1>7. left # <<>> => Len(loads) = most
  <2>1. ASSUME left # <<>>, Len(loads) < most PROVE FALSE
    <3>1. PICK i \in 1 .. Len(left) : TRUE
      BY <1>2, <2>1
    <3>2. left[i] \in Elements(left)
      BY DEF Elements
    <3> QED
      BY <1>2, <2>1, <3>2
  <2>2. Len(loads) \in Nat
    BY LenProperties
  <2> QED
    BY <2>1, <2>2
<1>8. PlanDrawn(plan, parts, fit, table, most)
  BY <1>2, <1>5, <1>6, <1>7 DEF PlanDrawn
<1> QED
  BY <1>8 DEF plan, left

\* What the width-first planner makes of parts that each fit the table.
LEMMA WidthFirstPlanIs ==
    ASSUME NEW parts \in Seq(PartTypes), NEW axis \in Axes, NEW table \in [Axes -> Lengths],
           NEW fit \in Seq(1 .. Len(parts)), EachFits(parts, Elements(fit), axis, table), NEW most \in Nat
    PROVE  PlanDrawn(WidthFirstPlan(parts, fit, axis, table, most), parts, fit, table, most)
<1> DEFINE ids == Elements(fit)
           All == RowsOf(parts, ids, axis)
           Some == SomeRows(parts, ids, axis)
           rows == WidthEnd(parts, fit, axis, table, Len(fit)).rows
           rowKey == [k \in DOMAIN rows |-> <<RowCross(rows[k], axis), -MinSeq(rows[k])>>]
           order == Arranged(rows, rowKey)
           packed == PackEnd(order, axis, table, most, Len(rows))
           loads == [k \in DOMAIN packed |-> InOrder(packed[k])]
           loadKey == [k \in DOMAIN loads |-> <<-MinSeq(loads[k][1])>>]
           final == Arranged(loads, loadKey)
           gone == UNION {IdsOf(loads[k]) : k \in DOMAIN loads}
<1>0. WidthFirstRows(parts, fit, axis, table) = rows
  BY Zenon DEF WidthFirstRows, WidthRun, WidthEnd, WidthStep
<1>14. PackedLoads(rows, axis, table, most) = packed
  <2> HIDE DEF rows
  <2> QED
    BY Zenon DEF PackedLoads, PackRun, PackEnd, packed
<1>1. WidthFirstPlan(parts, fit, axis, table, most) = RowPlan(final, Without(fit, gone), axis, table)
  BY <1>0, <1>14, Zenon DEF WidthFirstPlan
<1>2. fit \in Seq(ids) /\ ids \subseteq 1 .. Len(parts) /\ Len(fit) \in Nat /\ ids \subseteq Nat
  BY InElements
<1>3. rows \in Seq(All) /\ \A id \in ids : id \in IdsOf(rows)
  <2> DEFINE end == WidthEnd(parts, fit, axis, table, Len(fit))
  <2>1. end \in WidthStates(parts, ids, axis, Len(fit), Len(fit))
    <3>1. ids = Elements(fit)
      OBVIOUS
    <3> HIDE DEF ids
    <3> QED
      BY <1>2, <3>1, WidthRuns
  <2> HIDE DEF end, ids, All
  <2>2. /\ end.rows \in Seq(RowsOf(parts, ids, axis)) /\ end.left \in Seq(ids)
        /\ \A id \in ids : id \in Elements(end.left) <=> id \notin IdsOf(end.rows)
        /\ end.left = <<>> \/ Len(end.left) + Len(fit) <= Len(fit)
    BY <2>1 DEF WidthStates
  <2>3. end.left = <<>>
    <3> DEFINE left == end.left
    <3>1. left \in Seq(ids) /\ (left = <<>> \/ Len(left) + Len(fit) <= Len(fit))
      BY <2>2
    <3> HIDE DEF left
    <3>2. Len(left) \in Nat /\ (Len(left) = 0 => left = <<>>)
      BY <3>1, LenProperties
    <3>3. left = <<>>
      BY <1>2, <3>1, <3>2
    <3> QED
      BY <3>3 DEF left
  <2>4. Elements(end.left) = {}
    BY <2>3 DEF Elements
  <2>5. rows = end.rows
    BY DEF end
  <2> QED
    BY <2>2, <2>4, <2>5 DEF All
<1> HIDE DEF ids, rows
<1>4. order \in Seq(All) /\ Len(order) = Len(rows) /\ Elements(order) = Elements(rows) /\ Len(rows) \in Nat
  <2>1. DOMAIN rows = 1 .. Len(rows) /\ Len(rows) \in Nat /\ \A k \in 1 .. Len(rows) : rows[k] \in All
    BY <1>3, LenProperties, ElementOfSeq
  <2>2. rowKey \in [1 .. Len(rows) -> Tuples(2)]
    <3>1. ASSUME NEW k \in 1 .. Len(rows) PROVE <<RowCross(rows[k], axis), -MinSeq(rows[k])>> \in Tuples(2)
      <4> DEFINE row == rows[k]
                 x == RowCross(row, axis)
                 y == -MinSeq(row)
      <4>1. row \in RowsOf(parts, ids, axis)
        BY <2>1
      <4> HIDE DEF row
      <4>2. RowCross(row, axis) \in Int /\ MinSeq(row) \in Int
        BY <1>2, <4>1, RowNumbers
      <4>3. x \in Int /\ y \in Int
        BY <4>2
      <4> HIDE DEF x, y
      <4>4. <<x, y>> \in Tuples(2)
        BY <4>3 DEF Tuples
      <4> QED
        BY <4>4 DEF x, y, row
    <3> QED
      BY <2>1, <3>1
  <2> HIDE DEF rowKey, All
  <2>3. 2 \in Nat
    OBVIOUS
  <2> QED
    BY <1>3, <2>1, <2>2, <2>3, SameElements
<1> HIDE DEF order
<1>5. packed \in Seq(Some) /\ Len(packed) <= most /\ (Len(packed) < most => \A id \in ids : InLoads(packed, id))
  <2>1. packed \in PackStates(parts, ids, order, axis, most, Len(rows))
    BY <1>4, PackRuns
  <2> HIDE DEF packed
  <2>2. /\ packed \in Seq(Some) /\ Len(packed) <= most
        /\ Len(packed) < most => \A j \in 1 .. Len(rows) : \A id \in RowIds(order[j]) : InLoads(packed, id)
    BY <2>1 DEF PackStates
  <2>3. ASSUME Len(packed) < most, NEW id \in ids PROVE InLoads(packed, id)
    <3>1. DOMAIN rows = 1 .. Len(rows)
      BY <1>3, LenProperties
    <3>2. PICK row \in Elements(rows) : id \in RowIds(row)
      BY <1>3, <3>1, IdsByElements
    <3>3. PICK j \in 1 .. Len(order) : row = order[j]
      BY <1>4, <3>2 DEF Elements
    <3> QED
      BY <1>4, <2>2, <2>3, <3>2, <3>3
  <2> QED
    BY <2>2, <2>3
<1> HIDE DEF packed
<1>6. DOMAIN packed = 1 .. Len(packed) /\ Len(packed) \in Nat /\ \A k \in 1 .. Len(packed) : packed[k] \in Some
  BY <1>5, LenProperties, ElementOfSeq
<1>7. /\ loads \in Seq(Some) /\ Len(loads) = Len(packed) /\ DOMAIN loads = 1 .. Len(packed)
      /\ \A id : InLoads(loads, id) <=> InLoads(packed, id)
  <2>1. \A k \in 1 .. Len(packed) : InOrder(packed[k]) \in Some /\ IdsOf(InOrder(packed[k])) = IdsOf(packed[k])
    BY <1>2, <1>6, ByPartsIs
  <2>2. loads \in [1 .. Len(packed) -> Some]
    BY <1>6, <2>1
  <2>3. \A k \in 1 .. Len(packed) : IdsOf(loads[k]) = IdsOf(packed[k])
    BY <1>6, <2>1
  <2> HIDE DEF loads, Some
  <2>4. loads \in Seq(Some) /\ Len(loads) = Len(packed) /\ DOMAIN loads = 1 .. Len(packed)
    BY <1>6, <2>2, FunctionSeq
  <2> QED
    BY <2>3, <2>4 DEF InLoads
<1> HIDE DEF loads
<1>8. final \in Seq(Some) /\ Len(final) = Len(loads) /\ Elements(final) = Elements(loads)
  <2>1. loadKey \in [1 .. Len(loads) -> Tuples(1)]
    <3>1. ASSUME NEW k \in 1 .. Len(loads) PROVE <<-MinSeq(loads[k][1])>> \in Tuples(1)
      <4> DEFINE row == loads[k][1]
                 x == -MinSeq(row)
      <4>1. row \in RowsOf(parts, ids, axis)
        BY <1>7, ElementOfSeq DEF SomeRows
      <4> HIDE DEF row
      <4>2. MinSeq(row) \in Int
        BY <1>2, <4>1, RowNumbers
      <4>3. x \in Int
        BY <4>2
      <4> HIDE DEF x
      <4>4. <<x>> \in Tuples(1)
        BY <4>3, OneNumber
      <4> QED
        BY <4>4 DEF x, row
    <3> QED
      BY <1>7, <3>1
  <2> HIDE DEF loadKey, Some
  <2>2. 1 \in Nat
    OBVIOUS
  <2> QED
    BY <1>7, <2>1, <2>2, SameElements
<1> HIDE DEF final
<1>9. \A id : InLoads(final, id) <=> InLoads(loads, id)
  BY <1>8, LoadsByElements
<1>10. \A id : id \in gone <=> InLoads(final, id)
  <2>1. \A id : id \in gone <=> InLoads(loads, id)
    BY <1>7 DEF InLoads
  <2> HIDE DEF gone
  <2> QED
    BY <1>9, <2>1
<1> HIDE DEF gone
<1>11. /\ final \in Seq(SomeRows(parts, Elements(fit), axis)) /\ Len(final) <= most
       /\ Len(final) < most => \A id \in Elements(fit) : InLoads(final, id)
       /\ \A id \in Elements(fit) : id \in gone <=> InLoads(final, id)
  BY <1>5, <1>7, <1>8, <1>9, <1>10 DEF ids
<1>12. PlanDrawn(RowPlan(final, Without(fit, gone), axis, table), parts, fit, table, most)
  BY <1>11, RowPlanDrawn
<1> QED
  BY <1>1, <1>12

-----------------------------------------------------------------------------
(* Plans found valid, and the engine's                                     *)

\* The pieces of all loads are those of the loads, one by one.
LEMMA PiecesInIs ==
    ASSUME NEW loads \in Seq(NumberedSheets)
    PROVE  /\ PiecesIn(loads) \in Seq(Numbered) /\ Gathered(loads, PiecesIn(loads))
           /\ DOMAIN PiecesIn(loads) = 1 .. Len(PiecesIn(loads)) /\ Len(PiecesIn(loads)) \in Nat
<1> DEFINE seqs == [k \in DOMAIN loads |-> loads[k].pieces]
           flat == PiecesIn(loads)
           n == Len(loads)
<1>1. DOMAIN loads = 1 .. n /\ n \in Nat /\ \A k \in 1 .. n : loads[k].pieces \in Seq(Numbered)
  <2>1. DOMAIN loads = 1 .. n /\ n \in Nat /\ \A k \in 1 .. n : loads[k] \in NumberedSheets
    BY LenProperties, ElementOfSeq
  <2> QED
    BY <2>1 DEF NumberedSheets
<1>2. seqs \in [1 .. n -> Seq(Numbered)] /\ \A k \in 1 .. n : seqs[k] = loads[k].pieces
  BY <1>1
<1>3. flat = FlattenSeq(seqs)
  BY DEF PiecesIn
<1> HIDE DEF seqs, flat, n
<1>4. seqs \in Seq(Seq(Numbered)) /\ Len(seqs) = n
  BY <1>1, <1>2, FunctionSeq
<1>5. flat \in FlatOf(Numbered, seqs, n)
  BY <1>3, <1>4, FlattenIs
<1>6. flat \in Seq(Numbered) /\ PlacesOf(seqs, n, flat) # {}
  BY <1>5 DEF FlatOf
<1>7. PICK place \in PlacesOf(seqs, n, flat) : TRUE
  BY <1>6
<1>8. /\ place \in [1 .. Len(flat) -> Spots(seqs, n)]
      /\ \A i, j \in 1 .. Len(flat) : place[i] = place[j] => i = j
      /\ \A si \in Spots(seqs, n) : \E i \in 1 .. Len(flat) : place[i] = si
      /\ \A i \in 1 .. Len(flat) : flat[i] = seqs[place[i][1]][place[i][2]]
  BY <1>7 DEF PlacesOf
<1>9. ASSUME NEW i \in 1 .. Len(flat)
      PROVE  \E k \in 1 .. n : \E j \in 1 .. Len(loads[k].pieces) : place[i] = <<k, j>> /\ flat[i] = loads[k].pieces[j]
  <2>1. place[i] \in Spots(seqs, n)
    BY <1>8
  <2>2. place[i] = <<place[i][1], place[i][2]>> /\ place[i][1] \in 1 .. n /\ place[i][2] \in 1 .. Len(seqs[place[i][1]])
    BY <2>1 DEF Spots
  <2> QED
    BY <1>2, <1>8, <2>2
<1>10. ASSUME NEW k \in 1 .. n, NEW j \in 1 .. Len(loads[k].pieces)
       PROVE  \E i \in 1 .. Len(flat) : place[i] = <<k, j>> /\ flat[i] = loads[k].pieces[j]
  <2>1. <<k, j>> \in Spots(seqs, n)
    BY <1>1, LenProperties, <1>2 DEF Spots
  <2>2. PICK i \in 1 .. Len(flat) : place[i] = <<k, j>>
    BY <1>8, <2>1
  <2>3. flat[i] = seqs[k][j]
    BY <1>8, <2>2
  <2> QED
    BY <1>2, <2>2, <2>3
<1>11. \A id : HasId(flat, id) <=> Present(loads, id)
  <2>1. ASSUME NEW id, HasId(flat, id) PROVE Present(loads, id)
    BY <2>1, <1>9 DEF HasId, Present, n
  <2>2. ASSUME NEW id, Present(loads, id) PROVE HasId(flat, id)
    BY <2>2, <1>10 DEF Present, n, HasId
  <2> QED
    BY <2>1, <2>2
<1>12. ASSUME OnceEach(flat) PROVE OnceInPlan(loads)
  <2> SUFFICES ASSUME NEW k \in 1 .. n, NEW l \in 1 .. n,
                      NEW i \in 1 .. Len(loads[k].pieces), NEW j \in 1 .. Len(loads[l].pieces),
                      loads[k].pieces[i].id = loads[l].pieces[j].id
               PROVE  k = l /\ i = j
    BY DEF OnceInPlan, n
  <2>1. PICK a \in 1 .. Len(flat) : place[a] = <<k, i>> /\ flat[a] = loads[k].pieces[i]
    BY <1>10
  <2>2. PICK b \in 1 .. Len(flat) : place[b] = <<l, j>> /\ flat[b] = loads[l].pieces[j]
    BY <1>10
  <2>3. a = b
    BY <1>12, <2>1, <2>2 DEF OnceEach
  <2> QED
    BY <2>1, <2>2, <2>3
<1>13. ASSUME OnceInPlan(loads) PROVE OnceEach(flat)
  <2> SUFFICES ASSUME NEW a \in 1 .. Len(flat), NEW b \in 1 .. Len(flat), flat[a].id = flat[b].id
               PROVE  a = b
    BY DEF OnceEach
  <2>1. PICK k \in 1 .. n : \E i \in 1 .. Len(loads[k].pieces) : place[a] = <<k, i>> /\ flat[a] = loads[k].pieces[i]
    BY <1>9
  <2>2. PICK i \in 1 .. Len(loads[k].pieces) : place[a] = <<k, i>> /\ flat[a] = loads[k].pieces[i]
    BY <2>1
  <2>3. PICK l \in 1 .. n : \E j \in 1 .. Len(loads[l].pieces) : place[b] = <<l, j>> /\ flat[b] = loads[l].pieces[j]
    BY <1>9
  <2>4. PICK j \in 1 .. Len(loads[l].pieces) : place[b] = <<l, j>> /\ flat[b] = loads[l].pieces[j]
    BY <2>3
  <2>5. k = l /\ i = j
    BY <1>13, <2>2, <2>4 DEF OnceInPlan, n
  <2>6. place[a] = place[b]
    BY <2>2, <2>4, <2>5
  <2> QED
    BY <1>8, <2>6
<1>14. \A i \in 1 .. Len(flat) : \E k \in 1 .. Len(loads) : \E j \in 1 .. Len(loads[k].pieces) : flat[i] = loads[k].pieces[j]
  BY <1>9 DEF n
<1>15. Gathered(loads, flat)
  BY <1>11, <1>12, <1>13, <1>14 DEF Gathered
<1>16. DOMAIN flat = 1 .. Len(flat) /\ Len(flat) \in Nat
  BY <1>6, LenProperties
<1> QED
  BY <1>6, <1>15, <1>16 DEF flat

\* Whether the numbers of some pieces differ.
LEMMA OnceInjective ==
    ASSUME NEW pieces, DOMAIN pieces = 1 .. Len(pieces)
    PROVE  IsInjective([i \in DOMAIN pieces |-> pieces[i].id]) <=> OnceEach(pieces)
<1> DEFINE f == [i \in DOMAIN pieces |-> pieces[i].id]
<1>1. DOMAIN f = 1 .. Len(pieces) /\ \A i \in 1 .. Len(pieces) : f[i] = pieces[i].id
  OBVIOUS
<1> HIDE DEF f
<1>2. IsInjective(f) <=> OnceEach(pieces)
  BY <1>1 DEF IsInjective, OnceEach
<1> QED
  BY <1>2 DEF f

\* A plan that is drawn and found valid is sound.
LEMMA ValidSound ==
    ASSUME NEW plan, NEW parts, NEW fit, NEW table, NEW most,
           PlanDrawn(plan, parts, fit, table, most), PlanValid(plan, fit)
    PROVE  PlanSound(plan, parts, fit, table, most)
<1> DEFINE loads == plan.loads
           flat == PiecesIn(loads)
           ids == [i \in DOMAIN flat |-> flat[i].id]
           left == plan.left
<1>1. loads \in Seq(NumberedSheets) /\ left \in Seq(Elements(fit))
  BY DEF PlanDrawn
<1>2. (\A k \in DOMAIN loads : OnSheet(loads[k])) /\ IsInjective(ids \o left)
  BY Zenon DEF PlanValid, Sequence, PiecesIn
<1> HIDE DEF loads, left
<1>3. flat \in Seq(Numbered) /\ Gathered(loads, flat) /\ DOMAIN flat = 1 .. Len(flat) /\ Len(flat) \in Nat
  BY <1>1, PiecesInIs
<1> HIDE DEF flat
<1>4. ids \in Seq(Nat) /\ Len(ids) = Len(flat) /\ DOMAIN ids = 1 .. Len(flat) /\ \A i \in 1 .. Len(flat) : ids[i] = flat[i].id
  <2>1. \A i \in 1 .. Len(flat) : flat[i].id \in Nat
    BY <1>3, NumberedPieces DEF Numbered
  <2>2. ids \in [1 .. Len(flat) -> Nat] /\ \A i \in 1 .. Len(flat) : ids[i] = flat[i].id
    BY <1>3, <2>1
  <2> HIDE DEF ids
  <2> QED
    BY <1>3, <2>2, FunctionSeq
<1> HIDE DEF ids
<1>5. OnceEach(flat)
  <2> SUFFICES ASSUME NEW i \in 1 .. Len(flat), NEW j \in 1 .. Len(flat), flat[i].id = flat[j].id PROVE i = j
    BY DEF OnceEach
  <2> DEFINE all == ids \o left
  <2>1. Len(left) \in Nat
    BY <1>1, LenProperties
  <2>2. DOMAIN all = 1 .. Len(ids) + Len(left) /\ \A k \in 1 .. Len(ids) : all[k] = ids[k]
    <3> DEFINE S == Nat \cup Elements(fit)
    <3>1. Nat \subseteq S /\ Elements(fit) \subseteq S
      OBVIOUS
    <3> HIDE DEF S
    <3>2. ids \in Seq(S) /\ left \in Seq(S)
      BY <1>1, <1>4, <3>1, SeqWider
    <3> QED
      BY <2>1, <3>2
  <2> HIDE DEF all
  <2>3. i \in DOMAIN all /\ j \in DOMAIN all /\ all[i] = all[j]
    BY <1>3, <1>4, <2>1, <2>2
  <2>4. IsInjective(all)
    BY <1>2 DEF all
  <2> QED
    BY <2>3, <2>4 DEF IsInjective
<1>6. OnceInPlan(loads)
  BY <1>3, <1>5 DEF Gathered
<1>7. \A k \in 1 .. Len(loads) : OnSheet(loads[k])
  BY <1>1, <1>2, LenProperties
<1> QED
  BY <1>6, <1>7 DEF PlanDrawn, PlanSound, loads

\* A bin of the engine as a sheet.
LEMMA UprightIs ==
    ASSUME NEW bin \in Seq([id : Nat, at : [Axes -> Nat], size : [Axes -> Lengths]]), NEW axis \in Axes,
           NEW table \in [Axes -> Lengths]
    PROVE  /\ Upright(bin, axis, table) \in NumberedSheets /\ Upright(bin, axis, table).size = table
           /\ Len(Upright(bin, axis, table).pieces) = Len(bin) /\ Len(bin) \in Nat /\ DOMAIN bin = 1 .. Len(bin)
           /\ \A i \in 1 .. Len(bin) : Upright(bin, axis, table).pieces[i].id = bin[i].id
<1> DEFINE Turn(pair) == IF axis = 1 THEN pair ELSE Turned(pair)
           piece(i) == [id |-> bin[i].id, at |-> Turn(bin[i].at), size |-> Turn(bin[i].size)]
           pieces == [i \in DOMAIN bin |-> piece(i)]
<1>1. Upright(bin, axis, table) = [size |-> table, pieces |-> pieces]
  BY Zenon DEF Upright
<1>2. Len(bin) \in Nat /\ DOMAIN bin = 1 .. Len(bin)
  BY LenProperties
<1>3. ASSUME NEW i \in 1 .. Len(bin) PROVE piece(i) \in Numbered /\ piece(i).id = bin[i].id
  <2> DEFINE id == bin[i].id
             at == bin[i].at
             size == bin[i].size
             newAt == Turn(at)
             newSize == Turn(size)
  <2>1. id \in Nat /\ at \in [Axes -> Nat] /\ size \in [Axes -> Lengths]
    <3>1. bin[i] \in [id : Nat, at : [Axes -> Nat], size : [Axes -> Lengths]]
      BY ElementOfSeq
    <3> QED
      BY <3>1
  <2> HIDE DEF id, at, size
  <2>2. newAt \in [Axes -> Nat]
    BY <2>1 DEF Axes, Turned
  <2>3. newSize \in [Axes -> Lengths]
    BY <2>1, TurnedIs
  <2> HIDE DEF newAt, newSize
  <2>4. \A x \in Nat : \A y \in [Axes -> Nat] : \A z \in [Axes -> Lengths] :
            [id |-> x, at |-> y, size |-> z] \in Numbered
    BY DEF Numbered
  <2> DEFINE p == [id |-> id, at |-> newAt, size |-> newSize]
  <2>5. p \in Numbered /\ p.id = id
    BY <2>1, <2>2, <2>3, <2>4
  <2>6. piece(i) = p
    BY DEF id, at, size, newAt, newSize
  <2> HIDE DEF piece, p
  <2> QED
    BY <2>5, <2>6 DEF id
<1>4. pieces \in [1 .. Len(bin) -> Numbered] /\ \A i \in 1 .. Len(bin) : pieces[i].id = bin[i].id
  BY <1>2, <1>3
<1> HIDE DEF piece, pieces
<1>5. pieces \in Seq(Numbered) /\ Len(pieces) = Len(bin)
  BY <1>2, <1>4, FunctionSeq
<1> QED
  BY <1>1, <1>2, <1>4, <1>5 DEF NumberedSheets

\* The sheets of a solution of the engine that is found valid.
LEMMA UprightsAre ==
    ASSUME NEW parts, NEW fit \in Seq(1 .. Len(parts)), NEW axis \in Axes, NEW table \in [Axes -> Lengths],
           NEW solution, Nesting(solution, parts, fit, axis, table), NestedValid(Uprights(solution, axis, table))
    PROVE  NestedSheets(Uprights(solution, axis, table), parts, fit, table)
<1> DEFINE sheets == Uprights(solution, axis, table)
           n == Len(solution)
           flat == PiecesIn(sheets)
           Bins == Seq([id : Nat, at : [Axes -> Nat], size : [Axes -> Lengths]])
<1>1. solution \in Seq(Bins)
  BY DEF Nesting, Solutions
<1>2. DOMAIN solution = 1 .. n /\ n \in Nat /\ \A k \in 1 .. n : solution[k] \in Bins
  BY <1>1, LenProperties, ElementOfSeq
<1>3. \A k \in 1 .. n :
         /\ sheets[k] = Upright(solution[k], axis, table)
         /\ sheets[k] \in NumberedSheets /\ sheets[k].size = table
         /\ Len(sheets[k].pieces) = Len(solution[k]) /\ Len(solution[k]) \in Nat
         /\ DOMAIN solution[k] = 1 .. Len(solution[k])
         /\ \A i \in 1 .. Len(solution[k]) : sheets[k].pieces[i].id = solution[k][i].id
  <2> SUFFICES ASSUME NEW k \in 1 .. n
               PROVE  /\ sheets[k] = Upright(solution[k], axis, table)
                      /\ sheets[k] \in NumberedSheets /\ sheets[k].size = table
                      /\ Len(sheets[k].pieces) = Len(solution[k]) /\ Len(solution[k]) \in Nat
                      /\ DOMAIN solution[k] = 1 .. Len(solution[k])
                      /\ \A i \in 1 .. Len(solution[k]) : sheets[k].pieces[i].id = solution[k][i].id
    OBVIOUS
  <2> DEFINE bin == solution[k]
  <2>1. sheets[k] = Upright(bin, axis, table) /\ bin \in Seq([id : Nat, at : [Axes -> Nat], size : [Axes -> Lengths]])
    BY <1>2 DEF Uprights
  <2> HIDE DEF bin
  <2>2. /\ Upright(bin, axis, table) \in NumberedSheets /\ Upright(bin, axis, table).size = table
        /\ Len(Upright(bin, axis, table).pieces) = Len(bin) /\ Len(bin) \in Nat /\ DOMAIN bin = 1 .. Len(bin)
        /\ \A i \in 1 .. Len(bin) : Upright(bin, axis, table).pieces[i].id = bin[i].id
    BY <2>1, UprightIs
  <2> HIDE DEF sheets
  <2> QED
    BY <2>1, <2>2 DEF bin
<1>4. sheets \in [1 .. n -> NumberedSheets]
  BY <1>2, <1>3 DEF Uprights
<1> HIDE DEF n
<1>5. sheets \in Seq(NumberedSheets) /\ Len(sheets) = n /\ DOMAIN sheets = 1 .. n
  BY <1>2, <1>4, FunctionSeq
<1> HIDE DEF sheets
<1>6. /\ IsInjective([i \in DOMAIN flat |-> flat[i].id])
      /\ \A k \in DOMAIN sheets : OnSheet(sheets[k])
      /\ KerfClear(sheets)
  BY DEF sheets, NestedValid, PiecesIn
<1>7. flat \in Seq(Numbered) /\ Gathered(sheets, flat) /\ DOMAIN flat = 1 .. Len(flat)
  BY <1>5, PiecesInIs
<1> HIDE DEF flat
<1>8. OnceInPlan(sheets)
  BY <1>6, <1>7, OnceInjective DEF Gathered
<1>9. /\ \A k \in DOMAIN solution :
            /\ solution[k] # <<>>
            /\ \A p \in PieceSet(Upright(solution[k], axis, table)) :
                p.id \in Range(fit) /\ p.size \in Range(Orientations(parts[p.id]))
      /\ \A id \in Range(fit) : \E k \in DOMAIN solution : \E i \in DOMAIN solution[k] : solution[k][i].id = id
  BY DEF Nesting, Solutions
<1>10. Range(fit) = Elements(fit) /\ Elements(fit) \subseteq 1 .. Len(parts)
  BY LenProperties, InElements DEF Range, Elements
<1>11. ASSUME NEW k \in 1 .. n PROVE LoadDrawn(sheets[k], parts, Elements(fit), table)
  <2> DEFINE pieces == sheets[k].pieces
  <2>1. pieces \in Seq(Numbered)
    BY <1>3 DEF NumberedSheets
  <2>2. DOMAIN pieces = 1 .. Len(pieces) /\ Len(pieces) = Len(solution[k])
    BY <1>3, <2>1, LenProperties
  <2>3. pieces # <<>>
    <3>1. solution[k] # <<>> /\ solution[k] \in Bins
      BY <1>2, <1>9
    <3>2. Len(solution[k]) # 0
      BY <3>1, LenProperties
    <3> HIDE DEF pieces
    <3> QED
      BY <2>2, <3>2
  <2>4. Clear(pieces)
    <3>1. \A ij \in Pairs(pieces) : ~TooClose(pieces[ij[1]], pieces[ij[2]])
      BY <1>5, <1>6 DEF KerfClear
    <3> HIDE DEF pieces
    <3> QED
      BY <2>1, <3>1, PairsOfPieces
  <2>5. ASSUME NEW i \in 1 .. Len(pieces)
        PROVE  pieces[i].id \in Elements(fit) /\ pieces[i].size \in Range(Orientations(parts[pieces[i].id]))
    <3>1. pieces[i] \in PieceSet(sheets[k])
      BY <2>2 DEF PieceSet
    <3>2. pieces[i] \in PieceSet(Upright(solution[k], axis, table)) /\ k \in DOMAIN solution
      BY <1>2, <1>3, <3>1
    <3> QED
      BY <1>9, <1>10, <3>2
  <2>6. Alike(parts, pieces)
    BY <1>10, <2>5 DEF Alike
  <2> QED
    BY <1>3, <2>3, <2>4, <2>5, <2>6 DEF LoadDrawn
<1>12. ASSUME NEW id \in Elements(fit) PROVE Present(sheets, id)
  <2>1. PICK k \in 1 .. n : \E i \in DOMAIN solution[k] : solution[k][i].id = id
    BY <1>2, <1>9, <1>10
  <2>2. PICK i \in 1 .. Len(solution[k]) : solution[k][i].id = id
    BY <1>3, <2>1
  <2>3. i \in 1 .. Len(sheets[k].pieces) /\ sheets[k].pieces[i].id = id
    BY <1>3, <2>2
  <2> QED
    BY <1>5, <2>3 DEF Present
<1>13. \A k \in 1 .. n : OnSheet(sheets[k])
  BY <1>5, <1>6
<1> QED
  BY <1>5, <1>8, <1>11, <1>12, <1>13 DEF NestedSheets, sheets

\* What the sheets of a nested plan are ordered by is made of numbers.
LEMMA NestedOrder ==
    ASSUME NEW sheets \in Seq(NumberedSheets), NEW axis \in Axes, \A k \in 1 .. Len(sheets) : OnSheet(sheets[k])
    PROVE  NestedKey(sheets, axis) \in [1 .. Len(sheets) -> Tuples(3)]
<1>1. DOMAIN sheets = 1 .. Len(sheets) /\ \A k \in 1 .. Len(sheets) : sheets[k] \in NumberedSheets
  BY LenProperties, ElementOfSeq
<1>2. Across(axis) \in Axes
  BY AcrossAxis
<1>3. ASSUME NEW k \in 1 .. Len(sheets)
      PROVE  <<Len(sheets[k].pieces), Used(sheets[k]), -LoadFeed(sheets[k], axis)>> \in Tuples(3)
  <2> DEFINE load == sheets[k]
             b == Across(axis)
             x == Len(load.pieces)
             y == Used(load)
             z == LoadFeed(load, axis)
             w == -z
  <2>1. load \in NumberedSheets /\ OnSheet(load) /\ b \in Axes
    BY <1>1, <1>2
  <2>2. z = Max({0} \cup {Hi(p, b) : p \in PieceSet(load)})
    BY DEF LoadFeed
  <2> HIDE DEF load, b
  <2>3. z \in Nat
    BY <2>1, <2>2, ReachIs
  <2>4. load.pieces \in Seq(Numbered)
    BY <2>1 DEF NumberedSheets
  <2>5. y \in Int
    BY <2>4, UsedTyped
  <2>6. x \in Int
    BY <2>4, LenProperties
  <2> HIDE DEF z
  <2>7. w \in Int
    BY <2>3
  <2> HIDE DEF x, y, w
  <2>8. <<x, y, w>> \in Tuples(3)
    BY <2>5, <2>6, <2>7 DEF Tuples
  <2> QED
    BY <2>8 DEF load, x, y, w, z
<1> QED
  BY <1>1, <1>3 DEF NestedKey

\* The first sheets in that order are sheets like them, no part twice; and all
\* parts if they are all the sheets.
LEMMA ChosenAre ==
    ASSUME NEW sheets, NEW parts, NEW fit, NEW axis \in Axes, NEW table,
           NestedSheets(sheets, parts, fit, table), NEW n \in Nat, n <= Len(sheets)
    PROVE  /\ Chosen(sheets, axis, n) \in Seq(NumberedSheets) /\ Len(Chosen(sheets, axis, n)) = n
           /\ \A k \in 1 .. n : LoadDrawn(Chosen(sheets, axis, n)[k], parts, Elements(fit), table) /\ OnSheet(Chosen(sheets, axis, n)[k])
           /\ OnceInPlan(Chosen(sheets, axis, n))
           /\ n = Len(sheets) => \A id \in Elements(fit) : Present(Chosen(sheets, axis, n), id)
<1> DEFINE loads == Chosen(sheets, axis, n)
           m == Len(sheets)
           key == NestedKey(sheets, axis)
<1>1. /\ sheets \in Seq(NumberedSheets) /\ OnceInPlan(sheets)
      /\ \A k \in 1 .. m : LoadDrawn(sheets[k], parts, Elements(fit), table) /\ OnSheet(sheets[k])
      /\ \A id \in Elements(fit) : Present(sheets, id)
  BY DEF NestedSheets
<1>2. key \in [1 .. m -> Tuples(3)]
  BY <1>1, NestedOrder
<1> HIDE DEF key
<1>3. m \in Nat
  BY <1>1, LenProperties
<1> DEFINE new == Arranged(sheets, key)
<1>4. new \in Seq(NumberedSheets) /\ Len(new) = m /\ \E by \in Orders(m) : \A k \in 1 .. m : new[k] = sheets[by[k]]
  BY <1>1, <1>2, ArrangedIs
<1>5. \A k \in 1 .. n : loads[k] = new[k]
  BY DEF key, Chosen
<1> HIDE DEF new
<1>6. PICK by \in Orders(m) : \A k \in 1 .. m : new[k] = sheets[by[k]]
  BY <1>4
<1>7. /\ \A k \in 1 .. m : by[k] \in 1 .. m
      /\ \A i, j \in 1 .. m : by[i] = by[j] => i = j
      /\ \A i \in 1 .. m : \E k \in 1 .. m : by[k] = i
  BY DEF Orders
<1>8. \A k \in 1 .. n : k \in 1 .. m
  BY <1>3
<1> HIDE DEF loads
<1>9. ASSUME NEW k \in 1 .. n PROVE loads[k] = sheets[by[k]] /\ by[k] \in 1 .. m /\ loads[k] \in NumberedSheets
  <2>1. k \in 1 .. m
    BY <1>8
  <2>2. loads[k] = sheets[by[k]] /\ by[k] \in 1 .. m
    BY <1>5, <1>6, <1>7, <2>1
  <2>3. sheets[by[k]] \in NumberedSheets
    BY <1>1, <2>2, ElementOfSeq
  <2> QED
    BY <2>2, <2>3
<1>10. loads \in [1 .. n -> NumberedSheets]
  BY <1>9 DEF Chosen, loads
<1> HIDE DEF m
<1>11. loads \in Seq(NumberedSheets) /\ Len(loads) = n
  BY <1>10, FunctionSeq
<1>12. \A k \in 1 .. n : LoadDrawn(loads[k], parts, Elements(fit), table) /\ OnSheet(loads[k])
  BY <1>1, <1>9
<1>13. OnceInPlan(loads)
  <2> SUFFICES ASSUME NEW k \in 1 .. n, NEW l \in 1 .. n,
                      NEW i \in 1 .. Len(loads[k].pieces), NEW j \in 1 .. Len(loads[l].pieces),
                      loads[k].pieces[i].id = loads[l].pieces[j].id
               PROVE  k = l /\ i = j
    BY <1>11 DEF OnceInPlan
  <2>1. SameId(sheets, by[k], i, by[l], j) /\ by[k] \in 1 .. Len(sheets) /\ by[l] \in 1 .. Len(sheets)
    BY <1>9 DEF SameId, m
  <2>2. i \in 1 .. Len(sheets[by[k]].pieces) /\ j \in 1 .. Len(sheets[by[l]].pieces)
    BY <1>9
  <2>3. by[k] = by[l] /\ i = j
    BY <1>1, <2>1, <2>2, OnceIs
  <2> QED
    BY <1>7, <1>8, <2>3
<1>14. ASSUME n = m, NEW id \in Elements(fit) PROVE Present(loads, id)
  <2>1. PICK k \in 1 .. m : \E i \in 1 .. Len(sheets[k].pieces) : sheets[k].pieces[i].id = id
    BY <1>1 DEF Present, m
  <2>2. PICK l \in 1 .. m : by[l] = k
    BY <1>7
  <2>3. l \in 1 .. n /\ loads[l] = sheets[k]
    BY <1>9, <1>14, <2>2
  <2> QED
    BY <1>11, <2>1, <2>3 DEF Present
<1> QED
  BY <1>11, <1>12, <1>13, <1>14 DEF loads, m

\* A nested plan is sound.
LEMMA NestedPlanIs ==
    ASSUME NEW parts, NEW fit \in Seq(1 .. Len(parts)), NEW axis \in Axes, NEW table \in [Axes -> Lengths],
           NEW solution, NestedSheets(Uprights(solution, axis, table), parts, fit, table), NEW most \in Nat
    PROVE  PlanSound(NestedPlan(solution, fit, axis, table, most), parts, fit, table, most)
<1> DEFINE sheets == Uprights(solution, axis, table)
           n == Min({Len(sheets), most})
           loads == Chosen(sheets, axis, n)
           ids == {p.id : p \in UNION {PieceSet(loads[k]) : k \in DOMAIN loads}}
           left == Without(fit, ids)
           reach(k) == Max({0} \cup {Hi(p, axis) : p \in PieceSet(loads[k])})
           fill == SumFunction([k \in DOMAIN loads |-> reach(k)])
           plan == NestedPlan(solution, fit, axis, table, most)
<1>1. plan = [axis |-> axis, loads |-> loads, left |-> left, fill |-> fill]
  BY Zenon DEF NestedPlan, Uprights, NestedKey, Chosen
<1> HIDE DEF sheets
<1>2. sheets \in Seq(NumberedSheets) /\ Len(sheets) \in Nat
  BY LenProperties DEF NestedSheets, sheets
<1>3. n \in Nat /\ n <= Len(sheets) /\ n <= most /\ (n = Len(sheets) \/ n = most)
  <2>1. {Len(sheets), most} \subseteq Nat /\ {Len(sheets), most} # {}
    BY <1>2
  <2>2. n \in {Len(sheets), most} /\ \A k \in {Len(sheets), most} : n <= k
    BY <2>1, MinOf
  <2> HIDE DEF n
  <2> QED
    BY <1>2, <2>2
<1> HIDE DEF n
<1>4. /\ loads \in Seq(NumberedSheets) /\ Len(loads) = n
      /\ \A k \in 1 .. n : LoadDrawn(loads[k], parts, Elements(fit), table) /\ OnSheet(loads[k])
      /\ OnceInPlan(loads)
      /\ n = Len(sheets) => \A id \in Elements(fit) : Present(loads, id)
  BY <1>3, ChosenAre DEF sheets
<1> HIDE DEF loads
<1>5. DOMAIN loads = 1 .. n /\ \A k \in 1 .. n : loads[k] \in NumberedSheets
  BY <1>4, LenProperties, ElementOfSeq
<1>6. ASSUME NEW id PROVE id \in ids <=> Present(loads, id)
  <2>1. \A k \in 1 .. n : DOMAIN loads[k].pieces = 1 .. Len(loads[k].pieces)
    BY <1>5, LenProperties DEF NumberedSheets
  <2>2. ASSUME id \in ids PROVE Present(loads, id)
    BY <1>5, <2>2, <2>1, <1>4 DEF PieceSet, Present
  <2>3. ASSUME Present(loads, id) PROVE id \in ids
    <3>1. PICK k \in 1 .. n : \E i \in 1 .. Len(loads[k].pieces) : loads[k].pieces[i].id = id
      BY <1>4, <2>3 DEF Present
    <3>2. \E p \in PieceSet(loads[k]) : p.id = id
      BY <2>1, <3>1 DEF PieceSet
    <3> QED
      BY <1>5, <3>2
  <2> QED
    BY <2>2, <2>3
<1> HIDE DEF ids
<1>7. fit \in Seq(Elements(fit))
  BY InElements
<1>8. left \in Seq(Elements(fit)) /\ Elements(left) = Elements(fit) \ ids
  BY <1>7, LeftOf
<1> HIDE DEF left
<1>9. fill \in Int
  <2> DEFINE g == [k \in DOMAIN loads |-> reach(k)]
  <2>1. ASSUME NEW k \in 1 .. n PROVE reach(k) \in Int
    <3> DEFINE load == loads[k]
    <3>1. load \in NumberedSheets /\ OnSheet(load)
      BY <1>4, <1>5
    <3>2. reach(k) = Max({0} \cup {Hi(p, axis) : p \in PieceSet(load)})
      OBVIOUS
    <3> HIDE DEF load, reach
    <3>3. Max({0} \cup {Hi(p, axis) : p \in PieceSet(load)}) \in Nat
      BY <3>1, ReachIs
    <3> QED
      BY <3>2, <3>3
  <2> HIDE DEF reach
  <2>2. g \in [1 .. n -> Int] /\ IsFiniteSet(1 .. n)
    BY <1>3, <1>5, <2>1, FS_Interval
  <2> HIDE DEF g
  <2>3. SumFunction(g) \in Int
    BY <2>2, SumIs
  <2> QED
    BY <2>3 DEF g
<1> HIDE DEF fill
<1>10. \A id \in Elements(fit) : id \in Elements(left) <=> ~Present(loads, id)
  BY <1>6, <1>8
<1>11. left # <<>> => n = most
  <2>1. ASSUME left # <<>>, n = Len(sheets) PROVE FALSE
    <3>1. PICK i \in 1 .. Len(left) : TRUE
      BY <1>8, <2>1
    <3>2. left[i] \in Elements(left)
      BY DEF Elements
    <3> QED
      BY <1>4, <1>8, <1>10, <2>1, <3>2
  <2> QED
    BY <1>3, <2>1
<1> HIDE DEF plan
<1>12. plan.loads = loads /\ plan.axis = axis /\ plan.left = left /\ plan.fill = fill
  BY <1>1
<1>13. PlanSound(plan, parts, fit, table, most)
  BY <1>3, <1>4, <1>8, <1>9, <1>10, <1>11, <1>12 DEF PlanSound
<1> QED
  BY <1>13 DEF plan

-----------------------------------------------------------------------------
(* The choice between plans                                                *)

\* What plans are compared by is made of numbers.
LEMMA MeritsTyped ==
    ASSUME NEW plan, NEW parts, NEW fit, NEW table, NEW most, PlanSound(plan, parts, fit, table, most)
    PROVE  /\ Merits(plan) \in Tuples(4) /\ Rating(plan) \in Tuples(3)
           /\ \A d \in 1 .. 3 : Merits(plan)[d] = Rating(plan)[d]
           /\ PlacedCount(plan) \in Int /\ Feed(plan) \in Int /\ Len(plan.loads) \in Nat /\ plan.fill \in Int
<1>1. /\ plan.loads \in Seq(NumberedSheets) /\ plan.axis \in Axes /\ plan.fill \in Int
      /\ \A k \in 1 .. Len(plan.loads) : OnSheet(plan.loads[k])
  BY DEF PlanSound
<1>2. PlacedCount(plan) \in Int /\ Feed(plan) \in Int /\ Len(plan.loads) \in Nat
  BY <1>1, FiguresTyped
<1> DEFINE a == PlacedCount(plan)
           n == Len(plan.loads)
           f == Feed(plan)
           b == -n
           c == -f
           d == plan.fill
<1>3. Merits(plan) = <<a, b, c, d>> /\ Rating(plan) = <<a, b, c>>
  BY DEF Merits, Rating
<1>4. a \in Int /\ n \in Nat /\ f \in Int /\ d \in Int
  BY <1>1, <1>2
<1> HIDE DEF a, n, f, d
<1>5. b \in Int /\ c \in Int
  BY <1>4
<1> HIDE DEF b, c
<1>6. <<a, b, c, d>> \in Tuples(4) /\ <<a, b, c>> \in Tuples(3)
  BY <1>4, <1>5 DEF Tuples
<1>7. \A e \in 1 .. 3 : <<a, b, c, d>>[e] = <<a, b, c>>[e]
  OBVIOUS
<1> QED
  BY <1>1, <1>2, <1>3, <1>6, <1>7

\* A plan of more merit has no less of a rating.
LEMMA MeritsRate ==
    ASSUME NEW parts, NEW fit, NEW table, NEW most, NEW new, PlanSound(new, parts, fit, table, most),
           NEW old, PlanSound(old, parts, fit, table, most), Beats(Merits(new), Merits(old))
    PROVE  NoWorse(new, old)
<1> SUFFICES ASSUME Beats(Rating(old), Rating(new)) PROVE FALSE
  BY DEF NoWorse
<1> DEFINE s == Merits(new)
           t == Merits(old)
           u == Rating(new)
           v == Rating(old)
<1>1. s \in Tuples(4) /\ u \in Tuples(3) /\ \A d \in 1 .. 3 : s[d] = u[d]
  BY MeritsTyped
<1>2. t \in Tuples(4) /\ v \in Tuples(3) /\ \A d \in 1 .. 3 : t[d] = v[d]
  BY MeritsTyped
<1>3. Beats(s, t) /\ Beats(v, u)
  OBVIOUS
<1> HIDE DEF s, t, u, v
<1>4. Beats(t, s)
  BY <1>2, <1>3, <1>1 DEF Tuples, Beats
<1>5. 4 \in Nat
  OBVIOUS
<1>6. Beats(s, s)
  BY <1>1, <1>2, <1>3, <1>4, <1>5, BeatsOn
<1> QED
  BY <1>1, <1>5, <1>6, NoneBeatsItself

\* Nor has a plan of the width-first planner that is found better.
LEMMA WidthFirstRates ==
    ASSUME NEW parts, NEW fit, NEW table, NEW most, NEW new, PlanSound(new, parts, fit, table, most),
           NEW old, PlanSound(old, parts, fit, table, most), WidthFirstBetter(new, old)
    PROVE  NoWorse(new, old)
<1> DEFINE a == PlacedCount(new)
           b == PlacedCount(old)
           m == Len(new.loads)
           n == Len(old.loads)
           f == Feed(new)
           g == Feed(old)
           p == new.fill
           q == old.fill
<1>1. a \in Int /\ m \in Nat /\ f \in Int /\ p \in Int
  BY MeritsTyped
<1>2. b \in Int /\ n \in Nat /\ g \in Int /\ q \in Int
  BY MeritsTyped
<1>3. /\ a >= b /\ m <= n
      /\ m < n \/ a > b \/ Beats(<<-f, p>>, <<-g, q>>) \/ f = g
  BY DEF WidthFirstBetter
<1>4. Rating(new) = <<a, -m, -f>> /\ Rating(old) = <<b, -n, -g>>
  BY DEF Rating
<1> HIDE DEF a, b, m, n, f, g, p, q
<1>5. Beats(<<-f, p>>, <<-g, q>>) => -f >= -g
  <2> DEFINE s == <<-f, p>>
             t == <<-g, q>>
  <2>1. DOMAIN s = 1 .. 2 /\ s[1] = -f /\ t[1] = -g
    OBVIOUS
  <2> HIDE DEF s, t
  <2>2. ASSUME Beats(s, t) PROVE -f >= -g
    BY <2>1, <2>2, <1>1, <1>2 DEF Beats
  <2> QED
    BY <2>2 DEF s, t
<1> DEFINE s == <<b, -n, -g>>
           t == <<a, -m, -f>>
<1>6. DOMAIN s = 1 .. 3 /\ s[1] = b /\ s[2] = -n /\ s[3] = -g /\ t[1] = a /\ t[2] = -m /\ t[3] = -f
  OBVIOUS
<1> HIDE DEF s, t
<1>7. ASSUME Beats(s, t) PROVE FALSE
  BY <1>6, <1>7, <1>1, <1>2, <1>3, <1>5 DEF Beats
<1> QED
  BY <1>4, <1>7 DEF NoWorse, s, t

\* It is transitive.
LEMMA NoWorseOn ==
    ASSUME NEW x, NEW y, NEW z, Rating(x) \in Tuples(3), Rating(y) \in Tuples(3), Rating(z) \in Tuples(3),
           NoWorse(x, y), NoWorse(y, z)
    PROVE  NoWorse(x, z)
<1> DEFINE s == Rating(x)
           t == Rating(y)
           u == Rating(z)
<1>1. s \in Tuples(3) /\ t \in Tuples(3) /\ u \in Tuples(3) /\ ~Beats(t, s) /\ ~Beats(u, t) /\ 3 \in Nat
  BY DEF NoWorse
<1> HIDE DEF s, t, u
<1>2. ASSUME Beats(u, s) PROVE FALSE
  BY <1>1, <1>2, OneBeats, BeatsOn
<1> QED
  BY <1>2 DEF NoWorse, s, u

\* The nested planner takes a sound plan of the engine's solutions, or leaves the
\* plan of rows, and its choice is no worse.
LEMMA WithNestedIs ==
    ASSUME NEW parts, NEW fit \in Seq(1 .. Len(parts)), NEW rowPlan, NEW table \in [Axes -> Lengths],
           NEW most \in Nat, PlanSound(rowPlan, parts, fit, table, most),
           NEW solutions, Promised(solutions, parts, fit, rowPlan.axis, table)
    PROVE  /\ PlanSound(WithNested(solutions, rowPlan, fit, table, most), parts, fit, table, most)
           /\ WithNested(solutions, rowPlan, fit, table, most).axis = rowPlan.axis
           /\ \/ WithNested(solutions, rowPlan, fit, table, most) = rowPlan
              \/ NoWorse(WithNested(solutions, rowPlan, fit, table, most), rowPlan)
<1> DEFINE axis == rowPlan.axis
           valid == {i \in DOMAIN solutions : NestedValid(Uprights(solutions[i], axis, table))}
           plans == [i \in valid |-> NestedPlan(solutions[i], fit, axis, table, most)]
           key == [i \in valid |-> Merits(plans[i])]
           best == CHOOSE i \in valid : \A j \in valid \ {i} :
                       /\ ~Beats(Merits(plans[j]), Merits(plans[i]))
                       /\ Merits(plans[j]) = Merits(plans[i]) => i < j
           result == WithNested(solutions, rowPlan, fit, table, most)
<1>1. result = IF valid # {} /\ Beats(Merits(plans[best]), Merits(rowPlan)) THEN plans[best] ELSE rowPlan
  BY Zenon DEF WithNested, Uprights
<1>2. axis \in Axes
  BY DEF PlanSound
<1>3. valid \subseteq 1 .. Len(solutions) /\ IsFiniteSet(valid) /\ valid \subseteq Nat
  <2>1. valid \subseteq 1 .. Len(solutions) /\ Len(solutions) \in Nat
    BY DEF Promised
  <2>2. IsFiniteSet(1 .. Len(solutions))
    BY <2>1, FS_Interval
  <2> HIDE DEF valid
  <2>3. IsFiniteSet(valid)
    BY <2>1, <2>2, FS_Subset
  <2> QED
    BY <2>1, <2>3
<1>4. \A i \in valid : plans[i] = NestedPlan(solutions[i], fit, axis, table, most)
  OBVIOUS
<1>5. ASSUME NEW i \in valid
      PROVE  PlanSound(NestedPlan(solutions[i], fit, axis, table, most), parts, fit, table, most)
  <2> DEFINE solution == solutions[i]
  <2>1. Nesting(solution, parts, fit, axis, table) /\ NestedValid(Uprights(solution, axis, table))
    BY <1>3 DEF Promised
  <2> HIDE DEF solution, axis
  <2>2. NestedSheets(Uprights(solution, axis, table), parts, fit, table)
    BY <1>2, <2>1, UprightsAre
  <2>3. PlanSound(NestedPlan(solution, fit, axis, table, most), parts, fit, table, most)
    BY <1>2, <2>2, NestedPlanIs
  <2> QED
    BY <2>3 DEF solution
<1>6. \A i \in valid : NestedPlan(solutions[i], fit, axis, table, most).axis = axis
  BY DEF NestedPlan
<1> HIDE DEF axis, valid, plans, result
<1>7. \A i \in valid : PlanSound(plans[i], parts, fit, table, most) /\ plans[i].axis = axis
  BY <1>4, <1>5, <1>6
<1>8. key \in [valid -> Tuples(4)]
  BY <1>7, MeritsTyped
<1>9. \A i \in valid : key[i] = Merits(plans[i])
  OBVIOUS
<1> HIDE DEF key
<1>10. ASSUME valid # {} PROVE best \in valid
  <2>1. PICK i \in valid : ComesFirst(valid, key, i)
    BY <1>3, <1>8, <1>10, FirstLargest
  <2>2. \A j \in valid \ {i} : /\ ~Beats(Merits(plans[j]), Merits(plans[i]))
                               /\ Merits(plans[j]) = Merits(plans[i]) => i < j
    BY <1>9, <2>1 DEF ComesFirst
  <2> QED
    BY <2>2, Zenon
<1> HIDE DEF best
<1>11. CASE valid # {} /\ Beats(Merits(plans[best]), Merits(rowPlan))
  <2> DEFINE plan == plans[best]
  <2>1. PlanSound(plan, parts, fit, table, most) /\ plan.axis = axis
    BY <1>7, <1>10, <1>11
  <2>2. Beats(Merits(plan), Merits(rowPlan)) /\ result = plan
    BY <1>1, <1>11
  <2> HIDE DEF plan
  <2>3. NoWorse(plan, rowPlan)
    BY <2>1, <2>2, MeritsRate
  <2> QED
    BY <2>1, <2>2, <2>3 DEF axis, result
<1>12. CASE ~(valid # {} /\ Beats(Merits(plans[best]), Merits(rowPlan)))
  BY <1>1, <1>12 DEF result
<1> QED
  BY <1>11, <1>12

-----------------------------------------------------------------------------
(* The layout                                                              *)

\* Their parts.
LEMMA PartsOfAre ==
    ASSUME NEW items, Listed(items)
    PROVE  PartsOf(items) \in Seq(PartTypes)
<1> DEFINE n == Len(items)
           instances(i) == [k \in 1 .. items[i].qty |-> [size |-> items[i].size, turn |-> items[i].turn]]
           seqs == [i \in DOMAIN items |-> instances(i)]
<1>1. PartsOf(items) = FlattenSeq(seqs)
  BY DEF PartsOf
<1>2. ASSUME NEW i \in 1 .. n PROVE instances(i) \in Seq(PartTypes)
  <2> DEFINE qty == items[i].qty
             size == items[i].size
             turn == items[i].turn
             part == [size |-> size, turn |-> turn]
             f == [k \in 1 .. qty |-> part]
  <2>1. qty \in Nat /\ size \in [Axes -> Lengths] /\ turn \in BOOLEAN
    BY DEF Listed
  <2>2. part \in PartTypes
    BY <2>1 DEF PartTypes
  <2> HIDE DEF part, qty
  <2>3. f \in [1 .. qty -> PartTypes]
    BY <2>2
  <2> HIDE DEF f
  <2>4. f \in Seq(PartTypes)
    BY <2>1, <2>3, FunctionSeq
  <2> QED
    BY <2>4 DEF f, part, qty
<1>3. DOMAIN items = 1 .. n /\ n \in Nat
  BY DEF Listed
<1> HIDE DEF instances, n
<1>4. seqs \in [1 .. n -> Seq(PartTypes)]
  BY <1>2, <1>3
<1> HIDE DEF seqs
<1>5. seqs \in Seq(Seq(PartTypes))
  BY <1>3, <1>4, FunctionSeq
<1>6. FlattenSeq(seqs) \in FlatOf(PartTypes, seqs, Len(seqs))
  BY <1>5, FlattenIs
<1> QED
  BY <1>1, <1>6 DEF FlatOf

\* The parts that fit a table, in order.
LEMMA FittingPartsAre ==
    ASSUME NEW items, NEW axis \in Axes, NEW table, PartsOf(items) \in Seq(PartTypes)
    PROVE  /\ FittingParts(items, table) \in Seq(1 .. Len(PartsOf(items)))
           /\ Distinct(FittingParts(items, table))
           /\ EachFits(PartsOf(items), Elements(FittingParts(items, table)), axis, table)
           /\ Elements(FittingParts(items, table)) =
                {id \in 1 .. Len(PartsOf(items)) : Fitting(PartsOf(items)[id], 1, table[1], table[2]) # {}}
<1> DEFINE parts == PartsOf(items)
           n == Len(parts)
           list == [id \in DOMAIN parts |-> id]
           gone == {id \in DOMAIN parts : Fitting(parts[id], 1, table[1], table[2]) = {}}
           fit == Without(list, gone)
<1>1. FittingParts(items, table) = fit
  BY DEF FittingParts
<1>2. DOMAIN parts = 1 .. n /\ n \in Nat
  BY LenProperties
<1> HIDE DEF parts, n
<1>3. list \in [1 .. n -> 1 .. n] /\ \A i \in 1 .. n : list[i] = i
  BY <1>2
<1> HIDE DEF list
<1>4. list \in Seq(1 .. n) /\ Len(list) = n
  BY <1>2, <1>3, FunctionSeq
<1>5. Elements(list) = 1 .. n /\ Distinct(list)
  BY <1>3, <1>4 DEF Elements, Distinct
<1>6. \A id \in 1 .. n : id \in gone <=> Fitting(parts[id], 1, table[1], table[2]) = {}
  BY <1>2
<1> HIDE DEF gone
<1>7. fit \in Seq(1 .. n) /\ Elements(fit) = Elements(list) \ gone /\ Distinct(fit)
  BY <1>4, <1>5, LeftOf
<1> HIDE DEF fit
<1>8. Elements(fit) = {id \in 1 .. n : Fitting(parts[id], 1, table[1], table[2]) # {}}
  BY <1>5, <1>6, <1>7
<1>9. EachFits(parts, Elements(fit), axis, table)
  BY <1>8, FitsTable DEF EachFits
<1> QED
  BY <1>1, <1>7, <1>8, <1>9 DEF parts, n

\* As many loads as there are parts leave none.
LEMMA LoadsSuffice ==
    ASSUME NEW plan, NEW parts, NEW fit \in Seq(1 .. Len(parts)), NEW table, NEW most,
           PlanSound(plan, parts, fit, table, most), Len(plan.loads) >= Len(fit)
    PROVE  plan.left = <<>>
<1> SUFFICES ASSUME plan.left # <<>> PROVE FALSE
  OBVIOUS
<1> DEFINE loads == plan.loads
           left == plan.left
           ids == Elements(fit)
           n == Len(fit)
           m == Len(loads)
<1>1. /\ loads \in Seq(NumberedSheets) /\ left \in Seq(ids) /\ left # <<>> /\ OnceInPlan(loads)
      /\ \A k \in 1 .. m : LoadDrawn(loads[k], parts, ids, table)
      /\ \A id \in ids : id \in Elements(left) <=> ~Present(loads, id)
  BY DEF PlanSound
<1>2. n \in Nat /\ m \in Nat /\ m >= n
  BY <1>1, LenProperties
<1> HIDE DEF loads, left
<1>3. PICK lost \in ids : ~Present(loads, lost)
  BY <1>1, InElements
<1>4. \A k \in 1 .. m : 1 \in 1 .. Len(loads[k].pieces) /\ loads[k].pieces[1].id \in ids
  <2> SUFFICES ASSUME NEW k \in 1 .. m
               PROVE  1 \in 1 .. Len(loads[k].pieces) /\ loads[k].pieces[1].id \in ids
    OBVIOUS
  <2> DEFINE pieces == loads[k].pieces
  <2>1. pieces \in Seq(Numbered) /\ pieces # <<>> /\ \A i \in 1 .. Len(pieces) : pieces[i].id \in ids
    BY <1>1 DEF LoadDrawn, NumberedSheets
  <2> HIDE DEF pieces
  <2>2. 1 \in 1 .. Len(pieces)
    BY <2>1
  <2> QED
    BY <2>1, <2>2 DEF pieces
<1>5. \A id \in ids : \E i \in 1 .. n : fit[i] = id
  BY DEF Elements
<1> HIDE DEF ids, n, m
<1> DEFINE rest == ids \ {lost}
           f == [k \in 1 .. m |-> loads[k].pieces[1].id]
<1>6. \A k \in 1 .. m : loads[k].pieces[1].id \in rest
  BY <1>4, <1>3 DEF Present, m
<1>7. f \in [1 .. m -> rest]
  BY <1>6
<1>8. IsFiniteSet(ids) /\ Cardinality(ids) <= n
  <2> DEFINE g == [i \in 1 .. n |-> fit[i]]
  <2>1. g \in Surjection(1 .. n, ids)
    <3>1. \A i \in 1 .. n : fit[i] \in ids
      BY InElements DEF ids, n
    <3>2. g \in [1 .. n -> ids] /\ \A id \in ids : \E i \in 1 .. n : g[i] = id
      BY <1>5, <3>1
    <3> HIDE DEF g
    <3> QED
      BY <3>2, Zenon DEF Surjection
  <2>2. IsFiniteSet(1 .. n) /\ Cardinality(1 .. n) = n
    BY <1>2, FS_Interval
  <2> HIDE DEF g
  <2> QED
    BY <2>1, <2>2, FS_Surjection
<1>9. IsFiniteSet(rest) /\ Cardinality(rest) < m
  <2>1. IsFiniteSet(rest) /\ Cardinality(rest) = Cardinality(ids) - 1
    BY <1>3, <1>8, FS_RemoveElement
  <2>2. Cardinality(ids) \in Nat
    BY <1>8, FS_CardinalityType
  <2> QED
    BY <1>2, <1>8, <2>1, <2>2
<1>10. IsFiniteSet(1 .. m) /\ Cardinality(1 .. m) = m
  BY <1>2, FS_Interval
<1> HIDE DEF rest
<1> DEFINE S == 1 .. m
<1>11. f \in [S -> rest] /\ IsFiniteSet(S) /\ Cardinality(rest) < Cardinality(S)
  BY <1>7, <1>9, <1>10
<1>12. \A k \in S : f[k] = loads[k].pieces[1].id
  OBVIOUS
<1> HIDE DEF f, S
<1>13. \E k, l \in S : k # l /\ f[k] = f[l]
  BY <1>9, <1>11, FS_PigeonHole
<1>14. PICK k \in S, l \in S : k # l /\ f[k] = f[l]
  BY <1>13
<1>15. SameId(loads, k, 1, l, 1)
  BY <1>12, <1>14 DEF SameId
<1>16. k \in 1 .. Len(loads) /\ l \in 1 .. Len(loads) /\ 1 \in 1 .. Len(loads[k].pieces) /\ 1 \in 1 .. Len(loads[l].pieces)
  BY <1>4 DEF S, m
<1>17. k = l
  BY <1>1, <1>15, <1>16, OnceIs
<1> QED
  BY <1>14, <1>17

\* The loads allowed.
LEMMA MaxLoadsIs ==
    ASSUME NEW stock, stock.qty \in Nat, NEW T, NEW fit \in Seq(T)
    PROVE  /\ MaxLoads(stock, fit) \in Nat
           /\ IF stock.qty > 0 THEN MaxLoads(stock, fit) = stock.qty ELSE MaxLoads(stock, fit) >= Len(fit)
<1> DEFINE n == Len(fit)
<1>1. n \in Nat
  BY LenProperties
<1>2. MaxLoads(stock, fit) = IF stock.qty > 0 THEN stock.qty ELSE Max({n, 1})
  BY DEF MaxLoads
<1> HIDE DEF n
<1>3. Max({n, 1}) \in {n, 1} /\ \A k \in {n, 1} : Max({n, 1}) >= k
  <2>1. {n, 1} \subseteq Int /\ {n, 1} # {} /\ n + 1 \in Int /\ \A k \in {n, 1} : k <= n + 1
    BY <1>1
  <2> QED
    BY <2>1, MaxOf
<1>4. Max({n, 1}) \in Nat /\ Max({n, 1}) >= n
  BY <1>1, <1>3
<1> QED
  BY <1>2, <1>4 DEF n

\* The planners run along the axis they are asked for.
LEMMA AxesKept ==
    ASSUME NEW parts, NEW fit, NEW axis, NEW table, NEW most
    PROVE  /\ LegacyPlan(parts, fit, axis, table, most).axis = axis
           /\ WidthFirstPlan(parts, fit, axis, table, most).axis = axis
<1>1. \A loads, left : RowPlan(loads, left, axis, table).axis = axis
  BY DEF RowPlan
<1> QED
  BY <1>1, Zenon DEF LegacyPlan, WidthFirstPlan

\* The plan a layout is made of is sound, and no worse than the legacy one.
LEMMA PlanOfIs ==
    ASSUME NEW items, NEW stock, NEW direction, NEW solutions, NEW inTime,
           VacuumInput(items, stock, direction, solutions)
    PROVE  LET parts == PartsOf(items)
               fit == FittingParts(items, stock.table)
               baseline == Baseline(items, stock, direction)
               plan == PlanOf(fit, stock, solutions, RowPlanOf(parts, fit, stock, direction, baseline, inTime))
           IN  /\ PlanSound(plan, parts, fit, stock.table, MaxLoads(stock, fit))
               /\ plan.axis = Axis(direction, stock) /\ NoWorse(plan, baseline)
<1> DEFINE parts == PartsOf(items)
           table == stock.table
           fit == FittingParts(items, table)
           most == MaxLoads(stock, fit)
           axis == Axis(direction, stock)
           baseline == Baseline(items, stock, direction)
           advanced == WidthFirstPlan(parts, fit, Axis("optimal", stock), table, most)
           rowPlan == RowPlanOf(parts, fit, stock, direction, baseline, inTime)
           nested == WithNested(solutions, rowPlan, fit, table, most)
           plan == PlanOf(fit, stock, solutions, rowPlan)
<1>1. table \in [Axes -> Lengths] /\ stock.qty \in Nat /\ Promised(solutions, parts, fit, axis, table) /\ Listed(items)
  BY DEF VacuumInput
<1>2. axis \in Axes
  BY DEF Axis, Axes
<1>3. parts \in Seq(PartTypes)
  BY <1>1, PartsOfAre
<1>4. fit \in Seq(1 .. Len(parts)) /\ Distinct(fit) /\ EachFits(parts, Elements(fit), axis, table)
  BY <1>2, <1>3, FittingPartsAre
<1>5. most \in Nat
  BY <1>1, <1>4, MaxLoadsIs
<1>6. baseline = LegacyPlan(parts, fit, axis, table, most)
  BY DEF Baseline
<1>7. rowPlan = IF direction = "optimal" /\ inTime /\ PlanValid(advanced, fit) /\ WidthFirstBetter(advanced, baseline)
                THEN advanced ELSE baseline
  BY DEF RowPlanOf
<1>8. plan = IF fit = <<>> THEN rowPlan ELSE nested
  BY DEF PlanOf
<1>18. direction = "optimal" => advanced = WidthFirstPlan(parts, fit, axis, table, most)
  OBVIOUS
<1> HIDE DEF parts, table, fit, most, axis, advanced
<1>9. direction = "optimal" => PlanDrawn(advanced, parts, fit, table, most)
  BY <1>1, <1>2, <1>3, <1>4, <1>5, <1>18, WidthFirstPlanIs
<1>10. PlanSound(baseline, parts, fit, table, most)
  BY <1>1, <1>2, <1>3, <1>4, <1>5, <1>6, LegacyPlanIs
<1>11. baseline.axis = axis /\ (direction = "optimal" => advanced.axis = axis)
  BY <1>6, <1>18, AxesKept
<1> HIDE DEF baseline, advanced, nested
<1>12. NoWorse(baseline, baseline)
  BY <1>10, MeritsTyped, NoneBeatsItself DEF NoWorse
<1>13. PlanSound(rowPlan, parts, fit, table, most) /\ rowPlan.axis = axis /\ NoWorse(rowPlan, baseline)
  BY <1>9, ValidSound, <1>10, WidthFirstRates, <1>11, <1>12, <1>7
<1> HIDE DEF rowPlan
<1>14. Promised(solutions, parts, fit, rowPlan.axis, table)
  BY <1>1, <1>13
<1>15. /\ PlanSound(nested, parts, fit, table, most) /\ nested.axis = axis
       /\ nested = rowPlan \/ NoWorse(nested, rowPlan)
  BY <1>1, <1>4, <1>5, <1>13, <1>14, WithNestedIs DEF nested
<1>16. NoWorse(nested, baseline)
  BY <1>13, <1>15, MeritsTyped, <1>10, NoWorseOn
<1> HIDE DEF plan
<1>17. PlanSound(plan, parts, fit, table, most) /\ plan.axis = axis /\ NoWorse(plan, baseline)
  BY <1>8, <1>13, <1>15, <1>16
<1> QED
  BY <1>17 DEF plan, parts, table, fit, most, axis, rowPlan, baseline

\* The loads of a sound plan can be pressed.
LEMMA SoundLoads ==
    ASSUME NEW loads \in Seq(NumberedSheets), NEW parts, NEW ids, NEW table,
           \A k \in 1 .. Len(loads) : LoadDrawn(loads[k], parts, ids, table) /\ OnSheet(loads[k]), OnceInPlan(loads)
    PROVE  /\ KerfClear(loads)
           /\ \A k \in DOMAIN loads : OnSheet(loads[k]) /\ loads[k].pieces # <<>>
           /\ \A i \in DOMAIN PiecesIn(loads) :
                 PiecesIn(loads)[i].size \in Range(Orientations(parts[PiecesIn(loads)[i].id]))
           /\ IsInjective([i \in DOMAIN PiecesIn(loads) |-> PiecesIn(loads)[i].id])
<1> DEFINE flat == PiecesIn(loads)
<1>1. DOMAIN loads = 1 .. Len(loads)
  BY LenProperties
<1>2. flat \in Seq(Numbered) /\ Gathered(loads, flat) /\ DOMAIN flat = 1 .. Len(flat)
  BY PiecesInIs
<1> HIDE DEF flat
<1>3. \A k \in 1 .. Len(loads) :
        /\ loads[k].pieces \in Seq(Numbered) /\ loads[k].pieces # <<>>
        /\ Clear(loads[k].pieces) /\ Alike(parts, loads[k].pieces)
  BY DEF LoadDrawn, NumberedSheets
<1>4. KerfClear(loads)
  <2>1. ASSUME NEW k \in 1 .. Len(loads)
        PROVE  \A ij \in Pairs(loads[k].pieces) : ~TooClose(loads[k].pieces[ij[1]], loads[k].pieces[ij[2]])
    <3> DEFINE pieces == loads[k].pieces
    <3>1. pieces \in Seq(Numbered) /\ Clear(pieces)
      BY <1>3
    <3> HIDE DEF pieces
    <3>2. \A ij \in Pairs(pieces) : ~TooClose(pieces[ij[1]], pieces[ij[2]])
      BY <3>1, PairsOfPieces
    <3> QED
      BY <3>2 DEF pieces
  <2> QED
    BY <1>1, <2>1 DEF KerfClear
<1>5. ASSUME NEW i \in 1 .. Len(flat) PROVE flat[i].size \in Range(Orientations(parts[flat[i].id]))
  BY <1>2, <1>3 DEF Gathered, Alike
<1>6. OnceEach(flat)
  BY <1>2 DEF Gathered
<1>7. IsInjective([i \in DOMAIN flat |-> flat[i].id])
  BY <1>2, <1>6, OnceInjective
<1> QED
  BY <1>1, <1>2, <1>3, <1>4, <1>5, <1>7 DEF flat

\* So does a sound plan with what it leaves out.
LEMMA SoundHolds ==
    ASSUME NEW plan, NEW parts \in Seq(PartTypes), NEW stock, stock.qty \in Nat, NEW fit \in Seq(1 .. Len(parts)),
           PlanSound(plan, parts, fit, stock.table, MaxLoads(stock, fit)),
           Elements(fit) = {id \in 1 .. Len(parts) : Fitting(parts[id], 1, stock.table[1], stock.table[2]) # {}}
    PROVE  LayoutHolds(plan.loads, Unplaced(parts, fit, plan, ReasonOf(stock, plan)), parts, stock)
<1> DEFINE loads == plan.loads
           left == plan.left
           most == MaxLoads(stock, fit)
           flat == PiecesIn(loads)
           ids == [i \in DOMAIN flat |-> flat[i].id]
           reason == ReasonOf(stock, plan)
           unplaced == Unplaced(parts, fit, plan, reason)
<1>1. /\ loads \in Seq(NumberedSheets) /\ left \in Seq(Elements(fit)) /\ OnceInPlan(loads)
      /\ \A k \in 1 .. Len(loads) : LoadDrawn(loads[k], parts, Elements(fit), stock.table) /\ OnSheet(loads[k])
      /\ \A id \in Elements(fit) : id \in Elements(left) <=> ~Present(loads, id)
      /\ Len(loads) <= most /\ (left # <<>> => Len(loads) = most)
  BY DEF PlanSound
<1>2. IF stock.qty > 0 THEN most = stock.qty ELSE most >= Len(fit) /\ most \in Nat
  BY MaxLoadsIs
<1>3. left # <<>> => stock.qty > 0
  <2>1. ASSUME left # <<>>, ~(stock.qty > 0) PROVE FALSE
    <3>1. Len(loads) = most /\ most >= Len(fit)
      BY <1>1, <1>2, <2>1
    <3>2. Len(plan.loads) >= Len(fit)
      BY <3>1
    <3>3. plan.left = <<>>
      <4> HIDE DEF most
      <4> QED
        BY <3>2, LoadsSuffice
    <3> QED
      BY <2>1, <3>3
  <2> QED
    BY <2>1
<1>4. unplaced = [id \in (DOMAIN parts \ Range(fit)) \cup Range(left) |-> IF id \in Range(fit) THEN reason ELSE "oversized"]
  BY DEF Unplaced
<1>5. reason = IF stock.qty > 0 /\ Len(loads) >= stock.qty THEN "qty_limit" ELSE "no_space"
  BY DEF ReasonOf
<1> HIDE DEF loads, left, most, unplaced, reason
<1>6. DOMAIN parts = 1 .. Len(parts) /\ Range(fit) = Elements(fit) /\ Range(left) = Elements(left)
  BY <1>1, LenProperties DEF Range, Elements
<1>7. /\ DOMAIN unplaced = (DOMAIN parts \ Range(fit)) \cup Range(left)
      /\ \A id \in DOMAIN unplaced : unplaced[id] = IF id \in Range(fit) THEN reason ELSE "oversized"
  BY <1>4
<1>8. Elements(left) \subseteq Elements(fit) /\ Elements(fit) \subseteq 1 .. Len(parts)
  BY <1>1, InElements
<1>9. flat \in Seq(Numbered) /\ Gathered(loads, flat) /\ DOMAIN flat = 1 .. Len(flat)
  BY <1>1, PiecesInIs
<1>10. /\ KerfClear(loads)
       /\ \A k \in DOMAIN loads : OnSheet(loads[k]) /\ loads[k].pieces # <<>>
       /\ \A i \in DOMAIN flat : flat[i].size \in Range(Orientations(parts[flat[i].id]))
       /\ IsInjective(ids)
  BY <1>1, SoundLoads
<1> HIDE DEF flat
<1>11. \A i \in DOMAIN flat : ids[i] = flat[i].id
  OBVIOUS
<1>12. \A id : id \in Range(ids) <=> Present(loads, id)
  BY <1>9 DEF Range, HasId, Gathered
<1>13. \A id : Present(loads, id) => id \in Elements(fit)
  BY <1>1 DEF Present, LoadDrawn
<1> HIDE DEF ids
<1>14. DOMAIN unplaced = DOMAIN parts \ Range(ids)
  BY <1>1, <1>6, <1>7, <1>8, <1>12, <1>13
<1>15. Len(loads) \in Nat
  BY <1>1, LenProperties
<1>16. stock.qty > 0 => Len(loads) <= stock.qty
  BY <1>1, <1>2
<1>17. ASSUME NEW id \in DOMAIN unplaced
       PROVE  \/ unplaced[id] = "oversized" /\ Fitting(parts[id], 1, stock.table[1], stock.table[2]) = {}
              \/ unplaced[id] = "qty_limit" /\ Len(loads) = stock.qty
  <2>1. CASE id \notin Range(fit)
    BY <1>6, <1>7, <1>8, <2>1
  <2>2. CASE id \in Range(fit)
    <3>1. id \in Elements(left) /\ unplaced[id] = reason
      BY <1>6, <1>7, <2>2
    <3>2. left # <<>>
      BY <3>1 DEF Elements
    <3>3. stock.qty > 0 /\ Len(loads) = stock.qty
      BY <1>1, <1>2, <1>3, <3>2
    <3>4. reason = "qty_limit"
      BY <1>5, <1>15, <3>3
    <3> QED
      BY <3>1, <3>3, <3>4
  <2> QED
    BY <2>1, <2>2
<1>18. LayoutHolds(loads, unplaced, parts, stock)
  BY <1>10, <1>11, <1>14, <1>16, <1>17 DEF flat, ids, PiecesIn, LayoutHolds
<1> QED
  BY <1>18 DEF loads, unplaced, reason

\* What run_vacuum_layout answers with.
LEMMA VacuumLayoutIs ==
    ASSUME NEW items, NEW stock, NEW direction, NEW solutions, NEW inTime,
           VacuumInput(items, stock, direction, solutions)
    PROVE  LET baseline == Baseline(items, stock, direction)
               layout == VacuumLayout(items, stock, direction, solutions, inTime,
                                      baseline, WidthFirst(items, stock))
           IN  /\ LayoutHolds(layout.loads, layout.unplaced, PartsOf(items), stock)
               /\ NoWorse(layout, baseline)
<1> DEFINE parts == PartsOf(items)
           fit == FittingParts(items, stock.table)
           baseline == Baseline(items, stock, direction)
           plan == PlanOf(fit, stock, solutions, RowPlanOf(parts, fit, stock, direction, baseline, inTime))
           axis == Axis(direction, stock)
           layout == VacuumLayout(items, stock, direction, solutions, inTime,
                                  baseline, WidthFirst(items, stock))
           unplaced == Unplaced(parts, fit, plan, ReasonOf(stock, plan))
<1>1. layout = [loads |-> plan.loads, axis |-> axis, unplaced |-> unplaced]
  BY Zenon DEF VacuumLayout, WidthFirst, PlanOf, RowPlanOf, Unplaced, ReasonOf
<1>2. /\ PlanSound(plan, parts, fit, stock.table, MaxLoads(stock, fit))
      /\ plan.axis = axis /\ NoWorse(plan, baseline)
  BY PlanOfIs
<1> HIDE DEF plan
<1>3. stock.qty \in Nat /\ Listed(items)
  BY DEF VacuumInput
<1>4. parts \in Seq(PartTypes)
  BY <1>3, PartsOfAre
<1>5. /\ fit \in Seq(1 .. Len(parts))
      /\ Elements(fit) = {id \in 1 .. Len(parts) : Fitting(parts[id], 1, stock.table[1], stock.table[2]) # {}}
  <2>1. 1 \in Axes
    BY DEF Axes
  <2> QED
    BY <1>4, <2>1, FittingPartsAre
<1> HIDE DEF parts, fit
<1>6. LayoutHolds(plan.loads, unplaced, parts, stock)
  BY <1>2, <1>3, <1>4, <1>5, SoundHolds
<1> HIDE DEF unplaced, layout, axis, baseline
<1>7. layout.loads = plan.loads /\ layout.axis = plan.axis /\ layout.unplaced = unplaced
  BY <1>1, <1>2
<1>8. Rating(layout) = Rating(plan)
  BY <1>7 DEF Rating, PlacedCount, Feed
<1>9. NoWorse(layout, baseline)
  BY <1>2, <1>8 DEF NoWorse
<1> QED
  BY <1>6, <1>7, <1>9 DEF layout, parts, baseline

\* What is answered to a request for the vacuum table: a layout of it.
Table(items, stock, direction, solutions) ==
    {VacuumLayout(items, stock, direction, solutions, inTime, Baseline(items, stock, direction),
                  WidthFirst(items, stock)) : inTime \in BOOLEAN}
TableInv ==
    OnTable =>
        /\ request \in VacuumRequests
        /\ answer.response \in Table(request.items, request.stock[1], request.direction, request.solutions)

-----------------------------------------------------------------------------
(* What requests for the table are answered                                *)

\* The planners are those of VacuumTable.
LEMMA PlannersRun ==
    ASSUME NEW r \in VacuumRequests
    PROVE  /\ LegacyLayout(r) = Baseline(r.items, r.stock[1], r.direction)
           /\ \A inTime \in BOOLEAN : TableLayout(r, inTime) \in Table(r.items, r.stock[1], r.direction, r.solutions)
<1>1. RunBaseline(r.items, r.stock[1], r.direction) = Baseline(r.items, r.stock[1], r.direction)
  <2> DEFINE input == <<r.items, r.stock[1], r.direction>>
  <2>1. RunBaseline(input[1], input[2], input[3]) = Baseline(input[1], input[2], input[3])
    BY PlannersAssumption DEF PlannersAssumption
  <2>2. input[1] = r.items /\ input[2] = r.stock[1] /\ input[3] = r.direction
    OBVIOUS
  <2> HIDE DEF input
  <2> QED
    BY <2>1, <2>2
<1>2. RunWidthFirst(r.items, r.stock[1]) = WidthFirst(r.items, r.stock[1])
  <2> DEFINE input == <<r.items, r.stock[1]>>
  <2>1. RunWidthFirst(input[1], input[2]) = WidthFirst(input[1], input[2])
    BY PlannersAssumption DEF PlannersAssumption
  <2>2. input[1] = r.items /\ input[2] = r.stock[1]
    OBVIOUS
  <2> HIDE DEF input
  <2> QED
    BY <2>1, <2>2
<1> QED
  BY <1>1, <1>2 DEF LegacyLayout, TableLayout, Table

\* Requests for the table go to the vacuum layout or are refused.
LEMMA TableSteps ==
    ASSUME IInv, Next
    PROVE  \/ Reject \/ Vacuum \/ UNCHANGED vars
           \/ request' = request /\ request.layout # "vacuum_table"
<1>1. Done => UNCHANGED vars
  BY DEF Done
<1>2. EnterPool \/ SolveAlone => request' = request /\ request.layout # "vacuum_table"
  BY DEF EnterPool, SolveAlone
<1>3. \A result : Return(result) => request' = request
  BY DEF Return, Record, Answer
<1>4. PrepareFails \/ NothingToPlace \/ Partition \/ StartSearch \/ SearchReturns
          => request' = request /\ pc \in {"solve", "search", "await"}
  BY <1>3 DEF PrepareFails, NothingToPlace, Partition, StartSearch, SearchReturns, Solvable, Answer
<1>5. StartCandidate \/ PoolFails \/ BaseDone \/ PickWinner => request' = request /\ pc = "pool"
  BY DEF StartCandidate, PoolFails, BaseDone, PickWinner, Answer
<1>6. pc \in {"solve", "search", "await", "pool"} => request.layout # "vacuum_table"
  BY DEF IInv, Phases
<1> QED
  BY <1>1, <1>2, <1>4, <1>5, <1>6 DEF Next

\* So they are answered with a layout, if with any.
LEMMA TableStep == IInv /\ TableInv /\ [Next]_vars => TableInv'
<1> SUFFICES ASSUME IInv, TableInv, [Next]_vars PROVE TableInv'
  OBVIOUS
<1>1. CASE Reject
  BY <1>1 DEF Reject, Answer, Error, Verdict, TableInv, OnTable
<1>2. CASE Vacuum
  <2>1. request \in VacuumRequests /\ request' = request
    BY <1>2 DEF IInv, Phases, Vacuum, Accepted, Answer, VacuumRequests
  <2>2. CASE Answer(Error("constraint"))
    BY <2>2 DEF Answer, Error, TableInv, OnTable
  <2>3. CASE \E layout \in Table(request.items, request.stock[1], request.direction, request.solutions) :
                 Answer(Ok(layout))
    BY <2>1, <2>3 DEF Answer, Ok, TableInv
  <2> QED
    BY <1>2, <2>1, <2>2, <2>3, PlannersRun DEF Vacuum
<1>3. CASE UNCHANGED vars
  BY <1>3 DEF vars, TableInv, OnTable
<1>4. CASE request' = request /\ request.layout # "vacuum_table"
  BY <1>4 DEF TableInv, OnTable
<1> QED
  BY <1>1, <1>2, <1>3, <1>4, TableSteps

\* In every state.
LEMMA TableInvariance == Spec => []TableInv
<1>1. Init => TableInv
  BY DEF Init, TableInv, OnTable
<1>2. IInv /\ TableInv /\ [Next]_vars => TableInv'
  BY TableStep
<1> QED
  BY <1>1, <1>2, Invariance, PTL DEF Spec

\* The requests a layout is made for are such that it is right.
LEMMA TableInput ==
    ASSUME NEW r \in VacuumRequests
    PROVE  VacuumInput(r.items, r.stock[1], r.direction, r.solutions)
<1> DEFINE items == r.items
           stock == r.stock[1]
           solutions == r.solutions
           parts == PartsOf(items)
           fit == FittingParts(items, stock.table)
           axis == Axis(r.direction, stock)
<1>1. /\ items \in Seq([qty : Nat, sized : BOOLEAN, size : [Axes -> Lengths], turn : BOOLEAN])
      /\ stock.table \in [Axes -> Lengths] /\ stock.qty \in Nat
      /\ solutions \in Seq(Solutions)
      /\ \A n \in DOMAIN solutions : Nesting(solutions[n], parts, fit, axis, stock.table)
  BY VacuumAssumption DEF VacuumAssumption
<1> HIDE DEF items, stock, solutions, parts, fit, axis
<1>2. Listed(items)
  <2> DEFINE T == [qty : Nat, sized : BOOLEAN, size : [Axes -> Lengths], turn : BOOLEAN]
  <2>1. \A t \in T : t.qty \in Nat /\ t.size \in [Axes -> Lengths] /\ t.turn \in BOOLEAN
    OBVIOUS
  <2>2. items \in Seq(T)
    BY <1>1
  <2> HIDE DEF T
  <2>3. DOMAIN items = 1 .. Len(items) /\ Len(items) \in Nat /\ \A i \in 1 .. Len(items) : items[i] \in T
    BY <2>2, LenProperties, ElementOfSeq
  <2> QED
    BY <2>1, <2>3 DEF Listed
<1>3. Promised(solutions, parts, fit, axis, stock.table)
  BY <1>1, LenProperties DEF Promised
<1> QED
  BY <1>1, <1>2, <1>3 DEF VacuumInput, items, stock, solutions, parts, fit, axis

\* A vacuum layout can be pressed, whichever planner made it.
THEOREM VacuumRight == Spec => []VacuumHolds
<1>1. TableInv => VacuumHolds
  <2> SUFFICES ASSUME TableInv, OnTable PROVE VacuumHolds
    BY DEF VacuumHolds
  <2> DEFINE layout == answer.response
  <2>1. /\ request \in VacuumRequests
        /\ layout \in Table(request.items, request.stock[1], request.direction, request.solutions)
    BY DEF TableInv
  <2> HIDE DEF layout
  <2>2. LayoutHolds(layout.loads, layout.unplaced, PartsOf(request.items), request.stock[1])
    BY <2>1, TableInput, VacuumLayoutIs DEF Table
  <2> QED
    BY <2>2 DEF VacuumHolds, LayoutHolds, layout
<1> QED
  BY <1>1, TableInvariance, PTL

\* And no layout is worse than the legacy one.
THEOREM VacuumNoWorse == Spec => []VacuumNeverWorse
<1>1. TableInv => VacuumNeverWorse
  <2> SUFFICES ASSUME TableInv, OnTable PROVE VacuumNeverWorse
    BY DEF VacuumNeverWorse
  <2> DEFINE layout == answer.response
             baseline == Baseline(request.items, request.stock[1], request.direction)
  <2>1. /\ request \in VacuumRequests
        /\ layout \in Table(request.items, request.stock[1], request.direction, request.solutions)
    BY DEF TableInv
  <2> HIDE DEF layout
  <2>2. NoWorse(layout, baseline)
    BY <2>1, TableInput, VacuumLayoutIs DEF Table
  <2>3. LegacyLayout(request) = baseline
    BY <2>1, PlannersRun
  <2> HIDE DEF baseline
  <2>4. VacuumNeverWorse <=> NoWorse(layout, baseline)
    BY <2>3 DEF VacuumNeverWorse, NoWorse, Rating, layout
  <2> QED
    BY <2>2, <2>4
<1> QED
  BY <1>1, TableInvariance, PTL
=============================================================================
