---------------------------- MODULE PlacingProofs ----------------------------
(***************************************************************************)
(* Theorems about Placing, for every solution set of plans that can be     *)
(* cut, every blade and every limit: compaction and the guard hand on      *)
(* plans that can be cut, at rest, with a corner remnant no smaller than   *)
(* the engine's; the pick is the first of the best, and rejections stand;  *)
(* a group shift of a plan that can be cut stays on the sheet and puts no  *)
(* piece on another.  And for all parts that fit their sheet: what the     *)
(* constructors make of them can be cut, has no part twice, none turned    *)
(* that must not be, and all of them when all were asked for.              *)
(***************************************************************************)
EXTENDS Placing, SheetSets, SequenceTheorems, FiniteSetTheorems, WellFoundedInduction, TLAPS

-----------------------------------------------------------------------------
(* Numbers and sequences                                                   *)

\* Of natural numbers one is the least.
LEMMA LeastNumber ==
    ASSUME NEW S, S \subseteq Nat, S # {}
    PROVE  \E m \in S : \A k \in S : m <= k
<1>1. PICK m \in S : \A k \in S : ~(<<k, m>> \in OpToRel(<, Nat))
  BY NatLessThanWellFounded, WFMin, Zenon
<1>2. \A k \in S : ~(k < m)
  <2> SUFFICES ASSUME NEW k \in S, k < m PROVE FALSE
    OBVIOUS
  <2>1. <<k, m>> \in Nat \X Nat
    OBVIOUS
  <2>2. <<k, m>>[1] = k /\ <<k, m>>[2] = m
    OBVIOUS
  <2>3. <<k, m>> \in OpToRel(<, Nat)
    BY <2>1, <2>2, Zenon DEF OpToRel
  <2> QED
    BY <1>1, <2>3, Zenon
<1> QED
  BY <1>2

\* The least of some natural numbers is one of them.
LEMMA MinOf ==
    ASSUME NEW S, S \subseteq Nat, S # {}
    PROVE  Min(S) \in S /\ \A k \in S : Min(S) <= k
<1>1. \E m \in S : \A k \in S : m <= k
  BY LeastNumber
<1> QED
  BY <1>1 DEF Min

\* The greatest of some numbers that have a bound is one of them.
LEMMA MaxOf ==
    ASSUME NEW S, S \subseteq Int, S # {}, NEW bound \in Int, \A k \in S : k <= bound
    PROVE  Max(S) \in S /\ \A k \in S : Max(S) >= k
<1> DEFINE T == {n \in Nat : \E k \in S : n = bound - k}
<1>1. T \subseteq Nat /\ T # {}
  <2>1. PICK k \in S : TRUE
    OBVIOUS
  <2>2. bound - k \in T
    OBVIOUS
  <2> QED
    BY <2>2
<1>2. PICK n \in T : \A l \in T : n <= l
  <2> HIDE DEF T
  <2> QED
    BY <1>1, LeastNumber
<1>3. PICK m \in S : n = bound - m
  BY <1>2
<1>4. \A k \in S : m >= k
  <2> SUFFICES ASSUME NEW k \in S PROVE m >= k
    OBVIOUS
  <2>1. bound - k \in T
    OBVIOUS
  <2>2. n <= bound - k /\ k \in Int /\ m \in Int
    BY <1>2, <2>1
  <2> QED
    BY <1>3, <2>2
<1> QED
  BY <1>4 DEF Max

\* A larger factor makes a larger product.
LEMMA ProductsGrow ==
    ASSUME NEW a \in Nat, NEW b \in Nat, NEW c \in Nat, NEW d \in Nat, a <= c, b <= d
    PROVE  a * b \in Nat /\ c * d \in Nat /\ a * b <= c * d
<1>1. a * b \in Nat /\ c * b \in Nat /\ a * b <= c * b
  BY Z3
<1>2. c * d \in Nat /\ c * b <= c * d
  BY Z3
<1> QED
  BY <1>1, <1>2

\* So a number whose square is not below another's is not below it.
LEMMA SquaresGrow ==
    ASSUME NEW a \in Nat, NEW b \in Nat, ~(a * a + 0 * 0 < b * b)
    PROVE  a >= b
<1> SUFFICES ASSUME a < b PROVE FALSE
  OBVIOUS
<1>1. a * a < b * b
  BY Z3
<1>2. a * a \in Nat /\ b * b \in Nat
  BY ProductsGrow
<1> QED
  BY <1>1, <1>2

\* A sequence with one element changed.
LEMMA Changed ==
    ASSUME NEW S, NEW seq \in Seq(S), NEW i \in DOMAIN seq, NEW e \in S
    PROVE  /\ [seq EXCEPT ![i] = e] \in Seq(S)
           /\ Len([seq EXCEPT ![i] = e]) = Len(seq)
           /\ DOMAIN [seq EXCEPT ![i] = e] = DOMAIN seq
           /\ \A j \in DOMAIN seq : [seq EXCEPT ![i] = e][j] = IF j = i THEN e ELSE seq[j]
<1>1. DOMAIN seq = 1..Len(seq)
  BY LenProperties
<1> QED
  BY <1>1, ExceptSeq

-----------------------------------------------------------------------------
(* Pieces                                                                  *)

\* Where a piece begins and ends.
LEMMA PieceNumbers ==
    ASSUME NEW p \in Pieces, NEW a \in Axes
    PROVE  /\ p.at \in [Axes -> Nat] /\ p.size \in [Axes -> Lengths]
           /\ p.size[a] \in Nat /\ p.size[a] > 0
           /\ Lo(p, a) \in Nat /\ Hi(p, a) \in Nat /\ Lo(p, a) < Hi(p, a)
           /\ Hi(p, a) = Lo(p, a) + p.size[a]
<1>1. p.at \in [Axes -> Nat] /\ p.size \in [Axes -> Lengths]
  BY DEF Pieces
<1>2. p.at[a] \in Nat /\ p.size[a] \in Lengths
  BY <1>1
<1> QED
  BY <1>1, <1>2 DEF Lo, Hi, Lengths

\* A piece that is put somewhere else along one axis.
LEMMA PieceMoved ==
    ASSUME NEW p \in Pieces, NEW a \in Axes, NEW n \in Nat
    PROVE  LET q == [p EXCEPT !.at[a] = n]
           IN  /\ q \in Pieces /\ q.size = p.size
               /\ Lo(q, a) = n /\ Hi(q, a) = n + p.size[a]
               /\ \A b \in Axes : b # a => Lo(q, b) = Lo(p, b) /\ Hi(q, b) = Hi(p, b)
<1> DEFINE q == [p EXCEPT !.at[a] = n]
           spot == [p.at EXCEPT ![a] = n]
<1>1. p.at \in [Axes -> Nat] /\ p.size \in [Axes -> Lengths]
  BY PieceNumbers
<1>2. spot \in [Axes -> Nat] /\ spot[a] = n /\ \A b \in Axes : b # a => spot[b] = p.at[b]
  BY <1>1
<1>3. q \in Pieces /\ q.at = spot /\ q.size = p.size
  <2>1. q = [p EXCEPT !.at = spot]
    OBVIOUS
  <2> HIDE DEF spot, q
  <2>2. CASE p \in [at : [Axes -> Nat], size : [Axes -> Lengths]]
    <3>1. q = [at |-> spot, size |-> p.size]
      BY <2>1, <2>2
    <3> QED
      BY <1>1, <1>2, <3>1 DEF Pieces
  <2>3. CASE p \in [id : Nat, at : [Axes -> Nat], size : [Axes -> Lengths]]
    <3>1. q = [id |-> p.id, at |-> spot, size |-> p.size] /\ p.id \in Nat
      BY <2>1, <2>3
    <3> QED
      BY <1>1, <1>2, <3>1 DEF Pieces
  <2> QED
    BY <2>2, <2>3 DEF Pieces
<1> HIDE DEF q, spot
<1> QED
  BY <1>2, <1>3 DEF Lo, Hi, q

\* The other axis.
LEMMA AcrossAxis == \A a \in Axes : Across(a) \in Axes /\ Across(a) # a /\ \A b \in Axes : b = a \/ b = Across(a)
BY DEF Axes, Across

\* The gap between two pieces.
LEMMA GapNumber ==
    ASSUME NEW p \in Pieces, NEW q \in Pieces, NEW a \in Axes
    PROVE  /\ Gap(p, q, a) \in Nat /\ Gap(q, p, a) = Gap(p, q, a)
           /\ Meet(p, q, a) => Gap(p, q, a) = 0
           /\ ~Meet(p, q, a) => \/ Gap(p, q, a) = Lo(q, a) - Hi(p, a)
                                \/ Gap(p, q, a) = Lo(p, a) - Hi(q, a)
           /\ Gap(p, q, a) >= Lo(q, a) - Hi(p, a) /\ Gap(p, q, a) >= Lo(p, a) - Hi(q, a)
<1> DEFINE x == Lo(q, a) - Hi(p, a)
           y == Lo(p, a) - Hi(q, a)
           S == {0, x, y}
<1>1. /\ Lo(p, a) \in Nat /\ Hi(p, a) \in Nat /\ Lo(p, a) < Hi(p, a)
      /\ Lo(q, a) \in Nat /\ Hi(q, a) \in Nat /\ Lo(q, a) < Hi(q, a)
  BY PieceNumbers
<1>2. x \in Int /\ y \in Int
  BY <1>1
<1>3. \E bound \in Int : \A k \in S : k <= bound
  <2> HIDE DEF x, y
  <2>1. CASE x <= 0 /\ y <= 0
    BY <1>2, <2>1
  <2>2. CASE x > 0 /\ y <= x
    BY <1>2, <2>2
  <2>3. CASE y > 0 /\ x <= y
    BY <1>2, <2>3
  <2> QED
    BY <1>2, <2>1, <2>2, <2>3
<1>4. S \subseteq Int /\ S # {}
  BY <1>2
<1>5. Max(S) \in S /\ \A k \in S : Max(S) >= k
  <2> HIDE DEF S
  <2> QED
    BY <1>3, <1>4, MaxOf
<1>6. Gap(p, q, a) = Max(S)
  BY DEF Gap
<1>7. Gap(q, p, a) = Max(S)
  <2>1. Gap(q, p, a) = Max({0, y, x})
    BY DEF Gap
  <2>2. {0, y, x} = S
    OBVIOUS
  <2> QED
    BY <2>1, <2>2
<1>8. Max(S) \in {0, x, y} /\ Max(S) >= 0 /\ Max(S) >= x /\ Max(S) >= y
  BY <1>5
<1> DEFINE g == Max(S)
<1> HIDE DEF g
<1>9. g \in Int /\ g >= 0 /\ g >= x /\ g >= y /\ (g = 0 \/ g = x \/ g = y)
  BY <1>2, <1>8 DEF g
<1>10. g \in Nat /\ g >= Lo(q, a) - Hi(p, a) /\ g >= Lo(p, a) - Hi(q, a)
  BY <1>9
<1>11. Meet(p, q, a) => g = 0
  BY <1>1, <1>9 DEF Meet
<1>12. ~Meet(p, q, a) => g = Lo(q, a) - Hi(p, a) \/ g = Lo(p, a) - Hi(q, a)
  BY <1>1, <1>9 DEF Meet
<1> HIDE DEF S, x, y
<1> QED
  BY <1>6, <1>7, <1>10, <1>11, <1>12 DEF g

\* It does not matter which of two pieces comes first.
LEMMA Symmetric ==
    ASSUME NEW p \in Pieces, NEW q \in Pieces
    PROVE  (Overlap(p, q) <=> Overlap(q, p)) /\ (TooClose(p, q) <=> TooClose(q, p))
<1>1. Overlap(p, q) <=> Overlap(q, p)
  BY DEF Overlap, Meet
<1>2. 1 \in Axes /\ 2 \in Axes
  BY DEF Axes
<1>3. Gap(p, q, 1) = Gap(q, p, 1) /\ Gap(p, q, 2) = Gap(q, p, 2)
  BY <1>2, GapNumber
<1> QED
  BY <1>1, <1>3, Zenon DEF TooClose

\* What holds of the pairs of a sheet holds of its pieces.
LEMMA PairsOfPieces ==
    ASSUME NEW pieces \in Seq(Pieces)
    PROVE  /\ (\A ij \in Pairs(pieces) : ~Overlap(pieces[ij[1]], pieces[ij[2]])) <=> Apart(pieces)
           /\ (\A ij \in Pairs(pieces) : ~TooClose(pieces[ij[1]], pieces[ij[2]])) <=> Clear(pieces)
<1>1. DOMAIN pieces = 1..Len(pieces) /\ Len(pieces) \in Nat
  BY LenProperties
<1>2. \A i \in DOMAIN pieces : pieces[i] \in Pieces
  BY <1>1, ElementOfSeq
<1>3. ASSUME NEW i \in DOMAIN pieces, NEW j \in DOMAIN pieces, i < j
      PROVE  <<i, j>> \in Pairs(pieces) /\ <<i, j>>[1] = i /\ <<i, j>>[2] = j
  BY <1>3 DEF Pairs
<1>4. \A i, j \in DOMAIN pieces : i # j => i < j \/ j < i
  BY <1>1
<1>5. \A ij \in Pairs(pieces) : ij[1] \in DOMAIN pieces /\ ij[2] \in DOMAIN pieces /\ ij[1] # ij[2]
  BY <1>1 DEF Pairs
<1>6. ASSUME \A ij \in Pairs(pieces) : ~Overlap(pieces[ij[1]], pieces[ij[2]])
      PROVE  Apart(pieces)
  <2>1. ASSUME NEW i \in DOMAIN pieces, NEW j \in DOMAIN pieces, i < j
        PROVE  ~Overlap(pieces[i], pieces[j]) /\ ~Overlap(pieces[j], pieces[i])
    <3> DEFINE ij == <<i, j>>
    <3>0. ij \in Pairs(pieces) /\ ij[1] = i /\ ij[2] = j
      BY <1>3, <2>1
    <3> HIDE DEF ij
    <3>1. ~Overlap(pieces[i], pieces[j])
      BY <1>6, <3>0, Zenon
    <3> QED
      BY <1>2, <3>1, Symmetric
  <2> QED
    BY <1>4, <2>1 DEF Apart
<1>7. ASSUME \A ij \in Pairs(pieces) : ~TooClose(pieces[ij[1]], pieces[ij[2]])
      PROVE  Clear(pieces)
  <2>1. ASSUME NEW i \in DOMAIN pieces, NEW j \in DOMAIN pieces, i < j
        PROVE  ~TooClose(pieces[i], pieces[j]) /\ ~TooClose(pieces[j], pieces[i])
    <3> DEFINE ij == <<i, j>>
    <3>0. ij \in Pairs(pieces) /\ ij[1] = i /\ ij[2] = j
      BY <1>3, <2>1
    <3> HIDE DEF ij
    <3>1. ~TooClose(pieces[i], pieces[j])
      BY <1>7, <3>0, Zenon
    <3> QED
      BY <1>2, <3>1, Symmetric
  <2> QED
    BY <1>4, <2>1 DEF Clear
<1> QED
  BY <1>5, <1>6, <1>7 DEF Apart, Clear

-----------------------------------------------------------------------------
(* The slide of one piece                                                  *)

\* The pieces in the way of a piece that slides.
InTheWay(pieces, i, a) ==
    {k \in DOMAIN pieces \ {i} : /\ Meet(pieces[i], pieces[k], Across(a))
                                 /\ Hi(pieces[k], a) + Kerf <= Lo(pieces[i], a)}

\* A slide ends at the corner or at a piece in the way.
LEMMA BoundIs ==
    ASSUME NEW pieces \in Seq(Pieces), NEW i \in DOMAIN pieces, NEW a \in Axes
    PROVE  /\ Bound(pieces, i, a) \in Nat /\ Bound(pieces, i, a) <= Lo(pieces[i], a)
           /\ \A k \in InTheWay(pieces, i, a) : Hi(pieces[k], a) + Kerf <= Bound(pieces, i, a)
<1> DEFINE way == InTheWay(pieces, i, a)
           S == {0} \cup {Hi(pieces[k], a) + Kerf : k \in way}
           low == Lo(pieces[i], a)
<1>1. DOMAIN pieces = 1..Len(pieces) /\ \A k \in DOMAIN pieces : pieces[k] \in Pieces
  BY LenProperties, ElementOfSeq
<1>2. low \in Nat
  BY <1>1, PieceNumbers
<1>3. \A k \in way : Hi(pieces[k], a) + Kerf \in Nat /\ Hi(pieces[k], a) + Kerf <= low
  <2> SUFFICES ASSUME NEW k \in way
               PROVE  Hi(pieces[k], a) + Kerf \in Nat /\ Hi(pieces[k], a) + Kerf <= low
    OBVIOUS
  <2>1. k \in DOMAIN pieces /\ Hi(pieces[k], a) + Kerf <= low
    BY DEF InTheWay
  <2>2. Hi(pieces[k], a) \in Nat
    BY <1>1, <2>1, PieceNumbers
  <2> QED
    BY <2>1, <2>2, KerfAssumption
<1> HIDE DEF way, low
<1>4. S \subseteq Int /\ S # {} /\ \A n \in S : n <= low /\ n >= 0
  BY <1>2, <1>3
<1>5. Max(S) \in S /\ \A n \in S : Max(S) >= n
  <2>1. low \in Int /\ S \subseteq Int /\ S # {} /\ \A n \in S : n <= low
    BY <1>2, <1>4
  <2> HIDE DEF S
  <2> QED
    BY <2>1, MaxOf
<1>6. Max(S) \in Nat /\ Max(S) <= low
  BY <1>4, <1>5
<1>7. \A k \in way : Hi(pieces[k], a) + Kerf <= Max(S)
  BY <1>3, <1>5
<1>8. Bound(pieces, i, a) = Max(S)
  BY Zenon DEF Bound, S, way, InTheWay
<1> QED
  BY <1>6, <1>7, <1>8 DEF way, low

\* A slide moves one piece, nearer to the corner; no slide moves none.
LEMMA SlidIs ==
    ASSUME NEW pieces \in Seq(Pieces), NEW i \in DOMAIN pieces, NEW a \in Axes
    PROVE  LET new == Slid(pieces, i, a)
           IN  /\ new \in Seq(Pieces) /\ DOMAIN new = DOMAIN pieces /\ Len(new) = Len(pieces)
               /\ \A j \in DOMAIN pieces :
                     /\ new[j].size = pieces[j].size
                     /\ j # i => new[j] = pieces[j]
                     /\ \A b \in Axes : Lo(new[j], b) <= Lo(pieces[j], b) /\ Hi(new[j], b) <= Hi(pieces[j], b)
               /\ Lo(new[i], Across(a)) = Lo(pieces[i], Across(a))
               /\ Hi(new[i], Across(a)) = Hi(pieces[i], Across(a))
               /\ CanSlide(pieces, i, a) => Lo(new[i], a) = Bound(pieces, i, a)
               /\ ~CanSlide(pieces, i, a) => new = pieces
<1> DEFINE p == pieces[i]
           n == Bound(pieces, i, a)
           q == [p EXCEPT !.at[a] = n]
           new == Slid(pieces, i, a)
<1>1. DOMAIN pieces = 1..Len(pieces) /\ \A k \in DOMAIN pieces : pieces[k] \in Pieces
  BY LenProperties, ElementOfSeq
<1>2. \A j \in DOMAIN pieces : \A b \in Axes : Lo(pieces[j], b) \in Nat /\ Hi(pieces[j], b) \in Nat
  BY <1>1, PieceNumbers
<1>3. Across(a) \in Axes /\ Across(a) # a /\ \A b \in Axes : b = a \/ b = Across(a)
  BY AcrossAxis
<1>4. CASE ~CanSlide(pieces, i, a)
  <2>1. new = pieces
    BY <1>4 DEF Slid
  <2> QED
    BY <1>2, <1>4, <2>1
<1>5. CASE CanSlide(pieces, i, a)
  <2>1. p \in Pieces /\ n \in Nat /\ n < Lo(p, a)
    BY <1>1, <1>5, BoundIs DEF CanSlide
  <2>2. new = [pieces EXCEPT ![i] = q]
    BY <1>5 DEF Slid
  <2>3. /\ q \in Pieces /\ q.size = p.size
        /\ Lo(q, a) = n /\ Hi(q, a) = n + p.size[a]
        /\ \A b \in Axes : b # a => Lo(q, b) = Lo(p, b) /\ Hi(q, b) = Hi(p, b)
    <3> HIDE DEF p, n
    <3> QED
      BY <2>1, PieceMoved
  <2>4. Hi(p, a) = Lo(p, a) + p.size[a] /\ p.size[a] \in Nat /\ Lo(p, a) \in Nat
    BY <2>1, PieceNumbers
  <2> HIDE DEF q, new, n
  <2>5. /\ new \in Seq(Pieces) /\ DOMAIN new = DOMAIN pieces /\ Len(new) = Len(pieces)
        /\ \A j \in DOMAIN pieces : new[j] = IF j = i THEN q ELSE pieces[j]
    BY <2>2, <2>3, Changed
  <2>6. Hi(q, a) <= Hi(p, a) /\ Lo(q, a) <= Lo(p, a)
    BY <2>1, <2>3, <2>4
  <2>7. \A b \in Axes : Lo(q, b) <= Lo(p, b) /\ Hi(q, b) <= Hi(p, b)
    <3> SUFFICES ASSUME NEW b \in Axes PROVE Lo(q, b) <= Lo(p, b) /\ Hi(q, b) <= Hi(p, b)
      OBVIOUS
    <3>1. CASE b = a
      BY <2>6, <3>1
    <3>2. CASE b # a
      BY <1>2, <2>3, <3>2
    <3> QED
      BY <3>1, <3>2
  <2>8. \A j \in DOMAIN pieces : \A b \in Axes :
            Lo(new[j], b) <= Lo(pieces[j], b) /\ Hi(new[j], b) <= Hi(pieces[j], b)
    <3> SUFFICES ASSUME NEW j \in DOMAIN pieces, NEW b \in Axes
                 PROVE  Lo(new[j], b) <= Lo(pieces[j], b) /\ Hi(new[j], b) <= Hi(pieces[j], b)
      OBVIOUS
    <3>1. CASE j = i
      BY <2>5, <2>7, <3>1
    <3>2. CASE j # i
      BY <1>2, <2>5, <3>2
    <3> QED
      BY <3>1, <3>2
  <2>9. \A j \in DOMAIN pieces : new[j].size = pieces[j].size /\ (j # i => new[j] = pieces[j])
    BY <2>3, <2>5
  <2>10. Lo(new[i], a) = n /\ Lo(new[i], Across(a)) = Lo(p, Across(a)) /\ Hi(new[i], Across(a)) = Hi(p, Across(a))
    BY <1>3, <2>3, <2>5
  <2> QED
    BY <1>5, <2>5, <2>8, <2>9, <2>10 DEF new, n
<1> QED
  BY <1>4, <1>5

\* With a blade of no width a slide puts no piece on another.
LEMMA SlidApart ==
    ASSUME NEW pieces \in Seq(Pieces), NEW i \in DOMAIN pieces, NEW a \in Axes, Kerf = 0, Apart(pieces)
    PROVE  Apart(Slid(pieces, i, a))
<1> DEFINE new == Slid(pieces, i, a)
           p == pieces[i]
           n == new[i]
           b == Across(a)
<1>1. CASE ~CanSlide(pieces, i, a)
  BY <1>1, SlidIs
<1>2. CASE CanSlide(pieces, i, a)
  <2>1. /\ new \in Seq(Pieces) /\ DOMAIN new = DOMAIN pieces
        /\ \A j \in DOMAIN pieces : j # i => new[j] = pieces[j]
        /\ Lo(n, b) = Lo(p, b) /\ Hi(n, b) = Hi(p, b)
        /\ Lo(n, a) = Bound(pieces, i, a) /\ Hi(n, a) <= Hi(p, a)
    BY <1>2, SlidIs
  <2>2. \A j \in DOMAIN pieces : pieces[j] \in Pieces /\ new[j] \in Pieces
    BY <2>1, LenProperties, ElementOfSeq
  <2>3. b \in Axes /\ b # a
    BY AcrossAxis
  <2>4. ASSUME NEW j \in DOMAIN pieces, j # i PROVE ~Overlap(n, pieces[j])
    <3> DEFINE q == pieces[j]
    <3> SUFFICES ASSUME Meet(n, q, a), Meet(n, q, b) PROVE FALSE
      BY <2>3 DEF Overlap
    <3>1. Meet(p, q, b)
      BY <2>1 DEF Meet
    <3>2. ~Meet(p, q, a)
      <4>1. ~Overlap(p, q)
        BY <2>4 DEF Apart
      <4> QED
        BY <3>1, <4>1, AcrossAxis DEF Overlap
    <3>3. /\ Lo(p, a) \in Nat /\ Hi(p, a) \in Nat /\ Lo(q, a) \in Nat /\ Hi(q, a) \in Nat
          /\ Lo(n, a) \in Nat /\ Hi(n, a) \in Nat
      BY <2>2, PieceNumbers
    <3>4. CASE Hi(q, a) <= Lo(p, a)
      <4>1. j \in InTheWay(pieces, i, a)
        BY <2>4, <3>1, <3>3, <3>4 DEF InTheWay
      <4>2. Hi(q, a) + Kerf <= Lo(n, a)
        BY <2>1, <4>1, BoundIs
      <4> QED
        BY <3>3, <4>2 DEF Meet
    <3>5. CASE Hi(p, a) <= Lo(q, a)
      BY <2>1, <3>3, <3>5 DEF Meet
    <3> QED
      BY <3>2, <3>3, <3>4, <3>5 DEF Meet
  <2>5. ASSUME NEW j \in DOMAIN pieces, NEW k \in DOMAIN pieces, j # k PROVE ~Overlap(new[j], new[k])
    <3>1. CASE j = i
      BY <2>1, <2>4, <2>5, <3>1
    <3>2. CASE k = i
      <4>1. ~Overlap(new[k], new[j])
        BY <2>1, <2>4, <2>5, <3>2
      <4> QED
        BY <2>2, <4>1, Symmetric
    <3>3. CASE j # i /\ k # i
      BY <2>1, <2>5, <3>3 DEF Apart
    <3> QED
      BY <3>1, <3>2, <3>3
  <2> QED
    BY <2>1, <2>5 DEF Apart
<1> QED
  BY <1>1, <1>2

-----------------------------------------------------------------------------
(* The remnant at the bottom right corner                                  *)

\* A sheet and its pieces.
SheetTypes == [size : [Axes -> Lengths], pieces : Seq(Pieces)]

\* The lowest a piece reaches that goes beyond l, and the free rectangle then.
Beyond(sheet, l) ==
    {p \in PieceSet(sheet) : Lo(p, 1) < sheet.size[1] /\ Hi(p, 1) > l}
Lowest(sheet, l) == Max({0} \cup {Hi(p, 2) : p \in Beyond(sheet, l)})
Lefts(sheet) ==
    {0} \cup {r \in {Hi(p, 1) : p \in PieceSet(sheet)} : r < sheet.size[1]}
Rectangle(sheet, l) == (sheet.size[1] - l) * (sheet.size[2] - Lowest(sheet, l))

\* The pieces of a sheet as numbers.
LEMMA SheetNumbers ==
    ASSUME NEW sheet \in SheetTypes, OnSheet(sheet)
    PROVE  /\ sheet.size[1] \in Nat /\ sheet.size[2] \in Nat /\ sheet.size[1] > 0 /\ sheet.size[2] > 0
           /\ sheet.pieces \in Seq(Pieces) /\ DOMAIN sheet.pieces = 1..Len(sheet.pieces)
           /\ \A i \in DOMAIN sheet.pieces : \A a \in Axes :
                 /\ sheet.pieces[i] \in Pieces
                 /\ Lo(sheet.pieces[i], a) \in Nat /\ Hi(sheet.pieces[i], a) \in Nat
                 /\ Lo(sheet.pieces[i], a) < Hi(sheet.pieces[i], a)
                 /\ Hi(sheet.pieces[i], a) <= sheet.size[a]
<1>1. sheet.size \in [Axes -> Lengths] /\ sheet.pieces \in Seq(Pieces)
  BY DEF SheetTypes
<1>2. sheet.size[1] \in Lengths /\ sheet.size[2] \in Lengths
  BY <1>1 DEF Axes
<1>3. DOMAIN sheet.pieces = 1..Len(sheet.pieces) /\ \A i \in DOMAIN sheet.pieces : sheet.pieces[i] \in Pieces
  BY <1>1, LenProperties, ElementOfSeq
<1>4. ASSUME NEW i \in DOMAIN sheet.pieces, NEW a \in Axes
      PROVE  /\ sheet.pieces[i] \in Pieces
             /\ Lo(sheet.pieces[i], a) \in Nat /\ Hi(sheet.pieces[i], a) \in Nat
             /\ Lo(sheet.pieces[i], a) < Hi(sheet.pieces[i], a)
             /\ Hi(sheet.pieces[i], a) <= sheet.size[a]
  <2>1. sheet.pieces[i] \in Pieces /\ Hi(sheet.pieces[i], a) <= sheet.size[a]
    BY <1>3 DEF OnSheet
  <2> QED
    BY <2>1, PieceNumbers
<1> QED
  BY <1>1, <1>2, <1>3, <1>4 DEF Lengths

\* How far down the pieces beyond l reach.
LEMMA LowestIs ==
    ASSUME NEW sheet \in SheetTypes, OnSheet(sheet), NEW l
    PROVE  /\ Lowest(sheet, l) \in Nat /\ Lowest(sheet, l) <= sheet.size[2]
           /\ \A i \in DOMAIN sheet.pieces :
                 Lo(sheet.pieces[i], 1) < sheet.size[1] /\ Hi(sheet.pieces[i], 1) > l
                    => Hi(sheet.pieces[i], 2) <= Lowest(sheet, l)
           /\ \/ Lowest(sheet, l) = 0
              \/ \E i \in DOMAIN sheet.pieces :
                    /\ Lo(sheet.pieces[i], 1) < sheet.size[1] /\ Hi(sheet.pieces[i], 1) > l
                    /\ Lowest(sheet, l) = Hi(sheet.pieces[i], 2)
<1> DEFINE h == sheet.size[2]
           S == {0} \cup {Hi(p, 2) : p \in Beyond(sheet, l)}
<1>1. h \in Nat
  BY SheetNumbers
<1>2. \A p \in Beyond(sheet, l) : \E i \in DOMAIN sheet.pieces :
          p = sheet.pieces[i] /\ Lo(p, 1) < sheet.size[1] /\ Hi(p, 1) > l
  BY DEF Beyond, PieceSet
<1>3. \A i \in DOMAIN sheet.pieces : Hi(sheet.pieces[i], 2) \in Nat /\ Hi(sheet.pieces[i], 2) <= h
  BY SheetNumbers DEF Axes
<1>4. ASSUME NEW i \in DOMAIN sheet.pieces, Lo(sheet.pieces[i], 1) < sheet.size[1], Hi(sheet.pieces[i], 1) > l
      PROVE  Hi(sheet.pieces[i], 2) \in S
  <2>1. sheet.pieces[i] \in Beyond(sheet, l)
    BY <1>4 DEF Beyond, PieceSet
  <2> QED
    BY <2>1
<1>5. \A n \in S : n = 0 \/ \E i \in DOMAIN sheet.pieces :
          /\ Lo(sheet.pieces[i], 1) < sheet.size[1] /\ Hi(sheet.pieces[i], 1) > l
          /\ n = Hi(sheet.pieces[i], 2)
  BY <1>2
<1>6. 0 \in S
  OBVIOUS
<1> HIDE DEF S, h
<1>7. S \subseteq Int /\ S # {} /\ \A n \in S : n <= h /\ n >= 0
  BY <1>1, <1>3, <1>5, <1>6
<1>8. Max(S) \in S /\ \A n \in S : Max(S) >= n
  <2>1. h \in Int /\ \A n \in S : n <= h
    BY <1>1, <1>7
  <2> QED
    BY <1>7, <2>1, MaxOf
<1>9. Max(S) \in Nat /\ Max(S) <= h
  <2>1. \A n \in S : n \in Nat /\ n <= h
    BY <1>7
  <2> QED
    BY <1>8, <2>1, Zenon
<1>10. \A i \in DOMAIN sheet.pieces :
          Lo(sheet.pieces[i], 1) < sheet.size[1] /\ Hi(sheet.pieces[i], 1) > l
             => Hi(sheet.pieces[i], 2) <= Max(S)
  BY <1>3, <1>4, <1>8, <1>9
<1>11. Lowest(sheet, l) = Max(S)
  BY DEF Lowest, S
<1> QED
  BY <1>5, <1>8, <1>9, <1>10, <1>11 DEF h

\* The corner remnant is the largest of the rectangles.
LEMMA CornerIs ==
    ASSUME NEW sheet \in SheetTypes, OnSheet(sheet)
    PROVE  /\ CornerFree(sheet) \in Nat
           /\ \A l \in Lefts(sheet) : Rectangle(sheet, l) <= CornerFree(sheet)
           /\ \E l \in Lefts(sheet) : Rectangle(sheet, l) = CornerFree(sheet)
           /\ \A l \in Lefts(sheet) : Rectangle(sheet, l) \in Nat /\ l \in Nat /\ l < sheet.size[1]
<1> DEFINE w == sheet.size[1]
           h == sheet.size[2]
           S == {Rectangle(sheet, l) : l \in Lefts(sheet)}
<1>1. w \in Nat /\ h \in Nat /\ w > 0
  BY SheetNumbers
<1>2. \A l \in Lefts(sheet) : l \in Nat /\ l < w
  <2>1. \A i \in DOMAIN sheet.pieces : Hi(sheet.pieces[i], 1) \in Nat
    BY SheetNumbers DEF Axes
  <2> QED
    BY <1>1, <2>1 DEF Lefts, PieceSet
<1>3. \A l \in Lefts(sheet) : Rectangle(sheet, l) \in Nat /\ Rectangle(sheet, l) <= w * h /\ w * h \in Nat
  <2> SUFFICES ASSUME NEW l \in Lefts(sheet)
               PROVE  Rectangle(sheet, l) \in Nat /\ Rectangle(sheet, l) <= w * h /\ w * h \in Nat
    OBVIOUS
  <2> DEFINE x == w - l
             y == h - Lowest(sheet, l)
  <2>1. Lowest(sheet, l) \in Nat /\ Lowest(sheet, l) <= h /\ l \in Nat /\ l < w
    BY <1>2, LowestIs
  <2>2. x \in Nat /\ y \in Nat /\ x <= w /\ y <= h
    BY <1>1, <2>1
  <2>3. Rectangle(sheet, l) = x * y
    BY DEF Rectangle
  <2> HIDE DEF x, y, w, h
  <2> QED
    BY <1>1, <2>2, <2>3, ProductsGrow
<1>4. S \subseteq Int /\ S # {} /\ w * h \in Int /\ \A n \in S : n <= w * h
  <2>1. 0 \in Lefts(sheet)
    BY DEF Lefts
  <2> HIDE DEF w, h
  <2> QED
    BY <1>3, <2>1
<1>5. Max(S) \in S /\ \A n \in S : Max(S) >= n
  <2> DEFINE area == w * h
  <2>1. area \in Int /\ \A n \in S : n <= area
    BY <1>4, Zenon
  <2> HIDE DEF area, S
  <2> QED
    BY <1>4, <2>1, MaxOf
<1>6. CornerFree(sheet) = Max(S)
  BY Zenon DEF CornerFree, S, Rectangle, Lefts, Lowest, Beyond
<1>7. PICK l \in Lefts(sheet) : Rectangle(sheet, l) = Max(S)
  BY <1>5, Zenon
<1>8. \A m \in Lefts(sheet) : Rectangle(sheet, m) <= Max(S)
  <2> SUFFICES ASSUME NEW m \in Lefts(sheet) PROVE Rectangle(sheet, m) <= Max(S)
    OBVIOUS
  <2> DEFINE r == Rectangle(sheet, m)
             s == Rectangle(sheet, l)
  <2>1. r \in S /\ r \in Nat /\ s \in Nat /\ s = Max(S)
    BY <1>3, <1>7, Zenon
  <2> HIDE DEF r, S, s
  <2>2. r <= s
    BY <1>5, <2>1
  <2> QED
    BY <2>1, <2>2 DEF r
<1> HIDE DEF S, w, h
<1>9. CornerFree(sheet) \in Nat
  BY <1>3, <1>6, <1>7, Zenon
<1> QED
  BY <1>2, <1>3, <1>6, <1>7, <1>8, <1>9, Zenon DEF w

\* Two sheets with the same pieces, those of the first where they are on the
\* second or nearer to the corner they are slid to.
Slidden(new, old) ==
    /\ new.size = old.size /\ DOMAIN new.pieces = DOMAIN old.pieces
    /\ \A i \in DOMAIN new.pieces : \A a \in Axes :
          /\ new.pieces[i].size = old.pieces[i].size
          /\ Lo(new.pieces[i], a) <= Lo(old.pieces[i], a)

\* Then the first leaves at least as much free at the other corner: its pieces
\* to the right of any left side are to the right of it on the second too, and
\* no lower.
LEMMA CornerGrows ==
    ASSUME NEW new \in SheetTypes, NEW old \in SheetTypes, OnSheet(new), OnSheet(old), Slidden(new, old)
    PROVE  CornerFree(new) >= CornerFree(old)
<1> DEFINE w == old.size[1]
           h == old.size[2]
<1>1. w \in Nat /\ h \in Nat /\ w > 0 /\ new.size[1] = w /\ new.size[2] = h
  BY SheetNumbers DEF Slidden
<1>2. ASSUME NEW i \in DOMAIN new.pieces, NEW a \in Axes
      PROVE  /\ i \in DOMAIN old.pieces
             /\ Hi(new.pieces[i], a) \in Nat /\ Hi(old.pieces[i], a) \in Nat
             /\ Hi(new.pieces[i], a) <= Hi(old.pieces[i], a)
             /\ Lo(old.pieces[i], a) < old.size[a]
  <2>1. /\ i \in DOMAIN old.pieces /\ new.pieces[i].size = old.pieces[i].size
        /\ Lo(new.pieces[i], a) <= Lo(old.pieces[i], a)
    BY DEF Slidden
  <2>2. /\ new.pieces[i] \in Pieces /\ old.pieces[i] \in Pieces
        /\ Hi(old.pieces[i], a) <= old.size[a] /\ old.size[a] \in Nat
    BY <2>1, SheetNumbers DEF Axes
  <2>3. /\ Hi(new.pieces[i], a) = Lo(new.pieces[i], a) + new.pieces[i].size[a]
        /\ Hi(old.pieces[i], a) = Lo(old.pieces[i], a) + old.pieces[i].size[a]
        /\ new.pieces[i].size[a] \in Nat /\ Lo(new.pieces[i], a) \in Nat /\ Lo(old.pieces[i], a) \in Nat
        /\ old.pieces[i].size[a] > 0
    BY <2>2, PieceNumbers
  <2> QED
    BY <2>1, <2>2, <2>3
<1>3. PICK l \in Lefts(old) : Rectangle(old, l) = CornerFree(old)
  BY CornerIs
<1>4. l \in Nat /\ l < w
  BY <1>3, CornerIs
<1> DEFINE L == {r \in Lefts(new) : r <= l}
           m == Max(L)
<1>5. m \in L /\ \A r \in L : m >= r
  <2>1. 0 \in L
    BY <1>4 DEF Lefts
  <2>2. L \subseteq Int /\ \A r \in L : r <= l
    BY CornerIs
  <2> HIDE DEF L
  <2>3. l \in Int /\ L \subseteq Int /\ L # {} /\ \A r \in L : r <= l
    BY <1>4, <2>1, <2>2
  <2> QED
    BY <2>3, MaxOf DEF m
<1> HIDE DEF m
<1>6. m \in Lefts(new) /\ m <= l /\ m \in Nat
  BY <1>5, CornerIs
<1>7. ASSUME NEW i \in DOMAIN new.pieces, Hi(new.pieces[i], 1) > m
      PROVE  Hi(new.pieces[i], 1) > l
  <2> DEFINE r == Hi(new.pieces[i], 1)
  <2>1. r \in Nat
    BY <1>2 DEF Axes
  <2>2. r < w => r \in Lefts(new)
    BY <1>1 DEF Lefts, PieceSet
  <2> HIDE DEF r
  <2>3. CASE r <= l
    <3>1. r \in L
      BY <1>1, <1>4, <2>1, <2>2, <2>3
    <3>2. m >= r
      BY <1>5, <3>1
    <3> QED
      BY <1>6, <1>7, <2>1, <3>2 DEF r
  <2> QED
    BY <1>4, <2>1, <2>3 DEF r
<1>8. Lowest(new, m) <= Lowest(old, l)
  <2>1. /\ Lowest(old, l) \in Nat
        /\ \A i \in DOMAIN old.pieces :
              Lo(old.pieces[i], 1) < old.size[1] /\ Hi(old.pieces[i], 1) > l
                 => Hi(old.pieces[i], 2) <= Lowest(old, l)
    BY LowestIs
  <2>2. CASE Lowest(new, m) = 0
    BY <2>1, <2>2
  <2>3. ASSUME NEW i \in DOMAIN new.pieces, Hi(new.pieces[i], 1) > m,
               Lowest(new, m) = Hi(new.pieces[i], 2)
        PROVE  Lowest(new, m) <= Lowest(old, l)
    <3>1. Hi(new.pieces[i], 1) > l
      BY <1>7, <2>3
    <3>2. /\ i \in DOMAIN old.pieces /\ Lo(old.pieces[i], 1) < old.size[1]
          /\ Hi(new.pieces[i], 1) \in Nat /\ Hi(old.pieces[i], 1) \in Nat
          /\ Hi(new.pieces[i], 1) <= Hi(old.pieces[i], 1)
          /\ Hi(new.pieces[i], 2) \in Nat /\ Hi(old.pieces[i], 2) \in Nat
          /\ Hi(new.pieces[i], 2) <= Hi(old.pieces[i], 2)
      BY <1>2 DEF Axes
    <3>3. Hi(old.pieces[i], 1) > l
      BY <1>4, <3>1, <3>2
    <3>4. Hi(old.pieces[i], 2) <= Lowest(old, l)
      BY <2>1, <3>2, <3>3
    <3> QED
      BY <2>1, <2>3, <3>2, <3>4
  <2> QED
    BY <2>2, <2>3, LowestIs
<1> DEFINE lo == Lowest(old, l)
           ln == Lowest(new, m)
<1>9. lo \in Nat /\ ln \in Nat /\ ln <= lo /\ lo <= h
  BY <1>8, LowestIs
<1>10. Rectangle(old, l) = (w - l) * (h - lo) /\ Rectangle(new, m) = (w - m) * (h - ln)
  BY <1>1 DEF Rectangle
<1>11. Rectangle(new, m) <= CornerFree(new) /\ CornerFree(new) \in Nat
  BY <1>6, CornerIs
<1> HIDE DEF lo, ln, w, h
<1>12. w - l \in Nat /\ h - lo \in Nat /\ w - m \in Nat /\ h - ln \in Nat /\ w - l <= w - m /\ h - lo <= h - ln
  BY <1>1, <1>4, <1>6, <1>9
<1>13. Rectangle(old, l) <= Rectangle(new, m) /\ Rectangle(old, l) \in Nat /\ Rectangle(new, m) \in Nat
  <2> DEFINE x == w - l
             y == h - lo
             u == w - m
             v == h - ln
  <2>1. x \in Nat /\ y \in Nat /\ u \in Nat /\ v \in Nat /\ x <= u /\ y <= v
    BY <1>12
  <2>2. Rectangle(old, l) = x * y /\ Rectangle(new, m) = u * v
    BY <1>10
  <2> HIDE DEF x, y, u, v
  <2> QED
    BY <2>1, <2>2, ProductsGrow
<1> DEFINE a == Rectangle(old, l)
           b == Rectangle(new, m)
           c == CornerFree(new)
           d == CornerFree(old)
<1>14. a <= b /\ a \in Nat /\ b \in Nat /\ b <= c /\ c \in Nat /\ a = d
  BY <1>3, <1>11, <1>13, Zenon
<1> HIDE DEF a, b, c, d
<1>15. c >= d
  BY <1>14
<1> QED
  BY <1>15 DEF c, d

-----------------------------------------------------------------------------
(* A group shift                                                           *)

\* A direction and a group of pieces.
Moves(pieces) == [axis : Axes, sign : {-1, 1}, group : SUBSET DOMAIN pieces]

\* Every group that is tried is of pieces of the sheet.
LEMMA SelectionsTyped ==
    ASSUME NEW pieces, NEW anchor, NEW k \in Selections(pieces, Components(pieces), anchor)
    PROVE  k \in Moves(pieces)
<1>1. Components(pieces) \subseteq SUBSET DOMAIN pieces
  BY DEF Components
<1> DEFINE All == DOMAIN pieces
           One == {[axis |-> a, sign |-> -1, group |-> {j \in All : Lo(pieces[j], a) >= Lo(pieces[i], a)}] :
                      a \in Axes, i \in All}
           Two == {[axis |-> a, sign |-> 1, group |-> {j \in All : Hi(pieces[j], a) <= Hi(pieces[i], a)}] :
                      a \in Axes, i \in All}
<1>2. \/ k \in One
      \/ k \in Two
      \/ k \in [axis : Axes, sign : {-1, 1}, group : Components(pieces) \ {anchor}]
  BY DEF Selections
<1>3. CASE k \in One
  <2>1. PICK a \in Axes, i \in All :
            k = [axis |-> a, sign |-> -1, group |-> {j \in All : Lo(pieces[j], a) >= Lo(pieces[i], a)}]
    BY <1>3
  <2> QED
    BY <2>1 DEF Moves
<1>4. CASE k \in Two
  <2>1. PICK a \in Axes, i \in All :
            k = [axis |-> a, sign |-> 1, group |-> {j \in All : Hi(pieces[j], a) <= Hi(pieces[i], a)}]
    BY <1>4
  <2> QED
    BY <2>1 DEF Moves
<1>5. CASE k \in [axis : Axes, sign : {-1, 1}, group : Components(pieces) \ {anchor}]
  BY <1>1, <1>5 DEF Moves
<1> QED
  BY <1>2, <1>3, <1>4, <1>5

\* A best move is of a group of one sheet that may move, by its limit.
LEMMA BestMoveIs ==
    ASSUME NEW p, NEW sm \in BestMoves(p)
    PROVE  /\ sm[1] \in DOMAIN p
           /\ \E k \in Moves(p[sm[1]].pieces) :
                 /\ k.group # {}
                 /\ sm[2].axis = k.axis /\ sm[2].sign = k.sign /\ sm[2].group = k.group
                 /\ sm[2].by = ShiftLimit(p[sm[1]], k)
<1>1. PICK s \in DOMAIN p : \E m \in SheetMoves(p[s]) : sm = <<s, m>>
  BY DEF BestMoves
<1>2. PICK m \in SheetMoves(p[s]) : sm = <<s, m>>
  BY <1>1
<1>3. sm[1] = s /\ sm[2] = m
  BY <1>2
<1> DEFINE sheet == p[s]
           components == Components(sheet.pieces)
           anchor == Anchor(sheet.pieces, components)
<1>4. PICK k \in {k \in Selections(sheet.pieces, components, anchor) : MayMove(sheet, k, anchor)} :
          m = [axis |-> k.axis, sign |-> k.sign, group |-> k.group,
               by |-> ShiftLimit(sheet, k), merit |-> Merit(sheet, k, anchor)]
  BY Zenon DEF SheetMoves
<1>5. k \in Moves(sheet.pieces) /\ k.group # {}
  BY SelectionsTyped DEF MayMove
<1> QED
  BY <1>3, <1>4, <1>5

\* How far a piece of a group is from the edge it moves to.
Edge(sheet, m, i) ==
    IF m.sign < 0 THEN Lo(sheet.pieces[i], m.axis)
                  ELSE sheet.size[m.axis] - Hi(sheet.pieces[i], m.axis)

\* No piece of the group is moved further than to the edge, or than to a
\* blade's width from a piece that stays.
LEMMA LimitIs ==
    ASSUME NEW sheet \in SheetTypes, OnSheet(sheet), NEW k \in Moves(sheet.pieces), k.group # {}
    PROVE  /\ ShiftLimit(sheet, k) \in Nat
           /\ \A i \in k.group : ShiftLimit(sheet, k) <= Edge(sheet, k, i)
           /\ \A i \in k.group : \A j \in DOMAIN sheet.pieces \ k.group :
                 /\ Meet(sheet.pieces[i], sheet.pieces[j], Across(k.axis))
                 /\ ObstacleLimit(sheet.pieces[i], sheet.pieces[j], k) >= 0
                 => ShiftLimit(sheet, k) <= ObstacleLimit(sheet.pieces[i], sheet.pieces[j], k)
<1>1. k.axis \in Axes /\ k.sign \in {-1, 1} /\ k.group \subseteq DOMAIN sheet.pieces
  BY DEF Moves
<1>2. \A i \in DOMAIN sheet.pieces :
          /\ Lo(sheet.pieces[i], k.axis) \in Nat /\ Hi(sheet.pieces[i], k.axis) \in Nat
          /\ Hi(sheet.pieces[i], k.axis) <= sheet.size[k.axis]
  BY <1>1, SheetNumbers
<1>3. sheet.size[k.axis] \in Nat
  BY <1>1, SheetNumbers DEF Axes
<1>4. \A i \in k.group : Edge(sheet, k, i) \in Nat
  BY <1>1, <1>2, <1>3 DEF Edge
<1> DEFINE R == {Edge(sheet, k, i) : i \in k.group}
<1>5. R \subseteq Nat /\ R # {}
  BY <1>4
<1>6. Room(sheet, k) = Min(R)
  BY Zenon DEF Room, Edge
<1>7. Room(sheet, k) \in Nat /\ \A i \in k.group : Room(sheet, k) <= Edge(sheet, k, i)
  <2>1. Min(R) \in R /\ \A r \in R : Min(R) <= r
    <3> HIDE DEF R
    <3> QED
      BY <1>5, MinOf
  <2> QED
    BY <1>5, <1>6, <2>1
<1> DEFINE O == ObstacleLimits(sheet.pieces, k)
           pairs == {ij \in k.group \X (DOMAIN sheet.pieces \ k.group) :
                        Meet(sheet.pieces[ij[1]], sheet.pieces[ij[2]], Across(k.axis))}
           limits == {ObstacleLimit(sheet.pieces[ij[1]], sheet.pieces[ij[2]], k) : ij \in pairs}
<1>8. O = {l \in limits : l >= 0}
  BY Zenon DEF ObstacleLimits
<1>9. \A i \in k.group : \A j \in DOMAIN sheet.pieces : ObstacleLimit(sheet.pieces[i], sheet.pieces[j], k) \in Int
  BY <1>1, <1>2, KerfAssumption DEF ObstacleLimit
<1>10. limits \subseteq Int
  <2> SUFFICES ASSUME NEW ij \in pairs
               PROVE  ObstacleLimit(sheet.pieces[ij[1]], sheet.pieces[ij[2]], k) \in Int
    OBVIOUS
  <2>1. ij[1] \in k.group /\ ij[2] \in DOMAIN sheet.pieces
    OBVIOUS
  <2> QED
    BY <1>9, <2>1
<1>11. O \subseteq Nat
  <2> HIDE DEF limits, O
  <2> SUFFICES ASSUME NEW l \in O PROVE l \in Nat
    OBVIOUS
  <2>1. l \in limits /\ l >= 0
    BY <1>8
  <2>2. l \in Int
    BY <1>10, <2>1
  <2> QED
    BY <2>1, <2>2
<1>12. ASSUME NEW i \in k.group, NEW j \in DOMAIN sheet.pieces \ k.group,
              Meet(sheet.pieces[i], sheet.pieces[j], Across(k.axis)),
              ObstacleLimit(sheet.pieces[i], sheet.pieces[j], k) >= 0
       PROVE  ObstacleLimit(sheet.pieces[i], sheet.pieces[j], k) \in O
  <2>1. <<i, j>> \in pairs /\ <<i, j>>[1] = i /\ <<i, j>>[2] = j
    BY <1>12
  <2>2. ObstacleLimit(sheet.pieces[i], sheet.pieces[j], k) \in limits
    <3> HIDE DEF pairs
    <3> QED
      BY <2>1
  <2> HIDE DEF limits
  <2> QED
    BY <1>8, <1>12, <2>2
<1> DEFINE S == {Room(sheet, k)} \cup O
<1>13. S \subseteq Nat /\ S # {}
  <2> HIDE DEF O
  <2> QED
    BY <1>7, <1>11
<1>14. Min(S) \in S /\ \A l \in S : Min(S) <= l
  <2> HIDE DEF S
  <2> QED
    BY <1>13, MinOf
<1>15. ShiftLimit(sheet, k) = Min(S)
  BY DEF ShiftLimit
<1> DEFINE d == Min(S)
<1>16. d \in Nat /\ d <= Room(sheet, k) /\ \A l \in O : d <= l
  <2>1. d \in S /\ \A l \in S : d <= l
    BY <1>14
  <2> HIDE DEF d
  <2>2. d \in Nat
    <3> HIDE DEF S
    <3> QED
      BY <1>13, <2>1
  <2> HIDE DEF O
  <2> QED
    BY <2>1, <2>2
<1> HIDE DEF d, O
<1>17. \A i \in k.group : d <= Edge(sheet, k, i)
  BY <1>4, <1>7, <1>16
<1> QED
  BY <1>12, <1>15, <1>16, <1>17 DEF d

\* A move of a group of a sheet's pieces by no more than what is left to the
\* edge, and the sheet's pieces afterwards.
MayShift(sheet, m, d) ==
    /\ m.axis \in Axes /\ m.sign \in {-1, 1} /\ m.group \subseteq DOMAIN sheet.pieces
    /\ d \in Nat /\ \A i \in m.group : d <= Edge(sheet, m, i)
HasShifted(sheet, new, m, d) ==
    /\ new \in Seq(Pieces) /\ DOMAIN new = DOMAIN sheet.pieces
    /\ OnSheet([sheet EXCEPT !.pieces = new])
    /\ \A i \in DOMAIN new : new[i].size = sheet.pieces[i].size
    /\ \A i \in DOMAIN new \ m.group : new[i] = sheet.pieces[i]
    /\ \A i \in m.group :
          /\ Lo(new[i], m.axis) = Lo(sheet.pieces[i], m.axis) + m.sign * d
          /\ Hi(new[i], m.axis) = Hi(sheet.pieces[i], m.axis) + m.sign * d
          /\ Lo(new[i], Across(m.axis)) = Lo(sheet.pieces[i], Across(m.axis))
          /\ Hi(new[i], Across(m.axis)) = Hi(sheet.pieces[i], Across(m.axis))

\* The pieces of a group are moved as one, and stay on their sheet.
LEMMA MovedIs ==
    ASSUME NEW sheet \in SheetTypes, OnSheet(sheet), NEW m, NEW d, MayShift(sheet, m, d)
    PROVE  HasShifted(sheet, Moved(sheet.pieces, m, d), m, d)
<1> DEFINE a == m.axis
           pieces == sheet.pieces
           new == Moved(pieces, m, d)
<1> m.axis \in Axes /\ m.sign \in {-1, 1} /\ m.group \subseteq DOMAIN sheet.pieces /\ d \in Nat
  BY DEF MayShift
<1>0. \A i \in m.group : d <= Edge(sheet, m, i)
  BY DEF MayShift
<1>1. /\ pieces \in Seq(Pieces) /\ DOMAIN pieces = 1..Len(pieces) /\ Len(pieces) \in Nat
      /\ \A i \in DOMAIN pieces : \A b \in Axes :
            /\ pieces[i] \in Pieces
            /\ Lo(pieces[i], b) \in Nat /\ Hi(pieces[i], b) \in Nat
            /\ Hi(pieces[i], b) <= sheet.size[b]
  BY SheetNumbers, LenProperties DEF Axes
<1>2. Across(a) \in Axes /\ Across(a) # a
  BY AcrossAxis
<1>3. sheet.size[a] \in Nat
  BY SheetNumbers DEF Axes
<1>4. ASSUME NEW i \in m.group
      PROVE  /\ new[i] \in Pieces /\ new[i].size = pieces[i].size
             /\ Lo(new[i], a) = Lo(pieces[i], a) + m.sign * d
             /\ Hi(new[i], a) = Hi(pieces[i], a) + m.sign * d
             /\ Hi(new[i], a) <= sheet.size[a] /\ Lo(new[i], a) >= 0
             /\ \A b \in Axes : b # a => Lo(new[i], b) = Lo(pieces[i], b) /\ Hi(new[i], b) = Hi(pieces[i], b)
  <2> DEFINE p == pieces[i]
             n == p.at[a] + m.sign * d
             q == [p EXCEPT !.at[a] = n]
  <2>1. p \in Pieces /\ d <= Edge(sheet, m, i) /\ Lo(p, a) = p.at[a]
    BY <1>0, <1>1 DEF Lo
  <2>2. /\ Lo(p, a) \in Nat /\ Hi(p, a) \in Nat /\ Hi(p, a) <= sheet.size[a]
        /\ Hi(p, a) = Lo(p, a) + p.size[a] /\ p.size[a] \in Nat
    BY <1>1, <2>1, PieceNumbers
  <2>3. n \in Nat /\ n + p.size[a] <= sheet.size[a] /\ n = Lo(p, a) + m.sign * d
        /\ n + p.size[a] = Hi(p, a) + m.sign * d
    <3>1. CASE m.sign = 1
      <4>1. d <= sheet.size[a] - Hi(p, a)
        BY <2>1, <3>1 DEF Edge
      <4>2. m.sign * d = d
        BY <3>1
      <4> HIDE DEF p
      <4> QED
        BY <1>3, <2>1, <2>2, <4>1, <4>2
    <3>2. CASE m.sign = -1
      <4>1. d <= Lo(p, a)
        BY <2>1, <3>2 DEF Edge
      <4>2. m.sign * d = -d
        BY <3>2
      <4> HIDE DEF p
      <4> QED
        BY <1>3, <2>1, <2>2, <4>1, <4>2
    <3> QED
      BY <3>1, <3>2
  <2>4. new[i] = q
    BY DEF Moved
  <2>5. /\ q \in Pieces /\ q.size = p.size
        /\ Lo(q, a) = n /\ Hi(q, a) = n + p.size[a]
        /\ \A b \in Axes : b # a => Lo(q, b) = Lo(p, b) /\ Hi(q, b) = Hi(p, b)
    <3>1. a \in Axes /\ n \in Nat /\ p \in Pieces
      BY <2>1, <2>3
    <3> HIDE DEF p, n, a
    <3> QED
      BY <3>1, PieceMoved
  <2> HIDE DEF q, n, new
  <2> QED
    BY <2>2, <2>3, <2>4, <2>5
<1>5. ASSUME NEW i \in DOMAIN pieces, i \notin m.group PROVE new[i] = pieces[i]
  BY <1>5 DEF Moved
<1>6. DOMAIN new = DOMAIN pieces
  BY DEF Moved
<1>7. \A i \in DOMAIN pieces : new[i] \in Pieces
  BY <1>1, <1>4, <1>5
<1>8. new \in Seq(Pieces)
  <2>1. new = [i \in 1..Len(pieces) |-> new[i]]
    BY <1>1 DEF Moved
  <2> HIDE DEF new
  <2> DEFINE n == Len(pieces)
  <2>2. n \in Nat /\ new \in [1..n -> Pieces]
    BY <1>1, <1>7, <2>1
  <2> HIDE DEF n
  <2> QED
    BY <2>2
<1> HIDE DEF new
<1>9. ASSUME NEW i \in DOMAIN new, NEW b \in Axes
      PROVE  Lo(new[i], b) >= 0 /\ Hi(new[i], b) <= sheet.size[b]
  <2>1. CASE i \in m.group /\ b = a
    BY <1>4, <2>1
  <2>2. CASE i \in m.group /\ b # a
    <3>1. Lo(new[i], b) = Lo(pieces[i], b) /\ Hi(new[i], b) = Hi(pieces[i], b)
      BY <1>4, <2>2
    <3> QED
      BY <1>1, <1>6, <3>1
  <2>3. CASE i \notin m.group
    BY <1>1, <1>5, <1>6, <2>3
  <2> QED
    BY <2>1, <2>2, <2>3
<1>10. OnSheet([sheet EXCEPT !.pieces = new])
  <2> DEFINE other == [sheet EXCEPT !.pieces = new]
  <2>1. other.pieces = new /\ other.size = sheet.size
    BY DEF SheetTypes
  <2> HIDE DEF other
  <2> QED
    BY <1>9, <2>1 DEF OnSheet, other
<1>11. \A i \in DOMAIN new : new[i].size = pieces[i].size
  BY <1>4, <1>5, <1>6
<1> QED
  BY <1>2, <1>4, <1>5, <1>6, <1>8, <1>10, <1>11 DEF new, HasShifted

\* What can be cut before a shift does not overlap after it: a piece that is
\* met across the direction of the shift was a whole blade's width ahead or
\* behind, and the limit of the shift keeps it there.
LEMMA MovedApart ==
    ASSUME NEW sheet \in SheetTypes, OnSheet(sheet), Apart(sheet.pieces), Clear(sheet.pieces),
           NEW m, NEW d, MayShift(sheet, m, d),
           \A i \in m.group : \A j \in DOMAIN sheet.pieces \ m.group :
              /\ Meet(sheet.pieces[i], sheet.pieces[j], Across(m.axis))
              /\ ObstacleLimit(sheet.pieces[i], sheet.pieces[j], m) >= 0
              => d <= ObstacleLimit(sheet.pieces[i], sheet.pieces[j], m)
    PROVE  Apart(Moved(sheet.pieces, m, d))
<1> DEFINE a == m.axis
           b == Across(a)
           pieces == sheet.pieces
           new == Moved(pieces, m, d)
<1> m.axis \in Axes /\ m.sign \in {-1, 1} /\ m.group \subseteq DOMAIN sheet.pieces /\ d \in Nat
  BY DEF MayShift
<1>1. /\ pieces \in Seq(Pieces) /\ DOMAIN pieces = 1..Len(pieces)
      /\ \A i \in DOMAIN pieces : \A c \in Axes :
            /\ pieces[i] \in Pieces
            /\ Lo(pieces[i], c) \in Nat /\ Hi(pieces[i], c) \in Nat
            /\ Lo(pieces[i], c) < Hi(pieces[i], c)
  BY SheetNumbers
<1>2. b \in Axes /\ b # a /\ \A c \in Axes : c = a \/ c = b
  BY AcrossAxis
<1>3. /\ new \in Seq(Pieces) /\ DOMAIN new = DOMAIN pieces
      /\ \A i \in DOMAIN new \ m.group : new[i] = pieces[i]
      /\ \A i \in m.group :
            /\ Lo(new[i], a) = Lo(pieces[i], a) + m.sign * d
            /\ Hi(new[i], a) = Hi(pieces[i], a) + m.sign * d
            /\ Lo(new[i], b) = Lo(pieces[i], b)
            /\ Hi(new[i], b) = Hi(pieces[i], b)
  <2>1. HasShifted(sheet, new, m, d)
    BY MovedIs
  <2> HIDE DEF new
  <2> QED
    BY <2>1 DEF HasShifted
<1> HIDE DEF new
<1>4. \A i \in DOMAIN pieces : new[i] \in Pieces
  BY <1>3, LenProperties, ElementOfSeq
<1>5. m.sign * d = d \/ m.sign * d = -d
  OBVIOUS
<1>6. ASSUME NEW i \in m.group, NEW j \in DOMAIN pieces \ m.group PROVE ~Overlap(new[i], new[j])
  <2> DEFINE p == pieces[i]
             q == pieces[j]
             n == new[i]
  <2>1. i \in DOMAIN pieces /\ i # j /\ new[j] = q /\ p \in Pieces /\ q \in Pieces
    BY <1>1, <1>3
  <2> SUFFICES ASSUME Meet(n, q, a), Meet(n, q, b) PROVE FALSE
    BY <1>2, <2>1 DEF Overlap
  <2>2. Meet(p, q, b)
    BY <1>3 DEF Meet
  <2>3. Gap(p, q, b) = 0 /\ Gap(p, q, a) \in Nat
    BY <1>2, <2>1, <2>2, GapNumber
  <2>4. ~TooClose(p, q) /\ ~Overlap(p, q)
    BY <2>1 DEF Apart, Clear
  <2>5. ~Meet(p, q, a)
    BY <1>2, <2>2, <2>4 DEF Overlap
  <2>6. Gap(p, q, a) >= Kerf
    <3> DEFINE g == Gap(p, q, a)
    <3>1. ~(g * g + 0 * 0 < Kerf * Kerf)
      <4>1. CASE a = 1 /\ b = 2
        BY <2>3, <2>4, <4>1 DEF TooClose
      <4>2. CASE a = 2 /\ b = 1
        <5>1. ~(0 * 0 + g * g < Kerf * Kerf)
          BY <2>3, <2>4, <4>2 DEF TooClose
        <5>2. g * g \in Nat
          <6> HIDE DEF g
          <6> QED
            BY <2>3, ProductsGrow DEF g
        <5> HIDE DEF g
        <5> QED
          BY <5>1, <5>2
      <4> QED
        BY <4>1, <4>2 DEF Axes, Across
    <3>2. g \in Nat /\ Kerf \in Nat
      BY <2>3, KerfAssumption
    <3> HIDE DEF g
    <3>3. g >= Kerf
      BY <3>1, <3>2, SquaresGrow
    <3> QED
      BY <3>3 DEF g
  <2>7. /\ Lo(p, a) \in Nat /\ Hi(p, a) \in Nat /\ Lo(q, a) \in Nat /\ Hi(q, a) \in Nat
        /\ Lo(p, a) < Hi(p, a) /\ Lo(q, a) < Hi(q, a)
        /\ Lo(n, a) = Lo(p, a) + m.sign * d /\ Hi(n, a) = Hi(p, a) + m.sign * d
    BY <1>1, <1>3, <2>1
  <2>8. \/ Gap(p, q, a) = Lo(q, a) - Hi(p, a)
        \/ Gap(p, q, a) = Lo(p, a) - Hi(q, a)
    BY <2>1, <2>5, GapNumber
  <2>9. ObstacleLimit(p, q, m) >= 0 => d <= ObstacleLimit(p, q, m)
    BY <2>2
  <2>10. Kerf \in Nat
    BY KerfAssumption
  <2> HIDE DEF p, q, n
  <2>11. CASE m.sign = 1
    <3>1. m.sign * d = d
      BY <2>11
    <3>2. ObstacleLimit(p, q, m) = Lo(q, a) - Hi(p, a) - Kerf
      BY <2>11 DEF ObstacleLimit
    <3> QED
      BY <2>6, <2>7, <2>8, <2>9, <2>10, <3>1, <3>2 DEF Meet
  <2>12. CASE m.sign = -1
    <3>1. m.sign * d = -d
      BY <2>12
    <3>2. ObstacleLimit(p, q, m) = Lo(p, a) - Hi(q, a) - Kerf
      BY <2>12 DEF ObstacleLimit
    <3> QED
      BY <2>6, <2>7, <2>8, <2>9, <2>10, <3>1, <3>2 DEF Meet
  <2> QED
    BY <2>11, <2>12
<1>7. ASSUME NEW i \in m.group, NEW j \in m.group, i # j PROVE ~Overlap(new[i], new[j])
  <2>1. i \in DOMAIN pieces /\ j \in DOMAIN pieces
    OBVIOUS
  <2>2. ~Overlap(pieces[i], pieces[j])
    BY <1>7, <2>1 DEF Apart
  <2>3. Meet(new[i], new[j], b) <=> Meet(pieces[i], pieces[j], b)
    BY <1>3 DEF Meet
  <2>4. Meet(new[i], new[j], a) <=> Meet(pieces[i], pieces[j], a)
    <3> DEFINE e == m.sign * d
    <3>1. e \in Int
      BY <1>5
    <3>2. /\ Lo(pieces[i], a) \in Nat /\ Hi(pieces[i], a) \in Nat
          /\ Lo(pieces[j], a) \in Nat /\ Hi(pieces[j], a) \in Nat
      BY <1>1, <2>1
    <3>3. /\ Lo(new[i], a) = Lo(pieces[i], a) + e /\ Hi(new[i], a) = Hi(pieces[i], a) + e
          /\ Lo(new[j], a) = Lo(pieces[j], a) + e /\ Hi(new[j], a) = Hi(pieces[j], a) + e
      BY <1>3
    <3> HIDE DEF e
    <3> QED
      BY <3>1, <3>2, <3>3 DEF Meet
  <2> QED
    BY <1>2, <2>2, <2>3, <2>4 DEF Overlap
<1>8. ASSUME NEW i \in DOMAIN pieces, NEW j \in DOMAIN pieces, i # j PROVE ~Overlap(new[i], new[j])
  <2>1. CASE i \in m.group /\ j \in m.group
    BY <1>7, <1>8, <2>1
  <2>2. CASE i \in m.group /\ j \notin m.group
    BY <1>6, <2>2
  <2>3. CASE i \notin m.group /\ j \in m.group
    <3>1. ~Overlap(new[j], new[i])
      BY <1>6, <2>3
    <3> QED
      BY <1>4, <3>1, Symmetric
  <2>4. CASE i \notin m.group /\ j \notin m.group
    BY <1>3, <1>8, <2>4 DEF Apart
  <2> QED
    BY <2>1, <2>2, <2>3, <2>4
<1> QED
  BY <1>3, <1>8 DEF Apart, new

-----------------------------------------------------------------------------
(* Plans                                                                   *)

\* A sheet of a plan.
LEMMA SheetsOfPlan ==
    ASSUME NEW p \in Layouts
    PROVE  /\ DOMAIN p = 1..Len(p) /\ Len(p) \in Nat
           /\ \A s \in DOMAIN p : p[s] \in SheetTypes /\ p[s].pieces \in Seq(Pieces)
<1>1. DOMAIN p = 1..Len(p) /\ Len(p) \in Nat /\ \A s \in DOMAIN p : p[s] \in SheetTypes
  BY LenProperties, ElementOfSeq DEF Layouts, SheetTypes
<1> QED
  BY <1>1 DEF SheetTypes

\* A plan can be cut if its sheets can.
LEMMA CutBySheets ==
    ASSUME NEW p \in Layouts
    PROVE  /\ Disjoint(p) <=> \A s \in DOMAIN p : Apart(p[s].pieces)
           /\ KerfClear(p) <=> \A s \in DOMAIN p : Clear(p[s].pieces)
<1>1. \A s \in DOMAIN p : p[s].pieces \in Seq(Pieces)
  BY SheetsOfPlan
<1>2. ASSUME NEW s \in DOMAIN p
      PROVE  /\ (\A ij \in Pairs(p[s].pieces) : ~Overlap(p[s].pieces[ij[1]], p[s].pieces[ij[2]]))
                   <=> Apart(p[s].pieces)
             /\ (\A ij \in Pairs(p[s].pieces) : ~TooClose(p[s].pieces[ij[1]], p[s].pieces[ij[2]]))
                   <=> Clear(p[s].pieces)
  BY <1>1, PairsOfPieces
<1>3. Disjoint(p) <=> \A s \in DOMAIN p : Apart(p[s].pieces)
  BY <1>2, Zenon DEF Disjoint
<1>4. KerfClear(p) <=> \A s \in DOMAIN p : Clear(p[s].pieces)
  BY <1>2, Zenon DEF KerfClear
<1> QED
  BY <1>3, <1>4

\* Pieces a blade's width apart are not on one another, if it has a width.
LEMMA ClearIsApart ==
    ASSUME NEW pieces \in Seq(Pieces), Clear(pieces), Kerf > 0
    PROVE  Apart(pieces)
<1> SUFFICES ASSUME NEW i \in DOMAIN pieces, NEW j \in DOMAIN pieces, i # j,
                    Overlap(pieces[i], pieces[j])
             PROVE  FALSE
  BY DEF Apart
<1>1. pieces[i] \in Pieces /\ pieces[j] \in Pieces
  BY LenProperties, ElementOfSeq
<1>2. 1 \in Axes /\ 2 \in Axes
  BY DEF Axes
<1>3. Gap(pieces[i], pieces[j], 1) = 0 /\ Gap(pieces[i], pieces[j], 2) = 0
  BY <1>1, <1>2, GapNumber DEF Overlap
<1>4. ~(0 * 0 + 0 * 0 < Kerf * Kerf)
  BY <1>3 DEF Clear, TooClose
<1>5. Kerf \in Nat
  BY KerfAssumption
<1>6. 1 * 1 <= Kerf * Kerf /\ Kerf * Kerf \in Nat
  BY <1>5, ProductsGrow
<1> QED
  BY <1>4, <1>6

\* A plan with other pieces on one of its sheets.
LEMMA SheetReplaced ==
    ASSUME NEW p \in Layouts, NEW s \in DOMAIN p, NEW new \in Seq(Pieces)
    PROVE  LET q == [p EXCEPT ![s].pieces = new]
           IN  /\ q \in Layouts /\ DOMAIN q = DOMAIN p
               /\ q[s] = [p[s] EXCEPT !.pieces = new]
               /\ q[s].size = p[s].size /\ q[s].pieces = new
               /\ \A t \in DOMAIN p : t # s => q[t] = p[t]
<1> DEFINE e == [p[s] EXCEPT !.pieces = new]
           q == [p EXCEPT ![s].pieces = new]
<1>1. p[s] \in SheetTypes /\ p \in Seq(SheetTypes)
  BY SheetsOfPlan DEF Layouts, SheetTypes
<1>2. e \in SheetTypes /\ e.size = p[s].size /\ e.pieces = new
  BY <1>1 DEF SheetTypes
<1>3. q = [p EXCEPT ![s] = e]
  OBVIOUS
<1> HIDE DEF e, q
<1>4. q \in Seq(SheetTypes) /\ DOMAIN q = DOMAIN p /\ \A t \in DOMAIN p : q[t] = IF t = s THEN e ELSE p[t]
  BY <1>1, <1>2, <1>3, Changed
<1> QED
  BY <1>2, <1>4 DEF q, e, Layouts, SheetTypes

-----------------------------------------------------------------------------
(* Sums                                                                    *)

\* The element a fold takes out of a set, and the sums of a function over the
\* subsets of S: each is that of the rest with one element added.
Taken(s) == CHOOSE x \in s : TRUE
SumsOf(S, g, h) ==
    h = [s \in SUBSET S |-> IF s = {} THEN 0 ELSE g[Taken(s)] + h[s \ {Taken(s)}]]

\* Taking the element out makes a set smaller by one.
LEMMA TakenOut ==
    ASSUME NEW S, IsFiniteSet(S), NEW s \in SUBSET S, s # {}
    PROVE  /\ Taken(s) \in s /\ Taken(s) \in S /\ s \ {Taken(s)} \in SUBSET S
           /\ Cardinality(s) \in Nat /\ Cardinality(s) > 0
           /\ Cardinality(s \ {Taken(s)}) = Cardinality(s) - 1
<1>1. Taken(s) \in s
  BY Zenon DEF Taken
<1>2. IsFiniteSet(s)
  BY FS_Subset
<1>3. Cardinality(s) \in Nat /\ Cardinality(s \ {Taken(s)}) \in Nat
  BY <1>2, FS_CardinalityType, FS_RemoveElement
<1>4. Cardinality(s \ {Taken(s)}) = Cardinality(s) - 1
  BY <1>1, <1>2, FS_RemoveElement
<1> QED
  BY <1>1, <1>3, <1>4

\* The sums are numbers, and of natural numbers natural ones; there are such
\* sums.  (The least size of a set without one would be that of a set whose
\* rest has one.)
LEMMA SumsExist ==
    ASSUME NEW S, IsFiniteSet(S), NEW g \in [S -> Int]
    PROVE  \E h \in [SUBSET S -> Int] : SumsOf(S, g, h)
<1> DEFINE Upto(n) == {s \in SUBSET S : Cardinality(s) <= n}
           Step(h, s) == IF s = {} THEN 0 ELSE g[Taken(s)] + h[s \ {Taken(s)}]
           Good(n) == \E h \in [Upto(n) -> Int] : \A s \in Upto(n) : h[s] = Step(h, s)
           Bad == {n \in Nat : ~Good(n)}
<1>1. \A s \in SUBSET S : Cardinality(s) \in Nat /\ (Cardinality(s) = 0 <=> s = {})
  BY FS_Subset, FS_CardinalityType, FS_EmptySet
<1>2. ASSUME NEW s \in SUBSET S, s # {}
      PROVE  /\ Taken(s) \in S /\ s \ {Taken(s)} \in SUBSET S
             /\ Cardinality(s \ {Taken(s)}) = Cardinality(s) - 1
  BY <1>2, TakenOut
<1>3. Good(0)
  <2> DEFINE h == [s \in Upto(0) |-> 0]
  <2>1. \A s \in Upto(0) : s = {}
    BY <1>1
  <2>2. h \in [Upto(0) -> Int] /\ \A s \in Upto(0) : h[s] = Step(h, s)
    BY <2>1
  <2> QED
    BY <2>2
<1>4. ASSUME NEW n \in Nat, Good(n) PROVE Good(n + 1)
  <2>1. PICK h \in [Upto(n) -> Int] : \A s \in Upto(n) : h[s] = Step(h, s)
    BY <1>4
  <2> DEFINE k == [s \in Upto(n + 1) |-> Step(h, s)]
  <2>2. ASSUME NEW s \in Upto(n + 1), s # {}
        PROVE  Taken(s) \in S /\ s \ {Taken(s)} \in Upto(n) /\ s \ {Taken(s)} \in Upto(n + 1)
    BY <1>1, <1>2, <2>2
  <2>3. ASSUME NEW s \in Upto(n + 1) PROVE Step(h, s) \in Int
    <3>1. CASE s = {}
      BY <3>1
    <3>2. CASE s # {}
      <4>1. g[Taken(s)] \in Int /\ h[s \ {Taken(s)}] \in Int
        BY <2>1, <2>2, <3>2
      <4> QED
        BY <3>2, <4>1
    <3> QED
      BY <3>1, <3>2
  <2>4. ASSUME NEW s \in Upto(n) PROVE s \in Upto(n + 1) /\ k[s] = h[s]
    <3>1. s \in Upto(n + 1)
      BY <1>1
    <3> QED
      BY <2>1, <3>1
  <2>5. ASSUME NEW s \in Upto(n + 1) PROVE k[s] = Step(k, s)
    <3>1. CASE s = {}
      BY <3>1
    <3>2. CASE s # {}
      <4>1. k[s \ {Taken(s)}] = h[s \ {Taken(s)}]
        BY <2>2, <2>4, <3>2
      <4> QED
        BY <3>2, <4>1
    <3> QED
      BY <3>1, <3>2
  <2>6. k \in [Upto(n + 1) -> Int]
    BY <2>3
  <2> QED
    BY <2>5, <2>6
<1>5. ASSUME NEW n \in Nat PROVE Good(n)
  <2> SUFFICES ASSUME ~Good(n) PROVE FALSE
    OBVIOUS
  <2> HIDE DEF Good
  <2>1. PICK m \in Bad : \A k \in Bad : m <= k
    <3>1. Bad \subseteq Nat /\ n \in Bad
      OBVIOUS
    <3> HIDE DEF Bad
    <3> QED
      BY <3>1, LeastNumber
  <2>2. m \in Nat /\ ~Good(m) /\ m # 0
    BY <1>3, <2>1
  <2>3. m - 1 \in Nat /\ m - 1 \notin Bad
    BY <2>1, <2>2
  <2>4. Good(m - 1)
    BY <2>3
  <2>5. (m - 1) + 1 = m
    BY <2>2
  <2> QED
    BY <1>4, <2>2, <2>3, <2>4, <2>5
<1> DEFINE n == Cardinality(S)
<1>6. n \in Nat /\ \A s \in SUBSET S : Cardinality(s) <= n
  BY FS_CardinalityType, FS_Subset
<1>7. Upto(n) = SUBSET S
  BY <1>6
<1>8. PICK h \in [Upto(n) -> Int] : \A s \in Upto(n) : h[s] = Step(h, s)
  <2> HIDE DEF n
  <2>1. Good(n)
    BY <1>5, <1>6
  <2> QED
    BY <2>1
<1>9. h \in [SUBSET S -> Int] /\ \A s \in SUBSET S : h[s] = Step(h, s)
  BY <1>7, <1>8
<1>10. h = [s \in SUBSET S |-> Step(h, s)]
  <2> HIDE DEF Step
  <2> QED
    BY <1>9
<1> QED
  BY <1>9, <1>10 DEF SumsOf

\* What satisfies the equation of the sums has numbers for its values.
LEMMA SumTyped ==
    ASSUME NEW S, IsFiniteSet(S), NEW g \in [S -> Int], NEW h, SumsOf(S, g, h)
    PROVE  h[S] \in Int /\ ((\A x \in S : g[x] >= 0) => h[S] >= 0)
<1> DEFINE ok(s) == h[s] \in Int /\ ((\A x \in S : g[x] >= 0) => h[s] >= 0)
           Bad == {n \in Nat : \E s \in SUBSET S : Cardinality(s) = n /\ ~ok(s)}
<1> SUFFICES ASSUME ~ok(S) PROVE FALSE
  OBVIOUS
<1>1. Cardinality(S) \in Bad
  <2>1. S \in SUBSET S /\ Cardinality(S) \in Nat
    BY FS_CardinalityType
  <2> HIDE DEF ok
  <2> QED
    BY <2>1
<1>2. PICK m \in Bad : \A k \in Bad : m <= k
  <2>1. Bad \subseteq Nat
    OBVIOUS
  <2> HIDE DEF Bad
  <2> QED
    BY <1>1, <2>1, LeastNumber
<1>3. PICK s \in SUBSET S : Cardinality(s) = m /\ ~ok(s)
  BY <1>2
<1>4. \A t \in SUBSET S : h[t] = IF t = {} THEN 0 ELSE g[Taken(t)] + h[t \ {Taken(t)}]
  BY Zenon DEF SumsOf
<1>5. s # {}
  BY <1>3, <1>4
<1>6. /\ Taken(s) \in S /\ s \ {Taken(s)} \in SUBSET S
      /\ m \in Nat /\ m > 0 /\ Cardinality(s \ {Taken(s)}) = m - 1
  BY <1>3, <1>5, TakenOut
<1>7. ok(s \ {Taken(s)})
  <2> DEFINE t == s \ {Taken(s)}
  <2> HIDE DEF ok, t
  <2>1. m - 1 \in Nat /\ m - 1 \notin Bad
    BY <1>2, <1>6
  <2>2. t \in SUBSET S /\ Cardinality(t) = m - 1
    BY <1>6 DEF t
  <2> QED
    BY <2>1, <2>2 DEF t
<1>8. h[s] = g[Taken(s)] + h[s \ {Taken(s)}] /\ g[Taken(s)] \in Int
  BY <1>4, <1>5, <1>6
<1> DEFINE x == g[Taken(s)]
           y == h[s \ {Taken(s)}]
<1>9. h[s] = x + y /\ x \in Int /\ y \in Int
  BY <1>7, <1>8
<1>10. (\A z \in S : g[z] >= 0) => x >= 0 /\ y >= 0
  BY <1>6, <1>7
<1> HIDE DEF x, y
<1>11. ok(s)
  BY <1>9, <1>10
<1> QED
  BY <1>3, <1>11

\* What SumFunction of the community modules adds up is such a sum.
LEMMA SumIs ==
    ASSUME NEW S, IsFiniteSet(S), NEW g \in [S -> Int]
    PROVE  SumFunction(g) \in Int /\ ((\A x \in S : g[x] >= 0) => SumFunction(g) >= 0)
<1> DEFINE sums == CHOOSE h : SumsOf(S, g, h)
<1>1. SumsOf(S, g, sums)
  BY SumsExist, Zenon
<1>2. SumFunction(g) = sums[S]
  <2>1. DOMAIN g = S
    OBVIOUS
  <2>2. SumFunction(g) = SumFunctionOnSet(g, S)
    BY <2>1 DEF SumFunction
  <2> QED
    BY <2>2 DEF SumFunctionOnSet, FoldFunctionOnSet, MapThenFoldSet, SumsOf, Taken
<1> HIDE DEF sums
<1> QED
  BY <1>1, <1>2, SumTyped

-----------------------------------------------------------------------------
(* The order of the ranking                                                *)

\* Two tuples differ somewhere first.
LEMMA FirstDifference ==
    ASSUME NEW n \in Nat, NEW x \in Tuples(n), NEW y \in Tuples(n), x # y
    PROVE  \E d \in 1 .. n : x[d] # y[d] /\ \A e \in 1 .. d - 1 : x[e] = y[e]
<1> DEFINE D == {d \in 1 .. n : x[d] # y[d]}
<1>1. D # {} /\ D \subseteq Nat
  BY DEF Tuples
<1>2. PICK d \in D : \A e \in D : d <= e
  <2> HIDE DEF D
  <2> QED
    BY <1>1, LeastNumber
<1>3. ASSUME NEW e \in 1 .. d - 1 PROVE x[e] = y[e]
  <2>1. e \in 1 .. n /\ ~(d <= e)
    OBVIOUS
  <2>2. e \notin D
    BY <1>2, <2>1
  <2> QED
    BY <2>1, <2>2
<1> QED
  BY <1>2, <1>3

\* Of two tuples one is larger, or they are the same.
LEMMA OneBeats ==
    ASSUME NEW n \in Nat, NEW x \in Tuples(n), NEW y \in Tuples(n), x # y
    PROVE  Beats(x, y) \/ Beats(y, x)
<1>1. PICK d \in 1 .. n : x[d] # y[d] /\ \A e \in 1 .. d - 1 : x[e] = y[e]
  BY FirstDifference
<1>2. DOMAIN x = 1 .. n /\ DOMAIN y = 1 .. n /\ x[d] \in Int /\ y[d] \in Int
  BY DEF Tuples
<1>3. x[d] > y[d] \/ y[d] > x[d]
  BY <1>1, <1>2
<1> QED
  BY <1>1, <1>2, <1>3 DEF Beats

\* None is larger than itself.
LEMMA NoneBeatsItself ==
    ASSUME NEW n \in Nat, NEW x \in Tuples(n)
    PROVE  ~Beats(x, x)
BY DEF Beats, Tuples

\* And the order is transitive.
LEMMA BeatsOn ==
    ASSUME NEW n \in Nat, NEW x \in Tuples(n), NEW y \in Tuples(n), NEW z \in Tuples(n),
           Beats(x, y), Beats(y, z)
    PROVE  Beats(x, z)
<1>1. DOMAIN x = 1 .. n /\ DOMAIN y = 1 .. n
      /\ \A e \in 1 .. n : x[e] \in Int /\ y[e] \in Int /\ z[e] \in Int
  BY DEF Tuples
<1>2. PICK d \in 1 .. n : x[d] > y[d] /\ \A e \in 1 .. d - 1 : x[e] = y[e]
  BY <1>1 DEF Beats
<1>3. PICK c \in 1 .. n : y[c] > z[c] /\ \A e \in 1 .. c - 1 : y[e] = z[e]
  BY <1>1 DEF Beats
<1>4. CASE d <= c
  <2>1. x[d] > z[d]
    BY <1>1, <1>2, <1>3, <1>4
  <2>2. \A e \in 1 .. d - 1 : x[e] = z[e]
    BY <1>2, <1>3, <1>4
  <2> QED
    BY <1>1, <2>1, <2>2 DEF Beats
<1>5. CASE c < d
  <2>1. x[c] > z[c]
    BY <1>1, <1>2, <1>3, <1>5
  <2>2. \A e \in 1 .. c - 1 : x[e] = z[e]
    BY <1>2, <1>3, <1>5
  <2> QED
    BY <1>1, <2>1, <2>2 DEF Beats
<1> QED
  BY <1>4, <1>5

-----------------------------------------------------------------------------
(* Orders, and sequences put in order                                      *)

\* Of two numbers one is ahead of the other, and whatever is ahead of the first
\* is ahead of the second.
LEMMA AheadOrder ==
    ASSUME NEW n \in Nat, NEW m \in Nat, NEW key \in [1 .. n -> Tuples(m)]
    PROVE  /\ \A i \in 1 .. n : ~Ahead(key, i, i)
           /\ \A i, j \in 1 .. n : i # j => Ahead(key, i, j) \/ Ahead(key, j, i)
           /\ \A i, j, k \in 1 .. n : Ahead(key, i, j) /\ Ahead(key, j, k) => Ahead(key, i, k)
<1>1. \A i \in 1 .. n : key[i] \in Tuples(m)
  OBVIOUS
<1>2. ASSUME NEW i \in 1 .. n PROVE ~Ahead(key, i, i)
  <2>1. ~Beats(key[i], key[i]) /\ ~(i < i)
    BY <1>1, NoneBeatsItself
  <2> QED
    BY <2>1 DEF Ahead
<1>3. ASSUME NEW i \in 1 .. n, NEW j \in 1 .. n, i # j PROVE Ahead(key, i, j) \/ Ahead(key, j, i)
  <2>1. CASE key[i] = key[j]
    <3>1. i < j \/ j < i
      BY <1>3
    <3> QED
      BY <2>1, <3>1 DEF Ahead
  <2>2. CASE key[i] # key[j]
    <3>1. Beats(key[i], key[j]) \/ Beats(key[j], key[i])
      BY <1>1, <2>2, OneBeats
    <3> QED
      BY <3>1 DEF Ahead
  <2> QED
    BY <2>1, <2>2
<1>4. ASSUME NEW i \in 1 .. n, NEW j \in 1 .. n, NEW k \in 1 .. n, Ahead(key, i, j), Ahead(key, j, k)
      PROVE  Ahead(key, i, k)
  <2>1. CASE Beats(key[i], key[j]) /\ Beats(key[j], key[k])
    <3>1. Beats(key[i], key[k])
      BY <1>1, <2>1, BeatsOn
    <3> QED
      BY <3>1 DEF Ahead
  <2>2. CASE Beats(key[i], key[j]) /\ key[j] = key[k]
    BY <2>2 DEF Ahead
  <2>3. CASE key[i] = key[j] /\ Beats(key[j], key[k])
    BY <2>3 DEF Ahead
  <2>4. CASE key[i] = key[j] /\ i < j /\ key[j] = key[k] /\ j < k
    BY <2>4 DEF Ahead
  <2> QED
    BY <1>4, <2>1, <2>2, <2>3, <2>4 DEF Ahead
<1> QED
  BY <1>2, <1>3, <1>4, Zenon

\* Falling orders the numbers: how many are ahead of each is another number for
\* each, so that there is one for each place.
LEMMA FallingIs ==
    ASSUME NEW n \in Nat, NEW m \in Nat, NEW key \in [1 .. n -> Tuples(m)]
    PROVE  Falling(n, key) \in Orders(n)
<1> DEFINE rank == [i \in 1 .. n |-> Cardinality(AllAhead(n, key, i))]
           f == Falling(n, key)
<1>1. IsFiniteSet(1 .. n) /\ Cardinality(1 .. n) = n
      /\ IsFiniteSet(0 .. n - 1) /\ Cardinality(0 .. n - 1) = n
  BY FS_Interval
<1>2. ASSUME NEW i \in 1 .. n
      PROVE  /\ IsFiniteSet(AllAhead(n, key, i)) /\ rank[i] \in Nat
             /\ AllAhead(n, key, i) \in SUBSET (1 .. n) /\ i \notin AllAhead(n, key, i)
  <2>1. AllAhead(n, key, i) \in SUBSET (1 .. n)
    BY DEF AllAhead
  <2>2. i \notin AllAhead(n, key, i)
    BY AheadOrder DEF AllAhead
  <2>3. IsFiniteSet(AllAhead(n, key, i))
    BY <1>1, <2>1, FS_Subset
  <2> QED
    BY <2>1, <2>2, <2>3, FS_CardinalityType
<1>3. ASSUME NEW i \in 1 .. n PROVE rank[i] \in 0 .. n - 1
  <2>1. AllAhead(n, key, i) \in SUBSET ((1 .. n) \ {i})
    BY <1>2
  <2>2. IsFiniteSet((1 .. n) \ {i}) /\ Cardinality((1 .. n) \ {i}) = n - 1
    BY <1>1, FS_RemoveElement
  <2>3. Cardinality(AllAhead(n, key, i)) <= n - 1
    BY <2>1, <2>2, FS_Subset
  <2> QED
    BY <1>2, <2>3
<1>4. ASSUME NEW i \in 1 .. n, NEW j \in 1 .. n, Ahead(key, i, j) PROVE rank[i] < rank[j]
  <2> DEFINE A == AllAhead(n, key, i)
             B == AllAhead(n, key, j)
  <2>1. A \in SUBSET B
    BY <1>4, AheadOrder DEF AllAhead
  <2>2. i \in B /\ i \notin A
    BY <1>2, <1>4 DEF AllAhead
  <2>3. IsFiniteSet(B) /\ IsFiniteSet(A) /\ Cardinality(A) \in Nat /\ Cardinality(B) \in Nat
    BY <1>2
  <2> HIDE DEF A, B
  <2>4. Cardinality(A) <= Cardinality(B) /\ Cardinality(A) # Cardinality(B)
    BY <2>1, <2>2, <2>3, FS_Subset
  <2>5. Cardinality(A) < Cardinality(B)
    BY <2>3, <2>4
  <2> QED
    BY <2>5 DEF A, B
<1>5. \A i, j \in 1 .. n : rank[i] = rank[j] => i = j
  <2> SUFFICES ASSUME NEW i \in 1 .. n, NEW j \in 1 .. n, rank[i] = rank[j], i # j PROVE FALSE
    OBVIOUS
  <2>1. Ahead(key, i, j) \/ Ahead(key, j, i)
    BY AheadOrder
  <2>2. rank[i] < rank[j] \/ rank[j] < rank[i]
    BY <1>4, <2>1
  <2>3. rank[i] \in 0 .. n - 1 /\ rank[j] \in 0 .. n - 1
    BY <1>3
  <2> HIDE DEF rank
  <2> QED
    BY <2>2, <2>3
<1>6. rank \in [1 .. n -> 0 .. n - 1]
  <2> DEFINE r(i) == Cardinality(AllAhead(n, key, i))
  <2>1. \A i \in 1 .. n : r(i) \in 0 .. n - 1
    BY <1>3
  <2>2. rank = [i \in 1 .. n |-> r(i)]
    OBVIOUS
  <2> HIDE DEF r, rank
  <2> QED
    BY <2>1, <2>2
<1> HIDE DEF rank
<1>7. \A k \in 0 .. n - 1 : \E i \in 1 .. n : rank[i] = k
  <2>1. rank \in Injection(1 .. n, 0 .. n - 1)
    BY <1>5, <1>6 DEF Injection, IsInjective
  <2>2. rank \in Surjection(1 .. n, 0 .. n - 1)
    BY <1>1, <2>1, FS_Injection
  <2> QED
    BY <2>2 DEF Surjection
<1>8. f = [k \in 1 .. n |-> CHOOSE i \in 1 .. n : Cardinality(AllAhead(n, key, i)) = k - 1]
  BY DEF Falling, AllAhead, Ahead
<1>0. \A i \in 1 .. n : rank[i] = Cardinality(AllAhead(n, key, i))
  BY DEF rank
<1> HIDE DEF f
<1>9. ASSUME NEW k \in 1 .. n PROVE f[k] \in 1 .. n /\ rank[f[k]] = k - 1
  <2>1. k - 1 \in 0 .. n - 1
    OBVIOUS
  <2>2. PICK i \in 1 .. n : rank[i] = k - 1
    BY <1>7, <2>1
  <2>3. Cardinality(AllAhead(n, key, i)) = k - 1
    BY <1>0, <2>2
  <2>4. f[k] = CHOOSE j \in 1 .. n : Cardinality(AllAhead(n, key, j)) = k - 1
    BY <1>8
  <2>5. f[k] \in 1 .. n /\ Cardinality(AllAhead(n, key, f[k])) = k - 1
    BY <2>3, <2>4, Zenon
  <2> QED
    BY <1>0, <2>5
<1>10. f \in [1 .. n -> 1 .. n]
  BY <1>8, <1>9
<1>11. ASSUME NEW i \in 1 .. n, NEW j \in 1 .. n, f[i] = f[j] PROVE i = j
  <2>1. i - 1 = j - 1
    BY <1>9, <1>11
  <2> QED
    BY <2>1
<1>12. ASSUME NEW i \in 1 .. n PROVE \E k \in 1 .. n : f[k] = i
  <2>1. rank[i] \in 0 .. n - 1
    BY <1>6
  <2>2. rank[i] + 1 \in 1 .. n /\ (rank[i] + 1) - 1 = rank[i]
    BY <2>1
  <2>3. rank[f[rank[i] + 1]] = rank[i] /\ f[rank[i] + 1] \in 1 .. n
    BY <1>9, <2>2
  <2>4. f[rank[i] + 1] = i
    BY <1>5, <2>3
  <2> QED
    BY <2>2, <2>4
<1> QED
  BY <1>10, <1>11, <1>12, Zenon DEF Orders, f

\* A sequence arranged holds the same elements, each in another place.
LEMMA ArrangedIs ==
    ASSUME NEW T, NEW list \in Seq(T), NEW m \in Nat, NEW key \in [1 .. Len(list) -> Tuples(m)]
    PROVE  /\ Arranged(list, key) \in Seq(T) /\ Len(Arranged(list, key)) = Len(list)
           /\ \E by \in Orders(Len(list)) : \A k \in 1 .. Len(list) : Arranged(list, key)[k] = list[by[k]]
<1> DEFINE n == Len(list)
           by == Falling(n, key)
           g == [k \in 1 .. n |-> list[by[k]]]
<1>1. n \in Nat /\ DOMAIN list = 1 .. n
  OBVIOUS
<1>2. by \in Orders(n)
  BY <1>1, FallingIs
<1>3. Arranged(list, key) = SubSeq(g, 1, n)
  BY <1>1 DEF Arranged
<1> HIDE DEF by, n
<1>4. ASSUME NEW k \in 1 .. n PROVE g[k] \in T
  <2>1. by[k] \in 1 .. n
    BY <1>2 DEF Orders
  <2>2. list[by[k]] \in T
    BY <2>1, ElementOfSeq DEF n
  <2> QED
    BY <2>2
<1> HIDE DEF g
<1>5. /\ SubSeq(g, 1, n) \in Seq(T)
      /\ Len(SubSeq(g, 1, n)) = n
      /\ \A k \in 1 .. n : SubSeq(g, 1, n)[k] = g[k]
  <2>1. /\ SubSeq(g, 1, n) \in Seq(T)
        /\ Len(SubSeq(g, 1, n)) = IF 1 <= n THEN n - 1 + 1 ELSE 0
        /\ \A k \in 1 .. n - 1 + 1 : SubSeq(g, 1, n)[k] = g[1 + k - 1]
    <3>1. 1 \in Int /\ n \in Int
      BY <1>1
    <3> QED
      BY <1>4, <3>1, SubSeqProperties
  <2>2. n - 1 + 1 = n /\ (~(1 <= n) => n = 0)
    BY <1>1
  <2>3. \A k \in 1 .. n : 1 + k - 1 = k
    OBVIOUS
  <2> QED
    BY <2>1, <2>2, <2>3
<1>6. \A k \in 1 .. n : g[k] = list[by[k]]
  BY DEF g
<1> QED
  BY <1>2, <1>3, <1>5, <1>6 DEF n

-----------------------------------------------------------------------------
(* Loops                                                                   *)

\* What holds at first and is kept by each of n steps holds all along.
LEMMA KeptAllAlong ==
    ASSUME NEW n \in Nat, NEW f, NEW S, f[0] \in S, \A k \in 1 .. n : f[k - 1] \in S => f[k] \in S
    PROVE  \A k \in 0 .. n : f[k] \in S
<1> DEFINE Bad == {k \in 0 .. n : f[k] \notin S}
<1> SUFFICES ASSUME Bad # {} PROVE FALSE
  OBVIOUS
<1>1. PICK m \in Bad : \A k \in Bad : m <= k
  <2>1. Bad \subseteq Nat
    OBVIOUS
  <2> HIDE DEF Bad
  <2> QED
    BY <2>1, LeastNumber
<1>2. m \in 1 .. n
  BY <1>1
<1>3. m - 1 \in 0 .. n /\ ~(m <= m - 1)
  BY <1>2
<1>4. f[m - 1] \in S
  BY <1>1, <1>3
<1> QED
  BY <1>1, <1>2, <1>4

\* There is such a function: a loop of n steps that stay within the set.
LEMMA LoopRuns ==
    ASSUME NEW n \in Nat, NEW S, NEW first \in S, NEW F \in Rounds(n, S)
    PROVE  RunsOf(n, S, first, F) # {}
<1>0. F \in [1 .. n -> [S -> S]]
  BY DEF Rounds
<1> DEFINE Good(m) == \E h \in [0 .. m -> S] : h[0] = first /\ \A k \in 1 .. m : h[k] = F[k][h[k - 1]]
<1>1. Good(0)
  <2> DEFINE h == [k \in 0 .. 0 |-> first]
  <2>1. h \in [0 .. 0 -> S] /\ h[0] = first
    OBVIOUS
  <2> HIDE DEF h
  <2> QED
    BY <2>1
<1>2. ASSUME NEW m \in 1 .. n, Good(m - 1) PROVE Good(m)
  <2>1. PICK g \in [0 .. m - 1 -> S] : g[0] = first /\ \A k \in 1 .. m - 1 : g[k] = F[k][g[k - 1]]
    BY <1>2
  <2> DEFINE h == [k \in 0 .. m |-> IF k = m THEN F[m][g[m - 1]] ELSE g[k]]
  <2>2. m - 1 \in 0 .. m - 1 /\ \A k \in 0 .. m : k # m => k \in 0 .. m - 1
    OBVIOUS
  <2>0. m \in 1 .. n /\ F \in [1 .. n -> [S -> S]]
    BY <1>0
  <2>3. g[m - 1] \in S /\ F[m][g[m - 1]] \in S /\ \A k \in 0 .. m - 1 : g[k] \in S
    BY <2>0, <2>2
  <2>4. h \in [0 .. m -> S]
    BY <2>2, <2>3
  <2>5. h[0] = first
    BY <2>1
  <2>6. ASSUME NEW k \in 1 .. m PROVE h[k] = F[k][h[k - 1]]
    <3>1. k \in 0 .. m /\ k - 1 \in 0 .. m /\ k - 1 # m
      OBVIOUS
    <3>2. h[k - 1] = g[k - 1]
      BY <3>1
    <3>3. CASE k = m
      BY <3>1, <3>2, <3>3
    <3>4. CASE k # m
      <4>1. k \in 1 .. m - 1
        BY <3>4
      <4> QED
        BY <2>1, <3>1, <3>2, <3>4, <4>1
    <3> QED
      BY <3>3, <3>4
  <2> HIDE DEF h
  <2> QED
    BY <2>4, <2>5, <2>6
<1> DEFINE f == [m \in 0 .. n |-> Good(m)]
<1> HIDE DEF Good
<1>3. f[0] \in {TRUE} /\ \A k \in 1 .. n : f[k - 1] \in {TRUE} => f[k] \in {TRUE}
  <2>1. f[0] = Good(0) /\ \A k \in 1 .. n : f[k] = Good(k) /\ f[k - 1] = Good(k - 1)
    OBVIOUS
  <2>2. \A k \in 1 .. n : Good(k - 1) => Good(k)
    BY <1>2
  <2> HIDE DEF f
  <2> QED
    BY <1>1, <2>1, <2>2
<1>4. \A k \in 0 .. n : f[k] \in {TRUE}
  <2> HIDE DEF f
  <2> QED
    BY <1>3, KeptAllAlong
<1>5. f[n] = Good(n) /\ n \in 0 .. n
  OBVIOUS
<1>6. Good(n)
  BY <1>4, <1>5
<1> QED
  BY <1>6 DEF Good, RunsOf

-----------------------------------------------------------------------------
(* A sequence without some of its elements                                 *)

\* One more element is gone or kept.
LEMMA OneKept ==
    ASSUME NEW T, NEW list \in Seq(T), NEW gone, NEW k \in 1 .. Len(list),
           NEW s \in KeptOf(T, list, gone, k - 1)
    PROVE  (IF list[k] \in gone THEN s ELSE Append(s, list[k])) \in KeptOf(T, list, gone, k)
<1>1. /\ s \in Seq(T) /\ k - 1 \in Nat /\ k \in Nat /\ k <= Len(list) /\ Len(list) \in Nat /\ Len(s) \in Nat
      /\ \A j \in 1 .. Len(s) : \E i \in 1 .. k - 1 : s[j] = list[i] /\ list[i] \notin gone
      /\ \A i \in 1 .. k - 1 : list[i] \notin gone => \E j \in 1 .. Len(s) : s[j] = list[i]
      /\ Len(s) <= k - 1 /\ ((\E i \in 1 .. k - 1 : list[i] \in gone) => Len(s) < k - 1)
      /\ Distinct(list) => Distinct(s)
  BY DEF KeptOf
<1>2. \A i \in 1 .. k : i \in 1 .. k - 1 \/ i = k
  BY <1>1
<1>3. \A i \in 1 .. k - 1 : i \in 1 .. k /\ i \in 1 .. Len(list) /\ i # k
  BY <1>1
<1>4. CASE list[k] \in gone
  <2>1. \A j \in 1 .. Len(s) : \E i \in 1 .. k : s[j] = list[i] /\ list[i] \notin gone
    BY <1>1, <1>3, Zenon
  <2>2. \A i \in 1 .. k : list[i] \notin gone => \E j \in 1 .. Len(s) : s[j] = list[i]
    BY <1>1, <1>2, <1>4, Zenon
  <2>3. Len(s) < k
    BY <1>1
  <2>4. s \in KeptOf(T, list, gone, k)
    BY <1>1, <2>1, <2>2, <2>3 DEF KeptOf
  <2> QED
    BY <1>4, <2>4
<1>5. CASE list[k] \notin gone
  <2> DEFINE t == Append(s, list[k])
  <2>1. /\ list[k] \in T /\ t \in Seq(T) /\ Len(t) = Len(s) + 1
        /\ t[Len(s) + 1] = list[k] /\ \A j \in 1 .. Len(s) : t[j] = s[j]
    BY <1>1, ElementOfSeq, AppendProperties
  <2> HIDE DEF t
  <2>2. \A j \in 1 .. Len(t) : j \in 1 .. Len(s) \/ j = Len(s) + 1
    BY <1>1, <2>1
  <2>3. Len(s) + 1 \in 1 .. Len(t) /\ \A j \in 1 .. Len(s) : j \in 1 .. Len(t)
    BY <1>1, <2>1
  <2>4. ASSUME NEW j \in 1 .. Len(t) PROVE \E i \in 1 .. k : t[j] = list[i] /\ list[i] \notin gone
    <3>1. CASE j \in 1 .. Len(s)
      BY <1>1, <1>3, <2>1, <3>1
    <3>2. CASE j = Len(s) + 1
      <4>1. k \in 1 .. k
        BY <1>1
      <4> QED
        BY <1>5, <2>1, <3>2, <4>1
    <3> QED
      BY <2>2, <3>1, <3>2
  <2>5. ASSUME NEW i \in 1 .. k, list[i] \notin gone PROVE \E j \in 1 .. Len(t) : t[j] = list[i]
    <3>1. CASE i \in 1 .. k - 1
      <4>1. PICK j \in 1 .. Len(s) : s[j] = list[i]
        BY <1>1, <2>5, <3>1
      <4> QED
        BY <2>1, <2>3, <4>1
    <3>2. CASE i = k
      BY <2>1, <2>3, <3>2
    <3> QED
      BY <1>2, <3>1, <3>2
  <2>6. Len(t) <= k /\ ((\E i \in 1 .. k : list[i] \in gone) => Len(t) < k)
    <3>1. (\E i \in 1 .. k : list[i] \in gone) => (\E i \in 1 .. k - 1 : list[i] \in gone)
      BY <1>2, <1>5
    <3>2. Len(t) <= k
      BY <1>1, <2>1
    <3>3. ASSUME \E i \in 1 .. k : list[i] \in gone PROVE Len(t) < k
      <4>1. Len(s) < k - 1
        BY <1>1, <3>1, <3>3
      <4> QED
        BY <1>1, <2>1, <4>1
    <3> QED
      BY <3>2, <3>3
  <2>7. ASSUME Distinct(list) PROVE Distinct(t)
    <3> SUFFICES ASSUME NEW i \in 1 .. Len(t), NEW j \in 1 .. Len(t), t[i] = t[j], i # j PROVE FALSE
      BY DEF Distinct
    <3>1. \A j1 \in 1 .. Len(s) : s[j1] # list[k]
      <4> SUFFICES ASSUME NEW j1 \in 1 .. Len(s), s[j1] = list[k] PROVE FALSE
        OBVIOUS
      <4>1. PICK i1 \in 1 .. k - 1 : s[j1] = list[i1]
        BY <1>1
      <4>2. i1 \in 1 .. Len(list) /\ i1 # k
        BY <1>3, <4>1
      <4> QED
        BY <2>7, <4>1, <4>2 DEF Distinct
    <3>2. CASE i \in 1 .. Len(s) /\ j \in 1 .. Len(s)
      <4>1. s[i] = s[j]
        BY <2>1, <3>2
      <4> QED
        BY <1>1, <2>7, <3>2, <4>1 DEF Distinct
    <3>3. CASE i \in 1 .. Len(s) /\ j = Len(s) + 1
      BY <2>1, <3>1, <3>3
    <3>4. CASE j \in 1 .. Len(s) /\ i = Len(s) + 1
      BY <2>1, <3>1, <3>4
    <3>5. i \in 1 .. Len(t) /\ j \in 1 .. Len(t) /\ ~(i = Len(s) + 1 /\ j = Len(s) + 1)
      OBVIOUS
    <3>6. i \in 1 .. Len(s) \/ i = Len(s) + 1
      BY <2>2, <3>5, Zenon
    <3>7. j \in 1 .. Len(s) \/ j = Len(s) + 1
      BY <2>2, <3>5, Zenon
    <3> QED
      BY <3>2, <3>3, <3>4, <3>5, <3>6, <3>7
  <2>8. t \in KeptOf(T, list, gone, k)
    BY <2>1, <2>4, <2>5, <2>6, <2>7 DEF KeptOf
  <2> QED
    BY <1>5, <2>8 DEF t
<1> QED
  BY <1>4, <1>5

\* Without keeps what is not gone, in distinct places if it was.
LEMMA WithoutIs ==
    ASSUME NEW T, NEW list \in Seq(T), NEW gone
    PROVE  Without(list, gone) \in KeptOf(T, list, gone, Len(list))
<1> DEFINE N == Len(list)
           step(k, s) == IF list[k] \in gone THEN s ELSE Append(s, list[k])
           F == [k \in 1 .. N |-> [s \in Seq(T) |-> step(k, s)]]
           first == <<>>
           kept == CHOOSE f : Keeping(list, gone, f)
<1>1. N \in Nat /\ \A k \in 1 .. N : list[k] \in T
  BY ElementOfSeq
<1>2. first \in Seq(T) /\ first \in KeptOf(T, list, gone, 0)
  BY EmptySeq DEF KeptOf, Distinct
<1>3. Keeping(list, gone, kept)
  <2>1. \A k \in 1 .. N : \A s \in Seq(T) : step(k, s) \in Seq(T)
    BY <1>1, AppendProperties
  <2> HIDE DEF N, step, first
  <2>2. F \in [1 .. N -> [Seq(T) -> Seq(T)]]
    BY <2>1
  <2>3. \A k \in 1 .. N : \A s \in Seq(T) : F[k][s] = step(k, s)
    OBVIOUS
  <2> HIDE DEF F
  <2>4. PICK h \in [0 .. N -> Seq(T)] : h[0] = first /\ \A k \in 1 .. N : h[k] = F[k][h[k - 1]]
    <3>1. F \in Rounds(N, Seq(T))
      BY <2>2 DEF Rounds
    <3>2. RunsOf(N, Seq(T), first, F) # {}
      BY <1>1, <1>2, <3>1, LoopRuns
    <3> QED
      BY <3>2 DEF RunsOf
  <2>5. ASSUME NEW k \in 0 .. N PROVE h[k] = IF k = 0 THEN first ELSE step(k, h[k - 1])
    <3>1. CASE k = 0
      BY <2>4, <3>1
    <3>2. CASE k # 0
      <4>1. k \in 1 .. N /\ k - 1 \in 0 .. N
        BY <1>1, <3>2
      <4>2. h[k - 1] \in Seq(T)
        BY <4>1
      <4> QED
        BY <2>3, <2>4, <3>2, <4>1, <4>2
    <3> QED
      BY <3>1, <3>2
  <2>6. h = [k \in 0 .. N |-> IF k = 0 THEN first ELSE step(k, h[k - 1])]
    BY <2>5
  <2>7. Keeping(list, gone, h)
    BY <2>6 DEF Keeping, N, step, first
  <2> QED
    BY <2>7, Zenon
<1>4. Without(list, gone) = kept[N]
  BY DEF Without, Keeping
<1> HIDE DEF kept
<1>5. kept = [k \in 0 .. N |-> IF k = 0 THEN first ELSE step(k, kept[k - 1])]
  BY <1>3 DEF Keeping
<1> HIDE DEF first, step, N
<1>6. kept[0] = first /\ \A k \in 1 .. N : kept[k] = step(k, kept[k - 1])
  BY <1>1, <1>5
<1> DEFINE Right(k) == kept[k] \in KeptOf(T, list, gone, k)
           f == [k \in 0 .. N |-> Right(k)]
<1>7. ASSUME NEW k \in 1 .. N, Right(k - 1) PROVE Right(k)
  <2>1. k \in 1 .. Len(list)
    BY DEF N
  <2>2. step(k, kept[k - 1]) \in KeptOf(T, list, gone, k)
    BY <1>7, <2>1, OneKept DEF step
  <2> QED
    BY <1>6, <2>2
<1>8. Right(0)
  BY <1>2, <1>6
<1> HIDE DEF Right
<1>9. f[0] \in {TRUE} /\ \A k \in 1 .. N : f[k - 1] \in {TRUE} => f[k] \in {TRUE}
  <2>1. 0 \in 0 .. N /\ \A k \in 1 .. N : k \in 0 .. N /\ k - 1 \in 0 .. N
    BY <1>1
  <2>2. f[0] = Right(0) /\ \A k \in 1 .. N : f[k] = Right(k) /\ f[k - 1] = Right(k - 1)
    BY <2>1
  <2> HIDE DEF f
  <2> QED
    BY <1>7, <1>8, <2>2
<1>10. \A k \in 0 .. N : f[k] \in {TRUE}
  <2> HIDE DEF f
  <2> QED
    BY <1>1, <1>9, KeptAllAlong
<1>11. N \in 0 .. N /\ f[N] = Right(N)
  BY <1>1
<1>12. Right(N)
  BY <1>10, <1>11
<1> QED
  BY <1>4, <1>12 DEF Right, N

-----------------------------------------------------------------------------
(* Sequences made of functions, and induction over their places            *)

\* A function on 1 .. n is a sequence of n elements.
LEMMA FunctionSeq ==
    ASSUME NEW n \in Nat, NEW S, NEW f \in [1 .. n -> S]
    PROVE  f \in Seq(S) /\ Len(f) = n /\ DOMAIN f = 1 .. n
<1>1. f \in Seq(S)
  BY SeqDef
<1>2. Len(f) \in Nat /\ DOMAIN f = 1 .. Len(f) /\ DOMAIN f = 1 .. n
  BY <1>1, LenProperties
<1>3. Len(f) = n
  <2>1. \A k \in Nat : k \in 1 .. n <=> k \in 1 .. Len(f)
    BY <1>2
  <2>2. n + 1 \in Nat /\ Len(f) + 1 \in Nat
    BY <1>2
  <2>3. ~(n < Len(f))
    <3>1. n + 1 \in 1 .. Len(f) <=> n + 1 \in 1 .. n
      BY <2>1, <2>2
    <3> QED
      BY <1>2, <3>1
  <2>4. ~(Len(f) < n)
    <3>1. Len(f) + 1 \in 1 .. Len(f) <=> Len(f) + 1 \in 1 .. n
      BY <2>1, <2>2
    <3> QED
      BY <1>2, <3>1
  <2> QED
    BY <1>2, <2>3, <2>4
<1> QED
  BY <1>1, <1>2, <1>3

\* What holds of 0 and is handed on by each place to the next holds of all.
LEMMA Stepwise ==
    ASSUME NEW n \in Nat, NEW R, 0 \in R, \A k \in 1 .. n : k - 1 \in R => k \in R
    PROVE  \A k \in 0 .. n : k \in R
<1> DEFINE f == [k \in 0 .. n |-> k \in R]
<1>1. f[0] \in {TRUE} /\ \A k \in 1 .. n : f[k - 1] \in {TRUE} => f[k] \in {TRUE}
  <2>1. 0 \in 0 .. n /\ \A k \in 1 .. n : k \in 0 .. n /\ k - 1 \in 0 .. n
    OBVIOUS
  <2>2. f[0] = (0 \in R) /\ \A k \in 1 .. n : f[k] = (k \in R) /\ f[k - 1] = (k - 1 \in R)
    BY <2>1
  <2> HIDE DEF f
  <2> QED
    BY <2>2
<1>2. \A k \in 0 .. n : f[k] \in {TRUE}
  <2> HIDE DEF f
  <2> QED
    BY <1>1, KeptAllAlong
<1> QED
  BY <1>2

-----------------------------------------------------------------------------
(* Lengths in a line                                                       *)

\* Each begins a cut behind the one before.
LEMMA StartsIs ==
    ASSUME NEW lengths \in Seq(Nat)
    PROVE  /\ Starts(lengths) \in [1 .. Len(lengths) + 1 -> Nat] /\ Starts(lengths)[1] = 0
           /\ \A k \in 1 .. Len(lengths) : Starts(lengths)[k + 1] = Starts(lengths)[k] + lengths[k] + Kerf
<1> DEFINE n == Len(lengths)
           F == [k \in 1 .. n |-> [x \in Nat |-> x + lengths[k] + Kerf]]
           st == CHOOSE start : StartOf(lengths, start)
<1>1. n \in Nat /\ Kerf \in Nat /\ \A k \in 1 .. n : lengths[k] \in Nat
  BY ElementOfSeq, KerfAssumption DEF KerfAssumption
<1>2. StartOf(lengths, st)
  <2> HIDE DEF n
  <2>1. F \in Rounds(n, Nat) /\ \A k \in 1 .. n : \A x \in Nat : F[k][x] = x + lengths[k] + Kerf
    BY <1>1 DEF Rounds
  <2> HIDE DEF F
  <2>2. PICK h \in [0 .. n -> Nat] : h[0] = 0 /\ \A k \in 1 .. n : h[k] = F[k][h[k - 1]]
    <3>1. RunsOf(n, Nat, 0, F) # {}
      BY <1>1, <2>1, LoopRuns
    <3> QED
      BY <3>1 DEF RunsOf
  <2> DEFINE g == [k \in 1 .. n + 1 |-> h[k - 1]]
  <2>3. ASSUME NEW k \in 1 .. n + 1
        PROVE g[k] = IF k = 1 THEN 0 ELSE g[k - 1] + lengths[k - 1] + Kerf
    <3>1. CASE k = 1
      BY <2>2, <3>1
    <3>2. CASE k # 1
      <4>1. k - 1 \in 1 .. n /\ k - 1 \in 1 .. n + 1 /\ (k - 1) - 1 \in 0 .. n /\ k - 1 \in 0 .. n
        BY <1>1, <3>2
      <4>2. g[k] = h[k - 1] /\ g[k - 1] = h[(k - 1) - 1] /\ h[(k - 1) - 1] \in Nat
        BY <4>1
      <4>3. h[k - 1] = F[k - 1][h[(k - 1) - 1]]
        BY <2>2, <4>1
      <4>4. h[k - 1] = h[(k - 1) - 1] + lengths[k - 1] + Kerf
        BY <2>1, <4>1, <4>2, <4>3
      <4> QED
        BY <3>2, <4>2, <4>4
    <3> QED
      BY <3>1, <3>2
  <2>4. g = [k \in 1 .. n + 1 |-> IF k = 1 THEN 0 ELSE g[k - 1] + lengths[k - 1] + Kerf]
    <3>1. g = [k \in 1 .. n + 1 |-> g[k]]
      OBVIOUS
    <3> HIDE DEF g
    <3> QED
      BY <2>3, <3>1
  <2>5. StartOf(lengths, g)
    <3> HIDE DEF g
    <3> QED
      BY <2>4 DEF StartOf, n
  <2> QED
    BY <2>5, Zenon
<1>3. Starts(lengths) = st
  BY DEF Starts, StartOf
<1> HIDE DEF st
<1>4. st = [k \in 1 .. n + 1 |-> IF k = 1 THEN 0 ELSE st[k - 1] + lengths[k - 1] + Kerf]
  BY <1>2 DEF StartOf
<1> HIDE DEF n
<1>5. st[1] = 0 /\ \A k \in 1 .. n : st[k + 1] = st[k] + lengths[k] + Kerf
  <2>1. st[1] = 0
    BY <1>1, <1>4
  <2>2. ASSUME NEW k \in 1 .. n PROVE st[k + 1] = st[k] + lengths[k] + Kerf
    <3>1. k + 1 \in 1 .. n + 1 /\ k + 1 # 1 /\ (k + 1) - 1 = k
      BY <1>1
    <3> QED
      BY <1>4, <3>1
  <2> QED
    BY <2>1, <2>2
<1> DEFINE R == {k \in 0 .. n : st[k + 1] \in Nat}
<1>6. \A k \in 0 .. n : k \in R
  <2>1. 0 \in R
    BY <1>1, <1>5
  <2>2. ASSUME NEW k \in 1 .. n, k - 1 \in R PROVE k \in R
    <3>1. (k - 1) + 1 = k /\ k \in 0 .. n
      BY <1>1
    <3>2. st[k] \in Nat
      BY <2>2, <3>1
    <3>3. st[k + 1] = st[k] + lengths[k] + Kerf /\ lengths[k] \in Nat
      BY <1>1, <1>5
    <3>4. st[k + 1] \in Nat
      BY <1>1, <3>2, <3>3
    <3> QED
      BY <3>1, <3>4
  <2> HIDE DEF R
  <2> QED
    BY <1>1, <2>1, <2>2, Stepwise
<1>7. \A k \in 1 .. n + 1 : st[k] \in Nat
  <2> SUFFICES ASSUME NEW k \in 1 .. n + 1 PROVE st[k] \in Nat
    OBVIOUS
  <2>1. k - 1 \in 0 .. n /\ (k - 1) + 1 = k
    BY <1>1
  <2> QED
    BY <1>6, <2>1
<1>8. st \in [1 .. n + 1 -> Nat]
  <2>1. st = [k \in 1 .. n + 1 |-> st[k]]
    BY <1>4
  <2> QED
    BY <1>7, <2>1
<1> QED
  BY <1>3, <1>5, <1>8 DEF n

\* So all that come before end a cut before it.
LEMMA StartsApart ==
    ASSUME NEW lengths \in Seq(Nat), NEW j \in 1 .. Len(lengths), NEW k \in 1 .. Len(lengths) + 1, j < k
    PROVE  Starts(lengths)[j] + lengths[j] + Kerf <= Starts(lengths)[k]
<1> DEFINE n == Len(lengths)
           st == Starts(lengths)
           R == {i \in 0 .. n : i < j \/ st[j] + lengths[j] + Kerf <= st[i + 1]}
<1>1. n \in Nat /\ Kerf \in Nat /\ \A i \in 1 .. n : lengths[i] \in Nat
  BY ElementOfSeq, KerfAssumption DEF KerfAssumption
<1>2. st \in [1 .. n + 1 -> Nat] /\ \A i \in 1 .. n : st[i + 1] = st[i] + lengths[i] + Kerf
  BY StartsIs
<1> HIDE DEF n, st
<1>3. j \in 1 .. n /\ k \in 1 .. n + 1
  BY DEF n
<1>4. 0 \in R
  BY <1>1, <1>3
<1>5. ASSUME NEW i \in 1 .. n, i - 1 \in R PROVE i \in R
  <2>1. i \in 0 .. n /\ (i - 1) + 1 = i /\ st[i] \in Nat /\ lengths[i] \in Nat /\ i \in 1 .. n + 1
    BY <1>1, <1>2
  <2>2. st[i + 1] = st[i] + lengths[i] + Kerf
    BY <1>2
  <2>3. CASE i < j
    BY <2>1, <2>3
  <2>4. CASE i = j
    <3>1. st[j] + lengths[j] + Kerf <= st[i + 1]
      BY <1>1, <2>1, <2>2, <2>4
    <3> QED
      BY <2>1, <3>1
  <2>5. CASE j < i
    <3>1. st[j] + lengths[j] + Kerf <= st[i]
      BY <1>3, <1>5, <2>1, <2>5
    <3>2. st[j] \in Nat /\ lengths[j] \in Nat
      BY <1>1, <1>2, <1>3
    <3>3. st[j] + lengths[j] + Kerf <= st[i + 1]
      <4> DEFINE x == st[j] + lengths[j]
                 y == st[i]
                 z == st[i + 1]
                 l == lengths[i]
      <4>1. x \in Nat /\ y \in Nat /\ l \in Nat /\ z = y + l + Kerf /\ x + Kerf <= y
        BY <2>1, <2>2, <3>1, <3>2
      <4> HIDE DEF x, y, z, l
      <4>2. x + Kerf <= z
        BY <1>1, <4>1
      <4> QED
        BY <4>2 DEF x, z
    <3> QED
      BY <2>1, <3>3
  <2> QED
    BY <1>3, <2>3, <2>4, <2>5
<1>6. \A i \in 0 .. n : i \in R
  <2> HIDE DEF R
  <2> QED
    BY <1>1, <1>4, <1>5, Stepwise
<1>7. k - 1 \in 0 .. n /\ (k - 1) + 1 = k /\ ~(k - 1 < j)
  BY <1>1, <1>3
<1>8. st[j] + lengths[j] + Kerf <= st[k]
  BY <1>6, <1>7
<1> QED
  BY <1>8 DEF st

-----------------------------------------------------------------------------
(* The extent of a line does not depend on the order                       *)

\* The sums of a function over the subsets of S, with any element taken out.
Splits(S, g, h) ==
    h[{}] = 0 /\ \A s \in SUBSET S : \A x \in s : h[s] = g[x] + h[s \ {x}]

\* The sums do not depend on the order in which the elements are taken.
LEMMA SumSplits ==
    ASSUME NEW S, IsFiniteSet(S), NEW g \in [S -> Int], NEW h \in [SUBSET S -> Int], SumsOf(S, g, h)
    PROVE  Splits(S, g, h)
<1> DEFINE ok(s) == \A x \in s : h[s] = g[x] + h[s \ {x}]
           Bad == {n \in Nat : \E s \in SUBSET S : Cardinality(s) = n /\ ~ok(s)}
<1>1. \A s \in SUBSET S : h[s] = IF s = {} THEN 0 ELSE g[Taken(s)] + h[s \ {Taken(s)}]
  BY Zenon DEF SumsOf
<1> SUFFICES ASSUME NEW s0 \in SUBSET S, ~ok(s0) PROVE FALSE
  BY <1>1 DEF Splits
<1>2. Cardinality(s0) \in Bad
  <2>1. Cardinality(s0) \in Nat
    BY FS_Subset, FS_CardinalityType
  <2> HIDE DEF ok
  <2> QED
    BY <2>1
<1>3. PICK m \in Bad : \A k \in Bad : m <= k
  <2>1. Bad \subseteq Nat
    OBVIOUS
  <2> HIDE DEF Bad
  <2> QED
    BY <1>2, <2>1, LeastNumber
<1>4. PICK s \in SUBSET S : Cardinality(s) = m /\ ~ok(s)
  BY <1>3
<1>5. PICK x \in s : h[s] # g[x] + h[s \ {x}]
  BY <1>4
<1> DEFINE y == Taken(s)
<1>6. /\ y \in s /\ y \in S /\ x \in S /\ m \in Nat /\ m > 0
      /\ \A z \in s : s \ {z} \in SUBSET S /\ Cardinality(s \ {z}) = m - 1
  <2>1. IsFiniteSet(s)
    BY FS_Subset
  <2>2. \A z \in s : s \ {z} \in SUBSET S /\ Cardinality(s \ {z}) = m - 1
    BY <1>4, <2>1, FS_RemoveElement
  <2> QED
    BY <1>4, <1>5, <2>2, TakenOut
<1>7. h[s] = g[y] + h[s \ {y}]
  BY <1>1, <1>5
<1> HIDE DEF y
<1>8. \A z \in s : ok(s \ {z})
  <2> HIDE DEF ok
  <2>1. m - 1 \in Nat /\ m - 1 \notin Bad
    BY <1>3, <1>6
  <2> QED
    BY <1>6, <2>1
<1>9. x # y
  BY <1>5, <1>7
<1>10. h[s \ {y}] = g[x] + h[(s \ {y}) \ {x}] /\ h[s \ {x}] = g[y] + h[(s \ {x}) \ {y}]
  <2>1. x \in s \ {y} /\ y \in s \ {x}
    BY <1>5, <1>6, <1>9
  <2>2. ok(s \ {y}) /\ ok(s \ {x})
    BY <1>5, <1>6, <1>8
  <2> QED
    BY <2>1, <2>2
<1>11. (s \ {y}) \ {x} = (s \ {x}) \ {y}
  OBVIOUS
<1> DEFINE gx == g[x]
           gy == g[y]
           rest == h[(s \ {x}) \ {y}]
<1>12. gx \in Int /\ gy \in Int /\ rest \in Int
  BY <1>6
<1>13. h[s] = gy + (gx + rest) /\ h[s \ {x}] = gy + rest
  BY <1>7, <1>10, <1>11
<1>14. h[s] # gx + h[s \ {x}]
  BY <1>5
<1> HIDE DEF gx, gy, rest
<1> QED
  BY <1>12, <1>13, <1>14

\* What the first k of a line take is the sum over the numbers they have in
\* another order.
LEMMA LineIs ==
    ASSUME NEW lengths \in Seq(Nat), NEW other \in Seq(Nat), Len(other) = Len(lengths),
           NEW by \in Orders(Len(lengths)), \A k \in 1 .. Len(lengths) : other[k] = lengths[by[k]],
           NEW h \in [SUBSET (1 .. Len(lengths)) -> Int],
           Splits(1 .. Len(lengths), [k \in 1 .. Len(lengths) |-> lengths[k] + Kerf], h)
    PROVE  Starts(other)[Len(lengths) + 1] = h[1 .. Len(lengths)]
<1> DEFINE n == Len(lengths)
           g == [k \in 1 .. n |-> lengths[k] + Kerf]
           st == Starts(other)
           Image(k) == {by[i] : i \in 1 .. k}
           R == {k \in 0 .. n : st[k + 1] = h[Image(k)]}
<1>1. n \in Nat /\ Kerf \in Nat /\ \A k \in 1 .. n : lengths[k] \in Nat
  BY ElementOfSeq, KerfAssumption DEF KerfAssumption
<1>2. st[1] = 0 /\ \A k \in 1 .. n : st[k + 1] = st[k] + other[k] + Kerf /\ st[k] \in Nat
  <2>1. /\ st \in [1 .. n + 1 -> Nat] /\ st[1] = 0
        /\ \A k \in 1 .. n : st[k + 1] = st[k] + other[k] + Kerf
    BY StartsIs
  <2> HIDE DEF st, n
  <2>2. \A k \in 1 .. n : k \in 1 .. n + 1
    BY <1>1
  <2> QED
    BY <2>1, <2>2
<1>3. /\ \A i \in 1 .. n : by[i] \in 1 .. n
      /\ \A i, j \in 1 .. n : by[i] = by[j] => i = j
      /\ \A i \in 1 .. n : \E k \in 1 .. n : by[k] = i
  BY DEF Orders
<1>4. h[{}] = 0 /\ \A s \in SUBSET (1 .. n) : \A x \in s : h[s] = g[x] + h[s \ {x}]
  BY DEF Splits
<1>5. \A k \in 1 .. n : other[k] = lengths[by[k]] /\ g[by[k]] = lengths[by[k]] + Kerf
  BY <1>3
<1> HIDE DEF n, st, g
<1>6. 0 \in R
  <2>1. Image(0) = {} /\ 0 + 1 = 1 /\ 0 \in 0 .. n
    BY <1>1
  <2> HIDE DEF Image
  <2> QED
    BY <1>2, <1>4, <2>1
<1>7. ASSUME NEW k \in 1 .. n, k - 1 \in R PROVE k \in R
  <2>1. k \in 0 .. n /\ (k - 1) + 1 = k
    BY <1>1
  <2>2. st[k] = h[Image(k - 1)]
    BY <1>7, <2>1
  <2>3. \A i \in 1 .. k : i \in 1 .. n
    BY <1>1
  <2>4. \A i \in 1 .. k : i \in 1 .. k - 1 \/ i = k
    BY <1>1
  <2>5. \A i \in 1 .. k - 1 : i \in 1 .. k /\ i # k
    BY <1>1
  <2>6. k \in 1 .. k
    BY <1>1
  <2>7. Image(k) \in SUBSET (1 .. n) /\ by[k] \in Image(k)
    <3>1. \A i \in 1 .. k : by[i] \in 1 .. n
      BY <1>3, <2>3
    <3>2. by[k] \in Image(k)
      BY <2>6
    <3> QED
      BY <3>1, <3>2
  <2>8. Image(k) \ {by[k]} = Image(k - 1)
    <3>1. ASSUME NEW x \in Image(k), x # by[k] PROVE x \in Image(k - 1)
      <4>1. PICK i \in 1 .. k : x = by[i]
        BY <3>1
      <4>2. i \in 1 .. k - 1
        BY <2>4, <3>1, <4>1
      <4> QED
        BY <4>1, <4>2
    <3>2. ASSUME NEW x \in Image(k - 1) PROVE x \in Image(k) /\ x # by[k]
      <4>1. PICK i \in 1 .. k - 1 : x = by[i]
        BY <3>2
      <4>2. i \in 1 .. k /\ i # k /\ i \in 1 .. n
        BY <2>3, <2>5
      <4>3. by[i] # by[k]
        BY <1>3, <4>2
      <4> QED
        BY <4>1, <4>2, <4>3
    <3> HIDE DEF Image
    <3> QED
      BY <3>1, <3>2
  <2> HIDE DEF Image
  <2>9. h[Image(k)] = g[by[k]] + h[Image(k - 1)]
    <3> DEFINE I == Image(k)
               x == by[k]
    <3>1. I \in SUBSET (1 .. n) /\ x \in I /\ I \ {x} = Image(k - 1)
      BY <2>7, <2>8
    <3> HIDE DEF I, x
    <3>2. h[I] = g[x] + h[I \ {x}]
      BY <1>4, <3>1, Zenon
    <3> QED
      BY <3>1, <3>2 DEF I, x
  <2>10. st[k + 1] = st[k] + other[k] + Kerf
    BY <1>2
  <2>11. g[by[k]] = other[k] + Kerf /\ other[k] \in Nat /\ st[k] \in Nat
    BY <1>1, <1>2, <1>3, <1>5
  <2> DEFINE x == st[k]
             y == other[k]
             z == g[by[k]]
  <2>12. h[Image(k)] = z + x /\ z = y + Kerf /\ st[k + 1] = x + y + Kerf /\ x \in Nat /\ y \in Nat
    BY <2>2, <2>9, <2>10, <2>11
  <2> HIDE DEF x, y, z
  <2>13. st[k + 1] = h[Image(k)]
    BY <1>1, <2>12
  <2> QED
    BY <2>1, <2>13
<1>8. \A k \in 0 .. n : k \in R
  <2> HIDE DEF R
  <2> QED
    BY <1>1, <1>6, <1>7, Stepwise
<1>9. n \in 0 .. n /\ Image(n) = 1 .. n
  <2>1. ASSUME NEW i \in 1 .. n PROVE i \in Image(n)
    <3>1. PICK k \in 1 .. n : by[k] = i
      BY <1>3
    <3> QED
      BY <3>1
  <2>2. \A x \in Image(n) : x \in 1 .. n
    BY <1>3
  <2>3. n \in 0 .. n
    BY <1>1
  <2> HIDE DEF Image
  <2>4. Image(n) = 1 .. n
    BY <2>1, <2>2
  <2> QED
    BY <2>3, <2>4
<1> QED
  BY <1>8, <1>9 DEF st, n

\* So a line is as long in any order.
LEMMA SameExtent ==
    ASSUME NEW lengths \in Seq(Nat), NEW other \in Seq(Nat), Len(other) = Len(lengths),
           NEW by \in Orders(Len(lengths)), \A k \in 1 .. Len(lengths) : other[k] = lengths[by[k]]
    PROVE  Starts(other)[Len(lengths) + 1] = Starts(lengths)[Len(lengths) + 1]
<1> DEFINE n == Len(lengths)
           g == [k \in 1 .. n |-> lengths[k] + Kerf]
           id == [k \in 1 .. n |-> k]
<1>1. n \in Nat /\ \A k \in 1 .. n : lengths[k] + Kerf \in Int
  BY ElementOfSeq, KerfAssumption DEF KerfAssumption
<1>2. g \in [1 .. n -> Int]
  BY <1>1
<1>3. IsFiniteSet(1 .. n)
  BY <1>1, FS_Interval
<1>4. PICK h \in [SUBSET (1 .. n) -> Int] : SumsOf(1 .. n, g, h)
  <2> HIDE DEF g, n
  <2> QED
    BY <1>2, <1>3, SumsExist
<1>5. Splits(1 .. n, g, h)
  <2> HIDE DEF g, n
  <2> QED
    BY <1>2, <1>3, <1>4, SumSplits
<1>6. id \in Orders(n) /\ \A k \in 1 .. n : lengths[k] = lengths[id[k]]
  BY DEF Orders
<1>7. Starts(other)[n + 1] = h[1 .. n]
  BY <1>5, LineIs
<1>8. Starts(lengths)[n + 1] = h[1 .. n]
  <2> HIDE DEF id
  <2> QED
    BY <1>5, <1>6, LineIs
<1> QED
  BY <1>7, <1>8

-----------------------------------------------------------------------------
(* Sequences joined                                                        *)

\* One more sequence is joined to those before.
LEMMA OneJoined ==
    ASSUME NEW T, NEW seqs \in Seq(Seq(T)), NEW n \in 1 .. Len(seqs), NEW flat \in FlatOf(T, seqs, n - 1)
    PROVE  flat \o seqs[n] \in FlatOf(T, seqs, n)
<1> DEFINE new == seqs[n]
           l == Len(flat)
           m == Len(new)
           all == flat \o new
<1>1. new \in Seq(T) /\ flat \in Seq(T) /\ m \in Nat /\ l \in Nat /\ n \in Nat
  BY ElementOfSeq, LenProperties DEF FlatOf
<1>2. PICK place \in PlacesOf(seqs, n - 1, flat) : TRUE
  BY DEF FlatOf
<1>3. /\ \A i \in 1 .. l : place[i] \in Spots(seqs, n - 1)
      /\ \A i, j \in 1 .. l : place[i] = place[j] => i = j
      /\ \A si \in Spots(seqs, n - 1) : \E i \in 1 .. l : place[i] = si
      /\ \A i \in 1 .. l : flat[i] = seqs[place[i][1]][place[i][2]]
  BY <1>2 DEF PlacesOf
<1>4. /\ all \in Seq(T) /\ Len(all) = l + m
      /\ \A i \in 1 .. l + m : all[i] = IF i <= l THEN flat[i] ELSE new[i - l]
  BY <1>1, ConcatProperties
<1> HIDE DEF all
<1> DEFINE to == [i \in 1 .. l + m |-> IF i <= l THEN place[i] ELSE <<n, i - l>>]
<1>5. \A si \in Spots(seqs, n - 1) : si \in Spots(seqs, n) /\ si[1] # n
  BY <1>1 DEF Spots
<1>6. \A i \in 1 .. l + m : ~(i <= l) => i - l \in 1 .. m /\ <<n, i - l>> \in Spots(seqs, n)
  BY <1>1 DEF Spots
<1>7. \A si \in Spots(seqs, n) : si \in Spots(seqs, n - 1) \/ (si[1] = n /\ si[2] \in 1 .. m /\ si = <<n, si[2]>>)
  BY <1>1 DEF Spots
<1>8. \A i \in 1 .. l + m : i <= l => i \in 1 .. l
  BY <1>1
<1> HIDE DEF new, l, m
<1>9. \A i \in 1 .. l + m : to[i] \in Spots(seqs, n)
  BY <1>3, <1>5, <1>6, <1>8
<1>10. ASSUME NEW i \in 1 .. l + m, NEW j \in 1 .. l + m, to[i] = to[j] PROVE i = j
  <2>1. CASE i <= l /\ j <= l
    BY <1>3, <1>8, <1>10, <2>1
  <2>2. CASE ~(i <= l) /\ ~(j <= l)
    <3>1. i - l = j - l
      BY <1>10, <2>2
    <3> QED
      BY <1>1, <3>1
  <2>3. CASE i <= l /\ ~(j <= l)
    <3>1. to[i][1] # n
      BY <1>3, <1>5, <1>8, <2>3
    <3>2. to[j][1] = n
      BY <2>3
    <3> QED
      BY <1>10, <3>1, <3>2
  <2>4. CASE ~(i <= l) /\ j <= l
    <3>1. to[j][1] # n
      BY <1>3, <1>5, <1>8, <2>4
    <3>2. to[i][1] = n
      BY <2>4
    <3> QED
      BY <1>10, <3>1, <3>2
  <2> QED
    BY <2>1, <2>2, <2>3, <2>4
<1>11. ASSUME NEW si \in Spots(seqs, n) PROVE \E i \in 1 .. l + m : to[i] = si
  <2>1. CASE si \in Spots(seqs, n - 1)
    <3>1. PICK i \in 1 .. l : place[i] = si
      BY <1>3, <2>1
    <3>2. i \in 1 .. l + m /\ i <= l
      BY <1>1
    <3> QED
      BY <3>1, <3>2
  <2>2. CASE si[1] = n /\ si[2] \in 1 .. m /\ si = <<n, si[2]>>
    <3> DEFINE i == l + si[2]
    <3>1. i \in 1 .. l + m /\ ~(i <= l) /\ i - l = si[2]
      BY <1>1, <2>2
    <3>2. to[i] = <<n, si[2]>>
      BY <3>1
    <3> HIDE DEF i, to
    <3> QED
      BY <2>2, <3>1, <3>2
  <2> QED
    BY <1>7, <2>1, <2>2
<1>12. ASSUME NEW i \in 1 .. l + m PROVE all[i] = seqs[to[i][1]][to[i][2]]
  <2>1. CASE i <= l
    <3>1. to[i] = place[i] /\ all[i] = flat[i] /\ i \in 1 .. l
      BY <1>4, <1>8, <2>1
    <3> HIDE DEF to
    <3> QED
      BY <1>3, <3>1
  <2>2. CASE ~(i <= l)
    <3>1. to[i] = <<n, i - l>> /\ all[i] = new[i - l]
      BY <1>4, <2>2
    <3> HIDE DEF to
    <3> QED
      BY <3>1 DEF new
  <2> QED
    BY <2>1, <2>2
<1>13. to \in PlacesOf(seqs, n, all)
  <2>1. to \in [1 .. l + m -> Spots(seqs, n)]
    <3>1. to = [i \in 1 .. l + m |-> to[i]]
      OBVIOUS
    <3> HIDE DEF to
    <3> QED
      BY <1>9, <3>1
  <2> HIDE DEF to
  <2> QED
    BY <1>4, <1>10, <1>11, <1>12, <2>1 DEF PlacesOf
<1> QED
  BY <1>4, <1>13 DEF FlatOf, all, new

\* Nothing is joined at first.
LEMMA NoneJoined ==
    ASSUME NEW T, NEW seqs
    PROVE  <<>> \in FlatOf(T, seqs, 0)
<1> DEFINE flat == <<>>
<1>1. flat \in Seq(T) /\ Len(flat) = 0
  BY EmptySeq
<1>2. Spots(seqs, 0) = {}
  BY DEF Spots
<1>3. \A i : i \notin 1 .. 0
  OBVIOUS
<1> DEFINE place == [i \in 1 .. 0 |-> i]
<1>4. place \in [1 .. 0 -> Spots(seqs, 0)]
  BY <1>3
<1> HIDE DEF flat, place
<1>5. place \in PlacesOf(seqs, 0, flat)
  BY <1>1, <1>2, <1>3, <1>4 DEF PlacesOf
<1> QED
  BY <1>1, <1>5 DEF FlatOf, flat

\* FlattenSeq of the community modules joins all of them.
LEMMA FlattenIs ==
    ASSUME NEW T, NEW seqs \in Seq(Seq(T))
    PROVE  FlattenSeq(seqs) \in FlatOf(T, seqs, Len(seqs))
<1> DEFINE n == Len(seqs)
<1>1. n \in Nat /\ \A k \in 1 .. n : seqs[k] \in Seq(T)
  BY ElementOfSeq, LenProperties
<1>2. CASE n = 0
  <2>1. seqs = <<>>
    BY <1>2, EmptySeq
  <2>2. FlattenSeq(seqs) = seqs
    BY <1>2 DEF FlattenSeq
  <2> QED
    BY <1>2, <2>1, <2>2, NoneJoined
<1>3. CASE n # 0
  <2> DEFINE fl == CHOOSE f : FlattenOf(seqs, f)
             first == <<>>
             F == [k \in 1 .. n |-> [x \in Seq(T) |-> x \o seqs[k]]]
  <2>1. FlattenSeq(seqs) = fl[n]
    BY <1>3 DEF FlattenSeq, FlattenOf
  <2>2. FlattenOf(seqs, fl)
    <3> HIDE DEF n
    <3>1. \A k \in 1 .. n : \A x \in Seq(T) : x \o seqs[k] \in Seq(T)
      BY <1>1, ConcatProperties
    <3>2. F \in Rounds(n, Seq(T)) /\ \A k \in 1 .. n : \A x \in Seq(T) : F[k][x] = x \o seqs[k]
      BY <3>1 DEF Rounds
    <3>3. first \in Seq(T)
      BY EmptySeq
    <3> HIDE DEF F, first
    <3>4. PICK h \in [0 .. n -> Seq(T)] : h[0] = first /\ \A k \in 1 .. n : h[k] = F[k][h[k - 1]]
      <4>1. RunsOf(n, Seq(T), first, F) # {}
        BY <1>1, <3>2, <3>3, LoopRuns
      <4> QED
        BY <4>1 DEF RunsOf
    <3>5. ASSUME NEW k \in 1 .. n PROVE h[k] = IF k = 1 THEN seqs[k] ELSE h[k - 1] \o seqs[k]
      <4>1. k - 1 \in 0 .. n /\ h[k - 1] \in Seq(T) /\ seqs[k] \in Seq(T)
        BY <1>1
      <4>2. h[k] = h[k - 1] \o seqs[k]
        BY <3>2, <3>4, <4>1
      <4>3. CASE k = 1
        <5>1. h[k - 1] = <<>>
          BY <3>4, <4>3 DEF first
        <5>2. <<>> \o seqs[k] = seqs[k]
          BY <4>1, ConcatEmptySeq
        <5> QED
          BY <4>2, <4>3, <5>1, <5>2
      <4> QED
        BY <4>2, <4>3
    <3> DEFINE g == [k \in 1 .. n |-> h[k]]
    <3>6. g = [k \in 1 .. n |-> IF k = 1 THEN seqs[k] ELSE g[k - 1] \o seqs[k]]
      <4>1. ASSUME NEW k \in 1 .. n PROVE g[k] = IF k = 1 THEN seqs[k] ELSE g[k - 1] \o seqs[k]
        <5>1. k # 1 => k - 1 \in 1 .. n
          BY <1>1
        <5>2. k # 1 => g[k - 1] = h[k - 1]
          BY <5>1
        <5>3. g[k] = h[k]
          OBVIOUS
        <5> HIDE DEF g
        <5> QED
          BY <3>5, <5>2, <5>3
      <4>2. g = [k \in 1 .. n |-> g[k]]
        OBVIOUS
      <4> HIDE DEF g
      <4> QED
        BY <4>1, <4>2
    <3>7. FlattenOf(seqs, g)
      <4> HIDE DEF g
      <4> QED
        BY <3>6 DEF FlattenOf, n
    <3> QED
      BY <3>7, Zenon
  <2> HIDE DEF fl, first
  <2>3. fl = [k \in 1 .. n |-> IF k = 1 THEN seqs[k] ELSE fl[k - 1] \o seqs[k]]
    BY <2>2 DEF FlattenOf
  <2> HIDE DEF n
  <2>4. \A k \in 1 .. n : fl[k] = IF k = 1 THEN seqs[k] ELSE fl[k - 1] \o seqs[k]
    BY <2>3
  <2> DEFINE R == {k \in 0 .. n : k = 0 \/ fl[k] \in FlatOf(T, seqs, k)}
  <2>5. 0 \in R
    BY <1>1
  <2>6. ASSUME NEW k \in 1 .. n, k - 1 \in R PROVE k \in R
    <3>1. k \in 0 .. n /\ k \in 1 .. Len(seqs)
      BY <1>1 DEF n
    <3>2. CASE k = 1
      <4>1. k - 1 = 0
        BY <3>2
      <4>2. <<>> \in FlatOf(T, seqs, k - 1)
        BY <4>1, NoneJoined
      <4>3. <<>> \o seqs[k] \in FlatOf(T, seqs, k)
        BY <3>1, <4>2, OneJoined
      <4>4. <<>> \o seqs[k] = seqs[k]
        BY <1>1, ConcatEmptySeq
      <4> QED
        BY <2>4, <3>1, <3>2, <4>3, <4>4
    <3>3. CASE k # 1
      <4>1. k - 1 # 0
        BY <3>3
      <4>2. fl[k - 1] \in FlatOf(T, seqs, k - 1)
        BY <2>6, <4>1
      <4>3. fl[k - 1] \o seqs[k] \in FlatOf(T, seqs, k)
        BY <3>1, <4>2, OneJoined
      <4> QED
        BY <2>4, <3>1, <3>3, <4>3
    <3> QED
      BY <3>2, <3>3
  <2>7. \A k \in 0 .. n : k \in R
    <3> HIDE DEF R
    <3> QED
      BY <1>1, <2>5, <2>6, Stepwise
  <2>8. n \in 0 .. n
    BY <1>1
  <2>9. fl[n] \in FlatOf(T, seqs, n)
    BY <1>3, <2>7, <2>8
  <2> QED
    BY <2>1, <2>9 DEF n
<1> QED
  BY <1>2, <1>3

-----------------------------------------------------------------------------
(* Rows of pieces                                                          *)

\* The widths of a row are numbers.
LEMMA WidthsTyped ==
    ASSUME NEW row \in Seq(Slabs), NEW axis \in Axes
    PROVE  /\ Widths(row, axis) \in Seq(Nat) /\ Len(Widths(row, axis)) = Len(row)
           /\ DOMAIN row = 1 .. Len(row) /\ Len(row) \in Nat
           /\ \A i \in 1 .. Len(row) : Widths(row, axis)[i] = row[i].size[axis] /\ row[i] \in Slabs
<1>1. DOMAIN row = 1 .. Len(row) /\ Len(row) \in Nat
  BY LenProperties
<1>2. \A i \in 1 .. Len(row) : row[i] \in Slabs
  BY ElementOfSeq
<1>3. \A i \in 1 .. Len(row) : row[i].size[axis] \in Nat
  BY <1>2 DEF Slabs, Lengths
<1>4. Widths(row, axis) \in [1 .. Len(row) -> Nat]
  BY <1>1, <1>3 DEF Widths
<1>5. \A i \in 1 .. Len(row) : Widths(row, axis)[i] = row[i].size[axis]
  BY <1>1 DEF Widths
<1> QED
  BY <1>1, <1>2, <1>4, <1>5, FunctionSeq

\* A row put somewhere.
LEMMA RowAtIs ==
    ASSUME NEW row \in Seq(Slabs), NEW axis \in Axes, NEW y \in Nat
    PROVE  /\ RowAt(row, y, axis) \in Seq(Numbered) /\ Len(RowAt(row, y, axis)) = Len(row)
           /\ \A i \in 1 .. Len(row) :
                 /\ RowAt(row, y, axis)[i].id = row[i].id
                 /\ RowAt(row, y, axis)[i].size = row[i].size
                 /\ RowAt(row, y, axis)[i].at[axis] = Starts(Widths(row, axis))[i]
                 /\ RowAt(row, y, axis)[i].at[Across(axis)] = y
<1> DEFINE st == Starts(Widths(row, axis))
           spot(i) == [a \in Axes |-> IF a = axis THEN st[i] ELSE y]
           n == Len(row)
<1>1. /\ DOMAIN row = 1 .. n /\ n \in Nat
      /\ \A i \in 1 .. n : row[i] \in Slabs
      /\ Widths(row, axis) \in Seq(Nat) /\ Len(Widths(row, axis)) = n
  BY WidthsTyped
<1>2. \A i \in 1 .. n : st[i] \in Nat
  <2>1. st \in [1 .. n + 1 -> Nat]
    BY <1>1, StartsIs
  <2>2. \A i \in 1 .. n : i \in 1 .. n + 1
    BY <1>1
  <2> HIDE DEF st, n
  <2> QED
    BY <2>1, <2>2
<1>3. RowAt(row, y, axis) = [i \in 1 .. n |-> [id |-> row[i].id, size |-> row[i].size, at |-> spot(i)]]
  BY <1>1 DEF RowAt
<1> HIDE DEF st, n
<1>4. \A i \in 1 .. n : spot(i) \in [Axes -> Nat] /\ spot(i)[axis] = st[i] /\ spot(i)[Across(axis)] = y
  BY <1>2, AcrossAxis
<1> HIDE DEF spot
<1>5. \A i \in 1 .. n : [id |-> row[i].id, size |-> row[i].size, at |-> spot(i)] \in Numbered
  BY <1>1, <1>4 DEF Slabs, Numbered
<1>6. RowAt(row, y, axis) \in [1 .. n -> Numbered]
  BY <1>3, <1>5
<1>7. \A i \in 1 .. n :
          RowAt(row, y, axis)[i] = [id |-> row[i].id, size |-> row[i].size, at |-> spot(i)]
  BY <1>3
<1>8. RowAt(row, y, axis) \in Seq(Numbered) /\ Len(RowAt(row, y, axis)) = n
  BY <1>1, <1>6, FunctionSeq
<1> DEFINE ra == RowAt(row, y, axis)
<1> HIDE DEF ra
<1>9. ASSUME NEW i \in 1 .. n
      PROVE  ra[i].id = row[i].id /\ ra[i].size = row[i].size /\ ra[i].at[axis] = st[i] /\ ra[i].at[Across(axis)] = y
  <2>1. ra[i] = [id |-> row[i].id, size |-> row[i].size, at |-> spot(i)]
    BY <1>7 DEF ra
  <2>2. ra[i].id = row[i].id /\ ra[i].size = row[i].size /\ ra[i].at = spot(i)
    BY <2>1
  <2> QED
    BY <1>4, <2>2
<1> QED
  BY <1>8, <1>9, Zenon DEF n, st, ra

\* Every piece of some rows is laid where it belongs, and nothing else.
LEMMA InRowsIs ==
    ASSUME NEW rows \in Seq(Seq(Slabs)), NEW depths \in Seq(Nat), Len(depths) = Len(rows), NEW axis \in Axes
    PROVE  /\ InRows(rows, depths, axis) \in Seq(Numbered)
           /\ Laying(rows, depths, axis, InRows(rows, depths, axis)) # {}
<1> DEFINE n == Len(rows)
           top == Starts(depths)
           seqs == [k \in 1 .. n |-> RowAt(rows[k], top[k], axis)]
           flat == InRows(rows, depths, axis)
<1>1. n \in Nat /\ DOMAIN rows = 1 .. n /\ \A k \in 1 .. n : rows[k] \in Seq(Slabs)
  BY LenProperties, ElementOfSeq
<1>2. \A k \in 1 .. n : top[k] \in Nat
  <2>1. top \in [1 .. n + 1 -> Nat]
    BY StartsIs
  <2>2. \A i \in 1 .. n : i \in 1 .. n + 1
    BY <1>1
  <2> HIDE DEF top, n
  <2> QED
    BY <2>1, <2>2
<1>3. flat = FlattenSeq(seqs)
  BY <1>1 DEF InRows, RowAt, Widths
<1> HIDE DEF flat, n, top
<1>4. ASSUME NEW k \in 1 .. n
      PROVE  /\ seqs[k] \in Seq(Numbered) /\ Len(seqs[k]) = Len(rows[k])
             /\ \A i \in 1 .. Len(rows[k]) :
                   /\ seqs[k][i].id = rows[k][i].id
                   /\ seqs[k][i].size = rows[k][i].size
                   /\ seqs[k][i].at[axis] = Starts(Widths(rows[k], axis))[i]
                   /\ seqs[k][i].at[Across(axis)] = top[k]
  <2>1. seqs[k] = RowAt(rows[k], top[k], axis)
    OBVIOUS
  <2> HIDE DEF seqs
  <2> QED
    BY <1>1, <1>2, <2>1, RowAtIs
<1>5. seqs \in Seq(Seq(Numbered)) /\ Len(seqs) = n
  <2>1. seqs \in [1 .. n -> Seq(Numbered)]
    BY <1>4
  <2> HIDE DEF seqs
  <2> QED
    BY <1>1, <2>1, FunctionSeq
<1> HIDE DEF seqs
<1>6. flat \in FlatOf(Numbered, seqs, n)
  BY <1>3, <1>5, FlattenIs
<1>7. PICK place \in PlacesOf(seqs, n, flat) : TRUE
  BY <1>6 DEF FlatOf
<1>8. Spots(seqs, n) = Spots(rows, n)
  <2>1. \A si \in (1 .. n) \X Nat : Len(seqs[si[1]]) = Len(rows[si[1]])
    BY <1>4
  <2> QED
    BY <2>1 DEF Spots
<1>9. \A i \in 1 .. Len(flat) : place[i][1] \in 1 .. n /\ place[i][2] \in 1 .. Len(rows[place[i][1]])
  BY <1>7, <1>8 DEF PlacesOf, Spots
<1>10. ASSUME NEW i \in 1 .. Len(flat)
       PROVE  /\ flat[i].id = rows[place[i][1]][place[i][2]].id
              /\ flat[i].size = rows[place[i][1]][place[i][2]].size
              /\ flat[i].at[axis] = Starts(Widths(rows[place[i][1]], axis))[place[i][2]]
              /\ flat[i].at[Across(axis)] = top[place[i][1]]
  <2> DEFINE r == place[i][1]
             c == place[i][2]
  <2>1. flat[i] = seqs[r][c] /\ r \in 1 .. n /\ c \in 1 .. Len(rows[r])
    BY <1>7, <1>9 DEF PlacesOf
  <2> HIDE DEF r, c
  <2>2. flat[i].id = rows[r][c].id /\ flat[i].size = rows[r][c].size
        /\ flat[i].at[axis] = Starts(Widths(rows[r], axis))[c] /\ flat[i].at[Across(axis)] = top[r]
    BY <1>4, <2>1
  <2> QED
    BY <2>2 DEF r, c
<1>11. place \in Laying(rows, depths, axis, flat)
  <2>1. /\ place \in [1 .. Len(flat) -> Spots(rows, Len(rows))]
        /\ \A i, j \in 1 .. Len(flat) : place[i] = place[j] => i = j
        /\ \A si \in Spots(rows, Len(rows)) : \E i \in 1 .. Len(flat) : place[i] = si
    BY <1>7, <1>8 DEF PlacesOf, n
  <2> QED
    BY <1>10, <2>1 DEF Laying, top
<1> QED
  BY <1>6, <1>11 DEF FlatOf, flat

\* Pieces of which one ends a cut before the other along an axis are not too
\* close.
LEMMA SeparateClear ==
    ASSUME NEW p \in Pieces, NEW q \in Pieces, NEW a \in Axes,
           Hi(p, a) + Kerf <= Lo(q, a) \/ Hi(q, a) + Kerf <= Lo(p, a)
    PROVE  ~TooClose(p, q)
<1> DEFINE g == Gap(p, q, a)
           o == Gap(p, q, Across(a))
<1>1. Across(a) \in Axes /\ Kerf \in Nat
  BY AcrossAxis, KerfAssumption DEF KerfAssumption
<1>2. g \in Nat /\ o \in Nat
  BY <1>1, GapNumber
<1>3. g >= Kerf
  <2>1. g >= Lo(q, a) - Hi(p, a) /\ g >= Lo(p, a) - Hi(q, a)
    BY GapNumber
  <2>2. Lo(q, a) \in Nat /\ Hi(p, a) \in Nat /\ Lo(p, a) \in Nat /\ Hi(q, a) \in Nat
    BY PieceNumbers
  <2> HIDE DEF g
  <2> QED
    BY <1>1, <1>2, <2>1, <2>2
<1>4. TooClose(p, q) <=> g * g + o * o < Kerf * Kerf
  <2>1. CASE a = 1
    <3>1. Across(a) = 2
      BY <2>1 DEF Across
    <3> QED
      BY <2>1, <3>1 DEF TooClose
  <2>2. CASE a = 2
    <3>1. Across(a) = 1
      BY <2>2 DEF Across
    <3> DEFINE x == g * g
               y == o * o
    <3>2. x \in Nat /\ y \in Nat
      BY <1>2
    <3>3. TooClose(p, q) <=> y + x < Kerf * Kerf
      BY <2>2, <3>1 DEF TooClose
    <3> HIDE DEF x, y
    <3>4. x + y = y + x
      BY <3>2
    <3>5. TooClose(p, q) <=> x + y < Kerf * Kerf
      BY <3>3, <3>4
    <3> QED
      BY <3>5 DEF x, y
  <2> QED
    BY <2>1, <2>2 DEF Axes
<1> HIDE DEF g, o
<1>5. Kerf * Kerf <= g * g /\ Kerf * Kerf \in Nat
  BY <1>1, <1>2, <1>3, ProductsGrow
<1>6. o * o \in Nat /\ g * g \in Nat
  BY <1>2
<1> DEFINE x == g * g
           y == o * o
           z == Kerf * Kerf
<1>7. x \in Nat /\ y \in Nat /\ z \in Nat /\ z <= x
  BY <1>5, <1>6
<1>8. TooClose(p, q) <=> x + y < z
  BY <1>4
<1> HIDE DEF x, y, z
<1> QED
  BY <1>7, <1>8

\* Numbered pieces are pieces.
LEMMA NumberedPieces ==
    ASSUME NEW pieces \in Seq(Numbered)
    PROVE  /\ pieces \in Seq(Pieces) /\ DOMAIN pieces = 1 .. Len(pieces) /\ Len(pieces) \in Nat
           /\ \A i \in 1 .. Len(pieces) : pieces[i] \in Numbered /\ pieces[i] \in Pieces
<1>1. Numbered \subseteq Pieces
  BY DEF Numbered, Pieces
<1>2. pieces \in Seq(Pieces)
  BY <1>1, SeqMonotonic
<1> QED
  BY <1>1, <1>2, LenProperties, ElementOfSeq

\* Rows whose pieces are no deeper than they are leave a cut between any two
\* pieces, and lie on a sheet that is long enough for the rows and their depths.
LEMMA RowsFit ==
    ASSUME NEW rows \in Seq(Seq(Slabs)), NEW depths \in Seq(Nat), Len(depths) = Len(rows), NEW axis \in Axes,
           \A k \in 1 .. Len(rows) : \A i \in 1 .. Len(rows[k]) :
                rows[k][i].size[Across(axis)] <= depths[k],
           NEW size \in [Axes -> Lengths],
           Starts(depths)[Len(rows) + 1] <= size[Across(axis)] + Kerf,
           \A k \in 1 .. Len(rows) : Starts(Widths(rows[k], axis))[Len(rows[k]) + 1] <= size[axis] + Kerf
    PROVE  /\ InRows(rows, depths, axis) \in Seq(Numbered)
           /\ Clear(InRows(rows, depths, axis))
           /\ OnSheet([size |-> size, pieces |-> InRows(rows, depths, axis)])
<1> DEFINE n == Len(rows)
           top == Starts(depths)
           flat == InRows(rows, depths, axis)
           b == Across(axis)
           start(k) == Starts(Widths(rows[k], axis))
           wide(k) == Widths(rows[k], axis)
<1>1. n \in Nat /\ DOMAIN rows = 1 .. n /\ \A k \in 1 .. n : rows[k] \in Seq(Slabs)
  BY LenProperties, ElementOfSeq
<1>2. PICK place \in Laying(rows, depths, axis, flat) : TRUE
  BY InRowsIs
<1>3. flat \in Seq(Numbered)
  BY InRowsIs
<1>4. Kerf \in Nat /\ b \in Axes /\ \A a \in Axes : a = axis \/ a = b
  BY KerfAssumption, AcrossAxis DEF KerfAssumption
<1>5. ASSUME NEW k \in 1 .. n
      PROVE  /\ top[k] \in Nat /\ depths[k] \in Nat /\ top[k] + depths[k] + Kerf <= top[n + 1]
             /\ \A l \in 1 .. n : k < l => top[k] + depths[k] + Kerf <= top[l]
  <2>1. top \in [1 .. n + 1 -> Nat] /\ k \in 1 .. n + 1 /\ k < n + 1 /\ n + 1 \in 1 .. n + 1
    BY <1>1, StartsIs
  <2>2. \A l \in 1 .. n : l \in 1 .. n + 1
    BY <1>1
  <2>3. \A l \in 1 .. n + 1 : k < l => top[k] + depths[k] + Kerf <= top[l]
    BY StartsApart
  <2>4. depths[k] \in Nat
    BY ElementOfSeq
  <2> HIDE DEF top, n
  <2> QED
    BY <2>1, <2>2, <2>3, <2>4
<1>6. ASSUME NEW k \in 1 .. n, NEW i \in 1 .. Len(rows[k])
      PROVE  /\ start(k)[i] \in Nat /\ rows[k][i] \in Slabs
             /\ start(k)[i] + rows[k][i].size[axis] + Kerf <= start(k)[Len(rows[k]) + 1]
             /\ \A j \in 1 .. Len(rows[k]) : i < j => start(k)[i] + rows[k][i].size[axis] + Kerf <= start(k)[j]
  <2> DEFINE w == wide(k)
             m == Len(rows[k])
             st == start(k)
  <2>1. /\ w \in Seq(Nat) /\ Len(w) = m /\ m \in Nat /\ w[i] = rows[k][i].size[axis] /\ rows[k][i] \in Slabs
    BY <1>1, WidthsTyped
  <2>2. st = Starts(w)
    OBVIOUS
  <2>3. i \in 1 .. m
    OBVIOUS
  <2> HIDE DEF w, m, st
  <2>4. st \in [1 .. m + 1 -> Nat]
    BY <2>1, <2>2, StartsIs
  <2>5. \A j \in 1 .. m + 1 : i < j => st[i] + w[i] + Kerf <= st[j]
    BY <2>1, <2>2, <2>3, StartsApart
  <2>6. m \in Nat /\ i \in 1 .. m + 1 /\ i < m + 1 /\ m + 1 \in 1 .. m + 1 /\ \A j \in 1 .. m : j \in 1 .. m + 1
    <3>1. m \in Nat
      BY <2>1
    <3> QED
      BY <2>3, <3>1
  <2>7. /\ st[i] \in Nat
        /\ st[i] + rows[k][i].size[axis] + Kerf <= st[m + 1]
        /\ \A j \in 1 .. m : i < j => st[i] + rows[k][i].size[axis] + Kerf <= st[j]
    BY <2>1, <2>4, <2>5, <2>6
  <2> QED
    BY <2>1, <2>7 DEF st, m
<1> HIDE DEF n, top, flat, b, start
<1> DEFINE At(i, k, c) ==
               /\ k \in 1 .. n /\ c \in 1 .. Len(rows[k])
               /\ place[i] = <<k, c>>
               /\ Lo(flat[i], axis) = start(k)[c] /\ Lo(flat[i], b) = top[k]
               /\ Hi(flat[i], axis) = start(k)[c] + rows[k][c].size[axis]
               /\ Hi(flat[i], b) = top[k] + rows[k][c].size[b]
               /\ rows[k][c].size[axis] \in Nat /\ rows[k][c].size[b] \in Nat
               /\ rows[k][c].size[b] <= depths[k]
<1>7. ASSUME NEW i \in 1 .. Len(flat)
      PROVE  \E k, c : At(i, k, c)
  <2>1. place[i] \in Spots(rows, n)
    BY <1>2 DEF Laying, n
  <2>9. place[i] \in (1 .. n) \X Nat /\ place[i][2] \in 1 .. Len(rows[place[i][1]])
    BY <2>1 DEF Spots
  <2>2. PICK k \in 1 .. n, c \in Nat : place[i] = <<k, c>> /\ c \in 1 .. Len(rows[k])
    <3> DEFINE p == place[i]
    <3>1. p \in (1 .. n) \X Nat /\ p[2] \in 1 .. Len(rows[p[1]])
      BY <2>9
    <3> HIDE DEF p
    <3>2. p = <<p[1], p[2]>> /\ p[1] \in 1 .. n /\ p[2] \in Nat
      BY <3>1
    <3> QED
      BY <3>1, <3>2 DEF p
  <2>3. place[i][1] = k /\ place[i][2] = c
    BY <2>2
  <2>4. /\ flat[i].size = rows[k][c].size
        /\ flat[i].at[axis] = start(k)[c] /\ flat[i].at[b] = top[k]
    BY <1>2, <2>3 DEF Laying, start, top, b
  <2>5. rows[k][c] \in Slabs
    BY <1>6, <2>2
  <2>6. rows[k][c].size[axis] \in Nat /\ rows[k][c].size[b] \in Nat
    BY <1>4, <2>5 DEF Slabs, Lengths
  <2>7. rows[k][c].size[b] <= depths[k]
    BY <2>2 DEF b, n
  <2>8. /\ Lo(flat[i], axis) = start(k)[c] /\ Lo(flat[i], b) = top[k]
        /\ Hi(flat[i], axis) = start(k)[c] + rows[k][c].size[axis]
        /\ Hi(flat[i], b) = top[k] + rows[k][c].size[b]
    BY <2>4 DEF Lo, Hi
  <2> QED
    BY <2>2, <2>4, <2>6, <2>7, <2>8
<1>8. ASSUME NEW i \in 1 .. Len(flat), NEW j \in 1 .. Len(flat), i # j
      PROVE  ~TooClose(flat[i], flat[j])
  <2>1. flat[i] \in Pieces /\ flat[j] \in Pieces
    BY <1>3, NumberedPieces
  <2>2. PICK k, c : At(i, k, c)
    BY <1>7
  <2>7. k \in 1 .. n /\ c \in 1 .. Len(rows[k])
    BY <2>2
  <2>3. PICK l, d : At(j, l, d)
    BY <1>7
  <2>8. l \in 1 .. n /\ d \in 1 .. Len(rows[l])
    BY <2>3
  <2>4. place[i] # place[j]
    BY <1>2, <1>8 DEF Laying
  <2>5. CASE k = l
    <3>1. c # d
      BY <2>2, <2>3, <2>4, <2>5
    <3>2. Len(rows[k]) \in Nat /\ c \in Nat /\ d \in Nat
      <4>1. rows[k] \in Seq(Slabs)
        BY <1>1, <2>7
      <4>2. Len(rows[k]) \in Nat
        BY <4>1, LenProperties
      <4> QED
        BY <2>5, <2>7, <2>8, <4>2
    <3>3. c < d \/ d < c
      BY <3>1, <3>2
    <3>4. \/ start(k)[c] + rows[k][c].size[axis] + Kerf <= start(k)[d]
          \/ start(k)[d] + rows[k][d].size[axis] + Kerf <= start(k)[c]
      BY <1>6, <2>5, <2>7, <2>8, <3>3
    <3>5. Hi(flat[i], axis) + Kerf <= Lo(flat[j], axis) \/ Hi(flat[j], axis) + Kerf <= Lo(flat[i], axis)
      BY <2>2, <2>3, <2>5, <3>4
    <3> QED
      BY <2>1, <3>5, SeparateClear
  <2>6. CASE k # l
    <3>1. k < l \/ l < k
      BY <1>1, <2>6, <2>7, <2>8
    <3>2. /\ top[k] \in Nat /\ depths[k] \in Nat /\ top[l] \in Nat /\ depths[l] \in Nat
          /\ top[k] + depths[k] + Kerf <= top[l] \/ top[l] + depths[l] + Kerf <= top[k]
      BY <1>5, <2>7, <2>8, <3>1
    <3>3. Hi(flat[i], b) + Kerf <= Lo(flat[j], b) \/ Hi(flat[j], b) + Kerf <= Lo(flat[i], b)
      <4> DEFINE x == rows[k][c].size[b]
                 y == rows[l][d].size[b]
                 tk == top[k]
                 tl == top[l]
                 dk == depths[k]
                 dl == depths[l]
      <4>1. /\ x \in Nat /\ y \in Nat /\ tk \in Nat /\ tl \in Nat /\ dk \in Nat /\ dl \in Nat
            /\ x <= dk /\ y <= dl /\ (tk + dk + Kerf <= tl \/ tl + dl + Kerf <= tk)
            /\ Hi(flat[i], b) = tk + x /\ Lo(flat[i], b) = tk
            /\ Hi(flat[j], b) = tl + y /\ Lo(flat[j], b) = tl
        BY <2>2, <2>3, <3>2
      <4> HIDE DEF x, y, tk, tl, dk, dl
      <4> QED
        BY <1>4, <4>1
    <3> QED
      BY <1>4, <2>1, <3>3, SeparateClear
  <2> QED
    BY <2>5, <2>6
<1>9. ASSUME NEW i \in 1 .. Len(flat)
      PROVE  \A a \in Axes : Lo(flat[i], a) >= 0 /\ Hi(flat[i], a) <= size[a]
  <2>1. PICK k, c : At(i, k, c)
    BY <1>7
  <2>0. k \in 1 .. n /\ c \in 1 .. Len(rows[k])
    BY <2>1
  <2>2. size[axis] \in Nat /\ size[b] \in Nat
    BY <1>4 DEF Lengths
  <2>3. /\ start(k)[c] \in Nat
        /\ start(k)[c] + rows[k][c].size[axis] + Kerf <= start(k)[Len(rows[k]) + 1]
    BY <1>6, <2>0
  <2>4. top[k] \in Nat /\ depths[k] \in Nat /\ top[k] + depths[k] + Kerf <= top[n + 1]
    BY <1>5, <2>0
  <2>5. start(k)[Len(rows[k]) + 1] <= size[axis] + Kerf /\ top[n + 1] <= size[b] + Kerf
    BY <2>0 DEF start, top, b, n
  <2>6. start(k)[Len(rows[k]) + 1] \in Int /\ top[n + 1] \in Int
    <3>1. top \in [1 .. n + 1 -> Nat] /\ n + 1 \in 1 .. n + 1
      BY <1>1, StartsIs DEF top, n
    <3>2. Widths(rows[k], axis) \in Seq(Nat) /\ Len(Widths(rows[k], axis)) = Len(rows[k]) /\ Len(rows[k]) \in Nat
      BY <1>1, <2>0, WidthsTyped
    <3>3. start(k)[Len(rows[k]) + 1] \in Nat
      <4> DEFINE w == Widths(rows[k], axis)
                 m == Len(rows[k])
      <4>1. w \in Seq(Nat) /\ Len(w) = m /\ m \in Nat
        BY <3>2
      <4>2. start(k) = Starts(w)
        BY DEF start
      <4> HIDE DEF w, m
      <4>3. Starts(w) \in [1 .. m + 1 -> Nat] /\ m + 1 \in 1 .. m + 1
        <5>1. Starts(w) \in [1 .. Len(w) + 1 -> Nat]
          BY <4>1, StartsIs
        <5>2. m + 1 \in 1 .. m + 1
          BY <4>1
        <5> QED
          BY <4>1, <5>1, <5>2
      <4>4. start(k)[m + 1] \in Nat
        BY <4>2, <4>3
      <4> QED
        BY <4>4 DEF m
    <3> QED
      BY <3>1, <3>3
  <2> DEFINE s == start(k)[c]
             se == start(k)[Len(rows[k]) + 1]
             w == rows[k][c].size[axis]
             h == rows[k][c].size[b]
             t == top[k]
             te == top[n + 1]
             d == depths[k]
  <2>7. /\ s \in Nat /\ w \in Nat /\ se \in Int /\ s + w + Kerf <= se /\ se <= size[axis] + Kerf
        /\ t \in Nat /\ h \in Nat /\ d \in Nat /\ te \in Int /\ h <= d /\ t + d + Kerf <= te /\ te <= size[b] + Kerf
        /\ Lo(flat[i], axis) = s /\ Hi(flat[i], axis) = s + w /\ Lo(flat[i], b) = t /\ Hi(flat[i], b) = t + h
    BY <2>1, <2>3, <2>4, <2>5, <2>6
  <2> DEFINE along == size[axis]
             across == size[b]
  <2>10. along \in Nat /\ across \in Nat /\ Kerf \in Nat
    BY <1>4, <2>2
  <2> HIDE DEF s, se, w, h, t, te, d, along, across
  <2>11. s >= 0 /\ s + w <= along
    BY <2>7, <2>10 DEF along
  <2>12. t >= 0 /\ t + h <= across
    BY <2>7, <2>10 DEF across
  <2>8. Lo(flat[i], axis) >= 0 /\ Hi(flat[i], axis) <= size[axis]
    BY <2>7, <2>11 DEF along
  <2>9. Lo(flat[i], b) >= 0 /\ Hi(flat[i], b) <= size[b]
    BY <2>7, <2>12 DEF across
  <2> QED
    BY <1>4, <2>8, <2>9
<1>10. DOMAIN flat = 1 .. Len(flat)
  BY <1>3, LenProperties
<1>11. Clear(flat)
  BY <1>8, <1>10 DEF Clear
<1>12. OnSheet([size |-> size, pieces |-> flat])
  BY <1>9, <1>10 DEF OnSheet
<1> QED
  BY <1>3, <1>11, <1>12 DEF flat

-----------------------------------------------------------------------------
(* What the constructors choose                                            *)

\* Of finitely many tuples there is one that none of the others beats.
LEMMA Largest ==
    ASSUME NEW n \in Nat, NEW S, IsFiniteSet(S), S # {}, NEW key \in [S -> Tuples(n)]
    PROVE  \E c \in S : \A d \in S : ~Beats(key[d], key[c])
<1> DEFINE NoLargest(T) == T # {} /\ \A c \in T : \E d \in T : Beats(key[d], key[c])
           Bad == {m \in Nat : \E T \in SUBSET S : Cardinality(T) = m /\ NoLargest(T)}
<1>1. SUFFICES ASSUME NoLargest(S) PROVE FALSE
  OBVIOUS
<1>2. Bad # {}
  <2>1. Cardinality(S) \in Nat /\ S \in SUBSET S
    BY FS_CardinalityType
  <2> HIDE DEF NoLargest
  <2> QED
    BY <1>1, <2>1, Zenon
<1>3. PICK m \in Bad : \A k \in Bad : m <= k
  <2>1. Bad \subseteq Nat
    OBVIOUS
  <2> HIDE DEF Bad
  <2> QED
    BY <1>2, <2>1, LeastNumber
<1>4. PICK T \in SUBSET S : Cardinality(T) = m /\ NoLargest(T)
  BY <1>3
<1> DEFINE x == Taken(T)
           U == T \ {x}
<1>5. /\ x \in T /\ x \in S /\ U \in SUBSET S
      /\ Cardinality(U) \in Nat /\ Cardinality(U) < m
  <2>1. T # {}
    BY <1>4
  <2>2. /\ x \in T /\ x \in S /\ U \in SUBSET S /\ Cardinality(T) \in Nat /\ Cardinality(T) > 0
        /\ Cardinality(U) = Cardinality(T) - 1
    BY <2>1, TakenOut
  <2> HIDE DEF x, U, NoLargest
  <2> QED
    BY <1>4, <2>2
<1> HIDE DEF x
<1>6. \A c \in S : key[c] \in Tuples(n)
  OBVIOUS
<1>7. ~Beats(key[x], key[x])
  BY <1>5, <1>6, NoneBeatsItself
<1>8. PICK e \in T : Beats(key[e], key[x])
  BY <1>4, <1>5
<1>9. e \in U
  BY <1>7, <1>8
<1>10. ~NoLargest(U)
  <2>1. Cardinality(U) \notin Bad
    <3> HIDE DEF U, Bad
    <3>1. m \in Nat
      BY <1>3 DEF Bad
    <3> QED
      BY <1>3, <1>5, <3>1
  <2> HIDE DEF NoLargest, U
  <2> QED
    BY <1>5, <2>1
<1>11. PICK c \in U : \A d \in U : ~Beats(key[d], key[c])
  BY <1>9, <1>10
<1>12. PICK d \in T : Beats(key[d], key[c])
  BY <1>4, <1>11
<1>13. d = x
  BY <1>11, <1>12
<1>14. Beats(key[e], key[c])
  <2>1. key[e] \in Tuples(n) /\ key[x] \in Tuples(n) /\ key[c] \in Tuples(n)
    BY <1>5, <1>6, <1>9, <1>11
  <2> QED
    BY <1>8, <1>12, <1>13, <2>1, BeatsOn
<1> QED
  BY <1>9, <1>11, <1>14

\* Two numbers behind two others.
Behind(k, i, j) == k \o <<i, j>>
\* The components of such a key.
LEMMA FourNumbers ==
    ASSUME NEW k \in Tuples(2), NEW i \in Int, NEW j \in Int
    PROVE  Behind(k, i, j) \in Tuples(4) /\ Behind(k, i, j)[3] = i /\ Behind(k, i, j)[4] = j
<1> DEFINE s == <<i, j>>
           t == k \o s
<1>1. s \in [1 .. 2 -> Int] /\ s[1] = i /\ s[2] = j
  OBVIOUS
<1> HIDE DEF s
<1>2. k \in Seq(Int) /\ Len(k) = 2 /\ s \in Seq(Int) /\ Len(s) = 2
  BY <1>1, FunctionSeq DEF Tuples
<1>3. /\ t \in Seq(Int) /\ Len(t) = Len(k) + Len(s)
      /\ \A l \in 1 .. Len(k) + Len(s) : t[l] = IF l <= Len(k) THEN k[l] ELSE s[l - Len(k)]
  BY <1>2, ConcatProperties
<1> HIDE DEF t
<1>4. Len(k) + Len(s) = 4 /\ 3 \in 1 .. 4 /\ 4 \in 1 .. 4 /\ ~(3 <= 2) /\ ~(4 <= 2) /\ 3 - 2 = 1 /\ 4 - 2 = 2
  BY <1>2
<1>5. t[3] = s[1] /\ t[4] = s[2]
  BY <1>2, <1>3, <1>4
<1>6. t \in Tuples(4)
  <2>1. t \in [1 .. Len(t) -> Int]
    BY <1>3, LenProperties
  <2> QED
    BY <1>3, <1>4, <2>1 DEF Tuples
<1> QED
  BY <1>1, <1>5, <1>6 DEF t, s, Behind

\* The first choice of the largest key is one of the choices.
LEMMA FirstBestIs ==
    ASSUME NEW choices, IsFiniteSet(choices), choices # {}, choices \subseteq Nat \X Nat,
           NEW key \in [choices -> Tuples(2)]
    PROVE  FirstBest(choices, key) \in choices
<1> DEFINE full == [c \in choices |-> key[c] \o <<-c[1], -c[2]>>]
<1>1. ASSUME NEW c \in choices
      PROVE  /\ full[c] \in Tuples(4) /\ full[c][3] = -c[1] /\ full[c][4] = -c[2]
             /\ c[1] \in Nat /\ c[2] \in Nat /\ c = <<c[1], c[2]>>
  <2>1. c[1] \in Nat /\ c[2] \in Nat /\ c = <<c[1], c[2]>>
    OBVIOUS
  <2>2. key[c] \in Tuples(2) /\ -c[1] \in Int /\ -c[2] \in Int
    BY <2>1
  <2>3. full[c] = key[c] \o <<-c[1], -c[2]>>
    OBVIOUS
  <2>4. full[c] = Behind(key[c], -c[1], -c[2])
    BY <2>3 DEF Behind
  <2> HIDE DEF full
  <2>5. full[c] \in Tuples(4) /\ full[c][3] = -c[1] /\ full[c][4] = -c[2]
    BY <2>2, <2>4, FourNumbers
  <2> QED
    BY <2>1, <2>5
<1>2. full \in [choices -> Tuples(4)]
  <2>1. full = [c \in choices |-> full[c]]
    OBVIOUS
  <2> HIDE DEF full
  <2> QED
    BY <1>1, <2>1
<1>3. FirstBest(choices, key) = CHOOSE c \in choices : \A d \in choices \ {c} : Beats(full[c], full[d])
  BY DEF FirstBest
<1> HIDE DEF full
<1>4. PICK c \in choices : \A d \in choices : ~Beats(full[d], full[c])
  BY <1>2, Largest
<1>5. ASSUME NEW d \in choices \ {c} PROVE Beats(full[c], full[d])
  <2>1. full[c] # full[d]
    <3>1. c[1] # d[1] \/ c[2] # d[2]
      BY <1>1
    <3>2. -c[1] # -d[1] \/ -c[2] # -d[2]
      <4>1. c[1] \in Nat /\ c[2] \in Nat /\ d[1] \in Nat /\ d[2] \in Nat
        BY <1>1
      <4> QED
        BY <3>1, <4>1
    <3> QED
      BY <1>1, <3>2
  <2>2. full[c] \in Tuples(4) /\ full[d] \in Tuples(4)
    BY <1>1
  <2>3. Beats(full[c], full[d]) \/ Beats(full[d], full[c])
    BY <2>1, <2>2, OneBeats
  <2> QED
    BY <1>4, <2>3
<1> QED
  BY <1>3, <1>4, <1>5, Zenon

-----------------------------------------------------------------------------
(* Pools of parts                                                          *)

\* The numbers of pieces; what remains of a pool and what was placed of it.
Ids(pieces) == {pieces[i].id : i \in 1 .. Len(pieces)}
Divided(all, pool, pieces) ==
    /\ pool \in Seq(all) /\ Distinct(pool) /\ OnceEach(pieces)
    /\ Elements(pool) \cup Ids(pieces) = all /\ Elements(pool) \cap Ids(pieces) = {}

\* Vec::swap_remove takes one element out of a sequence of distinct ones.
LEMMA SwapRemoveIs ==
    ASSUME NEW T, NEW s \in Seq(T), Distinct(s), NEW i \in 1 .. Len(s)
    PROVE  /\ SwapRemove(s, i) \in Seq(T) /\ Len(SwapRemove(s, i)) = Len(s) - 1
           /\ Distinct(SwapRemove(s, i))
           /\ Elements(SwapRemove(s, i)) = Elements(s) \ {s[i]}
<1> DEFINE n == Len(s)
           from(j) == IF j = i THEN n ELSE j
           t == SwapRemove(s, i)
<1>1. n \in Nat /\ i \in 1 .. n /\ n - 1 \in Nat
  BY LenProperties
<1>2. \A j \in 1 .. n : s[j] \in T
  BY ElementOfSeq
<1>3. t = [j \in 1 .. n - 1 |-> s[from(j)]]
  BY DEF SwapRemove
<1>4. \A j, k \in 1 .. n : s[j] = s[k] => j = k
  BY DEF Distinct
<1> HIDE DEF n, t
<1>5. ASSUME NEW j \in 1 .. n - 1
      PROVE  from(j) \in 1 .. n /\ from(j) # i /\ t[j] = s[from(j)]
  <2>1. j \in 1 .. n /\ j # n
    BY <1>1
  <2>2. t[j] = s[from(j)]
    BY <1>3
  <2> QED
    BY <1>1, <2>1, <2>2
<1>6. \A j, k \in 1 .. n - 1 : from(j) = from(k) => j = k
  <2>1. \A j \in 1 .. n - 1 : j # n
    BY <1>1
  <2> QED
    BY <2>1
<1>7. \A k \in 1 .. n : k # i => \E j \in 1 .. n - 1 : from(j) = k
  <2> SUFFICES ASSUME NEW k \in 1 .. n, k # i PROVE \E j \in 1 .. n - 1 : from(j) = k
    OBVIOUS
  <2>1. CASE k = n
    <3>1. i \in 1 .. n - 1 /\ from(i) = k
      BY <1>1, <2>1
    <3> QED
      BY <3>1
  <2>2. CASE k # n
    <3>1. k \in 1 .. n - 1 /\ from(k) = k
      BY <1>1, <2>2
    <3> QED
      BY <3>1
  <2> QED
    BY <2>1, <2>2
<1> HIDE DEF from
<1>8. t \in Seq(T) /\ Len(t) = n - 1
  <2>1. \A j \in 1 .. n - 1 : s[from(j)] \in T
    BY <1>2, <1>5
  <2>2. t \in [1 .. n - 1 -> T]
    BY <1>3, <2>1
  <2> QED
    BY <1>1, <2>2, FunctionSeq
<1>9. Distinct(t)
  <2> SUFFICES ASSUME NEW j \in 1 .. n - 1, NEW k \in 1 .. n - 1, t[j] = t[k] PROVE j = k
    BY <1>8 DEF Distinct
  <2>1. from(j) = from(k)
    BY <1>4, <1>5
  <2> QED
    BY <1>6, <2>1
<1>10. ASSUME NEW x PROVE x \in Elements(t) <=> x \in Elements(s) \ {s[i]}
  <2>1. ASSUME x \in Elements(t) PROVE x \in Elements(s) \ {s[i]}
    <3>1. PICK j \in 1 .. n - 1 : x = t[j]
      BY <1>8, <2>1 DEF Elements
    <3>2. x = s[from(j)] /\ from(j) \in 1 .. n /\ from(j) # i
      BY <1>5, <3>1
    <3>3. x \in Elements(s)
      BY <3>2 DEF Elements, n
    <3>4. x # s[i]
      BY <1>1, <1>4, <3>2
    <3> QED
      BY <3>3, <3>4
  <2>2. ASSUME x \in Elements(s), x # s[i] PROVE x \in Elements(t)
    <3>1. PICK k \in 1 .. n : x = s[k]
      BY <2>2 DEF Elements, n
    <3>2. PICK j \in 1 .. n - 1 : from(j) = k
      BY <1>7, <2>2, <3>1
    <3>3. x = t[j]
      BY <1>5, <3>1, <3>2
    <3> QED
      BY <1>8, <3>3 DEF Elements
  <2> QED
    BY <2>1, <2>2
<1> QED
  BY <1>8, <1>9, <1>10 DEF n, t

\* A part of the pool is placed.
LEMMA OneMorePlaced ==
    ASSUME NEW all, NEW pool, NEW pieces \in Seq(Numbered), Divided(all, pool, pieces),
           NEW i \in 1 .. Len(pool), NEW p \in Numbered, p.id = pool[i]
    PROVE  Divided(all, SwapRemove(pool, i), Append(pieces, p))
<1> DEFINE new == Append(pieces, p)
           n == Len(pieces)
           rest == SwapRemove(pool, i)
<1>1. /\ pool \in Seq(all) /\ Distinct(pool) /\ OnceEach(pieces)
      /\ Elements(pool) \cup Ids(pieces) = all /\ Elements(pool) \cap Ids(pieces) = {}
  BY DEF Divided
<1>2. rest \in Seq(all) /\ Distinct(rest) /\ Elements(rest) = Elements(pool) \ {pool[i]}
  BY <1>1, SwapRemoveIs
<1>3. /\ new \in Seq(Numbered) /\ n \in Nat /\ Len(new) = n + 1 /\ new[n + 1] = p
      /\ \A j \in 1 .. n : new[j] = pieces[j]
  BY LenProperties, AppendProperties
<1>4. pool[i] \in Elements(pool)
  BY DEF Elements
<1> HIDE DEF new, n, rest
<1>5. \A j \in 1 .. n + 1 : j \in 1 .. n \/ j = n + 1
  BY <1>3
<1>6. n + 1 \in 1 .. n + 1 /\ \A j \in 1 .. n : j \in 1 .. n + 1
  BY <1>3
<1>7. \A j \in 1 .. n : new[j].id \in Ids(pieces) /\ new[j].id # pool[i]
  BY <1>1, <1>3, <1>4 DEF Ids, n
<1>8. new[n + 1].id = pool[i]
  BY <1>3
<1>9. OnceEach(new)
  <2> SUFFICES ASSUME NEW j \in 1 .. n + 1, NEW k \in 1 .. n + 1, new[j].id = new[k].id PROVE j = k
    BY <1>3 DEF OnceEach
  <2>1. CASE j \in 1 .. n /\ k \in 1 .. n
    <3>1. pieces[j].id = pieces[k].id
      BY <1>3, <2>1
    <3> QED
      BY <1>1, <2>1, <3>1 DEF OnceEach, n
  <2>2. CASE j \in 1 .. n /\ k = n + 1
    BY <1>7, <1>8, <2>2
  <2>3. CASE k \in 1 .. n /\ j = n + 1
    BY <1>7, <1>8, <2>3
  <2>4. CASE j = n + 1 /\ k = n + 1
    BY <2>4
  <2> QED
    BY <1>5, <2>1, <2>2, <2>3, <2>4, Zenon
<1>10. Ids(new) = Ids(pieces) \cup {pool[i]}
  <2>1. \A x : x \in Ids(new) <=> \E j \in 1 .. n + 1 : x = new[j].id
    BY <1>3 DEF Ids
  <2>2. \A x : x \in Ids(pieces) <=> \E j \in 1 .. n : x = pieces[j].id
    BY DEF Ids, n
  <2>3. ASSUME NEW x \in Ids(new) PROVE x \in Ids(pieces) \/ x = pool[i]
    <3>1. PICK j \in 1 .. n + 1 : x = new[j].id
      BY <2>1
    <3> QED
      BY <1>5, <1>7, <1>8, <3>1
  <2>4. ASSUME NEW x \in Ids(pieces) PROVE x \in Ids(new)
    <3>1. PICK j \in 1 .. n : x = pieces[j].id
      BY <2>2
    <3>2. x = new[j].id /\ j \in 1 .. n + 1
      BY <1>3, <1>6, <3>1
    <3> QED
      BY <2>1, <3>2
  <2>5. pool[i] \in Ids(new)
    BY <1>6, <1>8, <2>1
  <2> QED
    BY <2>3, <2>4, <2>5
<1> QED
  BY <1>1, <1>2, <1>4, <1>9, <1>10 DEF Divided, rest, new

-----------------------------------------------------------------------------
(* Columns of pieces                                                       *)

\* A part lies as it came, or turned.
LEMMA OrientationsAre ==
    ASSUME NEW part \in PartTypes
    PROVE  /\ DOMAIN Orientations(part) \subseteq {1, 2}
           /\ \A d \in DOMAIN Orientations(part) :
                 /\ Orientations(part)[d] \in [Axes -> Lengths]
                 /\ Orientations(part)[d] \in Range(Orientations(part))
<1> DEFINE ways == Orientations(part)
<1>1. part.size \in [Axes -> Lengths] /\ part.turn \in BOOLEAN
  BY DEF PartTypes
<1>2. Turned(part.size) \in [Axes -> Lengths]
  <2>1. part.size[1] \in Lengths /\ part.size[2] \in Lengths
    BY <1>1 DEF Axes
  <2> DEFINE u == part.size[1]
             v == part.size[2]
             t == <<v, u>>
  <2>2. Turned(part.size) = t /\ t[1] = v /\ t[2] = u /\ DOMAIN t = 1 .. 2 /\ t = [a \in 1 .. 2 |-> t[a]]
    BY DEF Turned
  <2>3. 1 .. 2 = Axes
    BY DEF Axes
  <2> HIDE DEF t
  <2>4. \A a \in Axes : t[a] \in Lengths
    BY <2>1, <2>2 DEF Axes
  <2> QED
    BY <2>2, <2>3, <2>4
<1>3. ways = <<part.size, Turned(part.size)>> \/ ways = <<part.size>>
  BY DEF Orientations
<1>4. /\ DOMAIN ways \subseteq {1, 2}
      /\ \A d \in DOMAIN ways : ways[d] = part.size \/ ways[d] = Turned(part.size)
  <2>1. CASE ways = <<part.size, Turned(part.size)>>
    <3>1. DOMAIN ways = 1 .. 2 /\ ways[1] = part.size /\ ways[2] = Turned(part.size)
      BY <2>1
    <3>2. \A d \in 1 .. 2 : d = 1 \/ d = 2
      OBVIOUS
    <3> HIDE DEF ways
    <3> QED
      BY <3>1, <3>2
  <2>2. CASE ways = <<part.size>>
    <3>1. DOMAIN ways = 1 .. 1 /\ ways[1] = part.size
      BY <2>2
    <3>2. \A d \in 1 .. 1 : d = 1
      OBVIOUS
    <3> HIDE DEF ways
    <3> QED
      BY <3>1, <3>2
  <2> QED
    BY <1>3, <2>1, <2>2
<1> HIDE DEF ways
<1> QED
  BY <1>1, <1>2, <1>4 DEF ways, Range

\* The size a choice gives the part it names.
SizeAt(parts, pool, c) == Orientations(parts[pool[c[1]]])[c[2]]

\* The choices there are.
LEMMA CandidatesAre ==
    ASSUME NEW parts \in Seq(PartTypes), NEW pool \in Seq(1 .. Len(parts)), NEW least, NEW most
    PROVE  LET C == Candidates(parts, pool, least, most)
           IN  /\ IsFiniteSet(C) /\ C \subseteq Nat \X Nat
               /\ \A c \in C :
                     /\ c[1] \in 1 .. Len(pool) /\ pool[c[1]] \in 1 .. Len(parts)
                     /\ SizeAt(parts, pool, c) \in [Axes -> Lengths]
                     /\ SizeAt(parts, pool, c) \in Range(Orientations(parts[pool[c[1]]]))
                     /\ \A a \in Axes : SizeAt(parts, pool, c)[a] <= most[a]
<1> DEFINE C == Candidates(parts, pool, least, most)
<1>1. DOMAIN pool = 1 .. Len(pool) /\ Len(pool) \in Nat
  BY LenProperties
<1>2. ASSUME NEW c \in C
      PROVE  /\ c \in (1 .. Len(pool)) \X {1, 2} /\ c[1] \in 1 .. Len(pool)
             /\ c[2] \in DOMAIN Orientations(parts[pool[c[1]]])
             /\ \A a \in Axes : SizeAt(parts, pool, c)[a] <= most[a]
  BY <1>1 DEF Candidates, SizeAt
<1>3. IsFiniteSet(C)
  <2>1. IsFiniteSet(1 .. Len(pool)) /\ IsFiniteSet({1, 2})
    <3>1. IsFiniteSet(1 .. Len(pool))
      <4>1. 1 \in Int /\ Len(pool) \in Int
        BY <1>1
      <4> QED
        BY <4>1, FS_Interval
    <3>2. IsFiniteSet({1, 2})
      <4>1. {1, 2} = 1 .. 2 /\ 1 \in Int /\ 2 \in Int
        OBVIOUS
      <4> QED
        BY <4>1, FS_Interval, Zenon
    <3> QED
      BY <3>1, <3>2
  <2>2. IsFiniteSet((1 .. Len(pool)) \X {1, 2})
    BY <2>1, FS_Product
  <2>3. C \subseteq (1 .. Len(pool)) \X {1, 2}
    BY <1>2
  <2> HIDE DEF C
  <2> QED
    BY <2>2, <2>3, FS_Subset
<1>4. C \subseteq Nat \X Nat
  BY <1>2
<1> HIDE DEF C
<1>5. ASSUME NEW c \in C
      PROVE  /\ pool[c[1]] \in 1 .. Len(parts)
             /\ SizeAt(parts, pool, c) \in [Axes -> Lengths]
             /\ SizeAt(parts, pool, c) \in Range(Orientations(parts[pool[c[1]]]))
  <2>1. pool[c[1]] \in 1 .. Len(parts)
    BY <1>2, ElementOfSeq
  <2>2. parts[pool[c[1]]] \in PartTypes
    BY <2>1, ElementOfSeq
  <2> QED
    BY <1>2, <2>1, <2>2, OrientationsAre DEF SizeAt
<1> QED
  BY <1>2, <1>3, <1>4, <1>5, Zenon DEF C

\* A column with one more piece.
PutAt(parts, state, c, x, y, width) ==
    [pool |-> SwapRemove(state.pool, c[1]),
     placed |-> Append(state.placed,
        [id |-> state.pool[c[1]], at |-> <<x, y>>, size |-> SizeAt(parts, state.pool, c)]),
     x |-> x, width |-> width, y |-> y + SizeAt(parts, state.pool, c)[2] + Kerf]
LeftOf(state) == IF state.width = 0 THEN state.x ELSE state.x + state.width + Kerf

\* The figures of two sizes make pairs of numbers.
LEMMA PairsOfNumbers ==
    ASSUME NEW size \in [Axes -> Lengths], NEW w \in Nat
    PROVE  /\ <<-(w - size[1]), AreaOf(size)>> \in Tuples(2)
           /\ <<AreaOf(size), size[1]>> \in Tuples(2) /\ <<size[1], AreaOf(size)>> \in Tuples(2)
<1>1. size[1] \in Nat /\ size[2] \in Nat
  BY DEF Axes, Lengths
<1>2. AreaOf(size) \in Nat
  BY <1>1, ProductsGrow DEF AreaOf
<1> DEFINE area == AreaOf(size)
           wide == size[1]
           less == -(w - size[1])
<1>3. area \in Int /\ wide \in Int /\ less \in Int
  BY <1>1, <1>2
<1> HIDE DEF area, wide, less
<1>4. <<less, area>> \in Tuples(2) /\ <<area, wide>> \in Tuples(2) /\ <<wide, area>> \in Tuples(2)
  BY <1>3 DEF Tuples
<1> QED
  BY <1>4 DEF area, wide, less

\* A step stacks a piece of the width of the column, or begins a column, or
\* does nothing.
LEMMA ColumnStepIs ==
    ASSUME NEW parts \in Seq(PartTypes), NEW state, state.pool \in Seq(1 .. Len(parts)),
           state.width \in Nat, NEW sheet, NEW tol, NEW byArea,
           ColumnStep(state, parts, sheet, tol, byArea) # state
    PROVE  \/ /\ state.width > 0
              /\ \E c \in Candidates(parts, state.pool, <<state.width - tol, 0>>,
                                            <<state.width, sheet[2] - state.y>>) :
                    ColumnStep(state, parts, sheet, tol, byArea)
                        = PutAt(parts, state, c, state.x, state.y, state.width)
           \/ \E c \in Candidates(parts, state.pool, <<0, 0>>, <<sheet[1] - LeftOf(state), sheet[2]>>) :
                    ColumnStep(state, parts, sheet, tol, byArea)
                        = PutAt(parts, state, c, LeftOf(state), 0, SizeAt(parts, state.pool, c)[1])
<1> DEFINE Stacked == Candidates(parts, state.pool, <<state.width - tol, 0>>,
                                      <<state.width, sheet[2] - state.y>>)
           Anchors == Candidates(parts, state.pool, <<0, 0>>, <<sheet[1] - LeftOf(state), sheet[2]>>)
           sizeOf(c) == SizeAt(parts, state.pool, c)
           stackKey == [c \in Stacked |-> <<-(state.width - sizeOf(c)[1]), AreaOf(sizeOf(c))>>]
           anchorKey == [c \in Anchors |-> IF byArea THEN <<AreaOf(sizeOf(c)), sizeOf(c)[1]>>
                                           ELSE <<sizeOf(c)[1], AreaOf(sizeOf(c))>>]
           cs == FirstBest(Stacked, stackKey)
           ca == FirstBest(Anchors, anchorKey)
           new == ColumnStep(state, parts, sheet, tol, byArea)
<1>1. new = IF state.width > 0 /\ Stacked # {}
            THEN PutAt(parts, state, cs, state.x, state.y, state.width)
            ELSE IF Anchors # {} THEN PutAt(parts, state, ca, LeftOf(state), 0, sizeOf(ca)[1])
            ELSE state
  BY DEF ColumnStep, PutAt, SizeAt, LeftOf
<1>2. IsFiniteSet(Stacked) /\ Stacked \subseteq Nat \X Nat /\ \A c \in Stacked : sizeOf(c) \in [Axes -> Lengths]
  BY CandidatesAre
<1>3. IsFiniteSet(Anchors) /\ Anchors \subseteq Nat \X Nat /\ \A c \in Anchors : sizeOf(c) \in [Axes -> Lengths]
  BY CandidatesAre
<1>4. Stacked # {} => cs \in Stacked
  <2>1. stackKey \in [Stacked -> Tuples(2)]
    <3>1. \A c \in Stacked : <<-(state.width - sizeOf(c)[1]), AreaOf(sizeOf(c))>> \in Tuples(2)
      BY <1>2, PairsOfNumbers
    <3> HIDE DEF Stacked, sizeOf
    <3> QED
      BY <3>1
  <2> HIDE DEF Stacked, stackKey
  <2> QED
    BY <1>2, <2>1, FirstBestIs
<1>5. Anchors # {} => ca \in Anchors
  <2>1. anchorKey \in [Anchors -> Tuples(2)]
    <3>1. \A c \in Anchors : <<AreaOf(sizeOf(c)), sizeOf(c)[1]>> \in Tuples(2)
                             /\ <<sizeOf(c)[1], AreaOf(sizeOf(c))>> \in Tuples(2)
      BY <1>3, PairsOfNumbers
    <3> HIDE DEF Anchors, sizeOf
    <3> QED
      BY <3>1
  <2> HIDE DEF Anchors, anchorKey
  <2> QED
    BY <1>3, <2>1, FirstBestIs
<1> HIDE DEF Stacked, Anchors, cs, ca, new
<1>6. CASE state.width > 0 /\ Stacked # {}
  <2>1. new = PutAt(parts, state, cs, state.x, state.y, state.width) /\ cs \in Stacked
    BY <1>1, <1>4, <1>6
  <2> QED
    BY <1>6, <2>1 DEF Stacked, new
<1>7. CASE ~(state.width > 0 /\ Stacked # {}) /\ Anchors # {}
  <2>1. new = PutAt(parts, state, ca, LeftOf(state), 0, sizeOf(ca)[1]) /\ ca \in Anchors
    BY <1>1, <1>5, <1>7
  <2> QED
    BY <2>1 DEF Anchors, new
<1>8. CASE ~(state.width > 0 /\ Stacked # {}) /\ Anchors = {}
  BY <1>1, <1>8 DEF new
<1> QED
  BY <1>6, <1>7, <1>8

\* A piece is to the left of the column being filled, or in it and lower.
Left(p, x, width, y) ==
    Hi(p, 1) + Kerf <= x \/ (Hi(p, 1) <= x + width /\ Hi(p, 2) + Kerf <= y)

\* The states a column is filled in.
ColumnGood(parts, all, sheet) ==
    {st \in [pool : Seq(1 .. Len(parts)), placed : Seq(Numbered), x : Nat, width : Nat, y : Nat] :
        /\ Divided(all, st.pool, st.placed)
        /\ Alike(parts, st.placed)
        /\ Clear(st.placed)
        /\ OnSheet([size |-> sheet, pieces |-> st.placed])
        /\ st.width = 0 => st.placed = <<>> /\ st.x = 0
        /\ st.x + st.width <= sheet[1]
        /\ \A i \in 1 .. Len(st.placed) : Left(st.placed[i], st.x, st.width, st.y)}

\* A piece that is clear of all others, on the sheet, may be added to them.
LEMMA OneMoreClear ==
    ASSUME NEW pieces \in Seq(Numbered), Clear(pieces), NEW p \in Numbered, NEW sheet,
           OnSheet([size |-> sheet, pieces |-> pieces]),
           \A a \in Axes : Lo(p, a) >= 0 /\ Hi(p, a) <= sheet[a],
           \A i \in 1 .. Len(pieces) : ~TooClose(pieces[i], p) /\ ~TooClose(p, pieces[i])
    PROVE  /\ Append(pieces, p) \in Seq(Numbered) /\ Clear(Append(pieces, p))
           /\ OnSheet([size |-> sheet, pieces |-> Append(pieces, p)])
           /\ Len(Append(pieces, p)) = Len(pieces) + 1 /\ Append(pieces, p)[Len(pieces) + 1] = p
           /\ \A i \in 1 .. Len(pieces) : Append(pieces, p)[i] = pieces[i]
           /\ \A i \in 1 .. Len(pieces) + 1 : i \in 1 .. Len(pieces) \/ i = Len(pieces) + 1
<1> DEFINE n == Len(pieces)
           all == Append(pieces, p)
<1>1. /\ all \in Seq(Numbered) /\ n \in Nat /\ Len(all) = n + 1 /\ all[n + 1] = p
      /\ \A i \in 1 .. n : all[i] = pieces[i]
      /\ DOMAIN all = 1 .. n + 1 /\ DOMAIN pieces = 1 .. n
  BY LenProperties, AppendProperties
<1>2. \A i \in 1 .. n + 1 : i \in 1 .. n \/ i = n + 1
  BY <1>1
<1> HIDE DEF all, n
<1>3. Clear(all)
  <2> SUFFICES ASSUME NEW i \in 1 .. n + 1, NEW j \in 1 .. n + 1, i # j PROVE ~TooClose(all[i], all[j])
    BY <1>1 DEF Clear
  <2>1. CASE i \in 1 .. n /\ j \in 1 .. n
    BY <1>1, <2>1 DEF Clear
  <2>2. CASE i \in 1 .. n /\ j = n + 1
    BY <1>1, <2>2 DEF n
  <2>3. CASE j \in 1 .. n /\ i = n + 1
    BY <1>1, <2>3 DEF n
  <2> QED
    BY <1>2, <2>1, <2>2, <2>3
<1>4. OnSheet([size |-> sheet, pieces |-> all])
  <2>1. ASSUME NEW i \in 1 .. n + 1, NEW a \in Axes PROVE Lo(all[i], a) >= 0 /\ Hi(all[i], a) <= sheet[a]
    <3>1. CASE i \in 1 .. n
      BY <1>1, <3>1 DEF OnSheet
    <3>2. CASE i = n + 1
      BY <1>1, <3>2
    <3> QED
      BY <1>2, <3>1, <3>2
  <2> QED
    BY <1>1, <2>1 DEF OnSheet
<1> QED
  BY <1>1, <1>2, <1>3, <1>4 DEF all, n

\* A piece put where there is room for it keeps a column in order.
LEMMA PutKeeps ==
    ASSUME NEW parts \in Seq(PartTypes), NEW all, NEW sheet \in [Axes -> Lengths],
           NEW st \in ColumnGood(parts, all, sheet), NEW least, NEW most,
           NEW c \in Candidates(parts, st.pool, least, most),
           NEW x \in Nat, NEW y \in Nat, NEW width \in Nat, width > 0,
           SizeAt(parts, st.pool, c)[1] <= width, x + width <= sheet[1],
           y + SizeAt(parts, st.pool, c)[2] <= sheet[2],
           \A i \in 1 .. Len(st.placed) : Left(st.placed[i], x, width, y)
    PROVE  PutAt(parts, st, c, x, y, width) \in ColumnGood(parts, all, sheet)
<1> DEFINE s == SizeAt(parts, st.pool, c)
           id == st.pool[c[1]]
           p == [id |-> id, at |-> <<x, y>>, size |-> s]
           new == PutAt(parts, st, c, x, y, width)
           old == st.placed
           pool == st.pool
           n == Len(old)
<1>1. /\ pool \in Seq(1 .. Len(parts)) /\ old \in Seq(Numbered)
      /\ Divided(all, pool, old) /\ Alike(parts, old) /\ Clear(old)
      /\ OnSheet([size |-> sheet, pieces |-> old])
  BY DEF ColumnGood
<1>2. /\ c[1] \in 1 .. Len(pool) /\ id \in 1 .. Len(parts) /\ s \in [Axes -> Lengths]
      /\ s \in Range(Orientations(parts[id]))
  <2> HIDE DEF s
  <2> QED
    BY <1>1, CandidatesAre DEF s
<1>3. new = [pool |-> SwapRemove(pool, c[1]), placed |-> Append(old, p), x |-> x, width |-> width,
             y |-> y + s[2] + Kerf]
  BY DEF PutAt
<1>4. s[1] \in Nat /\ s[2] \in Nat /\ Kerf \in Nat /\ sheet[1] \in Nat /\ sheet[2] \in Nat
  BY <1>2, KerfAssumption DEF KerfAssumption, Axes, Lengths
<1>5. /\ p \in Numbered /\ p.id = id /\ p.size = s
      /\ Lo(p, 1) = x /\ Lo(p, 2) = y /\ Hi(p, 1) = x + s[1] /\ Hi(p, 2) = y + s[2]
  <2> DEFINE spot == <<x, y>>
  <2>1. spot \in [Axes -> Nat] /\ spot[1] = x /\ spot[2] = y
    <3>1. spot \in [1 .. 2 -> Nat] /\ spot[1] = x /\ spot[2] = y
      OBVIOUS
    <3>2. 1 .. 2 = Axes
      BY DEF Axes
    <3> QED
      BY <3>1, <3>2
  <2>2. p = [id |-> id, at |-> spot, size |-> s]
    OBVIOUS
  <2>3. id \in Nat
    BY <1>2
  <2> HIDE DEF spot, p, s, id
  <2>4. p \in Numbered
    BY <1>2, <2>1, <2>2, <2>3 DEF Numbered
  <2> QED
    BY <2>1, <2>2, <2>4 DEF Lo, Hi
<1> HIDE DEF p, s, id, new, old, pool, n
<1>6. s[1] <= width /\ y + s[2] <= sheet[2] /\ \A i \in 1 .. n : Left(old[i], x, width, y)
  BY DEF s, old, n
<1>7. ASSUME NEW i \in 1 .. n
      PROVE  /\ ~TooClose(old[i], p) /\ ~TooClose(p, old[i])
             /\ Left(old[i], x, width, y + s[2] + Kerf) /\ old[i] \in Numbered
  <2>1. old[i] \in Numbered /\ old[i] \in Pieces /\ p \in Pieces
    BY <1>1, <1>5, NumberedPieces DEF n, Numbered, Pieces
  <2>2. Hi(old[i], 1) \in Nat /\ Hi(old[i], 2) \in Nat
    BY <2>1, PieceNumbers DEF Axes
  <2>3. Left(old[i], x, width, y)
    BY <1>6
  <2>4. 1 \in Axes /\ 2 \in Axes
    BY DEF Axes
  <2>5. Hi(old[i], 1) + Kerf <= Lo(p, 1) \/ Hi(old[i], 2) + Kerf <= Lo(p, 2)
    BY <1>5, <2>3 DEF Left
  <2>6. ~TooClose(old[i], p) /\ ~TooClose(p, old[i])
    BY <2>1, <2>4, <2>5, SeparateClear
  <2>7. Left(old[i], x, width, y + s[2] + Kerf)
    <3> DEFINE e == Hi(old[i], 1)
               f == Hi(old[i], 2)
               h == s[2]
    <3>1. e + Kerf <= x \/ (e <= x + width /\ f + Kerf <= y)
      BY <2>3 DEF Left
    <3>2. e \in Nat /\ f \in Nat /\ h \in Nat /\ Kerf \in Nat
      BY <1>4, <2>2
    <3> HIDE DEF e, f, h
    <3>3. e + Kerf <= x \/ (e <= x + width /\ f + Kerf <= y + h + Kerf)
      BY <3>1, <3>2
    <3> QED
      BY <3>3 DEF Left, e, f, h
  <2> QED
    BY <2>1, <2>6, <2>7
<1>8. \A a \in Axes : Lo(p, a) >= 0 /\ Hi(p, a) <= sheet[a]
  <2>1. x + s[1] <= sheet[1]
    BY <1>4, <1>6
  <2> QED
    BY <1>5, <1>6, <2>1 DEF Axes
<1>9. /\ Append(old, p) \in Seq(Numbered) /\ Clear(Append(old, p))
      /\ OnSheet([size |-> sheet, pieces |-> Append(old, p)])
      /\ Len(Append(old, p)) = n + 1 /\ Append(old, p)[n + 1] = p
      /\ \A i \in 1 .. n : Append(old, p)[i] = old[i]
      /\ \A i \in 1 .. n + 1 : i \in 1 .. n \/ i = n + 1
  BY <1>1, <1>5, <1>7, <1>8, OneMoreClear DEF n
<1>10. Divided(all, SwapRemove(pool, c[1]), Append(old, p))
  BY <1>1, <1>2, <1>5, OneMorePlaced DEF id, pool
<1>11. SwapRemove(pool, c[1]) \in Seq(1 .. Len(parts))
  BY <1>1, <1>2, SwapRemoveIs DEF Divided
<1> DEFINE grown == Append(old, p)
           rest == SwapRemove(pool, c[1])
<1>12. Alike(parts, grown)
  <2> SUFFICES ASSUME NEW i \in 1 .. n + 1
               PROVE  grown[i].id \in 1 .. Len(parts) /\ grown[i].size \in Range(Orientations(parts[grown[i].id]))
    BY <1>9 DEF Alike
  <2>1. CASE i \in 1 .. n
    BY <1>1, <1>9, <2>1 DEF Alike, n
  <2>2. CASE i = n + 1
    BY <1>2, <1>5, <1>9, <2>2
  <2> QED
    BY <1>9, <2>1, <2>2
<1>13. \A i \in 1 .. n + 1 : Left(grown[i], x, width, y + s[2] + Kerf)
  <2> SUFFICES ASSUME NEW i \in 1 .. n + 1 PROVE Left(grown[i], x, width, y + s[2] + Kerf)
    OBVIOUS
  <2>1. CASE i \in 1 .. n
    BY <1>7, <1>9, <2>1
  <2>2. CASE i = n + 1
    <3>1. Hi(p, 1) <= x + width /\ Hi(p, 2) + Kerf <= y + s[2] + Kerf
      BY <1>4, <1>5, <1>6
    <3>2. Left(p, x, width, y + s[2] + Kerf)
      BY <3>1 DEF Left
    <3> QED
      BY <1>9, <2>2, <3>2
  <2> QED
    BY <1>9, <2>1, <2>2
<1> HIDE DEF grown, rest
<1>14. new = [pool |-> rest, placed |-> grown, x |-> x, width |-> width, y |-> y + s[2] + Kerf]
  BY <1>3 DEF grown, rest
<1>15. /\ grown \in Seq(Numbered) /\ rest \in Seq(1 .. Len(parts)) /\ Len(grown) = n + 1
       /\ Divided(all, rest, grown) /\ Clear(grown) /\ OnSheet([size |-> sheet, pieces |-> grown])
       /\ y + s[2] + Kerf \in Nat /\ width # 0
  <2>1. y + s[2] + Kerf \in Nat /\ width # 0
    BY <1>4
  <2> QED
    BY <1>9, <1>10, <1>11, <2>1 DEF grown, rest
<1> DEFINE top == y + s[2] + Kerf
<1>16. new \in [pool : Seq(1 .. Len(parts)), placed : Seq(Numbered), x : Nat, width : Nat, y : Nat]
  <2> HIDE DEF top
  <2>1. top \in Nat /\ new = [pool |-> rest, placed |-> grown, x |-> x, width |-> width, y |-> top]
    BY <1>14, <1>15 DEF top
  <2> QED
    BY <1>15, <2>1
<1>17. new.pool = rest /\ new.placed = grown /\ new.x = x /\ new.width = width /\ new.y = top
  BY <1>14
<1>18. new \in ColumnGood(parts, all, sheet)
  <2> HIDE DEF top
  <2>1. \A i \in 1 .. n + 1 : Left(grown[i], x, width, top)
    BY <1>13 DEF top
  <2> QED
    BY <1>12, <1>15, <1>16, <1>17, <2>1 DEF ColumnGood
<1> QED
  BY <1>18 DEF new

\* A step keeps a column in order.
LEMMA ColumnStepKeeps ==
    ASSUME NEW parts \in Seq(PartTypes), NEW all, NEW sheet \in [Axes -> Lengths],
           NEW st \in ColumnGood(parts, all, sheet), NEW tol, NEW byArea
    PROVE  ColumnStep(st, parts, sheet, tol, byArea) \in ColumnGood(parts, all, sheet)
<1> DEFINE new == ColumnStep(st, parts, sheet, tol, byArea)
           Good == ColumnGood(parts, all, sheet)
<1>1. /\ st.pool \in Seq(1 .. Len(parts)) /\ st.width \in Nat /\ st.x \in Nat /\ st.y \in Nat
      /\ st.placed \in Seq(Numbered)
      /\ st.width = 0 => st.placed = <<>> /\ st.x = 0
      /\ st.x + st.width <= sheet[1]
      /\ \A i \in 1 .. Len(st.placed) : Left(st.placed[i], st.x, st.width, st.y)
  BY DEF ColumnGood
<1>2. Kerf \in Nat /\ sheet[1] \in Nat /\ sheet[2] \in Nat /\ 1 \in Axes /\ 2 \in Axes
  BY KerfAssumption DEF KerfAssumption, Axes, Lengths
<1> HIDE DEF new
<1>3. CASE new = st
  BY <1>3 DEF new
<1>4. CASE /\ st.width > 0
           /\ \E c \in Candidates(parts, st.pool, <<st.width - tol, 0>>, <<st.width, sheet[2] - st.y>>) :
                 new = PutAt(parts, st, c, st.x, st.y, st.width)
  <2> DEFINE least == <<st.width - tol, 0>>
             most == <<st.width, sheet[2] - st.y>>
  <2>1. PICK c \in Candidates(parts, st.pool, least, most) : new = PutAt(parts, st, c, st.x, st.y, st.width)
    BY <1>4
  <2>2. most[1] = st.width /\ most[2] = sheet[2] - st.y
    OBVIOUS
  <2> HIDE DEF least, most
  <2>3. /\ SizeAt(parts, st.pool, c) \in [Axes -> Lengths]
        /\ \A a \in Axes : SizeAt(parts, st.pool, c)[a] <= most[a]
    BY <1>1, CandidatesAre
  <2>4. SizeAt(parts, st.pool, c)[1] \in Nat /\ SizeAt(parts, st.pool, c)[2] \in Nat
    BY <1>2, <2>3 DEF Lengths
  <2>5. SizeAt(parts, st.pool, c)[1] <= st.width /\ st.y + SizeAt(parts, st.pool, c)[2] <= sheet[2]
    BY <1>1, <1>2, <2>2, <2>3, <2>4
  <2>6. PutAt(parts, st, c, st.x, st.y, st.width) \in Good
    BY <1>1, <1>4, <2>5, PutKeeps
  <2> QED
    BY <2>1, <2>6 DEF new
<1>5. CASE \E c \in Candidates(parts, st.pool, <<0, 0>>, <<sheet[1] - LeftOf(st), sheet[2]>>) :
              new = PutAt(parts, st, c, LeftOf(st), 0, SizeAt(parts, st.pool, c)[1])
  <2> DEFINE least == <<0, 0>>
             most == <<sheet[1] - LeftOf(st), sheet[2]>>
             l == LeftOf(st)
  <2>1. PICK c \in Candidates(parts, st.pool, least, most) : new = PutAt(parts, st, c, l, 0, SizeAt(parts, st.pool, c)[1])
    BY <1>5
  <2>2. most[1] = sheet[1] - l /\ most[2] = sheet[2]
    OBVIOUS
  <2> HIDE DEF least, most
  <2>3. /\ SizeAt(parts, st.pool, c) \in [Axes -> Lengths]
        /\ \A a \in Axes : SizeAt(parts, st.pool, c)[a] <= most[a]
    BY <1>1, CandidatesAre
  <2> DEFINE w == SizeAt(parts, st.pool, c)[1]
             h == SizeAt(parts, st.pool, c)[2]
  <2>4. w \in Nat /\ w > 0 /\ h \in Nat /\ w <= most[1] /\ h <= most[2]
    BY <1>2, <2>3 DEF Lengths
  <2>5. l \in Nat /\ (st.width > 0 => st.x + st.width + Kerf = l) /\ 0 \in Nat
    BY <1>1, <1>2 DEF LeftOf
  <2> HIDE DEF w, h, l
  <2>6. l + w <= sheet[1] /\ 0 + h <= sheet[2] /\ w <= w
    BY <1>2, <2>2, <2>4, <2>5
  <2>7. ASSUME NEW i \in 1 .. Len(st.placed) PROVE Left(st.placed[i], l, w, 0)
    <3>1. st.placed[i] \in Pieces
      BY <1>1, NumberedPieces
    <3>2. Hi(st.placed[i], 1) \in Nat
      BY <1>2, <3>1, PieceNumbers
    <3>3. st.width > 0
      <4>1. Len(<<>>) = 0 /\ ~(\E k \in 1 .. 0 : TRUE)
        OBVIOUS
      <4> QED
        BY <1>1, <2>7, <4>1
    <3>4. Left(st.placed[i], st.x, st.width, st.y)
      BY <1>1
    <3>5. Hi(st.placed[i], 1) + Kerf <= l
      <4> DEFINE e == Hi(st.placed[i], 1)
                 xx == st.x
                 ww == st.width
      <4>1. e + Kerf <= xx \/ e <= xx + ww
        BY <3>4 DEF Left
      <4>2. e \in Nat /\ xx \in Nat /\ ww \in Nat /\ Kerf \in Nat /\ xx + ww + Kerf = l
        BY <1>1, <1>2, <2>5, <3>2, <3>3
      <4> HIDE DEF e, xx, ww
      <4> QED
        BY <4>1, <4>2 DEF e
    <3> QED
      BY <3>5 DEF Left
  <2>8. PutAt(parts, st, c, l, 0, w) \in Good
    <3>1. SizeAt(parts, st.pool, c)[1] = w /\ SizeAt(parts, st.pool, c)[2] = h
      BY DEF w, h
    <3> QED
      BY <2>4, <2>5, <2>6, <2>7, <3>1, PutKeeps
  <2> QED
    BY <2>1, <2>8 DEF new, w
<1>6. CASE new # st
  <2> DEFINE Stacks(c) == new = PutAt(parts, st, c, st.x, st.y, st.width)
             Begins(c) == new = PutAt(parts, st, c, LeftOf(st), 0, SizeAt(parts, st.pool, c)[1])
             C1 == Candidates(parts, st.pool, <<st.width - tol, 0>>, <<st.width, sheet[2] - st.y>>)
             C2 == Candidates(parts, st.pool, <<0, 0>>, <<sheet[1] - LeftOf(st), sheet[2]>>)
  <2>1. (st.width > 0 /\ \E c \in C1 : Stacks(c)) \/ (\E c \in C2 : Begins(c))
    <3>1. st.pool \in Seq(1 .. Len(parts)) /\ st.width \in Nat
      BY <1>1
    <3> QED
      BY <1>6, <3>1, ColumnStepIs DEF new
  <2>2. (st.width > 0 /\ \E c \in C1 : Stacks(c)) => new \in Good
    <3> HIDE DEF Good
    <3> QED
      BY <1>4 DEF new, Good
  <2>3. (\E c \in C2 : Begins(c)) => new \in Good
    <3> HIDE DEF Good
    <3> QED
      BY <1>5 DEF new, Good
  <2> HIDE DEF Stacks, Begins, C1, C2
  <2> QED
    BY <2>1, <2>2, <2>3 DEF new
<1> QED
  BY <1>3, <1>6

\* What a generator makes of a pool: pieces that can be cut, of parts that were
\* in the pool, each once and as it may lie; the others remain.
MadeRight(parts, pool, sheet, made) ==
    /\ made.pieces \in Seq(Numbered) /\ made.pool \in Seq(1 .. Len(parts))
    /\ Divided(Elements(pool), made.pool, made.pieces)
    /\ Alike(parts, made.pieces)
    /\ Clear(made.pieces)
    /\ OnSheet([size |-> sheet, pieces |-> made.pieces])

\* Nothing is placed yet.
LEMMA NonePlaced ==
    ASSUME NEW parts, NEW pool \in Seq(1 .. Len(parts)), Distinct(pool)
    PROVE  /\ Divided(Elements(pool), pool, <<>>) /\ Alike(parts, <<>>) /\ Clear(<<>>)
           /\ \A sheet : OnSheet([size |-> sheet, pieces |-> <<>>])
<1>1. Len(<<>>) = 0 /\ DOMAIN <<>> = {} /\ 1 .. 0 = {}
  OBVIOUS
<1>2. Ids(<<>>) = {} /\ OnceEach(<<>>)
  BY <1>1 DEF Ids, OnceEach
<1>3. pool \in Seq(Elements(pool))
  <2>1. Len(pool) \in Nat /\ pool = [i \in 1 .. Len(pool) |-> pool[i]]
    BY LenProperties
  <2>2. \A i \in 1 .. Len(pool) : pool[i] \in Elements(pool)
    BY DEF Elements
  <2>3. pool \in [1 .. Len(pool) -> Elements(pool)]
    BY <2>1, <2>2
  <2> QED
    BY <2>1, <2>3, FunctionSeq
<1> QED
  BY <1>1, <1>2, <1>3 DEF Divided, Alike, Clear, OnSheet

Columned(parts, pool, sheet, tol, byArea, f) ==
    f = [n \in 0 .. Len(pool) |->
            IF n = 0 THEN [pool |-> pool, placed |-> <<>>, x |-> 0, width |-> 0, y |-> 0]
            ELSE ColumnStep(f[n - 1], parts, sheet, tol, byArea)]

\* A function that each round takes one step further stays where it belongs.
LEMMA LoopStays ==
    ASSUME NEW n \in Nat, NEW S, NEW f, f[0] \in S,
           \A k \in 1 .. n : f[k - 1] \in S => f[k] \in S
    PROVE  f[n] \in S
<1>1. n \in 0 .. n
  OBVIOUS
<1> QED
  BY <1>1, KeptAllAlong

\* The sheet of columns is right.
LEMMA ColumnSheetIs ==
    ASSUME NEW parts \in Seq(PartTypes), NEW pool \in Seq(1 .. Len(parts)), Distinct(pool),
           NEW sheet \in [Axes -> Lengths], NEW tol, NEW byArea
    PROVE  MadeRight(parts, pool, sheet, ColumnSheet(parts, pool, sheet, tol, byArea))
<1> DEFINE N == Len(pool)
           all == Elements(pool)
           Good == ColumnGood(parts, all, sheet)
           step(s) == ColumnStep(s, parts, sheet, tol, byArea)
           F == [k \in 1 .. N |-> [s \in Good |-> step(s)]]
           first == [pool |-> pool, placed |-> <<>>, x |-> 0, width |-> 0, y |-> 0]
           state == CHOOSE f : Columned(parts, pool, sheet, tol, byArea, f)
<1>1. N \in Nat
  BY LenProperties
<1>2. first \in Good
  <2>1. <<>> \in Seq(Numbered) /\ Len(<<>>) = 0 /\ 1 .. 0 = {} /\ 0 \in Nat
    BY EmptySeq
  <2>2. 0 + 0 <= sheet[1]
    BY DEF Axes, Lengths
  <2> QED
    BY <2>1, <2>2, NonePlaced DEF ColumnGood
<1>3. \A s \in Good : step(s) \in Good
  <2> HIDE DEF all
  <2> QED
    BY ColumnStepKeeps
<1>4. Columned(parts, pool, sheet, tol, byArea, state)
  <2> HIDE DEF N, Good, step, first
  <2>1. F \in Rounds(N, Good)
    BY <1>3 DEF Rounds
  <2>2. \A k \in 1 .. N : \A s \in Good : F[k][s] = step(s)
    OBVIOUS
  <2> HIDE DEF F
  <2>3. PICK h \in [0 .. N -> Good] : h[0] = first /\ \A k \in 1 .. N : h[k] = F[k][h[k - 1]]
    <3>1. RunsOf(N, Good, first, F) # {}
      BY <1>1, <1>2, <2>1, LoopRuns
    <3> QED
      BY <3>1 DEF RunsOf
  <2>4. ASSUME NEW k \in 0 .. N PROVE h[k] = IF k = 0 THEN first ELSE step(h[k - 1])
    <3>1. CASE k = 0
      BY <2>3, <3>1
    <3>2. CASE k # 0
      <4>1. k \in 1 .. N /\ k - 1 \in 0 .. N
        BY <1>1, <3>2
      <4>2. h[k - 1] \in Good
        BY <4>1
      <4> QED
        BY <2>2, <2>3, <3>2, <4>1, <4>2
    <3> QED
      BY <3>1, <3>2
  <2>5. h = [k \in 0 .. N |-> IF k = 0 THEN first ELSE step(h[k - 1])]
    BY <2>4
  <2>6. Columned(parts, pool, sheet, tol, byArea, h)
    BY <2>5 DEF Columned, N, first, step
  <2> QED
    BY <2>6, Zenon
<1>5. ColumnSheet(parts, pool, sheet, tol, byArea) = [pool |-> state[N].pool, pieces |-> state[N].placed]
  BY DEF ColumnSheet, Columned
<1> HIDE DEF state
<1>6. state = [k \in 0 .. N |-> IF k = 0 THEN first ELSE step(state[k - 1])]
  BY <1>4 DEF Columned
<1> HIDE DEF first, step, N, Good
<1>7. state[0] = first /\ \A k \in 1 .. N : state[k] = step(state[k - 1])
  BY <1>1, <1>6
<1>8. state[N] \in Good
  <2>1. \A k \in 1 .. N : state[k - 1] \in Good => state[k] \in Good
    BY <1>3, <1>7
  <2> QED
    BY <1>1, <1>2, <1>7, <2>1, LoopStays
<1> DEFINE e == state[N]
<1>9. /\ e.pool \in Seq(1 .. Len(parts)) /\ e.placed \in Seq(Numbered)
      /\ Divided(all, e.pool, e.placed) /\ Alike(parts, e.placed) /\ Clear(e.placed)
      /\ OnSheet([size |-> sheet, pieces |-> e.placed])
  BY <1>8 DEF ColumnGood, Good
<1> DEFINE made == ColumnSheet(parts, pool, sheet, tol, byArea)
<1>10. made.pool = e.pool /\ made.pieces = e.placed
  BY <1>5
<1> HIDE DEF e, made
<1> QED
  BY <1>9, <1>10 DEF MadeRight, made

-----------------------------------------------------------------------------
(* Shelves of pieces                                                       *)

\* One more length makes a line longer by itself and a cut.
LEMMA StartsGrow ==
    ASSUME NEW lengths \in Seq(Nat), NEW more \in Seq(Nat), Len(more) = Len(lengths) + 1,
           \A k \in 1 .. Len(lengths) : more[k] = lengths[k]
    PROVE  Starts(more)[Len(lengths) + 2]
                = Starts(lengths)[Len(lengths) + 1] + more[Len(lengths) + 1] + Kerf
<1> DEFINE n == Len(lengths)
           a == Starts(lengths)
           b == Starts(more)
           R == {k \in 0 .. n : a[k + 1] = b[k + 1]}
<1>1. n \in Nat /\ Len(more) = n + 1
  BY LenProperties
<1>2. a[1] = 0 /\ \A k \in 1 .. n : a[k + 1] = a[k] + lengths[k] + Kerf
  BY StartsIs
<1>3. b[1] = 0 /\ \A k \in 1 .. n + 1 : b[k + 1] = b[k] + more[k] + Kerf
  <2> HIDE DEF b
  <2>1. b[1] = 0 /\ \A k \in 1 .. Len(more) : b[k + 1] = b[k] + more[k] + Kerf
    BY StartsIs DEF b
  <2> QED
    BY <1>1, <2>1
<1>4. \A k \in 1 .. n : more[k] = lengths[k]
  OBVIOUS
<1> HIDE DEF a, b, n
<1>5. 0 \in R
  BY <1>1, <1>2, <1>3
<1>6. ASSUME NEW k \in 1 .. n, k - 1 \in R PROVE k \in R
  <2>1. k \in 0 .. n /\ k \in 1 .. n + 1 /\ (k - 1) + 1 = k
    BY <1>1
  <2>2. a[k] = b[k]
    BY <1>6, <2>1
  <2>3. a[k + 1] = a[k] + lengths[k] + Kerf /\ b[k + 1] = b[k] + lengths[k] + Kerf
    BY <1>2, <1>3, <1>4, <2>1
  <2> QED
    BY <2>1, <2>2, <2>3
<1>7. n \in R
  <2> HIDE DEF R
  <2>1. \A k \in 0 .. n : k \in R
    BY <1>1, <1>5, <1>6, Stepwise
  <2> QED
    BY <1>1, <2>1
<1>8. b[(n + 1) + 1] = b[n + 1] + more[n + 1] + Kerf
  <2>1. n + 1 \in 1 .. n + 1
    BY <1>1
  <2> QED
    BY <1>3, <2>1
<1>9. (n + 1) + 1 = n + 2
  BY <1>1
<1> QED
  BY <1>7, <1>8, <1>9 DEF a, b, n

\* Some length on its own.
LEMMA StartsOfOne ==
    ASSUME NEW lengths \in Seq(Nat), Len(lengths) = 1
    PROVE  Starts(lengths)[2] = lengths[1] + Kerf
<1>1. Starts(lengths)[1] = 0 /\ Starts(lengths)[1 + 1] = Starts(lengths)[1] + lengths[1] + Kerf
  BY StartsIs
<1>2. lengths[1] \in Nat /\ Kerf \in Nat /\ 1 + 1 = 2
  BY ElementOfSeq, KerfAssumption DEF KerfAssumption
<1> DEFINE st == Starts(lengths)
<1> HIDE DEF st
<1>3. st[1] = 0 /\ st[2] = st[1] + lengths[1] + Kerf
  BY <1>1, <1>2 DEF st
<1> QED
  BY <1>2, <1>3 DEF st

\* A sheet large enough for a part one way.
FitsIn(part, sheet) ==
    \E size \in Range(Orientations(part)) : \A a \in Axes : size[a] <= sheet[a]

\* A part that fits on the sheet is laid one of the ways it may lie.
LEMMA LaidIs ==
    ASSUME NEW part \in PartTypes, NEW sheet \in [Axes -> Lengths], FitsIn(part, sheet), NEW wide
    PROVE  /\ Orient(part, wide) \in [Axes -> Lengths]
           /\ Laid(part, sheet, wide) \in Range(Orientations(part))
           /\ Laid(part, sheet, wide) \in [Axes -> Lengths]
<1> DEFINE u == part.size[1]
           v == part.size[2]
           size == part.size
<1>1. size \in [Axes -> Lengths] /\ u \in Nat /\ v \in Nat /\ 1 \in Axes /\ sheet[1] \in Nat
  BY DEF PartTypes, Axes, Lengths
<1>2. ASSUME NEW s \in Range(Orientations(part)) PROVE s \in [Axes -> Lengths]
  BY OrientationsAre DEF Range
<1>3. CASE ~(part.turn /\ u # v)
  <2>1. Orientations(part) = <<size>>
    BY <1>3 DEF Orientations
  <2>2. size \in Range(Orientations(part)) /\ \A s \in Range(Orientations(part)) : s = size
    <3>1. DOMAIN <<size>> = 1 .. 1 /\ <<size>>[1] = size /\ 1 \in 1 .. 1 /\ \A d \in 1 .. 1 : d = 1
      OBVIOUS
    <3> HIDE DEF size
    <3> QED
      BY <2>1, <3>1 DEF Range
  <2>3. Orient(part, wide) = size
    <3>1. u = v => Max({u, v}) = Min({u, v})
      <4>1. u = v => {u, v} = {v}
        OBVIOUS
      <4>2. Min({v}) = v
        <5>1. {v} \subseteq Nat /\ {v} # {}
          BY <1>1
        <5> HIDE DEF v
        <5> QED
          BY <5>1, MinOf
      <4>3. Max({v}) = v
        <5>1. {v} \subseteq Int /\ {v} # {} /\ v \in Int /\ \A k \in {v} : k <= v
          BY <1>1
        <5> HIDE DEF v
        <5> QED
          BY <5>1, MaxOf
      <4> QED
        BY <4>1, <4>2, <4>3
    <3> QED
      BY <1>3, <3>1 DEF Orient
  <2>4. size[1] <= sheet[1]
    BY <1>1, <2>2 DEF FitsIn
  <2>5. Laid(part, sheet, wide) = size
    BY <1>1, <2>3, <2>4 DEF Laid
  <2> QED
    BY <1>1, <2>2, <2>3, <2>5
<1>4. CASE part.turn /\ u # v
  <2> DEFINE t == Turned(size)
             both == <<size, t>>
  <2>1. Orientations(part) = both
    BY <1>4 DEF Orientations
  <2>2. size \in Range(Orientations(part)) /\ t \in Range(Orientations(part))
    <3>1. DOMAIN both = 1 .. 2 /\ both[1] = size /\ both[2] = t /\ 1 \in 1 .. 2 /\ 2 \in 1 .. 2
      OBVIOUS
    <3> HIDE DEF both, size, t
    <3> QED
      BY <2>1, <3>1 DEF Range
  <2>3. t = <<v, u>> /\ Turned(t) = <<u, v>>
    BY DEF Turned
  <2>4. size = <<u, v>>
    <3>1. Axes = 1 .. 2
      BY DEF Axes
    <3>2. size = [a \in 1 .. 2 |-> size[a]] /\ <<u, v>> = [a \in 1 .. 2 |-> <<u, v>>[a]]
      BY <1>1, <3>1
    <3>3. \A a \in 1 .. 2 : size[a] = <<u, v>>[a]
      <4>1. \A a \in 1 .. 2 : a = 1 \/ a = 2
        OBVIOUS
      <4>2. <<u, v>>[1] = size[1] /\ <<u, v>>[2] = size[2]
        OBVIOUS
      <4> QED
        BY <4>1, <4>2
    <3> QED
      BY <3>2, <3>3, Zenon
  <2> DEFINE long == Max({u, v})
             short == Min({u, v})
  <2>5. (long = u /\ short = v) \/ (long = v /\ short = u)
    <3>1. {u, v} \subseteq Nat /\ {u, v} # {} /\ {u, v} \subseteq Int /\ u + v \in Int /\ \A k \in {u, v} : k <= u + v
      BY <1>1
    <3>2. short \in {u, v} /\ \A k \in {u, v} : short <= k
      <4> HIDE DEF u, v
      <4> QED
        BY <3>1, MinOf
    <3>3. long \in {u, v} /\ \A k \in {u, v} : long >= k
      <4> HIDE DEF u, v
      <4> QED
        BY <3>1, MaxOf
    <3> HIDE DEF u, v, long, short
    <3> QED
      BY <1>1, <3>2, <3>3
  <2>6. Orient(part, wide) = <<long, short>> \/ Orient(part, wide) = <<short, long>> \/ Orient(part, wide) = size
    BY DEF Orient
  <2> HIDE DEF long, short
  <2>7. Orient(part, wide) = size \/ Orient(part, wide) = t
    <3> HIDE DEF u, v, t, size
    <3> QED
      BY <2>3, <2>4, <2>5, <2>6
  <2>8. Turned(size) = t /\ Turned(t) = size
    BY <2>3, <2>4
  <2>9. Laid(part, sheet, wide) = size \/ Laid(part, sheet, wide) = t
    <3> HIDE DEF t, size
    <3> QED
      BY <2>7, <2>8 DEF Laid
  <2> HIDE DEF t, size
  <2> QED
    BY <1>2, <2>2, <2>7, <2>9
<1> QED
  BY <1>3, <1>4

\* A shelf, and the states shelves are filled in.
Shelf == [height : Nat, used : Nat, pieces : Seq(Slabs)]
ShelfStates == [height : Nat, shelves : Seq(Shelf)]
HeightsOf(shelves) == [k \in DOMAIN shelves |-> shelves[k].height]

\* A shelf is as full as it says, fits the sheet, and is as high as its pieces
\* need, which are some of those laid so far.
ShelfRight(parts, ids, wide, shelf) ==
    /\ Starts(Widths(shelf.pieces, 1))[Len(shelf.pieces) + 1] = shelf.used + Kerf
    /\ shelf.used <= wide
    /\ \A i \in 1 .. Len(shelf.pieces) :
          /\ shelf.pieces[i].size[2] <= shelf.height
          /\ shelf.pieces[i].id \in ids
          /\ shelf.pieces[i].size \in Range(Orientations(parts[shelf.pieces[i].id]))
ApartShelves(shelves) ==
    \A k, l \in 1 .. Len(shelves) :
        \A i \in 1 .. Len(shelves[k].pieces), j \in 1 .. Len(shelves[l].pieces) :
            shelves[k].pieces[i].id = shelves[l].pieces[j].id => k = l /\ i = j
Stacked(shelves, height) ==
    Starts(HeightsOf(shelves))[Len(shelves) + 1]
        = height + (IF shelves = <<>> THEN 0 ELSE Kerf)
ShelvesGood(parts, ids, sheet) ==
    {st \in ShelfStates :
        /\ Stacked(st.shelves, st.height) /\ st.height <= sheet[2]
        /\ \A k \in 1 .. Len(st.shelves) : ShelfRight(parts, ids, sheet[1], st.shelves[k])
        /\ ApartShelves(st.shelves)}

\* A piece more on a shelf with room for it.
Widened(shelf, piece) ==
    [height |-> shelf.height, used |-> shelf.used + Kerf + piece.size[1],
     pieces |-> Append(shelf.pieces, piece)]
OneMore(shelf, new, piece) ==
    \A i \in 1 .. Len(new.pieces) :
        \/ i \in 1 .. Len(shelf.pieces) /\ new.pieces[i] = shelf.pieces[i]
        \/ i = Len(shelf.pieces) + 1 /\ new.pieces[i] = piece
\* A shelf with room for one more piece is right with it.
LEMMA WidenedIs ==
    ASSUME NEW parts, NEW ids, NEW wide \in Nat, NEW shelf \in Shelf, ShelfRight(parts, ids, wide, shelf),
           NEW p \in Slabs, p.id \notin ids, p.size \in Range(Orientations(parts[p.id])),
           p.size[2] <= shelf.height, shelf.used + Kerf + p.size[1] <= wide
    PROVE  /\ Widened(shelf, p) \in Shelf
           /\ ShelfRight(parts, ids \cup {p.id}, wide, Widened(shelf, p))
           /\ Widened(shelf, p).height = shelf.height
           /\ OneMore(shelf, Widened(shelf, p), p)
<1> DEFINE old == shelf.pieces
           n == Len(old)
           grown == Append(old, p)
           new == Widened(shelf, p)
           w == Widths(old, 1)
           g == Widths(grown, 1)
<1>1. old \in Seq(Slabs) /\ shelf.height \in Nat /\ shelf.used \in Nat /\ n \in Nat /\ Kerf \in Nat
      /\ p.size[1] \in Nat /\ p.size[2] \in Nat /\ 1 \in Axes
  BY KerfAssumption, LenProperties DEF Shelf, KerfAssumption, Slabs, Lengths, Axes
<1>2. /\ grown \in Seq(Slabs) /\ Len(grown) = n + 1 /\ grown[n + 1] = p
      /\ \A i \in 1 .. n : grown[i] = old[i]
  BY <1>1, AppendProperties
<1>3. /\ new.height = shelf.height /\ new.used = shelf.used + Kerf + p.size[1] /\ new.pieces = grown
  BY DEF Widened
<1>4. new \in Shelf
  <2>1. shelf.used + Kerf + p.size[1] \in Nat
    BY <1>1
  <2> HIDE DEF grown, old
  <2>2. new = [height |-> shelf.height, used |-> shelf.used + Kerf + p.size[1], pieces |-> grown]
    BY DEF Widened, grown, old
  <2> HIDE DEF new
  <2> QED
    BY <1>1, <1>2, <2>1, <2>2 DEF Shelf
<1>5. /\ Starts(w)[n + 1] = shelf.used + Kerf
      /\ \A i \in 1 .. n : old[i].size[2] <= shelf.height /\ old[i].id \in ids
                           /\ old[i].size \in Range(Orientations(parts[old[i].id]))
  BY DEF ShelfRight
<1> HIDE DEF old, grown, new, n
<1>6. /\ w \in Seq(Nat) /\ Len(w) = n /\ \A i \in 1 .. n : w[i] = old[i].size[1]
      /\ g \in Seq(Nat) /\ Len(g) = n + 1 /\ \A i \in 1 .. n + 1 : g[i] = grown[i].size[1]
  BY <1>1, <1>2, WidthsTyped DEF n
<1> HIDE DEF w, g
<1>7. Starts(g)[n + 2] = Starts(w)[n + 1] + g[n + 1] + Kerf
  <2>1. \A i \in 1 .. n : g[i] = w[i]
    <3> SUFFICES ASSUME NEW i \in 1 .. n PROVE g[i] = w[i]
      OBVIOUS
    <3>1. i \in 1 .. n + 1
      BY <1>1
    <3>2. g[i] = grown[i].size[1] /\ w[i] = old[i].size[1] /\ grown[i] = old[i]
      BY <1>2, <1>6, <3>1
    <3> QED
      BY <3>2
  <2> QED
    BY <1>6, <2>1, StartsGrow
<1>8. g[n + 1] = p.size[1]
  <2>1. n + 1 \in 1 .. n + 1
    BY <1>1
  <2> QED
    BY <1>2, <1>6, <2>1
<1>9. \A i \in 1 .. n + 1 : i \in 1 .. n \/ i = n + 1
  BY <1>1
<1>10. ShelfRight(parts, ids \cup {p.id}, wide, new)
  <2>1. Starts(g)[n + 2] = (shelf.used + Kerf + p.size[1]) + Kerf
    BY <1>1, <1>5, <1>7, <1>8
  <2>2. (n + 1) + 1 = n + 2
    BY <1>1
  <2>3. ASSUME NEW i \in 1 .. n + 1
        PROVE  /\ grown[i].size[2] <= shelf.height /\ grown[i].id \in ids \cup {p.id}
               /\ grown[i].size \in Range(Orientations(parts[grown[i].id]))
    <3>1. CASE i \in 1 .. n
      BY <1>2, <1>5, <3>1
    <3>2. CASE i = n + 1
      BY <1>2, <3>2
    <3> QED
      BY <1>9, <3>1, <3>2
  <2>4. Starts(Widths(grown, 1))[Len(grown) + 1] = new.used + Kerf
    BY <1>2, <1>3, <2>1, <2>2 DEF g
  <2>5. new.used <= wide
    BY <1>3
  <2> QED
    BY <1>2, <1>3, <2>3, <2>4, <2>5 DEF ShelfRight
<1>11. \A i \in 1 .. n + 1 : (i \in 1 .. n /\ grown[i] = old[i]) \/ (i = n + 1 /\ grown[i] = p)
  BY <1>2, <1>9
<1>12. OneMore(shelf, new, p)
  BY <1>2, <1>3, <1>11 DEF OneMore, old, n
<1> QED
  BY <1>3, <1>4, <1>10, <1>12 DEF new

\* A new shelf for a piece.
Begun(piece) == [height |-> piece.size[2], used |-> piece.size[1], pieces |-> <<piece>>]
\* A shelf begun with one piece is right.
LEMMA BegunIs ==
    ASSUME NEW parts, NEW ids, NEW wide \in Nat,
           NEW p \in Slabs, p.size \in Range(Orientations(parts[p.id])), p.size[1] <= wide
    PROVE  /\ Begun(p) \in Shelf /\ ShelfRight(parts, ids \cup {p.id}, wide, Begun(p))
           /\ Begun(p).height = p.size[2]
           /\ \A i \in 1 .. Len(Begun(p).pieces) : i = 1 /\ Begun(p).pieces[i] = p
<1> DEFINE one == <<p>>
           g == Widths(one, 1)
           new == Begun(p)
<1>1. p.size[1] \in Nat /\ p.size[2] \in Nat /\ 1 \in Axes
  BY DEF Slabs, Lengths, Axes
<1>2. one \in Seq(Slabs) /\ Len(one) = 1 /\ one[1] = p /\ \A i \in 1 .. 1 : i = 1
  OBVIOUS
<1>3. new = [height |-> p.size[2], used |-> p.size[1], pieces |-> one]
  BY DEF Begun
<1> HIDE DEF one, new
<1>4. g \in Seq(Nat) /\ Len(g) = 1 /\ g[1] = p.size[1]
  <2>1. 1 \in 1 .. 1
    OBVIOUS
  <2> QED
    BY <1>1, <1>2, <2>1, WidthsTyped
<1>5. new \in Shelf /\ new.height = p.size[2] /\ new.used = p.size[1] /\ new.pieces = one
  BY <1>1, <1>2, <1>3 DEF Shelf
<1> HIDE DEF g
<1>6. Starts(g)[2] = p.size[1] + Kerf
  BY <1>4, StartsOfOne
<1>7. ShelfRight(parts, ids \cup {p.id}, wide, new)
  <2>1. Starts(Widths(new.pieces, 1))[Len(new.pieces) + 1] = new.used + Kerf
    <3>1. Widths(one, 1) = g /\ new.pieces = one
      BY <1>5 DEF g
    <3>2. Len(one) = 1 /\ 1 + 1 = 2
      BY <1>2
    <3>3. Starts(Widths(one, 1))[Len(one) + 1] = new.used + Kerf
      BY <1>5, <1>6, <3>1, <3>2
    <3> QED
      BY <3>1, <3>3
  <2>2. new.used <= wide
    BY <1>5
  <2>3. \A i \in 1 .. Len(new.pieces) :
           /\ new.pieces[i].size[2] <= new.height
           /\ new.pieces[i].id \in ids \cup {p.id}
           /\ new.pieces[i].size \in Range(Orientations(parts[new.pieces[i].id]))
    <3> SUFFICES ASSUME NEW i \in 1 .. 1
                 PROVE  /\ one[i].size[2] <= p.size[2] /\ one[i].id \in ids \cup {p.id}
                        /\ one[i].size \in Range(Orientations(parts[one[i].id]))
      BY <1>2, <1>5
    <3>1. one[i] = p
      BY <1>2
    <3>2. p.size[2] <= p.size[2] /\ p.id \in ids \cup {p.id}
      BY <1>1
    <3> QED
      BY <3>1, <3>2
  <2> QED
    BY <2>1, <2>2, <2>3 DEF ShelfRight
<1> QED
  BY <1>2, <1>5, <1>7 DEF new

\* A shelf stays right when more parts have been laid.
LEMMA RightStays ==
    ASSUME NEW parts, NEW ids, NEW more, NEW wide, NEW shelf, ShelfRight(parts, ids, wide, shelf)
    PROVE  ShelfRight(parts, ids \cup more, wide, shelf)
BY DEF ShelfRight

\* Heights are numbers.
LEMMA HeightsTyped ==
    ASSUME NEW shelves \in Seq(Shelf)
    PROVE  /\ HeightsOf(shelves) \in Seq(Nat) /\ Len(HeightsOf(shelves)) = Len(shelves)
           /\ Len(shelves) \in Nat /\ DOMAIN shelves = 1 .. Len(shelves)
           /\ \A k \in 1 .. Len(shelves) : shelves[k] \in Shelf /\ HeightsOf(shelves)[k] = shelves[k].height
<1>1. DOMAIN shelves = 1 .. Len(shelves) /\ Len(shelves) \in Nat /\ \A k \in 1 .. Len(shelves) : shelves[k] \in Shelf
  BY LenProperties, ElementOfSeq
<1>2. \A k \in 1 .. Len(shelves) : shelves[k].height \in Nat
  BY <1>1 DEF Shelf
<1>3. HeightsOf(shelves) \in [1 .. Len(shelves) -> Nat]
  BY <1>1, <1>2 DEF HeightsOf
<1>4. \A k \in 1 .. Len(shelves) : HeightsOf(shelves)[k] = shelves[k].height
  BY <1>1 DEF HeightsOf
<1> QED
  BY <1>1, <1>3, <1>4, FunctionSeq

\* Two places on shelves that hold each part once are one place if they hold
\* one part.
LEMMA ApartAt ==
    ASSUME NEW shelves, ApartShelves(shelves), NEW k \in 1 .. Len(shelves), NEW l \in 1 .. Len(shelves),
           NEW i \in 1 .. Len(shelves[k].pieces), NEW j \in 1 .. Len(shelves[l].pieces),
           shelves[k].pieces[i].id = shelves[l].pieces[j].id
    PROVE  k = l /\ i = j
BY DEF ApartShelves

\* A piece on one of the shelves.
PutOn(shelves, s, w) == [k \in 1 .. Len(shelves) |-> IF k = s THEN w ELSE shelves[k]]
AllRight(parts, ids, wide, shelves) ==
    \A k \in 1 .. Len(shelves) : ShelfRight(parts, ids, wide, shelves[k])
\* Shelves stay right and apart when one of them takes a new piece.
LEMMA ShelfWidened ==
    ASSUME NEW parts, NEW ids, NEW sheet \in [Axes -> Lengths],
           NEW shelves \in Seq(Shelf), NEW height \in Nat, Stacked(shelves, height), ApartShelves(shelves),
           \A k \in 1 .. Len(shelves) : ShelfRight(parts, ids, sheet[1], shelves[k]),
           NEW s \in 1 .. Len(shelves),
           NEW p \in Slabs, p.id \notin ids, NEW w \in Shelf,
           ShelfRight(parts, ids \cup {p.id}, sheet[1], w), w.height = shelves[s].height,
           OneMore(shelves[s], w, p)
    PROVE  LET new == PutOn(shelves, s, w)
           IN  /\ new \in Seq(Shelf) /\ Stacked(new, height) /\ ApartShelves(new)
               /\ AllRight(parts, ids \cup {p.id}, sheet[1], new)
<1> DEFINE n == Len(shelves)
           new == [k \in 1 .. n |-> IF k = s THEN w ELSE shelves[k]]
           Id(k, i) == shelves[k].pieces[i].id
<1>1. /\ n \in Nat /\ \A k \in 1 .. n : shelves[k] \in Shelf
      /\ HeightsOf(shelves) \in Seq(Nat) /\ Len(HeightsOf(shelves)) = n
      /\ \A k \in 1 .. n : HeightsOf(shelves)[k] = shelves[k].height
  BY HeightsTyped
<1>2. sheet[1] \in Nat
  BY DEF Lengths, Axes
<1>3. /\ w \in Shelf /\ ShelfRight(parts, ids \cup {p.id}, sheet[1], w) /\ w.height = shelves[s].height
      /\ \A i \in 1 .. Len(w.pieces) :
            \/ i \in 1 .. Len(shelves[s].pieces) /\ w.pieces[i] = shelves[s].pieces[i]
            \/ i = Len(shelves[s].pieces) + 1 /\ w.pieces[i] = p
  BY DEF OneMore
<1>4. new = [k \in 1 .. n |-> IF k = s THEN w ELSE shelves[k]] /\ s \in 1 .. n
  OBVIOUS
<1>5. \A k \in 1 .. n : \A i \in 1 .. Len(shelves[k].pieces) : Id(k, i) \in ids
  BY DEF ShelfRight
<1> HIDE DEF new, n
<1>6. new \in [1 .. n -> Shelf] /\ new[s] = w /\ \A k \in 1 .. n : k # s => new[k] = shelves[k]
  BY <1>1, <1>3, <1>4
<1>7. new \in Seq(Shelf) /\ Len(new) = n
  BY <1>1, <1>6, FunctionSeq
<1>8. Stacked(new, height)
  <2>1. /\ HeightsOf(new) \in Seq(Nat) /\ Len(HeightsOf(new)) = n
        /\ \A k \in 1 .. n : HeightsOf(new)[k] = new[k].height
    BY <1>7, HeightsTyped
  <2>2. \A k \in 1 .. n : HeightsOf(new)[k] = HeightsOf(shelves)[k]
    <3> SUFFICES ASSUME NEW k \in 1 .. n PROVE HeightsOf(new)[k] = HeightsOf(shelves)[k]
      OBVIOUS
    <3>1. new[k].height = shelves[k].height
      BY <1>3, <1>6
    <3> QED
      BY <1>1, <2>1, <3>1
  <2>3. HeightsOf(new) = HeightsOf(shelves)
    <3>1. DOMAIN HeightsOf(new) = 1 .. n /\ DOMAIN HeightsOf(shelves) = 1 .. n
      BY <1>1, <2>1, LenProperties
    <3>2. HeightsOf(new) = [k \in 1 .. n |-> HeightsOf(new)[k]] /\ HeightsOf(shelves) = [k \in 1 .. n |-> HeightsOf(shelves)[k]]
      BY <1>1, <2>1, <3>1, LenProperties
    <3> QED
      BY <2>2, <3>2
  <2>4. new # <<>> /\ shelves # <<>>
    <3>1. n > 0 /\ Len(shelves) = n
      BY <1>1, <1>4 DEF n
    <3> QED
      BY <1>7, <3>1
  <2> QED
    BY <1>7, <2>3, <2>4 DEF Stacked, n
<1>9. ASSUME NEW k \in 1 .. n, NEW l \in 1 .. n,
             NEW i \in 1 .. Len(new[k].pieces), NEW j \in 1 .. Len(new[l].pieces),
             new[k].pieces[i].id = new[l].pieces[j].id
      PROVE  k = l /\ i = j
  <2> DEFINE Old(kk, ii) == ii \in 1 .. Len(shelves[kk].pieces) /\ new[kk].pieces[ii] = shelves[kk].pieces[ii]
             New(kk, ii) == kk = s /\ ii = Len(shelves[s].pieces) + 1 /\ new[kk].pieces[ii] = p
  <2>1. \A kk \in 1 .. n : \A ii \in 1 .. Len(new[kk].pieces) : Old(kk, ii) \/ New(kk, ii)
    <3> SUFFICES ASSUME NEW kk \in 1 .. n, NEW ii \in 1 .. Len(new[kk].pieces) PROVE Old(kk, ii) \/ New(kk, ii)
      OBVIOUS
    <3>1. CASE kk = s
      BY <1>3, <1>6, <3>1
    <3>2. CASE kk # s
      BY <1>6, <3>2
    <3> QED
      BY <3>1, <3>2
  <2>2. (Old(k, i) \/ New(k, i)) /\ (Old(l, j) \/ New(l, j))
    BY <2>1
  <2>3. \A kk \in 1 .. n : \A ii : Old(kk, ii) => new[kk].pieces[ii].id \in ids
    BY <1>5
  <2>4. CASE Old(k, i) /\ Old(l, j)
    <3>1. Id(k, i) = Id(l, j)
      BY <1>9, <2>4
    <3> QED
      BY <2>4, <3>1, ApartAt DEF n
  <2>5. CASE New(k, i) /\ New(l, j)
    BY <2>5
  <2>6. CASE Old(k, i) /\ New(l, j)
    <3>1. new[k].pieces[i].id \in ids /\ new[l].pieces[j].id = p.id
      BY <2>3, <2>6
    <3> QED
      BY <1>9, <3>1
  <2>7. CASE New(k, i) /\ Old(l, j)
    <3>1. new[l].pieces[j].id \in ids /\ new[k].pieces[i].id = p.id
      BY <2>3, <2>7
    <3> QED
      BY <1>9, <3>1
  <2> QED
    BY <2>2, <2>4, <2>5, <2>6, <2>7
<1>10. ApartShelves(new)
  BY <1>7, <1>9 DEF ApartShelves
<1>11. \A k \in 1 .. n : ShelfRight(parts, ids \cup {p.id}, sheet[1], new[k])
  <2>1. \A k \in 1 .. n : ShelfRight(parts, ids \cup {p.id}, sheet[1], shelves[k])
    BY RightStays DEF n
  <2> QED
    BY <1>3, <1>6, <2>1
<1> QED
  BY <1>7, <1>8, <1>10, <1>11 DEF new, n, PutOn, AllRight

\* A piece on a shelf of its own.
LEMMA ShelfBegun ==
    ASSUME NEW parts, NEW ids, NEW sheet \in [Axes -> Lengths],
           NEW shelves \in Seq(Shelf), NEW height \in Nat, Stacked(shelves, height), ApartShelves(shelves),
           \A k \in 1 .. Len(shelves) : ShelfRight(parts, ids, sheet[1], shelves[k]),
           NEW p \in Slabs, p.id \notin ids, p.size \in Range(Orientations(parts[p.id])),
           p.size[1] <= sheet[1]
    PROVE  LET new == Append(shelves, Begun(p))
               more == height + (IF shelves = <<>> THEN 0 ELSE Kerf) + p.size[2]
           IN  /\ new \in Seq(Shelf) /\ Stacked(new, more) /\ ApartShelves(new) /\ new # <<>> /\ more \in Nat
               /\ \A k \in 1 .. Len(new) : ShelfRight(parts, ids \cup {p.id}, sheet[1], new[k])
<1> DEFINE n == Len(shelves)
           b == Begun(p)
           new == Append(shelves, b)
           cut == IF shelves = <<>> THEN 0 ELSE Kerf
           more == height + cut + p.size[2]
           Id(k, i) == shelves[k].pieces[i].id
<1>1. /\ n \in Nat /\ \A k \in 1 .. n : shelves[k] \in Shelf
      /\ HeightsOf(shelves) \in Seq(Nat) /\ Len(HeightsOf(shelves)) = n
      /\ \A k \in 1 .. n : HeightsOf(shelves)[k] = shelves[k].height
  BY HeightsTyped
<1>2. sheet[1] \in Nat /\ p.size[2] \in Nat /\ Kerf \in Nat /\ cut \in Nat
  BY KerfAssumption DEF Lengths, Axes, Slabs, KerfAssumption
<1>3. /\ b \in Shelf /\ ShelfRight(parts, ids \cup {p.id}, sheet[1], b) /\ b.height = p.size[2]
      /\ \A i \in 1 .. Len(b.pieces) : i = 1 /\ b.pieces[i] = p
  BY <1>2, BegunIs
<1>4. \A k \in 1 .. n : \A i \in 1 .. Len(shelves[k].pieces) : Id(k, i) \in ids
  BY DEF ShelfRight
<1>5. Starts(HeightsOf(shelves))[n + 1] = height + cut
  BY DEF Stacked
<1> HIDE DEF b, cut
<1>6. /\ new \in Seq(Shelf) /\ Len(new) = n + 1 /\ new[n + 1] = b
      /\ \A k \in 1 .. n : new[k] = shelves[k]
  BY <1>1, <1>3, AppendProperties
<1> HIDE DEF n, new
<1>7. \A k \in 1 .. n + 1 : k \in 1 .. n \/ k = n + 1
  BY <1>1
<1>8. new # <<>> /\ more \in Nat
  <2>1. Len(new) # 0 /\ Len(<<>>) = 0
    BY <1>1, <1>6
  <2> QED
    BY <1>2, <2>1
<1>9. Stacked(new, more)
  <2>1. /\ HeightsOf(new) \in Seq(Nat) /\ Len(HeightsOf(new)) = n + 1
        /\ \A k \in 1 .. n + 1 : HeightsOf(new)[k] = new[k].height
    BY <1>6, HeightsTyped
  <2>2. \A k \in 1 .. n : HeightsOf(new)[k] = HeightsOf(shelves)[k]
    <3> SUFFICES ASSUME NEW k \in 1 .. n PROVE HeightsOf(new)[k] = HeightsOf(shelves)[k]
      OBVIOUS
    <3>1. k \in 1 .. n + 1
      BY <1>1
    <3> QED
      BY <1>1, <1>6, <2>1, <3>1
  <2>3. Starts(HeightsOf(new))[n + 2] = Starts(HeightsOf(shelves))[n + 1] + HeightsOf(new)[n + 1] + Kerf
    BY <1>1, <2>1, <2>2, StartsGrow
  <2>4. HeightsOf(new)[n + 1] = p.size[2]
    <3>1. n + 1 \in 1 .. n + 1
      BY <1>1
    <3> QED
      BY <1>3, <1>6, <2>1, <3>1
  <2>5. Starts(HeightsOf(new))[n + 2] = more + Kerf /\ (n + 1) + 1 = n + 2
    BY <1>1, <1>2, <1>5, <2>3, <2>4
  <2> HIDE DEF more
  <2> QED
    BY <1>6, <1>8, <2>5 DEF Stacked
<1>10. ASSUME NEW k \in 1 .. n + 1, NEW l \in 1 .. n + 1,
              NEW i \in 1 .. Len(new[k].pieces), NEW j \in 1 .. Len(new[l].pieces),
              new[k].pieces[i].id = new[l].pieces[j].id
       PROVE  k = l /\ i = j
  <2>1. CASE k \in 1 .. n /\ l \in 1 .. n
    <3>1. i \in 1 .. Len(shelves[k].pieces) /\ j \in 1 .. Len(shelves[l].pieces) /\ Id(k, i) = Id(l, j)
      BY <1>6, <1>10, <2>1
    <3> QED
      BY <2>1, <3>1 DEF ApartShelves, n
  <2>2. CASE k \in 1 .. n /\ l = n + 1
    <3>1. new[k].pieces[i].id \in ids /\ new[l].pieces[j].id = p.id
      BY <1>3, <1>4, <1>6, <2>2
    <3> QED
      BY <1>10, <3>1
  <2>3. CASE l \in 1 .. n /\ k = n + 1
    <3>1. new[l].pieces[j].id \in ids /\ new[k].pieces[i].id = p.id
      BY <1>3, <1>4, <1>6, <2>3
    <3> QED
      BY <1>10, <3>1
  <2>4. CASE k = n + 1 /\ l = n + 1
    BY <1>3, <1>6, <2>4
  <2> QED
    BY <1>7, <2>1, <2>2, <2>3, <2>4
<1>11. ApartShelves(new)
  BY <1>6, <1>10 DEF ApartShelves
<1>12. \A k \in 1 .. n + 1 : ShelfRight(parts, ids \cup {p.id}, sheet[1], new[k])
  <2> SUFFICES ASSUME NEW k \in 1 .. n + 1 PROVE ShelfRight(parts, ids \cup {p.id}, sheet[1], new[k])
    OBVIOUS
  <2>1. CASE k \in 1 .. n
    <3>1. ShelfRight(parts, ids \cup {p.id}, sheet[1], shelves[k])
      BY <2>1, RightStays DEF n
    <3> QED
      BY <1>6, <2>1, <3>1
  <2>2. CASE k = n + 1
    BY <1>3, <1>6, <2>2
  <2> QED
    BY <1>7, <2>1, <2>2
<1> QED
  BY <1>6, <1>8, <1>9, <1>11, <1>12 DEF new, more, b, cut

\* What is done with a piece.
LEMMA ShelveIs ==
    ASSUME NEW st \in ShelfStates, NEW id \in Nat, NEW size \in [Axes -> Lengths], NEW sheet \in [Axes -> Lengths]
    PROVE  LET p == [id |-> id, size |-> size]
               n == Len(st.shelves)
               new == Shelve(st, id, size, sheet)
           IN  \/ new = st
               \/ \E s \in 1 .. n :
                     /\ size[2] <= st.shelves[s].height /\ st.shelves[s].used + Kerf + size[1] <= sheet[1]
                     /\ new = [height |-> st.height,
                               shelves |-> [k \in 1 .. n |-> IF k = s THEN Widened(st.shelves[s], p)
                                                             ELSE st.shelves[k]]]
               \/ LET more == st.height + (IF st.shelves = <<>> THEN 0 ELSE Kerf) + size[2]
                  IN  /\ size[1] <= sheet[1] /\ more <= sheet[2]
                      /\ new = [height |-> more, shelves |-> Append(st.shelves, Begun(p))]
<1> DEFINE p == [id |-> id, size |-> size]
           old == st.shelves
           n == Len(old)
           new == Shelve(st, id, size, sheet)
           Takers == {s \in 1 .. n : ShelfTakes(old[s], size, sheet)}
           more == st.height + (IF old = <<>> THEN 0 ELSE Kerf) + size[2]
           m == Min(Takers)
           wide == old[m].used + Kerf + size[1]
           put == Append(old[m].pieces, p)
<1>1. /\ old \in Seq(Shelf) /\ st.height \in Nat /\ n \in Nat /\ DOMAIN old = 1 .. n
      /\ Kerf \in Nat /\ sheet[1] \in Nat /\ sheet[2] \in Nat /\ size[1] \in Nat /\ size[2] \in Nat
  BY KerfAssumption, LenProperties DEF ShelfStates, KerfAssumption, Axes, Lengths
<1>2. new = IF size[1] > sheet[1] THEN st
            ELSE IF Takers # {}
            THEN [st EXCEPT !.shelves[m].used = @ + Kerf + size[1], !.shelves[m].pieces = Append(@, p)]
            ELSE IF more > sheet[2] THEN st
            ELSE [height |-> more, shelves |-> Append(old, Begun(p))]
  BY <1>1 DEF Shelve, Begun
<1>3. Takers # {} => m \in 1 .. n /\ size[2] <= old[m].height /\ old[m].used + Kerf + size[1] <= sheet[1]
  <2>1. Takers \subseteq Nat
    BY <1>1
  <2>2. Takers # {} => m \in Takers
    <3> HIDE DEF Takers
    <3> QED
      BY <2>1, MinOf
  <2>3. \A s \in Takers : s \in 1 .. n /\ size[2] <= old[s].height /\ old[s].used + Kerf + size[1] <= sheet[1]
    BY DEF ShelfTakes
  <2> HIDE DEF Takers, m
  <2> QED
    BY <2>2, <2>3
<1>4. CASE size[1] > sheet[1]
  BY <1>2, <1>4
<1>5. CASE ~(size[1] > sheet[1]) /\ Takers # {}
  <2>1. new = [st EXCEPT !.shelves[m].used = @ + Kerf + size[1], !.shelves[m].pieces = Append(@, p)]
    <3> HIDE DEF Takers, m, p, new
    <3> QED
      BY <1>2, <1>5
  <2>2. m \in 1 .. n
    BY <1>3, <1>5
  <2> HIDE DEF m, Takers, new, p, n
  <2>3. old[m] \in Shelf
    BY <1>1, <2>2, ElementOfSeq DEF n
  <2>4. new = [height |-> st.height, shelves |-> [k \in 1 .. n |-> IF k = m THEN Widened(old[m], p) ELSE old[k]]]
    <3> DEFINE a == [old EXCEPT ![m].used = @ + Kerf + size[1]]
               c == [a EXCEPT ![m].pieces = Append(@, p)]
    <3>1. st = [height |-> st.height, shelves |-> old]
      BY DEF ShelfStates
    <3>2. new = [height |-> st.height, shelves |-> c]
      BY <2>1, <3>1
    <3>3. old = [k \in 1 .. n |-> old[k]]
      BY <1>1, LenProperties
    <3>4. a = [k \in 1 .. n |-> IF k = m THEN [old[m] EXCEPT !.used = wide] ELSE old[k]]
      BY <1>1, <2>2, <3>3
    <3>5. c = [k \in 1 .. n |-> IF k = m THEN [[old[m] EXCEPT !.used = wide] EXCEPT !.pieces = put] ELSE old[k]]
      <4>1. [old[m] EXCEPT !.used = wide].pieces = old[m].pieces
        BY <2>3 DEF Shelf
      <4> HIDE DEF a
      <4> QED
        BY <2>2, <3>4, <4>1
    <3>6. [[old[m] EXCEPT !.used = wide] EXCEPT !.pieces = put] = [height |-> old[m].height, used |-> wide, pieces |-> put]
      <4> DEFINE sh == old[m]
                 h == sh.height
                 u == sh.used
                 q == sh.pieces
      <4>1. sh = [height |-> h, used |-> u, pieces |-> q]
        BY <2>3 DEF Shelf
      <4> HIDE DEF h, u, q
      <4> DEFINE mid == [sh EXCEPT !.used = wide]
      <4> HIDE DEF wide, put
      <4>2. mid = [height |-> h, used |-> wide, pieces |-> q]
        BY <4>1
      <4> HIDE DEF mid
      <4>3. [mid EXCEPT !.pieces = put] = [height |-> h, used |-> wide, pieces |-> put]
        BY <4>2
      <4> QED
        BY <4>3 DEF h, mid
    <3>7. Widened(old[m], p) = [height |-> old[m].height, used |-> wide, pieces |-> put]
      BY DEF Widened, p
    <3> HIDE DEF c, a
    <3> QED
      BY <3>2, <3>5, <3>6, <3>7
  <2> QED
    BY <1>3, <1>5, <2>2, <2>4 DEF p, n, new
<1>6. CASE ~(size[1] > sheet[1]) /\ Takers = {}
  <2> HIDE DEF Takers, m
  <2>1. CASE more > sheet[2]
    BY <1>2, <1>6, <2>1
  <2>2. CASE ~(more > sheet[2])
    <3>1. new = [height |-> more, shelves |-> Append(old, Begun(p))]
      BY <1>2, <1>6, <2>2
    <3>2. size[1] <= sheet[1] /\ more <= sheet[2]
      BY <1>1, <1>6, <2>2
    <3> QED
      BY <3>1, <3>2
  <2> QED
    BY <2>1, <2>2
<1> QED
  BY <1>4, <1>5, <1>6

\* A piece of some part.
LEMMA SlabIs ==
    ASSUME NEW id \in Nat, NEW size \in [Axes -> Lengths]
    PROVE  LET p == [id |-> id, size |-> size]
           IN  p \in Slabs /\ p.id = id /\ p.size = size /\ p.size[1] = size[1] /\ p.size[2] = size[2]
BY DEF Slabs

\* A piece leaves shelves of the right type.
LEMMA ShelveTyped ==
    ASSUME NEW st \in ShelfStates, NEW id \in Nat, NEW size \in [Axes -> Lengths], NEW sheet \in [Axes -> Lengths]
    PROVE  Shelve(st, id, size, sheet) \in ShelfStates
<1> DEFINE p == [id |-> id, size |-> size]
           old == st.shelves
           n == Len(old)
           new == Shelve(st, id, size, sheet)
           more == st.height + (IF old = <<>> THEN 0 ELSE Kerf) + size[2]
           Wide(s) == Widened(old[s], p)
           Put(s) == [k \in 1 .. n |-> IF k = s THEN Wide(s) ELSE old[k]]
           b == Begun(p)
<1>1. /\ old \in Seq(Shelf) /\ st.height \in Nat /\ n \in Nat /\ Kerf \in Nat /\ size[1] \in Nat /\ size[2] \in Nat
      /\ \A k \in 1 .. n : old[k] \in Shelf
  BY KerfAssumption, LenProperties, ElementOfSeq DEF ShelfStates, KerfAssumption, Axes, Lengths
<1>2. p \in Slabs /\ p.size[1] = size[1] /\ p.size[2] = size[2]
  BY SlabIs
<1>3. \/ new = st
      \/ \E s \in 1 .. n : new = [height |-> st.height, shelves |-> Put(s)]
      \/ new = [height |-> more, shelves |-> Append(old, b)]
  BY ShelveIs, Zenon
<1>4. \A s \in 1 .. n : Wide(s) \in Shelf
  <2> SUFFICES ASSUME NEW s \in 1 .. n PROVE Wide(s) \in Shelf
    OBVIOUS
  <2> DEFINE sh == old[s]
             q == Append(sh.pieces, p)
             u == sh.used + Kerf + p.size[1]
             h == sh.height
  <2>1. sh \in Shelf
    BY <1>1
  <2>2. q \in Seq(Slabs) /\ u \in Nat /\ h \in Nat
    <3>1. sh.pieces \in Seq(Slabs) /\ sh.used \in Nat /\ sh.height \in Nat
      BY <2>1 DEF Shelf
    <3> HIDE DEF sh
    <3> QED
      BY <1>1, <1>2, <3>1, AppendProperties
  <2>3. Wide(s) = [height |-> h, used |-> u, pieces |-> q]
    BY DEF Widened
  <2> HIDE DEF Wide, h, u, q
  <2> QED
    BY <2>2, <2>3 DEF Shelf
<1>5. b \in Shelf
  <2> DEFINE one == <<p>>
             u == p.size[1]
             h == p.size[2]
  <2>1. one \in Seq(Slabs) /\ u \in Nat /\ h \in Nat
    BY <1>1, <1>2
  <2>2. b = [height |-> h, used |-> u, pieces |-> one]
    BY DEF Begun
  <2> HIDE DEF b, one, u, h
  <2> QED
    BY <2>1, <2>2 DEF Shelf
<1> HIDE DEF new, b, Wide, p
<1>6. CASE \E s \in 1 .. n : new = [height |-> st.height, shelves |-> Put(s)]
  <2>1. PICK s \in 1 .. n : new = [height |-> st.height, shelves |-> Put(s)]
    BY <1>6
  <2>2. Put(s) \in [1 .. n -> Shelf]
    BY <1>1, <1>4
  <2>3. Put(s) \in Seq(Shelf)
    BY <1>1, <2>2, FunctionSeq
  <2> HIDE DEF Put
  <2> QED
    BY <1>1, <2>1, <2>3 DEF ShelfStates, new
<1>7. CASE new = [height |-> more, shelves |-> Append(old, b)]
  <2>1. Append(old, b) \in Seq(Shelf) /\ more \in Nat
    BY <1>1, <1>5, AppendProperties
  <2> HIDE DEF more
  <2> QED
    BY <1>7, <2>1 DEF ShelfStates, new
<1> QED
  BY <1>3, <1>6, <1>7 DEF new

\* A piece leaves shelves in order.
LEMMA ShelveKeeps ==
    ASSUME NEW parts, NEW ids, NEW sheet \in [Axes -> Lengths], NEW st \in ShelvesGood(parts, ids, sheet),
           NEW id \in Nat, id \notin ids, NEW size \in [Axes -> Lengths],
           size \in Range(Orientations(parts[id]))
    PROVE  Shelve(st, id, size, sheet) \in ShelvesGood(parts, ids \cup {id}, sheet)
<1> DEFINE p == [id |-> id, size |-> size]
           old == st.shelves
           n == Len(old)
           new == Shelve(st, id, size, sheet)
           more == st.height + (IF old = <<>> THEN 0 ELSE Kerf) + size[2]
           Wide(s) == Widened(old[s], p)
           Put(s) == [k \in 1 .. n |-> IF k = s THEN Wide(s) ELSE old[k]]
           b == Begun(p)
           room == sheet[1]
           Wider(s) == size[2] <= old[s].height /\ old[s].used + Kerf + size[1] <= room
<1>1. /\ st \in ShelfStates /\ old \in Seq(Shelf) /\ st.height \in Nat /\ n \in Nat
      /\ Stacked(old, st.height) /\ st.height <= sheet[2] /\ ApartShelves(old)
      /\ \A k \in 1 .. n : ShelfRight(parts, ids, room, old[k])
      /\ \A k \in 1 .. n : old[k] \in Shelf
  BY LenProperties, ElementOfSeq DEF ShelvesGood, ShelfStates
<1>2. p \in Slabs /\ p.id = id /\ p.size = size /\ p.size[1] = size[1] /\ p.size[2] = size[2]
  BY SlabIs
<1>3. room \in Nat
  BY DEF Axes, Lengths
<1>4. \/ new = st
      \/ \E s \in 1 .. n : Wider(s) /\ new = [height |-> st.height, shelves |-> Put(s)]
      \/ size[1] <= room /\ more <= sheet[2] /\ new = [height |-> more, shelves |-> Append(old, b)]
  <2>1. st \in ShelfStates
    BY <1>1
  <2> QED
    BY <2>1, ShelveIs, Zenon
<1>5. new \in ShelfStates
  BY <1>1, ShelveTyped
<1> HIDE DEF new, p, b
<1>6. CASE new = st
  <2>1. \A k \in 1 .. n : ShelfRight(parts, ids \cup {id}, room, old[k])
    BY <1>1, RightStays
  <2> QED
    BY <1>1, <1>6, <2>1 DEF ShelvesGood, new
<1>7. CASE \E s \in 1 .. n : Wider(s) /\ new = [height |-> st.height, shelves |-> Put(s)]
  <2>1. PICK s \in 1 .. n : Wider(s) /\ new = [height |-> st.height, shelves |-> Put(s)]
    BY <1>7
  <2> DEFINE sh == old[s]
  <2>2. /\ sh \in Shelf /\ ShelfRight(parts, ids, room, sh)
        /\ p.size[2] <= sh.height /\ sh.used + Kerf + p.size[1] <= room
        /\ p.id \notin ids /\ p.size \in Range(Orientations(parts[p.id]))
    BY <1>1, <1>2, <2>1
  <2> DEFINE w == Wide(s)
  <2>3. /\ w \in Shelf /\ ShelfRight(parts, ids \cup {p.id}, room, w) /\ w.height = sh.height
        /\ OneMore(sh, w, p)
    <3>1. w = Widened(sh, p)
      OBVIOUS
    <3> HIDE DEF w, sh, room
    <3> QED
      BY <1>2, <1>3, <2>2, <3>1, WidenedIs
  <2> DEFINE put == PutOn(old, s, w)
  <2>4. put = Put(s)
    BY DEF PutOn
  <2> HIDE DEF w
  <2>5. /\ put \in Seq(Shelf) /\ Stacked(put, st.height) /\ ApartShelves(put)
        /\ AllRight(parts, ids \cup {p.id}, sheet[1], put)
    <3>1. p.id \notin ids /\ Stacked(old, st.height) /\ ApartShelves(old) /\ old \in Seq(Shelf) /\ st.height \in Nat
      BY <1>1, <2>2
    <3>2. \A k \in 1 .. Len(old) : ShelfRight(parts, ids, sheet[1], old[k])
      BY <1>1
    <3>3. w \in Shelf /\ ShelfRight(parts, ids \cup {p.id}, sheet[1], w) /\ w.height = old[s].height /\ OneMore(old[s], w, p)
      BY <2>3
    <3>4. s \in 1 .. Len(old) /\ p \in Slabs
      BY <1>2
    <3> QED
      BY <3>1, <3>2, <3>3, <3>4, ShelfWidened, Zenon
  <2> HIDE DEF put, Put
  <2>6. new.height = st.height /\ new.shelves = put
    BY <2>1, <2>4
  <2> QED
    BY <1>1, <1>2, <1>5, <2>5, <2>6 DEF ShelvesGood, new, AllRight
<1>8. CASE size[1] <= room /\ more <= sheet[2] /\ new = [height |-> more, shelves |-> Append(old, b)]
  <2> DEFINE put == Append(old, b)
  <2>1. p.id \notin ids /\ p.size \in Range(Orientations(parts[p.id])) /\ p.size[1] <= room
    BY <1>2, <1>8
  <2>2. more = st.height + (IF old = <<>> THEN 0 ELSE Kerf) + p.size[2]
    BY <1>2
  <2>3. /\ Stacked(put, more) /\ ApartShelves(put)
        /\ \A k \in 1 .. Len(put) : ShelfRight(parts, ids \cup {p.id}, room, put[k])
    <3> DEFINE high == st.height
    <3>1. high \in Nat /\ Stacked(old, high) /\ more = high + (IF old = <<>> THEN 0 ELSE Kerf) + p.size[2]
      BY <1>1, <2>2
    <3> HIDE DEF high, more, n, old
    <3> QED
      BY <1>1, <1>2, <2>1, <3>1, ShelfBegun DEF b, n
  <2> HIDE DEF put, more
  <2>4. new.height = more /\ new.shelves = put
    BY <1>8 DEF put
  <2> QED
    BY <1>2, <1>5, <1>8, <2>3, <2>4 DEF ShelvesGood, new
<1> QED
  BY <1>4, <1>6, <1>7, <1>8

\* The pieces of a shelf in order, and the shelves in order.
RowOf(shelf) ==
    Arranged(shelf.pieces, [i \in DOMAIN shelf.pieces |-> <<shelf.pieces[i].size[2]>>])
ByUsed(shelves) == Arranged(shelves, [k \in DOMAIN shelves |-> <<shelves[k].used>>])

\* One number is a tuple.
LEMMA OneNumber ==
    ASSUME NEW i \in Int
    PROVE  <<i>> \in Tuples(1)
<1>1. <<i>> \in [1 .. 1 -> Int]
  OBVIOUS
<1> QED
  BY <1>1 DEF Tuples

\* A shelf's pieces in order are as long and as high as before.
LEMMA RowOfIs ==
    ASSUME NEW parts, NEW ids, NEW wide, NEW shelf \in Shelf, ShelfRight(parts, ids, wide, shelf)
    PROVE  /\ RowOf(shelf) \in Seq(Slabs) /\ Len(RowOf(shelf)) = Len(shelf.pieces)
           /\ Reordered(shelf.pieces, RowOf(shelf))
           /\ Starts(Widths(RowOf(shelf), 1))[Len(RowOf(shelf)) + 1] = shelf.used + Kerf
<1> DEFINE old == shelf.pieces
           n == Len(old)
           key == [i \in DOMAIN old |-> <<old[i].size[2]>>]
           new == RowOf(shelf)
           w == Widths(old, 1)
           g == Widths(new, 1)
<1>1. old \in Seq(Slabs) /\ n \in Nat /\ DOMAIN old = 1 .. n /\ 1 \in Axes /\ 2 \in Axes
  BY LenProperties DEF Shelf, Axes
<1>2. key \in [1 .. n -> Tuples(1)]
  <2>1. \A i \in 1 .. n : <<old[i].size[2]>> \in Tuples(1)
    <3> SUFFICES ASSUME NEW i \in 1 .. n PROVE <<old[i].size[2]>> \in Tuples(1)
      OBVIOUS
    <3>1. old[i] \in Slabs
      BY <1>1, ElementOfSeq
    <3>2. old[i].size[2] \in Int
      BY <1>1, <3>1 DEF Slabs, Lengths
    <3> QED
      BY <3>2, OneNumber
  <2> QED
    BY <1>1, <2>1
<1>3. new = Arranged(old, key)
  BY DEF RowOf
<1>4. Starts(w)[n + 1] = shelf.used + Kerf
  BY DEF ShelfRight
<1> HIDE DEF old, key, new, n
<1>5. /\ new \in Seq(Slabs) /\ Len(new) = n
      /\ \E by \in Orders(n) : \A k \in 1 .. n : new[k] = old[by[k]]
  <2>1. key \in [1 .. Len(old) -> Tuples(1)] /\ 1 \in Nat
    BY <1>2 DEF n
  <2> QED
    BY <1>1, <1>3, <2>1, ArrangedIs DEF n
<1>6. Reordered(old, new)
  BY <1>5 DEF Reordered, n
<1>7. PICK by \in Orders(n) : \A k \in 1 .. n : new[k] = old[by[k]]
  BY <1>5
<1>8. /\ w \in Seq(Nat) /\ Len(w) = n /\ \A i \in 1 .. n : w[i] = old[i].size[1]
      /\ g \in Seq(Nat) /\ Len(g) = n /\ \A i \in 1 .. n : g[i] = new[i].size[1]
  BY <1>1, <1>5, WidthsTyped DEF n
<1> HIDE DEF w, g
<1>9. \A i \in 1 .. n : g[i] = w[by[i]]
  <2> SUFFICES ASSUME NEW i \in 1 .. n PROVE g[i] = w[by[i]]
    OBVIOUS
  <2>1. by[i] \in 1 .. n
    BY DEF Orders
  <2> QED
    BY <1>7, <1>8, <2>1
<1>10. Starts(g)[n + 1] = Starts(w)[n + 1]
  <2>1. by \in Orders(Len(w)) /\ Len(g) = Len(w) /\ \A k \in 1 .. Len(w) : g[k] = w[by[k]]
    BY <1>8, <1>9
  <2>2. Starts(g)[Len(w) + 1] = Starts(w)[Len(w) + 1]
    BY <1>8, <2>1, SameExtent
  <2> QED
    BY <1>8, <2>2
<1>11. Starts(Widths(new, 1))[Len(new) + 1] = shelf.used + Kerf
  BY <1>4, <1>5, <1>10 DEF g
<1> QED
  BY <1>5, <1>6, <1>11 DEF new, old, n

\* Arranged, a sequence holds the same things in another order.
LEMMA ReorderedIs ==
    ASSUME NEW T, NEW old \in Seq(T), NEW new \in Seq(T), Len(new) = Len(old), Reordered(old, new)
    PROVE  OrdersOf(old, new) # {}
<1>1. PICK by \in Orders(Len(old)) : \A k \in 1 .. Len(old) : new[k] = old[by[k]]
  BY DEF Reordered
<1>2. /\ by \in [1 .. Len(old) -> 1 .. Len(old)]
      /\ \A i, j \in 1 .. Len(old) : by[i] = by[j] => i = j
  BY DEF Orders
<1>3. \A k \in 1 .. Len(old) : by[k] \in 1 .. Len(old)
  BY <1>2
<1> QED
  BY <1>1, <1>2, <1>3 DEF OrdersOf

\* Shelves in order are as high as before.
LEMMA ByUsedIs ==
    ASSUME NEW shelves \in Seq(Shelf), NEW height, Stacked(shelves, height)
    PROVE  /\ ByUsed(shelves) \in Seq(Shelf) /\ Len(ByUsed(shelves)) = Len(shelves)
           /\ Reordered(shelves, ByUsed(shelves))
           /\ Starts(HeightsOf(ByUsed(shelves)))[Len(shelves) + 1]
                  = height + (IF shelves = <<>> THEN 0 ELSE Kerf)
<1> DEFINE n == Len(shelves)
           key == [k \in DOMAIN shelves |-> <<shelves[k].used>>]
           new == ByUsed(shelves)
           w == HeightsOf(shelves)
           g == HeightsOf(new)
<1>1. n \in Nat /\ DOMAIN shelves = 1 .. n /\ \A k \in 1 .. n : shelves[k] \in Shelf
  BY LenProperties, ElementOfSeq
<1>2. key \in [1 .. n -> Tuples(1)]
  <2>1. \A k \in 1 .. n : <<shelves[k].used>> \in Tuples(1)
    <3> SUFFICES ASSUME NEW k \in 1 .. n PROVE <<shelves[k].used>> \in Tuples(1)
      OBVIOUS
    <3>1. shelves[k].used \in Int
      BY <1>1 DEF Shelf
    <3> QED
      BY <3>1, OneNumber
  <2> QED
    BY <1>1, <2>1
<1>3. new = Arranged(shelves, key)
  BY DEF ByUsed
<1>4. Starts(w)[n + 1] = height + (IF shelves = <<>> THEN 0 ELSE Kerf)
  BY DEF Stacked
<1> HIDE DEF key, new, n
<1>5. /\ new \in Seq(Shelf) /\ Len(new) = n
      /\ \E by \in Orders(n) : \A k \in 1 .. n : new[k] = shelves[by[k]]
  <2>1. key \in [1 .. Len(shelves) -> Tuples(1)] /\ 1 \in Nat
    BY <1>2 DEF n
  <2> QED
    BY <1>1, <1>3, <2>1, ArrangedIs DEF n
<1>6. Reordered(shelves, new)
  BY <1>5 DEF Reordered, n
<1>7. PICK by \in Orders(n) : \A k \in 1 .. n : new[k] = shelves[by[k]]
  BY <1>5
<1>8. /\ w \in Seq(Nat) /\ Len(w) = n /\ \A i \in 1 .. n : w[i] = shelves[i].height
      /\ g \in Seq(Nat) /\ Len(g) = n /\ \A i \in 1 .. n : g[i] = new[i].height
  BY <1>1, <1>5, HeightsTyped DEF n
<1> HIDE DEF w, g
<1>9. \A i \in 1 .. n : g[i] = w[by[i]]
  <2> SUFFICES ASSUME NEW i \in 1 .. n PROVE g[i] = w[by[i]]
    OBVIOUS
  <2>1. by[i] \in 1 .. n
    BY DEF Orders
  <2> QED
    BY <1>7, <1>8, <2>1
<1>10. Starts(g)[n + 1] = Starts(w)[n + 1]
  <2>1. by \in Orders(Len(w)) /\ Len(g) = Len(w) /\ \A k \in 1 .. Len(w) : g[k] = w[by[k]]
    BY <1>8, <1>9
  <2>2. Starts(g)[Len(w) + 1] = Starts(w)[Len(w) + 1]
    BY <1>8, <2>1, SameExtent
  <2> QED
    BY <1>8, <2>2
<1> QED
  BY <1>4, <1>5, <1>6, <1>10 DEF new, n, g

\* Pieces of rows with no number twice are laid once each.
LEMMA LaidOnce ==
    ASSUME NEW rows \in Seq(Seq(Slabs)), NEW depths \in Seq(Nat), Len(depths) = Len(rows), NEW axis \in Axes
    PROVE  LET flat == InRows(rows, depths, axis)
           IN  /\ \A i \in 1 .. Len(flat) : InSomeRow(rows, flat[i])
               /\ OnceInRows(rows) => OnceEach(flat)
<1> DEFINE flat == InRows(rows, depths, axis)
           At(i, k, c) == /\ k \in 1 .. Len(rows) /\ c \in 1 .. Len(rows[k])
                          /\ flat[i].id = rows[k][c].id /\ flat[i].size = rows[k][c].size
<1>1. PICK place \in Laying(rows, depths, axis, flat) : TRUE
  BY InRowsIs
<1>2. \A i \in 1 .. Len(flat) : place[i] \in Spots(rows, Len(rows))
                                /\ flat[i].id = rows[place[i][1]][place[i][2]].id
                                /\ flat[i].size = rows[place[i][1]][place[i][2]].size
  BY <1>1 DEF Laying
<1>3. \A i, j \in 1 .. Len(flat) : place[i] = place[j] => i = j
  BY <1>1 DEF Laying
<1> HIDE DEF flat
<1>4. ASSUME NEW i \in 1 .. Len(flat)
      PROVE  \E k, c : place[i] = <<k, c>> /\ At(i, k, c)
  <2> DEFINE n == Len(rows)
  <2>0. place[i] \in Spots(rows, n)
    BY <1>2
  <2> HIDE DEF n
  <2> DEFINE k == place[i][1]
             c == place[i][2]
  <2>1. place[i] \in (1 .. n) \X Nat /\ c \in 1 .. Len(rows[k])
    BY <2>0 DEF Spots
  <2>2. place[i] = <<k, c>> /\ k \in 1 .. Len(rows)
    BY <2>1 DEF n
  <2>3. flat[i].id = rows[k][c].id /\ flat[i].size = rows[k][c].size
    BY <1>2
  <2> HIDE DEF k, c
  <2> QED
    BY <2>1, <2>2, <2>3
<1>5. \A i \in 1 .. Len(flat) : InSomeRow(rows, flat[i])
  BY <1>4 DEF InSomeRow
<1>6. ASSUME OnceInRows(rows), NEW i \in 1 .. Len(flat), NEW j \in 1 .. Len(flat), flat[i].id = flat[j].id
      PROVE  i = j
  <2>1. PICK k, c : place[i] = <<k, c>> /\ At(i, k, c)
    BY <1>4
  <2>2. PICK l, d : place[j] = <<l, d>> /\ At(j, l, d)
    BY <1>4
  <2>3. rows[k][c].id = rows[l][d].id
    BY <1>6, <2>1, <2>2
  <2>5. k \in 1 .. Len(rows) /\ c \in 1 .. Len(rows[k]) /\ l \in 1 .. Len(rows) /\ d \in 1 .. Len(rows[l])
    BY <2>1, <2>2
  <2> HIDE DEF At
  <2>4. k = l /\ c = d
    BY <1>6, <2>3, <2>5 DEF OnceInRows
  <2> QED
    BY <1>3, <2>1, <2>2, <2>4
<1>7. OnceInRows(rows) => OnceEach(flat)
  BY <1>6 DEF OnceEach
<1> QED
  BY <1>5, <1>7 DEF flat

\* The pieces of shelves in order can be cut, each part as it may lie and none
\* twice.
LEMMA ShelvesLaid ==
    ASSUME NEW parts, NEW ids, NEW sheet \in [Axes -> Lengths], NEW st \in ShelvesGood(parts, ids, sheet)
    PROVE  LET shelves == ByUsed(st.shelves)
               flat == InRows([k \in DOMAIN shelves |-> RowOf(shelves[k])], HeightsOf(shelves), 1)
           IN  /\ flat \in Seq(Numbered) /\ Clear(flat) /\ OnSheet([size |-> sheet, pieces |-> flat])
               /\ OnceEach(flat)
               /\ \A i \in 1 .. Len(flat) :
                     flat[i].id \in ids /\ flat[i].size \in Range(Orientations(parts[flat[i].id]))
<1> DEFINE old == st.shelves
           n == Len(old)
           shelves == ByUsed(old)
           rows == [k \in DOMAIN shelves |-> RowOf(shelves[k])]
           depths == HeightsOf(shelves)
           flat == InRows(rows, depths, 1)
           room == sheet[1]
           tall == sheet[2]
           Piece(k, i) == old[k].pieces[i]
<1>1. /\ old \in Seq(Shelf) /\ n \in Nat /\ st.height \in Nat /\ Stacked(old, st.height)
      /\ st.height <= tall /\ ApartShelves(old)
      /\ \A k \in 1 .. n : old[k] \in Shelf /\ ShelfRight(parts, ids, room, old[k])
  BY LenProperties, ElementOfSeq DEF ShelvesGood, ShelfStates
<1>2. /\ shelves \in Seq(Shelf) /\ Len(shelves) = n /\ Reordered(old, shelves)
      /\ Starts(HeightsOf(shelves))[n + 1] = st.height + (IF old = <<>> THEN 0 ELSE Kerf)
  <2> DEFINE high == st.height
  <2>1. high = st.height
    OBVIOUS
  <2> HIDE DEF high, old
  <2> QED
    BY <1>1, <2>1, ByUsedIs DEF n
<1>0. Kerf \in Nat /\ room \in Nat /\ tall \in Nat /\ 1 \in Axes /\ 2 \in Axes /\ Across(1) = 2
  BY KerfAssumption DEF KerfAssumption, Axes, Lengths, Across
<1> HIDE DEF old, n, shelves, room, tall
<1>3. PICK by \in Orders(n) :
         /\ \A k \in 1 .. n : by[k] \in 1 .. n /\ shelves[k] = old[by[k]]
         /\ \A i, j \in 1 .. n : by[i] = by[j] => i = j
  <2>1. Len(shelves) = Len(old)
    BY <1>2 DEF n
  <2>2. OrdersOf(old, shelves) # {}
    BY <1>1, <1>2, <2>1, ReorderedIs
  <2> QED
    BY <2>2 DEF OrdersOf, n
<1>4. DOMAIN shelves = 1 .. n
  BY <1>2, LenProperties
<1>5. ASSUME NEW k \in 1 .. n
      PROVE  /\ rows[k] \in Seq(Slabs)
             /\ Starts(Widths(rows[k], 1))[Len(rows[k]) + 1] <= room + Kerf
             /\ Len(rows[k]) = Len(old[by[k]].pieces)
             /\ OrdersOf(old[by[k]].pieces, rows[k]) # {}
  <2> DEFINE shelf == shelves[k]
             ps == shelf.pieces
             row == RowOf(shelf)
  <2>1. shelf = old[by[k]] /\ shelf \in Shelf /\ ShelfRight(parts, ids, room, shelf)
    BY <1>1, <1>3
  <2>2. rows[k] = row
    BY <1>4
  <2>3. /\ row \in Seq(Slabs) /\ Len(row) = Len(ps) /\ Reordered(ps, row)
        /\ Starts(Widths(row, 1))[Len(row) + 1] = shelf.used + Kerf
    <3> HIDE DEF shelf
    <3> QED
      BY <2>1, RowOfIs
  <2>4. ps \in Seq(Slabs) /\ shelf.used \in Nat
    BY <2>1 DEF Shelf
  <2> HIDE DEF row, rows
  <2>5. OrdersOf(ps, row) # {}
    <3> HIDE DEF ps
    <3> QED
      BY <2>3, <2>4, ReorderedIs
  <2>6. shelf.used <= room
    BY <2>1 DEF ShelfRight
  <2>7. Starts(Widths(row, 1))[Len(row) + 1] <= room + Kerf
    BY <1>0, <2>3, <2>4, <2>6
  <2>9. ps = old[by[k]].pieces
    BY <2>1
  <2> HIDE DEF ps
  <2> QED
    BY <2>2, <2>3, <2>5, <2>7, <2>9
<1>6. rows \in Seq(Seq(Slabs)) /\ Len(rows) = n
  <2>1. rows \in [1 .. n -> Seq(Slabs)]
    <3>1. rows = [k \in 1 .. n |-> rows[k]]
      BY <1>4
    <3> HIDE DEF rows
    <3> QED
      BY <1>5, <3>1
  <2> HIDE DEF rows
  <2> QED
    BY <1>1, <2>1, FunctionSeq
<1>7. /\ depths \in Seq(Nat) /\ Len(depths) = n
      /\ \A k \in 1 .. n : depths[k] = old[by[k]].height
  <2>1. /\ depths \in Seq(Nat) /\ Len(depths) = n
        /\ \A k \in 1 .. n : depths[k] = shelves[k].height
    BY <1>2, HeightsTyped
  <2> HIDE DEF depths
  <2> QED
    BY <1>3, <2>1
<1>8. Starts(depths)[n + 1] <= tall + Kerf
  <2>1. st.height + (IF old = <<>> THEN 0 ELSE Kerf) <= tall + Kerf
    BY <1>0, <1>1
  <2> QED
    BY <1>2, <2>1
<1> HIDE DEF rows, depths
<1>9. ASSUME NEW k \in 1 .. n, NEW i \in 1 .. Len(rows[k])
      PROVE  /\ rows[k][i].size[2] <= depths[k] /\ rows[k][i].id \in ids
             /\ rows[k][i].size \in Range(Orientations(parts[rows[k][i].id]))
  <2>1. PICK order \in OrdersOf(old[by[k]].pieces, rows[k]) : TRUE
    BY <1>5
  <2>2. by[k] \in 1 .. n /\ order[i] \in 1 .. Len(old[by[k]].pieces) /\ rows[k][i] = Piece(by[k], order[i])
    BY <1>3, <1>5, <2>1 DEF OrdersOf
  <2>3. ShelfRight(parts, ids, room, old[by[k]])
    BY <1>1, <2>2
  <2> DEFINE c == order[i]
             shelf == old[by[k]]
  <2>4. shelf.pieces[c].size[2] <= shelf.height /\ shelf.pieces[c].id \in ids
        /\ shelf.pieces[c].size \in Range(Orientations(parts[shelf.pieces[c].id]))
    BY <2>2, <2>3 DEF ShelfRight
  <2> QED
    BY <1>7, <2>2, <2>4
<1>10. OnceInRows(rows)
  <2> SUFFICES ASSUME NEW k \in 1 .. n, NEW l \in 1 .. n, NEW i \in 1 .. Len(rows[k]),
                      NEW j \in 1 .. Len(rows[l]), rows[k][i].id = rows[l][j].id
               PROVE  k = l /\ i = j
    BY <1>6, Zenon DEF OnceInRows
  <2> DEFINE kk == by[k]
             ll == by[l]
             Place(s, c) == c \in 1 .. Len(old[s].pieces)
  <2>0. kk \in 1 .. n /\ ll \in 1 .. n
    BY <1>3
  <2>1. PICK f \in OrdersOf(old[kk].pieces, rows[k]) : TRUE
    BY <1>5
  <2>2. PICK g \in OrdersOf(old[ll].pieces, rows[l]) : TRUE
    BY <1>5
  <2>3. /\ \A c \in 1 .. Len(rows[k]) : Place(kk, f[c]) /\ rows[k][c] = Piece(kk, f[c])
        /\ \A c, d \in 1 .. Len(rows[k]) : f[c] = f[d] => c = d
    BY <1>5, <2>1 DEF OrdersOf
  <2>4. \A c \in 1 .. Len(rows[l]) : Place(ll, g[c]) /\ rows[l][c] = Piece(ll, g[c])
    BY <1>5, <2>2 DEF OrdersOf
  <2>5. \A a, b \in 1 .. n : \A c, d : Place(a, c) /\ Place(b, d) /\ Piece(a, c).id = Piece(b, d).id => a = b /\ c = d
    BY <1>1, ApartAt DEF n
  <2> HIDE DEF kk, ll, Place, Piece
  <2>6. kk = ll /\ f[i] = g[j]
    <3>1. Place(kk, f[i]) /\ Place(ll, g[j]) /\ Piece(kk, f[i]).id = Piece(ll, g[j]).id
      BY <2>3, <2>4
    <3> QED
      BY <2>0, <2>5, <3>1
  <2>7. k = l
    BY <1>3, <2>6 DEF kk, ll
  <2>8. f[i] = f[j]
    <3>1. Place(kk, f[i]) /\ Place(kk, f[j]) /\ Piece(kk, f[i]).id = Piece(kk, f[j]).id
      BY <2>3, <2>7
    <3> QED
      BY <2>0, <2>5, <3>1
  <2> QED
    BY <2>3, <2>7, <2>8
<1>11. flat \in Seq(Numbered) /\ Clear(flat) /\ OnSheet([size |-> sheet, pieces |-> flat])
  <2>1. \A k \in 1 .. Len(rows) : \A i \in 1 .. Len(rows[k]) : rows[k][i].size[Across(1)] <= depths[k]
    BY <1>0, <1>6, <1>9
  <2>2. Starts(depths)[Len(rows) + 1] <= sheet[Across(1)] + Kerf
    BY <1>0, <1>6, <1>8 DEF tall
  <2>3. \A k \in 1 .. Len(rows) : Starts(Widths(rows[k], 1))[Len(rows[k]) + 1] <= sheet[1] + Kerf
    BY <1>5, <1>6 DEF room
  <2>4. Len(depths) = Len(rows)
    BY <1>6, <1>7
  <2> QED
    BY <1>0, <1>6, <1>7, <2>1, <2>2, <2>3, <2>4, RowsFit
<1>12. OnceEach(flat) /\ \A i \in 1 .. Len(flat) : InSomeRow(rows, flat[i])
  <2>1. Len(depths) = Len(rows)
    BY <1>6, <1>7
  <2> QED
    BY <1>0, <1>6, <1>7, <1>10, <2>1, LaidOnce
<1> HIDE DEF flat
<1>13. \A i \in 1 .. Len(flat) : flat[i].id \in ids /\ flat[i].size \in Range(Orientations(parts[flat[i].id]))
  <2> SUFFICES ASSUME NEW i \in 1 .. Len(flat)
               PROVE  flat[i].id \in ids /\ flat[i].size \in Range(Orientations(parts[flat[i].id]))
    OBVIOUS
  <2>1. PICK k \in 1 .. Len(rows) : \E c \in 1 .. Len(rows[k]) :
                flat[i].id = rows[k][c].id /\ flat[i].size = rows[k][c].size
    BY <1>12 DEF InSomeRow
  <2>2. PICK c \in 1 .. Len(rows[k]) : flat[i].id = rows[k][c].id /\ flat[i].size = rows[k][c].size
    BY <2>1
  <2>3. k \in 1 .. n
    BY <1>6
  <2>4. rows[k][c].id \in ids /\ rows[k][c].size \in Range(Orientations(parts[rows[k][c].id]))
    BY <1>9, <2>3
  <2> QED
    BY <2>2, <2>4
<1> QED
  BY <1>11, <1>12, <1>13, Zenon DEF flat, rows, depths, shelves, old

\* The parts in the order they are put on shelves, and the shelves they fill.
ShelfOrder(parts, pool, wide) ==
    Arranged(pool, [i \in DOMAIN pool |->
        LET size == Orient(parts[pool[i]], wide) IN <<size[2], size[1]>>])
Shelving(parts, order, n, sheet, wide, f) ==
    f = [k \in 0 .. n |->
            IF k = 0 THEN [height |-> 0, shelves |-> <<>>]
            ELSE Shelve(f[k - 1], order[k], Laid(parts[order[k]], sheet, wide), sheet)]
EachFits(parts, sheet) == \A i \in 1 .. Len(parts) : FitsIn(parts[i], sheet)

\* The order holds the parts of the pool.
LEMMA ShelfOrderIs ==
    ASSUME NEW parts \in Seq(PartTypes), NEW pool \in Seq(1 .. Len(parts)), Distinct(pool),
           NEW sheet \in [Axes -> Lengths], EachFits(parts, sheet), NEW wide
    PROVE  /\ ShelfOrder(parts, pool, wide) \in Seq(1 .. Len(parts))
           /\ Len(ShelfOrder(parts, pool, wide)) = Len(pool)
           /\ Distinct(ShelfOrder(parts, pool, wide))
           /\ \A k \in 1 .. Len(pool) : ShelfOrder(parts, pool, wide)[k] \in Elements(pool)
<1> DEFINE n == Len(pool)
           sizeOf(i) == Orient(parts[pool[i]], wide)
           figures == [i \in DOMAIN pool |-> <<sizeOf(i)[2], sizeOf(i)[1]>>]
           new == ShelfOrder(parts, pool, wide)
<1>1. n \in Nat /\ DOMAIN pool = 1 .. n /\ \A i \in 1 .. n : pool[i] \in 1 .. Len(parts)
  BY LenProperties, ElementOfSeq
<1>2. figures \in [1 .. n -> Tuples(2)]
  <2>1. ASSUME NEW i \in 1 .. n PROVE <<sizeOf(i)[2], sizeOf(i)[1]>> \in Tuples(2)
    <3>1. sizeOf(i) \in [Axes -> Lengths]
      <4>1. pool[i] \in 1 .. Len(parts)
        BY <1>1
      <4>2. parts[pool[i]] \in PartTypes /\ FitsIn(parts[pool[i]], sheet)
        BY <4>1, ElementOfSeq DEF EachFits
      <4> QED
        BY <4>2, LaidIs
    <3> DEFINE u == sizeOf(i)[2]
               v == sizeOf(i)[1]
    <3>2. u \in Int /\ v \in Int
      <4> HIDE DEF sizeOf
      <4> QED
        BY <3>1 DEF Axes, Lengths
    <3> HIDE DEF u, v
    <3>3. <<u, v>> \in [1 .. 2 -> Int]
      BY <3>2
    <3> QED
      BY <3>3 DEF u, v, Tuples
  <2> HIDE DEF sizeOf
  <2> QED
    BY <1>1, <2>1
<1>3. new = Arranged(pool, figures)
  BY DEF ShelfOrder
<1>4. \A i, j \in 1 .. n : pool[i] = pool[j] => i = j
  BY DEF Distinct
<1>5. \A i \in 1 .. n : pool[i] \in Elements(pool)
  BY DEF Elements
<1> HIDE DEF n, figures, new, sizeOf
<1>6. /\ new \in Seq(1 .. Len(parts)) /\ Len(new) = n
      /\ \E by \in Orders(n) : \A k \in 1 .. n : new[k] = pool[by[k]]
  <2> DEFINE U == 1 .. Len(parts)
             two == 2
  <2>1. figures \in [1 .. Len(pool) -> Tuples(two)] /\ two \in Nat /\ pool \in Seq(U)
    BY <1>2 DEF n
  <2> HIDE DEF U, two
  <2>3. /\ Arranged(pool, figures) \in Seq(U) /\ Len(Arranged(pool, figures)) = Len(pool)
        /\ \E by \in Orders(Len(pool)) : \A k \in 1 .. Len(pool) : Arranged(pool, figures)[k] = pool[by[k]]
    BY <2>1, ArrangedIs
  <2>2. /\ new \in Seq(U) /\ Len(new) = Len(pool)
        /\ \E by \in Orders(Len(pool)) : \A k \in 1 .. Len(pool) : new[k] = pool[by[k]]
    BY <1>3, <2>3
  <2> QED
    BY <2>2 DEF n, U
<1>7. PICK by \in Orders(n) : \A k \in 1 .. n : new[k] = pool[by[k]]
  BY <1>6
<1>8. (\A k \in 1 .. n : by[k] \in 1 .. n) /\ \A i, j \in 1 .. n : by[i] = by[j] => i = j
  BY DEF Orders
<1>9. \A i, j \in 1 .. n : new[i] = new[j] => i = j
  BY <1>4, <1>7, <1>8
<1>10. Distinct(new) /\ \A k \in 1 .. n : new[k] \in Elements(pool)
  BY <1>5, <1>6, <1>7, <1>8, <1>9 DEF Distinct
<1> QED
  BY <1>6, <1>10 DEF new, n

\* The shelves the parts of a pool fill.
LEMMA ShelvesFilled ==
    ASSUME NEW parts \in Seq(PartTypes), NEW order \in Seq(1 .. Len(parts)), Distinct(order),
           NEW sheet \in [Axes -> Lengths], EachFits(parts, sheet), NEW wide
    PROVE  (CHOOSE f : Shelving(parts, order, Len(order), sheet, wide, f))[Len(order)]
                \in ShelvesGood(parts, Elements(order), sheet)
<1> DEFINE N == Len(order)
           sizeOf(k) == Laid(parts[order[k]], sheet, wide)
           step(k, s) == Shelve(s, order[k], sizeOf(k), sheet)
           F == [k \in 1 .. N |-> [s \in ShelfStates |-> step(k, s)]]
           first == [height |-> 0, shelves |-> <<>>]
           state == CHOOSE f : Shelving(parts, order, N, sheet, wide, f)
           Some(k) == {order[i] : i \in 1 .. k}
           Good(k) == ShelvesGood(parts, Some(k), sheet)
           R == {k \in 0 .. N : state[k] \in Good(k)}
<1>1. N \in Nat /\ \A i, j \in 1 .. N : order[i] = order[j] => i = j
  BY LenProperties DEF Distinct
<1>2. ASSUME NEW k \in 1 .. N
      PROVE  /\ order[k] \in Nat /\ sizeOf(k) \in [Axes -> Lengths]
             /\ sizeOf(k) \in Range(Orientations(parts[order[k]]))
  <2>1. order[k] \in 1 .. Len(parts)
    BY ElementOfSeq
  <2>2. parts[order[k]] \in PartTypes /\ FitsIn(parts[order[k]], sheet)
    BY <2>1, ElementOfSeq DEF EachFits
  <2> QED
    BY <2>1, <2>2, LaidIs
<1>3. first \in ShelfStates /\ first \in Good(0)
  <2>1. <<>> \in Seq(Shelf) /\ Len(<<>>) = 0 /\ 1 .. 0 = {}
    BY EmptySeq
  <2>2. first \in ShelfStates /\ first.height = 0 /\ first.shelves = <<>>
    BY <2>1 DEF ShelfStates
  <2>3. Stacked(<<>>, 0)
    <3>1. HeightsOf(<<>>) \in Seq(Nat) /\ Len(HeightsOf(<<>>)) = 0
      BY <2>1, HeightsTyped
    <3>2. Starts(HeightsOf(<<>>))[1] = 0
      BY <3>1, StartsIs
    <3> QED
      BY <2>1, <3>2 DEF Stacked
  <2>4. ApartShelves(<<>>)
    BY <2>1 DEF ApartShelves
  <2>5. 0 <= sheet[2]
    BY DEF Axes, Lengths
  <2> HIDE DEF first
  <2> QED
    BY <2>1, <2>2, <2>3, <2>4, <2>5 DEF ShelvesGood
<1>4. \A k \in 1 .. N : \A s \in ShelfStates : step(k, s) \in ShelfStates
  <2> SUFFICES ASSUME NEW k \in 1 .. N, NEW s \in ShelfStates PROVE step(k, s) \in ShelfStates
    OBVIOUS
  <2> DEFINE id == order[k]
             size == sizeOf(k)
  <2>1. id \in Nat /\ size \in [Axes -> Lengths] /\ step(k, s) = Shelve(s, id, size, sheet)
    BY <1>2
  <2> HIDE DEF id, size, step
  <2> QED
    BY <2>1, ShelveTyped
<1>5. Shelving(parts, order, N, sheet, wide, state)
  <2> HIDE DEF N, step, first
  <2>1. F \in Rounds(N, ShelfStates)
    BY <1>4 DEF Rounds
  <2>2. \A k \in 1 .. N : \A s \in ShelfStates : F[k][s] = step(k, s)
    OBVIOUS
  <2> HIDE DEF F
  <2>3. PICK h \in [0 .. N -> ShelfStates] : h[0] = first /\ \A k \in 1 .. N : h[k] = F[k][h[k - 1]]
    <3>1. RunsOf(N, ShelfStates, first, F) # {}
      BY <1>1, <1>3, <2>1, LoopRuns
    <3> QED
      BY <3>1 DEF RunsOf
  <2>4. ASSUME NEW k \in 0 .. N PROVE h[k] = IF k = 0 THEN first ELSE step(k, h[k - 1])
    <3>1. CASE k = 0
      BY <2>3, <3>1
    <3>2. CASE k # 0
      <4>1. k \in 1 .. N /\ k - 1 \in 0 .. N
        BY <1>1, <3>2
      <4>2. h[k - 1] \in ShelfStates
        BY <4>1
      <4> QED
        BY <2>2, <2>3, <3>2, <4>1, <4>2
    <3> QED
      BY <3>1, <3>2
  <2>5. h = [k \in 0 .. N |-> IF k = 0 THEN first ELSE step(k, h[k - 1])]
    BY <2>4
  <2>6. Shelving(parts, order, N, sheet, wide, h)
    BY <2>5 DEF Shelving, first, step
  <2> QED
    BY <2>6, Zenon
<1> HIDE DEF state
<1>6. state = [k \in 0 .. N |-> IF k = 0 THEN first ELSE step(k, state[k - 1])]
  BY <1>5 DEF Shelving
<1> HIDE DEF first, step, N, sizeOf
<1>7. state[0] = first /\ \A k \in 1 .. N : state[k] = step(k, state[k - 1])
  BY <1>1, <1>6
<1>8. 0 \in R
  <2> HIDE DEF Good
  <2> QED
    BY <1>1, <1>3, <1>7
<1>9. ASSUME NEW k \in 1 .. N, k - 1 \in R PROVE k \in R
  <2> DEFINE ids == Some(k - 1)
             id == order[k]
             size == sizeOf(k)
             before == state[k - 1]
  <2>1. before \in ShelvesGood(parts, ids, sheet) /\ k \in 0 .. N
    BY <1>1, <1>9
  <2>2. id \in Nat /\ size \in [Axes -> Lengths] /\ size \in Range(Orientations(parts[id]))
    BY <1>2
  <2>3. id \notin ids
    <3> SUFFICES ASSUME NEW i \in 1 .. k - 1, order[i] = order[k] PROVE FALSE
      OBVIOUS
    <3>1. i \in 1 .. N /\ i # k
      BY <1>1
    <3> QED
      BY <1>1, <3>1
  <2>4. Some(k) = ids \cup {id}
    <3>1. \A i : i \in 1 .. k <=> (i \in 1 .. k - 1 \/ i = k)
      BY <1>1
    <3> QED
      BY <3>1
  <2>5. state[k] = Shelve(before, id, size, sheet)
    BY <1>7 DEF step
  <2> HIDE DEF ids, id, size, before, Some
  <2>6. state[k] \in ShelvesGood(parts, ids \cup {id}, sheet)
    BY <2>1, <2>2, <2>3, <2>5, ShelveKeeps
  <2> QED
    BY <2>1, <2>4, <2>6
<1>10. N \in R
  <2> HIDE DEF R
  <2>1. \A k \in 0 .. N : k \in R
    BY <1>1, <1>8, <1>9, Stepwise
  <2> QED
    BY <1>1, <2>1
<1>11. Some(N) = Elements(order)
  BY DEF Elements, N
<1>12. state[N] \in Good(N)
  BY <1>10
<1> HIDE DEF Some
<1> QED
  BY <1>11, <1>12 DEF state, N

\* The sheet of shelves is right.
LEMMA ShelfSheetIs ==
    ASSUME NEW parts \in Seq(PartTypes), NEW pool \in Seq(1 .. Len(parts)), Distinct(pool),
           NEW sheet \in [Axes -> Lengths], EachFits(parts, sheet), NEW wide
    PROVE  MadeRight(parts, pool, sheet, ShelfSheet(parts, pool, sheet, wide))
<1> DEFINE order == ShelfOrder(parts, pool, wide)
           end == (CHOOSE f : Shelving(parts, order, Len(pool), sheet, wide, f))[Len(pool)]
           shelves == ByUsed(end.shelves)
           flat == InRows([k \in DOMAIN shelves |-> RowOf(shelves[k])], HeightsOf(shelves), 1)
           gone == {flat[i].id : i \in DOMAIN flat}
           rest == Without(pool, gone)
           made == ShelfSheet(parts, pool, sheet, wide)
           all == Elements(pool)
<1>1. made = [pieces |-> flat, pool |-> rest]
  BY DEF ShelfSheet, ShelfOrder, Shelving, ByUsed, RowOf, HeightsOf
<1>2. /\ order \in Seq(1 .. Len(parts)) /\ Len(order) = Len(pool) /\ Distinct(order)
      /\ \A k \in 1 .. Len(pool) : order[k] \in all
  BY ShelfOrderIs
<1>3. end \in ShelvesGood(parts, Elements(order), sheet)
  <2> HIDE DEF order
  <2> QED
    BY <1>2, ShelvesFilled
<1>4. Elements(order) \subseteq all
  <2> HIDE DEF order, all
  <2> QED
    BY <1>2 DEF Elements
<1> HIDE DEF end, order
<1>5. /\ flat \in Seq(Numbered) /\ Clear(flat) /\ OnSheet([size |-> sheet, pieces |-> flat])
      /\ OnceEach(flat)
      /\ \A i \in 1 .. Len(flat) :
            flat[i].id \in Elements(order) /\ flat[i].size \in Range(Orientations(parts[flat[i].id]))
  BY <1>3, ShelvesLaid, Zenon
<1> HIDE DEF flat
<1>6. gone = Ids(flat)
  BY <1>5, LenProperties DEF Ids
<1>7. Len(pool) \in Nat /\ \A i \in 1 .. Len(pool) : pool[i] \in 1 .. Len(parts)
  BY LenProperties, ElementOfSeq
<1>8. all \subseteq 1 .. Len(parts)
  BY <1>7 DEF Elements
<1> HIDE DEF gone, all
<1>9. gone \subseteq all
  BY <1>4, <1>5, <1>6 DEF Ids
<1>10. pool \in Seq(all)
  <2>1. Divided(Elements(pool), pool, <<>>)
    BY NonePlaced
  <2> QED
    BY <2>1 DEF Divided, all
<1>11. rest \in KeptOf(all, pool, gone, Len(pool))
  BY <1>10, WithoutIs
<1> HIDE DEF rest
<1>12. /\ rest \in Seq(all) /\ Distinct(rest)
       /\ \A j \in 1 .. Len(rest) : \E i \in 1 .. Len(pool) : rest[j] = pool[i] /\ pool[i] \notin gone
       /\ \A i \in 1 .. Len(pool) : pool[i] \notin gone => \E j \in 1 .. Len(rest) : rest[j] = pool[i]
  BY <1>11 DEF KeptOf
<1>13. Elements(rest) = all \ gone
  <2>1. \A x : x \in Elements(rest) => x \in all \ gone
    BY <1>12 DEF Elements, all
  <2>2. \A x : x \in all \ gone => x \in Elements(rest)
    <3> SUFFICES ASSUME NEW x \in all, x \notin gone PROVE x \in Elements(rest)
      OBVIOUS
    <3>1. PICK i \in 1 .. Len(pool) : x = pool[i]
      BY DEF all, Elements
    <3>2. PICK j \in 1 .. Len(rest) : rest[j] = pool[i]
      BY <1>12, <3>1
    <3> QED
      BY <3>1, <3>2 DEF Elements
  <2> QED
    BY <2>1, <2>2
<1>14. Divided(all, rest, flat)
  BY <1>5, <1>6, <1>9, <1>12, <1>13 DEF Divided
<1>15. rest \in Seq(1 .. Len(parts))
  BY <1>8, <1>12, SeqMonotonic
<1>16. Alike(parts, flat)
  BY <1>4, <1>5, <1>8 DEF Alike
<1>17. made.pieces = flat /\ made.pool = rest
  BY <1>1
<1> HIDE DEF made
<1> QED
  BY <1>5, <1>14, <1>15, <1>16, <1>17 DEF MadeRight, all, made

-----------------------------------------------------------------------------
(* Plans of constructed sheets                                             *)

\* Every generator makes a right sheet.
LEMMA BuiltSheetIs ==
    ASSUME NEW parts \in Seq(PartTypes), NEW pool \in Seq(1 .. Len(parts)), Distinct(pool),
           NEW sheet \in [Axes -> Lengths], EachFits(parts, sheet), NEW generator
    PROVE  MadeRight(parts, pool, sheet, BuiltSheet(generator, parts, pool, sheet))
BY ColumnSheetIs, ShelfSheetIs DEF BuiltSheet

\* The parts of a plan: each piece as its part may lie, no part twice.
PartsRight(parts, p) ==
    OnceInPlan(p) /\ \A k \in 1 .. Len(p) : Alike(parts, p[k].pieces)
CutSheets(p) == \A k \in 1 .. Len(p) : Clear(p[k].pieces) /\ OnSheet(p[k])

\* The states a plan is built in.
BuildStates(parts) ==
    {st \in [plan : Seq(NumberedSheets), pool : Seq(1 .. Len(parts))] :
        /\ CutSheets(st.plan) /\ PartsRight(parts, st.plan) /\ Distinct(st.pool)
        /\ \A id \in 1 .. Len(parts) : id \in Elements(st.pool) <=> ~Present(st.plan, id)}

\* A sheet more.
LEMMA SheetAdded ==
    ASSUME NEW parts \in Seq(PartTypes), NEW sheet \in [Axes -> Lengths],
           NEW st \in BuildStates(parts), NEW made, MadeRight(parts, st.pool, sheet, made)
    PROVE  [plan |-> Append(st.plan, [size |-> sheet, pieces |-> made.pieces]), pool |-> made.pool]
                \in BuildStates(parts)
<1> DEFINE old == st.plan
           n == Len(old)
           s == [size |-> sheet, pieces |-> made.pieces]
           new == Append(old, s)
           left == Elements(st.pool)
           Id(k, i) == old[k].pieces[i].id
<1>1. /\ old \in Seq(NumberedSheets) /\ CutSheets(old) /\ OnceInPlan(old)
      /\ \A k \in 1 .. n : Alike(parts, old[k].pieces)
      /\ \A id \in 1 .. Len(parts) : id \in left <=> ~Present(old, id)
      /\ n \in Nat
  BY LenProperties DEF BuildStates, PartsRight
<1>2. /\ made.pieces \in Seq(Numbered) /\ made.pool \in Seq(1 .. Len(parts))
      /\ Divided(left, made.pool, made.pieces)
      /\ Alike(parts, made.pieces) /\ Clear(made.pieces)
      /\ OnSheet([size |-> sheet, pieces |-> made.pieces])
  BY DEF MadeRight
<1>3. s \in NumberedSheets /\ s.size = sheet /\ s.pieces = made.pieces /\ OnSheet(s)
  BY <1>2 DEF NumberedSheets
<1>4. /\ Distinct(made.pool) /\ OnceEach(made.pieces)
      /\ Elements(made.pool) \cup Ids(made.pieces) = left /\ Elements(made.pool) \cap Ids(made.pieces) = {}
  BY <1>2 DEF Divided
<1>0. \A k, l \in 1 .. n : \A i \in 1 .. Len(old[k].pieces), j \in 1 .. Len(old[l].pieces) :
            Id(k, i) = Id(l, j) => k = l /\ i = j
  BY <1>1 DEF OnceInPlan, n
<1> HIDE DEF s, new, old, n, left
<1>5. /\ new \in Seq(NumberedSheets) /\ Len(new) = n + 1 /\ new[n + 1] = s
      /\ \A k \in 1 .. n : new[k] = old[k]
  BY <1>1, <1>3, AppendProperties DEF new, n
<1>6. /\ \A k \in 1 .. n + 1 : k \in 1 .. n \/ k = n + 1
      /\ n + 1 \in 1 .. n + 1 /\ \A k \in 1 .. n : k \in 1 .. n + 1
  BY <1>1
<1>7. CutSheets(new)
  <2> SUFFICES ASSUME NEW k \in 1 .. n + 1 PROVE Clear(new[k].pieces) /\ OnSheet(new[k])
    BY <1>5 DEF CutSheets
  <2>1. CASE k \in 1 .. n
    BY <1>1, <1>5, <2>1 DEF CutSheets, n
  <2>2. CASE k = n + 1
    BY <1>2, <1>3, <1>5, <2>2
  <2> QED
    BY <1>6, <2>1, <2>2
<1>8. \A k \in 1 .. n + 1 : Alike(parts, new[k].pieces)
  <2> SUFFICES ASSUME NEW k \in 1 .. n + 1 PROVE Alike(parts, new[k].pieces)
    OBVIOUS
  <2>1. CASE k \in 1 .. n
    BY <1>1, <1>5, <2>1
  <2>2. CASE k = n + 1
    BY <1>2, <1>3, <1>5, <2>2
  <2> QED
    BY <1>6, <2>1, <2>2
<1>9. \A k \in 1 .. n : \A i \in 1 .. Len(old[k].pieces) : Id(k, i) \notin left /\ Id(k, i) \in 1 .. Len(parts)
  <2> SUFFICES ASSUME NEW k \in 1 .. n, NEW i \in 1 .. Len(old[k].pieces)
               PROVE  Id(k, i) \notin left /\ Id(k, i) \in 1 .. Len(parts)
    OBVIOUS
  <2>1. Id(k, i) \in 1 .. Len(parts)
    BY <1>1 DEF Alike
  <2>2. Present(old, Id(k, i))
    BY DEF Present, n
  <2> QED
    BY <1>1, <2>1, <2>2
<1>10. \A i \in 1 .. Len(made.pieces) : made.pieces[i].id \in left
  BY <1>4 DEF Ids
<1>11. OnceInPlan(new)
  <2> SUFFICES ASSUME NEW k \in 1 .. n + 1, NEW l \in 1 .. n + 1,
                      NEW i \in 1 .. Len(new[k].pieces), NEW j \in 1 .. Len(new[l].pieces),
                      new[k].pieces[i].id = new[l].pieces[j].id
               PROVE  k = l /\ i = j
    BY <1>5 DEF OnceInPlan
  <2>1. CASE k \in 1 .. n /\ l \in 1 .. n
    <3>1. i \in 1 .. Len(old[k].pieces) /\ j \in 1 .. Len(old[l].pieces) /\ Id(k, i) = Id(l, j)
      BY <1>5, <2>1
    <3> HIDE DEF Id
    <3> QED
      BY <1>0, <2>1, <3>1
  <2>2. CASE k \in 1 .. n /\ l = n + 1
    <3>1. i \in 1 .. Len(old[k].pieces) /\ new[k].pieces[i].id = Id(k, i)
      BY <1>5, <2>2
    <3>2. j \in 1 .. Len(made.pieces) /\ new[l].pieces[j] = made.pieces[j]
      BY <1>3, <1>5, <2>2
    <3> HIDE DEF Id
    <3> QED
      BY <1>9, <1>10, <2>2, <3>1, <3>2
  <2>3. CASE l \in 1 .. n /\ k = n + 1
    <3>1. j \in 1 .. Len(old[l].pieces) /\ new[l].pieces[j].id = Id(l, j)
      BY <1>5, <2>3
    <3>2. i \in 1 .. Len(made.pieces) /\ new[k].pieces[i] = made.pieces[i]
      BY <1>3, <1>5, <2>3
    <3> HIDE DEF Id
    <3> QED
      BY <1>9, <1>10, <2>3, <3>1, <3>2
  <2>4. CASE k = n + 1 /\ l = n + 1
    BY <1>3, <1>4, <1>5, <2>4 DEF OnceEach
  <2> QED
    BY <1>6, <2>1, <2>2, <2>3, <2>4
<1>12. ASSUME NEW id \in 1 .. Len(parts)
       PROVE  id \in Elements(made.pool) <=> ~Present(new, id)
  <2>1. Present(new, id) <=> Present(old, id) \/ id \in Ids(made.pieces)
    <3>1. ASSUME Present(new, id) PROVE Present(old, id) \/ id \in Ids(made.pieces)
      <4>1. PICK k \in 1 .. n + 1 : \E i \in 1 .. Len(new[k].pieces) : new[k].pieces[i].id = id
        BY <1>5, <3>1 DEF Present
      <4>2. CASE k \in 1 .. n
        BY <1>5, <4>1, <4>2 DEF Present, n
      <4>3. CASE k = n + 1
        BY <1>3, <1>5, <4>1, <4>3 DEF Ids
      <4> QED
        BY <1>6, <4>2, <4>3
    <3>2. ASSUME Present(old, id) PROVE Present(new, id)
      <4>1. PICK k \in 1 .. n : \E i \in 1 .. Len(old[k].pieces) : old[k].pieces[i].id = id
        BY <3>2 DEF Present, n
      <4>2. k \in 1 .. n + 1 /\ new[k] = old[k]
        BY <1>5, <1>6
      <4> QED
        BY <1>5, <4>1, <4>2 DEF Present
    <3>3. ASSUME id \in Ids(made.pieces) PROVE Present(new, id)
      <4>1. PICK i \in 1 .. Len(made.pieces) : made.pieces[i].id = id
        BY <3>3 DEF Ids
      <4>2. new[n + 1].pieces = made.pieces /\ n + 1 \in 1 .. Len(new)
        BY <1>3, <1>5, <1>6
      <4> QED
        BY <4>1, <4>2 DEF Present
    <3> QED
      BY <3>1, <3>2, <3>3
  <2>2. id \in left <=> ~Present(old, id)
    BY <1>1
  <2> QED
    BY <1>4, <2>1, <2>2
<1> DEFINE end == [plan |-> new, pool |-> made.pool]
<1>13. end.plan = new /\ end.pool = made.pool /\ end \in [plan : Seq(NumberedSheets), pool : Seq(1 .. Len(parts))]
  BY <1>2, <1>5
<1>14. PartsRight(parts, new)
  BY <1>5, <1>8, <1>11 DEF PartsRight
<1> HIDE DEF end
<1>15. end \in BuildStates(parts)
  BY <1>4, <1>7, <1>12, <1>13, <1>14 DEF BuildStates
<1> QED
  BY <1>15 DEF end, new, old, s

Building(generator, parts, sheet, f) ==
    f = [n \in 0 .. Len(parts) |->
            IF n = 0 THEN [plan |-> <<>>, pool |-> [i \in DOMAIN parts |-> i]]
            ELSE LET before == f[n - 1]
                     made == BuiltSheet(generator, parts, before.pool, sheet)
                 IN  IF made.pieces = <<>> THEN before
                     ELSE [plan |-> Append(before.plan, [size |-> sheet, pieces |-> made.pieces]),
                           pool |-> made.pool]]

\* All rounds leave a plan that can go on.
LEMMA BuildingIs ==
    ASSUME NEW parts \in Seq(PartTypes), NEW sheet \in [Axes -> Lengths], EachFits(parts, sheet), NEW generator
    PROVE  \A k \in 0 .. Len(parts) :
                (CHOOSE f : Building(generator, parts, sheet, f))[k] \in BuildStates(parts)
<1> DEFINE N == Len(parts)
           Good == BuildStates(parts)
           made(s) == BuiltSheet(generator, parts, s.pool, sheet)
           step(s) == IF made(s).pieces = <<>> THEN s
                      ELSE [plan |-> Append(s.plan, [size |-> sheet, pieces |-> made(s).pieces]),
                            pool |-> made(s).pool]
           F == [k \in 1 .. N |-> [s \in Good |-> step(s)]]
           whole == [i \in DOMAIN parts |-> i]
           first == [plan |-> <<>>, pool |-> whole]
           state == CHOOSE f : Building(generator, parts, sheet, f)
<1>1. N \in Nat /\ DOMAIN parts = 1 .. N
  BY LenProperties
<1>2. first \in Good
  <2>1. <<>> \in Seq(NumberedSheets) /\ Len(<<>>) = 0 /\ 1 .. 0 = {}
    BY EmptySeq
  <2>2. /\ whole \in Seq(1 .. N) /\ Len(whole) = N /\ \A i \in 1 .. N : whole[i] = i
    <3>1. whole = [i \in 1 .. N |-> i]
      BY <1>1
    <3>2. whole \in [1 .. N -> 1 .. N] /\ \A i \in 1 .. N : whole[i] = i
      BY <3>1
    <3> HIDE DEF whole, N
    <3> QED
      BY <1>1, <3>2, FunctionSeq
  <2> HIDE DEF whole
  <2>3. Distinct(whole) /\ \A id \in 1 .. N : id \in Elements(whole)
    BY <2>2 DEF Distinct, Elements
  <2>4. CutSheets(<<>>) /\ PartsRight(parts, <<>>) /\ \A id : ~Present(<<>>, id)
    BY <2>1 DEF CutSheets, PartsRight, OnceInPlan, Present
  <2> QED
    BY <2>1, <2>2, <2>3, <2>4 DEF BuildStates
<1>3. \A s \in Good : step(s) \in Good
  <2> SUFFICES ASSUME NEW s \in Good PROVE step(s) \in Good
    OBVIOUS
  <2>1. s.pool \in Seq(1 .. Len(parts)) /\ Distinct(s.pool)
    BY DEF BuildStates
  <2>2. MadeRight(parts, s.pool, sheet, made(s))
    <3> DEFINE pool == s.pool
    <3> HIDE DEF pool, Good
    <3> QED
      BY <2>1, BuiltSheetIs DEF pool
  <2> HIDE DEF made
  <2> QED
    BY <2>2, SheetAdded
<1>4. Building(generator, parts, sheet, state)
  <2> HIDE DEF N, Good, step, first
  <2>1. F \in Rounds(N, Good)
    BY <1>3 DEF Rounds
  <2>2. \A k \in 1 .. N : \A s \in Good : F[k][s] = step(s)
    OBVIOUS
  <2> HIDE DEF F
  <2>3. PICK h \in [0 .. N -> Good] : h[0] = first /\ \A k \in 1 .. N : h[k] = F[k][h[k - 1]]
    <3>1. RunsOf(N, Good, first, F) # {}
      BY <1>1, <1>2, <2>1, LoopRuns
    <3> QED
      BY <3>1 DEF RunsOf
  <2>4. ASSUME NEW k \in 0 .. N PROVE h[k] = IF k = 0 THEN first ELSE step(h[k - 1])
    <3>1. CASE k = 0
      BY <2>3, <3>1
    <3>2. CASE k # 0
      <4>1. k \in 1 .. N /\ k - 1 \in 0 .. N
        BY <1>1, <3>2
      <4>2. h[k - 1] \in Good
        BY <4>1
      <4> QED
        BY <2>2, <2>3, <3>2, <4>1, <4>2
    <3> QED
      BY <3>1, <3>2
  <2>5. h = [k \in 0 .. N |-> IF k = 0 THEN first ELSE step(h[k - 1])]
    BY <2>4
  <2>6. Building(generator, parts, sheet, h)
    BY <2>5 DEF Building, N, first, step
  <2> QED
    BY <2>6, Zenon
<1> HIDE DEF state
<1>5. state = [k \in 0 .. N |-> IF k = 0 THEN first ELSE step(state[k - 1])]
  BY <1>4 DEF Building
<1> HIDE DEF first, step, N, Good
<1>6. state[0] = first /\ \A k \in 1 .. N : state[k] = step(state[k - 1])
  BY <1>1, <1>5
<1>7. \A k \in 0 .. N : state[k] \in Good
  <2>1. \A k \in 1 .. N : state[k - 1] \in Good => state[k] \in Good
    BY <1>3, <1>6
  <2> QED
    BY <1>1, <1>2, <1>6, <2>1, KeptAllAlong
<1> QED
  BY <1>7 DEF state, N, Good

\* What a constructed plan is: sheets that can be cut, of parts that are there
\* once, and all of them when all were asked for.
PlanRight(parts, whole, p) ==
    /\ p \in Seq(NumberedSheets)
    /\ PartsRight(parts, p)
    /\ whole => \A id \in 1 .. Len(parts) : Present(p, id)
\* That is what build_column_candidates makes of parts that fit the sheet.
LEMMA BuiltPlansAre ==
    ASSUME NEW parts \in Seq(PartTypes), parts # <<>>, NEW sheet \in [Axes -> Lengths],
           EachFits(parts, sheet), NEW whole \in BOOLEAN, NEW p \in BuiltPlans(parts, sheet, whole)
    PROVE  PlanRight(parts, whole, p) /\ CutSheets(p)
<1>1. p # <<>> /\ \E g \in Generators : p = Built(g, parts, sheet, whole)
  BY DEF BuiltPlans
<1>2. PICK g \in Generators : p = Built(g, parts, sheet, whole)
  BY <1>1
<1> DEFINE state == CHOOSE f : Building(g, parts, sheet, f)
           end == IF whole THEN state[Len(parts)] ELSE state[1]
<1>3. p = IF whole /\ end.pool # <<>> THEN <<>> ELSE end.plan
  BY <1>2 DEF Built, Building
<1>4. \A k \in 0 .. Len(parts) : state[k] \in BuildStates(parts)
  BY BuildingIs
<1> HIDE DEF state
<1>5. Len(parts) \in 0 .. Len(parts) /\ 1 \in 0 .. Len(parts)
  <2>1. Len(parts) \in Nat /\ Len(parts) # 0
    BY EmptySeq, LenProperties
  <2> QED
    BY <2>1
<1>6. end \in BuildStates(parts)
  BY <1>4, <1>5
<1> HIDE DEF end
<1>7. p = end.plan /\ (whole => end.pool = <<>>)
  BY <1>1, <1>3
<1>8. /\ end.plan \in Seq(NumberedSheets) /\ CutSheets(end.plan) /\ PartsRight(parts, end.plan)
      /\ \A id \in 1 .. Len(parts) : id \in Elements(end.pool) <=> ~Present(end.plan, id)
  BY <1>6 DEF BuildStates
<1>9. whole => \A id \in 1 .. Len(parts) : Present(p, id)
  <2>1. Elements(<<>>) = {}
    BY DEF Elements
  <2> QED
    BY <1>7, <1>8, <2>1
<1> QED
  BY <1>7, <1>8, <1>9 DEF PlanRight

\* Constructed sheets are sheets with pieces.
LEMMA NumberedPlan ==
    ASSUME NEW p \in Seq(NumberedSheets)
    PROVE  /\ p \in Layouts /\ DOMAIN p = 1 .. Len(p) /\ Len(p) \in Nat
           /\ \A k \in 1 .. Len(p) : p[k] \in NumberedSheets /\ p[k].pieces \in Seq(Numbered)
<1>1. NumberedSheets \subseteq SheetTypes
  BY NumberedPieces DEF NumberedSheets, SheetTypes
<1>2. p \in Seq(SheetTypes)
  BY <1>1, SeqMonotonic
<1>3. DOMAIN p = 1 .. Len(p) /\ Len(p) \in Nat /\ \A k \in 1 .. Len(p) : p[k] \in NumberedSheets
  BY LenProperties, ElementOfSeq
<1>4. \A k \in 1 .. Len(p) : p[k].pieces \in Seq(Numbered)
  BY <1>3 DEF NumberedSheets
<1>5. p \in Layouts
  BY <1>2 DEF SheetTypes, Layouts
<1> QED
  BY <1>3, <1>4, <1>5

\* What is constructed for a request.
LEMMA ConstructedFacts ==
    ASSUME NEW j \in Jobs, j.parts # <<>>, NEW p \in Constructed(j.parts, j.sheet, j.whole)
    PROVE  PlanRight(j.parts, j.whole, p) /\ CutSheets(p) /\ p \in Layouts /\ \A s \in DOMAIN p : OnSheet(p[s])
<1>1. /\ j.whole \in BOOLEAN /\ j.sheet \in [Axes -> Lengths] /\ j.parts \in Seq(PartTypes)
      /\ \A i \in DOMAIN j.parts :
            \E size \in Range(Orientations(j.parts[i])) : \A a \in Axes : size[a] <= j.sheet[a]
  BY JobsAssumption DEF JobsAssumption, PartTypes
<1>2. EachFits(j.parts, j.sheet)
  BY <1>1, LenProperties DEF EachFits, FitsIn
<1>3. p \in BuiltPlans(j.parts, j.sheet, j.whole)
  BY ConstructedAssumption DEF ConstructedAssumption
<1>4. PlanRight(j.parts, j.whole, p) /\ CutSheets(p)
  BY <1>1, <1>2, <1>3, BuiltPlansAre
<1>5. p \in Layouts /\ DOMAIN p = 1 .. Len(p)
  BY <1>4, NumberedPlan DEF PlanRight
<1> QED
  BY <1>4, <1>5 DEF CutSheets

-----------------------------------------------------------------------------
(* The inductive invariant                                                 *)

\* The sheets of a plan are those of another one with pieces slid on them.
Compacted(p, q) ==
    /\ DOMAIN p = DOMAIN q
    /\ \A s \in DOMAIN p : Slidden(p[s], q[s])

\* None of some pieces can slide.
AtRest(pieces, I) == \A i \in I : \A a \in Axes : ~CanSlide(pieces, i, a)
SheetAtRest(sheet) == AtRest(sheet.pieces, DOMAIN sheet.pieces)

\* Compaction has only slid pieces of the engine's plan, and those it has been
\* past since the last slide on their sheet are at rest.
Sliding ==
    stage = "slide" =>
        /\ next \in DOMAIN job.batch /\ job.batch[next].valid
        /\ Compacted(plan, job.batch[next].plan)
        /\ ~moved.ever => plan = job.batch[next].plan
        /\ Kerf = 0 => Disjoint(plan)
        /\ at[1] >= 1 /\ at[2] >= 1
        /\ \A s \in DOMAIN plan : s < at[1] => SheetAtRest(plan[s])
        /\ ~moved.pass /\ at[1] \in DOMAIN plan =>
              AtRest(plan[at[1]].pieces, {i \in DOMAIN plan[at[1]].pieces : i < at[2]})

\* A plan that is compared can be cut, and is the engine's with pieces slid.
Ranked ==
    \A k \in Valid : Compacted(finals[k], job.batch[k].plan) /\ Cuttable(finals[k])

IInv == TypeOK /\ job \in Jobs /\ Sliding /\ Ranked /\ Settled

\* What is known of a request.
LEMMA JobFacts ==
    ASSUME job \in Jobs
    PROVE  /\ job.groupShift \in BOOLEAN
           /\ DOMAIN job.batch = 1..Len(job.batch) /\ Len(job.batch) \in Nat
           /\ \A k \in DOMAIN job.batch :
                 /\ job.batch[k].valid \in BOOLEAN /\ job.batch[k].plan \in Layouts
                 /\ job.batch[k].valid => Cuttable(job.batch[k].plan)
           /\ job.parts # <<>> => job.batch = <<>>
<1>1. job.batch \in Seq([valid : BOOLEAN, plan : Layouts])
  BY JobsAssumption DEF JobsAssumption
<1>2. DOMAIN job.batch = 1..Len(job.batch) /\ Len(job.batch) \in Nat
  BY <1>1, LenProperties
<1>3. \A k \in DOMAIN job.batch : job.batch[k] \in [valid : BOOLEAN, plan : Layouts]
  BY <1>1, <1>2, ElementOfSeq
<1> QED
  BY <1>2, <1>3, JobsAssumption DEF JobsAssumption

\* The plan itself counts as compacted, and so does one slid further.
LEMMA CompactedItself ==
    ASSUME NEW p \in Layouts
    PROVE  Compacted(p, p) /\ SameParts(p, p)
<1>1. ASSUME NEW s \in DOMAIN p, NEW i \in DOMAIN p[s].pieces, NEW a \in Axes
      PROVE  Lo(p[s].pieces[i], a) <= Lo(p[s].pieces[i], a)
  <2>1. p[s].pieces[i] \in Pieces
    BY SheetsOfPlan, LenProperties, ElementOfSeq
  <2> QED
    BY <2>1, PieceNumbers
<1> QED
  BY <1>1 DEF Compacted, Slidden, SameParts

\* A plan with its pieces slid has the same pieces.
LEMMA CompactedParts ==
    ASSUME NEW p, NEW q, Compacted(p, q)
    PROVE  SameParts(p, q)
BY DEF Compacted, Slidden, SameParts, Axes

\* The plans that are compared are the same after a step that compares none.
LEMMA ComparedKept ==
    ASSUME IInv, UNCHANGED <<job, finals>>
    PROVE  (job \in Jobs)' /\ Ranked' /\ Settled' /\ Valid' = Valid
BY DEF IInv, Ranked, Settled, Valid, Solutions

-----------------------------------------------------------------------------
(* The invariant is kept                                                   *)

\* It holds before the first solution is looked at.
LEMMA InitHolds == Init => IInv
<1> SUFFICES ASSUME Init PROVE IInv
  OBVIOUS
<1>1. job \in Jobs /\ Len(job.batch) \in Nat /\ MaxPasses \in Nat
  BY JobFacts, JobsAssumption DEF Init, JobsAssumption
<1>2. TypeOK
  BY <1>1 DEF Init, TypeOK, Layouts, Valid, Solutions
<1>3. Sliding /\ Ranked /\ Settled
  BY DEF Init, Sliding, Ranked, Settled, Valid, Solutions
<1> QED
  BY <1>1, <1>2, <1>3 DEF IInv

\* One more plan has been compared.
LEMMA OneCompared ==
    ASSUME IInv, stage \in {"take", "slide"}, NEW final \in Layouts,
           next \in DOMAIN job.batch, finals' = Append(finals, final), next' = next + 1,
           UNCHANGED job,
           job.batch[next].valid =>
              /\ Compacted(final, job.batch[next].plan) /\ Cuttable(final)
              /\ \/ final = job.batch[next].plan
                 \/ \A s \in DOMAIN final : SheetAtRest(final[s])
    PROVE  /\ (job \in Jobs)' /\ Ranked' /\ Settled'
           /\ finals' \in Seq(Layouts) /\ Len(finals') = next' - 1
           /\ next' \in 1 .. Len(job'.batch) + 1
           /\ Valid \subseteq Valid'
           /\ job.batch[next].valid => next \in Valid'
<1>1. finals \in Seq(Layouts) /\ Len(finals) = next - 1 /\ next \in 1 .. Len(job.batch) + 1 /\ job \in Jobs
  BY DEF IInv, TypeOK
<1>2. DOMAIN job.batch = 1..Len(job.batch) /\ Len(job.batch) \in Nat
  BY <1>1, JobFacts
<1>3. /\ finals' \in Seq(Layouts) /\ Len(finals') = next /\ DOMAIN finals' = 1..next
      /\ DOMAIN finals = 1..(next - 1)
      /\ finals'[next] = final
      /\ \A k \in DOMAIN finals : finals'[k] = finals[k]
  BY <1>1, <1>2, AppendProperties, LenProperties
<1>4. Valid \subseteq Valid' /\ (job.batch[next].valid => next \in Valid')
  BY <1>1, <1>2, <1>3 DEF Valid, Solutions
<1>5. ASSUME NEW k \in Valid', k # next
      PROVE  k \in Valid /\ finals'[k] = finals[k]
  BY <1>1, <1>2, <1>3, <1>5 DEF Valid, Solutions
<1>6. ASSUME next \in Valid' PROVE job.batch[next].valid
  BY <1>6 DEF Valid, Solutions
<1>7. Ranked'
  BY <1>3, <1>5, <1>6, Zenon DEF Ranked, IInv
<1>8. Settled'
  <2> SUFFICES ASSUME NEW k \in Valid'
               PROVE  \/ finals'[k] = job'.batch[k].plan
                      \/ \A s \in DOMAIN finals'[k] : SheetAtRest(finals'[k][s])
    BY Zenon DEF Settled, SheetAtRest, AtRest
  <2>1. CASE k = next
    BY <1>3, <1>6, <2>1
  <2>2. CASE k # next
    <3>1. k \in Valid /\ finals'[k] = finals[k]
      BY <1>5, <2>2
    <3>2. \/ finals[k] = job.batch[k].plan
          \/ \A s \in DOMAIN finals[k] : SheetAtRest(finals[k][s])
      BY <3>1, Zenon DEF Settled, SheetAtRest, AtRest, IInv
    <3> QED
      BY <3>1, <3>2
  <2> QED
    BY <2>1, <2>2
<1> QED
  BY <1>1, <1>2, <1>3, <1>4, <1>7, <1>8

\* Counting a verdict.
LEMMA CountTyped ==
    ASSUME NEW v \in VerdictNames, counters \in [VerdictNames -> Nat], Count(v)
    PROVE  counters' \in [VerdictNames -> Nat]
BY DEF Count

\* A refused solution is not ranked, and leaves no plan behind.
LEMMA RefuseStep ==
    ASSUME IInv, Refuse
    PROVE  IInv'
<1>1. TypeOK /\ job \in Jobs
  BY DEF IInv
<1>2. next \in DOMAIN job.batch /\ stage = "take" /\ ~job.batch[next].valid
  BY <1>1, JobFacts DEF TypeOK, Refuse
<1>3. <<>> \in Layouts
  BY DEF Layouts
<1>4. /\ (job \in Jobs)' /\ Ranked' /\ Settled'
      /\ finals' \in Seq(Layouts) /\ Len(finals') = next' - 1
      /\ next' \in 1 .. Len(job'.batch) + 1
      /\ Valid \subseteq Valid'
  BY <1>2, <1>3, OneCompared DEF Refuse
<1>5. counters' \in [VerdictNames -> Nat]
  <2>1. "invalid" \in VerdictNames
    BY DEF VerdictNames
  <2> QED
    BY <1>1, <2>1, CountTyped DEF Refuse, TypeOK
<1>6. TypeOK'
  BY <1>1, <1>2, <1>4, <1>5 DEF TypeOK, Refuse
<1>7. Sliding'
  BY <1>2 DEF Refuse, Sliding
<1> QED
  BY <1>4, <1>6, <1>7 DEF IInv

\* The engine's plan is what compaction starts from.
LEMMA TakeStep ==
    ASSUME IInv, Take
    PROVE  IInv'
<1>1. TypeOK /\ job \in Jobs
  BY DEF IInv
<1>2. next \in DOMAIN job.batch /\ job.batch[next].valid
  BY <1>1, JobFacts DEF TypeOK, Take
<1>3. plan' \in Layouts /\ Cuttable(plan') /\ plan' = job'.batch[next'].plan
  BY <1>1, <1>2, JobFacts DEF Take
<1>4. Compacted(plan', job'.batch[next'].plan) /\ SameParts(plan', job'.batch[next'].plan)
  BY <1>3, CompactedItself
<1>5. (job \in Jobs)' /\ Ranked' /\ Settled' /\ Valid' = Valid
  BY ComparedKept DEF Take
<1>6. TypeOK'
  BY <1>1, <1>3, <1>4, <1>5 DEF TypeOK, Take, Cuttable
<1>7. Sliding'
  <2>1. at' = <<1, 1>> /\ ~moved'.ever
    BY DEF Take
  <2>2. \A s \in DOMAIN plan' : s >= 1
    BY <1>3, SheetsOfPlan
  <2>3. \A s \in DOMAIN plan' : \A i \in DOMAIN plan'[s].pieces : i >= 1
    BY <1>3, SheetsOfPlan, LenProperties
  <2>4. \A s \in DOMAIN plan' : s < at'[1] => SheetAtRest(plan'[s])
    BY <1>3, <2>1, <2>2, SheetsOfPlan
  <2>5. at'[1] \in DOMAIN plan' =>
            AtRest(plan'[at'[1]].pieces, {i \in DOMAIN plan'[at'[1]].pieces : i < at'[2]})
    <3> SUFFICES ASSUME at'[1] \in DOMAIN plan',
                        NEW i \in DOMAIN plan'[at'[1]].pieces, i < at'[2]
                 PROVE  FALSE
      BY DEF AtRest
    <3>1. plan'[at'[1]].pieces \in Seq(Pieces)
      BY <1>3, SheetsOfPlan
    <3>2. i \in Nat /\ i >= 1
      BY <3>1, LenProperties
    <3> QED
      BY <2>1, <3>2
  <2> QED
    BY <1>2, <1>3, <1>4, <2>1, <2>4, <2>5 DEF Sliding, Take, Cuttable
<1> QED
  BY <1>5, <1>6, <1>7 DEF IInv

\* One piece slid along both axes, and if that moved it.
SlidBoth(pieces, i) == Slid(Slid(pieces, i, 1), i, 2)
MaySlide(pieces, i) == CanSlide(pieces, i, 1) \/ CanSlide(Slid(pieces, i, 1), i, 2)

\* What SlidePiece does to the pieces of a sheet.
LEMMA SlidBothIs ==
    ASSUME NEW pieces \in Seq(Pieces), NEW i \in DOMAIN pieces
    PROVE  /\ SlidBoth(pieces, i) \in Seq(Pieces) /\ DOMAIN SlidBoth(pieces, i) = DOMAIN pieces
           /\ \A j \in DOMAIN pieces : \A b \in Axes :
                 /\ SlidBoth(pieces, i)[j].size = pieces[j].size
                 /\ Lo(SlidBoth(pieces, i)[j], b) <= Lo(pieces[j], b)
                 /\ Hi(SlidBoth(pieces, i)[j], b) <= Hi(pieces[j], b)
           /\ Kerf = 0 /\ Apart(pieces) => Apart(SlidBoth(pieces, i))
           /\ ~MaySlide(pieces, i) =>
                 SlidBoth(pieces, i) = pieces /\ \A a \in Axes : ~CanSlide(pieces, i, a)
<1> DEFINE x == Slid(pieces, i, 1)
           new == SlidBoth(pieces, i)
<1>0. 1 \in Axes /\ 2 \in Axes /\ \A b \in Axes : b = 1 \/ b = 2
  BY DEF Axes
<1>1. /\ x \in Seq(Pieces) /\ DOMAIN x = DOMAIN pieces
      /\ \A j \in DOMAIN pieces :
            /\ x[j].size = pieces[j].size
            /\ \A b \in Axes : Lo(x[j], b) <= Lo(pieces[j], b) /\ Hi(x[j], b) <= Hi(pieces[j], b)
      /\ ~CanSlide(pieces, i, 1) => x = pieces
  BY <1>0, SlidIs
<1>2. new = Slid(x, i, 2)
  BY DEF SlidBoth
<1>3. Kerf = 0 /\ Apart(pieces) => Apart(x)
  BY <1>0, SlidApart
<1> HIDE DEF x
<1>4. i \in DOMAIN x
  BY <1>1
<1>5. /\ new \in Seq(Pieces) /\ DOMAIN new = DOMAIN x
      /\ \A j \in DOMAIN x :
            /\ new[j].size = x[j].size
            /\ \A b \in Axes : Lo(new[j], b) <= Lo(x[j], b) /\ Hi(new[j], b) <= Hi(x[j], b)
      /\ ~CanSlide(x, i, 2) => new = x
  <2>1. 2 \in Axes /\ x \in Seq(Pieces)
    BY <1>0, <1>1
  <2> DEFINE y == Slid(x, i, 2)
  <2>2. /\ y \in Seq(Pieces) /\ DOMAIN y = DOMAIN x
        /\ \A j \in DOMAIN x :
              /\ y[j].size = x[j].size
              /\ \A b \in Axes : Lo(y[j], b) <= Lo(x[j], b) /\ Hi(y[j], b) <= Hi(x[j], b)
        /\ ~CanSlide(x, i, 2) => y = x
    BY <1>4, <2>1, SlidIs
  <2> QED
    BY <1>2, <2>2
<1>6. Kerf = 0 /\ Apart(x) => Apart(new)
  BY <1>0, <1>1, <1>2, <1>4, SlidApart
<1> HIDE DEF new
<1>7. ASSUME NEW j \in DOMAIN pieces, NEW b \in Axes
      PROVE  new[j].size = pieces[j].size /\ Lo(new[j], b) <= Lo(pieces[j], b) /\ Hi(new[j], b) <= Hi(pieces[j], b)
  <2>1. pieces[j] \in Pieces /\ x[j] \in Pieces /\ new[j] \in Pieces
    BY <1>1, <1>5, LenProperties, ElementOfSeq
  <2>2. /\ Lo(pieces[j], b) \in Nat /\ Lo(x[j], b) \in Nat /\ Lo(new[j], b) \in Nat
        /\ Hi(pieces[j], b) \in Nat /\ Hi(x[j], b) \in Nat /\ Hi(new[j], b) \in Nat
    BY <2>1, PieceNumbers
  <2>3. /\ new[j].size = x[j].size /\ x[j].size = pieces[j].size
        /\ Lo(new[j], b) <= Lo(x[j], b) /\ Lo(x[j], b) <= Lo(pieces[j], b)
        /\ Hi(new[j], b) <= Hi(x[j], b) /\ Hi(x[j], b) <= Hi(pieces[j], b)
    BY <1>1, <1>5
  <2> QED
    BY <2>2, <2>3
<1>8. ~MaySlide(pieces, i) => new = pieces /\ \A a \in Axes : ~CanSlide(pieces, i, a)
  BY <1>0, <1>1, <1>5 DEF MaySlide, x
<1> QED
  BY <1>1, <1>3, <1>5, <1>6, <1>7, <1>8 DEF new

\* A sheet whose pieces have been slid.
LEMMA SheetSlid ==
    ASSUME NEW p \in Layouts, NEW s \in DOMAIN p, OnSheet(p[s]), NEW i \in DOMAIN p[s].pieces
    PROVE  LET q == [p EXCEPT ![s].pieces = SlidBoth(p[s].pieces, i)]
           IN  /\ q \in Layouts /\ DOMAIN q = DOMAIN p /\ OnSheet(q[s])
               /\ \A t \in DOMAIN p : t # s => q[t] = p[t]
               /\ \A old \in SheetTypes : Slidden(p[s], old) => Slidden(q[s], old)
               /\ Kerf = 0 /\ Disjoint(p) => Disjoint(q)
               /\ ~MaySlide(p[s].pieces, i) => q = p
<1> DEFINE pieces == p[s].pieces
           new == SlidBoth(pieces, i)
           q == [p EXCEPT ![s].pieces = new]
<1>1. p[s] \in SheetTypes /\ pieces \in Seq(Pieces)
  BY SheetsOfPlan
<1>2. /\ new \in Seq(Pieces) /\ DOMAIN new = DOMAIN pieces
      /\ \A j \in DOMAIN pieces : \A b \in Axes :
            /\ new[j].size = pieces[j].size
            /\ Lo(new[j], b) <= Lo(pieces[j], b)
            /\ Hi(new[j], b) <= Hi(pieces[j], b)
      /\ Kerf = 0 /\ Apart(pieces) => Apart(new)
      /\ ~MaySlide(pieces, i) => new = pieces
  BY <1>1, SlidBothIs
<1> HIDE DEF new
<1>3. /\ q \in Layouts /\ DOMAIN q = DOMAIN p
      /\ q[s] = [p[s] EXCEPT !.pieces = new]
      /\ q[s].size = p[s].size /\ q[s].pieces = new
      /\ \A t \in DOMAIN p : t # s => q[t] = p[t]
  BY <1>2, SheetReplaced
<1> HIDE DEF q
<1>4. ASSUME NEW j \in DOMAIN pieces, NEW b \in Axes
      PROVE  /\ Lo(new[j], b) \in Nat /\ Lo(pieces[j], b) \in Nat /\ p[s].size[b] \in Nat
             /\ Hi(new[j], b) <= p[s].size[b]
  <2>1. new[j] \in Pieces /\ pieces[j] \in Pieces
    BY <1>1, <1>2, LenProperties, ElementOfSeq
  <2>2. Hi(new[j], b) \in Nat /\ Hi(pieces[j], b) \in Nat /\ Lo(new[j], b) \in Nat /\ Lo(pieces[j], b) \in Nat
    BY <2>1, PieceNumbers
  <2>3. p[s].size[b] \in Nat
    BY <1>1 DEF SheetTypes, Lengths
  <2>4. Hi(new[j], b) <= Hi(pieces[j], b) /\ Hi(pieces[j], b) <= p[s].size[b]
    BY <1>2 DEF OnSheet
  <2> QED
    BY <2>2, <2>3, <2>4
<1>5. OnSheet(q[s])
  BY <1>2, <1>3, <1>4 DEF OnSheet
<1>6. ASSUME NEW old \in SheetTypes, Slidden(p[s], old)
      PROVE  Slidden(q[s], old)
  <2>1. ASSUME NEW j \in DOMAIN pieces, NEW b \in Axes
        PROVE  new[j].size = old.pieces[j].size /\ Lo(new[j], b) <= Lo(old.pieces[j], b)
    <3>1. j \in DOMAIN old.pieces /\ old.pieces[j] \in Pieces
      BY <1>6, LenProperties, ElementOfSeq DEF Slidden, SheetTypes
    <3>2. Lo(old.pieces[j], b) \in Nat
      BY <3>1, PieceNumbers
    <3>3. pieces[j].size = old.pieces[j].size /\ Lo(pieces[j], b) <= Lo(old.pieces[j], b)
      BY <1>6 DEF Slidden
    <3>4. new[j].size = pieces[j].size /\ Lo(new[j], b) <= Lo(pieces[j], b)
      BY <1>2
    <3> QED
      BY <1>4, <3>2, <3>3, <3>4
  <2> QED
    BY <1>2, <1>3, <1>6, <2>1 DEF Slidden
<1>7. ASSUME Kerf = 0, Disjoint(p) PROVE Disjoint(q)
  <2>1. \A t \in DOMAIN p : Apart(p[t].pieces)
    BY <1>7, CutBySheets
  <2>2. \A t \in DOMAIN q : Apart(q[t].pieces)
    BY <1>2, <1>3, <1>7, <2>1
  <2> QED
    BY <1>3, <2>2, CutBySheets
<1>8. ASSUME ~MaySlide(pieces, i) PROVE q = p
  <2>1. q[s] = p[s]
    BY <1>1, <1>2, <1>3, <1>8 DEF SheetTypes
  <2>2. \A t \in DOMAIN p : q[t] = p[t]
    BY <1>3, <2>1
  <2>3. q \in Seq(SheetTypes) /\ p \in Seq(SheetTypes) /\ DOMAIN p = 1..Len(p) /\ DOMAIN q = 1..Len(q)
    BY <1>3, SheetsOfPlan DEF Layouts, SheetTypes
  <2>4. Len(p) = Len(q)
    BY <1>3, <2>3, SheetsOfPlan
  <2> QED
    BY <2>2, <2>3, <2>4, SeqEqual
<1> QED
  BY <1>3, <1>5, <1>6, <1>7, <1>8 DEF q, new

\* A slide lowers a piece, and disturbs the rest only of the sheet it is on.
LEMMA SlidePieceStep ==
    ASSUME IInv, SlidePiece
    PROVE  IInv'
<1> DEFINE s == at[1]
           i == at[2]
           pieces == plan[s].pieces
           slid == MaySlide(pieces, i)
           base == job.batch[next].plan
<1>1. TypeOK /\ job \in Jobs /\ Sliding /\ stage = "slide"
  BY DEF IInv, SlidePiece
<1>2. s \in Nat /\ i \in Nat /\ s >= 1 /\ i >= 1 /\ at = <<s, i>>
  BY <1>1 DEF TypeOK, Sliding
<1>3. /\ plan \in Layouts /\ s \in DOMAIN plan /\ i \in DOMAIN pieces
      /\ \A t \in DOMAIN plan : OnSheet(plan[t])
  <2>1. plan \in Layouts /\ s <= Len(plan) /\ i <= Len(pieces)
    BY <1>1 DEF TypeOK, SlidePiece
  <2>2. s \in DOMAIN plan
    BY <1>2, <2>1, SheetsOfPlan
  <2>3. DOMAIN pieces = 1..Len(pieces)
    BY <2>1, <2>2, SheetsOfPlan, LenProperties
  <2> QED
    BY <1>1, <1>2, <2>1, <2>2, <2>3 DEF TypeOK
<1>4. /\ plan' = [plan EXCEPT ![s].pieces = SlidBoth(pieces, i)]
      /\ moved' = [ever |-> moved.ever \/ slid, pass |-> moved.pass \/ slid]
      /\ at' = <<s, i + 1>>
  BY DEF SlidePiece, SlidBoth, MaySlide
<1>5. /\ plan' \in Layouts /\ DOMAIN plan' = DOMAIN plan /\ OnSheet(plan'[s])
      /\ \A t \in DOMAIN plan : t # s => plan'[t] = plan[t]
      /\ \A old \in SheetTypes : Slidden(plan[s], old) => Slidden(plan'[s], old)
      /\ Kerf = 0 /\ Disjoint(plan) => Disjoint(plan')
      /\ ~slid => plan' = plan
  BY <1>3, <1>4, SheetSlid
<1>6. next \in DOMAIN job.batch /\ job.batch[next].valid /\ Compacted(plan, base)
  BY <1>1 DEF Sliding
<1>7. Compacted(plan', base)
  <2>1. base \in Layouts
    BY <1>1, <1>6, JobFacts
  <2>2. s \in DOMAIN base /\ base[s] \in SheetTypes
    BY <1>3, <1>6, <2>1, SheetsOfPlan DEF Compacted
  <2> QED
    BY <1>5, <1>6, <2>2 DEF Compacted
<1>8. (job \in Jobs)' /\ Ranked' /\ Settled' /\ Valid' = Valid
  BY ComparedKept DEF SlidePiece
<1>9. UNCHANGED <<job, next, finals, best, counters, passes, stage>>
  BY DEF SlidePiece
<1>10. TypeOK'
  <2>1. SameParts(plan', job'.batch[next'].plan)
    BY <1>7, <1>9, CompactedParts
  <2>2. \A t \in DOMAIN plan' : OnSheet(plan'[t])
    BY <1>3, <1>5
  <2>3. at' \in Nat \X Nat
    BY <1>2, <1>4
  <2>4. moved' \in [ever : BOOLEAN, pass : BOOLEAN]
    <3>1. moved.ever \in BOOLEAN /\ moved.pass \in BOOLEAN
      BY <1>1 DEF TypeOK
    <3> QED
      BY <1>4, <3>1
  <2> QED
    BY <1>1, <1>5, <1>8, <1>9, <2>1, <2>2, <2>3, <2>4 DEF TypeOK
<1>11. Sliding'
  <2>1. ~moved'.ever => plan' = job'.batch[next'].plan
    BY <1>1, <1>4, <1>5, <1>9 DEF Sliding
  <2>2. Kerf = 0 => Disjoint(plan')
    BY <1>1, <1>5 DEF Sliding
  <2>3. at'[1] = s /\ at'[2] = i + 1
    BY <1>4
  <2>4. ASSUME NEW t \in DOMAIN plan', t < at'[1] PROVE SheetAtRest(plan'[t])
    <3>1. t \in DOMAIN plan /\ t < s
      BY <1>5, <2>3, <2>4
    <3>2. plan'[t] = plan[t]
      BY <1>2, <1>5, <3>1
    <3> QED
      BY <1>1, <3>1, <3>2 DEF Sliding
  <2>5. ASSUME ~moved'.pass
        PROVE  AtRest(plan'[s].pieces, {j \in DOMAIN plan'[s].pieces : j < i + 1})
    <3>1. ~moved.pass /\ ~slid
      BY <1>4, <2>5
    <3>2. plan' = plan
      BY <1>5, <3>1
    <3>3. AtRest(pieces, {j \in DOMAIN pieces : j < i})
      BY <1>1, <1>3, <3>1 DEF Sliding
    <3>4. \A a \in Axes : ~CanSlide(pieces, i, a)
      BY <1>3, <3>1, SheetsOfPlan, SlidBothIs
    <3>5. \A j \in DOMAIN pieces : j < i + 1 => j < i \/ j = i
      <4>1. DOMAIN pieces = 1..Len(pieces)
        BY <1>3, SheetsOfPlan, LenProperties
      <4> QED
        BY <1>2, <4>1
    <3> QED
      BY <3>2, <3>3, <3>4, <3>5 DEF AtRest
  <2> QED
    BY <1>2, <1>6, <1>7, <1>9, <2>1, <2>2, <2>3, <2>4, <2>5 DEF Sliding
<1> QED
  BY <1>8, <1>10, <1>11 DEF IInv

\* When a pass over a sheet has moved nothing, all its pieces are at rest.
LEMMA EndPassStep ==
    ASSUME IInv, EndPass
    PROVE  IInv'
<1>1. TypeOK /\ Sliding /\ stage = "slide" /\ stage' = "slide"
  BY DEF IInv, EndPass
<1>2. at \in Nat \X Nat /\ at[1] >= 1 /\ plan \in Layouts
  BY <1>1 DEF TypeOK, Sliding
<1>3. at[1] \in DOMAIN plan /\ at[2] > Len(plan[at[1]].pieces)
  BY <1>2, SheetsOfPlan DEF EndPass
<1>4. UNCHANGED <<job, next, plan, finals, best, counters, passes, stage>>
  BY DEF EndPass
<1>5. (job \in Jobs)' /\ Ranked' /\ Settled' /\ Valid' = Valid
  BY <1>4, ComparedKept
<1>6. moved' = [moved EXCEPT !.pass = FALSE]
  BY DEF EndPass
<1>7. moved.pass \in BOOLEAN /\ moved' \in [ever : BOOLEAN, pass : BOOLEAN] /\ moved'.ever = moved.ever
  BY <1>1, <1>6 DEF TypeOK
<1>8. CASE moved.pass
  <2>1. at' = <<at[1], 1>>
    BY <1>8 DEF EndPass
  <2>2. at'[1] = at[1] /\ at'[2] = 1 /\ at' \in Nat \X Nat
    BY <1>2, <2>1
  <2>3. TypeOK'
    BY <1>1, <1>4, <1>5, <1>7, <2>2 DEF TypeOK
  <2>4. AtRest(plan[at[1]].pieces, {i \in DOMAIN plan[at[1]].pieces : i < 1})
    <3>1. DOMAIN plan[at[1]].pieces = 1..Len(plan[at[1]].pieces)
      BY <1>2, <1>3, SheetsOfPlan, LenProperties
    <3> QED
      BY <3>1 DEF AtRest
  <2>5. at'[1] \in DOMAIN plan' =>
            AtRest(plan'[at'[1]].pieces, {i \in DOMAIN plan'[at'[1]].pieces : i < at'[2]})
    BY <1>4, <2>2, <2>4
  <2>6. \A t \in DOMAIN plan' : t < at'[1] => SheetAtRest(plan'[t])
    BY <1>1, <1>4, <2>2 DEF Sliding
  <2>7. at'[1] >= 1 /\ at'[2] >= 1
    BY <1>2, <2>2
  <2>8. /\ next' \in DOMAIN job'.batch /\ job'.batch[next'].valid
        /\ Compacted(plan', job'.batch[next'].plan)
        /\ ~moved'.ever => plan' = job'.batch[next'].plan
        /\ Kerf = 0 => Disjoint(plan')
    BY <1>1, <1>4, <1>7, Zenon DEF Sliding
  <2>9. Sliding'
    BY <2>5, <2>6, <2>7, <2>8, Zenon DEF Sliding
  <2> QED
    BY <1>5, <2>3, <2>9 DEF IInv
<1>9. CASE ~moved.pass
  <2>1. at' = <<at[1] + 1, 1>>
    BY <1>9 DEF EndPass
  <2>2. at'[1] = at[1] + 1 /\ at'[2] = 1 /\ at' \in Nat \X Nat
    BY <1>2, <2>1
  <2>3. TypeOK'
    BY <1>1, <1>4, <1>5, <1>7, <2>2 DEF TypeOK
  <2>4. SheetAtRest(plan[at[1]])
    <3>1. plan[at[1]].pieces \in Seq(Pieces)
      BY <1>2, <1>3, SheetsOfPlan
    <3>2. DOMAIN plan[at[1]].pieces = 1..Len(plan[at[1]].pieces) /\ Len(plan[at[1]].pieces) \in Nat
      BY <3>1, LenProperties
    <3>3. at[2] \in Nat
      BY <1>2
    <3>4. \A i \in DOMAIN plan[at[1]].pieces : i < at[2]
      BY <1>3, <3>2, <3>3
    <3> QED
      BY <1>1, <1>3, <1>9, <3>4, Zenon DEF Sliding, SheetAtRest, AtRest
  <2>5. \A t \in DOMAIN plan : t < at[1] + 1 => SheetAtRest(plan[t])
    <3>1. \A t \in DOMAIN plan : t < at[1] + 1 => t < at[1] \/ t = at[1]
      BY <1>2, SheetsOfPlan
    <3> QED
      BY <1>1, <2>4, <3>1 DEF Sliding
  <2>6. at'[1] \in DOMAIN plan' =>
            AtRest(plan'[at'[1]].pieces, {i \in DOMAIN plan'[at'[1]].pieces : i < at'[2]})
    <3> SUFFICES ASSUME at'[1] \in DOMAIN plan'
                 PROVE  AtRest(plan'[at'[1]].pieces, {i \in DOMAIN plan'[at'[1]].pieces : i < at'[2]})
      OBVIOUS
    <3>1. DOMAIN plan'[at'[1]].pieces = 1..Len(plan'[at'[1]].pieces)
      BY <1>2, <1>4, SheetsOfPlan, LenProperties
    <3> QED
      BY <2>2, <3>1 DEF AtRest
  <2>7. at'[1] >= 1 /\ at'[2] >= 1
    BY <1>2, <2>2
  <2>8. \A t \in DOMAIN plan' : t < at'[1] => SheetAtRest(plan'[t])
    BY <1>4, <2>2, <2>5
  <2>9. /\ next' \in DOMAIN job'.batch /\ job'.batch[next'].valid
        /\ Compacted(plan', job'.batch[next'].plan)
        /\ ~moved'.ever => plan' = job'.batch[next'].plan
        /\ Kerf = 0 => Disjoint(plan')
    BY <1>1, <1>4, <1>7, Zenon DEF Sliding
  <2>10. Sliding'
    BY <2>6, <2>7, <2>8, <2>9, Zenon DEF Sliding
  <2> QED
    BY <1>5, <2>3, <2>10 DEF IInv
<1> QED
  BY <1>7, <1>8, <1>9

\* The guard hands on the engine's plan, or a plan at rest that can be cut.
LEMMA GuardedIs ==
    ASSUME IInv, stage = "slide", at[1] > Len(plan)
    PROVE  /\ next \in DOMAIN job.batch /\ job.batch[next].valid
           /\ Guarded \in Layouts /\ Compacted(Guarded, job.batch[next].plan) /\ Cuttable(Guarded)
           /\ \/ Guarded = job.batch[next].plan
              \/ \A s \in DOMAIN Guarded : SheetAtRest(Guarded[s])
<1> DEFINE base == job.batch[next].plan
<1>1. TypeOK /\ Sliding /\ job \in Jobs
  BY DEF IInv
<1>2. next \in DOMAIN job.batch /\ job.batch[next].valid
  BY <1>1 DEF Sliding
<1>3. base \in Layouts /\ Cuttable(base) /\ Compacted(base, base)
  BY <1>1, <1>2, JobFacts, CompactedItself
<1>4. plan \in Layouts /\ \A s \in DOMAIN plan : OnSheet(plan[s])
  BY <1>1 DEF TypeOK
<1>5. moved.ever \in BOOLEAN
  BY <1>1 DEF TypeOK
<1>6. CASE Guarded = base
  BY <1>2, <1>3, <1>6
<1>7. CASE Guarded = plan /\ moved.ever /\ KerfClear(plan)
  <2>1. Disjoint(plan)
    <3>1. CASE Kerf = 0
      BY <1>1, <3>1 DEF Sliding
    <3>2. CASE Kerf > 0
      <4>1. \A s \in DOMAIN plan : Clear(plan[s].pieces) /\ plan[s].pieces \in Seq(Pieces)
        BY <1>4, <1>7, CutBySheets, SheetsOfPlan
      <4>2. \A s \in DOMAIN plan : Apart(plan[s].pieces)
        BY <3>2, <4>1, ClearIsApart
      <4> QED
        BY <1>4, <4>2, CutBySheets
    <3> QED
      BY <3>1, <3>2, KerfAssumption
  <2>2. Cuttable(plan)
    BY <1>4, <1>7, <2>1 DEF Cuttable
  <2>3. \A s \in DOMAIN plan : s < at[1]
    <3>1. at[1] \in Nat /\ DOMAIN plan = 1..Len(plan) /\ Len(plan) \in Nat
      BY <1>1, <1>4, SheetsOfPlan DEF TypeOK
    <3> QED
      BY <3>1
  <2>4. \A s \in DOMAIN plan : SheetAtRest(plan[s])
    BY <1>1, <2>3, Zenon DEF Sliding
  <2>5. Compacted(plan, base)
    BY <1>1 DEF Sliding
  <2> QED
    BY <1>2, <1>4, <1>7, <2>2, <2>4, <2>5
<1>8. CASE Guarded = plan /\ ~moved.ever
  <2>1. plan = base
    BY <1>1, <1>8 DEF Sliding
  <2> QED
    BY <1>6, <1>8, <2>1
<1> QED
  BY <1>5, <1>6, <1>7, <1>8 DEF Guarded

\* The comparison of two plans names a verdict.
LEMMA VerdictNamed ==
    ASSUME NEW f, NEW g, NEW objective
    PROVE  CompareCandidates(f, g, objective) \in VerdictNames
<1> DEFINE s == Ranking(f, objective)
           t == Ranking(g, objective)
           D == {d \in DOMAIN s : s[d] # t[d]}
           head == Primary(f, objective)
           rest == <<f.corner, f.minUtil, -f.void, -f.box, -f.perimeter>>
           S == {-f.sheets, -f.waste, f.corner, f.minUtil, -f.void, -f.box, -f.perimeter}
<1>1. head \in Seq(S) /\ Len(head) = 2
  <2> DEFINE x == -f.sheets
             y == -f.waste
  <2>1. x \in S /\ y \in S
    OBVIOUS
  <2>2. head = <<x, y>> \/ head = <<y, x>>
    BY DEF Primary
  <2> HIDE DEF x, y, S, head
  <2>3. <<x, y>> \in Seq(S) /\ Len(<<x, y>>) = 2
    BY <2>1
  <2>4. <<y, x>> \in Seq(S) /\ Len(<<y, x>>) = 2
    BY <2>1
  <2> QED
    BY <2>2, <2>3, <2>4, Zenon
<1>2. rest \in Seq(S) /\ Len(rest) = 5
  OBVIOUS
<1>3. s = head \o rest
  BY DEF Ranking
<1>4. s \in Seq(S) /\ Len(s) = 7
  <2> HIDE DEF head, rest, S, s
  <2> QED
    <3>1. head \o rest \in Seq(S) /\ Len(head \o rest) = Len(head) + Len(rest)
      BY <1>1, <1>2, ConcatProperties, Zenon
    <3> DEFINE both == head \o rest
    <3>2. both \in Seq(S) /\ Len(both) = 2 + 5 /\ s = both
      BY <1>1, <1>2, <1>3, <3>1, Zenon
    <3> HIDE DEF both
    <3> QED
      BY <3>2
<1>5. DOMAIN s = 1..7
  <2> HIDE DEF s, S
  <2> QED
    BY <1>4, LenProperties
<1> HIDE DEF s, t
<1>6. CASE D = {}
  BY <1>6 DEF CompareCandidates, VerdictNames, s, t
<1>7. CASE D # {}
  <2>1. D \subseteq Nat /\ D \subseteq 1..7
    BY <1>5
  <2>2. Min(D) \in D
    <3> HIDE DEF D
    <3> QED
      BY <1>7, <2>1, MinOf
  <2>3. Min(D) \in 1..7
    BY <2>1, <2>2
  <2>4. DOMAIN Verdicts = 1..7
    BY DEF Verdicts
  <2>5. Verdicts[Min(D)] \in VerdictNames
    <3> HIDE DEF D
    <3> QED
      BY <2>3, <2>4 DEF VerdictNames
  <2>6. CompareCandidates(f, g, objective) = IF Beats(s, t) THEN "better" ELSE Verdicts[Min(D)]
    BY <1>7, Zenon DEF CompareCandidates, s, t
  <2>7. "better" \in VerdictNames
    BY DEF VerdictNames
  <2> HIDE DEF D
  <2> QED
    BY <2>5, <2>6, <2>7
<1> QED
  BY <1>6, <1>7

\* The plan that is ranked is the guarded one.
LEMMA RankStep ==
    ASSUME IInv, Rank
    PROVE  IInv'
<1>1. TypeOK /\ stage = "slide" /\ at[1] > Len(plan)
  BY DEF IInv, Rank
<1>2. /\ next \in DOMAIN job.batch /\ job.batch[next].valid
      /\ Guarded \in Layouts /\ Compacted(Guarded, job.batch[next].plan) /\ Cuttable(Guarded)
      /\ \/ Guarded = job.batch[next].plan
         \/ \A s \in DOMAIN Guarded : SheetAtRest(Guarded[s])
  BY <1>1, GuardedIs
<1>3. finals' = Append(finals, Guarded) /\ next' = next + 1 /\ UNCHANGED <<job, moved, passes>>
  BY DEF Rank
<1>4. /\ (job \in Jobs)' /\ Ranked' /\ Settled'
      /\ finals' \in Seq(Layouts) /\ Len(finals') = next' - 1
      /\ next' \in 1 .. Len(job'.batch) + 1
      /\ Valid \subseteq Valid' /\ next \in Valid'
  <2> DEFINE final == Guarded
  <2> HIDE DEF final
  <2>1. /\ final \in Layouts /\ Compacted(final, job.batch[next].plan) /\ Cuttable(final)
        /\ \/ final = job.batch[next].plan
           \/ \A s \in DOMAIN final : SheetAtRest(final[s])
        /\ finals' = Append(finals, final)
    BY <1>2, <1>3 DEF final
  <2> QED
    BY <1>1, <1>2, <1>3, <2>1, OneCompared
<1> DEFINE verdict == IF best = 0 THEN "better"
                      ELSE CompareCandidates(Figures(Guarded), Figures(finals[best]), job.objective)
<1>5. verdict \in VerdictNames
  <2>1. "better" \in VerdictNames
    BY DEF VerdictNames
  <2> QED
    BY <2>1, VerdictNamed
<1>6. Count(verdict) /\ best' = (IF verdict = "better" THEN next ELSE best)
  BY Zenon DEF Rank
<1> HIDE DEF verdict
<1>7. counters' \in [VerdictNames -> Nat]
  BY <1>1, <1>5, <1>6, CountTyped DEF TypeOK
<1>8. best' \in {0} \cup Valid'
  BY <1>1, <1>4, <1>6 DEF TypeOK
<1>9. plan' = <<>> /\ at' = <<1, 1>> /\ stage' = "take"
  BY DEF Rank
<1>10. TypeOK'
  <2>1. plan' \in Layouts /\ DOMAIN plan' = {}
    BY <1>9 DEF Layouts
  <2> QED
    BY <1>1, <1>3, <1>4, <1>7, <1>8, <1>9, <2>1 DEF TypeOK
<1>11. Sliding'
  BY <1>9 DEF Sliding
<1> QED
  BY <1>4, <1>10, <1>11 DEF IInv

\* What is picked is one of the ranked plans.
LEMMA PickedStep ==
    ASSUME IInv, Picked
    PROVE  IInv'
<1>1. TypeOK /\ job \in Jobs /\ Ranked
  BY DEF IInv
<1>2. UNCHANGED <<job, next, at, moved, finals, best, counters, passes>>
  BY DEF Picked
<1>3. (job \in Jobs)' /\ Ranked' /\ Settled' /\ Valid' = Valid
  BY <1>2, ComparedKept
<1>4. stage' \in {"shift", "done"}
  BY DEF Picked
<1>5. plan' \in Layouts /\ \A s \in DOMAIN plan' : OnSheet(plan'[s])
  <2>1. CASE best = 0
    BY <2>1 DEF Picked, Layouts
  <2>2. CASE best # 0
    <3>1. best \in Valid /\ plan' = finals[best]
      BY <1>1, <2>2 DEF TypeOK, Picked
    <3>2. finals[best] \in Layouts
      BY <1>1, <3>1, LenProperties, ElementOfSeq DEF TypeOK, Valid, Solutions
    <3> QED
      BY <1>1, <3>1, <3>2 DEF Ranked, Cuttable
  <2> QED
    BY <2>1, <2>2
<1>6. best # 0 => SameParts(plan', job.batch[best].plan)
  <2> SUFFICES ASSUME best # 0 PROVE SameParts(plan', job.batch[best].plan)
    OBVIOUS
  <2>1. best \in Valid /\ plan' = finals[best]
    BY <1>1 DEF TypeOK, Picked
  <2> QED
    BY <1>1, <2>1, CompactedParts DEF Ranked
<1>7. TypeOK'
  BY <1>1, <1>2, <1>3, <1>4, <1>5, <1>6 DEF TypeOK
<1>8. Sliding'
  BY <1>4 DEF Sliding
<1> QED
  BY <1>3, <1>7, <1>8 DEF IInv

\* Where sheets are constructed there is no solution to pick.
LEMMA ConstructStep ==
    ASSUME IInv, Construct
    PROVE  IInv'
<1>1. TypeOK /\ job \in Jobs
  BY DEF IInv
<1>2. UNCHANGED <<job, next, at, moved, finals, best, counters, passes>>
  BY DEF Construct
<1>3. (job \in Jobs)' /\ Ranked' /\ Settled' /\ Valid' = Valid
  BY <1>2, ComparedKept
<1>4. stage' \in {"shift", "done"}
  BY DEF Construct
<1>5. job.batch = <<>> /\ plan' \in Layouts /\ \A s \in DOMAIN plan' : OnSheet(plan'[s])
  BY <1>1, JobFacts, ConstructedFacts DEF Construct
<1>6. best = 0
  <2>1. finals \in Seq(Layouts) /\ Len(finals) = next - 1 /\ next \in 1 .. Len(job.batch) + 1
    BY <1>1 DEF TypeOK
  <2>2. Len(job.batch) = 0
    BY <1>5
  <2>3. Len(finals) = 0
    BY <2>1, <2>2
  <2>4. Valid = {}
    BY <2>1, <2>3, LenProperties DEF Valid, Solutions
  <2> QED
    BY <1>1, <2>4 DEF TypeOK
<1>7. TypeOK'
  BY <1>1, <1>2, <1>3, <1>4, <1>5, <1>6 DEF TypeOK
<1>8. Sliding'
  BY <1>4 DEF Sliding
<1> QED
  BY <1>3, <1>7, <1>8 DEF IInv

\* The move that is made is of a group of one sheet, and within its limits.
LEMMA BestMoveFits ==
    ASSUME NEW p \in Layouts, \A s \in DOMAIN p : OnSheet(p[s]), NEW sm \in BestMoves(p)
    PROVE  /\ sm[1] \in DOMAIN p
           /\ MayShift(p[sm[1]], sm[2], sm[2].by)
           /\ \A i \in sm[2].group : \A j \in DOMAIN p[sm[1]].pieces \ sm[2].group :
                 /\ Meet(p[sm[1]].pieces[i], p[sm[1]].pieces[j], Across(sm[2].axis))
                 /\ ObstacleLimit(p[sm[1]].pieces[i], p[sm[1]].pieces[j], sm[2]) >= 0
                 => sm[2].by <= ObstacleLimit(p[sm[1]].pieces[i], p[sm[1]].pieces[j], sm[2])
<1> DEFINE sheet == p[sm[1]]
           m == sm[2]
<1>1. sm[1] \in DOMAIN p
  BY BestMoveIs
<1>2. PICK k \in Moves(sheet.pieces) :
          /\ k.group # {}
          /\ m.axis = k.axis /\ m.sign = k.sign /\ m.group = k.group
          /\ m.by = ShiftLimit(sheet, k)
  BY BestMoveIs
<1>3. sheet \in SheetTypes /\ OnSheet(sheet)
  BY <1>1, SheetsOfPlan
<1> HIDE DEF sheet, m
<1>4. /\ m.by \in Nat
      /\ \A i \in k.group : m.by <= Edge(sheet, k, i)
      /\ \A i \in k.group : \A j \in DOMAIN sheet.pieces \ k.group :
            /\ Meet(sheet.pieces[i], sheet.pieces[j], Across(k.axis))
            /\ ObstacleLimit(sheet.pieces[i], sheet.pieces[j], k) >= 0
            => m.by <= ObstacleLimit(sheet.pieces[i], sheet.pieces[j], k)
  BY <1>2, <1>3, LimitIs
<1>5. \A i : Edge(sheet, k, i) = Edge(sheet, m, i)
  BY <1>2, Zenon DEF Edge
<1>6. \A q, r : ObstacleLimit(q, r, k) = ObstacleLimit(q, r, m)
  BY <1>2, Zenon DEF ObstacleLimit
<1>7. m.axis \in Axes /\ m.sign \in {-1, 1} /\ m.group \subseteq DOMAIN sheet.pieces
  BY <1>2 DEF Moves
<1>8. MayShift(sheet, m, m.by)
  BY <1>2, <1>4, <1>5, <1>7 DEF MayShift
<1>9. \A i \in m.group : \A j \in DOMAIN sheet.pieces \ m.group :
          /\ Meet(sheet.pieces[i], sheet.pieces[j], Across(m.axis))
          /\ ObstacleLimit(sheet.pieces[i], sheet.pieces[j], m) >= 0
          => m.by <= ObstacleLimit(sheet.pieces[i], sheet.pieces[j], m)
  BY <1>2, <1>4, <1>6
<1> QED
  BY <1>1, <1>8, <1>9 DEF sheet, m

\* A group shift moves pieces on their sheet, and of a plan that can be cut
\* puts none on another.
LEMMA ShiftedIs ==
    ASSUME NEW p \in Layouts, \A s \in DOMAIN p : OnSheet(p[s]), NEW sm \in BestMoves(p)
    PROVE  /\ Shifted(p, sm) \in Layouts
           /\ \A s \in DOMAIN Shifted(p, sm) : OnSheet(Shifted(p, sm)[s])
           /\ SameParts(Shifted(p, sm), p)
           /\ Cuttable(p) => Disjoint(Shifted(p, sm))
<1> DEFINE s == sm[1]
           m == sm[2]
           new == Moved(p[s].pieces, m, m.by)
           q == [p EXCEPT ![s].pieces = new]
<1>1. s \in DOMAIN p /\ MayShift(p[s], m, m.by)
  BY BestMoveFits
<1>2. p[s] \in SheetTypes /\ OnSheet(p[s])
  BY <1>1, SheetsOfPlan
<1>3. HasShifted(p[s], new, m, m.by)
  BY <1>1, <1>2, MovedIs
<1>4. Cuttable(p) => Apart(new)
  <2> SUFFICES ASSUME Cuttable(p) PROVE Apart(new)
    OBVIOUS
  <2>1. Apart(p[s].pieces) /\ Clear(p[s].pieces)
    BY <1>1, CutBySheets DEF Cuttable
  <2>2. \A i \in m.group : \A j \in DOMAIN p[s].pieces \ m.group :
           /\ Meet(p[s].pieces[i], p[s].pieces[j], Across(m.axis))
           /\ ObstacleLimit(p[s].pieces[i], p[s].pieces[j], m) >= 0
           => m.by <= ObstacleLimit(p[s].pieces[i], p[s].pieces[j], m)
    BY BestMoveFits
  <2> DEFINE d == m.by
             sheet == p[s]
  <2> HIDE DEF d, s, m, sheet
  <2>3. Apart(Moved(sheet.pieces, m, d))
    BY <1>1, <1>2, <2>1, <2>2, MovedApart DEF d, sheet
  <2> QED
    BY <2>3 DEF d, sheet
<1>5. Shifted(p, sm) = q
  BY DEF Shifted
<1> HIDE DEF s, m, new
<1>6. /\ new \in Seq(Pieces) /\ DOMAIN new = DOMAIN p[s].pieces
      /\ OnSheet([p[s] EXCEPT !.pieces = new])
      /\ \A i \in DOMAIN new : new[i].size = p[s].pieces[i].size
  BY <1>3 DEF HasShifted
<1>7. /\ q \in Layouts /\ DOMAIN q = DOMAIN p
      /\ q[s] = [p[s] EXCEPT !.pieces = new]
      /\ q[s].size = p[s].size /\ q[s].pieces = new
      /\ \A t \in DOMAIN p : t # s => q[t] = p[t]
  BY <1>1, <1>6, SheetReplaced
<1> HIDE DEF q
<1>8. \A t \in DOMAIN q : OnSheet(q[t])
  BY <1>6, <1>7
<1>9. SameParts(q, p)
  BY <1>6, <1>7 DEF SameParts
<1>10. Cuttable(p) => Disjoint(q)
  <2> SUFFICES ASSUME Cuttable(p) PROVE Disjoint(q)
    OBVIOUS
  <2>1. \A t \in DOMAIN p : Apart(p[t].pieces)
    BY CutBySheets DEF Cuttable
  <2>2. \A t \in DOMAIN q : Apart(q[t].pieces)
    BY <1>4, <1>7, <2>1
  <2> QED
    BY <1>7, <2>2, CutBySheets
<1> QED
  BY <1>5, <1>7, <1>8, <1>9, <1>10

\* A shift leaves the ranked plans alone, and its own plan on its sheets.
LEMMA ShiftStep ==
    ASSUME IInv, Shift
    PROVE  IInv'
<1>1. TypeOK /\ job \in Jobs
  BY DEF IInv
<1>2. UNCHANGED <<job, next, at, moved, finals, best, counters, stage>> /\ stage = "shift"
  BY DEF Shift
<1>3. (job \in Jobs)' /\ Ranked' /\ Settled' /\ Valid' = Valid
  BY <1>2, ComparedKept
<1>4. PICK sm \in BestMoves(plan) : plan' = Shifted(plan, sm)
  BY DEF Shift
<1>5. plan \in Layouts /\ \A s \in DOMAIN plan : OnSheet(plan[s])
  BY <1>1 DEF TypeOK
<1>6. plan' \in Layouts /\ (\A s \in DOMAIN plan' : OnSheet(plan'[s])) /\ SameParts(plan', plan)
  BY <1>4, <1>5, ShiftedIs
<1>7. best # 0 => SameParts(plan', job.batch[best].plan)
  <2> SUFFICES ASSUME best # 0 PROVE SameParts(plan', job.batch[best].plan)
    OBVIOUS
  <2> DEFINE base == job.batch[best].plan
             new == plan'
  <2>1. SameParts(plan, base) /\ SameParts(new, plan)
    BY <1>1, <1>2, <1>6 DEF TypeOK
  <2> HIDE DEF base, new
  <2>2. SameParts(new, base)
    BY <2>1 DEF SameParts
  <2> QED
    BY <2>2 DEF base, new
<1>8. passes' \in 0 .. MaxPasses
  <2>1. passes \in 0 .. MaxPasses /\ passes < MaxPasses /\ passes' = passes + 1 /\ MaxPasses \in Nat
    BY <1>1, JobsAssumption DEF TypeOK, Shift, JobsAssumption
  <2> QED
    BY <2>1
<1>9. TypeOK'
  BY <1>1, <1>2, <1>3, <1>6, <1>7, <1>8 DEF TypeOK
<1>10. Sliding'
  BY <1>2 DEF Sliding
<1> QED
  BY <1>3, <1>9, <1>10 DEF IInv

\* The answer is the plan at hand.
LEMMA AnswerStep ==
    ASSUME IInv, Answer
    PROVE  IInv'
<1>1. TypeOK
  BY DEF IInv
<1>2. /\ UNCHANGED <<job, next, plan, at, moved, finals, best, counters, passes>>
      /\ stage = "shift" /\ stage' = "done"
  BY DEF Answer
<1>3. (job \in Jobs)' /\ Ranked' /\ Settled' /\ Valid' = Valid
  BY <1>2, ComparedKept
<1>4. TypeOK' /\ Sliding'
  BY <1>1, <1>2, <1>3 DEF TypeOK, Sliding
<1> QED
  BY <1>3, <1>4 DEF IInv

\* A step that changes nothing keeps everything.
LEMMA StutterStep ==
    ASSUME IInv, UNCHANGED vars
    PROVE  IInv'
<1>1. UNCHANGED <<job, next, plan, at, moved, finals, best, counters, passes, stage>>
  BY DEF vars
<1>2. (job \in Jobs)' /\ Ranked' /\ Settled' /\ Valid' = Valid
  BY <1>1, ComparedKept
<1>3. TypeOK' /\ Sliding'
  BY <1>1, <1>2 DEF IInv, TypeOK, Sliding
<1> QED
  BY <1>2, <1>3 DEF IInv

-----------------------------------------------------------------------------
(* The figures of a plan                                                   *)

\* Products and quotients as the figures have them.
LEMMA Numbers ==
    /\ \A a, b \in Int : a * b \in Int
    /\ \A a, b \in Nat : b > 0 => (a * 10000) \div b \in Nat
    /\ \A a, b \in Nat : a > 0 /\ b > 0 => a * b \in Nat /\ a * b > 0
<1>1. \A a, b \in Int : a * b \in Int
  OBVIOUS
<1>2. ASSUME NEW a \in Nat, NEW b \in Nat, b > 0 PROVE (a * 10000) \div b \in Nat
  BY <1>2, Z3
<1>3. ASSUME NEW a \in Nat, NEW b \in Nat, a > 0, b > 0 PROVE a * b \in Nat /\ a * b > 0
  BY <1>3, Z3
<1> QED
  BY <1>1, <1>2, <1>3

\* What is used of a sheet is the sum of the areas of its pieces.
LEMMA UsedIs ==
    ASSUME NEW sheet \in SheetTypes, OnSheet(sheet)
    PROVE  Used(sheet) \in Nat /\ AreaOf(sheet.size) \in Nat /\ AreaOf(sheet.size) > 0
<1> DEFINE S == DOMAIN sheet.pieces
           g == [i \in S |-> AreaOf(sheet.pieces[i].size)]
<1>1. IsFiniteSet(S)
  BY SheetNumbers, LenProperties, FS_Interval
<1>2. ASSUME NEW i \in S PROVE AreaOf(sheet.pieces[i].size) \in Nat
  <2> DEFINE a == sheet.pieces[i].size[1]
             b == sheet.pieces[i].size[2]
  <2>1. a \in Nat /\ b \in Nat /\ a > 0 /\ b > 0
    BY SheetNumbers, PieceNumbers DEF Axes
  <2> HIDE DEF a, b
  <2>2. a * b \in Nat
    BY <2>1, Numbers
  <2> QED
    BY <2>2 DEF AreaOf, a, b
<1>3. g \in [S -> Int] /\ \A i \in S : g[i] >= 0
  BY <1>2
<1> HIDE DEF g, S
<1>4. SumFunction(g) \in Nat
  BY <1>1, <1>3, SumIs
<1>5. Used(sheet) \in Nat
  BY <1>4 DEF Used, g, S
<1>6. sheet.size[1] \in Nat /\ sheet.size[2] \in Nat /\ sheet.size[1] > 0 /\ sheet.size[2] > 0
  BY SheetNumbers
<1> DEFINE w == sheet.size[1]
           l == sheet.size[2]
<1> HIDE DEF w, l
<1>7. w * l \in Nat /\ w * l > 0
  BY <1>6, Numbers DEF w, l
<1> QED
  BY <1>5, <1>7 DEF AreaOf, w, l

\* The length of the cuts around the pieces of a sheet.
Around(sheet) == SumFunction([i \in DOMAIN sheet.pieces |->
    2 * (sheet.pieces[i].size[1] + sheet.pieces[i].size[2])])

\* It is a number.
LEMMA AroundIs ==
    ASSUME NEW sheet \in SheetTypes, OnSheet(sheet)
    PROVE  Around(sheet) \in Int
<1> DEFINE S == DOMAIN sheet.pieces
           g == [i \in S |-> 2 * (sheet.pieces[i].size[1] + sheet.pieces[i].size[2])]
<1>1. IsFiniteSet(S)
  BY SheetNumbers, LenProperties, FS_Interval
<1>2. ASSUME NEW i \in S PROVE sheet.pieces[i].size[1] \in Nat /\ sheet.pieces[i].size[2] \in Nat
  BY SheetNumbers, PieceNumbers DEF Axes
<1>3. g \in [S -> Int]
  BY <1>2
<1> HIDE DEF g, S
<1> QED
  BY <1>1, <1>3, SumIs DEF Around, g, S

\* The box around the pieces of a sheet that has some.
LEMMA BoxIs ==
    ASSUME NEW sheet \in SheetTypes, OnSheet(sheet), sheet.pieces # <<>>
    PROVE  BoxArea(sheet) \in Int
<1> DEFINE Side(a) == Max({Hi(p, a) : p \in PieceSet(sheet)}) - Min({Lo(p, a) : p \in PieceSet(sheet)})
<1>1. ASSUME NEW a \in Axes PROVE Side(a) \in Int
  <2> DEFINE H == {Hi(p, a) : p \in PieceSet(sheet)}
             L == {Lo(p, a) : p \in PieceSet(sheet)}
  <2>1. \E i \in DOMAIN sheet.pieces : TRUE
    BY SheetNumbers, EmptySeq, LenProperties
  <2>2. \A p \in PieceSet(sheet) : \E i \in DOMAIN sheet.pieces : p = sheet.pieces[i]
    BY DEF PieceSet
  <2>3. PieceSet(sheet) # {}
    BY <2>1 DEF PieceSet
  <2>4. \A p \in PieceSet(sheet) : Lo(p, a) \in Nat /\ Hi(p, a) \in Nat /\ Hi(p, a) <= sheet.size[a]
    BY <2>2, SheetNumbers
  <2>5. sheet.size[a] \in Int
    BY SheetNumbers DEF Axes
  <2> DEFINE w == sheet.size[a]
  <2>6. H \subseteq Int /\ H # {} /\ w \in Int /\ \A k \in H : k <= w
    BY <2>3, <2>4, <2>5
  <2>7. L \subseteq Nat /\ L # {}
    BY <2>3, <2>4
  <2> HIDE DEF H, L, w
  <2>8. Max(H) \in Int /\ Min(L) \in Int
    <3>1. Max(H) \in H
      BY <2>6, MaxOf
    <3>2. Min(L) \in L
      BY <2>7, MinOf
    <3>3. Max(H) \in Int
      BY <2>6, <3>1, Zenon
    <3>4. Min(L) \in Nat
      BY <2>7, <3>2, Zenon
    <3> QED
      BY <3>3, <3>4
  <2> QED
    BY <2>8 DEF H, L
<1> DEFINE x == Side(1)
           y == Side(2)
<1>2. x \in Int /\ y \in Int
  <2>1. 1 \in Axes /\ 2 \in Axes
    BY DEF Axes
  <2> HIDE DEF Side
  <2> QED
    BY <1>1, <2>1
<1>3. BoxArea(sheet) = x * y
  BY Zenon DEF BoxArea
<1> HIDE DEF x, y
<1> QED
  BY <1>2, <1>3, Numbers

\* A sum over sheets.
LEMMA OverIs ==
    ASSUME NEW p \in Layouts, NEW S \in SUBSET DOMAIN p, NEW g \in [S -> Int]
    PROVE  SumFunction(g) \in Int
<1>1. IsFiniteSet(S)
  BY SheetsOfPlan, FS_Interval, FS_Subset
<1> QED
  BY <1>1, SumIs

\* The figures are numbers.
LEMMA FiguresTyped ==
    ASSUME NEW p \in Layouts, \A s \in DOMAIN p : OnSheet(p[s])
    PROVE  /\ Figures(p).sheets \in Int /\ Figures(p).waste \in Int
           /\ Figures(p).corner \in Int /\ Figures(p).minUtil \in Int
           /\ Figures(p).void \in Int /\ Figures(p).box \in Int
           /\ Figures(p).perimeter \in Int
<1>1. ASSUME NEW s \in DOMAIN p
      PROVE  /\ p[s] \in SheetTypes /\ OnSheet(p[s])
             /\ Used(p[s]) \in Nat /\ AreaOf(p[s].size) \in Nat /\ AreaOf(p[s].size) > 0
             /\ CornerFree(p[s]) \in Int /\ Around(p[s]) \in Int
  <2>1. p[s] \in SheetTypes /\ OnSheet(p[s])
    BY SheetsOfPlan
  <2>2. CornerFree(p[s]) \in Nat
    BY <2>1, CornerIs
  <2> QED
    BY <2>1, <2>2, UsedIs, AroundIs
<1>2. ASSUME NEW s \in Filled(p) PROVE s \in DOMAIN p /\ BoxArea(p[s]) \in Int
  BY <1>1, BoxIs DEF Filled
<1>3. Figures(p).sheets \in Int
  BY SheetsOfPlan DEF Figures
<1>4. Figures(p).waste \in Int
  <2> DEFINE g == [s \in DOMAIN p |-> AreaOf(p[s].size) - Used(p[s])]
  <2>1. g \in [DOMAIN p -> Int]
    BY <1>1
  <2>2. Figures(p).waste = SumFunction(g)
    BY DEF Figures
  <2> HIDE DEF g
  <2> QED
    BY <2>1, <2>2, OverIs
<1>5. Figures(p).corner \in Int
  <2> DEFINE g == [s \in DOMAIN p |-> CornerFree(p[s])]
  <2>1. g \in [DOMAIN p -> Int]
    BY <1>1
  <2>2. Figures(p).corner = SumFunction(g)
    BY DEF Figures
  <2> HIDE DEF g
  <2> QED
    BY <2>1, <2>2, OverIs
<1>6. Figures(p).void \in Int
  <2> DEFINE g == [s \in Filled(p) |-> BoxArea(p[s]) - Used(p[s])]
  <2>1. g \in [Filled(p) -> Int]
    BY <1>1, <1>2
  <2>2. Figures(p).void = SumFunction(g)
    BY DEF Figures
  <2>3. Filled(p) \in SUBSET DOMAIN p
    BY DEF Filled
  <2> HIDE DEF g
  <2> QED
    BY <2>1, <2>2, <2>3, OverIs
<1>7. Figures(p).box \in Int
  <2> DEFINE g == [s \in Filled(p) |-> BoxArea(p[s])]
  <2>1. g \in [Filled(p) -> Int]
    BY <1>2
  <2>2. Figures(p).box = SumFunction(g)
    BY DEF Figures
  <2>3. Filled(p) \in SUBSET DOMAIN p
    BY DEF Filled
  <2> HIDE DEF g
  <2> QED
    BY <2>1, <2>2, <2>3, OverIs
<1>8. Figures(p).perimeter \in Int
  <2> DEFINE g == [s \in DOMAIN p |-> Around(p[s])]
  <2>1. g \in [DOMAIN p -> Int]
    BY <1>1
  <2>2. Figures(p).perimeter = SumFunction(g)
    BY DEF Figures, Around
  <2> HIDE DEF g
  <2> QED
    BY <2>1, <2>2, OverIs
<1>9. Figures(p).minUtil \in Int
  <2> DEFINE U == {(Used(p[s]) * 10000) \div AreaOf(p[s].size) : s \in Filled(p)}
  <2>1. U \subseteq Nat
    BY <1>1, <1>2, Numbers
  <2>2. Figures(p).minUtil = IF U = {} THEN 0 ELSE Min(U)
    BY DEF Figures
  <2> HIDE DEF U
  <2>3. U # {} => Min(U) \in Nat
    BY <2>1, MinOf, Zenon
  <2>4. \A n \in Nat : n \in Int
    OBVIOUS
  <2>5. 0 \in Int
    OBVIOUS
  <2> QED
    BY <2>2, <2>3, <2>4, <2>5, Zenon
<1> QED
  BY <1>3, <1>4, <1>5, <1>6, <1>7, <1>8, <1>9

-----------------------------------------------------------------------------
(* The order of the ranking                                                *)

\* A ranking is led by what the objective looks at.
Led(x, a) == x[1] = a[1] /\ x[2] = a[2]
RankOf(p, objective) == Ranking(Figures(p), objective)
AimOf(p, objective) == Primary(Figures(p), objective)

\* The ranking is a tuple of seven figures, of which the objective's are the
\* first two and the corner remnant is the third.
LEMMA RankingIs ==
    ASSUME NEW p \in Layouts, \A s \in DOMAIN p : OnSheet(p[s]), NEW objective
    PROVE  /\ RankOf(p, objective) \in Tuples(7) /\ AimOf(p, objective) \in Tuples(2)
           /\ Led(RankOf(p, objective), AimOf(p, objective))
           /\ RankOf(p, objective)[3] = Figures(p).corner
<1> DEFINE f == Figures(p)
           x == -f.sheets
           y == -f.waste
           head == Primary(f, objective)
           v == -f.void
           b == -f.box
           l == -f.perimeter
           rest == <<f.corner, f.minUtil, v, b, l>>
<1>1. x \in Int /\ y \in Int /\ f.corner \in Int /\ f.minUtil \in Int /\ v \in Int /\ b \in Int /\ l \in Int
  BY FiguresTyped
<1>2. head = <<x, y>> \/ head = <<y, x>>
  BY DEF Primary
<1>3. RankOf(p, objective) = head \o rest /\ AimOf(p, objective) = head
  BY DEF RankOf, AimOf, Ranking
<1> HIDE DEF f, x, y, v, b, l, head
<1>4. <<x, y>> \in Seq(Int) /\ Len(<<x, y>>) = 2 /\ <<y, x>> \in Seq(Int) /\ Len(<<y, x>>) = 2
  BY <1>1
<1>5. head \in Seq(Int) /\ Len(head) = 2
  BY <1>2, <1>4, Zenon
<1>6. rest \in Seq(Int) /\ Len(rest) = 5 /\ rest[1] = f.corner
  BY <1>1
<1> HIDE DEF rest
<1> DEFINE both == head \o rest
<1>7. both \in Seq(Int) /\ Len(both) = Len(head) + Len(rest)
      /\ \A i \in 1 .. Len(head) + Len(rest) : both[i] = IF i <= Len(head) THEN head[i] ELSE rest[i - Len(head)]
  BY <1>5, <1>6, ConcatProperties, Zenon
<1> HIDE DEF both
<1>8. Len(both) = 7 /\ \A i \in 1 .. 7 : both[i] = IF i <= 2 THEN head[i] ELSE rest[i - 2]
  BY <1>5, <1>6, <1>7
<1>9. both[1] = head[1] /\ both[2] = head[2] /\ both[3] = rest[1]
  <2>1. 1 \in 1 .. 7 /\ 2 \in 1 .. 7 /\ 3 \in 1 .. 7 /\ 3 - 2 = 1
    OBVIOUS
  <2> QED
    BY <1>8, <2>1
<1>10. both \in Tuples(7) /\ head \in Tuples(2)
  BY <1>5, <1>7, <1>8, LenProperties, ElementOfSeq DEF Tuples
<1> QED
  BY <1>3, <1>6, <1>9, <1>10 DEF Led, both, f

\* A plan that is better on the objective is better, and one that is better is
\* no worse on the objective, and at equal aims has no smaller a corner.
LEMMA Leading ==
    ASSUME NEW x \in Tuples(7), NEW y \in Tuples(7), NEW a \in Tuples(2), NEW b \in Tuples(2),
           Led(x, a), Led(y, b)
    PROVE  /\ Beats(a, b) => Beats(x, y)
           /\ Beats(x, y) => Beats(a, b) \/ a = b
           /\ a = b /\ x[3] > y[3] => Beats(x, y)
<1>1. DOMAIN x = 1 .. 7 /\ DOMAIN y = 1 .. 7 /\ DOMAIN a = 1 .. 2 /\ DOMAIN b = 1 .. 2
  BY DEF Tuples
<1>2. \A d \in 1 .. 2 : d \in 1 .. 7 /\ x[d] = a[d] /\ y[d] = b[d]
  BY DEF Led
<1>3. ASSUME Beats(a, b) PROVE Beats(x, y)
  <2>1. PICK d \in 1 .. 2 : a[d] > b[d] /\ \A e \in 1 .. d - 1 : a[e] = b[e]
    BY <1>1, <1>3 DEF Beats
  <2>2. \A e \in 1 .. d - 1 : e \in 1 .. 2
    OBVIOUS
  <2> QED
    BY <1>1, <1>2, <2>1, <2>2 DEF Beats
<1>4. ASSUME Beats(x, y) PROVE Beats(a, b) \/ a = b
  <2>1. PICK d \in 1 .. 7 : x[d] > y[d] /\ \A e \in 1 .. d - 1 : x[e] = y[e]
    BY <1>1, <1>4 DEF Beats
  <2>2. CASE d \in 1 .. 2
    <3>1. \A e \in 1 .. d - 1 : e \in 1 .. 2
      BY <2>2
    <3> QED
      BY <1>1, <1>2, <2>1, <2>2, <3>1 DEF Beats
  <2>3. CASE d \notin 1 .. 2
    <3>1. \A e \in 1 .. 2 : e \in 1 .. d - 1
      BY <2>1, <2>3
    <3>2. \A e \in 1 .. 2 : a[e] = b[e]
      BY <1>2, <2>1, <3>1
    <3> QED
      BY <3>2 DEF Tuples
  <2> QED
    BY <2>2, <2>3
<1>5. ASSUME a = b, x[3] > y[3] PROVE Beats(x, y)
  <2>1. 3 \in 1 .. 7 /\ \A e \in 1 .. 3 - 1 : e \in 1 .. 2
    OBVIOUS
  <2> QED
    BY <1>1, <1>2, <1>5, <2>1 DEF Beats
<1> QED
  BY <1>3, <1>4, <1>5

\* What the verdict says of the two plans.
LEMMA VerdictIs ==
    ASSUME NEW p \in Layouts, \A s \in DOMAIN p : OnSheet(p[s]),
           NEW q \in Layouts, \A s \in DOMAIN q : OnSheet(q[s]), NEW objective
    PROVE  LET v == CompareCandidates(Figures(p), Figures(q), objective)
           IN  /\ v = "better" <=> Beats(RankOf(p, objective), RankOf(q, objective))
               /\ v = "primary_objective" => Beats(AimOf(q, objective), AimOf(p, objective))
<1> DEFINE x == RankOf(p, objective)
           y == RankOf(q, objective)
           a == AimOf(p, objective)
           b == AimOf(q, objective)
           D == {d \in DOMAIN x : x[d] # y[d]}
           v == CompareCandidates(Figures(p), Figures(q), objective)
<1>1. x \in Tuples(7) /\ y \in Tuples(7) /\ a \in Tuples(2) /\ b \in Tuples(2) /\ Led(x, a) /\ Led(y, b)
  BY RankingIs
<1>2. v = IF D = {} THEN "equal" ELSE IF Beats(x, y) THEN "better" ELSE Verdicts[Min(D)]
  BY Zenon DEF CompareCandidates, RankOf
<1> HIDE DEF x, y, a, b, v
<1>3. DOMAIN x = 1 .. 7 /\ DOMAIN y = 1 .. 7
  BY <1>1 DEF Tuples
<1>4. CASE D = {}
  <2>1. x = y
    BY <1>1, <1>3, <1>4 DEF Tuples
  <2>2. ~Beats(x, y)
    BY <1>1, <2>1, NoneBeatsItself
  <2> QED
    BY <1>2, <1>4, <2>2 DEF v, x, y
<1>5. CASE D # {} /\ Beats(x, y)
  BY <1>2, <1>5 DEF v, x, y
<1>6. CASE D # {} /\ ~Beats(x, y)
  <2> DEFINE m == Min(D)
  <2>1. m \in D /\ \A k \in D : m <= k
    <3>1. D \subseteq Nat
      BY <1>3
    <3> HIDE DEF D
    <3> QED
      BY <1>6, <3>1, MinOf
  <2>2. m \in 1 .. 7 /\ x[m] # y[m] /\ \A e \in 1 .. m - 1 : x[e] = y[e]
    <3> HIDE DEF m
    <3>1. m \in 1 .. 7 /\ x[m] # y[m]
      BY <1>3, <2>1
    <3>2. \A e \in 1 .. m - 1 : e \in 1 .. 7 /\ ~(m <= e)
      BY <3>1
    <3> QED
      BY <1>3, <2>1, <3>1, <3>2
  <2>3. v = Verdicts[m]
    BY <1>2, <1>6
  <2> HIDE DEF m, D
  <2>4. Verdicts[m] # "better"
    BY <2>2 DEF Verdicts
  <2>5. ASSUME Verdicts[m] = "primary_objective" PROVE Beats(b, a)
    <3>1. m \in 1 .. 2
      BY <2>2, <2>5 DEF Verdicts
    <3>2. y[m] > x[m]
      <4>1. x[m] \in Int /\ y[m] \in Int
        BY <1>1, <2>2 DEF Tuples
      <4>2. ~(x[m] > y[m])
        BY <1>3, <1>6, <2>2 DEF Beats
      <4> QED
        BY <2>2, <4>1, <4>2
    <3>3. DOMAIN b = 1 .. 2 /\ \A e \in 1 .. 2 : x[e] = a[e] /\ y[e] = b[e]
      BY <1>1 DEF Tuples, Led
    <3>4. \A e \in 1 .. m - 1 : e \in 1 .. 2
      BY <3>1
    <3> QED
      BY <2>2, <3>1, <3>2, <3>3, <3>4 DEF Beats
  <2> QED
    BY <1>6, <2>3, <2>4, <2>5 DEF v, x, y, a, b
<1> QED
  BY <1>4, <1>5, <1>6

-----------------------------------------------------------------------------
(* The pick                                                                *)

\* The first of the largest.
IsPick(V, r, b) ==
    b \in V /\ \A k \in V : ~Beats(r[k], r[b]) /\ (r[k] = r[b] => b <= k)

\* Those that do worse on the objective.
Losing(V, a, b) == {k \in V : Beats(a[b], a[k])}

\* One more is compared: it is the pick if it beats the pick there was, which
\* remains the pick otherwise; who lost before loses to a new pick too.
LEMMA PickKept ==
    ASSUME NEW V, V \subseteq Nat, NEW n \in Nat, \A k \in V : k < n,
           NEW r \in [V \cup {n} -> Tuples(7)], NEW a \in [V \cup {n} -> Tuples(2)],
           \A k \in V \cup {n} : Led(r[k], a[k]),
           NEW b, IsPick(V, r, b)
    PROVE  /\ Beats(r[n], r[b]) => /\ IsPick(V \cup {n}, r, n)
                                   /\ Losing(V, a, b) \subseteq Losing(V \cup {n}, a, n)
           /\ ~Beats(r[n], r[b]) => IsPick(V \cup {n}, r, b)
<1>1. b \in V /\ b < n /\ \A k \in V : ~Beats(r[k], r[b]) /\ (r[k] = r[b] => b <= k)
  BY DEF IsPick
<1>2. \A k \in V \cup {n} : r[k] \in Tuples(7) /\ a[k] \in Tuples(2)
  OBVIOUS
<1>3. ASSUME Beats(r[n], r[b])
      PROVE  IsPick(V \cup {n}, r, n) /\ Losing(V, a, b) \subseteq Losing(V \cup {n}, a, n)
  <2>1. ASSUME NEW k \in V PROVE ~Beats(r[k], r[n]) /\ r[k] # r[n]
    <3>1. ~Beats(r[k], r[b])
      BY <1>1
    <3>2. Beats(r[k], r[n]) => Beats(r[k], r[b])
      BY <1>1, <1>2, <1>3, BeatsOn
    <3> QED
      BY <1>3, <3>1, <3>2
  <2>2. ~Beats(r[n], r[n])
    BY <1>2, NoneBeatsItself
  <2>3. IsPick(V \cup {n}, r, n)
    BY <2>1, <2>2 DEF IsPick
  <2>4. Beats(a[n], a[b]) \/ a[n] = a[b]
    BY <1>1, <1>2, <1>3, Leading
  <2>5. ASSUME NEW k \in V, Beats(a[b], a[k]) PROVE Beats(a[n], a[k])
    <3>1. Beats(a[n], a[b]) => Beats(a[n], a[k])
      BY <1>1, <1>2, <2>5, BeatsOn
    <3> QED
      BY <2>4, <2>5, <3>1
  <2> QED
    BY <2>3, <2>5 DEF Losing
<1>4. ASSUME ~Beats(r[n], r[b]) PROVE IsPick(V \cup {n}, r, b)
  BY <1>1, <1>4 DEF IsPick
<1> QED
  BY <1>3, <1>4

\* How the plans compared so far rank, and what the pick and the counter of
\* the rejections say of that.
Ranks == [k \in Valid |-> RankOf(finals[k], job.objective)]
Aims == [k \in Valid |-> AimOf(finals[k], job.objective)]

Chosen ==
    /\ IF Valid = {} THEN best = 0 ELSE IsPick(Valid, Ranks, best)
    /\ counters["primary_objective"] <= Cardinality(Losing(Valid, Aims, best))

\* The plans that are compared are known, and so is how they rank.
LEMMA ComparedFacts ==
    ASSUME IInv
    PROVE  /\ Valid \subseteq 1 .. (next - 1) /\ next \in Nat /\ IsFiniteSet(Valid)
           /\ Valid \subseteq DOMAIN finals /\ DOMAIN finals = 1 .. (next - 1)
           /\ \A k \in Valid : finals[k] \in Layouts /\ \A s \in DOMAIN finals[k] : OnSheet(finals[k][s])
           /\ Ranks \in [Valid -> Tuples(7)] /\ Aims \in [Valid -> Tuples(2)]
           /\ \A k \in Valid : Led(Ranks[k], Aims[k])
<1>1. finals \in Seq(Layouts) /\ Len(finals) = next - 1 /\ next \in 1 .. Len(job.batch) + 1 /\ job \in Jobs
  BY DEF IInv, TypeOK
<1>2. next \in Nat /\ DOMAIN finals = 1 .. (next - 1)
  BY <1>1, JobFacts, LenProperties
<1>3. Valid \subseteq DOMAIN finals
  BY DEF Valid, Solutions
<1>4. IsFiniteSet(Valid)
  <2>1. IsFiniteSet(1 .. (next - 1))
    BY <1>2, FS_Interval
  <2> QED
    BY <1>2, <1>3, <2>1, FS_Subset
<1>5. \A k \in Valid : finals[k] \in Layouts /\ \A s \in DOMAIN finals[k] : OnSheet(finals[k][s])
  BY <1>1, <1>3, ElementOfSeq, LenProperties DEF IInv, Ranked, Cuttable
<1>6. ASSUME NEW k \in Valid
      PROVE  /\ RankOf(finals[k], job.objective) \in Tuples(7) /\ AimOf(finals[k], job.objective) \in Tuples(2)
             /\ Led(RankOf(finals[k], job.objective), AimOf(finals[k], job.objective))
  BY <1>5, RankingIs
<1> QED
  BY <1>2, <1>3, <1>4, <1>5, <1>6 DEF Ranks, Aims

\* Ranking one more plan keeps the pick.
LEMMA RankChooses ==
    ASSUME IInv, Chosen, Rank
    PROVE  Chosen'
<1> DEFINE o == job.objective
           V == Valid
           n == next
           W == V \cup {n}
           r == [k \in W |-> RankOf(finals'[k], o)]
           a == [k \in W |-> AimOf(finals'[k], o)]
           c == counters["primary_objective"]
           verdict == IF best = 0 THEN "better"
                      ELSE CompareCandidates(Figures(Guarded), Figures(finals[best]), o)
<1>1. TypeOK /\ stage = "slide" /\ at[1] > Len(plan)
  BY DEF IInv, Rank
<1>2. /\ next \in DOMAIN job.batch /\ job.batch[next].valid
      /\ Guarded \in Layouts /\ \A s \in DOMAIN Guarded : OnSheet(Guarded[s])
  BY <1>1, GuardedIs DEF Cuttable
<1>3. /\ finals' = Append(finals, Guarded) /\ UNCHANGED job
      /\ best' = (IF verdict = "better" THEN n ELSE best) /\ Count(verdict)
  BY Zenon DEF Rank
<1>4. /\ V \subseteq 1 .. (n - 1) /\ n \in Nat /\ IsFiniteSet(V)
      /\ V \subseteq DOMAIN finals /\ DOMAIN finals = 1 .. (n - 1)
      /\ \A k \in V : finals[k] \in Layouts /\ \A s \in DOMAIN finals[k] : OnSheet(finals[k][s])
      /\ Ranks \in [V -> Tuples(7)] /\ Aims \in [V -> Tuples(2)]
      /\ \A k \in V : Led(Ranks[k], Aims[k])
  BY ComparedFacts
<1>5. /\ DOMAIN finals' = 1 .. n /\ finals'[n] = Guarded
      /\ \A k \in DOMAIN finals : finals'[k] = finals[k]
  <2>1. finals \in Seq(Layouts) /\ Len(finals) = n - 1
    BY <1>1 DEF TypeOK
  <2> QED
    BY <1>2, <1>3, <1>4, <2>1, AppendProperties, LenProperties
<1>6. Valid' = W
  <2>1. \A k : k \in DOMAIN finals' <=> k \in DOMAIN finals \/ k = n
    <3>1. n >= 1
      BY <1>1, JobFacts DEF TypeOK, IInv
    <3> QED
      BY <1>4, <1>5, <3>1
  <2>2. \A k : k \in Valid' <=> k \in DOMAIN finals' /\ job.batch[k].valid
    BY <1>3 DEF Valid, Solutions
  <2>3. \A k : k \in V <=> k \in DOMAIN finals /\ job.batch[k].valid
    BY DEF Valid, Solutions
  <2> HIDE DEF V
  <2> QED
    BY <1>2, <2>1, <2>2, <2>3
<1>7. Ranks' = r /\ Aims' = a
  BY <1>3, <1>6 DEF Ranks, Aims
<1>8. \A k \in V : r[k] = Ranks[k] /\ a[k] = Aims[k]
  BY <1>4, <1>5 DEF Ranks, Aims
<1>9. /\ r[n] = RankOf(Guarded, o) /\ a[n] = AimOf(Guarded, o)
      /\ r[n] \in Tuples(7) /\ a[n] \in Tuples(2) /\ Led(r[n], a[n])
  BY <1>2, <1>5, RankingIs
<1>10. r \in [W -> Tuples(7)] /\ a \in [W -> Tuples(2)] /\ \A k \in W : Led(r[k], a[k])
  <2>1. DOMAIN r = W /\ DOMAIN a = W /\ r = [k \in W |-> r[k]] /\ a = [k \in W |-> a[k]]
    OBVIOUS
  <2>2. ASSUME NEW k \in W PROVE r[k] \in Tuples(7) /\ a[k] \in Tuples(2) /\ Led(r[k], a[k])
    <3> HIDE DEF r, a, V
    <3>1. CASE k = n
      BY <1>9, <3>1
    <3>2. CASE k # n
      BY <1>4, <1>8, <3>2
    <3> QED
      BY <3>1, <3>2
  <2> HIDE DEF r, a
  <2> QED
    BY <2>1, <2>2
<1>11. counters \in [VerdictNames -> Nat] /\ "primary_objective" \in VerdictNames /\ c \in Nat
  <2>1. "primary_objective" \in VerdictNames
    BY DEF VerdictNames, Verdicts
  <2> QED
    BY <1>1, <2>1 DEF TypeOK
<1>12. counters'["primary_objective"] = IF verdict = "primary_objective" THEN c + 1 ELSE c
  <2> HIDE DEF verdict
  <2> QED
    BY <1>3, <1>11 DEF Count
<1>13. ASSUME best # 0
       PROVE  /\ best \in V /\ finals[best] \in Layouts /\ V # {}
              /\ verdict = "better" <=> Beats(r[n], r[best])
              /\ verdict = "primary_objective" => Beats(a[best], a[n])
  <2>1. best \in V
    BY <1>1, <1>13 DEF TypeOK
  <2>2. finals[best] \in Layouts /\ \A s \in DOMAIN finals[best] : OnSheet(finals[best][s])
    BY <1>4, <2>1
  <2> DEFINE q == finals[best]
             p == Guarded
             w == CompareCandidates(Figures(p), Figures(q), o)
  <2>3. /\ w = "better" <=> Beats(RankOf(p, o), RankOf(q, o))
        /\ w = "primary_objective" => Beats(AimOf(q, o), AimOf(p, o))
    <3> HIDE DEF p, q, o
    <3>1. p \in Layouts /\ q \in Layouts /\ (\A s \in DOMAIN p : OnSheet(p[s])) /\ (\A s \in DOMAIN q : OnSheet(q[s]))
      BY <1>2, <2>2 DEF p, q
    <3> QED
      BY <3>1, VerdictIs
  <2>4. verdict = w
    BY <1>13
  <2>5. r[best] = RankOf(q, o) /\ a[best] = AimOf(q, o)
    BY <1>8, <2>1 DEF Ranks, Aims
  <2> HIDE DEF r, a, w, verdict, V
  <2> QED
    BY <1>9, <2>1, <2>2, <2>3, <2>4, <2>5
<1>14. Losing(V, Aims, best) = IF best = 0 THEN {} ELSE Losing(V, a, best)
  <2>1. CASE best = 0
    <3>1. V = {}
      <4>1. V # {} => best \in V
        BY DEF Chosen, IsPick
      <4> QED
        BY <1>4, <2>1, <4>1
    <3> QED
      BY <2>1, <3>1 DEF Losing
  <2>2. CASE best # 0
    <3>1. best \in V
      BY <1>13, <2>2
    <3> HIDE DEF a, V
    <3> QED
      BY <1>8, <2>2, <3>1 DEF Losing
  <2> QED
    BY <2>1, <2>2
<1>15. c <= Cardinality(Losing(V, Aims, best))
  BY DEF Chosen
<1>16. \A b : IsFiniteSet(Losing(W, a, b)) /\ Cardinality(Losing(W, a, b)) \in Nat
  <2>1. IsFiniteSet(W)
    BY <1>4, FS_AddElement
  <2>2. \A b : Losing(W, a, b) \subseteq W
    BY DEF Losing
  <2> HIDE DEF W, a
  <2> QED
    BY <2>1, <2>2, FS_Subset, FS_CardinalityType
<1>17. W # {}
  OBVIOUS
<1> SUFFICES /\ IsPick(W, r, best')
             /\ counters'["primary_objective"] <= Cardinality(Losing(W, a, best'))
  <2> HIDE DEF W, r, a
  <2> QED
    BY <1>6, <1>7, <1>17 DEF Chosen
<1> HIDE DEF r, a, verdict, o, V, n
<1>18. CASE best = 0
  <2>1. V = {} /\ c <= 0
    <3>1. V # {} => best \in V
      BY DEF Chosen, IsPick, V
    <3>2. V = {}
      BY <1>4, <1>18, <3>1
    <3>3. Losing(V, Aims, best) = {}
      BY <1>14, <1>18
    <3> QED
      BY <1>15, <3>2, <3>3, FS_EmptySet
  <2>2. verdict = "better" /\ best' = n
    BY <1>3, <1>18 DEF verdict
  <2>3. counters'["primary_objective"] = c
    BY <1>12, <2>2
  <2>4. ~Beats(r[n], r[n])
    BY <1>9, NoneBeatsItself
  <2>5. IsPick(W, r, n)
    BY <1>4, <2>1, <2>4 DEF IsPick
  <2> QED
    BY <1>11, <1>16, <2>1, <2>2, <2>3, <2>5
<1>19. CASE best # 0
  <2>1. best \in V /\ V # {} /\ (verdict = "better" <=> Beats(r[n], r[best]))
        /\ (verdict = "primary_objective" => Beats(a[best], a[n]))
    BY <1>13, <1>19
  <2>2. IsPick(V, r, best)
    <3>1. IsPick(V, Ranks, best)
      BY <2>1 DEF Chosen, V
    <3> QED
      BY <1>8, <2>1, <3>1 DEF IsPick
  <2>3. V \subseteq Nat /\ \A k \in V : k < n
    BY <1>4
  <2>4. /\ Beats(r[n], r[best]) => IsPick(W, r, n) /\ Losing(V, a, best) \subseteq Losing(W, a, n)
        /\ ~Beats(r[n], r[best]) => IsPick(W, r, best)
    BY <1>4, <1>10, <2>2, <2>3, PickKept
  <2>5. c <= Cardinality(Losing(V, a, best))
    BY <1>14, <1>15, <1>19
  <2>6. Losing(V, a, best) \subseteq Losing(W, a, best)
    BY DEF Losing
  <2>7. CASE verdict = "better"
    <3>1. best' = n /\ counters'["primary_objective"] = c
      BY <1>3, <1>12, <2>7
    <3>2. Losing(V, a, best) \subseteq Losing(W, a, n)
      BY <2>1, <2>4, <2>7
    <3>3. Cardinality(Losing(V, a, best)) <= Cardinality(Losing(W, a, n))
          /\ Cardinality(Losing(V, a, best)) \in Nat
      BY <1>16, <3>2, FS_Subset, FS_CardinalityType
    <3> QED
      BY <1>11, <1>16, <2>1, <2>4, <2>5, <2>7, <3>1, <3>3
  <2>8. CASE verdict # "better"
    <3>1. best' = best /\ IsPick(W, r, best)
      BY <1>3, <2>1, <2>4, <2>8
    <3>2. Cardinality(Losing(V, a, best)) <= Cardinality(Losing(W, a, best))
          /\ Cardinality(Losing(V, a, best)) \in Nat /\ IsFiniteSet(Losing(V, a, best))
      BY <1>16, <2>6, FS_Subset, FS_CardinalityType
    <3>3. CASE verdict # "primary_objective"
      <4>1. counters'["primary_objective"] = c
        BY <1>12, <3>3
      <4>2. c <= Cardinality(Losing(W, a, best))
        BY <1>11, <1>16, <2>5, <3>2
      <4> QED
        BY <3>1, <4>1, <4>2
    <3>4. CASE verdict = "primary_objective"
      <4> DEFINE L == Losing(V, a, best)
      <4>1. n \notin L /\ L \cup {n} \subseteq Losing(W, a, best)
        <5>1. n \notin V /\ n \in W /\ Beats(a[best], a[n])
          BY <2>1, <2>3, <1>4, <3>4
        <5> QED
          BY <2>6, <5>1 DEF Losing
      <4> HIDE DEF L
      <4>2. Cardinality(L \cup {n}) = Cardinality(L) + 1
        BY <3>2, <4>1, FS_AddElement DEF L
      <4>3. Cardinality(L \cup {n}) <= Cardinality(Losing(W, a, best))
        BY <1>16, <4>1, FS_Subset
      <4>4. counters'["primary_objective"] = c + 1
        BY <1>12, <3>4
      <4>5. c + 1 <= Cardinality(Losing(W, a, best))
        BY <1>11, <1>16, <2>5, <3>2, <4>2, <4>3 DEF L
      <4> QED
        BY <3>1, <4>4, <4>5
    <3> QED
      BY <3>3, <3>4
  <2> QED
    BY <2>7, <2>8
<1> QED
  BY <1>18, <1>19

\* A refused plan does not take part.
LEMMA RefuseChooses ==
    ASSUME IInv, Chosen, Refuse
    PROVE  Chosen'
<1>1. TypeOK /\ job \in Jobs
  BY DEF IInv
<1>2. /\ finals' = Append(finals, <<>>) /\ UNCHANGED <<job, best>> /\ ~job.batch[next].valid
      /\ Count("invalid")
  BY DEF Refuse
<1>3. DOMAIN finals = 1 .. (next - 1) /\ next \in Nat /\ Valid \subseteq DOMAIN finals
  BY ComparedFacts
<1>4. DOMAIN finals' = 1 .. next /\ \A k \in DOMAIN finals : finals'[k] = finals[k]
  <2>1. finals \in Seq(Layouts) /\ Len(finals) = next - 1 /\ <<>> \in Layouts
    BY <1>1 DEF TypeOK, Layouts
  <2> QED
    BY <1>2, <1>3, <2>1, AppendProperties, LenProperties
<1>5. Valid' = Valid
  BY <1>2, <1>3, <1>4 DEF Valid, Solutions
<1>6. Ranks' = Ranks /\ Aims' = Aims
  BY <1>2, <1>3, <1>4, <1>5 DEF Ranks, Aims
<1>7. counters'["primary_objective"] = counters["primary_objective"]
  BY <1>1, <1>2 DEF TypeOK, Count
<1> QED
  BY <1>2, <1>5, <1>6, <1>7 DEF Chosen

\* And no other step compares plans.
LEMMA OthersChoose ==
    ASSUME Chosen, UNCHANGED <<job, finals, best, counters>>
    PROVE  Chosen'
<1>1. Valid' = Valid
  BY DEF Valid, Solutions
<1>2. Ranks' = Ranks /\ Aims' = Aims
  BY <1>1 DEF Ranks, Aims
<1> QED
  BY <1>1, <1>2 DEF Chosen

\* Before any plan is compared there is no pick.
LEMMA NoneChosen == Init => Chosen
<1> SUFFICES ASSUME Init PROVE Chosen
  OBVIOUS
<1>1. Valid = {}
  BY DEF Init, Valid, Solutions
<1>2. Losing(Valid, Aims, best) = {}
  BY <1>1 DEF Losing
<1>3. counters["primary_objective"] = 0
  <2>1. "primary_objective" \in VerdictNames
    BY DEF VerdictNames, Verdicts
  <2> QED
    BY <2>1 DEF Init
<1>4. best = 0
  BY DEF Init
<1> QED
  BY <1>1, <1>2, <1>3, <1>4, FS_EmptySet DEF Chosen

-----------------------------------------------------------------------------
(* Constructed plans in the pipeline                                       *)

\* The plan of a request for constructed sheets is right from the time it is
\* there, and can be cut until groups are shifted.
Constructing ==
    job.parts # <<>> /\ plan # <<>> =>
        PlanRight(job.parts, job.whole, plan) /\ (passes = 0 => CutSheets(plan))

\* In a plan that has each part once they are one piece.
LEMMA OnceIs ==
    ASSUME NEW p, OnceInPlan(p), NEW k \in 1 .. Len(p), NEW l \in 1 .. Len(p),
           NEW i \in 1 .. Len(p[k].pieces), NEW j \in 1 .. Len(p[l].pieces), SameId(p, k, i, l, j)
    PROVE  k = l /\ i = j
BY DEF OnceInPlan, SameId

\* A group shift changes where pieces are and nothing else.
LEMMA ShiftedRight ==
    ASSUME NEW parts, NEW whole, NEW p, PlanRight(parts, whole, p),
           \A s \in DOMAIN p : OnSheet(p[s]), NEW sm \in BestMoves(p)
    PROVE  PlanRight(parts, whole, Shifted(p, sm))
<1> DEFINE s == sm[1]
           m == sm[2]
           old == p[s].pieces
           new == Moved(old, m, m.by)
           q == [p EXCEPT ![s].pieces = new]
<1>1. /\ p \in Seq(NumberedSheets) /\ p \in Layouts /\ DOMAIN p = 1 .. Len(p)
      /\ OnceInPlan(p) /\ \A k \in 1 .. Len(p) : Alike(parts, p[k].pieces)
      /\ whole => \A id \in 1 .. Len(parts) : Present(p, id)
      /\ \A k \in 1 .. Len(p) : p[k] \in NumberedSheets /\ p[k].pieces \in Seq(Numbered)
  BY NumberedPlan DEF PlanRight, PartsRight
<1>2. s \in 1 .. Len(p) /\ MayShift(p[s], m, m.by)
  BY <1>1, BestMoveFits
<1>3. p[s] \in SheetTypes /\ OnSheet(p[s])
  BY <1>1, <1>2, SheetsOfPlan
<1>4. HasShifted(p[s], new, m, m.by)
  BY <1>2, <1>3, MovedIs
<1>5. old \in Seq(Numbered) /\ DOMAIN old = 1 .. Len(old) /\ \A i \in 1 .. Len(old) : old[i] \in Numbered
  BY <1>1, <1>2, NumberedPieces
<1>6. /\ new \in Seq(Pieces) /\ DOMAIN new = DOMAIN old
      /\ \A i \in DOMAIN new : new[i].size = old[i].size
  BY <1>4 DEF HasShifted
<1>7. Len(new) = Len(old) /\ \A i \in 1 .. Len(new) : new[i] \in Pieces
  BY <1>5, <1>6, LenProperties, ElementOfSeq
<1>8. \A i \in 1 .. Len(old) : new[i].id = old[i].id /\ new[i] \in Numbered
  <2> SUFFICES ASSUME NEW i \in 1 .. Len(old) PROVE new[i].id = old[i].id /\ new[i] \in Numbered
    OBVIOUS
  <2> DEFINE o == old[i]
             d == m.sign * m.by
  <2>1. o \in Numbered /\ new[i] \in Pieces
    BY <1>5, <1>7
  <2>2. new[i] = IF i \in m.group THEN [o EXCEPT !.at[m.axis] = @ + d] ELSE o
    BY <1>5 DEF Moved
  <2> HIDE DEF new, o, d, old, m
  <2>3. CASE i \in m.group
    <3> DEFINE to == [o.at EXCEPT ![m.axis] = @ + d]
    <3>1. new[i] = [o EXCEPT !.at = to]
      BY <2>2, <2>3
    <3> HIDE DEF to
    <3>2. new[i].at = to /\ new[i].at \in [Axes -> Nat]
      BY <2>1, <3>1 DEF Numbered, Pieces
    <3> QED
      BY <2>1, <3>1, <3>2 DEF Numbered, o
  <2>4. CASE i \notin m.group
    BY <2>1, <2>2, <2>4 DEF o
  <2> QED
    BY <2>3, <2>4
<1> HIDE DEF s, m
<1>9. Shifted(p, sm) = q
  BY DEF Shifted, s, m
<1> HIDE DEF new, old
<1>10. new \in Seq(Numbered)
  <2>1. new = [i \in 1 .. Len(old) |-> new[i]]
    BY <1>5, <1>6, <1>7, LenProperties
  <2>2. new \in [1 .. Len(old) -> Numbered] /\ Len(old) \in Nat
    BY <1>5, <1>8, <2>1, LenProperties
  <2> QED
    BY <2>2, FunctionSeq
<1> DEFINE e == [p[s] EXCEPT !.pieces = new]
<1>11. e \in NumberedSheets /\ e.pieces = new
  BY <1>1, <1>2, <1>10 DEF NumberedSheets
<1>12. q = [p EXCEPT ![s] = e]
  OBVIOUS
<1> HIDE DEF e, q
<1>13. /\ q \in Seq(NumberedSheets) /\ Len(q) = Len(p)
       /\ \A k \in 1 .. Len(p) : q[k] = IF k = s THEN e ELSE p[k]
  BY <1>1, <1>2, <1>11, <1>12, Changed
<1>14. ASSUME NEW k \in 1 .. Len(p)
       PROVE  /\ Len(q[k].pieces) = Len(p[k].pieces)
              /\ \A i \in 1 .. Len(p[k].pieces) :
                    q[k].pieces[i].id = p[k].pieces[i].id /\ q[k].pieces[i].size = p[k].pieces[i].size
  <2>1. CASE k = s
    BY <1>5, <1>6, <1>7, <1>8, <1>11, <1>13, <2>1 DEF old
  <2>2. CASE k # s
    BY <1>13, <2>2
  <2> QED
    BY <2>1, <2>2
<1>15. \A k \in 1 .. Len(p) : Alike(parts, q[k].pieces)
  BY <1>1, <1>14, Zenon DEF Alike
<1>16. OnceInPlan(q)
  <2> SUFFICES ASSUME NEW k \in 1 .. Len(p), NEW l \in 1 .. Len(p),
                      NEW i \in 1 .. Len(q[k].pieces), NEW j \in 1 .. Len(q[l].pieces),
                      q[k].pieces[i].id = q[l].pieces[j].id
               PROVE  k = l /\ i = j
    BY <1>13 DEF OnceInPlan
  <2>1. i \in 1 .. Len(p[k].pieces) /\ j \in 1 .. Len(p[l].pieces)
    BY <1>14
  <2>2. p[k].pieces[i].id = p[l].pieces[j].id
    BY <1>14, <2>1
  <2>3. SameId(p, k, i, l, j)
    BY <2>2 DEF SameId
  <2> QED
    BY <1>1, <2>1, <2>3, OnceIs
<1>17. ASSUME whole, NEW id \in 1 .. Len(parts) PROVE Present(q, id)
  <2>1. PICK k \in 1 .. Len(p) : \E i \in 1 .. Len(p[k].pieces) : p[k].pieces[i].id = id
    BY <1>1, <1>17 DEF Present
  <2>2. PICK i \in 1 .. Len(p[k].pieces) : p[k].pieces[i].id = id
    BY <2>1
  <2>3. i \in 1 .. Len(q[k].pieces) /\ q[k].pieces[i].id = id
    BY <1>14, <2>2
  <2> QED
    BY <1>13, <2>3 DEF Present
<1>18. PlanRight(parts, whole, q)
  BY <1>13, <1>15, <1>16, <1>17 DEF PlanRight, PartsRight
<1> QED
  BY <1>9, <1>18

\* The plan of a request for constructed sheets stays right.
LEMMA ConstructingKept ==
    ASSUME IInv, Constructing, [Next]_vars
    PROVE  Constructing'
<1> SUFFICES ASSUME job'.parts # <<>>, plan' # <<>>
             PROVE  PlanRight(job'.parts, job'.whole, plan') /\ (passes' = 0 => CutSheets(plan'))
  BY DEF Constructing
<1>1. job' = job
  BY DEF Next, vars, Refuse, Take, SlidePiece, EndPass, Rank, Picked, Construct, Shift, Answer, Done
<1>2. job \in Jobs /\ job.parts # <<>> /\ job.batch = <<>>
  BY <1>1, JobsAssumption DEF IInv, JobsAssumption
<1>3. Len(job.batch) = 0 /\ DOMAIN job.batch = {}
  BY <1>2
<1>4. stage # "slide" /\ ~(next <= Len(job.batch))
  BY <1>3 DEF IInv, TypeOK, Sliding
<1>5. CASE Construct
  <2>1. plan' \in Constructed(job.parts, job.sheet, job.whole)
    BY <1>5 DEF Construct
  <2> QED
    BY <1>1, <1>2, <2>1, ConstructedFacts
<1>6. CASE Shift
  <2>1. PICK sm \in BestMoves(plan) : plan' = Shifted(plan, sm)
    BY <1>6 DEF Shift
  <2>2. plan \in Layouts /\ \A s \in DOMAIN plan : OnSheet(plan[s])
    BY DEF IInv, TypeOK
  <2>3. plan # <<>>
    <3>1. sm[1] \in DOMAIN plan
      BY <2>2, BestMoveFits
    <3> QED
      BY <3>1
  <2>4. PlanRight(job.parts, job.whole, plan)
    BY <1>2, <2>3 DEF Constructing
  <2>5. PlanRight(job.parts, job.whole, Shifted(plan, sm))
    BY <2>2, <2>4, ShiftedRight
  <2>6. passes' # 0
    <3>1. passes \in 0 .. MaxPasses /\ passes' = passes + 1
      BY <1>6 DEF IInv, TypeOK, Shift
    <3> QED
      BY <3>1
  <2> QED
    BY <1>1, <2>1, <2>5, <2>6
<1>7. CASE UNCHANGED <<job, plan, passes>>
  BY <1>7 DEF Constructing
<1> QED
  BY <1>1, <1>2, <1>4, <1>5, <1>6, <1>7
     DEF Next, vars, Refuse, Take, SlidePiece, EndPass, Rank, Picked, Answer, Done

\* The pieces of a right plan, one after the other.
LEMMA PlanInARow ==
    ASSUME NEW parts \in Seq(PartTypes), NEW whole \in BOOLEAN, NEW p, PlanRight(parts, whole, p)
    PROVE  LET pieces == FlattenSeq([s \in DOMAIN p |-> p[s].pieces])
               ids == [i \in DOMAIN pieces |-> pieces[i].id]
           IN  /\ IsInjective(ids)
               /\ whole => Range(ids) = DOMAIN parts
               /\ \A i \in DOMAIN pieces : pieces[i].size \in Range(Orientations(parts[ids[i]]))
<1> DEFINE n == Len(p)
           seqs == [s \in DOMAIN p |-> p[s].pieces]
           pieces == FlattenSeq(seqs)
           ids == [i \in DOMAIN pieces |-> pieces[i].id]
<1>1. /\ p \in Seq(NumberedSheets) /\ DOMAIN p = 1 .. n /\ n \in Nat
      /\ \A k \in 1 .. n : p[k].pieces \in Seq(Numbered)
      /\ \A k \in 1 .. n : \A i \in 1 .. Len(p[k].pieces) :
            /\ p[k].pieces[i].id \in 1 .. Len(parts)
            /\ p[k].pieces[i].size \in Range(Orientations(parts[p[k].pieces[i].id]))
      /\ whole => \A id \in 1 .. Len(parts) : Present(p, id)
  BY NumberedPlan DEF PlanRight, PartsRight, Alike
<1>2. OnceInPlan(p)
  BY DEF PlanRight, PartsRight
<1>3. seqs \in Seq(Seq(Numbered)) /\ Len(seqs) = n /\ \A k \in 1 .. n : seqs[k] = p[k].pieces
  <2>1. seqs \in [1 .. n -> Seq(Numbered)] /\ \A k \in 1 .. n : seqs[k] = p[k].pieces
    BY <1>1
  <2> HIDE DEF seqs, n
  <2> QED
    BY <1>1, <2>1, FunctionSeq
<1>4. pieces \in FlatOf(Numbered, seqs, n)
  <2> HIDE DEF seqs
  <2> QED
    BY <1>3, FlattenIs
<1> HIDE DEF seqs, n, pieces
<1>5. pieces \in Seq(Numbered) /\ PlacesOf(seqs, n, pieces) # {}
  BY <1>4 DEF FlatOf
<1>6. PICK place \in PlacesOf(seqs, n, pieces) : TRUE
  BY <1>5
<1>7. /\ \A i \in 1 .. Len(pieces) : place[i] \in Spots(seqs, n)
      /\ \A i, j \in 1 .. Len(pieces) : place[i] = place[j] => i = j
      /\ \A si \in Spots(seqs, n) : \E i \in 1 .. Len(pieces) : place[i] = si
      /\ \A i \in 1 .. Len(pieces) : pieces[i] = seqs[place[i][1]][place[i][2]]
  BY <1>6 DEF PlacesOf
<1>8. DOMAIN pieces = 1 .. Len(pieces) /\ DOMAIN parts = 1 .. Len(parts)
  BY <1>5, LenProperties
<1>9. ASSUME NEW i \in 1 .. Len(pieces)
      PROVE  /\ place[i][1] \in 1 .. n /\ place[i][2] \in 1 .. Len(p[place[i][1]].pieces)
             /\ place[i] = <<place[i][1], place[i][2]>>
             /\ pieces[i] = p[place[i][1]].pieces[place[i][2]]
  <2>1. place[i] \in (1 .. n) \X Nat /\ place[i][2] \in 1 .. Len(seqs[place[i][1]])
    BY <1>7 DEF Spots
  <2>2. place[i][1] \in 1 .. n /\ place[i] = <<place[i][1], place[i][2]>>
    BY <2>1
  <2> QED
    BY <1>3, <1>7, <2>1, <2>2
<1>10. \A i \in 1 .. Len(pieces) :
            /\ pieces[i].id \in 1 .. Len(parts)
            /\ pieces[i].size \in Range(Orientations(parts[pieces[i].id]))
  <2> SUFFICES ASSUME NEW i \in 1 .. Len(pieces)
               PROVE  /\ pieces[i].id \in 1 .. Len(parts)
                      /\ pieces[i].size \in Range(Orientations(parts[pieces[i].id]))
    OBVIOUS
  <2> DEFINE k == place[i][1]
             c == place[i][2]
  <2>1. k \in 1 .. n /\ c \in 1 .. Len(p[k].pieces) /\ pieces[i] = p[k].pieces[c]
    BY <1>9
  <2> HIDE DEF k, c
  <2> QED
    BY <1>1, <2>1
<1>11. \A i \in 1 .. Len(pieces) : ids[i] = pieces[i].id
  BY <1>8
<1>12. DOMAIN ids = 1 .. Len(pieces)
  BY <1>8
<1> HIDE DEF ids
<1>13. ASSUME NEW i \in 1 .. Len(pieces), NEW j \in 1 .. Len(pieces), ids[i] = ids[j] PROVE i = j
  <2> DEFINE a == place[i][1]
             c == place[i][2]
             b == place[j][1]
             d == place[j][2]
  <2>1. /\ a \in 1 .. Len(p) /\ c \in 1 .. Len(p[a].pieces)
        /\ b \in 1 .. Len(p) /\ d \in 1 .. Len(p[b].pieces)
        /\ SameId(p, a, c, b, d)
    BY <1>9, <1>11, <1>13 DEF SameId, n
  <2> HIDE DEF a, b, c, d
  <2>4. a = b /\ c = d
    BY <1>2, <2>1, OnceIs
  <2>2. place[i][1] = place[j][1] /\ place[i][2] = place[j][2]
    BY <2>4 DEF a, b, c, d
  <2>3. place[i] = place[j]
    BY <1>9, <2>2
  <2> QED
    BY <1>7, <2>3
<1>14. IsInjective(ids)
  BY <1>12, <1>13 DEF IsInjective
<1>15. ASSUME whole PROVE Range(ids) = DOMAIN parts
  <2>1. ASSUME NEW id \in 1 .. Len(parts) PROVE \E i \in 1 .. Len(pieces) : ids[i] = id
    <3>1. PICK k \in 1 .. n : \E i \in 1 .. Len(p[k].pieces) : p[k].pieces[i].id = id
      BY <1>1, <1>15 DEF Present, n
    <3>2. PICK i \in 1 .. Len(p[k].pieces) : p[k].pieces[i].id = id
      BY <3>1
    <3>3. i \in 1 .. Len(seqs[k]) /\ i \in Nat
      BY <1>3, <3>2
    <3>4. <<k, i>> \in Spots(seqs, n)
      BY <3>3 DEF Spots
    <3>5. PICK m \in 1 .. Len(pieces) : place[m] = <<k, i>>
      BY <1>7, <3>4
    <3>6. pieces[m] = p[k].pieces[i]
      BY <1>9, <3>5
    <3> QED
      BY <1>11, <3>2, <3>6
  <2>2. Range(ids) = {ids[i] : i \in 1 .. Len(pieces)}
    BY <1>12 DEF Range
  <2> QED
    BY <1>8, <1>10, <1>11, <2>1, <2>2
<1> QED
  BY <1>8, <1>10, <1>11, <1>14, <1>15 DEF ids, pieces, seqs

-----------------------------------------------------------------------------
(* The theorems                                                            *)

\* The inductive invariant holds throughout compaction, comparison and group
\* shift, for every engine's plans that can be cut, every blade and every limit.
THEOREM Invariance == Spec => []IInv
<1>1. Init => IInv
  BY InitHolds
<1>2. IInv /\ [Next]_vars => IInv'
  <2> SUFFICES ASSUME IInv, [Next]_vars PROVE IInv'
    OBVIOUS
  <2>1. CASE Refuse
    BY <2>1, RefuseStep
  <2>2. CASE Take
    BY <2>2, TakeStep
  <2>3. CASE SlidePiece
    BY <2>3, SlidePieceStep
  <2>4. CASE EndPass
    BY <2>4, EndPassStep
  <2>5. CASE Rank
    BY <2>5, RankStep
  <2>6. CASE Picked
    BY <2>6, PickedStep
  <2>7. CASE Construct
    BY <2>7, ConstructStep
  <2>8. CASE Shift
    BY <2>8, ShiftStep
  <2>9. CASE Answer
    BY <2>9, AnswerStep
  <2>10. CASE Done \/ UNCHANGED vars
    BY <2>10, StutterStep DEF Done
  <2> QED
    BY <2>1, <2>2, <2>3, <2>4, <2>5, <2>6, <2>7, <2>8, <2>9, <2>10 DEF Next
<1> QED
  BY <1>1, <1>2, PTL DEF Spec

\* Type correctness of the pipeline, with what it promises of geometry: neither
\* a slide nor a group shift takes a piece off its sheet, resizes it or drops it.
THEOREM TypeCorrect == Spec => []TypeOK
<1>1. IInv => TypeOK
  BY DEF IInv
<1> QED
  BY <1>1, Invariance, PTL

\* Whatever the slides have done, a plan that is compared can be cut: pieces
\* are a blade's width apart and none is on another, also where the blade has
\* no width and the guard of compact_solution_guarded sees nothing.
THEOREM GuardKeepsKerf == Spec => []KerfKept
<1>1. IInv => KerfKept
  BY DEF IInv, Ranked, Cuttable, KerfKept
<1> QED
  BY <1>1, Invariance, PTL

\* A compacted plan leaves on every sheet at least the corner remnant of the
\* engine's plan: the figure the comparison looks at first after the objective.
THEOREM CornerKept == Spec => []CornerNeverShrinks
<1>1. IInv => CornerNeverShrinks
  <2> SUFFICES ASSUME IInv, NEW k \in Valid, NEW s \in DOMAIN finals[k]
               PROVE  CornerFree(finals[k][s]) >= CornerFree(job.batch[k].plan[s])
    BY DEF CornerNeverShrinks
  <2> DEFINE base == job.batch[k].plan
  <2>1. TypeOK /\ job \in Jobs /\ Compacted(finals[k], base) /\ Cuttable(finals[k])
    BY DEF IInv, Ranked
  <2>2. k \in DOMAIN finals /\ k \in DOMAIN job.batch /\ job.batch[k].valid
    <3>1. /\ finals \in Seq(Layouts) /\ Len(finals) = next - 1
          /\ next \in 1 .. Len(job.batch) + 1 /\ Len(job.batch) \in Nat
          /\ DOMAIN job.batch = 1 .. Len(job.batch)
      BY <2>1, JobFacts DEF TypeOK
    <3>2. DOMAIN finals = 1 .. Len(finals)
      BY <3>1, LenProperties
    <3> QED
      BY <3>1, <3>2 DEF Valid, Solutions
  <2>3. finals[k] \in Layouts /\ base \in Layouts /\ Cuttable(base)
    BY <2>1, <2>2, JobFacts, LenProperties, ElementOfSeq DEF TypeOK
  <2>4. finals[k][s] \in SheetTypes /\ OnSheet(finals[k][s])
    BY <2>1, <2>3, SheetsOfPlan DEF Cuttable
  <2>5. s \in DOMAIN base /\ Slidden(finals[k][s], base[s])
    BY <2>1 DEF Compacted
  <2>6. base[s] \in SheetTypes /\ OnSheet(base[s])
    BY <2>3, <2>5, SheetsOfPlan DEF Cuttable
  <2> QED
    BY <2>4, <2>5, <2>6, CornerGrows
<1> QED
  BY <1>1, Invariance, PTL

\* A compacted plan is at rest, unless it is the engine's that the guard has
\* taken back.
THEOREM CompactionSettles == Spec => []Settled
<1>1. IInv => Settled
  BY DEF IInv
<1> QED
  BY <1>1, Invariance, PTL

\* One group shift of a plan that can be cut puts no piece on another.
THEOREM ShiftsKeepApart == Spec => ShiftKeepsApart
<1>1. IInv /\ [Next]_vars => [stage = "shift" /\ Cuttable(plan) => Disjoint(plan')]_vars
  <2> SUFFICES ASSUME IInv, Next, stage = "shift", Cuttable(plan)
               PROVE  Disjoint(plan')
    OBVIOUS
  <2>1. CASE Shift
    <3>1. PICK sm \in BestMoves(plan) : plan' = Shifted(plan, sm)
      BY <2>1 DEF Shift
    <3>2. plan \in Layouts /\ \A s \in DOMAIN plan : OnSheet(plan[s])
      BY DEF IInv, TypeOK
    <3> QED
      BY <3>1, <3>2, ShiftedIs
  <2>2. CASE Answer
    BY <2>2 DEF Answer, Cuttable, Disjoint
  <2> QED
    BY <2>1, <2>2 DEF Next, Refuse, Take, SlidePiece, EndPass, Rank, Picked, Construct, Done
<1> QED
  BY <1>1, Invariance, PTL DEF Spec, ShiftKeepsApart

\* The comparison picks the plan no other one beats, the first of its equals,
\* and what it has counted as worse on the objective is worse than the pick,
\* for any solution set: though a plan is only compared with the best of its
\* time, its rejection stands.
THEOREM PickRight == Spec => []PickHonest
<1>1. Init => Chosen
  BY NoneChosen
<1>2. IInv /\ Chosen /\ [Next]_vars => Chosen'
  <2> SUFFICES ASSUME IInv, Chosen, [Next]_vars PROVE Chosen'
    OBVIOUS
  <2>1. CASE Refuse
    BY <2>1, RefuseChooses
  <2>2. CASE Rank
    BY <2>2, RankChooses
  <2>3. CASE ~Refuse /\ ~Rank
    <3>1. UNCHANGED <<job, finals, best, counters>>
      BY <2>3 DEF Next, Take, SlidePiece, EndPass, Picked, Construct, Shift, Answer, Done, vars
    <3> QED
      BY <3>1, OthersChoose
  <2> QED
    BY <2>1, <2>2, <2>3
<1>3. IInv /\ Chosen => PickHonest
  <2> SUFFICES ASSUME IInv, Chosen PROVE PickHonest
    OBVIOUS
  <2> DEFINE o == job.objective
             Aim(k) == AimOf(finals[k], o)
  <2>1. /\ IsFiniteSet(Valid) /\ Valid \subseteq 1 .. (next - 1) /\ next \in Nat
        /\ \A k \in Valid : finals[k] \in Layouts /\ \A s \in DOMAIN finals[k] : OnSheet(finals[k][s])
        /\ Ranks \in [Valid -> Tuples(7)] /\ Aims \in [Valid -> Tuples(2)]
        /\ \A k \in Valid : Led(Ranks[k], Aims[k])
    BY ComparedFacts
  <2>2. \A k \in Valid : Ranks[k] = RankOf(finals[k], o) /\ Aims[k] = AimOf(finals[k], o)
    BY DEF Ranks, Aims
  <2>3. Valid # {} => best \in Valid /\ IsPick(Valid, Ranks, best)
    BY DEF Chosen, IsPick
  <2>4. ASSUME NEW k \in Valid
        PROVE  /\ best # 0 /\ ~Beats(Aim(k), Aim(best))
               /\ Aim(k) = Aim(best) => Figures(finals[k]).corner <= Figures(finals[best]).corner
               /\ Figures(finals[k]) = Figures(finals[best]) => best <= k
    <3> DEFINE x == Ranks[k]
               y == Ranks[best]
               a == Aims[k]
               b == Aims[best]
    <3>1. best \in Valid /\ IsPick(Valid, Ranks, best)
      BY <2>3
    <3>2. /\ x \in Tuples(7) /\ y \in Tuples(7) /\ a \in Tuples(2) /\ b \in Tuples(2)
          /\ Led(x, a) /\ Led(y, b)
      BY <2>1, <3>1
    <3>3. ~Beats(x, y) /\ (x = y => best <= k)
      BY <3>1 DEF IsPick
    <3>4. a = Aim(k) /\ b = Aim(best)
      BY <2>2, <3>1
    <3>5. x[3] = Figures(finals[k]).corner /\ y[3] = Figures(finals[best]).corner
      BY <2>1, <2>2, <3>1, RankingIs
    <3>6. Figures(finals[k]) = Figures(finals[best]) => x = y
      BY <2>2, <3>1 DEF RankOf
    <3>7. best # 0
      BY <2>1, <3>1
    <3>8. x[3] \in Int /\ y[3] \in Int
      BY <3>2 DEF Tuples
    <3> HIDE DEF x, y, a, b, Aim
    <3>9. ~Beats(a, b) /\ (a = b => ~(x[3] > y[3]))
      BY <3>2, <3>3, Leading
    <3> QED
      BY <3>3, <3>4, <3>5, <3>6, <3>7, <3>8, <3>9
  <2>5. PickedIsBest
    <3> HIDE DEF Aim
    <3> QED
      BY <2>4, Zenon DEF PickedIsBest, AimOf, Aim
  <2>6. RejectionsStand
    <3>1. Losing(Valid, Aims, best) = {k \in Valid : Beats(Aim(best), Aim(k))}
      BY <2>2, <2>3 DEF Losing
    <3>2. counters["primary_objective"] <= Cardinality({k \in Valid : Beats(Aim(best), Aim(k))})
      BY <3>1 DEF Chosen
    <3> QED
      BY <3>2 DEF RejectionsStand, AimOf
  <2> QED
    BY <2>5, <2>6 DEF PickHonest
<1> QED
  BY <1>1, <1>2, <1>3, Invariance, PTL DEF Spec

\* What the peeling takes for granted of a constructed plan, also after groups
\* have been shifted: no part is in it twice or turned although it must not be,
\* none is missing when all were asked for, and it can be cut as constructed.
THEOREM ConstructedRight == Spec => []ConstructedHolds
<1>1. Init => Constructing
  BY DEF Init, Constructing
<1>2. IInv /\ Constructing /\ [Next]_vars => Constructing'
  BY ConstructingKept
<1>3. IInv /\ Constructing => ConstructedHolds
  <2> SUFFICES ASSUME IInv, Constructing, job.parts # <<>>, plan # <<>>
               PROVE  ConstructedHolds
    BY DEF ConstructedHolds
  <2>1. PlanRight(job.parts, job.whole, plan) /\ (passes = 0 => CutSheets(plan)) /\ plan \in Layouts
    BY DEF Constructing, IInv, TypeOK
  <2>2. job.parts \in Seq(PartTypes) /\ job.whole \in BOOLEAN
    BY JobsAssumption DEF JobsAssumption, IInv, PartTypes
  <2>3. passes = 0 => KerfClear(plan)
    BY <2>1, CutBySheets, SheetsOfPlan DEF CutSheets
  <2> QED
    BY <2>1, <2>2, <2>3, PlanInARow DEF ConstructedHolds
<1> QED
  BY <1>1, <1>2, <1>3, Invariance, PTL DEF Spec
=============================================================================
