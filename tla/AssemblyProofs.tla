---------------------------- MODULE AssemblyProofs ------------------------------
(***************************************************************************)
(* Proofs about Assembly: for every request, every layout the solver may   *)
(* return and every stock, the answer accounts for each item instance      *)
(* once, numbers the sheets of a stock without a gap, and drops a sheet    *)
(* only when all sheets of its size are used.                              *)
(*                                                                         *)
(* assigned_counts and stock_counts are two counts of the same sheets that *)
(* no code compares.  They agree because a stock's sheets are numbered in  *)
(* the order apply_qty_limits meets them: the sheets it keeps of a stock   *)
(* are the first ones, and one that is numbered past the quantity was      *)
(* given to a stock only because every other of that size was used up.     *)
(***************************************************************************)
EXTENDS Assembly, TLAPS, FiniteSetTheorems, WellFoundedInduction

\* The parts of the sheets numbered in N.
Parts(N) == UNION {sheets[n].parts : n \in N}

Total == Len(solutions)

\* Nothing is assigned, examined or kept before the phase that does it.
PhaseInv ==
    /\ pc \in {"prepare", "pack"} => sheets = <<>> /\ solutions = <<>>
    /\ pc # "limit" /\ pc # "done" => examined = 0
    /\ pc = "prepare" => oversized = {}
    /\ pc # "prepare" => oversized = Instances \ Fitting
    /\ pc = "limit" => Total = Len(sheets)
    /\ pc = "done" => examined = Total /\ Total = Len(sheets)

\* The sheets hold every part that fits, each once.
LayoutInv ==
    /\ \A m, n \in 1..Len(sheets) : m # n => sheets[m].parts \cap sheets[n].parts = {}
    /\ Parts(1..Len(sheets)) \subseteq Fitting
    /\ pc \in {"assign", "limit", "done"} => Fitting \subseteq Parts(1..Len(sheets))

\* Each solution is a sheet of the solver's on a stock of its size.
MatchInv ==
    /\ Total <= Len(sheets)
    /\ \A n \in 1..Total :
        /\ solutions[n].parts = sheets[n].parts
        /\ SizeOf[solutions[n].stock] = sheets[n].size

\* A stock's sheets are numbered in order and without a gap.
NumberInv ==
    /\ \A n \in 1..Total : solutions[n].index < assigned[solutions[n].stock]
    /\ \A m, n \in 1..Total :
        m < n /\ solutions[m].stock = solutions[n].stock => solutions[m].index < solutions[n].index
    /\ \A s \in Stocks : \A k \in Nat :
        k < assigned[s] => \E n \in 1..Total : solutions[n].stock = s /\ solutions[n].index = k

\* A sheet numbered past the quantity of its stock: all of its size are used up.
OverflowInv ==
    \A n \in 1..Total :
        LET s == solutions[n].stock
        IN  qty[s] > 0 /\ solutions[n].index >= qty[s]
                => \A t \in SameSize(sheets[n].size) : qty[t] > 0 /\ assigned[t] >= qty[t]

\* The sheets kept of a stock are the first ones; if one was dropped, as many
\* are kept as the stock has.
LimitInv ==
    /\ \A n \in kept : solutions[n].index < counts[solutions[n].stock]
    /\ \A s \in Stocks : \A k \in Nat : k < counts[s] => Used(s, k)
    /\ \A s \in Stocks : qty[s] > 0 => counts[s] <= qty[s]
    /\ \A n \in (1..examined) \ kept :
        LET s == solutions[n].stock IN qty[s] > 0 /\ counts[s] = qty[s]
    /\ \A i \in Instances : i \in unplaced <=> \E n \in (1..examined) \ kept : i \in solutions[n].parts

IInv ==
    /\ TypeOK
    /\ PhaseInv
    /\ LayoutInv
    /\ MatchInv
    /\ NumberInv
    /\ OverflowInv
    /\ LimitInv

-----------------------------------------------------------------------------
(* The stock a sheet is given                                              *)

\* Among stocks there is always a first one.
LEMMA FirstStock ==
    ASSUME NEW T, T \subseteq Stocks, T # {}
    PROVE  Min(T) \in T
<1> DEFINE U == {1..n : n \in T}
<1>1. U \subseteq FiniteSubsetsOf(Int) /\ U # {}
  <2>1. \A n \in T : n \in Int /\ 1 \in Int
    BY AssemblyAssumption DEF Stocks, AssemblyAssumption
  <2>2. \A n \in T : IsFiniteSet(1..n)
    BY <2>1, FS_Interval
  <2>3. \A n \in T : 1..n \in SUBSET Int
    BY <2>1
  <2> QED
    BY <2>2, <2>3 DEF FiniteSubsetsOf
<1>2. IsWellFoundedOn(StrictSubsetOrdering(Int), FiniteSubsetsOf(Int))
  BY FS_StrictSubsetOrderingWellFounded
<1>3. PICK x \in U : \A y \in U : ~(<<y, x>> \in StrictSubsetOrdering(Int))
  BY <1>1, <1>2, WFMin
<1>4. PICK n \in T : x = 1..n
  OBVIOUS
<1>5. ASSUME NEW m \in T, ~(n <= m) PROVE FALSE
  <2>1. m \in Int /\ n \in Int /\ m < n /\ n >= 1
    BY <1>5, AssemblyAssumption DEF Stocks, AssemblyAssumption
  <2>2. 1..m \in SUBSET Int /\ 1..n \in SUBSET Int
    BY <2>1
  <2>3. 1..m \subseteq 1..n /\ 1..m # 1..n
    BY <2>1
  <2>4. <<1..m, 1..n>> \in StrictSubsetOrdering(Int)
    BY <2>2, <2>3 DEF StrictSubsetOrdering
  <2> QED
    BY <2>4, <1>3, <1>4
<1> QED
  BY <1>5 DEF Min

\* choose_stock_info finds a stock of the size, and one that has no sheet left
\* only if no other has.
LEMMA Chosen ==
    ASSUME TypeOK, NEW z \in Sizes
    PROVE  LET s == ChooseStock(z)
           IN  /\ s \in Stocks /\ SizeOf[s] = z
               /\ qty[s] > 0 /\ assigned[s] >= qty[s]
                    => \A t \in SameSize(z) : qty[t] > 0 /\ assigned[t] >= qty[t]
<1> DEFINE left == {s \in SameSize(z) : Left(s)}
           unlimited == {s \in SameSize(z) : qty[s] = 0}
           s == ChooseStock(z)
<1>1. SameSize(z) # {} /\ SameSize(z) \subseteq Stocks
  BY DEF SameSize, Sizes
<1>2. left \subseteq Stocks /\ unlimited \subseteq Stocks
  BY DEF SameSize
<1>3. CASE left # {}
  <2>1. s \in left
    BY <1>2, <1>3, FirstStock DEF ChooseStock
  <2> QED
    BY <2>1 DEF SameSize, Left, TypeOK, Stocks
<1>4. CASE left = {} /\ unlimited # {}
  <2>1. s \in unlimited
    BY <1>2, <1>4, FirstStock DEF ChooseStock
  <2> QED
    BY <2>1 DEF SameSize, TypeOK
<1>5. CASE left = {} /\ unlimited = {}
  <2>1. s \in SameSize(z)
    BY <1>1, <1>5, FirstStock DEF ChooseStock
  <2>2. \A t \in SameSize(z) : qty[t] # 0 /\ ~Left(t)
    BY <1>5
  <2>3. \A t \in SameSize(z) : qty[t] \in Nat /\ assigned[t] \in Nat
    BY DEF SameSize, TypeOK
  <2>4. \A t \in SameSize(z) : qty[t] > 0 /\ assigned[t] >= qty[t]
    BY <2>2, <2>3 DEF Left
  <2> QED
    BY <2>1, <2>4 DEF SameSize
<1> QED
  BY <1>3, <1>4, <1>5

-----------------------------------------------------------------------------
(* The invariant is inductive                                              *)

\* It holds when the request is accepted.
LEMMA InitInv == Init => IInv
<1> SUFFICES ASSUME Init PROVE IInv
  OBVIOUS
<1> USE DEF Init
<1>1. TypeOK
  <2>1. sheets \in Seq(Sheet) /\ solutions \in Seq(Solution) /\ Len(solutions) = 0
    OBVIOUS
  <2>2. qty \in [Stocks -> Nat]
    BY AssemblyAssumption
  <2>3. assigned \in [Stocks -> Nat] /\ counts \in [Stocks -> Nat]
    OBVIOUS
  <2>4. examined \in 0..Len(solutions)
    BY <2>1
  <2> QED
    BY <2>1, <2>2, <2>3, <2>4 DEF TypeOK, Phases
<1>2. PhaseInv /\ MatchInv
  BY DEF PhaseInv, MatchInv, Total
<1>3. LayoutInv
  BY DEF LayoutInv, Parts
<1>4. NumberInv /\ OverflowInv
  BY DEF NumberInv, OverflowInv, Total
<1>5. LimitInv
  <2>1. \A s \in Stocks : counts[s] = 0 /\ qty[s] \in Nat
    BY <1>1 DEF TypeOK
  <2> QED
    BY <2>1 DEF LimitInv
<1> QED
  BY <1>1, <1>2, <1>3, <1>4, <1>5 DEF IInv

\* The solver's layout: sheets of the request's sizes, with every part that fits.
LEMMA PackStep == IInv /\ Pack => IInv'
<1> SUFFICES ASSUME IInv, Pack PROVE IInv'
  OBVIOUS
<1> USE DEF IInv, Pack
<1>1. IsFiniteSet(Fitting) /\ Cardinality(Fitting) \in Nat
  BY AssemblyAssumption, FS_Subset, FS_CardinalityType DEF Fitting, AssemblyAssumption
<1>2. PICK k \in 1..Cardinality(Fitting) : \E where \in [Fitting -> 1..k], size \in [1..k -> Sizes] :
            /\ \A n \in 1..k : \E i \in Fitting : where[i] = n
            /\ \A i \in Fitting : size[where[i]] \in FitsOn[i]
            /\ sheets' = Layout(where, size)
  OBVIOUS
<1>3. PICK where \in [Fitting -> 1..k], size \in [1..k -> Sizes] :
            /\ \A n \in 1..k : \E i \in Fitting : where[i] = n
            /\ sheets' = Layout(where, size)
  BY <1>2
<1>4. k \in Nat
  BY <1>1
<1>5. /\ DOMAIN sheets' = 1..k
      /\ \A n \in 1..k : sheets'[n].size = size[n] /\ sheets'[n].parts = {i \in Fitting : where[i] = n}
  BY <1>3 DEF Layout
<1>6. sheets' \in Seq(Sheet) /\ Len(sheets') = k
  <2>1. \A n \in 1..k : {i \in Fitting : where[i] = n} \in (SUBSET Instances) \ {{}}
    BY <1>3 DEF Fitting
  <2>2. sheets' \in [1..k -> Sheet]
    BY <1>3, <2>1 DEF Layout, Sheet
  <2> QED
    BY <1>4, <2>2
<1>7. TypeOK'
  BY <1>6 DEF TypeOK, Phases
<1>8. LayoutInv'
  <2>1. \A m, n \in 1..k : m # n => sheets'[m].parts \cap sheets'[n].parts = {}
    BY <1>5
  <2>2. UNION {sheets'[n].parts : n \in 1..Len(sheets')} = Fitting
    <3>1. \A n \in 1..k : sheets'[n].parts \subseteq Fitting
      BY <1>5
    <3>2. \A i \in Fitting : where[i] \in 1..k /\ i \in sheets'[where[i]].parts
      BY <1>3, <1>5
    <3>3. 1..Len(sheets') = 1..k
      BY <1>6
    <3>4. UNION {sheets'[n].parts : n \in 1..k} = Fitting
      <4> DEFINE P(n) == sheets'[n].parts
      <4> HIDE DEF P
      <4>1. (\A n \in 1..k : P(n) \subseteq Fitting) /\ (\A i \in Fitting : i \in P(where[i]))
        BY <3>1, <3>2 DEF P
      <4>2. UNION {P(n) : n \in 1..k} \subseteq Fitting
        BY <4>1
      <4>3. Fitting \subseteq UNION {P(n) : n \in 1..k}
        BY <3>2, <4>1
      <4> QED
        BY <4>2, <4>3 DEF P
    <3> QED
      BY <3>3, <3>4, Zenon
  <2>3. Fitting' = Fitting
    BY DEF Fitting
  <2>4. Parts(1..Len(sheets))' = Fitting'
    BY <2>2, <2>3 DEF Parts
  <2> QED
    BY <1>6, <2>1, <2>4 DEF LayoutInv
<1>9. PhaseInv' /\ MatchInv'
  <2>1. solutions = <<>> /\ Len(solutions) = 0
    BY DEF PhaseInv
  <2> QED
    BY <1>4, <1>6, <2>1 DEF PhaseInv, MatchInv, Total, Fitting
<1>10. NumberInv' /\ OverflowInv'
  <2>1. solutions = <<>> /\ Len(solutions) = 0
    BY DEF PhaseInv
  <2> QED
    BY <2>1 DEF NumberInv, OverflowInv, Total, SameSize
<1>11. LimitInv'
  BY DEF LimitInv, Used
<1> QED
  BY <1>7, <1>8, <1>9, <1>10, <1>11

\* A sheet takes a stock of its size and the next number there.
LEMMA AssignStep == IInv /\ AssignSheet => IInv'
<1> SUFFICES ASSUME IInv, AssignSheet PROVE IInv'
  OBVIOUS
<1> USE DEF IInv, AssignSheet
<1> DEFINE n == Len(solutions) + 1
           z == sheets[n].size
           s == ChooseStock(z)
           e == [stock |-> s, index |-> assigned[s], parts |-> sheets[n].parts]
<1>1. /\ Len(solutions) \in Nat /\ Len(sheets) \in Nat
      /\ n \in 1..Len(sheets)
      /\ solutions \in Seq(Solution)
  BY DEF TypeOK
<1>2. sheets[n] \in Sheet
  BY <1>1 DEF TypeOK
<1>3. /\ s \in Stocks /\ SizeOf[s] = z
      /\ qty[s] > 0 /\ assigned[s] >= qty[s]
            => \A t \in SameSize(z) : qty[t] > 0 /\ assigned[t] >= qty[t]
  BY <1>2, Chosen DEF Sheet
<1>4. /\ solutions' = Append(solutions, e)
      /\ assigned' = [assigned EXCEPT ![s] = @ + 1]
  OBVIOUS
<1>5. e \in Solution
  BY <1>2, <1>3 DEF Solution, Sheet, TypeOK
<1> HIDE DEF s, e
<1>6. /\ solutions' \in Seq(Solution)
      /\ Len(solutions') = n
      /\ solutions'[n] = e
      /\ \A m \in 1..Len(solutions) : solutions'[m] = solutions[m]
  BY <1>1, <1>4, <1>5
<1>7. e.stock = s /\ e.index = assigned[s] /\ e.parts = sheets[n].parts
  BY DEF e
<1>8. /\ assigned' \in [Stocks -> Nat]
      /\ assigned'[s] = assigned[s] + 1
      /\ \A t \in Stocks : t # s => assigned'[t] = assigned[t]
      /\ \A t \in Stocks : assigned[t] \in Nat /\ qty[t] \in Nat
  BY <1>3, <1>4 DEF TypeOK
<1>9. \A m \in 1..Len(solutions) : solutions[m] \in Solution
  BY <1>1
<1>10. TypeOK'
  <2>1. examined \in 0..n
    BY <1>1 DEF TypeOK
  <2> QED
    BY <2>1, <1>6, <1>8 DEF TypeOK
<1>11. PhaseInv' /\ LayoutInv'
  BY DEF PhaseInv, LayoutInv, Parts, Fitting
<1>12. MatchInv'
  <2>1. \A m \in 1..n : m = n \/ m \in 1..Len(solutions)
    BY <1>1
  <2> QED
    BY <1>1, <1>3, <1>6, <1>7, <2>1 DEF MatchInv, Total
<1>13. NumberInv'
  <2>1. \A m \in 1..n : m = n \/ m \in 1..Len(solutions)
    BY <1>1
  <2>2. \A m \in 1..n : solutions'[m].index < assigned'[solutions'[m].stock]
    <3>1. solutions'[n].index < assigned'[solutions'[n].stock]
      BY <1>3, <1>6, <1>7, <1>8
    <3>2. ASSUME NEW m \in 1..Len(solutions) PROVE solutions'[m].index < assigned'[solutions'[m].stock]
      <4>1. /\ solutions[m].stock \in Stocks /\ solutions[m].index \in Nat
            /\ solutions[m].index < assigned[solutions[m].stock]
        BY <1>9 DEF Solution, NumberInv, Total
      <4>2. assigned'[solutions[m].stock] >= assigned[solutions[m].stock]
        BY <1>3, <1>8, <4>1
      <4> QED
        BY <1>3, <1>6, <1>8, <4>1, <4>2
    <3> QED
      BY <2>1, <3>1, <3>2
  <2>3. \A l, m \in 1..n :
            l < m /\ solutions'[l].stock = solutions'[m].stock => solutions'[l].index < solutions'[m].index
    <3>1. ASSUME NEW l \in 1..n, l < n, solutions'[l].stock = solutions'[n].stock
          PROVE  solutions'[l].index < solutions'[n].index
      <4>1. l \in 1..Len(solutions)
        BY <1>1, <3>1
      <4> QED
        BY <1>6, <1>7, <3>1, <4>1 DEF NumberInv, Total
    <3>2. ASSUME NEW l \in 1..Len(solutions), NEW m \in 1..Len(solutions), l < m,
                 solutions'[l].stock = solutions'[m].stock
          PROVE  solutions'[l].index < solutions'[m].index
      BY <1>6, <3>2 DEF NumberInv, Total
    <3>3. ~(n < n) /\ \A m \in 1..Len(solutions) : ~(n < m)
      BY <1>1
    <3> QED
      BY <2>1, <3>1, <3>2, <3>3
  <2>4. ASSUME NEW t \in Stocks, NEW k \in Nat, k < assigned'[t]
        PROVE  \E m \in 1..n : solutions'[m].stock = t /\ solutions'[m].index = k
    <3>1. CASE t = s /\ k = assigned[s]
      <4>1. n \in 1..n
        BY <1>1
      <4> QED
        BY <1>6, <1>7, <3>1, <4>1
    <3>2. CASE ~(t = s /\ k = assigned[s])
      <4>1. k < assigned[t]
        BY <1>3, <1>8, <2>4, <3>2
      <4>2. PICK m \in 1..Len(solutions) : solutions[m].stock = t /\ solutions[m].index = k
        BY <4>1 DEF NumberInv, Total
      <4>3. m \in 1..n
        BY <1>1
      <4> QED
        BY <1>6, <4>2, <4>3
    <3> QED
      BY <3>1, <3>2
  <2> QED
    BY <1>6, <2>2, <2>3, <2>4 DEF NumberInv, Total
<1>14. OverflowInv'
  <2>1. ASSUME NEW m \in 1..n, qty[solutions'[m].stock] > 0,
               solutions'[m].index >= qty[solutions'[m].stock],
               NEW t \in SameSize(sheets[m].size)
        PROVE  qty[t] > 0 /\ assigned'[t] >= qty[t]
    <3>1. t \in Stocks
      BY DEF SameSize
    <3>2. qty[t] > 0 /\ assigned[t] >= qty[t]
      <4>1. CASE m = n
        BY <1>3, <1>6, <1>7, <2>1, <4>1
      <4>2. CASE m \in 1..Len(solutions)
        BY <1>6, <2>1, <4>2 DEF OverflowInv, Total
      <4> QED
        BY <1>1, <4>1, <4>2
    <3> QED
      BY <1>3, <1>8, <3>1, <3>2
  <2> QED
    BY <1>6, <2>1 DEF OverflowInv, Total, SameSize
<1>15. LimitInv'
  <2>1. examined = 0 /\ kept = {}
    BY DEF PhaseInv, TypeOK
  <2>2. \A t \in Stocks : counts[t] = 0
    <3>1. ASSUME NEW t \in Stocks, counts[t] # 0 PROVE FALSE
      <4>1. 0 < counts[t]
        BY <3>1 DEF TypeOK
      <4> QED
        BY <2>1, <4>1 DEF LimitInv, Used
    <3> QED
      BY <3>1
  <2>3. unplaced = {}
    BY <2>1 DEF LimitInv, TypeOK
  <2> QED
    BY <1>8, <2>1, <2>2, <2>3 DEF LimitInv
<1> QED
  BY <1>10, <1>11, <1>12, <1>13, <1>14, <1>15

\* A solution has a stock, a number and parts.
LEMMA SolutionAt ==
    ASSUME TypeOK, NEW n \in 1..Total
    PROVE  /\ solutions[n].stock \in Stocks
           /\ solutions[n].index \in Nat
           /\ solutions[n].parts \subseteq Instances
           /\ n \in Nat
<1>1. solutions \in Seq(Solution) /\ Len(solutions) \in Nat
  BY DEF TypeOK
<1>2. solutions[n] \in Solution
  BY <1>1 DEF Total
<1> QED
  BY <1>1, <1>2 DEF Solution, Total

\* The numbers of a stock's sheets tell the sheets apart.
LEMMA SheetsApart ==
    ASSUME NumberInv, TypeOK, NEW m \in 1..Total, NEW n \in 1..Total,
           solutions[m].stock = solutions[n].stock, solutions[m].index = solutions[n].index
    PROVE  m = n
<1>1. solutions[m].index \in Nat /\ solutions[n].index \in Nat
  BY SolutionAt
<1>2. ~(m < n) /\ ~(n < m)
  BY <1>1 DEF NumberInv
<1>3. m \in Nat /\ n \in Nat
  BY SolutionAt
<1> QED
  BY <1>2, <1>3

\* What a step of apply_qty_limits leaves alone.
Unlimited == <<pc, qty, oversized, sheets, assigned, solutions>>

\* It keeps every part of the invariant but the one on what has been kept.
LEMMA LimitFrame ==
    ASSUME IInv, pc = "limit", UNCHANGED Unlimited
    PROVE  PhaseInv' /\ LayoutInv' /\ MatchInv' /\ NumberInv' /\ OverflowInv'
<1>1. PhaseInv'
  BY DEF IInv, PhaseInv, Unlimited, Total, Fitting
<1>2. LayoutInv'
  BY DEF IInv, LayoutInv, Unlimited, Parts, Fitting
<1>3. MatchInv' /\ NumberInv'
  BY DEF IInv, MatchInv, NumberInv, Unlimited, Total
<1>4. OverflowInv'
  BY DEF IInv, OverflowInv, Unlimited, Total, SameSize
<1> QED
  BY <1>1, <1>2, <1>3, <1>4

\* The next sheet of a stock within its limit is the one numbered next.
LEMMA KeepStep == IInv /\ KeepSheet => IInv'
<1> SUFFICES ASSUME IInv, KeepSheet PROVE IInv'
  OBVIOUS
<1> USE DEF IInv, KeepSheet
<1> DEFINE n == examined + 1
           s == solutions[n].stock
<1>1. /\ Len(solutions) \in Nat /\ examined \in Nat
      /\ n \in 1..Total
      /\ solutions[n] \in Solution
  BY DEF TypeOK, Total
<1>2. s \in Stocks /\ solutions[n].index \in Nat
  BY <1>1 DEF Solution
<1>3. /\ WithinLimit(s)
      /\ counts' = [counts EXCEPT ![s] = @ + 1]
      /\ kept' = kept \cup {n}
      /\ examined' = n
      /\ unplaced' = unplaced
      /\ UNCHANGED Unlimited
  BY DEF Unlimited
<1>4. /\ counts' \in [Stocks -> Nat]
      /\ counts'[s] = counts[s] + 1
      /\ \A t \in Stocks : t # s => counts'[t] = counts[t]
      /\ \A t \in Stocks : counts[t] \in Nat /\ qty[t] \in Nat
  BY <1>2, <1>3 DEF TypeOK
<1>5. \A m \in 1..examined : m \in 1..Total /\ m < n
  BY <1>1 DEF Total
<1>6. kept \subseteq 1..examined /\ n \notin kept
  BY <1>5 DEF TypeOK
<1>7. solutions[n].index = counts[s]
  <2>1. ASSUME solutions[n].index < counts[s] PROVE FALSE
    <3>1. PICK m \in kept : solutions[m].stock = s /\ solutions[m].index = solutions[n].index
      BY <1>2, <2>1 DEF LimitInv, Used
    <3>2. m \in 1..Total
      BY <1>5, <1>6
    <3>3. m = n
      BY <1>1, <3>1, <3>2, SheetsApart
    <3> QED
      BY <1>6, <3>3
  <2>2. ASSUME solutions[n].index > counts[s] PROVE FALSE
    <3>1. solutions[n].index < assigned[s]
      BY <1>1 DEF NumberInv
    <3>2. assigned[s] \in Nat /\ counts[s] \in Nat
      BY <1>2, <1>4 DEF TypeOK
    <3>3. counts[s] < assigned[s]
      BY <1>2, <2>2, <3>1, <3>2
    <3>4. PICK m \in 1..Total : solutions[m].stock = s /\ solutions[m].index = counts[s]
      <4>1. \A k \in Nat : k < assigned[s] =>
                \E m \in 1..Total : solutions[m].stock = s /\ solutions[m].index = k
        BY <1>2 DEF NumberInv
      <4>2. counts[s] \in Nat
        BY <3>2
      <4> HIDE DEF s
      <4> QED
        BY <3>3, <4>1, <4>2
    <3>5. ~(n < m) /\ m # n
      <4>1. n < m => solutions[n].index < solutions[m].index
        BY <1>1, <3>4 DEF NumberInv
      <4> QED
        BY <1>2, <2>2, <3>2, <3>4, <4>1
    <3>6. m \in 1..examined
      BY <1>1, <3>5 DEF Total
    <3>7. m \in kept
      BY <1>2, <1>3, <1>4, <3>4, <3>6 DEF LimitInv, WithinLimit
    <3>8. solutions[m].index < counts[s]
      BY <3>4, <3>7 DEF LimitInv
    <3> QED
      BY <3>2, <3>4, <3>8
  <2> QED
    BY <1>2, <1>4, <2>1, <2>2
<1>8. TypeOK'
  <2>1. n \in 0..Len(solutions) /\ kept \cup {n} \subseteq 1..n
    BY <1>1, <1>6 DEF Total
  <2> QED
    BY <1>3, <1>4, <2>1 DEF TypeOK, Unlimited
<1>9. LimitInv'
  <2>1. ASSUME NEW m \in kept' PROVE solutions[m].index < counts'[solutions[m].stock]
    <3>1. CASE m = n
      BY <1>4, <1>7, <1>2, <3>1
    <3>2. CASE m \in kept
      <4>1. /\ solutions[m].stock \in Stocks /\ solutions[m].index \in Nat
            /\ solutions[m].index < counts[solutions[m].stock]
        BY <1>5, <1>6, <3>2, SolutionAt DEF LimitInv
      <4> QED
        BY <1>2, <1>4, <4>1
    <3> QED
      BY <1>3, <3>1, <3>2
  <2>2. ASSUME NEW t \in Stocks, NEW k \in Nat, k < counts'[t]
        PROVE  \E m \in kept' : solutions[m].stock = t /\ solutions[m].index = k
    <3>1. CASE t = s /\ k = counts[s]
      BY <1>3, <1>7, <3>1
    <3>2. CASE ~(t = s /\ k = counts[s])
      <4>1. k < counts[t]
        BY <1>2, <1>4, <2>2, <3>2
      <4>2. PICK m \in kept : solutions[m].stock = t /\ solutions[m].index = k
        BY <4>1 DEF LimitInv, Used
      <4> QED
        BY <1>3, <4>2
    <3> QED
      BY <3>1, <3>2
  <2>3. ASSUME NEW t \in Stocks, qty[t] > 0 PROVE counts'[t] <= qty[t]
    <3>1. counts[t] <= qty[t]
      BY <2>3 DEF LimitInv
    <3> QED
      BY <1>2, <1>3, <1>4, <2>3, <3>1 DEF WithinLimit
  <2>4. (1..n) \ kept' = (1..examined) \ kept
    BY <1>1, <1>3, <1>5
  <2>5. ASSUME NEW m \in (1..examined) \ kept
        PROVE  qty[solutions[m].stock] > 0 /\ counts'[solutions[m].stock] = qty[solutions[m].stock]
    <3>1. solutions[m].stock \in Stocks
      BY <1>5, SolutionAt
    <3>2. qty[solutions[m].stock] > 0 /\ counts[solutions[m].stock] = qty[solutions[m].stock]
      BY DEF LimitInv
    <3>3. solutions[m].stock # s
      BY <1>2, <1>3, <1>4, <3>2 DEF WithinLimit
    <3> QED
      BY <1>4, <3>1, <3>2, <3>3
  <2>6. \A i \in Instances : i \in unplaced <=> \E m \in (1..examined) \ kept : i \in solutions[m].parts
    BY DEF LimitInv
  <2> QED
    BY <1>3, <2>1, <2>2, <2>3, <2>4, <2>5, <2>6 DEF LimitInv, Used, Unlimited
<1> QED
  BY <1>3, <1>8, <1>9, LimitFrame

\* A sheet past its stock's limit is dropped, its parts reported.
LEMMA DropStep == IInv /\ DropSheet => IInv'
<1> SUFFICES ASSUME IInv, DropSheet PROVE IInv'
  OBVIOUS
<1> USE DEF IInv, DropSheet
<1> DEFINE n == examined + 1
           s == solutions[n].stock
<1>1. /\ Len(solutions) \in Nat /\ examined \in Nat
      /\ n \in 1..Total
      /\ solutions[n] \in Solution
  BY DEF TypeOK, Total
<1>2. s \in Stocks /\ solutions[n].parts \subseteq Instances
  BY <1>1 DEF Solution
<1>3. /\ ~WithinLimit(s)
      /\ unplaced' = unplaced \cup solutions[n].parts
      /\ examined' = n
      /\ UNCHANGED <<counts, kept>>
      /\ UNCHANGED Unlimited
  BY DEF Unlimited
<1>4. kept \subseteq 1..examined /\ n \notin 1..examined
  BY <1>1 DEF TypeOK
<1>5. qty[s] > 0 /\ counts[s] = qty[s]
  <2>1. counts[s] \in Nat /\ qty[s] \in Nat
    BY <1>2 DEF TypeOK
  <2> QED
    BY <1>2, <1>3, <2>1 DEF LimitInv, WithinLimit
<1>6. TypeOK'
  <2>1. n \in 0..Len(solutions) /\ kept \subseteq 1..n
    BY <1>1, <1>4 DEF Total
  <2> QED
    BY <1>2, <1>3, <2>1 DEF TypeOK, Unlimited
<1>7. LimitInv'
  <2>1. (1..n) \ kept = ((1..examined) \ kept) \cup {n}
    BY <1>1, <1>4
  <2>2. /\ \A m \in kept : solutions[m].index < counts[solutions[m].stock]
        /\ \A t \in Stocks : \A k \in Nat : k < counts[t] => Used(t, k)
        /\ \A t \in Stocks : qty[t] > 0 => counts[t] <= qty[t]
    BY DEF LimitInv
  <2>3. \A m \in (1..n) \ kept :
            qty[solutions[m].stock] > 0 /\ counts[solutions[m].stock] = qty[solutions[m].stock]
    BY <1>5, <2>1 DEF LimitInv
  <2>4. ASSUME NEW i \in Instances
        PROVE  i \in unplaced' <=> \E m \in (1..n) \ kept : i \in solutions[m].parts
    BY <1>3, <2>1 DEF LimitInv
  <2> QED
    BY <1>3, <2>2, <2>3, <2>4 DEF LimitInv, Used, Unlimited
<1> QED
  BY <1>3, <1>6, <1>7, LimitFrame

\* Every step preserves the invariant.
LEMMA NextInv == IInv /\ [Next]_vars => IInv'
<1> SUFFICES ASSUME IInv, [Next]_vars PROVE IInv'
  OBVIOUS
<1> USE DEF IInv
<1>1. CASE Prepare
  <2>1. TypeOK'
    BY <1>1 DEF Prepare, TypeOK, Phases
  <2>2. PhaseInv'
    <3>1. Len(sheets) = 0 /\ Len(solutions) = 0 /\ examined = 0
      BY <1>1 DEF Prepare, PhaseInv
    <3> QED
      BY <1>1, <3>1 DEF Prepare, PhaseInv, Total, Fitting
  <2>3. LayoutInv'
    <3>1. sheets' = sheets /\ Fitting' = Fitting /\ pc' # "assign" /\ pc' # "limit"
      BY <1>1 DEF Prepare, Fitting
    <3>2. pc' = "done" => Fitting = {}
      BY <1>1 DEF Prepare
    <3> QED
      BY <3>1, <3>2 DEF LayoutInv, Parts
  <2>4. MatchInv' /\ NumberInv' /\ OverflowInv' /\ LimitInv'
    BY <1>1 DEF Prepare, MatchInv, NumberInv, OverflowInv, LimitInv, Total, SameSize, Used
  <2> QED
    BY <2>1, <2>2, <2>3, <2>4
<1>2. CASE Pack
  BY <1>2, PackStep
<1>3. CASE AssignSheet
  BY <1>3, AssignStep
<1>4. CASE AssignEnds
  <2>1. TypeOK' /\ PhaseInv'
    BY <1>4 DEF AssignEnds, TypeOK, PhaseInv, Phases, Total, Fitting
  <2>2. LayoutInv' /\ MatchInv' /\ NumberInv'
    BY <1>4 DEF AssignEnds, LayoutInv, MatchInv, NumberInv, Parts, Total, Fitting
  <2>3. OverflowInv' /\ LimitInv'
    BY <1>4 DEF AssignEnds, OverflowInv, LimitInv, Total, SameSize, Used
  <2> QED
    BY <2>1, <2>2, <2>3
<1>5. CASE KeepSheet
  BY <1>5, KeepStep
<1>6. CASE DropSheet
  BY <1>6, DropStep
<1>7. CASE Answer
  <2>1. TypeOK' /\ PhaseInv'
    BY <1>7 DEF Answer, TypeOK, PhaseInv, Phases, Total, Fitting
  <2>2. LayoutInv' /\ MatchInv' /\ NumberInv'
    BY <1>7 DEF Answer, LayoutInv, MatchInv, NumberInv, Parts, Total, Fitting
  <2>3. OverflowInv' /\ LimitInv'
    BY <1>7 DEF Answer, OverflowInv, LimitInv, Total, SameSize, Used
  <2> QED
    BY <2>1, <2>2, <2>3
<1>8. CASE UNCHANGED vars
  <2>1. TypeOK' /\ PhaseInv'
    BY <1>8 DEF vars, TypeOK, PhaseInv, Total, Fitting
  <2>2. LayoutInv' /\ MatchInv' /\ NumberInv'
    BY <1>8 DEF vars, LayoutInv, MatchInv, NumberInv, Parts, Total, Fitting
  <2>3. OverflowInv' /\ LimitInv'
    BY <1>8 DEF vars, OverflowInv, LimitInv, Total, SameSize, Used
  <2> QED
    BY <2>1, <2>2, <2>3
<1> QED
  BY <1>1, <1>2, <1>3, <1>4, <1>5, <1>6, <1>7, <1>8 DEF Next, Done

-----------------------------------------------------------------------------
(* The theorems                                                            *)

\* The strengthened invariant holds from the request to the answer.
THEOREM Invariance == Spec => []IInv
  BY InitInv, NextInv, PTL DEF Spec

\* What prepare_input, build_solutions and apply_qty_limits keep is well-typed.
THEOREM TypeCorrect == Spec => []TypeOK
<1>1. IInv => TypeOK
  BY DEF IInv
<1> QED
  BY <1>1, Invariance, PTL

\* The answer accounts for each item instance of the request exactly once.
THEOREM OnceEach == Spec => []EveryInstanceOnce
<1>1. IInv => EveryInstanceOnce
  <2> SUFFICES ASSUME IInv, pc = "done" PROVE EveryInstanceOnce
    BY DEF EveryInstanceOnce
  <2> USE DEF IInv
  <2>1. examined = Total /\ Total = Len(sheets) /\ oversized = Instances \ Fitting
    BY DEF PhaseInv
  <2>2. \A n \in 1..Total : solutions[n].parts = sheets[n].parts
    BY DEF MatchInv
  <2>3. kept \subseteq 1..Total
    BY <2>1 DEF TypeOK
  <2>4. \A m, n \in 1..Total : m # n => solutions[m].parts \cap solutions[n].parts = {}
    BY <2>1, <2>2 DEF LayoutInv
  <2>5. \A n \in 1..Total : solutions[n].parts \subseteq Fitting
    BY <2>1, <2>2 DEF LayoutInv, Parts
  <2>6. \A i \in Fitting : \E n \in 1..Total : i \in solutions[n].parts
    BY <2>1, <2>2 DEF LayoutInv, Parts
  <2>7. \A i \in Instances : i \in unplaced <=> \E n \in (1..Total) \ kept : i \in solutions[n].parts
    BY <2>1 DEF LimitInv
  <2>8. ASSUME NEW i \in Instances
        PROVE  /\ i \in oversized \/ i \in unplaced \/ Placed(i)
               /\ ~(i \in oversized /\ (i \in unplaced \/ Placed(i)))
               /\ ~(i \in unplaced /\ Placed(i))
    <3>1. i \in Fitting => i \in unplaced \/ Placed(i)
      BY <2>6, <2>7 DEF Placed
    <3>2. i \in unplaced \/ Placed(i) => i \in Fitting
      BY <2>3, <2>5, <2>7 DEF Placed
    <3>3. ~(i \in unplaced /\ Placed(i))
      BY <2>3, <2>4, <2>7 DEF Placed
    <3> QED
      BY <2>1, <3>1, <3>2, <3>3
  <2> QED
    BY <2>3, <2>4, <2>8 DEF EveryInstanceOnce
<1> QED
  BY <1>1, Invariance, PTL

\* The sheets of a stock in the answer are numbered 0, 1, ... within its quantity.
THEOREM Numbered == Spec => []SheetsNumbered
<1>1. IInv => SheetsNumbered
  <2> SUFFICES ASSUME IInv, pc = "done" PROVE SheetsNumbered
    BY DEF SheetsNumbered
  <2> USE DEF IInv
  <2>1. kept \subseteq 1..Total
    BY DEF TypeOK, PhaseInv
  <2>2. \A n \in kept : solutions[n].stock \in Stocks /\ solutions[n].index \in Nat
    BY <2>1, SolutionAt
  <2>3. ASSUME NEW m \in kept, NEW n \in kept, m # n
        PROVE  <<solutions[m].stock, solutions[m].index>> # <<solutions[n].stock, solutions[n].index>>
    BY <2>1, <2>3, SheetsApart
  <2>4. ASSUME NEW n \in kept
        PROVE  LET s == solutions[n].stock
               IN  /\ qty[s] > 0 => solutions[n].index < qty[s]
                   /\ \A k \in 0..solutions[n].index : Used(s, k)
    <3> DEFINE s == solutions[n].stock
    <3>1. s \in Stocks /\ solutions[n].index < counts[s] /\ counts[s] \in Nat /\ qty[s] \in Nat
      BY <2>2 DEF LimitInv, TypeOK
    <3>2. qty[s] > 0 => solutions[n].index < qty[s]
      BY <2>2, <3>1 DEF LimitInv
    <3>3. \A k \in 0..solutions[n].index : k \in Nat /\ k < counts[s]
      BY <2>2, <3>1
    <3> QED
      BY <3>1, <3>2, <3>3 DEF LimitInv
  <2> QED
    BY <2>3, <2>4 DEF SheetsNumbered
<1> QED
  BY <1>1, Invariance, PTL

\* A sheet is dropped only when every sheet of its size is used.
THEOREM DroppedForWant == Spec => []NoFalseQtyLimit
<1>1. IInv => NoFalseQtyLimit
  <2> SUFFICES ASSUME IInv, pc = "done",
                      NEW n \in (1..Len(solutions)) \ kept, NEW t \in SameSize(sheets[n].size)
               PROVE  AllUsed(t)
    BY DEF NoFalseQtyLimit
  <2> USE DEF IInv
  <2> DEFINE s == solutions[n].stock
  <2>1. examined = Total /\ n \in 1..Total /\ kept \subseteq 1..Total
    BY DEF PhaseInv, Total, TypeOK
  <2>2. t \in Stocks /\ s \in Stocks /\ solutions[n].index \in Nat
    BY <2>1, SolutionAt DEF SameSize
  <2>3. \A u \in Stocks : qty[u] \in Nat /\ counts[u] \in Nat /\ assigned[u] \in Nat
    BY DEF TypeOK
  <2>4. qty[s] > 0 /\ counts[s] = qty[s]
    BY <2>1 DEF LimitInv
  <2>5. solutions[n].index >= counts[s]
    <3>1. ASSUME solutions[n].index < counts[s] PROVE FALSE
      <4>1. PICK m \in kept : solutions[m].stock = s /\ solutions[m].index = solutions[n].index
        BY <2>2, <3>1 DEF LimitInv, Used
      <4>2. m = n
        BY <2>1, <4>1, SheetsApart
      <4> QED
        BY <4>1, <4>2
    <3> QED
      BY <2>2, <2>3, <3>1
  <2>6. qty[t] > 0 /\ assigned[t] >= qty[t]
    BY <2>1, <2>4, <2>5 DEF OverflowInv
  <2>7. ASSUME NEW k \in 0..(qty[t] - 1) PROVE Used(t, k)
    <3>1. k \in Nat /\ k < qty[t] /\ k < assigned[t]
      BY <2>2, <2>3, <2>6
    <3>2. PICK m \in 1..Total : solutions[m].stock = t /\ solutions[m].index = k
      BY <2>2, <3>1 DEF NumberInv
    <3>3. CASE m \in kept
      BY <3>2, <3>3 DEF Used
    <3>4. CASE m \notin kept
      <4>1. counts[t] = qty[t]
        BY <2>1, <3>2, <3>4 DEF LimitInv
      <4> QED
        BY <2>2, <3>1, <4>1 DEF LimitInv
    <3> QED
      BY <3>3, <3>4
  <2> QED
    BY <2>6, <2>7 DEF AllUsed
<1> QED
  BY <1>1, Invariance, PTL
=============================================================================
