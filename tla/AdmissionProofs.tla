--------------------------- MODULE AdmissionProofs ---------------------------
(***************************************************************************)
(* Theorems about Admission, for every finite set of connections and every *)
(* limit.  The inductive invariant ties the three representations of the   *)
(* semaphore's state together: the permit counter, the queue and the       *)
(* phases of the handlers.                                                 *)
(***************************************************************************)
EXTENDS Admission, SequenceTheorems, FiniteSetTheorems, TLAPS

\* A handler owns a job exactly while it awaits one, and then has room left
\* under the bound to abandon it.
JobMatchesPhase ==
    \A r \in Slots :
        /\ phase[r] = "awaiting" <=> job[r] # "none"
        /\ phase[r] = "awaiting" => orphans[r] < MaxOrphans

\* The inductive invariant: no single one of these is inductive.
IInv ==
    /\ TypeOK
    /\ QueueMatchesPhase
    /\ PermitsConserved
    /\ NoIdlePermit
    /\ JobMatchesPhase

-----------------------------------------------------------------------------
\* Removing position k of a queue keeps the other elements, in order.
LEMMA RemoveAtProperties ==
    ASSUME NEW S, NEW s \in Seq(S), NEW k \in 1..Len(s)
    PROVE  /\ RemoveAt(s, k) \in Seq(S)
           /\ Len(RemoveAt(s, k)) = Len(s) - 1
           /\ \A i \in 1..(Len(s) - 1) :
                RemoveAt(s, k)[i] = IF i < k THEN s[i] ELSE s[i + 1]
<1> DEFINE a == SubSeq(s, 1, k - 1)
           b == SubSeq(s, k + 1, Len(s))
<1>1. /\ a \in Seq(S) /\ Len(a) = k - 1
      /\ \A i \in 1..(k - 1) : a[i] = s[i]
  BY LenProperties, SMT
<1>2. /\ b \in Seq(S) /\ Len(b) = Len(s) - k
      /\ \A i \in 1..(Len(s) - k) : b[i] = s[k + i]
  BY LenProperties, SMT
<1> HIDE DEF a, b
<1>3. /\ a \o b \in Seq(S)
      /\ Len(a \o b) = Len(a) + Len(b)
      /\ \A i \in 1..(Len(a) + Len(b)) :
            (a \o b)[i] = IF i <= Len(a) THEN a[i] ELSE b[i - Len(a)]
  BY <1>1, <1>2, ConcatProperties
<1>4. Len(s) \in Nat
  BY LenProperties
<1>5. ASSUME NEW i \in 1..(Len(s) - 1)
      PROVE  (a \o b)[i] = IF i < k THEN s[i] ELSE s[i + 1]
  BY <1>1, <1>2, <1>3, <1>4, <1>5
<1>6. RemoveAt(s, k) = a \o b
  BY DEF RemoveAt, a, b
<1>7. Len(a) + Len(b) = Len(s) - 1
  BY <1>1, <1>2, <1>4
<1>8. Len(a \o b) = Len(s) - 1
  BY <1>3, <1>7
<1> QED
  BY <1>3, <1>5, <1>6, <1>8

\* A handler that comes to own a permit makes one holder more ...
LEMMA HolderEnters ==
    ASSUME TypeOK, NEW r \in Slots, NEW p \in HoldingPhases,
           phase[r] \notin HoldingPhases, phase' = [phase EXCEPT ![r] = p]
    PROVE  Cardinality(Holders') = Cardinality(Holders) + 1
<1>1. Holders' = Holders \cup {r} /\ r \notin Holders
  BY DEF TypeOK, Holders
<1>2. IsFiniteSet(Holders)
  BY FS_Subset, AdmissionAssumption DEF Holders, AdmissionAssumption
<1> QED
  BY <1>1, <1>2, FS_AddElement

\* ... and one that gives its permit up makes one less.
LEMMA HolderLeaves ==
    ASSUME TypeOK, NEW r \in Slots, NEW p \in Phases \ HoldingPhases,
           phase[r] \in HoldingPhases, phase' = [phase EXCEPT ![r] = p]
    PROVE  Cardinality(Holders') = Cardinality(Holders) - 1
<1>1. Holders' = Holders \ {r} /\ r \in Holders
  BY DEF TypeOK, Holders
<1>2. IsFiniteSet(Holders)
  BY FS_Subset, AdmissionAssumption DEF Holders, AdmissionAssumption
<1> QED
  BY <1>1, <1>2, FS_RemoveElement

\* The holders are finitely many.
LEMMA HoldersNat == Cardinality(Holders) \in Nat /\ IsFiniteSet(Holders)
<1>1. IsFiniteSet(Holders)
  BY FS_Subset, AdmissionAssumption DEF Holders, AdmissionAssumption
<1> QED
  BY <1>1, FS_CardinalityType

\* build_app creates at least one permit.
LEMMA LimitType == Limit \in Nat /\ Limit >= 1
BY AdmissionAssumption DEF AdmissionAssumption, Limit

-----------------------------------------------------------------------------
\* The part of the invariant a step of the semaphore must restore.
SemaphoreInv ==
    /\ permits \in 0..Limit
    /\ waiters \in Seq(Slots)
    /\ phase \in [Slots -> Phases]
    /\ QueueMatchesPhase
    /\ PermitsConserved
    /\ NoIdlePermit

\* Dropping a permit, with or without a waiter to hand it to.
LEMMA ReleaseStep ==
    ASSUME IInv, NEW r \in Slots, NEW p \in Phases \ (HoldingPhases \cup {"queued"}),
           phase[r] \in HoldingPhases, Release(r, p)
    PROVE  SemaphoreInv'
<1> USE DEF IInv, TypeOK
<1>0. Cardinality(Holders) \in Nat /\ IsFiniteSet(Holders) /\ Limit \in Nat
  BY HoldersNat, LimitType
<1>1. CASE waiters = <<>>
  <2>1. phase' = [phase EXCEPT ![r] = p] /\ permits' = permits + 1 /\ waiters' = waiters
    BY <1>1 DEF Release
  <2>2. Cardinality(Holders') = Cardinality(Holders) - 1
    BY <2>1, HolderLeaves
  <2>3. r \in Holders
    BY DEF Holders
  <2>4. Cardinality(Holders) >= 1
    BY <1>0, <2>3, FS_EmptySet
  <2>5. permits' \in 0..Limit /\ PermitsConserved'
    BY <1>0, <2>1, <2>2, <2>4 DEF PermitsConserved
  <2>6. QueueMatchesPhase' /\ NoIdlePermit'
    BY <1>1, <2>1 DEF QueueMatchesPhase, NoIdlePermit, HoldingPhases
  <2> QED
    BY <2>1, <2>5, <2>6 DEF SemaphoreInv
<1>2. CASE waiters # <<>>
  <2> DEFINE h == Head(waiters)
  <2>1. /\ phase' = [phase EXCEPT ![r] = p, ![h] = "granted"]
        /\ permits' = permits /\ waiters' = Tail(waiters)
    BY <1>2 DEF Release
  <2>2. /\ h = waiters[1] /\ Len(waiters) \in Nat /\ Len(waiters) >= 1
        /\ Tail(waiters) \in Seq(Slots) /\ Len(Tail(waiters)) = Len(waiters) - 1
        /\ \A i \in 1..Len(Tail(waiters)) : Tail(waiters)[i] = waiters[i + 1]
    BY <1>2, HeadTailProperties, EmptySeq, LenProperties
  <2>3. h \in Slots /\ phase[h] = "queued" /\ h # r
    BY <2>2, LenProperties DEF QueueMatchesPhase, HoldingPhases
  <2> HIDE DEF h
  <2>4. phase' \in [Slots -> Phases]
    BY <2>1, <2>3 DEF Phases
  <2>5. Holders' = (Holders \ {r}) \cup {h} /\ r \in Holders /\ h \notin Holders
    BY <2>1, <2>3 DEF Holders, HoldingPhases
  <2>6. Cardinality(Holders') = Cardinality(Holders)
    <3>1. IsFiniteSet(Holders \ {r}) /\ Cardinality(Holders \ {r}) = Cardinality(Holders) - 1
      BY <1>0, <2>5, FS_RemoveElement
    <3>2. Cardinality((Holders \ {r}) \cup {h}) = Cardinality(Holders \ {r}) + 1
      BY <3>1, <2>5, FS_AddElement
    <3> QED
      BY <1>0, <2>5, <3>1, <3>2
  <2>7. \A s \in Slots : phase'[s] = "queued" <=> phase[s] = "queued" /\ s # h
    BY <2>1, <2>3 DEF HoldingPhases
  <2>8. QueueMatchesPhase'
    <3>1. ASSUME NEW i \in 1..Len(waiters') PROVE phase'[waiters'[i]] = "queued"
      <4>1. i + 1 \in 1..Len(waiters) /\ waiters'[i] = waiters[i + 1] /\ 1 \in 1..Len(waiters)
        BY <2>1, <2>2
      <4>2. waiters[i + 1] # h /\ phase[waiters[i + 1]] = "queued"
        BY <4>1, <2>2 DEF QueueMatchesPhase
      <4>3. waiters[i + 1] \in Slots
        BY <4>1, ElementOfSeq
      <4> QED
        BY <4>1, <4>2, <4>3, <2>7
    <3>2. ASSUME NEW i \in 1..Len(waiters'), NEW j \in 1..Len(waiters'), waiters'[i] = waiters'[j]
          PROVE  i = j
      <4>1. /\ i + 1 \in 1..Len(waiters) /\ waiters'[i] = waiters[i + 1]
            /\ j + 1 \in 1..Len(waiters) /\ waiters'[j] = waiters[j + 1]
        BY <2>1, <2>2
      <4>2. i + 1 = j + 1
        BY <4>1, <3>2 DEF QueueMatchesPhase
      <4> QED
        BY <4>2
    <3>3. ASSUME NEW s \in Slots, phase'[s] = "queued"
          PROVE  \E i \in 1..Len(waiters') : waiters'[i] = s
      <4>1. PICK i \in 1..Len(waiters) : waiters[i] = s
        BY <2>7, <3>3 DEF QueueMatchesPhase
      <4>2. i # 1
        BY <4>1, <2>2, <2>7, <3>3
      <4>3. i - 1 \in 1..Len(waiters') /\ waiters'[i - 1] = s
        BY <4>1, <4>2, <2>1, <2>2
      <4> QED
        BY <4>3
    <3> QED
      BY <3>1, <3>2, <3>3 DEF QueueMatchesPhase
  <2>9. PermitsConserved' /\ NoIdlePermit'
    BY <1>2, <2>1, <2>6 DEF PermitsConserved, NoIdlePermit
  <2> QED
    BY <2>1, <2>2, <2>4, <2>8, <2>9 DEF SemaphoreInv
<1> QED
  BY <1>1, <1>2

\* Leaving the queue without a permit: a queue timeout or a disconnect.
LEMMA LeaveQueueStep ==
    ASSUME IInv, NEW r \in Slots, NEW p \in Phases \ (HoldingPhases \cup {"queued"}),
           LeaveQueue(r), phase' = [phase EXCEPT ![r] = p]
    PROVE  SemaphoreInv'
<1> USE DEF IInv, TypeOK
<1>1. PICK k \in 1..Len(waiters) : waiters[k] = r /\ waiters' = RemoveAt(waiters, k)
  BY DEF LeaveQueue
<1>2. phase[r] = "queued" /\ permits' = permits
  BY DEF LeaveQueue
<1>3. /\ Len(waiters) \in Nat
      /\ waiters' \in Seq(Slots)
      /\ Len(waiters') = Len(waiters) - 1
      /\ \A i \in 1..Len(waiters') :
            waiters'[i] = IF i < k THEN waiters[i] ELSE waiters[i + 1]
  BY <1>1, RemoveAtProperties, LenProperties
<1>4. ASSUME NEW i \in 1..Len(waiters'), i < k
      PROVE  i \in 1..Len(waiters) /\ i # k /\ waiters'[i] = waiters[i]
  <2>1. waiters'[i] = IF i < k THEN waiters[i] ELSE waiters[i + 1]
    BY <1>3
  <2>2. waiters'[i] = waiters[i]
    BY <1>4, <2>1, Zenon
  <2>3. Len(waiters) \in Nat /\ Len(waiters') = Len(waiters) - 1
    BY <1>3
  <2>4. i \in 1..Len(waiters)
    BY <2>3
  <2>5. i # k
    BY <1>4, <2>3
  <2> QED
    BY <2>2, <2>4, <2>5
<1>5. ASSUME NEW i \in 1..Len(waiters'), ~(i < k)
      PROVE  i + 1 \in 1..Len(waiters) /\ i + 1 # k /\ waiters'[i] = waiters[i + 1]
  <2>1. waiters'[i] = waiters[i + 1]
    BY <1>3, <1>5
  <2>2. i + 1 \in 1..Len(waiters) /\ i + 1 # k
    BY <1>3, <1>5
  <2> QED
    BY <2>1, <2>2
<1>6. /\ Len(waiters) \in Nat
      /\ waiters' \in Seq(Slots)
      /\ Len(waiters') = Len(waiters) - 1
      /\ \A i \in 1..Len(waiters') : i < k =>
            i \in 1..Len(waiters) /\ i # k /\ waiters'[i] = waiters[i]
      /\ \A i \in 1..Len(waiters') : ~(i < k) =>
            i + 1 \in 1..Len(waiters) /\ i + 1 # k /\ waiters'[i] = waiters[i + 1]
  BY <1>3, <1>4, <1>5
<1>7. Holders' = Holders
  BY <1>2 DEF Holders, HoldingPhases
<1>8. PermitsConserved'
  BY <1>2, <1>7 DEF PermitsConserved
<1>9. NoIdlePermit'
  <2>1. waiters # <<>>
    BY <1>1, EmptySeq
  <2> QED
    BY <1>2, <2>1 DEF NoIdlePermit
<1>10. QueueMatchesPhase'
  <2>1. ASSUME NEW i \in 1..Len(waiters')
        PROVE  phase'[waiters'[i]] = "queued"
    <3>1. PICK m \in 1..Len(waiters) : m # k /\ waiters'[i] = waiters[m]
      <4>1. CASE i < k
        BY <1>4, <4>1
      <4>2. CASE ~(i < k)
        BY <1>5, <4>2
      <4> QED
        BY <4>1, <4>2
    <3>2. waiters[m] # r /\ phase[waiters[m]] = "queued" /\ waiters[m] \in Slots
      BY <1>1, <3>1, ElementOfSeq DEF QueueMatchesPhase
    <3> QED
      BY <3>1, <3>2
  <2>2. ASSUME NEW i \in 1..Len(waiters'), NEW j \in 1..Len(waiters'), waiters'[i] = waiters'[j]
        PROVE  i = j
    <3> DEFINE old(n) == IF n < k THEN n ELSE n + 1
    <3>1. ASSUME NEW n \in 1..Len(waiters')
          PROVE  old(n) \in 1..Len(waiters) /\ waiters'[n] = waiters[old(n)]
      <4>1. CASE n < k
        BY <1>4, <4>1
      <4>2. CASE ~(n < k)
        BY <1>5, <4>2
      <4> QED
        BY <4>1, <4>2
    <3>2. waiters[old(i)] = waiters[old(j)]
      BY <3>1, <2>2
    <3>3. old(i) = old(j)
      BY <3>1, <3>2 DEF QueueMatchesPhase
    <3> QED
      BY <3>3
  <2>3. ASSUME NEW s \in Slots, phase'[s] = "queued"
        PROVE  \E i \in 1..Len(waiters') : waiters'[i] = s
    <3>1. s # r /\ phase[s] = "queued"
      BY <2>3
    <3>2. PICK i \in 1..Len(waiters) : waiters[i] = s
      BY <3>1 DEF QueueMatchesPhase
    <3>3. i # k
      BY <1>1, <3>1, <3>2
    <3>4. CASE i < k
      <4>1. i \in 1..Len(waiters')
        BY <1>6, <3>4
      <4>2. waiters'[i] = waiters[i]
        BY <1>6, <3>4, <4>1
      <4> QED
        BY <3>2, <4>1, <4>2
    <3>5. CASE i > k
      <4>1. i - 1 \in 1..Len(waiters') /\ ~(i - 1 < k) /\ (i - 1) + 1 = i
        BY <1>6, <3>5
      <4>2. waiters'[i - 1] = waiters[i]
        BY <1>6, <4>1
      <4> QED
        BY <3>2, <4>1, <4>2
    <3> QED
      BY <3>3, <3>4, <3>5
  <2> QED
    BY <2>1, <2>2, <2>3 DEF QueueMatchesPhase
<1> QED
  BY <1>2, <1>6, <1>8, <1>9, <1>10 DEF SemaphoreInv

\* A step that moves r between phases of the same side of the permit.
LEMMA SamePermitStep ==
    ASSUME IInv, NEW r \in Slots, NEW p \in Phases \ {"queued"},
           phase[r] # "queued", p \in HoldingPhases <=> phase[r] \in HoldingPhases,
           phase' = [phase EXCEPT ![r] = p], UNCHANGED <<permits, waiters>>
    PROVE  SemaphoreInv'
<1> USE DEF IInv, TypeOK
<1>1. Holders' = Holders
  BY DEF Holders
<1>2. PermitsConserved' /\ NoIdlePermit'
  BY <1>1 DEF PermitsConserved, NoIdlePermit
<1>3. \A s \in Slots : phase'[s] = "queued" <=> phase[s] = "queued"
  OBVIOUS
<1>4. QueueMatchesPhase'
  BY <1>3, ElementOfSeq DEF QueueMatchesPhase
<1> QED
  BY <1>2, <1>4 DEF SemaphoreInv

\* A permit taken without waiting.
LEMMA AdmitStep ==
    ASSUME IInv, NEW r \in Slots, Admit(r)
    PROVE  SemaphoreInv'
<1> USE DEF IInv, TypeOK, Admit
<1>1. Cardinality(Holders') = Cardinality(Holders) + 1
  BY HolderEnters DEF HoldingPhases
<1>2. PermitsConserved' /\ permits' \in 0..Limit
  BY <1>1, HoldersNat, LimitType DEF PermitsConserved
<1>3. NoIdlePermit'
  BY DEF NoIdlePermit
<1>4. \A s \in Slots : phase'[s] = "queued" <=> phase[s] = "queued"
  OBVIOUS
<1>5. QueueMatchesPhase'
  BY <1>4, ElementOfSeq DEF QueueMatchesPhase
<1> QED
  BY <1>2, <1>3, <1>5 DEF SemaphoreInv, Phases

\* Joining the queue.
LEMMA EnqueueStep ==
    ASSUME IInv, NEW r \in Slots, Enqueue(r)
    PROVE  SemaphoreInv'
<1> USE DEF IInv, TypeOK, Enqueue
<1>1. /\ Len(waiters) \in Nat
      /\ waiters' \in Seq(Slots)
      /\ Len(waiters') = Len(waiters) + 1
      /\ \A i \in 1..Len(waiters) : waiters'[i] = waiters[i]
      /\ waiters'[Len(waiters) + 1] = r
  BY AppendProperties, LenProperties
<1>2. Holders' = Holders
  BY DEF Holders, HoldingPhases
<1>3. PermitsConserved' /\ NoIdlePermit'
  BY <1>2 DEF PermitsConserved, NoIdlePermit
<1>4. \A s \in Slots : phase'[s] = "queued" <=> phase[s] = "queued" \/ s = r
  OBVIOUS
<1>5. \A i \in 1..Len(waiters) : waiters[i] # r /\ waiters[i] \in Slots
  BY ElementOfSeq DEF QueueMatchesPhase
<1>6. \A i \in 1..Len(waiters') : i \in 1..Len(waiters) \/ i = Len(waiters) + 1
  BY <1>1
<1>7. QueueMatchesPhase'
  <2>1. ASSUME NEW i \in 1..Len(waiters') PROVE phase'[waiters'[i]] = "queued"
    BY <1>1, <1>4, <1>5, <1>6 DEF QueueMatchesPhase
  <2>2. ASSUME NEW i \in 1..Len(waiters'), NEW j \in 1..Len(waiters'), waiters'[i] = waiters'[j]
        PROVE  i = j
    BY <1>1, <1>5, <1>6, <2>2 DEF QueueMatchesPhase
  <2>3. ASSUME NEW s \in Slots, phase'[s] = "queued"
        PROVE  \E i \in 1..Len(waiters') : waiters'[i] = s
    <3>1. CASE s = r
      BY <1>1, <3>1
    <3>2. CASE s # r
      <4>1. PICK i \in 1..Len(waiters) : waiters[i] = s
        BY <1>4, <2>3, <3>2 DEF QueueMatchesPhase
      <4>2. i \in 1..Len(waiters') /\ waiters'[i] = s
        BY <1>1, <4>1
      <4> QED
        BY <4>2
    <3> QED
      BY <3>1, <3>2
  <2> QED
    BY <2>1, <2>2, <2>3 DEF QueueMatchesPhase
<1> QED
  BY <1>1, <1>3, <1>7 DEF SemaphoreInv, Phases

-----------------------------------------------------------------------------
\* The initial state satisfies the invariant.
LEMMA InitIInv == Init => IInv
<1> SUFFICES ASSUME Init PROVE IInv
  OBVIOUS
<1> USE DEF Init
<1>1. TypeOK
  <2>1. 0 \in 0..MaxJobs /\ 0 \in 0..MaxOrphans
    BY AdmissionAssumption DEF AdmissionAssumption
  <2>2. permits \in 0..Limit
    BY LimitType
  <2>3. waiters \in Seq(Slots)
    BY EmptySeq
  <2> QED
    BY <2>1, <2>2, <2>3 DEF TypeOK, Phases, JobStates, Responses
<1>2. PermitsConserved
  <2>1. Holders = {}
    BY DEF Holders, HoldingPhases
  <2> QED
    BY <2>1, FS_EmptySet, LimitType DEF PermitsConserved
<1>3. QueueMatchesPhase
  <2>1. Len(waiters) = 0
    BY EmptySeq
  <2> QED
    BY <2>1 DEF QueueMatchesPhase
<1>4. NoIdlePermit /\ JobMatchesPhase
  BY DEF NoIdlePermit, JobMatchesPhase
<1> QED
  BY <1>1, <1>2, <1>3, <1>4 DEF IInv

\* The rest of the invariant: what a step must restore outside the semaphore.
RequestInv ==
    /\ queueing \in BOOLEAN
    /\ job \in [Slots -> JobStates]
    /\ launched \in [Slots -> 0..MaxJobs]
    /\ orphans \in [Slots -> 0..MaxOrphans]
    /\ response \in [Slots -> Responses]
    /\ JobMatchesPhase

\* The invariant is what the semaphore's steps and the handlers' steps restore.
LEMMA IInvParts == IInv <=> SemaphoreInv /\ RequestInv
BY DEF IInv, TypeOK, SemaphoreInv, RequestInv

\* A handler that ends moves to its last phase, and no other handler does.
LEMMA ReleasePhase ==
    ASSUME IInv, NEW r \in Slots, phase[r] \in HoldingPhases,
           NEW p \in {"answered", "dropped"}, Release(r, p)
    PROVE  /\ phase'[r] = p
           /\ \A s \in Slots : s # r => (phase'[s] = "awaiting" <=> phase[s] = "awaiting")
<1>1. CASE waiters = <<>>
  BY <1>1 DEF Release, IInv, TypeOK
<1>2. CASE waiters # <<>>
  <2>1. 1 \in 1..Len(waiters) /\ Head(waiters) = waiters[1] /\ Head(waiters) \in Slots
    BY <1>2, EmptySeq, HeadTailProperties, LenProperties DEF IInv, TypeOK
  <2>2. phase[Head(waiters)] = "queued"
    BY <2>1 DEF IInv, QueueMatchesPhase
  <2> QED
    BY <1>2, <2>1, <2>2 DEF Release, IInv, TypeOK, HoldingPhases
<1> QED
  BY <1>1, <1>2

\* Every step of every handler preserves the invariant.
LEMMA StepIInv == IInv /\ [Next]_vars => IInv'
<1> SUFFICES ASSUME IInv, [Next]_vars PROVE SemaphoreInv' /\ RequestInv'
  BY IInvParts, IInvParts, PTL
<1> USE AdmissionAssumption DEF AdmissionAssumption
<1>0. SemaphoreInv /\ RequestInv /\ TypeOK
  BY IInvParts DEF IInv
<1>1. ASSUME NEW r \in Slots, RejectInvalid(r) PROVE SemaphoreInv' /\ RequestInv'
  <2>1. SemaphoreInv'
    BY <1>1, SamePermitStep DEF RejectInvalid, HoldingPhases, Phases
  <2>2. RequestInv'
    BY <1>0, <1>1 DEF RejectInvalid, RequestInv, jobVars, Responses, JobMatchesPhase, TypeOK
  <2> QED
    BY <2>1, <2>2
<1>2. ASSUME NEW r \in Slots, Admit(r) PROVE SemaphoreInv' /\ RequestInv'
  <2>1. SemaphoreInv'
    BY <1>2, AdmitStep
  <2>2. RequestInv'
    BY <1>0, <1>2 DEF Admit, RequestInv, jobVars, JobMatchesPhase, TypeOK
  <2> QED
    BY <2>1, <2>2
<1>3. ASSUME NEW r \in Slots, RejectBusy(r) PROVE SemaphoreInv' /\ RequestInv'
  <2>1. SemaphoreInv'
    BY <1>3, SamePermitStep DEF RejectBusy, HoldingPhases, Phases
  <2>2. RequestInv'
    BY <1>0, <1>3 DEF RejectBusy, RequestInv, jobVars, Responses, JobMatchesPhase, TypeOK
  <2> QED
    BY <2>1, <2>2
<1>4. ASSUME NEW r \in Slots, Enqueue(r) PROVE SemaphoreInv' /\ RequestInv'
  <2>1. SemaphoreInv'
    BY <1>4, EnqueueStep
  <2>2. RequestInv'
    BY <1>0, <1>4 DEF Enqueue, RequestInv, jobVars, JobMatchesPhase, TypeOK
  <2> QED
    BY <2>1, <2>2
<1>5. ASSUME NEW r \in Slots, WakeUp(r) PROVE SemaphoreInv' /\ RequestInv'
  <2>1. SemaphoreInv'
    BY <1>5, SamePermitStep DEF WakeUp, HoldingPhases, Phases
  <2>2. RequestInv'
    BY <1>0, <1>5 DEF WakeUp, RequestInv, jobVars, JobMatchesPhase, TypeOK
  <2> QED
    BY <2>1, <2>2
<1>6. ASSUME NEW r \in Slots, QueueTimeout(r) PROVE SemaphoreInv' /\ RequestInv'
  <2>1. SemaphoreInv'
    BY <1>6, LeaveQueueStep DEF QueueTimeout, HoldingPhases, Phases
  <2>2. RequestInv'
    BY <1>0, <1>6 DEF QueueTimeout, LeaveQueue, RequestInv, jobVars, Responses, JobMatchesPhase, TypeOK
  <2> QED
    BY <2>1, <2>2
<1>7. ASSUME NEW r \in Slots, StartJob(r) PROVE SemaphoreInv' /\ RequestInv'
  <2>1. SemaphoreInv'
    BY <1>7, SamePermitStep DEF StartJob, HoldingPhases, Phases
  <2>2. RequestInv'
    BY <1>0, <1>7 DEF StartJob, RequestInv, JobStates, JobMatchesPhase, TypeOK
  <2> QED
    BY <2>1, <2>2
<1>8. ASSUME NEW r \in Slots, JobReturns(r) PROVE SemaphoreInv' /\ RequestInv'
  <2>1. SemaphoreInv'
    BY <1>8, SamePermitStep DEF JobReturns, HoldingPhases, Phases
  <2>2. RequestInv'
    BY <1>0, <1>8 DEF JobReturns, RequestInv, JobStates, JobMatchesPhase, TypeOK
  <2> QED
    BY <2>1, <2>2
<1>9. ASSUME NEW r \in Slots, SliceTimeout(r) PROVE SemaphoreInv' /\ RequestInv'
  <2>1. SemaphoreInv'
    BY <1>9, SamePermitStep DEF SliceTimeout, HoldingPhases, Phases
  <2>2. RequestInv'
    BY <1>0, <1>9 DEF SliceTimeout, RequestInv, JobStates, JobMatchesPhase, TypeOK
  <2> QED
    BY <2>1, <2>2
<1>10. ASSUME NEW r \in Slots, Serve(r) PROVE SemaphoreInv' /\ RequestInv'
  <2>1. SemaphoreInv'
    BY <1>10, ReleaseStep DEF Serve, HoldingPhases, Phases
  <2>2. RequestInv'
    <3>1. phase'[r] = "answered" /\ \A s \in Slots : s # r => (phase'[s] = "awaiting" <=> phase[s] = "awaiting")
      BY <1>10, ReleasePhase DEF Serve, HoldingPhases
    <3> QED
      BY <1>0, <1>10, <3>1 DEF Serve, RequestInv, jobVars, Responses, JobMatchesPhase, TypeOK
  <2> QED
    BY <2>1, <2>2
<1>11. ASSUME NEW r \in Slots, DisconnectQueued(r) PROVE SemaphoreInv' /\ RequestInv'
  <2>1. SemaphoreInv'
    BY <1>11, LeaveQueueStep DEF DisconnectQueued, HoldingPhases, Phases
  <2>2. RequestInv'
    BY <1>0, <1>11 DEF DisconnectQueued, LeaveQueue, RequestInv, jobVars, JobMatchesPhase, TypeOK
  <2> QED
    BY <2>1, <2>2
<1>12. ASSUME NEW r \in Slots, DisconnectGranted(r) PROVE SemaphoreInv' /\ RequestInv'
  <2>1. SemaphoreInv'
    BY <1>12, ReleaseStep DEF DisconnectGranted, HoldingPhases, Phases
  <2>2. RequestInv'
    <3>1. phase'[r] = "dropped" /\ \A s \in Slots : s # r => (phase'[s] = "awaiting" <=> phase[s] = "awaiting")
      BY <1>12, ReleasePhase DEF DisconnectGranted, HoldingPhases
    <3> QED
      BY <1>0, <1>12, <3>1 DEF DisconnectGranted, RequestInv, jobVars, JobMatchesPhase, TypeOK
  <2> QED
    BY <2>1, <2>2
<1>13. ASSUME NEW r \in Slots, DisconnectAwaiting(r) PROVE SemaphoreInv' /\ RequestInv'
  <2>1. SemaphoreInv'
    BY <1>13, ReleaseStep DEF DisconnectAwaiting, HoldingPhases, Phases
  <2>2. RequestInv'
    <3>1. phase'[r] = "dropped" /\ \A s \in Slots : s # r => (phase'[s] = "awaiting" <=> phase[s] = "awaiting")
      BY <1>13, ReleasePhase DEF DisconnectAwaiting, HoldingPhases
    <3>2. orphans[r] + 1 \in 0..MaxOrphans
      BY <1>0, <1>13 DEF DisconnectAwaiting, RequestInv, JobMatchesPhase
    <3> QED
      BY <1>0, <1>13, <3>1, <3>2 DEF DisconnectAwaiting, RequestInv, JobStates, JobMatchesPhase, TypeOK
  <2> QED
    BY <2>1, <2>2
<1>14. ASSUME NEW r \in Slots, OrphanEnds(r) PROVE SemaphoreInv' /\ RequestInv'
  <2>1. SemaphoreInv'
    BY <1>0, <1>14 DEF OrphanEnds, SemaphoreInv, QueueMatchesPhase, PermitsConserved, NoIdlePermit, Holders
  <2>2. RequestInv'
    BY <1>0, <1>14 DEF OrphanEnds, RequestInv, JobMatchesPhase, TypeOK
  <2> QED
    BY <2>1, <2>2
<1>15. ASSUME NEW r \in Slots, NextRequest(r) PROVE SemaphoreInv' /\ RequestInv'
  <2>1. SemaphoreInv'
    BY <1>15, SamePermitStep DEF NextRequest, HoldingPhases, Phases
  <2>2. RequestInv'
    BY <1>0, <1>15 DEF NextRequest, RequestInv, Responses, JobMatchesPhase, TypeOK
  <2> QED
    BY <2>1, <2>2
<1>16. CASE UNCHANGED vars
  BY <1>0, <1>16 DEF vars, SemaphoreInv, RequestInv, QueueMatchesPhase, PermitsConserved,
                     NoIdlePermit, Holders, JobMatchesPhase
<1> QED
  BY <1>1, <1>2, <1>3, <1>4, <1>5, <1>6, <1>7, <1>8, <1>9, <1>10, <1>11, <1>12, <1>13,
     <1>14, <1>15, <1>16 DEF Next


-----------------------------------------------------------------------------
\* The inductive invariant holds in every state.
LEMMA Invariance == Spec => []IInv
<1> QED
  BY InitIInv, StepIInv, PTL DEF Spec

\* The variables of the admission code keep their types; in particular the
\* permit counter never exceeds the limit build_app created it with.
THEOREM TypeCorrect == Spec => []TypeOK
<1>1. IInv => TypeOK
  BY DEF IInv
<1> QED
  BY <1>1, Invariance, PTL

\* No way a handler can end leaks or duplicates a permit of optimize_semaphore.
THEOREM PermitConservation == Spec => []PermitsConserved
<1>1. IInv => PermitsConserved
  BY DEF IInv
<1> QED
  BY <1>1, Invariance, PTL

\* The semaphore's queue is the set of the handlers suspended in acquire_owned.
THEOREM QueueAgreement == Spec => []QueueMatchesPhase
<1>1. IInv => QueueMatchesPhase
  BY DEF IInv
<1> QED
  BY <1>1, Invariance, PTL

\* No request waits for a permit that is free.
THEOREM WorkConserving == Spec => []NoIdlePermit
<1>1. IInv => NoIdlePermit
  BY DEF IInv
<1> QED
  BY <1>1, Invariance, PTL

\* Never more than max(1, max_concurrent_optimize) handlers await a job.
THEOREM AwaitedBound == Spec => []AwaitedJobsBounded
<1>1. IInv => AwaitedJobsBounded
  <2> SUFFICES ASSUME IInv PROVE Cardinality(Awaiting) <= Limit
    BY DEF AwaitedJobsBounded
  <2>1. Awaiting \in SUBSET Holders
    BY DEF Awaiting, Holders, HoldingPhases
  <2>2. Cardinality(Awaiting) <= Cardinality(Holders) /\ Cardinality(Awaiting) \in Nat
    BY <2>1, HoldersNat, FS_Subset, FS_CardinalityType
  <2> QED
    BY <2>2, HoldersNat, LimitType DEF IInv, TypeOK, PermitsConserved
<1> QED
  BY <1>1, Invariance, PTL

\* 429 OVERLOADED is only ever sent while every permit is owned by another
\* handler, with and without queueing.
THEOREM OverloadedJustified == Spec => OverloadedOnlyWhenBusy
<1> DEFINE Justified ==
        \A r \in Slots :
            response[r] = "none" /\ response'[r] = "overloaded"
                => Cardinality(Holders \ {r}) = Limit
<1>1. IInv /\ [Next]_vars => [Justified]_vars
  <2> SUFFICES ASSUME IInv, [Next]_vars,
                      NEW r \in Slots, response[r] = "none", response'[r] = "overloaded"
               PROVE  Cardinality(Holders \ {r}) = Limit
    OBVIOUS
  <2>1. permits = 0 /\ phase[r] \notin HoldingPhases
    <3>1. ASSUME NEW s \in Slots, RejectBusy(s) PROVE permits = 0 /\ phase[r] \notin HoldingPhases
      BY <3>1 DEF RejectBusy, IInv, TypeOK, HoldingPhases
    <3>2. ASSUME NEW s \in Slots, QueueTimeout(s) PROVE permits = 0 /\ phase[r] \notin HoldingPhases
      <4>1. s = r
        BY <3>2 DEF QueueTimeout, IInv, TypeOK
      <4>2. waiters # <<>>
        BY <3>2, EmptySeq DEF QueueTimeout, LeaveQueue
      <4> QED
        BY <3>2, <4>1, <4>2 DEF QueueTimeout, LeaveQueue, IInv, NoIdlePermit, HoldingPhases
    <3>3. Next
      BY DEF vars
    <3>4. \E s \in Slots : RejectBusy(s) \/ QueueTimeout(s)
      BY <3>3 DEF Next, RejectInvalid, Admit, Enqueue, WakeUp, StartJob, JobReturns,
                  SliceTimeout, Serve, DisconnectQueued, DisconnectGranted,
                  DisconnectAwaiting, OrphanEnds, NextRequest, jobVars, IInv, TypeOK
    <3> QED
      BY <3>1, <3>2, <3>4
  <2>2. Holders \ {r} = Holders
    BY <2>1 DEF Holders
  <2>3. Cardinality(Holders) = Limit
    BY <2>1, HoldersNat, LimitType DEF IInv, PermitsConserved
  <2> QED
    BY <2>2, <2>3, Zenon
<1> QED
  BY <1>1, Invariance, PTL DEF Spec, OverloadedOnlyWhenBusy

\* The queue is first come, first served: whoever gets a permit while r keeps
\* waiting was ahead of r in the queue.
THEOREM FairAdmission == Spec => FirstComeFirstServed
<1> DEFINE Fair ==
        \A r, s \in Slots :
            /\ phase[r] = "queued" /\ phase'[r] = "queued"
            /\ phase[s] \in {"idle", "queued"} /\ phase'[s] \in HoldingPhases
            => Ahead(s, r)
<1>1. IInv /\ [Next]_vars => [Fair]_vars
  <2> SUFFICES ASSUME IInv, [Next]_vars, NEW r \in Slots, NEW s \in Slots,
                      phase[r] = "queued", phase'[r] = "queued",
                      phase[s] \in {"idle", "queued"}, phase'[s] \in HoldingPhases
               PROVE  Ahead(s, r)
    OBVIOUS
  <2>1. PICK j \in 1..Len(waiters) : waiters[j] = r
    BY DEF IInv, QueueMatchesPhase
  <2>2. waiters # <<>> /\ permits = 0
    BY <2>1, EmptySeq DEF IInv, NoIdlePermit
  <2>3. Head(waiters) = waiters[1] /\ Len(waiters) \in Nat
    BY <2>2, EmptySeq DEF IInv, TypeOK
  <2>4. ASSUME NEW t \in Slots, NEW p \in {"answered", "dropped"}, Release(t, p)
        PROVE  Ahead(s, r)
    <3>1. phase' = [phase EXCEPT ![t] = p, ![Head(waiters)] = "granted"]
      BY <2>2, <2>4 DEF Release
    <3>2. s = Head(waiters)
      BY <3>1 DEF HoldingPhases, IInv, TypeOK
    <3>3. j # 1
      <4>1. SUFFICES ASSUME j = 1 PROVE FALSE
        OBVIOUS
      <4>2. Head(waiters) = r
        BY <2>1, <2>3, <4>1
      <4> QED
        BY <3>1, <4>2 DEF IInv, TypeOK
    <3>4. 1 \in 1..Len(waiters) /\ 1 < j
      BY <2>3, <3>3
    <3> QED
      BY <2>1, <2>3, <3>2, <3>4 DEF Ahead
  <2>5. Next
    BY DEF vars, HoldingPhases
  <2>6. PICK t \in Slots :
            \/ RejectInvalid(t) \/ Admit(t) \/ RejectBusy(t) \/ Enqueue(t) \/ WakeUp(t)
            \/ QueueTimeout(t) \/ StartJob(t) \/ JobReturns(t) \/ SliceTimeout(t)
            \/ Serve(t) \/ DisconnectQueued(t) \/ DisconnectGranted(t)
            \/ DisconnectAwaiting(t) \/ OrphanEnds(t) \/ NextRequest(t)
    BY <2>5 DEF Next
  <2>7. CASE Serve(t) \/ DisconnectGranted(t) \/ DisconnectAwaiting(t)
    BY <2>4, <2>7 DEF Serve, DisconnectGranted, DisconnectAwaiting
  <2>8. ~Admit(t)
    BY <2>2 DEF Admit
  <2>9. CASE ~(Serve(t) \/ DisconnectGranted(t) \/ DisconnectAwaiting(t))
    BY <2>6, <2>8, <2>9 DEF RejectInvalid, RejectBusy, Enqueue, WakeUp, QueueTimeout,
        LeaveQueue, StartJob, JobReturns, SliceTimeout, DisconnectQueued, OrphanEnds,
        NextRequest, HoldingPhases, IInv, TypeOK
  <2> QED
    BY <2>7, <2>9
<1> QED
  BY <1>1, Invariance, PTL DEF Spec, FirstComeFirstServed
=============================================================================
