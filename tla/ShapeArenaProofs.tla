-------------------------- MODULE ShapeArenaProofs --------------------------
(***************************************************************************)
(* The arena, for any sizes of its index and generation, any capacity and  *)
(* number of scopes: its invariant, and that it implements HandleTable.    *)
(***************************************************************************)
EXTENDS ShapeArena, FiniteSetTheorems, SequenceTheorems, TLAPS

\* A handle decodes to the generation and the index it was built from.
LEMMA HandleCoding ==
  ASSUME NEW g \in 0 .. GenerationMask, NEW i \in 0 .. IndexMask
  PROVE  /\ HandleOf(g, i) \in Handle
         /\ EncodedIndex(HandleOf(g, i)) = i
         /\ Generation(HandleOf(g, i)) = g
<1> DEFINE N == IndexMask + 1
           h == g * N + i
<1>1. N \in Nat \ {0} /\ g \in Nat /\ i \in 0 .. N - 1 /\ GenerationMask \in Nat
  BY ArenaAssumption
<1>2. g * N \in Nat /\ (g + 1) * N = g * N + N
  BY <1>1
<1>3. (g + 1) * N <= (GenerationMask + 1) * N
  BY <1>1
<1>4. h \in Handle
  BY <1>1, <1>2, <1>3 DEF Handle
<1>5. h % N = i /\ h \div N = g
  BY <1>1, <1>2
<1>6. g % (GenerationMask + 1) = g
  BY <1>1
<1>. QED
  BY <1>4, <1>5, <1>6 DEF HandleOf, EncodedIndex, Generation

\* A handle is rebuilt from the index and the generation it decodes to.
LEMMA HandleDecoding ==
  ASSUME NEW h \in Handle
  PROVE  /\ EncodedIndex(h) \in 0 .. IndexMask
         /\ Generation(h) \in 0 .. GenerationMask
         /\ h = HandleOf(Generation(h), EncodedIndex(h))
<1> DEFINE N == IndexMask + 1
<1>1. N \in Nat \ {0} /\ IndexMask = N - 1 /\ GenerationMask \in Nat
  BY ArenaAssumption
<1>2. (GenerationMask + 1) * N \in Nat
  BY <1>1
<1>3. h \in Nat
  BY <1>2 DEF Handle
<1>. HIDE DEF N
<1>4. h % N \in 0 .. N - 1 /\ h \div N \in Nat /\ h = (h \div N) * N + (h % N)
  BY <1>1, <1>3
<1>5. h < (GenerationMask + 1) * N
  BY <1>2, <1>3 DEF Handle, N
<1>6. h \div N <= GenerationMask
  <2> DEFINE q == h \div N
  <2>1. q \in Nat /\ q * N <= h
    BY <1>1, <1>4
  <2>2. CASE q >= GenerationMask + 1
    <3>1. q * N >= (GenerationMask + 1) * N
      BY <1>1, <2>1, <2>2
    <3>. QED
      BY <1>1, <1>2, <1>3, <1>5, <2>1, <3>1
  <2>3. CASE q < GenerationMask + 1
    BY <1>1, <2>1, <2>3
  <2>. QED
    BY <1>1, <2>1, <2>2, <2>3
<1>7. \A q \in 0 .. GenerationMask : q % (GenerationMask + 1) = q
  BY <1>1
<1>8. (h \div N) \in 0 .. GenerationMask
  BY <1>1, <1>4, <1>6
<1>. QED
  BY <1>1, <1>4, <1>7, <1>8 DEF HandleOf, EncodedIndex, Generation, N

-----------------------------------------------------------------------------
(* Sequences, enumerations and slots.                                      *)

\* A function on 1 .. n is a sequence of length n.
LEMMA FunctionIsSeq ==
  ASSUME NEW S, NEW n \in Nat, NEW f \in [1 .. n -> S]
  PROVE  f \in Seq(S) /\ Len(f) = n /\ DOMAIN f = 1 .. n
<1>1. f \in Seq(S)
  BY SeqDef
<1>2. DOMAIN f = 1 .. n /\ DOMAIN f = 1 .. Len(f) /\ Len(f) \in Nat
  BY <1>1, LenProperties
<1>. QED
  BY <1>1, <1>2

\* An enumeration of a finite set visits each of its members exactly once.
LEMMA EnumerationFacts ==
  ASSUME NEW S, IsFiniteSet(S), NEW order \in Enumerations(S)
  PROVE  /\ order \in Seq(S)
         /\ Len(order) = Cardinality(S)
         /\ \A n \in 1 .. Len(order) : order[n] \in S
         /\ \A m, n \in 1 .. Len(order) : order[m] = order[n] => m = n
         /\ \A x \in S : \E n \in 1 .. Len(order) : order[n] = x
<1> DEFINE c == Cardinality(S)
<1>1. c \in Nat
  BY FS_CardinalityType
<1>2. order \in [1 .. c -> S] /\ \A m, n \in 1 .. c : order[m] = order[n] => m = n
  BY DEF Enumerations
<1>3. order \in Seq(S) /\ Len(order) = c
  BY <1>1, <1>2, FunctionIsSeq
<1>4. IsFiniteSet(1 .. c) /\ Cardinality(1 .. c) = c
  BY <1>1, FS_Interval
<1>5. order \in Injection(1 .. c, S)
  BY <1>2 DEF Injection, IsInjective
<1>6. order \in Surjection(1 .. c, S)
  BY <1>4, <1>5, FS_Injection
<1>. QED
  BY <1>2, <1>3, <1>6 DEF Surjection

\* A vacated slot is not live and keeps its scope; its generation grows unless it is
\* exhausted, and then the slot is retired.
LEMMA VacatedFacts ==
  ASSUME NEW x \in Slot
  PROVE  /\ Vacated(x) \in Slot
         /\ ~Vacated(x).live
         /\ Vacated(x).scope = x.scope
         /\ Vacated(x).creationSequence = x.creationSequence
         /\ x.generation = GenerationMask =>
              Vacated(x).retired /\ Vacated(x).generation = x.generation
         /\ x.generation # GenerationMask =>
              /\ Vacated(x).retired = x.retired
              /\ Vacated(x).generation = x.generation + 1
<1>1. CASE Exhausted(x)
  BY <1>1, ArenaAssumption DEF Vacated, Exhausted, Slot
<1>2. CASE ~Exhausted(x)
  <2>1. x.generation + 1 \in 1 .. GenerationMask
    BY <1>2, ArenaAssumption DEF Exhausted, Slot
  <2>. QED
    BY <1>2, <2>1 DEF Vacated, Exhausted, Slot
<1>. QED
  BY <1>1, <1>2

\* An occupied slot is live, in the scope it was added to, and of the generation it had.
LEMMA OccupiedFacts ==
  ASSUME NEW x \in Slot, NEW s \in ScopeId, creationSequence \in Nat
  PROVE  /\ Occupied(x, s) \in Slot
         /\ Occupied(x, s).live
         /\ Occupied(x, s).scope = s
         /\ Occupied(x, s).retired = x.retired
         /\ Occupied(x, s).generation = x.generation
         /\ Occupied(x, s).creationSequence = creationSequence + 1
BY DEF Occupied, Slot

\* The slot emplace_back makes is a slot.
LEMMA NewSlotFacts == NewSlot \in Slot
BY ArenaAssumption DEF NewSlot, Slot, ScopeId

\* The handle of a slot decodes to the slot, and get() accepts a handle exactly
\* when it is the handle of a live slot.
LEMMA HandleAtFacts ==
  ASSUME TypeOK
  PROVE  /\ DOMAIN slots = 1 .. Len(slots) /\ Len(slots) \in 0 .. IndexMask
         /\ \A i \in DOMAIN slots :
              /\ slots[i] \in Slot
              /\ HandleAt(i) \in Handle
              /\ EncodedIndex(HandleAt(i)) = i
              /\ Generation(HandleAt(i)) = slots[i].generation
              /\ Valid(HandleAt(i)) <=> slots[i].live
         /\ \A h \in Handle :
              Valid(h) => /\ EncodedIndex(h) \in LiveSlots
                          /\ h = HandleAt(EncodedIndex(h))
         /\ IsFiniteSet(LiveSlots)
         /\ Cardinality(LiveSlots) \in Nat
<1>1. /\ DOMAIN slots = 1 .. Len(slots)
      /\ Len(slots) \in 0 .. IndexMask
      /\ \A i \in DOMAIN slots : slots[i] \in Slot
  BY LenProperties, ElementOfSeq, ArenaAssumption DEF TypeOK
<1>2. ASSUME NEW i \in DOMAIN slots
      PROVE  /\ HandleAt(i) \in Handle
             /\ EncodedIndex(HandleAt(i)) = i
             /\ Generation(HandleAt(i)) = slots[i].generation
  <2>1. slots[i].generation \in 0 .. GenerationMask /\ i \in 0 .. IndexMask
    BY <1>1, ArenaAssumption DEF Slot
  <2>. QED
    BY <2>1, HandleCoding DEF HandleAt
<1>3. ASSUME NEW i \in DOMAIN slots
      PROVE  Valid(HandleAt(i)) <=> slots[i].live
  BY <1>2 DEF Valid
<1>4. ASSUME NEW h \in Handle, Valid(h)
      PROVE  /\ EncodedIndex(h) \in LiveSlots
             /\ h = HandleAt(EncodedIndex(h))
  BY <1>4, HandleDecoding DEF Valid, HandleAt, LiveSlots
<1>5. IsFiniteSet(LiveSlots) /\ Cardinality(LiveSlots) \in Nat
  <2>1. IsFiniteSet(DOMAIN slots)
    BY <1>1, FS_Interval
  <2>. QED
    BY <2>1, FS_Subset, FS_CardinalityType DEF LiveSlots
<1>. QED
  BY <1>1, <1>2, <1>3, <1>4, <1>5

-----------------------------------------------------------------------------
(* Steps that vacate a set of live slots.                                  *)

\* Vacating live slots keeps every other slot, and the history stays consistent.
LEMMA VacateStep ==
  ASSUME TypeOK, HistoryConsistent,
         NEW I \in SUBSET LiveSlots,
         slots' = [i \in DOMAIN slots |->
                     IF i \in I THEN Vacated(slots[i]) ELSE slots[i]],
         UNCHANGED <<creationSequence, issued>>
  PROVE  /\ slots' \in Seq(Slot)
         /\ Len(slots') = Len(slots)
         /\ DOMAIN slots' = DOMAIN slots
         /\ \A i \in DOMAIN slots :
              slots'[i] = IF i \in I THEN Vacated(slots[i]) ELSE slots[i]
         /\ \A i \in I : Vacated(slots[i]) \in Slot
         /\ LiveSlots' = LiveSlots \ I
         /\ \A i \in (DOMAIN slots) \ I : HandleAt(i)' = HandleAt(i)
         /\ HistoryConsistent'
<1>1. /\ DOMAIN slots = 1 .. Len(slots) /\ Len(slots) \in Nat
      /\ \A i \in DOMAIN slots : slots[i] \in Slot
      /\ I \subseteq DOMAIN slots
      /\ \A i \in I : slots[i].live
  BY HandleAtFacts, ArenaAssumption DEF LiveSlots
<1>2. \A i \in DOMAIN slots :
         slots'[i] = IF i \in I THEN Vacated(slots[i]) ELSE slots[i]
  OBVIOUS
<1>3. slots' \in [1 .. Len(slots) -> Slot]
  BY <1>1, VacatedFacts
<1>4. slots' \in Seq(Slot) /\ Len(slots') = Len(slots) /\ DOMAIN slots' = DOMAIN slots
  BY <1>1, <1>3, FunctionIsSeq
<1>5. LiveSlots' = LiveSlots \ I
  BY <1>1, <1>2, <1>4, VacatedFacts DEF LiveSlots
<1>6. \A i \in (DOMAIN slots) \ I : HandleAt(i)' = HandleAt(i)
  BY <1>2 DEF HandleAt
<1>7. HistoryConsistent'
  <2>1. Len(issued') = creationSequence'
    BY DEF HistoryConsistent
  <2>2. ASSUME NEW i \in DOMAIN slots', slots'[i].retired
        PROVE  slots'[i].generation = GenerationMask /\ ~slots'[i].live
    <3>1. CASE i \in I
      BY <1>1, <1>2, <1>4, <2>2, <3>1, VacatedFacts DEF HistoryConsistent
    <3>2. CASE i \notin I
      BY <1>2, <1>4, <2>2, <3>2 DEF HistoryConsistent
    <3>. QED
      BY <3>1, <3>2
  <2>3. ASSUME NEW i \in LiveSlots'
        PROVE  /\ slots'[i].creationSequence \in 1 .. Len(issued')
               /\ issued'[slots'[i].creationSequence] = HandleAt(i)'
    <3>1. i \in LiveSlots /\ i \notin I /\ i \in DOMAIN slots /\ slots'[i] = slots[i]
      BY <1>2, <1>5, <2>3 DEF LiveSlots
    <3>. QED
      BY <1>6, <3>1 DEF HistoryConsistent
  <2>4. ASSUME NEW k \in 1 .. Len(issued')
        PROVE  LET i == EncodedIndex(issued'[k])
                   g == Generation(issued'[k])
               IN /\ i \in DOMAIN slots'
                  /\ g <= slots'[i].generation
                  /\ g = slots'[i].generation =>
                       \/ slots'[i].retired
                       \/ slots'[i].live /\ slots'[i].creationSequence = k
    <3> DEFINE i == EncodedIndex(issued[k])
               g == Generation(issued[k])
    <3>1. /\ i \in DOMAIN slots
          /\ g <= slots[i].generation
          /\ g = slots[i].generation =>
               \/ slots[i].retired
               \/ slots[i].live /\ slots[i].creationSequence = k
      BY DEF HistoryConsistent
    <3>2. g \in Nat
      BY HandleDecoding, ElementOfSeq, ArenaAssumption DEF TypeOK
    <3>3. CASE i \in I
      <4>1. slots'[i].retired \/ slots'[i].generation = slots[i].generation + 1
        BY <1>1, <1>2, <3>1, <3>3, VacatedFacts
      <4>2. slots[i].generation <= slots'[i].generation
        BY <1>1, <1>2, <3>1, <3>3, VacatedFacts DEF Slot
      <4>. QED
        BY <1>1, <1>4, <3>1, <3>2, <4>1, <4>2 DEF Slot
    <3>4. CASE i \notin I
      BY <1>2, <1>4, <3>1, <3>4
    <3>. QED
      BY <3>3, <3>4
  <2>. QED
    BY <2>1, <2>2, <2>3, <2>4 DEF HistoryConsistent
<1>. QED
  BY <1>1, <1>2, <1>4, <1>5, <1>6, <1>7, VacatedFacts

\* release, endScope and rollback: the vacated slots join the free list, and
\* the scopes that stay open (D) keep what is left of them.
LEMMA ReleaseStep ==
  ASSUME ArenaInv,
         NEW I \in SUBSET LiveSlots,
         NEW order \in Enumerations(Reusable(I)),
         ReleaseSlots(I, order),
         NEW D \in SUBSET DOMAIN scopes,
         \A i \in LiveSlots \ I : slots[i].scope \in D,
         scopes' = [s \in D |-> WithoutHandles(I)[s]]
  PROVE  ArenaInv'
<1>. USE DEF ArenaInv
<1>1. /\ DOMAIN slots = 1 .. Len(slots) /\ Len(slots) \in 0 .. IndexMask
      /\ \A i \in DOMAIN slots :
           /\ slots[i] \in Slot
           /\ HandleAt(i) \in Handle
           /\ EncodedIndex(HandleAt(i)) = i
      /\ IsFiniteSet(LiveSlots) /\ Cardinality(LiveSlots) \in Nat
      /\ LiveSlots \subseteq DOMAIN slots
  BY HandleAtFacts DEF LiveSlots
<1>2. /\ slots' \in Seq(Slot) /\ Len(slots') = Len(slots)
      /\ DOMAIN slots' = DOMAIN slots
      /\ \A i \in DOMAIN slots :
           slots'[i] = IF i \in I THEN Vacated(slots[i]) ELSE slots[i]
      /\ LiveSlots' = LiveSlots \ I
      /\ \A i \in (DOMAIN slots) \ I : HandleAt(i)' = HandleAt(i)
      /\ HistoryConsistent'
  BY VacateStep DEF ReleaseSlots
<1>3. /\ IsFiniteSet(I) /\ Cardinality(I) \in Nat
      /\ Cardinality(I) <= Cardinality(LiveSlots)
      /\ Cardinality(LiveSlots') = Cardinality(LiveSlots) - Cardinality(I)
  <2>1. IsFiniteSet(I) /\ Cardinality(I) \in Nat
        /\ Cardinality(I) <= Cardinality(LiveSlots)
    BY <1>1, FS_Subset, FS_CardinalityType
  <2>2. LiveSlots \cap I = I
    OBVIOUS
  <2>. QED
    BY <1>1, <1>2, <2>1, <2>2, FS_Difference
<1>4. LiveCountExact'
  BY <1>3 DEF LiveCountExact, ReleaseSlots
<1>5. /\ order \in Seq(Reusable(I))
      /\ Len(order) \in Nat
      /\ \A n \in 1 .. Len(order) : order[n] \in Reusable(I)
      /\ \A m, n \in 1 .. Len(order) : order[m] = order[n] => m = n
      /\ \A x \in Reusable(I) : \E n \in 1 .. Len(order) : order[n] = x
  <2>1. IsFiniteSet(Reusable(I))
    BY <1>3, FS_Subset DEF Reusable
  <2>2. order \in Seq(Reusable(I))
    BY <2>1, EnumerationFacts
  <2>3. Len(order) \in Nat
    BY <2>2, LenProperties
  <2>. QED
    BY <2>1, <2>2, <2>3, EnumerationFacts
<1>6. /\ free' \in Seq(1 .. Len(slots))
      /\ Len(free') = Len(free) + Len(order)
      /\ \A n \in 1 .. Len(free) + Len(order) :
           free'[n] = IF n <= Len(free) THEN free[n] ELSE order[n - Len(free)]
      /\ Len(free) \in Nat
      /\ \A n \in 1 .. Len(free) : free[n] \in DOMAIN slots
  <2>1. free \in Seq(1 .. Len(slots)) /\ Len(free) \in Nat
    BY LenProperties DEF TypeOK
  <2>2. order \in Seq(1 .. Len(slots))
    <3>1. Reusable(I) \subseteq 1 .. Len(slots)
      BY <1>1 DEF Reusable
    <3>. QED
      BY <1>5, <3>1, SeqMonotonic
  <2>3. free' = free \o order
    BY DEF ReleaseSlots
  <2>4. \A n \in 1 .. Len(free) : free[n] \in DOMAIN slots
    BY <1>1, <2>1, ElementOfSeq
  <2>. QED
    BY <2>1, <2>2, <2>3, <2>4, ConcatProperties
<1>7. \A n \in 1 .. Len(free) : ~slots[free[n]].live /\ ~slots[free[n]].retired
  BY <1>6 DEF FreeListExact
<1>8. FreeListExact'
  <2>1. ASSUME NEW m \in 1 .. Len(free'), NEW n \in 1 .. Len(free'),
               free'[m] = free'[n]
        PROVE  m = n
    <3>1. ASSUME NEW k \in 1 .. Len(free')
          PROVE  \/ k \in 1 .. Len(free) /\ free'[k] = free[k] /\ ~slots[free'[k]].live
                 \/ /\ k - Len(free) \in 1 .. Len(order)
                    /\ free'[k] = order[k - Len(free)]
                    /\ slots[free'[k]].live
      <4>1. CASE k <= Len(free)
        BY <1>6, <1>7, <4>1
      <4>2. CASE k > Len(free)
        <5>1. k - Len(free) \in 1 .. Len(order) /\ free'[k] = order[k - Len(free)]
          BY <1>5, <1>6, <4>2
        <5>. QED
          BY <1>5, <5>1 DEF Reusable, LiveSlots
      <4>. QED
        BY <1>5, <1>6, <4>1, <4>2
    <3>2. CASE slots[free'[m]].live
      <4>1. /\ m - Len(free) \in 1 .. Len(order) /\ n - Len(free) \in 1 .. Len(order)
            /\ order[m - Len(free)] = order[n - Len(free)]
        BY <2>1, <3>1, <3>2
      <4>2. m - Len(free) = n - Len(free)
        BY <1>5, <4>1
      <4>. QED
        BY <1>5, <1>6, <4>2
    <3>3. CASE ~slots[free'[m]].live
      <4>1. m \in 1 .. Len(free) /\ n \in 1 .. Len(free) /\ free[m] = free[n]
        BY <2>1, <3>1, <3>3
      <4>. QED
        BY <4>1 DEF FreeListExact
    <3>. QED
      BY <3>2, <3>3
  <2>2. ASSUME NEW i \in DOMAIN slots, ~slots'[i].live, ~slots'[i].retired
        PROVE  \E n \in 1 .. Len(free') : free'[n] = i
    <3>1. CASE i \in I
      <4>1. i \in Reusable(I)
        BY <1>1, <1>2, <2>2, <3>1, VacatedFacts DEF Reusable, Exhausted
      <4>2. PICK n \in 1 .. Len(order) : order[n] = i
        BY <1>5, <4>1
      <4> DEFINE k == n + Len(free)
      <4>3. /\ k \in 1 .. Len(free) + Len(order)
            /\ ~(k <= Len(free)) /\ k - Len(free) = n
        <5>1. Len(free) \in Nat /\ Len(order) \in Nat
          BY <1>5, <1>6
        <5>. QED
          BY <5>1
      <4>. HIDE DEF k
      <4>4. k \in 1 .. Len(free') /\ free'[k] = order[n]
        BY <1>6, <4>3
      <4>. QED
        BY <4>2, <4>4
    <3>2. CASE i \notin I
      <4>1. PICK n \in 1 .. Len(free) : free[n] = i
        BY <1>2, <2>2, <3>2 DEF FreeListExact
      <4>2. n \in 1 .. Len(free') /\ free'[n] = free[n]
        BY <1>5, <1>6
      <4>. QED
        BY <4>1, <4>2
    <3>. QED
      BY <3>1, <3>2
  <2>3. ASSUME NEW n \in 1 .. Len(free')
        PROVE  /\ free'[n] \in DOMAIN slots
               /\ ~slots'[free'[n]].live
               /\ ~slots'[free'[n]].retired
    <3>1. CASE n <= Len(free)
      <4>1. n \in 1 .. Len(free) /\ free'[n] = free[n]
        BY <1>5, <1>6, <3>1
      <4>2. free[n] \in DOMAIN slots /\ free[n] \notin I
        BY <1>6, <1>7, <4>1 DEF LiveSlots
      <4>. QED
        BY <1>2, <1>7, <4>1, <4>2
    <3>2. CASE n > Len(free)
      <4>1. n - Len(free) \in 1 .. Len(order) /\ free'[n] = order[n - Len(free)]
        BY <1>5, <1>6, <3>2
      <4>2. free'[n] \in I /\ ~Exhausted(slots[free'[n]]) /\ slots[free'[n]].live
        BY <1>5, <4>1 DEF Reusable, LiveSlots
      <4>3. free'[n] \in DOMAIN slots /\ ~slots[free'[n]].retired
        BY <1>1, <4>2 DEF HistoryConsistent
      <4>. QED
        BY <1>1, <1>2, <4>2, <4>3, VacatedFacts DEF Exhausted
    <3>. QED
      BY <1>5, <1>6, <3>1, <3>2
  <2>. QED
    BY <1>2, <2>1, <2>2, <2>3 DEF FreeListExact
<1>9. ScopesOwnLiveHandles'
  <2>1. ASSUME NEW i \in LiveSlots'
        PROVE  slots'[i].scope \in DOMAIN scopes'
    BY <1>1, <1>2
  <2>2. ASSUME NEW s \in DOMAIN scopes'
        PROVE  scopes'[s] =
                 {HandleAt(i)' : i \in {j \in LiveSlots' : slots'[j].scope = s}}
    <3>1. s \in DOMAIN scopes /\ s \in D
      OBVIOUS
    <3>2. scopes'[s] =
            {HandleAt(i) : i \in {j \in LiveSlots : slots[j].scope = s}}
              \ {HandleAt(i) : i \in {j \in I : slots[j].scope = s}}
      BY <3>1 DEF WithoutHandles, ScopesOwnLiveHandles
    <3>3. \A i, j \in LiveSlots : HandleAt(i) = HandleAt(j) => i = j
      BY <1>1
    <3>4. scopes'[s] = {HandleAt(i) : i \in {j \in LiveSlots \ I : slots[j].scope = s}}
      BY <3>2, <3>3
    <3>5. {j \in LiveSlots \ I : slots[j].scope = s}
            = {j \in LiveSlots' : slots'[j].scope = s}
      BY <1>1, <1>2
    <3>6. \A i \in LiveSlots' : HandleAt(i)' = HandleAt(i)
      BY <1>1, <1>2
    <3>. QED
      BY <3>4, <3>5, <3>6
  <2>. QED
    BY <2>1, <2>2 DEF ScopesOwnLiveHandles
<1>10. TypeOK'
  <2>1. Len(slots') <= IndexMask
    BY <1>1, <1>2
  <2>2. DOMAIN scopes' \subseteq ScopeId
    BY DEF TypeOK
  <2>3. scopes' \in [DOMAIN scopes' -> SUBSET Handle]
    BY DEF TypeOK, WithoutHandles
  <2>4. liveCount' \in Nat
    BY <1>1, <1>3 DEF ReleaseSlots, LiveCountExact
  <2>. QED
    BY <1>2, <1>6, <2>1, <2>2, <2>3, <2>4 DEF TypeOK, ReleaseSlots
<1>. QED
  BY <1>2, <1>4, <1>8, <1>9, <1>10

-----------------------------------------------------------------------------
(* add: a vacant slot x, new or reused, at index i is occupied.            *)

\* add keeps the invariant, whichever vacant slot it takes.
LEMMA AddStep ==
  ASSUME ArenaInv,
         NEW s \in DOMAIN scopes, NEW i \in 1 .. IndexMask, NEW x \in Slot,
         slots' \in Seq(Slot), Len(slots') <= IndexMask,
         DOMAIN slots' = (DOMAIN slots) \cup {i},
         slots'[i] = Occupied(x, s),
         \A j \in (DOMAIN slots) \ {i} : slots'[j] = slots[j],
         i \in DOMAIN slots => x = slots[i],
         ~x.live, ~x.retired,
         free' \in Seq(1 .. Len(slots')), FreeListExact',
         Record(HandleOf(x.generation, i), s)
  PROVE  /\ ArenaInv'
         /\ \A k \in 1 .. Len(issued) : issued[k] # HandleOf(x.generation, i)
<1> DEFINE h == HandleOf(x.generation, i)
<1>. USE DEF ArenaInv
<1>1. /\ DOMAIN slots = 1 .. Len(slots) /\ Len(slots) \in 0 .. IndexMask
      /\ \A j \in DOMAIN slots :
           /\ slots[j] \in Slot
           /\ EncodedIndex(HandleAt(j)) = j
      /\ IsFiniteSet(LiveSlots) /\ Cardinality(LiveSlots) \in Nat
      /\ LiveSlots \subseteq DOMAIN slots
  BY HandleAtFacts DEF LiveSlots
<1>2. h \in Handle /\ EncodedIndex(h) = i /\ Generation(h) = x.generation
  <2>1. x.generation \in 0 .. GenerationMask /\ i \in 0 .. IndexMask
    BY ArenaAssumption DEF Slot
  <2>. QED
    BY <2>1, HandleCoding
<1>3. s \in ScopeId /\ creationSequence \in Nat /\ Len(issued) \in Nat
      /\ issued \in Seq(Handle) /\ Len(issued) = creationSequence
  BY LenProperties DEF TypeOK, HistoryConsistent
<1>4. /\ slots'[i].live /\ slots'[i].scope = s /\ ~slots'[i].retired
      /\ slots'[i].generation = x.generation
      /\ slots'[i].creationSequence = creationSequence + 1
      /\ HandleAt(i)' = h
  BY <1>3, OccupiedFacts DEF HandleAt
<1>5. i \notin LiveSlots /\ LiveSlots' = LiveSlots \cup {i}
  BY <1>4 DEF LiveSlots
<1>6. \A j \in LiveSlots : slots'[j] = slots[j] /\ HandleAt(j)' = HandleAt(j)
  BY <1>1, <1>5 DEF HandleAt
<1>7. ASSUME NEW k \in 1 .. Len(issued)
      PROVE  issued[k] # h
  <2>1. SUFFICES ASSUME issued[k] = h PROVE FALSE
    OBVIOUS
  <2>2. i \in DOMAIN slots /\ (slots[i].retired \/ slots[i].live)
    BY <1>2, <2>1 DEF HistoryConsistent
  <2>. QED
    BY <2>2
<1>8. LiveCountExact'
  <2>1. Cardinality(LiveSlots') = Cardinality(LiveSlots) + 1
    BY <1>1, <1>5, FS_AddElement
  <2>. QED
    BY <2>1 DEF LiveCountExact, Record
<1>9. /\ issued' \in Seq(Handle)
      /\ Len(issued') = Len(issued) + 1
      /\ \A k \in 1 .. Len(issued) : issued'[k] = issued[k]
      /\ issued'[Len(issued) + 1] = h
  <2>1. issued' = Append(issued, h)
    BY DEF Record
  <2>. QED
    BY <1>2, <1>3, <2>1, AppendProperties
<1>10. HistoryConsistent'
  <2>1. Len(issued') = creationSequence'
    BY <1>3, <1>9 DEF Record
  <2>2. ASSUME NEW j \in DOMAIN slots', slots'[j].retired
        PROVE  slots'[j].generation = GenerationMask /\ ~slots'[j].live
    BY <1>4, <2>2 DEF HistoryConsistent
  <2>3. ASSUME NEW j \in LiveSlots'
        PROVE  /\ slots'[j].creationSequence \in 1 .. Len(issued')
               /\ issued'[slots'[j].creationSequence] = HandleAt(j)'
    <3>1. CASE j = i
      BY <1>3, <1>4, <1>9, <3>1
    <3>2. CASE j # i
      <4>1. j \in LiveSlots /\ slots[j].creationSequence \in 1 .. Len(issued)
            /\ issued[slots[j].creationSequence] = HandleAt(j)
        BY <1>5, <2>3, <3>2 DEF HistoryConsistent
      <4>. QED
        BY <1>3, <1>6, <1>9, <4>1
    <3>. QED
      BY <3>1, <3>2
  <2>4. ASSUME NEW k \in 1 .. Len(issued')
        PROVE  LET j == EncodedIndex(issued'[k])
                   g == Generation(issued'[k])
               IN /\ j \in DOMAIN slots'
                  /\ g <= slots'[j].generation
                  /\ g = slots'[j].generation =>
                       \/ slots'[j].retired
                       \/ slots'[j].live /\ slots'[j].creationSequence = k
    <3>1. CASE k = Len(issued) + 1
      <4>1. issued'[k] = h
        BY <1>9, <3>1
      <4>2. x.generation <= x.generation
        BY DEF Slot
      <4>. QED
        BY <1>2, <1>3, <1>4, <3>1, <4>1, <4>2
    <3>2. CASE k # Len(issued) + 1
      <4> DEFINE j == EncodedIndex(issued[k])
                 g == Generation(issued[k])
      <4>1. k \in 1 .. Len(issued) /\ issued'[k] = issued[k]
        BY <1>3, <1>9, <3>2
      <4>2. /\ j \in DOMAIN slots
            /\ g <= slots[j].generation
            /\ g = slots[j].generation =>
                 \/ slots[j].retired
                 \/ slots[j].live /\ slots[j].creationSequence = k
        BY <4>1 DEF HistoryConsistent
      <4>3. CASE j = i
        BY <1>4, <4>1, <4>2, <4>3
      <4>4. CASE j # i
        BY <4>1, <4>2, <4>4
      <4>. QED
        BY <4>3, <4>4
    <3>. QED
      BY <3>1, <3>2
  <2>. QED
    BY <2>1, <2>2, <2>3, <2>4 DEF HistoryConsistent
<1>11. ScopesOwnLiveHandles'
  <2>1. /\ DOMAIN scopes' = DOMAIN scopes
        /\ \A t \in DOMAIN scopes :
             scopes'[t] = IF t = s THEN scopes[t] \cup {h} ELSE scopes[t]
    BY DEF Record, TypeOK
  <2>2. ASSUME NEW j \in LiveSlots'
        PROVE  slots'[j].scope \in DOMAIN scopes'
    BY <1>4, <1>5, <1>6, <2>1 DEF ScopesOwnLiveHandles
  <2>3. ASSUME NEW t \in DOMAIN scopes'
        PROVE  scopes'[t] =
                 {HandleAt(j)' : j \in {k \in LiveSlots' : slots'[k].scope = t}}
    <3>1. scopes[t] = {HandleAt(j) : j \in {k \in LiveSlots : slots[k].scope = t}}
      BY <2>1 DEF ScopesOwnLiveHandles
    <3>2. {k \in LiveSlots' : slots'[k].scope = t} =
            {k \in LiveSlots : slots[k].scope = t} \cup (IF t = s THEN {i} ELSE {})
      BY <1>4, <1>5, <1>6
    <3>3. {HandleAt(j)' : j \in {k \in LiveSlots : slots[k].scope = t}} = scopes[t]
      BY <1>6, <3>1
    <3>. QED
      BY <1>4, <2>1, <3>2, <3>3
  <2>. QED
    BY <2>2, <2>3 DEF ScopesOwnLiveHandles
<1>12. TypeOK'
  <2>1. DOMAIN scopes' \subseteq ScopeId
    BY DEF Record, TypeOK
  <2>2. scopes' \in [DOMAIN scopes' -> SUBSET Handle]
    BY <1>2 DEF Record, TypeOK
  <2>. QED
    BY <1>9, <2>1, <2>2 DEF TypeOK, Record
<1>. QED
  BY <1>7, <1>8, <1>10, <1>11, <1>12

\* add grows the table.
LEMMA AddNewStep ==
  ASSUME ArenaInv, NEW s, AddNew(s)
  PROVE  /\ ArenaInv'
         /\ \A k \in 1 .. Len(issued) : issued[k] # HandleOf(1, Len(slots) + 1)
<1> DEFINE i == Len(slots) + 1
<1>. USE DEF ArenaInv
<1>1. /\ DOMAIN slots = 1 .. Len(slots) /\ Len(slots) \in Nat
      /\ slots \in Seq(Slot) /\ i \in 1 .. IndexMask
      /\ s \in DOMAIN scopes /\ s \in ScopeId /\ creationSequence \in Nat
  BY HandleAtFacts, ArenaAssumption DEF AddNew, TypeOK
<1>2. NewSlot \in Slot /\ NewSlot.generation = 1 /\ ~NewSlot.live /\ ~NewSlot.retired
  BY NewSlotFacts DEF NewSlot
<1>3. /\ Occupied(NewSlot, s) \in Slot
      /\ Occupied(NewSlot, s).live
  BY <1>1, <1>2, OccupiedFacts
<1>4. slots' = Append(slots, Occupied(NewSlot, s))
  BY DEF AddNew
<1>5. /\ slots' \in Seq(Slot) /\ Len(slots') = i /\ i <= IndexMask
      /\ \A j \in DOMAIN slots : slots'[j] = slots[j]
      /\ slots'[i] = Occupied(NewSlot, s)
  BY <1>1, <1>3, <1>4, AppendProperties
<1>6. DOMAIN slots' = (DOMAIN slots) \cup {i}
  <2>1. DOMAIN slots' = 1 .. i
    BY <1>5, LenProperties
  <2>. QED
    BY <1>1, <2>1
<1>7. FreeListExact' /\ free' \in Seq(1 .. Len(slots'))
  <2>1. free' = <<>> /\ Len(free') = 0 /\ free = <<>> /\ Len(free) = 0
    BY DEF AddNew
  <2>2. \A j \in DOMAIN slots' : slots'[j].live \/ slots'[j].retired
    BY <1>3, <1>5, <1>6, <2>1 DEF FreeListExact
  <2>. QED
    BY <2>1, <2>2 DEF FreeListExact
<1>8. Record(HandleOf(NewSlot.generation, i), s)
  BY <1>2 DEF AddNew
<1>9. i \notin DOMAIN slots
  BY <1>1
<1>. HIDE DEF i, ArenaInv
<1>. QED
  BY <1>1, <1>2, <1>5, <1>6, <1>7, <1>8, <1>9, AddStep DEF i

\* add pops the free list.
LEMMA AddReusedStep ==
  ASSUME ArenaInv, NEW s, AddReused(s)
  PROVE  /\ ArenaInv'
         /\ \A k \in 1 .. Len(issued) : issued[k] # HandleAt(free[Len(free)])
<1> DEFINE n == Len(free)
           i == free[n]
<1>. USE DEF ArenaInv
<1>1. /\ DOMAIN slots = 1 .. Len(slots) /\ Len(slots) \in 0 .. IndexMask
      /\ slots \in Seq(Slot)
      /\ s \in DOMAIN scopes /\ s \in ScopeId /\ creationSequence \in Nat
  BY HandleAtFacts DEF AddReused, TypeOK
<1>2. free \in Seq(DOMAIN slots) /\ n \in Nat \ {0} /\ n \in 1 .. Len(free)
  BY <1>1, EmptySeq DEF AddReused, TypeOK
<1>3. \A m \in 1 .. n : free[m] \in DOMAIN slots
  BY <1>2, ElementOfSeq
<1>4. i \in DOMAIN slots /\ slots[i] \in Slot /\ ~slots[i].live /\ ~slots[i].retired
  BY <1>1, <1>2, <1>3, ElementOfSeq DEF FreeListExact
<1>5. slots' = [slots EXCEPT ![i] = Occupied(slots[i], s)]
  BY DEF AddReused
<1>6. Occupied(slots[i], s) \in Slot /\ Occupied(slots[i], s).live
  BY <1>1, <1>4, OccupiedFacts
<1>7. /\ slots' \in Seq(Slot) /\ Len(slots') = Len(slots)
      /\ DOMAIN slots' = DOMAIN slots
      /\ slots'[i] = Occupied(slots[i], s)
      /\ \A j \in (DOMAIN slots) \ {i} : slots'[j] = slots[j]
  BY <1>1, <1>4, <1>5, <1>6, ExceptSeq
<1>8. /\ free' \in Seq(1 .. Len(slots'))
      /\ Len(free') = n - 1
      /\ \A m \in 1 .. n - 1 : free'[m] = free[m]
  <2>1. free' = SubSeq(free, 1, n - 1)
    BY DEF AddReused
  <2>2. \A m \in 1 .. n - 1 : free[m] \in 1 .. Len(slots)
    BY <1>1, <1>2, <1>3
  <2>3. 1 \in Int /\ n - 1 \in Int
    BY <1>2
  <2>4. SubSeq(free, 1, n - 1) \in Seq(1 .. Len(slots))
    BY <2>2, <2>3, SubSeqProperties
  <2>5. Len(SubSeq(free, 1, n - 1)) = n - 1
    <3>1. Len(SubSeq(free, 1, n - 1)) =
            IF 1 <= n - 1 THEN (n - 1) - 1 + 1 ELSE 0
      BY <2>2, <2>3, SubSeqProperties
    <3>2. n \in Nat \ {0}
      BY <1>2
    <3>. HIDE DEF n
    <3>. QED
      BY <3>1, <3>2
  <2>6. \A m \in 1 .. n - 1 : SubSeq(free, 1, n - 1)[m] = free[m]
    BY <1>2, <2>2, <2>3, SubSeqProperties
  <2>. QED
    BY <1>7, <2>1, <2>4, <2>5, <2>6
<1>9. FreeListExact'
  <2>1. \A k, m \in 1 .. n : free[k] = free[m] => k = m
    BY DEF FreeListExact
  <2>2. ASSUME NEW k \in 1 .. Len(free'), NEW m \in 1 .. Len(free'),
               free'[k] = free'[m]
        PROVE  k = m
    <3>1. k \in 1 .. n - 1 /\ m \in 1 .. n - 1 /\ k \in 1 .. n /\ m \in 1 .. n
      BY <1>2, <1>8
    <3>2. free'[k] = free[k] /\ free'[m] = free[m]
      BY <1>8, <3>1
    <3>. QED
      BY <2>1, <2>2, <3>1, <3>2
  <2>3. ASSUME NEW j \in DOMAIN slots
        PROVE  (~slots'[j].live /\ ~slots'[j].retired)
                 <=> \E m \in 1 .. Len(free') : free'[m] = j
    <3>1. CASE j = i
      <4>1. ASSUME NEW m \in 1 .. n - 1 PROVE free[m] # i
        BY <1>2, <2>1
      <4>. QED
        BY <1>6, <1>7, <1>8, <3>1, <4>1
    <3>2. CASE j # i
      <4>1. (\E m \in 1 .. n : free[m] = j) <=> (\E m \in 1 .. n - 1 : free[m] = j)
        BY <1>2, <3>2
      <4>2. slots'[j] = slots[j]
        BY <1>7, <3>2
      <4>. QED
        BY <1>8, <4>1, <4>2 DEF FreeListExact
    <3>. QED
      BY <3>1, <3>2
  <2>. QED
    BY <1>7, <2>2, <2>3 DEF FreeListExact
<1>10. Record(HandleOf(slots[i].generation, i), s)
  BY DEF AddReused, HandleAt
<1>11. i \in 1 .. IndexMask /\ Len(slots') <= IndexMask
  BY <1>1, <1>4, <1>7, ArenaAssumption
<1>12. DOMAIN slots' = (DOMAIN slots) \cup {i}
  BY <1>4, <1>7
<1>. HIDE DEF i, ArenaInv
<1>13. /\ ArenaInv'
       /\ \A k \in 1 .. Len(issued) : issued[k] # HandleOf(slots[i].generation, i)
  BY <1>1, <1>4, <1>7, <1>8, <1>9, <1>10, <1>11, <1>12, AddStep
<1>. QED
  BY <1>13 DEF HandleAt, i

-----------------------------------------------------------------------------
(* The operations that release shapes.                                     *)

\* release() keeps the invariant.
LEMMA ReleaseInv ==
  ASSUME ArenaInv, NEW h \in Handle, Release(h)
  PROVE  ArenaInv'
<1> DEFINE I == {EncodedIndex(h)}
<1>1. TypeOK /\ I \subseteq LiveSlots
  BY HandleAtFacts DEF Release, ArenaInv
<1>2. PICK order \in Enumerations(Reusable(I)) : ReleaseSlots(I, order)
  BY DEF Release
<1>3. \A i \in LiveSlots \ I : slots[i].scope \in DOMAIN scopes
  BY DEF ArenaInv, ScopesOwnLiveHandles
<1>4. scopes' = [s \in DOMAIN scopes |-> WithoutHandles(I)[s]]
  BY DEF Release, WithoutHandles
<1>. QED
  BY <1>1, <1>2, <1>3, <1>4, ReleaseStep

\* The slots behind the handles a scope owns are its live slots.
LEMMA ScopeSlots ==
  ASSUME ArenaInv, NEW s \in DOMAIN scopes
  PROVE  /\ {EncodedIndex(h) : h \in scopes[s]} = {i \in LiveSlots : slots[i].scope = s}
         /\ \A h \in scopes[s] : Valid(h)
<1>1. /\ TypeOK /\ LiveSlots \subseteq DOMAIN slots
      /\ scopes[s] = {HandleAt(i) : i \in {j \in LiveSlots : slots[j].scope = s}}
  BY DEF ArenaInv, ScopesOwnLiveHandles, LiveSlots
<1>2. \A i \in LiveSlots : EncodedIndex(HandleAt(i)) = i /\ Valid(HandleAt(i))
  BY <1>1, HandleAtFacts DEF LiveSlots
<1>. QED
  BY <1>1, <1>2

\* endScope() keeps the invariant.
LEMMA EndScopeInv ==
  ASSUME ArenaInv, NEW s, EndScope(s)
  PROVE  ArenaInv'
<1> DEFINE I == {EncodedIndex(h) : h \in scopes[s]}
           D == (DOMAIN scopes) \ {s}
<1>1. s \in DOMAIN scopes /\ I = {i \in LiveSlots : slots[i].scope = s}
  BY ScopeSlots DEF EndScope
<1>2. PICK order \in Enumerations(Reusable(I)) : ReleaseSlots(I, order)
  BY DEF EndScope
<1>3. \A i \in LiveSlots \ I : slots[i].scope \in D
  BY <1>1 DEF ArenaInv, ScopesOwnLiveHandles
<1>4. scopes' = [t \in D |-> WithoutHandles(I)[t]]
  BY DEF EndScope
<1>5. I \in SUBSET LiveSlots /\ D \in SUBSET DOMAIN scopes
  BY <1>1
<1>. HIDE DEF I, D
<1>. QED
  BY <1>2, <1>3, <1>4, <1>5, ReleaseStep

\* rollback() keeps the invariant.
LEMMA RollbackInv ==
  ASSUME ArenaInv, NEW checkpoint, Rollback(checkpoint)
  PROVE  ArenaInv'
<1> DEFINE I == {i \in LiveSlots : slots[i].creationSequence > checkpoint}
<1>1. PICK order \in Enumerations(Reusable(I)) : ReleaseSlots(I, order)
  BY DEF Rollback
<1>2. \A i \in LiveSlots \ I : slots[i].scope \in DOMAIN scopes
  BY DEF ArenaInv, ScopesOwnLiveHandles
<1>3. scopes' = [s \in DOMAIN scopes |-> WithoutHandles(I)[s]]
  BY DEF Rollback, WithoutHandles
<1>. QED
  BY <1>1, <1>2, <1>3, ReleaseStep

\* clear() keeps the invariant.
LEMMA ClearInv ==
  ASSUME ArenaInv, Clear
  PROVE  ArenaInv'
<1> DEFINE F == {i \in DOMAIN slots : ~slots'[i].retired}
<1>. USE DEF ArenaInv
<1>1. /\ slots' \in Seq(Slot) /\ Len(slots') = Len(slots)
      /\ DOMAIN slots' = DOMAIN slots
      /\ LiveSlots' = {}
      /\ HistoryConsistent'
  <2>1. slots' = [i \in DOMAIN slots |->
                    IF i \in LiveSlots THEN Vacated(slots[i]) ELSE slots[i]]
    BY DEF Clear, LiveSlots
  <2>2. UNCHANGED <<creationSequence, issued>>
    BY DEF Clear
  <2>3. LiveSlots \in SUBSET LiveSlots /\ TypeOK /\ HistoryConsistent
    OBVIOUS
  <2>4. LiveSlots' = LiveSlots \ LiveSlots
    BY <2>1, <2>2, <2>3, VacateStep
  <2>5. /\ slots' \in Seq(Slot) /\ Len(slots') = Len(slots)
        /\ DOMAIN slots' = DOMAIN slots
        /\ HistoryConsistent'
    BY <2>1, <2>2, <2>3, VacateStep
  <2>. QED
    BY <2>4, <2>5
<1>2. DOMAIN slots = 1 .. Len(slots) /\ Len(slots) \in 0 .. IndexMask
  BY HandleAtFacts
<1>3. free' \in Enumerations(F)
  BY DEF Clear
<1>4. IsFiniteSet(F)
  <2>1. IsFiniteSet(DOMAIN slots)
    BY <1>2, FS_Interval
  <2>. QED
    BY <2>1, FS_Subset
<1>. HIDE DEF F
<1>5. /\ free' \in Seq(F)
      /\ \A n \in 1 .. Len(free') : free'[n] \in F
      /\ \A m, n \in 1 .. Len(free') : free'[m] = free'[n] => m = n
      /\ \A x \in F : \E n \in 1 .. Len(free') : free'[n] = x
  BY <1>3, <1>4, EnumerationFacts
<1>6. free' \in Seq(1 .. Len(slots'))
  BY <1>1, <1>2, <1>5, SeqMonotonic DEF F
<1>7. FreeListExact'
  <2>1. \A i \in DOMAIN slots : ~slots'[i].live
    BY <1>1 DEF LiveSlots
  <2>. QED
    BY <1>1, <1>5, <2>1 DEF FreeListExact, F
<1>8. LiveCountExact'
  BY <1>1, FS_EmptySet DEF LiveCountExact, Clear
<1>9. scopes' = [s \in {} |-> {}] /\ DOMAIN scopes' = {}
  BY DEF Clear
<1>10. ScopesOwnLiveHandles'
  BY <1>1, <1>9 DEF ScopesOwnLiveHandles
<1>11. TypeOK'
  <2>1. scopes' \in [DOMAIN scopes' -> SUBSET Handle] /\ DOMAIN scopes' \subseteq ScopeId
    BY <1>9
  <2>. QED
    BY <1>1, <1>2, <1>6, <2>1 DEF TypeOK, Clear
<1>. QED
  BY <1>1, <1>7, <1>8, <1>10, <1>11

\* beginScope() keeps the invariant, also when the counter has wrapped.
LEMMA BeginScopeInv ==
  ASSUME ArenaInv, BeginScope
  PROVE  ArenaInv'
<1>. USE DEF ArenaInv
<1>1. UNCHANGED <<slots, free, liveCount, creationSequence, issued>>
  BY DEF BeginScope
<1>2. FreeListExact' /\ LiveCountExact'
  BY <1>1 DEF FreeListExact, LiveCountExact, LiveSlots
<1>3. HistoryConsistent'
  BY <1>1 DEF HistoryConsistent, LiveSlots, HandleAt
<1>4. /\ DOMAIN scopes' = (DOMAIN scopes) \cup {nextScope}
      /\ \A s \in DOMAIN scopes : scopes'[s] = scopes[s]
      /\ nextScope \notin DOMAIN scopes => scopes'[nextScope] = {}
  BY DEF BeginScope
<1>5. ScopesOwnLiveHandles'
  BY <1>1, <1>4 DEF ScopesOwnLiveHandles, LiveSlots, HandleAt
<1>6. nextScope' \in ScopeId
  BY ArenaAssumption DEF BeginScope, TypeOK, ScopeId
<1>7. scopes' \in [DOMAIN scopes' -> SUBSET Handle] /\ DOMAIN scopes' \subseteq ScopeId
  BY <1>4 DEF BeginScope, TypeOK
<1>8. TypeOK'
  BY <1>1, <1>6, <1>7 DEF TypeOK
<1>. QED
  BY <1>2, <1>3, <1>5, <1>8

-----------------------------------------------------------------------------
(* The invariant.                                                          *)

\* An arena without slots satisfies the invariant.
LEMMA InitInv == Init => ArenaInv
<1>. SUFFICES ASSUME Init PROVE ArenaInv
  OBVIOUS
<1>1. /\ slots = <<>> /\ Len(slots) = 0 /\ DOMAIN slots = {}
      /\ slots \in Seq(Slot) /\ LiveSlots = {}
      /\ free = <<>> /\ Len(free) = 0 /\ free \in Seq(1 .. 0)
      /\ issued = <<>> /\ Len(issued) = 0 /\ issued \in Seq(Handle)
      /\ DOMAIN scopes = {} /\ scopes \in [{} -> SUBSET Handle]
  BY EmptySeq DEF Init, LiveSlots
<1>2. 1 \in ScopeId /\ 0 <= IndexMask
  BY ArenaAssumption DEF ScopeId
<1>3. TypeOK
  BY <1>1, <1>2 DEF TypeOK, Init
<1>4. FreeListExact /\ ScopesOwnLiveHandles
  BY <1>1 DEF FreeListExact, ScopesOwnLiveHandles
<1>5. LiveCountExact
  BY <1>1, FS_EmptySet DEF LiveCountExact, Init
<1>6. HistoryConsistent
  BY <1>1 DEF HistoryConsistent, Init
<1>. QED
  BY <1>3, <1>4, <1>5, <1>6 DEF ArenaInv

\* Every call keeps the invariant.
LEMMA NextInv == ArenaInv /\ [Next]_arenaVars => ArenaInv'
<1>. SUFFICES ASSUME ArenaInv, [Next]_arenaVars PROVE ArenaInv'
  OBVIOUS
<1>1. CASE BeginScope
  BY <1>1, BeginScopeInv
<1>2. ASSUME NEW s \in ScopeId, AddNew(s) PROVE ArenaInv'
  BY <1>2, AddNewStep
<1>3. ASSUME NEW s \in ScopeId, AddReused(s) PROVE ArenaInv'
  BY <1>3, AddReusedStep
<1>4. ASSUME NEW s \in ScopeId, EndScope(s) PROVE ArenaInv'
  BY <1>4, EndScopeInv
<1>5. ASSUME NEW h \in Handle, Release(h) PROVE ArenaInv'
  BY <1>5, ReleaseInv
<1>6. ASSUME NEW checkpoint \in 0 .. creationSequence, Rollback(checkpoint)
      PROVE  ArenaInv'
  BY <1>6, RollbackInv
<1>7. CASE Clear
  BY <1>7, ClearInv
<1>8. CASE UNCHANGED arenaVars
  BY <1>8 DEF ArenaInv, TypeOK, FreeListExact, ScopesOwnLiveHandles,
              LiveCountExact, HistoryConsistent, LiveSlots, HandleAt, arenaVars
<1>. QED
  BY <1>1, <1>2, <1>3, <1>4, <1>5, <1>6, <1>7, <1>8 DEF Next

\* The arena's inductive invariant, for every table size, generation width and
\* scope counter width.
THEOREM ArenaInvariant == Spec => []ArenaInv
<1>1. Init => ArenaInv
  BY InitInv
<1>2. ArenaInv /\ [Next]_arenaVars => ArenaInv'
  BY NextInv
<1>. QED
  BY <1>1, <1>2, PTL DEF Spec

\* The fields keep their types: no generation outgrows its bits of the handle.
THEOREM TypeCorrect == Spec => []TypeOK
BY ArenaInvariant, PTL DEF ArenaInv

\* The free list is exactly the vacant, reusable slots, each once.
THEOREM FreeListCorrect == Spec => []FreeListExact
BY ArenaInvariant, PTL DEF ArenaInv

\* Scopes own exactly the live handles created in them.
THEOREM ScopesCorrect == Spec => []ScopesOwnLiveHandles
BY ArenaInvariant, PTL DEF ArenaInv

\* stats() reports the number of live shapes.
THEOREM LiveCountCorrect == Spec => []LiveCountExact
BY ArenaInvariant, PTL DEF ArenaInv

\* Every handle ever issued is the live shape it was issued for, or stale.
THEOREM HistoryCorrect == Spec => []HistoryConsistent
BY ArenaInvariant, PTL DEF ArenaInv

-----------------------------------------------------------------------------
(* The arena implements HandleTable.  The refinement mapping reads the     *)
(* abstract live tokens off get(): they are the handles it accepts.        *)

\* The handles get() accepts are the handles of the live slots, each owned by
\* the scope of its slot.
LEMMA OwnersOfLiveSlots ==
  TypeOK => /\ LiveHandles = {HandleAt(i) : i \in LiveSlots}
            /\ \A i \in LiveSlots : /\ HandleAt(i) \in LiveHandles
                                    /\ Owners[HandleAt(i)] = slots[i].scope
            /\ \A i, j \in LiveSlots : HandleAt(i) = HandleAt(j) => i = j
            /\ DOMAIN Owners = LiveHandles
<1>. SUFFICES ASSUME TypeOK
     PROVE  /\ LiveHandles = {HandleAt(i) : i \in LiveSlots}
            /\ \A i \in LiveSlots : /\ HandleAt(i) \in LiveHandles
                                    /\ Owners[HandleAt(i)] = slots[i].scope
            /\ \A i, j \in LiveSlots : HandleAt(i) = HandleAt(j) => i = j
            /\ DOMAIN Owners = LiveHandles
  OBVIOUS
<1>1. \A i \in LiveSlots :
         /\ HandleAt(i) \in Handle /\ Valid(HandleAt(i))
         /\ EncodedIndex(HandleAt(i)) = i
  BY HandleAtFacts DEF LiveSlots
<1>2. \A h \in Handle : Valid(h) => /\ EncodedIndex(h) \in LiveSlots
                                    /\ h = HandleAt(EncodedIndex(h))
  BY HandleAtFacts
<1>. QED
  BY <1>1, <1>2 DEF LiveHandles, Owners

\* The same facts of the next state.
LEMMA OwnersOfLiveSlotsNext ==
  TypeOK' => /\ LiveHandles' = {HandleAt(i)' : i \in LiveSlots'}
             /\ \A i \in LiveSlots' : /\ HandleAt(i)' \in LiveHandles'
                                      /\ Owners'[HandleAt(i)'] = slots'[i].scope
             /\ DOMAIN Owners' = LiveHandles'
<1>1. (/\ LiveHandles = {HandleAt(i) : i \in LiveSlots}
       /\ \A i \in LiveSlots : /\ HandleAt(i) \in LiveHandles
                               /\ Owners[HandleAt(i)] = slots[i].scope
       /\ \A i, j \in LiveSlots : HandleAt(i) = HandleAt(j) => i = j
       /\ DOMAIN Owners = LiveHandles)' \/ ~TypeOK'
  BY OwnersOfLiveSlots, PTL
<1>. QED
  BY <1>1

\* Vacating a set of live slots forgets exactly their handles.
LEMMA VacatedOwners ==
  ASSUME TypeOK, TypeOK',
         NEW I \in SUBSET LiveSlots,
         LiveSlots' = LiveSlots \ I,
         \A i \in LiveSlots \ I : slots'[i] = slots[i]
  PROVE  Owners' = [h \in LiveHandles \ {HandleAt(i) : i \in I} |-> Owners[h]]
<1>1. \A i \in LiveSlots \ I : HandleAt(i)' = HandleAt(i)
  BY DEF HandleAt
<1>2. LiveHandles' = LiveHandles \ {HandleAt(i) : i \in I}
  <2>1. LiveHandles' = {HandleAt(i)' : i \in LiveSlots'}
    BY OwnersOfLiveSlotsNext
  <2>. QED
    BY <1>1, <2>1, OwnersOfLiveSlots
<1>3. ASSUME NEW h \in LiveHandles'
      PROVE  Owners'[h] = Owners[h]
  <2>1. h \in LiveHandles \ {HandleAt(i) : i \in I}
    BY <1>2
  <2>2. PICK i \in LiveSlots \ I : h = HandleAt(i)
    BY <2>1, OwnersOfLiveSlots
  <2>3. EncodedIndex(h) = i
    BY <2>2, HandleAtFacts DEF LiveSlots
  <2>4. Owners'[h] = slots'[i].scope
    BY <2>3 DEF Owners
  <2>. QED
    BY <2>2, <2>4, OwnersOfLiveSlots
<1>4. Owners' = [h \in LiveHandles' |-> Owners'[h]]
  BY DEF Owners
<1>. QED
  BY <1>2, <1>3, <1>4

\* Issuing handle h to a slot i that was vacant adds one owner.
LEMMA OccupiedOwners ==
  ASSUME TypeOK, TypeOK', NEW s, NEW i, NEW h,
         i \notin LiveSlots, LiveSlots' = LiveSlots \cup {i},
         \A j \in LiveSlots : slots'[j] = slots[j],
         HandleAt(i)' = h, slots'[i].scope = s
  PROVE  Owners' = [g \in LiveHandles \cup {h} |-> IF g = h THEN s ELSE Owners[g]]
<1>1. \A j \in LiveSlots : HandleAt(j)' = HandleAt(j)
  BY DEF HandleAt
<1>2. LiveHandles' = LiveHandles \cup {h}
  BY <1>1, OwnersOfLiveSlots, OwnersOfLiveSlotsNext
<1>3. Owners'[h] = s
  BY OwnersOfLiveSlotsNext
<1>4. ASSUME NEW g \in LiveHandles, g # h
      PROVE  Owners'[g] = Owners[g]
  <2>1. PICK j \in LiveSlots : g = HandleAt(j)
    BY OwnersOfLiveSlots
  <2>. QED
    BY <1>1, <2>1, OwnersOfLiveSlots, OwnersOfLiveSlotsNext
<1>5. Owners' = [g \in LiveHandles' |-> Owners'[g]]
  BY DEF Owners
<1>. QED
  BY <1>2, <1>3, <1>4, <1>5

\* The slots a release leaves alone, and the live slots that remain.
LEMMA ReleasedSlots ==
  ASSUME ArenaInv, NEW I \in SUBSET LiveSlots,
         slots' = [i \in DOMAIN slots |->
                     IF i \in I THEN Vacated(slots[i]) ELSE slots[i]],
         UNCHANGED <<creationSequence, issued>>
  PROVE  /\ LiveSlots' = LiveSlots \ I
         /\ \A i \in LiveSlots \ I : slots'[i] = slots[i]
<1>1. TypeOK /\ HistoryConsistent
  BY DEF ArenaInv
<1>2. LiveSlots' = LiveSlots \ I
  BY <1>1, VacateStep
<1>. QED
  BY <1>2 DEF LiveSlots

-----------------------------------------------------------------------------
(* Each operation of the arena is the operation of the table, or a stutter.*)

\* beginScope() opens a scope of the table.
LEMMA BeginScopeSimulates ==
  ASSUME ArenaInv, ArenaInv', BeginScope
  PROVE  \E s \in ScopeId : Table!BeginScope(s)
<1>1. nextScope \in ScopeId /\ DOMAIN scopes' = (DOMAIN scopes) \cup {nextScope}
  BY DEF BeginScope, ArenaInv, TypeOK
<1>2. UNCHANGED <<Owners, issued>>
  BY DEF BeginScope, Owners, LiveHandles, Valid
<1>. QED
  BY <1>1, <1>2 DEF Table!BeginScope

\* add() issues a token that was never issued before.
LEMMA AddSimulates ==
  ASSUME ArenaInv, ArenaInv', NEW s \in ScopeId, AddNew(s) \/ AddReused(s)
  PROVE  \E h \in Handle : Table!Issue(h, s)
<1>. USE DEF ArenaInv
<1>1. /\ DOMAIN slots = 1 .. Len(slots) /\ Len(slots) \in Nat
      /\ slots \in Seq(Slot) /\ creationSequence \in Nat
  BY HandleAtFacts DEF TypeOK
<1>2. CASE AddNew(s)
  <2>0. PICK i \in Nat : i = Len(slots) + 1
    BY <1>1
  <2> DEFINE h == HandleOf(1, i)
  <2>1. \A k \in 1 .. Len(issued) : issued[k] # h
    BY <1>2, <2>0, AddNewStep
  <2>2. h \in Handle
    <3>1. 1 \in 0 .. GenerationMask /\ i \in 0 .. IndexMask
      BY <1>1, <1>2, <2>0, ArenaAssumption DEF AddNew, TypeOK
    <3>. QED
      BY <3>1, HandleCoding
  <2>3. /\ Occupied(NewSlot, s) \in Slot
        /\ Occupied(NewSlot, s).live
        /\ Occupied(NewSlot, s).scope = s
        /\ Occupied(NewSlot, s).generation = 1
    BY <1>1, NewSlotFacts, OccupiedFacts DEF NewSlot
  <2>4. /\ slots' \in Seq(Slot) /\ Len(slots') = i
        /\ \A j \in DOMAIN slots : slots'[j] = slots[j]
        /\ slots'[i] = Occupied(NewSlot, s)
    BY <1>1, <1>2, <2>0, <2>3, AppendProperties DEF AddNew
  <2>5. DOMAIN slots' = (DOMAIN slots) \cup {i} /\ i \notin DOMAIN slots
    <3>1. DOMAIN slots' = 1 .. i
      BY <2>4, LenProperties
    <3>. QED
      BY <1>1, <2>0, <3>1
  <2>6. i \notin LiveSlots /\ LiveSlots' = LiveSlots \cup {i}
    BY <2>3, <2>4, <2>5 DEF LiveSlots
  <2>7. HandleAt(i)' = h /\ slots'[i].scope = s
    BY <2>3, <2>4 DEF HandleAt
  <2>8. \A j \in LiveSlots : slots'[j] = slots[j]
    BY <2>4 DEF LiveSlots
  <2>9. /\ issued' = Append(issued, h) /\ DOMAIN scopes' = DOMAIN scopes
        /\ s \in DOMAIN scopes
    BY <1>2, <2>0 DEF AddNew, Record
  <2>10. TypeOK /\ TypeOK'
    OBVIOUS
  <2>. HIDE DEF h, ArenaInv
  <2>11. Owners' = [g \in LiveHandles \cup {h} |-> IF g = h THEN s ELSE Owners[g]]
    BY <2>6, <2>7, <2>8, <2>10, OccupiedOwners
  <2>12. Table!Issue(h, s)
    BY <2>1, <2>9, <2>10, <2>11, OwnersOfLiveSlots DEF Table!Issue
  <2>. QED
    BY <2>2, <2>12
<1>3. CASE AddReused(s)
  <2>0. PICK i : i = free[Len(free)]
    OBVIOUS
  <2>1. PICK h : h = HandleAt(i)
    OBVIOUS
  <2>13. \A k \in 1 .. Len(issued) : issued[k] # h
    BY <1>3, <2>0, <2>1, AddReusedStep
  <2>2. i \in DOMAIN slots /\ ~slots[i].live /\ slots[i] \in Slot
    <3>1. free \in Seq(DOMAIN slots) /\ Len(free) \in 1 .. Len(free)
      BY <1>1, <1>3, EmptySeq DEF AddReused, TypeOK
    <3>2. i \in DOMAIN slots
      BY <2>0, <3>1, ElementOfSeq
    <3>. QED
      BY <1>1, <2>0, <3>1, <3>2, ElementOfSeq DEF FreeListExact
  <2>3. h \in Handle
    BY <2>1, <2>2, HandleAtFacts
  <2>4. /\ Occupied(slots[i], s) \in Slot
        /\ Occupied(slots[i], s).live
        /\ Occupied(slots[i], s).scope = s
        /\ Occupied(slots[i], s).generation = slots[i].generation
    BY <1>1, <2>2, OccupiedFacts
  <2>5. /\ DOMAIN slots' = DOMAIN slots
        /\ slots'[i] = Occupied(slots[i], s)
        /\ \A j \in (DOMAIN slots) \ {i} : slots'[j] = slots[j]
    BY <1>1, <1>3, <2>0, <2>2 DEF AddReused
  <2>6. i \notin LiveSlots /\ LiveSlots' = LiveSlots \cup {i}
    BY <2>2, <2>4, <2>5 DEF LiveSlots
  <2>7. HandleAt(i)' = h /\ slots'[i].scope = s
    <3>1. slots'[i].generation = slots[i].generation /\ slots'[i].scope = s
      BY <2>4, <2>5
    <3>. QED
      BY <2>1, <3>1 DEF HandleAt
  <2>8. \A j \in LiveSlots : slots'[j] = slots[j]
    BY <2>5, <2>6 DEF LiveSlots
  <2>9. /\ issued' = Append(issued, h) /\ DOMAIN scopes' = DOMAIN scopes
        /\ s \in DOMAIN scopes
    BY <1>3, <2>0, <2>1 DEF AddReused, Record
  <2>10. TypeOK /\ TypeOK'
    OBVIOUS
  <2>. HIDE DEF ArenaInv
  <2>11. Owners' = [g \in LiveHandles \cup {h} |-> IF g = h THEN s ELSE Owners[g]]
    BY <2>6, <2>7, <2>8, <2>10, OccupiedOwners
  <2>12. Table!Issue(h, s)
    BY <2>13, <2>9, <2>10, <2>11, OwnersOfLiveSlots DEF Table!Issue
  <2>. QED
    BY <2>3, <2>12
<1>. QED
  BY <1>2, <1>3

\* release() makes one token dead.
LEMMA ReleaseSimulates ==
  ASSUME ArenaInv, ArenaInv', NEW h \in Handle, Release(h)
  PROVE  Table!Release(h)
<1>. TypeOK /\ TypeOK'
  BY DEF ArenaInv
<1>1. PICK i \in LiveSlots : i = EncodedIndex(h) /\ h = HandleAt(i)
  BY HandleAtFacts DEF Release
<1>2. /\ slots' = [j \in DOMAIN slots |->
                     IF j \in {i} THEN Vacated(slots[j]) ELSE slots[j]]
      /\ UNCHANGED <<creationSequence, issued>>
      /\ DOMAIN scopes' = DOMAIN scopes
  BY <1>1 DEF Release, ReleaseSlots, WithoutHandles
<1>3. Owners' = [g \in LiveHandles \ {HandleAt(j) : j \in {i}} |-> Owners[g]]
  BY <1>2, ReleasedSlots, VacatedOwners
<1>4. {HandleAt(j) : j \in {i}} = {h}
  BY <1>1
<1>. QED
  BY <1>1, <1>2, <1>3, <1>4, OwnersOfLiveSlots DEF Table!Release, Table!Keep

\* endScope() makes the tokens of the scope dead and closes it.
LEMMA EndScopeSimulates ==
  ASSUME ArenaInv, ArenaInv', NEW s \in ScopeId, EndScope(s)
  PROVE  Table!EndScope(s)
<1>. TypeOK /\ TypeOK'
  BY DEF ArenaInv
<1>1. PICK I : I = {EncodedIndex(h) : h \in scopes[s]}
  OBVIOUS
<1>2. I = {i \in LiveSlots : slots[i].scope = s} /\ s \in DOMAIN scopes
  BY <1>1, ScopeSlots DEF EndScope
<1>3. /\ slots' = [j \in DOMAIN slots |->
                     IF j \in I THEN Vacated(slots[j]) ELSE slots[j]]
      /\ UNCHANGED <<creationSequence, issued>>
      /\ DOMAIN scopes' = (DOMAIN scopes) \ {s}
  BY <1>1 DEF EndScope, ReleaseSlots
<1>4. Owners' = [g \in LiveHandles \ {HandleAt(j) : j \in I} |-> Owners[g]]
  <2>1. I \in SUBSET LiveSlots
    BY <1>2, <1>3
  <2>2. /\ LiveSlots' = LiveSlots \ I
        /\ \A i \in LiveSlots \ I : slots'[i] = slots[i]
    BY <1>2, <1>3, <2>1, ReleasedSlots
  <2>. QED
    BY <2>1, <2>2, VacatedOwners
<1>5. LiveHandles \ {HandleAt(j) : j \in I} = {t \in LiveHandles : Owners[t] # s}
  BY <1>2, OwnersOfLiveSlots
<1>. QED
  BY <1>2, <1>3, <1>4, <1>5, OwnersOfLiveSlots DEF Table!EndScope, Table!Keep

\* clear() makes every token dead and closes every scope.
LEMMA ClearSimulates ==
  ASSUME ArenaInv, ArenaInv', Clear
  PROVE  Table!Clear
<1>. TypeOK /\ TypeOK'
  BY DEF ArenaInv
<1>1. /\ slots' = [j \in DOMAIN slots |->
                     IF j \in LiveSlots THEN Vacated(slots[j]) ELSE slots[j]]
      /\ UNCHANGED <<creationSequence, issued>>
      /\ DOMAIN scopes' = {}
  BY DEF Clear, LiveSlots
<1>2. PICK I : I = LiveSlots
  OBVIOUS
<1>3. Owners' = [g \in LiveHandles \ {HandleAt(j) : j \in I} |-> Owners[g]]
  <2>1. I \in SUBSET LiveSlots
    BY <1>1, <1>2
  <2>2. /\ LiveSlots' = LiveSlots \ I
        /\ \A i \in LiveSlots \ I : slots'[i] = slots[i]
    BY <1>1, <1>2, <2>1, ReleasedSlots
  <2>. QED
    BY <2>1, <2>2, VacatedOwners
<1>4. LiveHandles \ {HandleAt(j) : j \in I} = {}
  BY <1>2, OwnersOfLiveSlots
<1>5. Owners' = [t \in {} |-> 0]
  BY <1>3, <1>4
<1>. QED
  BY <1>1, <1>5 DEF Table!Clear

\* A live handle was issued among the first k exactly when its slot's creation
\* sequence is at most k.
LEMMA CreatedBefore ==
  ASSUME ArenaInv, NEW i \in LiveSlots, NEW k \in 0 .. creationSequence
  PROVE  slots[i].creationSequence <= k <=> \E n \in 1 .. k : issued[n] = HandleAt(i)
<1>. USE DEF ArenaInv
<1>1. /\ Len(issued) = creationSequence /\ creationSequence \in Nat
      /\ slots[i].creationSequence \in 1 .. Len(issued)
      /\ issued[slots[i].creationSequence] = HandleAt(i)
  BY DEF HistoryConsistent, TypeOK
<1>2. ASSUME NEW n \in 1 .. k, issued[n] = HandleAt(i)
      PROVE  slots[i].creationSequence = n
  <2>1. n \in 1 .. Len(issued)
    BY <1>1
  <2>2. i \in DOMAIN slots /\ EncodedIndex(issued[n]) = i
        /\ Generation(issued[n]) = slots[i].generation
    BY <1>2, HandleAtFacts DEF LiveSlots
  <2>3. slots[i].retired \/ slots[i].creationSequence = n
    BY <2>1, <2>2 DEF HistoryConsistent
  <2>4. ~slots[i].retired
    BY <2>2 DEF HistoryConsistent, LiveSlots
  <2>. QED
    BY <2>3, <2>4
<1>3. ASSUME slots[i].creationSequence <= k
      PROVE  \E n \in 1 .. k : issued[n] = HandleAt(i)
  <2>1. slots[i].creationSequence \in 1 .. k
    BY <1>1, <1>3
  <2>. QED
    BY <1>1, <2>1
<1>4. ASSUME NEW n \in 1 .. k, issued[n] = HandleAt(i)
      PROVE  slots[i].creationSequence <= k
  BY <1>2, <1>4
<1>. QED
  BY <1>3, <1>4

\* rollback() makes dead what was issued after the checkpoint, and nothing else.
LEMMA RollbackSimulates ==
  ASSUME ArenaInv, ArenaInv', NEW k \in 0 .. creationSequence, Rollback(k)
  PROVE  k \in 0 .. Len(issued) /\ Table!Rollback(k)
<1>. TypeOK /\ TypeOK'
  BY DEF ArenaInv
<1>1. PICK I : I = {i \in LiveSlots : slots[i].creationSequence > k}
  OBVIOUS
<1>2. /\ slots' = [j \in DOMAIN slots |->
                     IF j \in I THEN Vacated(slots[j]) ELSE slots[j]]
      /\ UNCHANGED <<creationSequence, issued>>
      /\ DOMAIN scopes' = DOMAIN scopes
  BY <1>1 DEF Rollback, ReleaseSlots, WithoutHandles
<1>3. Owners' = [g \in LiveHandles \ {HandleAt(j) : j \in I} |-> Owners[g]]
  <2>1. I \in SUBSET LiveSlots
    BY <1>1, <1>2
  <2>2. /\ LiveSlots' = LiveSlots \ I
        /\ \A i \in LiveSlots \ I : slots'[i] = slots[i]
    BY <1>1, <1>2, <2>1, ReleasedSlots
  <2>. QED
    BY <2>1, <2>2, VacatedOwners
<1>4. ASSUME NEW i \in LiveSlots
      PROVE  i \in I <=> ~ \E n \in 1 .. k : issued[n] = HandleAt(i)
  <2>1. slots[i].creationSequence \in Nat /\ k \in Nat
    BY HandleAtFacts DEF LiveSlots, Slot, TypeOK
  <2>. QED
    BY <1>1, <2>1, CreatedBefore
<1>5. LiveHandles \ {HandleAt(j) : j \in I} =
        {t \in LiveHandles : \E n \in 1 .. k : issued[n] = t}
  BY <1>1, <1>4, OwnersOfLiveSlots
<1>6. k \in 0 .. Len(issued)
  BY DEF ArenaInv, HistoryConsistent
<1>. QED
  BY <1>2, <1>3, <1>5, <1>6, OwnersOfLiveSlots DEF Table!Rollback, Table!Keep

-----------------------------------------------------------------------------
\* The arena implements the abstract handle table: get() accepts exactly the
\* live tokens, no handle is issued twice, rollback forgets exactly what was
\* issued since the checkpoint.
THEOREM ArenaImplementsHandleTable == Spec => ImplementsHandleTable
<1>1. Init => Table!Init
  <2>. SUFFICES ASSUME Init PROVE Table!Init
    OBVIOUS
  <2>1. TypeOK /\ LiveSlots = {}
    BY InitInv DEF ArenaInv, Init, LiveSlots
  <2>2. LiveHandles = {}
    BY <2>1, OwnersOfLiveSlots
  <2>. QED
    BY <2>2 DEF Table!Init, Init, Owners
<1>2. ArenaInv /\ ArenaInv' /\ [Next]_arenaVars => [Table!Next]_(Table!vars)
  <2>. SUFFICES ASSUME ArenaInv, ArenaInv', [Next]_arenaVars
                PROVE  [Table!Next]_(Table!vars)
    OBVIOUS
  <2>1. CASE BeginScope
    BY <2>1, BeginScopeSimulates DEF Table!Next
  <2>2. ASSUME NEW s \in ScopeId, AddNew(s) \/ AddReused(s)
        PROVE  Table!Next
    BY <2>2, AddSimulates DEF Table!Next
  <2>3. ASSUME NEW s \in ScopeId, EndScope(s)
        PROVE  Table!Next
    BY <2>3, EndScopeSimulates DEF Table!Next
  <2>4. ASSUME NEW h \in Handle, Release(h)
        PROVE  Table!Next
    BY <2>4, ReleaseSimulates DEF Table!Next
  <2>5. ASSUME NEW k \in 0 .. creationSequence, Rollback(k)
        PROVE  Table!Next
    BY <2>5, RollbackSimulates DEF Table!Next
  <2>6. CASE Clear
    BY <2>6, ClearSimulates DEF Table!Next
  <2>7. CASE UNCHANGED arenaVars
    BY <2>7 DEF arenaVars, Table!vars, Owners, LiveHandles, Valid
  <2>. QED
    BY <2>1, <2>2, <2>3, <2>4, <2>5, <2>6, <2>7 DEF Next
<1>. QED
  BY <1>1, <1>2, ArenaInvariant, PTL DEF Spec, ImplementsHandleTable, Table!Spec
=============================================================================
