----------------------------- MODULE ShapeArena -----------------------------
(***************************************************************************)
(* The kernel's table of OCCT shapes (kernel/runtime/shape_arena.cpp).     *)
(* A shape lives in a slot; its u32 handle packs the slot's generation     *)
(* above the slot's 1-based index.  Releasing a slot bumps its generation, *)
(* so that the handles of earlier occupants are stale; a slot whose        *)
(* generation is exhausted is retired instead of reused.  The shape itself *)
(* is not modelled.  Slots are numbered from 1, as in the handle.          *)
(*                                                                         *)
(* Calls the code rejects (unknown scope, stale handle, full table) leave  *)
(* the table as it was and are the absence of a step.                      *)
(***************************************************************************)
EXTENDS Integers, Sequences, FiniteSets

CONSTANTS
  IndexMask,        \* kIndexMask: the largest slot index a handle can hold
  GenerationMask,   \* kGenerationMask: the last generation of a slot
  ScopeWrap,        \* 2^32: the scope counter is a u32 and wraps
  MaxCreations      \* bound on add(): the u64 creation counter stays below it

ASSUME ArenaAssumption ==
  /\ IndexMask \in Nat \ {0}
  /\ GenerationMask \in Nat \ {0}
  /\ ScopeWrap \in Nat \ {0, 1}
  /\ MaxCreations \in Nat

VARIABLES
  slots,              \* mySlots
  free,               \* myFree, a stack whose top is its last element
  scopes,             \* myScopes: open scope id -> the handles it owns
  nextScope,          \* myNextScope
  liveCount,          \* myLiveCount
  creationSequence,   \* myCreationSequence
  issued              \* history: the handle returned by each add, in order

arenaVars ==
  <<slots, free, scopes, nextScope, liveCount, creationSequence, issued>>

ScopeId == 0 .. ScopeWrap - 1

-----------------------------------------------------------------------------
(* Handles.                                                                *)

\* The shift drops what does not fit above the index bits of a u32.
HandleOf(generation, index) ==
  (generation % (GenerationMask + 1)) * (IndexMask + 1) + index
EncodedIndex(h) == h % (IndexMask + 1)
Generation(h) == h \div (IndexMask + 1)

\* Every u32 a caller may present, whether or not it was ever issued.
Handle == 0 .. (GenerationMask + 1) * (IndexMask + 1) - 1

Slot == [ generation : 1 .. GenerationMask,
          scope : ScopeId,
          live : BOOLEAN,
          retired : BOOLEAN,
          creationSequence : Nat ]

NewSlot == [ generation |-> 1, scope |-> 0, live |-> FALSE,
             retired |-> FALSE, creationSequence |-> 0 ]

HandleAt(i) == HandleOf(slots[i].generation, i)
LiveSlots == {i \in DOMAIN slots : slots[i].live}

\* get(h) returns a shape instead of throwing.
Valid(h) ==
  /\ EncodedIndex(h) \in DOMAIN slots
  /\ slots[EncodedIndex(h)].live
  /\ slots[EncodedIndex(h)].generation = Generation(h)

-----------------------------------------------------------------------------
(* Operations.                                                             *)

Init ==
  /\ slots = <<>>
  /\ free = <<>>
  /\ scopes = [s \in {} |-> {}]
  /\ nextScope = 1
  /\ liveCount = 0
  /\ creationSequence = 0
  /\ issued = <<>>

\* emplace leaves an existing entry alone, should the counter have wrapped.
BeginScope ==
  /\ scopes' = [s \in (DOMAIN scopes) \cup {nextScope} |->
                  IF s \in DOMAIN scopes THEN scopes[s] ELSE {}]
  /\ nextScope' = (nextScope + 1) % ScopeWrap
  /\ UNCHANGED <<slots, free, liveCount, creationSequence, issued>>

\* Mutant of Occupied: the creation sequence is stamped before it is bumped.
OccupiedEarlier(slot, s) ==
  [ generation |-> slot.generation,
    scope |-> s,
    live |-> TRUE,
    retired |-> slot.retired,
    creationSequence |-> creationSequence ]

\* The slot with a new shape in it, stamped with the next creation sequence.
Occupied(slot, s) ==
  [ generation |-> slot.generation,
    scope |-> s,
    live |-> TRUE,
    retired |-> slot.retired,
    creationSequence |-> creationSequence + 1 ]

\* What add does to the scope, the counters and the history in both branches.
Record(h, s) ==
  /\ scopes' = [scopes EXCEPT ![s] = @ \cup {h}]
  /\ creationSequence' = creationSequence + 1
  /\ liveCount' = liveCount + 1
  /\ issued' = Append(issued, h)
  /\ nextScope' = nextScope

\* add when the free list is empty and the table can grow.
AddNew(s) ==
  /\ s \in DOMAIN scopes
  /\ creationSequence < MaxCreations
  /\ free = <<>>
  /\ Len(slots) < IndexMask
  /\ slots' = Append(slots, Occupied(NewSlot, s))
  /\ free' = free
  /\ Record(HandleOf(1, Len(slots) + 1), s)

\* Mutant of AddReused: the reused slot stays on the free list.
AddReusedKeepsFree(s) ==
  /\ s \in DOMAIN scopes
  /\ creationSequence < MaxCreations
  /\ free # <<>>
  /\ LET i == free[Len(free)]
     IN /\ slots' = [slots EXCEPT ![i] = Occupied(@, s)]
        /\ Record(HandleAt(i), s)
  /\ free' = free

\* add on top of the free list.
AddReused(s) ==
  /\ s \in DOMAIN scopes
  /\ creationSequence < MaxCreations
  /\ free # <<>>
  /\ LET i == free[Len(free)]
     IN /\ slots' = [slots EXCEPT ![i] = Occupied(@, s)]
        /\ Record(HandleAt(i), s)
  /\ free' = SubSeq(free, 1, Len(free) - 1)

-----------------------------------------------------------------------------
\* Mutant of Exhausted: no slot is ever retired, generations wrap.
NeverExhausted(slot) == FALSE

\* The slot's generation cannot be bumped once more.
Exhausted(slot) == slot.generation = GenerationMask

\* Mutant of Vacated: the generation is not bumped.
VacatedSameGeneration(slot) ==
  [slot EXCEPT !.live = FALSE, !.retired = @ \/ Exhausted(slot)]

\* A slot after its shape is dropped: the next generation, or retired.
Vacated(slot) ==
  [ generation |-> IF Exhausted(slot) THEN slot.generation
                                         ELSE slot.generation + 1,
    scope |-> slot.scope,
    live |-> FALSE,
    retired |-> slot.retired \/ Exhausted(slot),
    creationSequence |-> slot.creationSequence ]

\* The slots of I that a release puts back on the free list.
Reusable(I) == {i \in I : ~Exhausted(slots[i])}

\* The orders in which a loop may visit the members of a finite set.
Enumerations(S) ==
  {order \in [1 .. Cardinality(S) -> S] :
     \A m, n \in 1 .. Cardinality(S) : order[m] = order[n] => m = n}

Ascends(order) == \A m, n \in DOMAIN order : m < n => order[m] < order[n]

\* Mutant of WithoutHandles: release forgets to erase the handle from its scope.
WithoutHandlesForgotten(I) == scopes

\* Each released handle is erased from the scope its slot names.
WithoutHandles(I) ==
  [s \in DOMAIN scopes |->
     scopes[s] \ {HandleAt(i) : i \in {j \in I : slots[j].scope = s}}]

\* release() of every slot of I, pushing the reusable ones in the given order.
ReleaseSlots(I, order) ==
  /\ slots' = [i \in DOMAIN slots |->
                 IF i \in I THEN Vacated(slots[i]) ELSE slots[i]]
  /\ free' = free \o order
  /\ liveCount' = liveCount - Cardinality(I)
  /\ UNCHANGED <<nextScope, creationSequence, issued>>

Release(h) ==
  /\ Valid(h)
  /\ \E order \in Enumerations(Reusable({EncodedIndex(h)})) :
       ReleaseSlots({EncodedIndex(h)}, order)
  /\ scopes' = WithoutHandles({EncodedIndex(h)})

\* The scope's unordered set is walked in an order of its own.  A member that
\* get() rejects would abort the walk: ScopesOwnLiveHandles rules it out.
EndScope(s) ==
  /\ s \in DOMAIN scopes
  /\ \A h \in scopes[s] : Valid(h)
  /\ LET I == {EncodedIndex(h) : h \in scopes[s]}
     IN /\ \E order \in Enumerations(Reusable(I)) : ReleaseSlots(I, order)
        /\ scopes' = [t \in (DOMAIN scopes) \ {s} |-> WithoutHandles(I)[t]]

\* Mutant of Clear: the live count is not reset.
ClearKeepingCount ==
  /\ slots' = [i \in DOMAIN slots |->
                 IF slots[i].live THEN Vacated(slots[i]) ELSE slots[i]]
  /\ \E order \in Enumerations({i \in DOMAIN slots : ~slots'[i].retired}) :
       Ascends(order) /\ free' = order
  /\ scopes' = [s \in {} |-> {}]
  /\ UNCHANGED <<nextScope, liveCount, creationSequence, issued>>

\* clear(): the free list is rebuilt from every slot that is not retired.
Clear ==
  /\ slots' = [i \in DOMAIN slots |->
                 IF slots[i].live THEN Vacated(slots[i]) ELSE slots[i]]
  /\ \E order \in Enumerations({i \in DOMAIN slots : ~slots'[i].retired}) :
       Ascends(order) /\ free' = order
  /\ scopes' = [s \in {} |-> {}]
  /\ liveCount' = 0
  /\ UNCHANGED <<nextScope, creationSequence, issued>>

\* rollback(checkpoint): slots created since are released, lowest index first.
Rollback(checkpoint) ==
  LET I == {i \in LiveSlots : slots[i].creationSequence > checkpoint}
  IN /\ \E order \in Enumerations(Reusable(I)) :
          Ascends(order) /\ ReleaseSlots(I, order)
     /\ scopes' = WithoutHandles(I)

Next ==
  \/ BeginScope
  \/ \E s \in ScopeId : AddNew(s) \/ AddReused(s) \/ EndScope(s)
  \/ \E h \in Handle : Release(h)
  \/ \E checkpoint \in 0 .. creationSequence : Rollback(checkpoint)
  \/ Clear

Spec == Init /\ [][Next]_arenaVars

-----------------------------------------------------------------------------
(* Properties.                                                             *)

\* Types of the arena's fields; generations stay within their 12 bits.
TypeOK ==
  /\ slots \in Seq(Slot)
  /\ Len(slots) <= IndexMask
  /\ free \in Seq(1 .. Len(slots))
  /\ DOMAIN scopes \subseteq ScopeId
  /\ scopes \in [DOMAIN scopes -> SUBSET Handle]
  /\ nextScope \in ScopeId
  /\ liveCount \in Nat
  /\ creationSequence \in Nat
  /\ issued \in Seq(Handle)

\* The free list names each vacant slot exactly once and no live or retired
\* slot: add never overwrites a shape that is in use, and no slot is lost.
FreeListExact ==
  /\ \A m, n \in 1 .. Len(free) : free[m] = free[n] => m = n
  /\ \A i \in DOMAIN slots :
       (~slots[i].live /\ ~slots[i].retired) <=> \E n \in 1 .. Len(free) : free[n] = i

\* A scope owns exactly the live handles created in it: ending it leaks none
\* and walks over no stale one, and every live handle has an open owner.
ScopesOwnLiveHandles ==
  /\ \A i \in LiveSlots : slots[i].scope \in DOMAIN scopes
  /\ \A s \in DOMAIN scopes :
       scopes[s] = {HandleAt(i) : i \in {j \in LiveSlots : slots[j].scope = s}}

\* The live count reported by stats() is the number of live slots.
LiveCountExact == liveCount = Cardinality(LiveSlots)

\* What the table remembers of the handles it issued: an issued handle names a
\* slot that still exists and a generation that is past, retired, or that of the
\* one shape now in the slot.  So a handle kept by a caller is either the live
\* shape it was issued for or stale for ever.
HistoryConsistent ==
  /\ Len(issued) = creationSequence
  /\ \A i \in DOMAIN slots :
       slots[i].retired => slots[i].generation = GenerationMask /\ ~slots[i].live
  /\ \A i \in LiveSlots :
       /\ slots[i].creationSequence \in 1 .. Len(issued)
       /\ issued[slots[i].creationSequence] = HandleAt(i)
  /\ \A k \in 1 .. Len(issued) :
       LET i == EncodedIndex(issued[k])
           g == Generation(issued[k])
       IN /\ i \in DOMAIN slots
          /\ g <= slots[i].generation
          /\ g = slots[i].generation =>
               \/ slots[i].retired
               \/ slots[i].live /\ slots[i].creationSequence = k

\* The inductive invariant: each part needs the others.
ArenaInv ==
  /\ TypeOK
  /\ FreeListExact
  /\ ScopesOwnLiveHandles
  /\ LiveCountExact
  /\ HistoryConsistent

(***************************************************************************)
(* The arena implements HandleTable: the handles get() accepts are exactly *)
(* the abstract live tokens, a handle is never issued twice (generations   *)
(* never wrap), and a rollback forgets exactly what was issued since the   *)
(* checkpoint.                                                             *)
(***************************************************************************)
LiveHandles == {h \in Handle : Valid(h)}
Owners == [h \in LiveHandles |-> slots[EncodedIndex(h)].scope]

Table == INSTANCE HandleTable WITH
  Token <- Handle,
  ScopeId <- ScopeId,
  live <- Owners,
  open <- DOMAIN scopes,
  issued <- issued

ImplementsHandleTable == Table!Spec
=============================================================================
