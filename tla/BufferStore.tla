---------------------------- MODULE BufferStore ----------------------------
(***************************************************************************)
(* The kernel's table of byte buffers (kernel/runtime/buffer_store.cpp).   *)
(* A buffer is its length and the creation sequence rollback compares with *)
(* a checkpoint; its bytes are not modelled.  Ids are never reused.  A     *)
(* call with an unknown id throws and changes nothing: no step.            *)
(***************************************************************************)
EXTENDS Integers, FiniteSets

CONSTANTS
  ByteLength,       \* the lengths a caller asks for
  IdWrap,           \* 2^32: the id counter is a u32 and wraps
  MaxBuffers        \* bound on create(): the model stops before ids wrap

\* Assumed by the modules that use a store.
BufferAssumption ==
  /\ ByteLength \subseteq Nat
  /\ MaxBuffers \in Nat
  /\ IdWrap \in Nat
  /\ MaxBuffers < IdWrap - 1

VARIABLES
  buffers,          \* myBuffers: id -> [size, creationSequence]
  nextBuffer,       \* myNextId
  bufferSequence,   \* myCreationSequence
  liveBytes         \* myLiveBytes

bufferVars == <<buffers, nextBuffer, bufferSequence, liveBytes>>

BufferId == 0 .. IdWrap - 1

\* The bytes of the buffers in I, each with its place in the buffer.
Bytes(I) == UNION {{i} \X (1 .. buffers[i].size) : i \in I}
BytesOf(I) == Cardinality(Bytes(I))

Without(I) == [i \in (DOMAIN buffers) \ I |-> buffers[i]]

-----------------------------------------------------------------------------
Init ==
  /\ buffers = [i \in {} |-> [size |-> 0, creationSequence |-> 0]]
  /\ nextBuffer = 1
  /\ bufferSequence = 0
  /\ liveBytes = 0

\* emplace leaves an existing entry alone, should the counter have wrapped.
Create(size) ==
  /\ nextBuffer <= MaxBuffers
  /\ nextBuffer' = (nextBuffer + 1) % IdWrap
  /\ bufferSequence' = bufferSequence + 1
  /\ buffers' = [i \in (DOMAIN buffers) \cup {nextBuffer} |->
                   IF i \in DOMAIN buffers THEN buffers[i]
                   ELSE [size |-> size, creationSequence |-> bufferSequence']]
  /\ liveBytes' = liveBytes + size

\* create when the bytes, or the entry for them, cannot be allocated: bad_alloc, and
\* the id is spent; the sequence number too if the bytes were there.
CreateFails ==
  /\ nextBuffer <= MaxBuffers
  /\ nextBuffer' = (nextBuffer + 1) % IdWrap
  /\ bufferSequence' \in {bufferSequence, bufferSequence + 1}
  /\ UNCHANGED <<buffers, liveBytes>>

Release(id) ==
  /\ id \in DOMAIN buffers
  /\ liveBytes' = liveBytes - buffers[id].size
  /\ buffers' = Without({id})
  /\ UNCHANGED <<nextBuffer, bufferSequence>>

\* Mutant of Clear: the byte count is not reset.
ClearKeepingCount ==
  /\ buffers' = Without(DOMAIN buffers)
  /\ UNCHANGED <<nextBuffer, bufferSequence, liveBytes>>

Clear ==
  /\ buffers' = Without(DOMAIN buffers)
  /\ liveBytes' = 0
  /\ UNCHANGED <<nextBuffer, bufferSequence>>

\* Mutant of CreatedSince: the last buffer before the checkpoint goes too.
CreatedSinceInclusive(checkpoint) ==
  {i \in DOMAIN buffers : buffers[i].creationSequence >= checkpoint}

\* Buffers a rollback drops: those created after the checkpoint.
CreatedSince(checkpoint) ==
  {i \in DOMAIN buffers : buffers[i].creationSequence > checkpoint}

Rollback(checkpoint) ==
  /\ liveBytes' = liveBytes - BytesOf(CreatedSince(checkpoint))
  /\ buffers' = Without(CreatedSince(checkpoint))
  /\ UNCHANGED <<nextBuffer, bufferSequence>>

Next ==
  \/ \E size \in ByteLength : Create(size)
  \/ CreateFails
  \/ \E id \in BufferId : Release(id)
  \/ Clear
  \/ \E checkpoint \in 0 .. bufferSequence : Rollback(checkpoint)

Spec == Init /\ [][Next]_bufferVars

-----------------------------------------------------------------------------
(* Properties.                                                             *)

\* stats().liveBufferBytes is the sum of the lengths of the buffers that exist,
\* whatever was released, cleared or rolled back in between; it never wraps.
LiveBytesExact == liveBytes = BytesOf(DOMAIN buffers)
=============================================================================
