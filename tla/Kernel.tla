------------------------------- MODULE Kernel -------------------------------
(***************************************************************************)
(* Request dispatch in the kernel (kernel/include/kernel_context.hpp,      *)
(* kernel/runtime/kernel.cpp, protocol_dispatch.cpp).  Every dispatch      *)
(* takes a checkpoint of the shapes and of the buffers and rolls both back *)
(* when an exception passes through it.  A batch dispatches its operations *)
(* one after the other and ends normally, keeping its prefix, at the first *)
(* KernelFailure.  Dispatches nest: a batch in a batch, an operation       *)
(* handler that dispatches another operation.                              *)
(*                                                                         *)
(* Shapes are those of HandleTable, which ShapeArena implements: a         *)
(* checkpoint is the number of handles issued so far.                      *)
(***************************************************************************)
EXTENDS Integers, Sequences, FiniteSets

CONSTANTS Token, ScopeId, MaxShapes,     \* see HandleTable; bound on add()
          ByteLength, IdWrap, MaxBuffers,  \* see BufferStore
          MaxDepth                       \* bound on nested dispatches

VARIABLES
  live, open, issued,                              \* see HandleTable
  buffers, nextBuffer, bufferSequence, liveBytes,  \* see BufferStore
  stack,      \* the dispatches on the C++ call stack, the innermost last
  thrown      \* the exception in flight: none, a failure or a bad_alloc

Shapes == INSTANCE HandleTable
Buffers == INSTANCE BufferStore

ASSUME KernelAssumption ==
  /\ Buffers!BufferAssumption
  /\ MaxShapes \in Nat /\ MaxDepth \in Nat

shapeVars == <<live, open, issued>>
bufferVars == <<buffers, nextBuffer, bufferSequence, liveBytes>>
callVars == <<stack, thrown>>
vars == <<live, open, issued, buffers, nextBuffer, bufferSequence, liveBytes,
          stack, thrown>>

Kind == {"op", "batch"}
Thrown == {"none", "failure", "bad_alloc"}

\* A dispatch in progress.  shapesBefore and buffersBefore are history: what
\* existed when it was entered.
Frame == [ kind : Kind, scope : ScopeId,
           shapes : Nat, buffers : Nat,
           shapesBefore : SUBSET Token, buffersBefore : SUBSET Nat ]

Top == stack[Len(stack)]
Idle == stack = <<>> /\ thrown = "none"
Running(kind) == stack # <<>> /\ thrown = "none" /\ Top.kind = kind

Init ==
  /\ Shapes!Init
  /\ Buffers!Init
  /\ stack = <<>>
  /\ thrown = "none"

-----------------------------------------------------------------------------
(* Entering and leaving a dispatch.                                        *)

\* Mutant of EnteredWith: the shape checkpoint is one behind.
EnteredWithEarlier(kind, s) ==
  [ kind |-> kind, scope |-> s,
    shapes |-> IF issued = <<>> THEN 0 ELSE Len(issued) - 1,
    buffers |-> bufferSequence,
    shapesBefore |-> DOMAIN live, buffersBefore |-> DOMAIN buffers ]

EnteredWith(kind, s) ==
  [ kind |-> kind, scope |-> s,
    shapes |-> Len(issued), buffers |-> bufferSequence,
    shapesBefore |-> DOMAIN live, buffersBefore |-> DOMAIN buffers ]

\* A request, an operation of a batch, or a dispatch made by a handler.  A
\* batch forces its own scope on its operations; a handler passes its own on.
Dispatch(kind, s) ==
  /\ thrown = "none"
  /\ Len(stack) < MaxDepth
  /\ stack # <<>> => Top.scope = s
  /\ Running("op") => kind = "op"
  /\ stack' = Append(stack, EnteredWith(kind, s))
  /\ UNCHANGED <<live, open, issued, buffers, nextBuffer, bufferSequence,
                 liveBytes, thrown>>

Return ==
  /\ stack # <<>>
  /\ thrown = "none"
  /\ stack' = SubSeq(stack, 1, Len(stack) - 1)
  /\ UNCHANGED <<live, open, issued, buffers, nextBuffer, bufferSequence,
                 liveBytes, thrown>>

\* A handler throws.  Out of a batch come only the exceptions its loop does not
\* catch: json::exception for a "$ref" or "args" of the wrong type, bad_alloc.
Throw(what) ==
  /\ stack # <<>>
  /\ thrown = "none"
  /\ what # "none"
  /\ thrown' = what
  /\ UNCHANGED <<live, open, issued, buffers, nextBuffer, bufferSequence,
                 liveBytes, stack>>

\* The frames left when an exception has passed the innermost one: a failure
\* becomes a KernelFailure, which a batch around it catches and returns.
Caught ==
  thrown = "failure" /\ Len(stack) > 1 /\ stack[Len(stack) - 1].kind = "batch"
Unwound == SubSeq(stack, 1, Len(stack) - (IF Caught THEN 2 ELSE 1))

RolledBack == Shapes!Rollback(Top.shapes) /\ Buffers!Rollback(Top.buffers)

Unwind ==
  /\ thrown # "none"
  /\ RolledBack
  /\ stack' = Unwound
  /\ thrown' = IF Caught \/ Unwound = <<>> THEN "none" ELSE thrown

-----------------------------------------------------------------------------
(* What handlers do.                                                       *)

\* A geometry operation stores a shape in the scope of its arguments.
AddShape(t) ==
  /\ Running("op")
  /\ Len(issued) < MaxShapes
  /\ Shapes!Issue(t, Top.scope)
  /\ UNCHANGED <<bufferVars, callVars>>

AddBuffer(size) ==
  /\ Running("op")
  /\ Buffers!Create(size)
  /\ UNCHANGED <<shapeVars, callVars>>

\* The bytes of a buffer cannot be allocated.
AddBufferFails ==
  /\ Running("op")
  /\ Buffers!CreateFails
  /\ thrown' = "bad_alloc"
  /\ UNCHANGED <<shapeVars, stack>>

\* The runtime operations change one thing last and return: one step each.
Calling == Idle \/ (Running("batch") /\ Len(stack) < MaxDepth)

BeginScope(s) ==
  /\ Calling
  /\ s \notin open
  /\ Shapes!BeginScope(s)
  /\ UNCHANGED <<bufferVars, callVars>>

EndScope(s) ==
  /\ Calling
  /\ stack # <<>> => Top.scope = s
  /\ Shapes!EndScope(s)
  /\ UNCHANGED <<bufferVars, callVars>>

Release(t) ==
  /\ Calling
  /\ Shapes!Release(t)
  /\ UNCHANGED <<bufferVars, callVars>>

CreateBuffer(size) ==
  /\ Calling
  /\ Buffers!Create(size)
  /\ UNCHANGED <<shapeVars, callVars>>

FreeBuffer(id) ==
  /\ Calling
  /\ Buffers!Release(id)
  /\ UNCHANGED <<shapeVars, callVars>>

ReleaseAll ==
  /\ Calling
  /\ Shapes!Clear
  /\ Buffers!Clear
  /\ UNCHANGED callVars

Next ==
  \/ \E kind \in Kind, s \in ScopeId : Dispatch(kind, s)
  \/ Return
  \/ \E what \in Thrown : Throw(what)
  \/ Unwind
  \/ \E t \in Token : AddShape(t) \/ Release(t)
  \/ \E size \in ByteLength : AddBuffer(size) \/ CreateBuffer(size)
  \/ AddBufferFails
  \/ \E s \in ScopeId : BeginScope(s) \/ EndScope(s)
  \/ \E id \in DOMAIN buffers : FreeBuffer(id)
  \/ ReleaseAll

Spec == Init /\ [][Next]_vars

-----------------------------------------------------------------------------
(* Properties.                                                             *)

\* stats().liveBufferBytes is the sum of the lengths of the buffers that exist, after
\* any nesting of dispatches that created, freed and rolled back buffers.
BytesExact == Buffers!LiveBytesExact

\* An exception that leaves an operation leaves no shape and no buffer of it
\* behind and takes none away, however deeply it was nested; one that leaves a
\* batch leaves nothing the batch created.
FailureIsAtomic ==
  [][ thrown # "none" =>
        /\ DOMAIN live' \subseteq Top.shapesBefore
        /\ DOMAIN buffers' \subseteq Top.buffersBefore
        /\ Top.kind = "op" =>
             /\ DOMAIN live' = Top.shapesBefore
             /\ DOMAIN buffers' = Top.buffersBefore ]_vars

\* A checkpoint separates old from new: what existed when a dispatch was entered
\* and still exists was issued before its checkpoint, and what is issued
\* since came to be inside it.
CheckpointsSeparate ==
  \A n \in 1 .. Len(stack) :
    /\ \A t \in DOMAIN live :
         t \in stack[n].shapesBefore
           <=> \E k \in 1 .. stack[n].shapes : issued[k] = t
    /\ \A i \in DOMAIN buffers :
         i \in stack[n].buffersBefore
           <=> buffers[i].creationSequence <= stack[n].buffers

\* Of the shapes: what is live was issued, a checkpoint lies in the past, what a
\* dispatch found was issued before its checkpoint, and an operation, unlike
\* a batch, takes away nothing it found.
ShapesSeparate ==
  /\ DOMAIN live \subseteq Token /\ issued \in Seq(Token)
  /\ \A t \in DOMAIN live : \E k \in 1 .. Len(issued) : issued[k] = t
  /\ \A n \in 1 .. Len(stack) :
       LET f == stack[n]
           Before(t) == \E k \in 1 .. f.shapes : issued[k] = t
       IN /\ f.shapes <= Len(issued)
          /\ \A t \in f.shapesBefore : Before(t)
          /\ \A t \in DOMAIN live : Before(t) => t \in f.shapesBefore
          /\ f.kind = "op" => f.shapesBefore \subseteq DOMAIN live

\* The same of the buffers, whose ids grow.
BuffersSeparate ==
  /\ nextBuffer \in 1 .. MaxBuffers + 1 /\ bufferSequence \in Nat
  /\ \A i \in DOMAIN buffers :
       /\ i \in 1 .. nextBuffer - 1
       /\ buffers[i].creationSequence \in 0 .. bufferSequence
  /\ \A n \in 1 .. Len(stack) :
       LET f == stack[n]
       IN /\ f.buffers <= bufferSequence
          /\ \A i \in f.buffersBefore : i < nextBuffer
          /\ \A i \in DOMAIN buffers :
               i \in f.buffersBefore <=> buffers[i].creationSequence <= f.buffers
          /\ f.kind = "op" => f.buffersBefore \subseteq DOMAIN buffers

\* Inner dispatches have later checkpoints, a batch is never inside an operation,
\* and an exception is always inside a dispatch.
FramesNested ==
  /\ stack \in Seq(Frame) /\ thrown \in Thrown
  /\ thrown # "none" => stack # <<>>
  /\ \A n \in 1 .. Len(stack) : \A m \in 1 .. n :
       /\ stack[m].shapes <= stack[n].shapes
       /\ stack[m].buffers <= stack[n].buffers
       /\ stack[m].kind = "op" => stack[n].kind = "op"

\* The inductive invariant from which CheckpointsSeparate and FailureIsAtomic follow.
KernelInv == ShapesSeparate /\ BuffersSeparate /\ FramesNested

\* docs/protocol.md: "The batch is not transactional: shapes created before a
\* failure remain owned by its scope."  Not so for a failure the batch's loop
\* does not catch: it leaves the batch and rolls all of it back.
BatchKeepsFinishedShapes ==
  [][ thrown = "failure" /\ Top.kind = "batch" => live' = live ]_vars
=============================================================================
