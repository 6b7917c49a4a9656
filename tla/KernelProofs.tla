---------------------------- MODULE KernelProofs ----------------------------
(***************************************************************************)
(* Checkpoints separate old from new and failed operations leave nothing   *)
(* behind, for every nesting of dispatches.  The steps of the kernel do    *)
(* one of three things to the stack of dispatches, and one of two to each  *)
(* table under it: a lemma for each, then the actions one by one.          *)
(***************************************************************************)
EXTENDS Kernel, SequenceTheorems, FiniteSetTheorems, TLAPS

\* The dispatches after a step are the outer ones of those before it.
Outer ==
  /\ stack' \in Seq(Frame)
  /\ Len(stack') <= Len(stack)
  /\ \A n \in 1 .. Len(stack') : stack'[n] = stack[n]

\* An outer part of the call stack: SubSeq keeps its frames.
LEMMA OuterFrames ==
  ASSUME stack \in Seq(Frame), NEW k \in 0 .. Len(stack), stack' = SubSeq(stack, 1, k)
  PROVE  Outer
<1>1. \A n \in 1 .. k : stack[n] \in Frame
  BY LenProperties, ElementOfSeq
<1>2. /\ SubSeq(stack, 1, k) \in Seq(Frame)
      /\ Len(SubSeq(stack, 1, k)) = IF 1 <= k THEN k - 1 + 1 ELSE 0
      /\ \A n \in 1 .. k - 1 + 1 : SubSeq(stack, 1, k)[n] = stack[1 + n - 1]
  BY <1>1, SubSeqProperties
<1>3. Len(stack) \in Nat
  BY LenProperties
<1>. QED
  BY <1>2, <1>3 DEF Outer

\* The call stack as it was is an outer part of itself.
LEMMA SameFrames ==
  ASSUME stack \in Seq(Frame), stack' = stack
  PROVE  Outer
  BY LenProperties DEF Outer

\* Frames are checkpoints with what existed at them.
LEMMA FrameFields ==
  ASSUME stack \in Seq(Frame), NEW n \in 1 .. Len(stack)
  PROVE  /\ stack[n].kind \in Kind /\ stack[n].scope \in ScopeId
         /\ stack[n].shapes \in Nat /\ stack[n].buffers \in Nat
         /\ stack[n].shapesBefore \subseteq Token
         /\ stack[n].buffersBefore \subseteq Nat
<1>1. stack[n] \in Frame
  BY ElementOfSeq
<1>. QED
  BY <1>1 DEF Frame

\* The counters of the buffers stay within their bounds.
LEMMA CountersBounded ==
  ASSUME BuffersSeparate
  PROVE  /\ MaxBuffers \in Nat /\ IdWrap \in Nat /\ MaxBuffers < IdWrap - 1
         /\ nextBuffer \in Nat /\ nextBuffer \in nextBuffer .. MaxBuffers + 1
         /\ bufferSequence \in Nat /\ bufferSequence <= bufferSequence
BY KernelAssumption DEF BuffersSeparate, Buffers!BufferAssumption

-----------------------------------------------------------------------------
(* Steps that leave dispatches or stay in them.                            *)

\* Dispatches that are left take nothing from the order of the others.
LEMMA FramesLeft ==
  ASSUME FramesNested, Outer, thrown' \in Thrown, thrown' # "none" => stack' # <<>>
  PROVE  FramesNested'
<1>1. Len(stack) \in Nat /\ Len(stack') \in Nat
  BY LenProperties DEF FramesNested, Outer
<1>2. ASSUME NEW n \in 1 .. Len(stack'), NEW m \in 1 .. n
      PROVE  /\ stack'[m].shapes <= stack'[n].shapes
             /\ stack'[m].buffers <= stack'[n].buffers
             /\ stack'[m].kind = "op" => stack'[n].kind = "op"
  <2>1. n \in 1 .. Len(stack) /\ m \in 1 .. Len(stack')
    BY <1>1 DEF Outer
  <2>2. stack'[n] = stack[n] /\ stack'[m] = stack[m]
    BY <2>1 DEF Outer
  <2>. QED
    BY <2>1, <2>2 DEF FramesNested
<1>. QED
  BY <1>2 DEF FramesNested, Outer

\* Shapes may go, if no operation under way found them; none comes.
LEMMA ShapesGo ==
  ASSUME ShapesSeparate, Outer, issued' = issued, DOMAIN live' \subseteq DOMAIN live,
         \A n \in 1 .. Len(stack') :
           stack[n].kind = "op" => stack[n].shapesBefore \subseteq DOMAIN live'
  PROVE  ShapesSeparate'
<1>1. Len(stack) \in Nat /\ Len(stack') \in Nat
  BY LenProperties DEF Outer
<1>2. \A n \in 1 .. Len(stack') : n \in 1 .. Len(stack) /\ stack'[n] = stack[n]
  BY <1>1 DEF Outer
<1>. QED
  BY <1>2 DEF ShapesSeparate

\* Buffers may go likewise, and ids and sequence numbers be spent.
LEMMA BuffersGo ==
  ASSUME BuffersSeparate, Outer, stack \in Seq(Frame),
         nextBuffer' \in nextBuffer .. MaxBuffers + 1,
         bufferSequence' \in Nat, bufferSequence <= bufferSequence',
         DOMAIN buffers' \subseteq DOMAIN buffers,
         \A i \in DOMAIN buffers' : buffers'[i] = buffers[i],
         \A n \in 1 .. Len(stack') :
           stack[n].kind = "op" => stack[n].buffersBefore \subseteq DOMAIN buffers'
  PROVE  BuffersSeparate'
<1>1. Len(stack) \in Nat /\ Len(stack') \in Nat
  BY LenProperties DEF Outer
<1>2. \A n \in 1 .. Len(stack') : n \in 1 .. Len(stack) /\ stack'[n] = stack[n]
  BY <1>1 DEF Outer
<1>3. nextBuffer \in Nat /\ nextBuffer' \in Nat /\ nextBuffer <= nextBuffer' /\ bufferSequence \in Nat
  BY KernelAssumption DEF BuffersSeparate, Buffers!BufferAssumption
<1>4. nextBuffer' \in 1 .. MaxBuffers + 1 /\ bufferSequence' \in Nat
  BY <1>3 DEF BuffersSeparate
<1>5. \A i \in DOMAIN buffers' :
        i \in 1 .. nextBuffer' - 1 /\ buffers'[i].creationSequence \in 0 .. bufferSequence'
  BY <1>3 DEF BuffersSeparate
<1>6. ASSUME NEW n \in 1 .. Len(stack')
      PROVE  /\ stack'[n].buffers <= bufferSequence'
             /\ \A i \in stack'[n].buffersBefore : i < nextBuffer'
             /\ \A i \in DOMAIN buffers' :
                  i \in stack'[n].buffersBefore
                    <=> buffers'[i].creationSequence <= stack'[n].buffers
             /\ stack'[n].kind = "op" => stack'[n].buffersBefore \subseteq DOMAIN buffers'
  <2>1. n \in 1 .. Len(stack) /\ stack'[n] = stack[n]
    BY <1>2
  <2>2. stack[n].buffers \in Nat /\ stack[n].buffersBefore \subseteq Nat
    BY <2>1, FrameFields
  <2>. QED
    BY <1>3, <2>1, <2>2 DEF BuffersSeparate
<1>. QED
  BY <1>4, <1>5, <1>6 DEF BuffersSeparate

-----------------------------------------------------------------------------
(* What comes is new to every dispatch under way.                          *)

\* A shape that is issued was not issued before any checkpoint.
LEMMA ShapeComes ==
  ASSUME ShapesSeparate, stack \in Seq(Frame), stack' = stack,
         NEW t \in Token, NEW s, Shapes!Issue(t, s)
  PROVE  ShapesSeparate'
<1>1. issued \in Seq(Token) /\ issued' = Append(issued, t) /\ Len(issued) \in Nat
  BY LenProperties DEF ShapesSeparate, Shapes!Issue
<1>2. /\ issued' \in Seq(Token) /\ Len(issued') = Len(issued) + 1
      /\ \A k \in 1 .. Len(issued) : issued'[k] = issued[k]
      /\ issued'[Len(issued) + 1] = t
  BY <1>1, AppendProperties
<1>3. DOMAIN live' = (DOMAIN live) \cup {t}
  BY DEF Shapes!Issue
<1>4. \A k \in 1 .. Len(issued) : issued[k] # t
  BY DEF Shapes!Issue
<1>5. \A u \in DOMAIN live' : \E k \in 1 .. Len(issued') : issued'[k] = u
  <2>1. \A u \in DOMAIN live : \E k \in 1 .. Len(issued') : issued'[k] = u
    BY <1>1, <1>2 DEF ShapesSeparate
  <2>2. \E k \in 1 .. Len(issued') : issued'[k] = t
    BY <1>1, <1>2
  <2>. QED
    BY <1>3, <2>1, <2>2
<1>6. ASSUME NEW n \in 1 .. Len(stack)
      PROVE  /\ stack[n].shapes <= Len(issued')
             /\ \A u \in stack[n].shapesBefore :
                  \E k \in 1 .. stack[n].shapes : issued'[k] = u
             /\ \A u \in DOMAIN live' :
                  (\E k \in 1 .. stack[n].shapes : issued'[k] = u)
                    => u \in stack[n].shapesBefore
             /\ stack[n].kind = "op" => stack[n].shapesBefore \subseteq DOMAIN live'
  <2>1. stack[n].shapes \in Nat /\ stack[n].shapes <= Len(issued)
    BY FrameFields DEF ShapesSeparate
  <2>2. \A k \in 1 .. stack[n].shapes : k \in 1 .. Len(issued) /\ issued'[k] = issued[k]
    BY <1>1, <1>2, <2>1
  <2>. QED
    BY <1>1, <1>2, <1>3, <1>4, <2>1, <2>2 DEF ShapesSeparate
<1>. QED
  BY <1>2, <1>3, <1>5, <1>6 DEF ShapesSeparate

\* A buffer that is created has an id and a sequence number of its own.
LEMMA BufferComes ==
  ASSUME BuffersSeparate, stack \in Seq(Frame), stack' = stack,
         NEW size \in ByteLength, Buffers!Create(size)
  PROVE  BuffersSeparate'
<1>1. MaxBuffers \in Nat /\ IdWrap \in Nat /\ MaxBuffers < IdWrap - 1
  BY KernelAssumption DEF Buffers!BufferAssumption
<1>2. nextBuffer \in Nat /\ 1 <= nextBuffer /\ nextBuffer <= MaxBuffers /\ bufferSequence \in Nat
  BY <1>1 DEF BuffersSeparate, Buffers!Create
<1>3. nextBuffer' = nextBuffer + 1
  <2>1. (nextBuffer + 1) % IdWrap = nextBuffer + 1
    BY <1>1, <1>2
  <2>. QED
    BY <2>1 DEF Buffers!Create
<1>4. bufferSequence' = bufferSequence + 1
  BY DEF Buffers!Create
<1>5. nextBuffer \notin DOMAIN buffers
  BY <1>2 DEF BuffersSeparate
<1>6. /\ DOMAIN buffers' = (DOMAIN buffers) \cup {nextBuffer}
      /\ \A i \in DOMAIN buffers : buffers'[i] = buffers[i]
      /\ buffers'[nextBuffer].creationSequence = bufferSequence + 1
  BY <1>4, <1>5 DEF Buffers!Create
<1>7. nextBuffer' \in 1 .. MaxBuffers + 1 /\ bufferSequence' \in Nat
  BY <1>1, <1>2, <1>3, <1>4
<1>8. ASSUME NEW i \in DOMAIN buffers'
      PROVE  i \in 1 .. nextBuffer' - 1 /\ buffers'[i].creationSequence \in 0 .. bufferSequence'
  <2>1. CASE i = nextBuffer
    BY <1>2, <1>3, <1>4, <1>6, <2>1
  <2>2. CASE i \in DOMAIN buffers
    BY <1>2, <1>3, <1>4, <1>6, <2>2 DEF BuffersSeparate
  <2>. QED
    BY <1>6, <2>1, <2>2
<1>9. ASSUME NEW n \in 1 .. Len(stack)
      PROVE  /\ stack[n].buffers <= bufferSequence'
             /\ \A i \in stack[n].buffersBefore : i < nextBuffer'
             /\ \A i \in DOMAIN buffers' :
                  i \in stack[n].buffersBefore
                    <=> buffers'[i].creationSequence <= stack[n].buffers
             /\ stack[n].kind = "op" => stack[n].buffersBefore \subseteq DOMAIN buffers'
  <2>1. /\ stack[n].buffers \in Nat /\ stack[n].buffersBefore \subseteq Nat
        /\ stack[n].buffers <= bufferSequence
        /\ \A i \in stack[n].buffersBefore : i < nextBuffer
    BY FrameFields DEF BuffersSeparate
  <2>2. nextBuffer \notin stack[n].buffersBefore
    BY <1>2, <2>1
  <2>3. ~(buffers'[nextBuffer].creationSequence <= stack[n].buffers)
    BY <1>2, <1>6, <2>1
  <2>4. \A i \in DOMAIN buffers' :
          i \in stack[n].buffersBefore <=> buffers'[i].creationSequence <= stack[n].buffers
    BY <1>6, <2>2, <2>3 DEF BuffersSeparate
  <2>. QED
    BY <1>2, <1>3, <1>4, <1>6, <2>1, <2>4 DEF BuffersSeparate
<1>. QED
  BY <1>7, <1>8, <1>9 DEF BuffersSeparate

-----------------------------------------------------------------------------
(* A dispatch is entered.                                                  *)

\* The frame that is pushed lies inside the others and separates what is there,
\* all of it, from what will come, nothing yet.
LEMMA DispatchKeepsInv ==
  ASSUME KernelInv, NEW kind \in Kind, NEW s \in ScopeId, Dispatch(kind, s)
  PROVE  KernelInv'
<1> DEFINE f == EnteredWith(kind, s)
           top == Len(stack) + 1
<1>1. /\ f.kind = kind /\ f.shapes = Len(issued) /\ f.buffers = bufferSequence
      /\ f.shapesBefore = DOMAIN live /\ f.buffersBefore = DOMAIN buffers
  BY DEF EnteredWith
<1>2. /\ Len(issued) \in Nat /\ bufferSequence \in Nat /\ nextBuffer \in Int
      /\ DOMAIN live \subseteq Token /\ DOMAIN buffers \subseteq Nat
  BY LenProperties, KernelAssumption
  DEF KernelInv, ShapesSeparate, BuffersSeparate, Buffers!BufferAssumption
<1>3. f \in Frame
  BY <1>2 DEF EnteredWith, Frame
<1>. HIDE DEF f
<1>4. stack \in Seq(Frame) /\ Len(stack) \in Nat /\ stack' = Append(stack, f)
  BY LenProperties DEF KernelInv, FramesNested, Dispatch, f
<1>5. /\ stack' \in Seq(Frame) /\ Len(stack') = top
      /\ \A n \in 1 .. Len(stack) : stack'[n] = stack[n]
      /\ stack'[top] = f
  BY <1>3, <1>4, AppendProperties
<1>6. UNCHANGED <<live, issued, buffers, nextBuffer, bufferSequence, thrown>>
  BY DEF Dispatch
<1>7. \A n \in 1 .. top : n \in 1 .. Len(stack) \/ n = top
  BY <1>4
<1>8. ShapesSeparate'
  <2>1. ASSUME NEW n \in 1 .. top
        PROVE  /\ stack'[n].shapes <= Len(issued)
               /\ \A t \in stack'[n].shapesBefore : \E k \in 1 .. stack'[n].shapes : issued[k] = t
               /\ \A t \in DOMAIN live :
                    (\E k \in 1 .. stack'[n].shapes : issued[k] = t) => t \in stack'[n].shapesBefore
               /\ stack'[n].kind = "op" => stack'[n].shapesBefore \subseteq DOMAIN live
    <3>1. CASE n \in 1 .. Len(stack)
      BY <1>5, <3>1 DEF KernelInv, ShapesSeparate
    <3>2. CASE n = top
      BY <1>1, <1>2, <1>5, <3>2 DEF KernelInv, ShapesSeparate
    <3>. QED
      BY <1>7, <3>1, <3>2
  <2>. QED
    BY <1>5, <1>6, <2>1 DEF KernelInv, ShapesSeparate
<1>9. BuffersSeparate'
  <2>1. ASSUME NEW n \in 1 .. top
        PROVE  /\ stack'[n].buffers <= bufferSequence
               /\ \A i \in stack'[n].buffersBefore : i < nextBuffer
               /\ \A i \in DOMAIN buffers :
                    i \in stack'[n].buffersBefore
                      <=> buffers[i].creationSequence <= stack'[n].buffers
               /\ stack'[n].kind = "op" => stack'[n].buffersBefore \subseteq DOMAIN buffers
    <3>1. CASE n \in 1 .. Len(stack)
      BY <1>5, <3>1 DEF KernelInv, BuffersSeparate
    <3>2. CASE n = top
      BY <1>1, <1>2, <1>5, <3>2 DEF KernelInv, BuffersSeparate
    <3>. QED
      BY <1>7, <3>1, <3>2
  <2>. QED
    BY <1>5, <1>6, <2>1 DEF KernelInv, BuffersSeparate
<1>10. thrown' = "none"
  BY DEF Dispatch
<1>11. FramesNested'
  <2>1. ASSUME NEW n \in 1 .. top, NEW m \in 1 .. n
        PROVE  /\ stack'[m].shapes <= stack'[n].shapes
               /\ stack'[m].buffers <= stack'[n].buffers
               /\ stack'[m].kind = "op" => stack'[n].kind = "op"
    <3>1. CASE n \in 1 .. Len(stack)
      <4>1. m \in 1 .. Len(stack)
        BY <1>4, <3>1
      <4>. QED
        BY <1>5, <3>1, <4>1 DEF KernelInv, FramesNested
    <3>2. CASE n = top /\ m = top
      BY <1>1, <1>2, <1>5, <3>2
    <3>3. CASE n = top /\ m \in 1 .. Len(stack)
      <4>1. stack'[m] = stack[m] /\ stack'[n] = f
        BY <1>5, <3>3
      <4>2. stack[m].shapes <= Len(issued) /\ stack[m].buffers <= bufferSequence
        BY <3>3 DEF KernelInv, ShapesSeparate, BuffersSeparate
      <4>3. stack[m].kind = "op" => kind = "op"
        <5>1. stack[m].kind = "op" => stack[Len(stack)].kind = "op"
          BY <1>4, <3>3 DEF KernelInv, FramesNested
        <5>2. stack # <<>>
          BY <1>4, <3>3
        <5>. QED
          BY <5>1, <5>2 DEF Dispatch, Running, Top
      <4>. QED
        BY <1>1, <4>1, <4>2, <4>3
    <3>. QED
      BY <1>4, <1>7, <3>1, <3>2, <3>3
  <2>. QED
    BY <1>5, <1>6, <1>10, <2>1 DEF KernelInv, FramesNested
<1>. QED
  BY <1>8, <1>9, <1>11 DEF KernelInv

-----------------------------------------------------------------------------
(* A dispatch is left.                                                     *)

\* A dispatch that returns keeps what it made.
LEMMA ReturnKeepsInv ==
  ASSUME KernelInv, Return
  PROVE  KernelInv'
<1>1. stack \in Seq(Frame) /\ Len(stack) \in Nat /\ Len(stack) # 0
  BY LenProperties, EmptySeq DEF KernelInv, FramesNested, Return
<1>2. Outer
  <2>1. Len(stack) - 1 \in 0 .. Len(stack)
    BY <1>1
  <2>. QED
    BY <1>1, <2>1, OuterFrames DEF Return
<1>3. \A n \in 1 .. Len(stack') : n \in 1 .. Len(stack)
  BY <1>1, <1>2, LenProperties DEF Outer
<1>4. FramesNested'
  BY <1>2, FramesLeft DEF KernelInv, FramesNested, Return
<1>5. ShapesSeparate'
  BY <1>2, <1>3, ShapesGo DEF KernelInv, ShapesSeparate, Return
<1>6. BuffersSeparate'
  BY <1>1, <1>2, <1>3, BuffersGo, CountersBounded DEF KernelInv, BuffersSeparate, Return
<1>. QED
  BY <1>4, <1>5, <1>6 DEF KernelInv

\* An exception leaves one dispatch, or two when a batch catches it.
LEMMA UnwindLeaves ==
  ASSUME KernelInv, Unwind
  PROVE  Outer /\ Len(stack) \in 1 .. Len(stack) /\ Len(stack') < Len(stack)
<1>1. stack \in Seq(Frame) /\ Len(stack) \in Nat /\ Len(stack) # 0
  BY LenProperties, EmptySeq DEF KernelInv, FramesNested, Unwind
<1>2. PICK k \in 0 .. Len(stack) - 1 : stack' = SubSeq(stack, 1, k)
  <2>1. CASE Caught
    <3>1. Len(stack) - 2 \in 0 .. Len(stack) - 1
      BY <1>1, <2>1 DEF Caught
    <3>. QED
      BY <2>1, <3>1 DEF Unwind, Unwound
  <2>2. CASE ~Caught
    <3>1. Len(stack) - 1 \in 0 .. Len(stack) - 1
      BY <1>1
    <3>. QED
      BY <2>2, <3>1 DEF Unwind, Unwound
  <2>. QED
    BY <2>1, <2>2
<1>3. k \in 0 .. Len(stack) /\ k < Len(stack) /\ k \in Nat
  BY <1>1, <1>2
<1>4. Outer
  BY <1>1, <1>2, <1>3, OuterFrames
<1>5. Len(stack') = k
  <2>1. \A n \in 1 .. k : stack[n] \in Frame
    BY <1>1, <1>3, ElementOfSeq
  <2>. QED
    BY <1>2, <1>3, <2>1, SubSeqProperties
<1>. QED
  BY <1>1, <1>3, <1>4, <1>5

\* What a rollback keeps of the shapes and buffers: what the innermost dispatch
\* found, as far as it is still there.
LEMMA UnwindRestores ==
  ASSUME KernelInv, Unwind
  PROVE  /\ issued' = issued /\ nextBuffer' = nextBuffer
         /\ bufferSequence' = bufferSequence
         /\ DOMAIN live' = (DOMAIN live) \cap Top.shapesBefore
         /\ DOMAIN buffers' = (DOMAIN buffers) \cap Top.buffersBefore
         /\ \A i \in DOMAIN buffers' : buffers'[i] = buffers[i]
<1>1. Len(stack) \in 1 .. Len(stack) /\ stack \in Seq(Frame)
  BY UnwindLeaves DEF KernelInv, FramesNested
<1>2. Shapes!Rollback(Top.shapes) /\ Buffers!Rollback(Top.buffers)
  BY DEF Unwind, RolledBack
<1>3. issued' = issued /\ nextBuffer' = nextBuffer /\ bufferSequence' = bufferSequence
  BY <1>2 DEF Shapes!Rollback, Buffers!Rollback
<1>4. DOMAIN live' = (DOMAIN live) \cap Top.shapesBefore
  <2>1. DOMAIN live' = {t \in DOMAIN live : \E n \in 1 .. Top.shapes : issued[n] = t}
    BY <1>2 DEF Shapes!Rollback, Shapes!Keep
  <2>. QED
    BY <1>1, <2>1 DEF KernelInv, ShapesSeparate, Top
<1>5. /\ DOMAIN buffers' = {i \in DOMAIN buffers : ~(buffers[i].creationSequence > Top.buffers)}
      /\ \A i \in DOMAIN buffers' : buffers'[i] = buffers[i]
  BY <1>2 DEF Buffers!Rollback, Buffers!Without, Buffers!CreatedSince
<1>6. DOMAIN buffers' = (DOMAIN buffers) \cap Top.buffersBefore
  <2>1. Top.buffers \in Nat
    BY <1>1, FrameFields DEF Top
  <2>2. \A i \in DOMAIN buffers : buffers[i].creationSequence \in Int
    BY KernelAssumption DEF KernelInv, BuffersSeparate
  <2>3. \A i \in DOMAIN buffers :
          i \in Top.buffersBefore <=> buffers[i].creationSequence <= Top.buffers
    BY <1>1 DEF KernelInv, BuffersSeparate, Top
  <2>. QED
    BY <1>5, <2>1, <2>2, <2>3
<1>. QED
  BY <1>3, <1>4, <1>5, <1>6

\* What a dispatch further out found, the innermost one found too, if it is there.
LEMMA OuterFoundLess ==
  ASSUME KernelInv, NEW n \in 1 .. Len(stack)
  PROVE  /\ (DOMAIN live) \cap stack[n].shapesBefore \subseteq Top.shapesBefore
         /\ (DOMAIN buffers) \cap stack[n].buffersBefore \subseteq Top.buffersBefore
<1>1. stack \in Seq(Frame) /\ Len(stack) \in Nat /\ Len(stack) \in 1 .. Len(stack)
  BY LenProperties DEF KernelInv, FramesNested
<1>2. n \in 1 .. Len(stack) /\ n <= Len(stack)
  BY <1>1
<1>3. stack[n].shapes <= Top.shapes /\ stack[n].buffers <= Top.buffers
  BY <1>1, <1>2 DEF KernelInv, FramesNested, Top
<1>4. /\ stack[n].shapes \in Nat /\ stack[n].buffers \in Nat
      /\ Top.shapes \in Nat /\ Top.buffers \in Nat
  BY <1>1, FrameFields DEF Top
<1>5. (DOMAIN live) \cap stack[n].shapesBefore \subseteq Top.shapesBefore
  <2>1. \A k \in 1 .. stack[n].shapes : k \in 1 .. Top.shapes
    BY <1>3, <1>4
  <2>2. \A t \in stack[n].shapesBefore : \E k \in 1 .. stack[n].shapes : issued[k] = t
    BY DEF KernelInv, ShapesSeparate
  <2>3. \A t \in DOMAIN live :
          (\E k \in 1 .. Top.shapes : issued[k] = t) => t \in Top.shapesBefore
    BY <1>1 DEF KernelInv, ShapesSeparate, Top
  <2>. QED
    BY <2>1, <2>2, <2>3
<1>6. (DOMAIN buffers) \cap stack[n].buffersBefore \subseteq Top.buffersBefore
  <2>1. ASSUME NEW m \in 1 .. Len(stack), NEW i \in DOMAIN buffers
        PROVE  i \in stack[m].buffersBefore <=> buffers[i].creationSequence <= stack[m].buffers
    BY DEF KernelInv, BuffersSeparate
  <2>2. \A i \in DOMAIN buffers : buffers[i].creationSequence \in Int
    BY DEF KernelInv, BuffersSeparate
  <2>. QED
    BY <1>1, <1>3, <1>4, <2>1, <2>2 DEF Top
<1>. QED
  BY <1>5, <1>6

\* A rollback takes nothing from the operations it returns to.
LEMMA UnwindKeepsInv ==
  ASSUME KernelInv, Unwind
  PROVE  KernelInv'
<1>1. Outer /\ stack \in Seq(Frame) /\ Len(stack) \in Nat
  BY UnwindLeaves, LenProperties DEF KernelInv, FramesNested
<1>2. \A n \in 1 .. Len(stack') : n \in 1 .. Len(stack)
  BY <1>1, LenProperties DEF Outer
<1>3. FramesNested'
  <2>1. thrown' \in Thrown /\ (thrown' # "none" => stack' # <<>>)
    BY DEF Unwind, Thrown, KernelInv, FramesNested
  <2>. QED
    BY <1>1, <2>1, FramesLeft DEF KernelInv
<1>4. ShapesSeparate'
  <2>1. \A n \in 1 .. Len(stack') :
          stack[n].kind = "op" => stack[n].shapesBefore \subseteq DOMAIN live'
    BY <1>2, OuterFoundLess, UnwindRestores DEF KernelInv, ShapesSeparate
  <2>. QED
    BY <1>1, <2>1, ShapesGo, UnwindRestores DEF KernelInv
<1>5. BuffersSeparate'
  <2>1. \A n \in 1 .. Len(stack') :
          stack[n].kind = "op" => stack[n].buffersBefore \subseteq DOMAIN buffers'
    BY <1>2, OuterFoundLess, UnwindRestores DEF KernelInv, BuffersSeparate
  <2>. QED
    BY <1>1, <2>1, BuffersGo, CountersBounded, UnwindRestores DEF KernelInv
<1>. QED
  BY <1>3, <1>4, <1>5 DEF KernelInv

-----------------------------------------------------------------------------
(* Steps inside a dispatch, or outside all of them.                        *)

\* The runtime operations are not called from inside an operation.
LEMMA NoOperationUnderWay ==
  ASSUME KernelInv, Calling, NEW n \in 1 .. Len(stack)
  PROVE  stack[n].kind # "op"
<1>1. stack \in Seq(Frame) /\ Len(stack) \in Nat /\ stack # <<>>
  BY LenProperties, EmptySeq DEF KernelInv, FramesNested
<1>2. Top.kind = "batch"
  BY <1>1 DEF Calling, Idle, Running
<1>3. stack[n].kind = "op" => Top.kind = "op"
  BY <1>1 DEF KernelInv, FramesNested, Top
<1>. QED
  BY <1>2, <1>3

\* Outside operations shapes may go.
LEMMA ShapesTaken ==
  ASSUME KernelInv, Calling, UNCHANGED callVars, issued' = issued,
         DOMAIN live' \subseteq DOMAIN live
  PROVE  ShapesSeparate'
<1>1. Outer /\ stack' = stack
  BY SameFrames DEF KernelInv, FramesNested, callVars
<1>. QED
  BY <1>1, ShapesGo, NoOperationUnderWay DEF KernelInv

\* And buffers.
LEMMA BuffersTaken ==
  ASSUME KernelInv, Calling, UNCHANGED callVars, UNCHANGED <<nextBuffer, bufferSequence>>,
         DOMAIN buffers' \subseteq DOMAIN buffers,
         \A i \in DOMAIN buffers' : buffers'[i] = buffers[i]
  PROVE  BuffersSeparate'
<1>1. Outer /\ stack' = stack /\ stack \in Seq(Frame)
  BY SameFrames DEF KernelInv, FramesNested, callVars
<1>. QED
  BY <1>1, BuffersGo, CountersBounded, NoOperationUnderWay DEF KernelInv

\* Dispatches and shapes that are not touched stay in order.
LEMMA Untouched ==
  ASSUME KernelInv
  PROVE  /\ UNCHANGED callVars => FramesNested'
         /\ UNCHANGED <<shapeVars, stack>> => ShapesSeparate'
         /\ UNCHANGED <<bufferVars, stack>> => BuffersSeparate'
BY DEF KernelInv, FramesNested, ShapesSeparate, BuffersSeparate, callVars, shapeVars, bufferVars

\* A handler or a batch throws.
LEMMA ThrowKeepsInv ==
  ASSUME KernelInv, NEW what \in Thrown, Throw(what)
  PROVE  KernelInv'
<1>1. UNCHANGED <<shapeVars, bufferVars, stack>>
  BY DEF Throw, shapeVars, bufferVars
<1>2. FramesNested'
  BY <1>1 DEF KernelInv, FramesNested, Throw
<1>. QED
  BY <1>1, <1>2, Untouched DEF KernelInv

\* An operation stores a shape.
LEMMA AddShapeKeepsInv ==
  ASSUME KernelInv, NEW t \in Token, AddShape(t)
  PROVE  KernelInv'
<1>1. Shapes!Issue(t, Top.scope) /\ UNCHANGED <<bufferVars, callVars, stack>>
  BY DEF AddShape, callVars
<1>2. ShapesSeparate'
  BY <1>1, ShapeComes DEF KernelInv, FramesNested, callVars
<1>. QED
  BY <1>1, <1>2, Untouched DEF KernelInv

\* A buffer is created, inside an operation or by request.
LEMMA CreateKeepsInv ==
  ASSUME KernelInv, NEW size \in ByteLength, AddBuffer(size) \/ CreateBuffer(size)
  PROVE  KernelInv'
<1>1. Buffers!Create(size) /\ UNCHANGED <<shapeVars, callVars, stack>>
  BY DEF AddBuffer, CreateBuffer, callVars
<1>2. BuffersSeparate'
  BY <1>1, BufferComes DEF KernelInv, FramesNested, callVars
<1>. QED
  BY <1>1, <1>2, Untouched DEF KernelInv

\* A buffer cannot be allocated: an id, perhaps a sequence number, is spent.
LEMMA AddBufferFailsKeepsInv ==
  ASSUME KernelInv, AddBufferFails
  PROVE  KernelInv'
<1>1. UNCHANGED <<shapeVars, stack>> /\ buffers' = buffers /\ thrown' = "bad_alloc"
  BY DEF AddBufferFails, Buffers!CreateFails
<1>2. stack # <<>> /\ stack \in Seq(Frame) /\ Outer
  BY <1>1, SameFrames DEF AddBufferFails, Running, KernelInv, FramesNested
<1>3. FramesNested'
  BY <1>1, <1>2 DEF KernelInv, FramesNested, Thrown
<1>4. /\ nextBuffer' \in nextBuffer .. MaxBuffers + 1
      /\ bufferSequence' \in Nat /\ bufferSequence <= bufferSequence'
  <2>1. /\ nextBuffer <= MaxBuffers /\ nextBuffer' = (nextBuffer + 1) % IdWrap
        /\ bufferSequence' \in {bufferSequence, bufferSequence + 1}
    BY DEF AddBufferFails, Buffers!CreateFails
  <2>2. (nextBuffer + 1) % IdWrap = nextBuffer + 1
    BY <2>1, CountersBounded DEF KernelInv
  <2>. QED
    BY <2>1, <2>2, CountersBounded DEF KernelInv
<1>5. BuffersSeparate'
  <2>1. \A n \in 1 .. Len(stack') :
          stack[n].kind = "op" => stack[n].buffersBefore \subseteq DOMAIN buffers'
    BY <1>1 DEF KernelInv, BuffersSeparate
  <2>. QED
    BY <1>1, <1>2, <1>4, <2>1, BuffersGo DEF KernelInv
<1>. QED
  BY <1>1, <1>3, <1>5, Untouched DEF KernelInv

\* Requests that change scopes or release shapes.
LEMMA ShapeRequestsKeepInv ==
  ASSUME KernelInv,
         \/ \E s \in ScopeId : BeginScope(s) \/ EndScope(s)
         \/ \E t \in Token : Release(t)
  PROVE  KernelInv'
<1>1. Calling /\ UNCHANGED <<bufferVars, callVars, stack>>
  BY DEF BeginScope, EndScope, Release, callVars
<1>2. issued' = issued /\ DOMAIN live' \subseteq DOMAIN live
  BY DEF BeginScope, EndScope, Release, Shapes!BeginScope, Shapes!EndScope,
         Shapes!Release, Shapes!Keep
<1>3. ShapesSeparate'
  BY <1>1, <1>2, ShapesTaken
<1>. QED
  BY <1>1, <1>3, Untouched DEF KernelInv

\* A request that frees a buffer.
LEMMA FreeBufferKeepsInv ==
  ASSUME KernelInv, NEW id \in DOMAIN buffers, FreeBuffer(id)
  PROVE  KernelInv'
<1>1. Calling /\ UNCHANGED <<shapeVars, callVars, stack>>
  BY DEF FreeBuffer, callVars
<1>2. /\ UNCHANGED <<nextBuffer, bufferSequence>>
      /\ DOMAIN buffers' \subseteq DOMAIN buffers
      /\ \A i \in DOMAIN buffers' : buffers'[i] = buffers[i]
  BY DEF FreeBuffer, Buffers!Release, Buffers!Without
<1>3. BuffersSeparate'
  BY <1>1, <1>2, BuffersTaken
<1>. QED
  BY <1>1, <1>3, Untouched DEF KernelInv

\* A request that releases everything.
LEMMA ReleaseAllKeepsInv ==
  ASSUME KernelInv, ReleaseAll
  PROVE  KernelInv'
<1>1. Calling /\ UNCHANGED callVars
  BY DEF ReleaseAll
<1>2. /\ UNCHANGED <<issued, nextBuffer, bufferSequence>>
      /\ DOMAIN live' = {} /\ DOMAIN buffers' = {}
  BY DEF ReleaseAll, Shapes!Clear, Buffers!Clear, Buffers!Without
<1>. QED
  BY <1>1, <1>2, ShapesTaken, BuffersTaken, Untouched DEF KernelInv

-----------------------------------------------------------------------------
(* The theorems.                                                           *)

\* Every step of the kernel keeps the invariant.
LEMMA StepKeepsInv ==
  ASSUME KernelInv, [Next]_vars
  PROVE  KernelInv'
<1>1. CASE \E kind \in Kind, s \in ScopeId : Dispatch(kind, s)
  BY <1>1, DispatchKeepsInv
<1>2. CASE Return
  BY <1>2, ReturnKeepsInv
<1>3. CASE \E what \in Thrown : Throw(what)
  BY <1>3, ThrowKeepsInv
<1>4. CASE Unwind
  BY <1>4, UnwindKeepsInv
<1>5. CASE \E t \in Token : AddShape(t)
  BY <1>5, AddShapeKeepsInv
<1>6. CASE \E size \in ByteLength : AddBuffer(size) \/ CreateBuffer(size)
  BY <1>6, CreateKeepsInv
<1>7. CASE AddBufferFails
  BY <1>7, AddBufferFailsKeepsInv
<1>8. CASE \/ \E s \in ScopeId : BeginScope(s) \/ EndScope(s)
           \/ \E t \in Token : Release(t)
  BY <1>8, ShapeRequestsKeepInv
<1>9. CASE \E id \in DOMAIN buffers : FreeBuffer(id)
  BY <1>9, FreeBufferKeepsInv
<1>10. CASE ReleaseAll
  BY <1>10, ReleaseAllKeepsInv
<1>11. CASE UNCHANGED vars
  <2>1. UNCHANGED <<shapeVars, bufferVars, callVars, stack>>
    BY <1>11 DEF vars, shapeVars, bufferVars, callVars
  <2>. QED
    BY <2>1, Untouched DEF KernelInv
<1>. QED
  BY <1>1, <1>2, <1>3, <1>4, <1>5, <1>6, <1>7, <1>8, <1>9, <1>10, <1>11 DEF Next

\* The kernel starts with empty tables and no dispatch under way.
LEMMA InitHasInv == Init => KernelInv
<1>. SUFFICES ASSUME Init PROVE KernelInv
  OBVIOUS
<1>1. /\ stack = <<>> /\ thrown = "none" /\ issued = <<>> /\ DOMAIN live = {}
      /\ DOMAIN buffers = {} /\ nextBuffer = 1 /\ bufferSequence = 0
  BY DEF Init, Shapes!Init, Buffers!Init
<1>2. stack \in Seq(Frame) /\ issued \in Seq(Token) /\ Len(stack) = 0 /\ Len(issued) = 0
  BY <1>1, EmptySeq
<1>3. MaxBuffers \in Nat
  BY KernelAssumption DEF Buffers!BufferAssumption
<1>. QED
  BY <1>1, <1>2, <1>3 DEF KernelInv, ShapesSeparate, BuffersSeparate, FramesNested, Thrown

\* The invariant of the kernel: its parts need each other, and no other fact.
THEOREM KernelInvariant == Spec => []KernelInv
<1>1. KernelInv /\ [Next]_vars => KernelInv'
  BY StepKeepsInv
<1>. QED
  BY InitHasInv, <1>1, PTL DEF Spec

\* A checkpoint separates what a dispatch found from what came to be inside it.
LEMMA InvSeparates == KernelInv => CheckpointsSeparate
BY DEF KernelInv, ShapesSeparate, BuffersSeparate, CheckpointsSeparate

\* CheckpointsSeparate holds of every nesting of dispatches, however deep, and
\* whatever is released, freed or cleared inside it.
THEOREM CheckpointsCorrect == Spec => []CheckpointsSeparate
BY KernelInvariant, InvSeparates, PTL

\* The step in which an exception leaves a dispatch restores what it found.
LEMMA UnwindIsAtomic ==
  ASSUME KernelInv, Unwind
  PROVE  /\ DOMAIN live' \subseteq Top.shapesBefore
         /\ DOMAIN buffers' \subseteq Top.buffersBefore
         /\ Top.kind = "op" =>
              DOMAIN live' = Top.shapesBefore /\ DOMAIN buffers' = Top.buffersBefore
<1>1. /\ DOMAIN live' = (DOMAIN live) \cap Top.shapesBefore
      /\ DOMAIN buffers' = (DOMAIN buffers) \cap Top.buffersBefore
  BY UnwindRestores
<1>2. Len(stack) \in 1 .. Len(stack)
  BY UnwindLeaves
<1>3. Top.kind = "op" =>
        Top.shapesBefore \subseteq DOMAIN live /\ Top.buffersBefore \subseteq DOMAIN buffers
  BY <1>2 DEF KernelInv, ShapesSeparate, BuffersSeparate, Top
<1>. QED
  BY <1>1, <1>3

\* While an exception is in flight nothing happens but unwinding.
LEMMA OnlyUnwinding ==
  ASSUME Next, thrown # "none"
  PROVE  Unwind
BY DEF Next, Dispatch, Return, Throw, AddShape, AddBuffer, AddBufferFails, Running,
       Calling, Idle, BeginScope, EndScope, Release, CreateBuffer, FreeBuffer, ReleaseAll

\* FailureIsAtomic: an exception that leaves an operation leaves no shape and no
\* buffer of it behind and takes none away.
THEOREM FailuresAtomic == Spec => FailureIsAtomic
<1>1. KernelInv /\ [Next]_vars =>
        [ thrown # "none" =>
            /\ DOMAIN live' \subseteq Top.shapesBefore
            /\ DOMAIN buffers' \subseteq Top.buffersBefore
            /\ Top.kind = "op" =>
                 /\ DOMAIN live' = Top.shapesBefore
                 /\ DOMAIN buffers' = Top.buffersBefore ]_vars
  <2>1. SUFFICES ASSUME KernelInv, Next, thrown # "none"
                 PROVE  /\ DOMAIN live' \subseteq Top.shapesBefore
                        /\ DOMAIN buffers' \subseteq Top.buffersBefore
                        /\ Top.kind = "op" =>
                             /\ DOMAIN live' = Top.shapesBefore
                             /\ DOMAIN buffers' = Top.buffersBefore
    OBVIOUS
  <2>. QED
    BY <2>1, OnlyUnwinding, UnwindIsAtomic
<1>. QED
  BY KernelInvariant, <1>1, PTL DEF Spec, FailureIsAtomic
-----------------------------------------------------------------------------
(* The count of bytes.                                                     *)

BytesIn(b, I) == UNION {{i} \X (1 .. b[i].size) : i \in I}

\* BufferStore counts with its own instance of FiniteSets.
LEMMA SameCount ==
  ASSUME NEW S
  PROVE  Buffers!Cardinality(S) = Cardinality(S)
BY DEF Buffers!Cardinality, Cardinality

LEMMA BytesOfIs ==
  ASSUME NEW I
  PROVE  Buffers!BytesOf(I) = Cardinality(BytesIn(buffers, I))
BY SameCount DEF Buffers!BytesOf, Buffers!Bytes, BytesIn

\* The bytes of one buffer.
LEMMA BytesOfOne ==
  ASSUME NEW i, NEW k \in Nat
  PROVE  IsFiniteSet({i} \X (1 .. k)) /\ Cardinality({i} \X (1 .. k)) = k
<1>1. 1 \in Int /\ k \in Int
  OBVIOUS
<1>2. IsFiniteSet(1 .. k) /\ Cardinality(1 .. k) = IF 1 > k THEN 0 ELSE k - 1 + 1
  BY <1>1, FS_Interval
<1>3. (IF 1 > k THEN 0 ELSE k - 1 + 1) = k /\ 1 * k = k
  OBVIOUS
<1>4. IsFiniteSet({i}) /\ Cardinality({i}) = 1
  BY FS_Singleton
<1>5. IsFiniteSet({i} \X (1 .. k)) /\ Cardinality({i} \X (1 .. k)) = Cardinality({i}) * Cardinality(1 .. k)
  BY <1>2, <1>4, FS_Product, Zenon
<1> QED
  BY <1>2, <1>3, <1>4, <1>5

LEMMA BytesFinite ==
  ASSUME NEW b, NEW I, IsFiniteSet(I), \A i \in I : b[i].size \in Nat
  PROVE  IsFiniteSet(BytesIn(b, I)) /\ Cardinality(BytesIn(b, I)) \in Nat
<1> DEFINE f == [i \in I |-> {i} \X (1 .. b[i].size)]
           S == {f[i] : i \in I}
<1>1. \A i \in I : IsFiniteSet(f[i])
  BY BytesOfOne
<1>2. IsFiniteSet(S)
  <2>1. f \in Surjection(I, S)
    BY DEF Surjection
  <2> QED
    BY <2>1, FS_Surjection
<1>3. IsFiniteSet(UNION S)
  BY <1>1, <1>2, FS_UNION
<1>4. UNION S = BytesIn(b, I)
  BY DEF BytesIn
<1> QED
  BY <1>3, <1>4, FS_CardinalityType

\* No byte belongs to two buffers.
LEMMA BytesAdd ==
  ASSUME NEW b, NEW I, NEW J, IsFiniteSet(I), IsFiniteSet(J), I \cap J = {},
         \A i \in I \cup J : b[i].size \in Nat
  PROVE  Cardinality(BytesIn(b, I \cup J)) = Cardinality(BytesIn(b, I)) + Cardinality(BytesIn(b, J))
<1>1. BytesIn(b, I \cup J) = BytesIn(b, I) \cup BytesIn(b, J)
  BY DEF BytesIn
<1>2. BytesIn(b, I) \cap BytesIn(b, J) = {}
  BY DEF BytesIn
<1>3. /\ IsFiniteSet(BytesIn(b, I)) /\ IsFiniteSet(BytesIn(b, J))
      /\ Cardinality(BytesIn(b, I)) \in Nat /\ Cardinality(BytesIn(b, J)) \in Nat
  BY BytesFinite
<1>4. Cardinality(BytesIn(b, I) \cup BytesIn(b, J))
        = Cardinality(BytesIn(b, I)) + Cardinality(BytesIn(b, J)) - Cardinality(BytesIn(b, I) \cap BytesIn(b, J))
  BY <1>3, FS_Union
<1>5. Cardinality({}) = 0
  BY FS_EmptySet
<1>6. Cardinality(BytesIn(b, I) \cap BytesIn(b, J)) = 0
  BY ONLY <1>2, <1>5, Zenon
<1>7. Cardinality(BytesIn(b, I) \cup BytesIn(b, J))
        = Cardinality(BytesIn(b, I)) + Cardinality(BytesIn(b, J))
  BY ONLY <1>3, <1>4, <1>6
<1> QED
  BY ONLY <1>1, <1>7, Zenon

LEMMA BytesOne ==
  ASSUME NEW b, NEW i, b[i].size \in Nat
  PROVE  Cardinality(BytesIn(b, {i})) = b[i].size
<1>1. BytesIn(b, {i}) = {i} \X (1 .. b[i].size)
  BY DEF BytesIn
<1> QED
  BY <1>1, BytesOfOne

LEMMA BytesSame ==
  ASSUME NEW b, NEW d, NEW I, \A i \in I : d[i] = b[i]
  PROVE  BytesIn(d, I) = BytesIn(b, I)
BY DEF BytesIn

\* The buffers are finitely many, their lengths numbers, and liveBytes counts their bytes.
CountInv ==
  /\ IsFiniteSet(DOMAIN buffers)
  /\ \A i \in DOMAIN buffers : buffers[i].size \in Nat
  /\ liveBytes = Cardinality(BytesIn(buffers, DOMAIN buffers))

\* Buffers are dropped, and their bytes taken off.
LEMMA DropKeepsCount ==
  ASSUME CountInv, NEW I \in SUBSET DOMAIN buffers,
         buffers' = [i \in (DOMAIN buffers) \ I |-> buffers[i]],
         liveBytes' = liveBytes - Cardinality(BytesIn(buffers, I))
  PROVE  CountInv'
<1> DEFINE J == (DOMAIN buffers) \ I
<1>1. IsFiniteSet(I) /\ IsFiniteSet(J) /\ I \cap J = {} /\ I \cup J = DOMAIN buffers
  BY FS_Subset DEF CountInv
<1>2. DOMAIN buffers' = J /\ \A i \in J : buffers'[i] = buffers[i]
  OBVIOUS
<1>3. BytesIn(buffers', J) = BytesIn(buffers, J)
  BY <1>2, BytesSame
<1>4. liveBytes = Cardinality(BytesIn(buffers, I)) + Cardinality(BytesIn(buffers, J))
  BY <1>1, BytesAdd DEF CountInv
<1>5. Cardinality(BytesIn(buffers, I)) \in Nat /\ Cardinality(BytesIn(buffers, J)) \in Nat
  BY <1>1, BytesFinite DEF CountInv
<1>6. liveBytes' = Cardinality(BytesIn(buffers', J))
  BY <1>3, <1>4, <1>5
<1> QED
  BY <1>1, <1>2, <1>6 DEF CountInv

\* A buffer comes under an id that is new.
LEMMA CreateKeepsCount ==
  ASSUME CountInv, KernelInv, NEW size \in ByteLength, Buffers!Create(size)
  PROVE  CountInv'
<1> DEFINE n == nextBuffer
           D == DOMAIN buffers
<1>1. n \in Nat /\ n \notin D /\ size \in Nat
  BY KernelAssumption, CountersBounded DEF KernelInv, BuffersSeparate, Buffers!BufferAssumption
<1>2. /\ DOMAIN buffers' = D \cup {n} /\ \A i \in D : buffers'[i] = buffers[i]
      /\ buffers'[n].size = size /\ liveBytes' = liveBytes + size
  BY <1>1 DEF Buffers!Create
<1> HIDE DEF n, D
<1>3. IsFiniteSet(D) /\ IsFiniteSet({n}) /\ IsFiniteSet(D \cup {n}) /\ D \cap {n} = {}
  BY <1>1, FS_Singleton, FS_Union DEF CountInv, D
<1>4. \A i \in D \cup {n} : buffers'[i].size \in Nat
  BY <1>1, <1>2 DEF CountInv, D
<1>5. Cardinality(BytesIn(buffers', D \cup {n}))
        = Cardinality(BytesIn(buffers', D)) + Cardinality(BytesIn(buffers', {n}))
  BY <1>3, <1>4, BytesAdd
<1>6. Cardinality(BytesIn(buffers', {n})) = size
  BY <1>1, <1>2, BytesOne
<1>7. BytesIn(buffers', D) = BytesIn(buffers, D)
  BY <1>2, BytesSame
<1> QED
  BY <1>2, <1>3, <1>4, <1>5, <1>6, <1>7 DEF CountInv, D

LEMMA CountStays ==
  ASSUME CountInv, UNCHANGED <<buffers, liveBytes>>
  PROVE  CountInv'
BY DEF CountInv

LEMMA StepKeepsCount ==
  ASSUME CountInv, KernelInv, Next
  PROVE  CountInv'
<1>1. ASSUME UNCHANGED <<buffers, liveBytes>>
      PROVE  CountInv'
  BY <1>1, CountStays
<1>2. ASSUME NEW size \in ByteLength, Buffers!Create(size)
      PROVE  CountInv'
  BY <1>2, CreateKeepsCount
<1>3. ASSUME Unwind
      PROVE  CountInv'
  <2>1. /\ Buffers!CreatedSince(Top.buffers) \in SUBSET DOMAIN buffers
        /\ buffers' = [i \in (DOMAIN buffers) \ Buffers!CreatedSince(Top.buffers) |-> buffers[i]]
        /\ liveBytes' = liveBytes - Cardinality(BytesIn(buffers, Buffers!CreatedSince(Top.buffers)))
    BY <1>3, BytesOfIs DEF Unwind, RolledBack, Buffers!Rollback, Buffers!CreatedSince, Buffers!Without
  <2> QED
    BY <2>1, DropKeepsCount
<1>4. ASSUME NEW id, Buffers!Release(id)
      PROVE  CountInv'
  <2>1. id \in DOMAIN buffers /\ buffers[id].size \in Nat
    BY <1>4 DEF Buffers!Release, CountInv
  <2>2. /\ buffers' = [i \in (DOMAIN buffers) \ {id} |-> buffers[i]]
        /\ liveBytes' = liveBytes - Cardinality(BytesIn(buffers, {id}))
    BY <1>4, <2>1, BytesOne DEF Buffers!Release, Buffers!Without
  <2> QED
    BY <2>1, <2>2, DropKeepsCount
<1>5. ASSUME Buffers!Clear
      PROVE  CountInv'
  <2>1. DOMAIN buffers' = {} /\ liveBytes' = 0
    BY <1>5 DEF Buffers!Clear, Buffers!Without
  <2>2. BytesIn(buffers', {}) = {}
    BY DEF BytesIn
  <2> QED
    BY <2>1, <2>2, FS_EmptySet DEF CountInv
<1> QED
  BY <1>1, <1>2, <1>3, <1>4, <1>5
  DEF Next, Dispatch, Return, Throw, AddShape, AddBuffer, AddBufferFails, Buffers!CreateFails,
      BeginScope, EndScope, Release, CreateBuffer, FreeBuffer, ReleaseAll, bufferVars

LEMMA InitHasCount == Init => CountInv
<1> SUFFICES ASSUME Init
             PROVE  CountInv
  OBVIOUS
<1>1. DOMAIN buffers = {} /\ liveBytes = 0
  BY DEF Init, Buffers!Init
<1>2. BytesIn(buffers, {}) = {}
  BY DEF BytesIn
<1> QED
  BY <1>1, <1>2, FS_EmptySet DEF CountInv

\* stats().liveBufferBytes is the number of bytes of the buffers that exist, and so never
\* below zero, whatever was created, freed, cleared and rolled back, and however deeply.
THEOREM BytesAreExact == Spec => [](BytesExact /\ liveBytes \in Nat)
<1>1. CountInv /\ KernelInv /\ [Next]_vars => CountInv'
  <2>1. ASSUME CountInv, UNCHANGED vars
        PROVE  CountInv'
    BY <2>1, CountStays DEF vars
  <2> QED
    BY <2>1, StepKeepsCount
<1>2. CountInv => BytesExact /\ liveBytes \in Nat
  BY BytesFinite, BytesOfIs DEF CountInv, BytesExact, Buffers!LiveBytesExact
<1> QED
  BY InitHasCount, KernelInvariant, <1>1, <1>2, PTL DEF Spec
=============================================================================
