---------------------- MODULE InProcessTransportProofs ----------------------
(***************************************************************************)
(* Requests of the in-process transport leave nothing, for any number of   *)
(* requests, nested to any depth, and of buffers.                          *)
(***************************************************************************)
EXTENDS InProcessTransport, SequenceTheorems, TLAPS

Phases == {"started", "inKernel", "materializing", "finishing", "ending"}

\* A request that has not come to its encoding has no buffers.
Framed ==
  {f \in [request : TransportRequest, at : Phases, inputs : Seq(Int), since : Int,
          outputs : SUBSET Int, outcome : {"fulfilled", "failed", "abort", "timeout"}] :
     f.at = "started" => f.inputs = <<>>}

FramesTyped == frames \in Seq(Framed) /\ nextBuffer \in Int

\* A request waits in user code while one is made in its callback.
OthersWait == \A k \in 1 .. Len(frames) - 1 : frames[k].at \in {"started", "inKernel", "finishing"}

\* The buffers a request accounts for.
Inputs(frame) == {frame.inputs[k] : k \in DOMAIN frame.inputs}
Owed(frame) == Inputs(frame) \cup IF frame.at = "materializing" THEN frame.outputs ELSE {}

\* Every buffer in the kernel is one that a request under way will free.
AllOwed == \A b \in stored : \E k \in DOMAIN frames : b \in Owed(frames[k])

Cleared == frames = <<>> => installed = NoRequest /\ deadline = NoRequest

TransportInv == FramesTyped /\ OthersWait /\ (lost \/ (AllOwed /\ Cleared))

LEMMA OwedAway ==
  ASSUME NEW f \in Framed, f.at # "materializing"
  PROVE  Owed(f) = Inputs(f)
BY DEF Owed

LEMMA TopFramed ==
  ASSUME FramesTyped, frames # <<>>
  PROVE  Top \in Framed
BY DEF FramesTyped, Top

LEMMA TransportInvInit == TransportInit => TransportInv
BY DEF TransportInit, TransportInv, FramesTyped, OthersWait, AllOwed, Cleared

\* A step of the innermost request changes its frame alone.
LEMMA TopChanges ==
  ASSUME FramesTyped, OthersWait, frames # <<>>, NEW f \in Framed, Goes(f)
  PROVE  /\ frames' \in Seq(Framed) /\ Len(frames') = Len(frames) /\ frames' # <<>>
         /\ DOMAIN frames' = DOMAIN frames
         /\ frames'[Len(frames)] = f
         /\ \A k \in 1 .. Len(frames) - 1 : frames'[k] = frames[k]
         /\ OthersWait'
<1>1. frames \in Seq(Framed) /\ Len(frames) \in DOMAIN frames
  BY DEF FramesTyped, Framed
<1>2. /\ frames' \in Seq(Framed) /\ Len(frames') = Len(frames) /\ frames' # <<>>
      /\ DOMAIN frames' = DOMAIN frames
      /\ \A k \in DOMAIN frames : frames'[k] = IF k = Len(frames) THEN f ELSE frames[k]
  BY <1>1 DEF Goes
<1> QED
  BY <1>1, <1>2 DEF OthersWait

\* It keeps AllOwed if what it leaves in the kernel was there before and is not a
\* buffer it no longer accounts for, or is one it now accounts for.
LEMMA TopOwes ==
  ASSUME FramesTyped, OthersWait, frames # <<>>, AllOwed, NEW f \in Framed, Goes(f),
         \A b \in stored' : b \in Owed(f) \/ (b \in stored /\ b \notin Owed(Top))
  PROVE  AllOwed'
<1> SUFFICES ASSUME NEW b \in stored'
             PROVE  \E k \in DOMAIN frames' : b \in Owed(frames'[k])
  BY DEF AllOwed, Owed, Inputs
<1>1. /\ DOMAIN frames' = DOMAIN frames
      /\ frames'[Len(frames)] = f
      /\ \A k \in 1 .. Len(frames) - 1 : frames'[k] = frames[k]
  BY TopChanges
<1>2. DOMAIN frames = 1 .. Len(frames) /\ Len(frames) \in DOMAIN frames
  BY DEF FramesTyped
<1>3. CASE b \in Owed(f)
  BY <1>1, <1>2, <1>3
<1>4. CASE b \in stored /\ b \notin Owed(Top)
  <2>1. PICK k \in DOMAIN frames : b \in Owed(frames[k])
    BY <1>4 DEF AllOwed
  <2>2. k \in 1 .. Len(frames) - 1
    BY <1>2, <1>4, <2>1 DEF Top
  <2> QED
    BY <1>1, <2>1, <2>2
<1> QED
  BY <1>3, <1>4

\* A request that fails keeps its frame but for where it is and what it answers.
LEMMA Failing ==
  ASSUME NEW f \in Framed, Fails(f)
  PROVE  \E g \in Framed : /\ Goes(g) /\ g.at = "ending" /\ g.inputs = f.inputs /\ Owed(g) = Inputs(f)
<1> DEFINE c == Cancellation(f.request)
           g == [f EXCEPT !.at = "ending", !.outcome = IF c = "none" THEN "failed" ELSE c]
<1>1. c \in {"abort", "timeout", "none"}
  BY DEF Cancellation
<1> HIDE DEF c
<1>2. g \in Framed /\ g.at = "ending" /\ g.inputs = f.inputs
  BY <1>1 DEF Framed, Phases
<1>3. Goes(g)
  BY DEF Fails, c
<1>4. Owed(g) = Inputs(f)
  BY <1>2 DEF Owed, Inputs
<1> QED
  BY <1>2, <1>3, <1>4

\* A request is refused, or becomes the innermost.
LEMMA Requesting ==
  ASSUME TransportInv, NEW r \in TransportRequest, transportRequest(r)
  PROVE  TransportInv'
<1>0. FramesTyped /\ OthersWait /\ (lost \/ (AllOwed /\ Cleared))
  BY DEF TransportInv
<1>1. CASE frames' = frames
  <2>1. UNCHANGED <<installed, deadline>>
    BY <1>0, <1>1 DEF transportRequest, FramesTyped
  <2> QED
    BY <1>0, <1>1, <2>1
    DEF transportRequest, TransportInv, FramesTyped, OthersWait, AllOwed, Owed, Inputs, Cleared
<1>2. CASE frames' = Append(frames, Frame(r))
  <2>1. Frame(r) \in Framed
    BY DEF Frame, Framed, Phases
  <2>2. /\ frames' \in Seq(Framed) /\ Len(frames') = Len(frames) + 1 /\ frames' # <<>>
        /\ \A k \in 1 .. Len(frames) : frames'[k] = frames[k]
    BY <1>0, <1>2, <2>1 DEF FramesTyped
  <2>3. OthersWait'
    BY <1>0, <2>2 DEF transportRequest, InUserCode, AtTop, Top, OthersWait, FramesTyped
  <2>4. AllOwed => AllOwed'
    BY <1>0, <2>2 DEF transportRequest, AllOwed, Owed, Inputs, FramesTyped
  <2> QED
    BY <1>0, <2>2, <2>3, <2>4 DEF transportRequest, TransportInv, FramesTyped, Cleared
<1> QED
  BY <1>1, <1>2 DEF transportRequest

\* A step of the innermost request that neither makes nor ends one keeps the invariant
\* if it accounts for the buffers it leaves.
LEMMA Stepping ==
  ASSUME TransportInv, frames # <<>>, NEW f \in Framed, Goes(f), nextBuffer' \in Int, lost => lost',
         lost' \/ \A b \in stored' : b \in Owed(f) \/ (b \in stored /\ b \notin Owed(Top))
  PROVE  TransportInv'
<1>0. FramesTyped /\ OthersWait /\ (lost \/ (AllOwed /\ Cleared))
  BY DEF TransportInv
<1>1. frames' \in Seq(Framed) /\ frames' # <<>> /\ OthersWait'
  BY <1>0, TopChanges
<1>2. lost' \/ AllOwed'
  BY <1>0, TopOwes
<1> QED
  BY <1>1, <1>2 DEF TransportInv, FramesTyped, Cleared

LEMMA Encoding == TransportInv /\ Encoded => TransportInv'
<1> SUFFICES ASSUME TransportInv, Encoded
             PROVE  TransportInv'
  OBVIOUS
<1>0. FramesTyped /\ frames # <<>> /\ Top \in Framed /\ Top.at = "started"
  BY DEF TransportInv, FramesTyped, Encoded, AtTop, Top
<1>1. PICK n \in 0 .. MaxBuffers :
        LET made == [Top EXCEPT !.inputs = [k \in 1 .. n |-> nextBuffer + k - 1]] IN
        /\ stored' = stored \cup {made.inputs[k] : k \in 1 .. n}
        /\ nextBuffer' = nextBuffer + n
        /\ Goes([made EXCEPT !.at = "inKernel", !.since = nextBuffer + n]) \/ Fails(made)
  BY DEF Encoded
<1> DEFINE ids == [k \in 1 .. n |-> nextBuffer + k - 1]
           made == [Top EXCEPT !.at = "inKernel", !.inputs = ids]
<1>2. n \in Int /\ n >= 0 /\ ids \in Seq(Int) /\ DOMAIN ids = 1 .. n
  BY <1>0 DEF FramesTyped
<1>3. made \in Framed /\ made.inputs = ids /\ made.at = "inKernel"
  BY <1>0, <1>2 DEF Framed, Phases
<1>4. stored' = stored \cup Inputs(made) /\ nextBuffer' \in Int
  BY <1>0, <1>1, <1>2, <1>3 DEF Inputs, FramesTyped
<1>5. Owed(Top) = {}
  BY <1>0 DEF Framed, Owed, Inputs
<1>6. CASE Goes([made EXCEPT !.since = nextBuffer + n])
  <2> DEFINE f == [made EXCEPT !.since = nextBuffer + n]
  <2>1. f \in Framed /\ f.inputs = made.inputs /\ f.at = "inKernel"
    <3>1. nextBuffer + n \in Int
      BY <1>0, <1>2 DEF FramesTyped
    <3> HIDE DEF made
    <3> QED
      BY <1>3, <3>1 DEF Framed
  <2>2. Inputs(made) \subseteq Owed(f)
    BY <2>1, OwedAway DEF Inputs
  <2> QED
    BY <1>0, <1>4, <1>5, <1>6, <2>1, <2>2, Stepping DEF Encoded
<1>7. CASE Fails([Top EXCEPT !.inputs = ids])
  <2> DEFINE c == Cancellation(Top.request)
             f == [made EXCEPT !.at = "ending", !.outcome = IF c = "none" THEN "failed" ELSE c]
  <2>1. f \in Framed /\ Inputs(made) \subseteq Owed(f) /\ Goes(f)
    <3>1. c \in {"abort", "timeout", "none"}
      BY DEF Cancellation
    <3> HIDE DEF c
    <3>2. f \in Framed /\ Inputs(made) \subseteq Owed(f)
      BY <1>0, <1>2, <1>3, <3>1 DEF Framed, Phases, Owed, Inputs
    <3>3. [Top EXCEPT !.inputs = ids].request = Top.request
      BY <1>0 DEF Framed
    <3>4. Goes([[Top EXCEPT !.inputs = ids] EXCEPT !.at = "ending",
                 !.outcome = IF c = "none" THEN "failed" ELSE c])
      BY <1>7, <3>3 DEF Fails, c
    <3>5. f = [[Top EXCEPT !.inputs = ids] EXCEPT !.at = "ending",
                 !.outcome = IF c = "none" THEN "failed" ELSE c]
      BY <1>0, <1>2 DEF Framed
    <3> QED
      BY <3>2, <3>4, <3>5
  <2> QED
    BY <1>0, <1>4, <1>5, <2>1, Stepping DEF Encoded
<1>8. /\ [[Top EXCEPT !.inputs = ids] EXCEPT !.at = "inKernel", !.since = nextBuffer + n]
         = [made EXCEPT !.since = nextBuffer + n]
  BY <1>0, <1>2 DEF Framed
<1> QED
  BY <1>1, <1>6, <1>7, <1>8

LEMMA Answering == TransportInv /\ Answered => TransportInv'
<1> SUFFICES ASSUME TransportInv, Answered
             PROVE  TransportInv'
  OBVIOUS
<1>0. FramesTyped /\ frames # <<>> /\ Top \in Framed /\ Top.at = "inKernel" /\ Owed(Top) = Inputs(Top)
  <2>1. FramesTyped /\ frames # <<>> /\ Top.at = "inKernel"
    BY DEF TransportInv, Answered, AtTop
  <2> QED
    BY <2>1, TopFramed, OwedAway
<1>1. CASE stored' = {b \in stored : b < Top.since} /\ Fails(Top) /\ nextBuffer' = nextBuffer
  <2>1. PICK g \in Framed : Goes(g) /\ Owed(g) = Inputs(Top)
    BY <1>0, <1>1, Failing
  <2> QED
    BY <1>0, <1>1, <2>1, Stepping DEF Answered, FramesTyped, TransportInv, AllOwed
<1>2. ASSUME NEW kept \in {stored, {}}, NEW n \in 0 .. MaxBuffers, NEW made,
             made = {nextBuffer + k - 1 : k \in 1 .. n},
             stored' = kept \cup made, nextBuffer' = nextBuffer + n,
             Goes([Top EXCEPT !.at = "materializing", !.outputs = made])
      PROVE  TransportInv'
  <2> DEFINE f == [Top EXCEPT !.at = "materializing", !.outputs = made]
  <2>1. made \in SUBSET Int
    BY <1>0, <1>2 DEF FramesTyped
  <2>2. f \in Framed /\ Owed(f) = Inputs(Top) \cup made
    BY <1>0, <2>1 DEF Framed, Phases, Owed, Inputs
  <2>3. \A b \in stored' : b \in Owed(f) \/ (b \in stored /\ b \notin Owed(Top))
    BY <1>0, <1>2, <2>2
  <2> QED
    <3>1. nextBuffer' \in Int
      BY <1>0, <1>2 DEF FramesTyped
    <3>2. lost' = lost
      BY DEF Answered
    <3>3. Goes(f)
      BY <1>2
    <3> HIDE DEF f
    <3> QED
      BY <1>0, <2>2, <2>3, <3>1, <3>2, <3>3, Stepping
<1> QED
  BY <1>1, <1>2 DEF Answered

LEMMA Materializing == TransportInv /\ Materialized => TransportInv'
<1> SUFFICES ASSUME TransportInv, Materialized
             PROVE  TransportInv'
  OBVIOUS
<1>0. /\ FramesTyped /\ frames # <<>> /\ Top \in Framed /\ Top.at = "materializing"
      /\ Owed(Top) = Inputs(Top) \cup Top.outputs
  BY DEF TransportInv, FramesTyped, Materialized, AtTop, Top, Owed
<1>1. ASSUME NEW f \in Framed, Goes(f), Owed(f) = Inputs(Top), stored' = stored \ Top.outputs, lost' = lost
      PROVE  TransportInv'
  BY <1>0, <1>1, Stepping DEF Materialized, FramesTyped
<1>2. CASE Goes([Top EXCEPT !.at = "finishing"]) /\ stored' = stored \ Top.outputs /\ lost' = lost
  <2>1. [Top EXCEPT !.at = "finishing"] \in Framed /\ Owed([Top EXCEPT !.at = "finishing"]) = Inputs(Top)
    BY <1>0 DEF Framed, Phases, Owed, Inputs
  <2> QED
    BY <1>1, <1>2, <2>1
<1>3. CASE Fails(Top)
  <2>1. PICK g \in Framed : Goes(g) /\ Owed(g) = Inputs(Top)
    BY <1>0, <1>3, Failing
  <2>2. lost' \/ stored' = stored \ Top.outputs
    BY DEF Materialized
  <2>3. lost => lost'
    BY DEF Materialized
  <2> QED
    BY <1>0, <1>1, <2>1, <2>2, <2>3, Stepping DEF Materialized, FramesTyped
<1> QED
  BY <1>2, <1>3 DEF Materialized

LEMMA Reporting == TransportInv /\ Reported => TransportInv'
<1> SUFFICES ASSUME TransportInv, Reported
             PROVE  TransportInv'
  OBVIOUS
<1>0. FramesTyped /\ frames # <<>> /\ Top \in Framed /\ Top.at = "finishing" /\ Owed(Top) = Inputs(Top)
  <2>1. FramesTyped /\ frames # <<>> /\ Top.at = "finishing"
    BY DEF TransportInv, Reported, AtTop
  <2> QED
    BY <2>1, TopFramed, OwedAway
<1>1. PICK g \in Framed : Goes(g) /\ Owed(g) = Inputs(Top)
  <2>1. CASE Goes([Top EXCEPT !.at = "ending"])
    <3>1. [Top EXCEPT !.at = "ending"] \in Framed /\ Owed([Top EXCEPT !.at = "ending"]) = Inputs(Top)
      BY <1>0 DEF Framed, Phases, Owed, Inputs
    <3> QED
      BY <2>1, <3>1
  <2>2. CASE Fails(Top)
    BY <1>0, <2>2, Failing
  <2> QED
    BY <2>1, <2>2 DEF Reported
<1> QED
  BY <1>0, <1>1, Stepping DEF Reported, FramesTyped, TransportInv, AllOwed

\* The innermost request ends: what it had is freed, or that is lost.
LEMMA Ending == TransportInv /\ Ended => TransportInv'
<1> SUFFICES ASSUME TransportInv, Ended
             PROVE  TransportInv'
  OBVIOUS
<1>0. /\ FramesTyped /\ OthersWait /\ (lost \/ (AllOwed /\ Cleared))
      /\ frames # <<>> /\ Top \in Framed /\ Top.at = "ending" /\ Owed(Top) = Inputs(Top)
  BY DEF TransportInv, FramesTyped, Ended, AtTop, Top, Owed
<1>1. /\ frames' \in Seq(Framed) /\ Len(frames') = Len(frames) - 1
      /\ \A k \in 1 .. Len(frames) - 1 : frames'[k] = frames[k]
  <2>1. frames \in Seq(Framed) /\ Len(frames) \in Nat /\ Len(frames) >= 1
    BY <1>0 DEF FramesTyped
  <2>2. frames' = SubSeq(frames, 1, Len(frames) - 1)
    BY DEF Ended
  <2>3. \A k \in 1 .. Len(frames) - 1 : frames[k] \in Framed
    BY <2>1
  <2>4. /\ SubSeq(frames, 1, Len(frames) - 1) \in Seq(Framed)
        /\ Len(SubSeq(frames, 1, Len(frames) - 1)) =
             IF 1 <= Len(frames) - 1 THEN Len(frames) - 1 - 1 + 1 ELSE 0
        /\ \A k \in 1 .. Len(frames) - 1 - 1 + 1 : SubSeq(frames, 1, Len(frames) - 1)[k] = frames[1 + k - 1]
    BY <2>1, <2>3, SubSeqProperties
  <2>5. ASSUME NEW k \in 1 .. Len(frames) - 1
        PROVE  frames'[k] = frames[k]
    <3>1. k \in 1 .. Len(frames) - 1 - 1 + 1 /\ 1 + k - 1 = k
      BY <2>1
    <3>2. SubSeq(frames, 1, Len(frames) - 1)[k] = frames[1 + k - 1]
      BY <2>4, <3>1
    <3> QED
      BY <2>2, <3>1, <3>2
  <2>6. Len(SubSeq(frames, 1, Len(frames) - 1)) = Len(frames) - 1
    <3> DEFINE n == Len(frames)
               last == Len(SubSeq(frames, 1, Len(frames) - 1))
    <3>1. n \in Nat /\ n >= 1 /\ last = IF 1 <= n - 1 THEN n - 1 - 1 + 1 ELSE 0
      BY <2>1, <2>4
    <3> HIDE DEF n, last
    <3>2. last = n - 1
      BY <3>1
    <3> QED
      BY <3>2 DEF n, last
  <2>7. frames' \in Seq(Framed) /\ Len(frames') = Len(frames) - 1
    BY <2>2, <2>4, <2>6
  <2> QED
    BY <2>5, <2>7
<1>2. FramesTyped' /\ OthersWait'
  BY <1>0, <1>1 DEF Ended, FramesTyped, OthersWait
<1>3. CASE lost'
  BY <1>2, <1>3 DEF TransportInv
<1>4. CASE ~lost'
  <2>1. /\ stored' = {b \in stored : \A k \in DOMAIN Top.inputs : b # Top.inputs[k]}
        /\ installed' = NoRequest /\ deadline' = NoRequest /\ ~lost
    BY <1>4 DEF Ended
  <2>2. AllOwed'
    <3> SUFFICES ASSUME NEW b \in stored'
                 PROVE  \E k \in DOMAIN frames' : b \in Owed(frames'[k])
      BY DEF AllOwed, Owed, Inputs
    <3>1. b \in stored /\ b \notin Owed(Top)
      BY <1>0, <2>1 DEF Inputs
    <3>2. PICK k \in DOMAIN frames : b \in Owed(frames[k])
      BY <1>0, <2>1, <3>1 DEF AllOwed
    <3>3. k \in 1 .. Len(frames) - 1
      BY <1>0, <3>1, <3>2 DEF Top, FramesTyped
    <3> QED
      BY <1>1, <3>2, <3>3
  <2> QED
    BY <1>2, <2>1, <2>2 DEF TransportInv, Cleared
<1> QED
  BY <1>3, <1>4

LEMMA TransportInvStep == TransportInv /\ [TransportNext]_transportVars => TransportInv'
<1> SUFFICES ASSUME TransportInv, [TransportNext]_transportVars
             PROVE  TransportInv'
  OBVIOUS
<1>1. ASSUME UNCHANGED <<frames, nextBuffer, stored, lost, installed, deadline>>
      PROVE  TransportInv'
  BY <1>1 DEF TransportInv, FramesTyped, OthersWait, AllOwed, Owed, Inputs, Cleared
<1>2. CASE UNCHANGED transportVars
  BY <1>1, <1>2 DEF transportVars
<1>3. ASSUME NEW r \in TransportRequest, Aborts(r)
      PROVE  TransportInv'
  BY <1>1, <1>3 DEF Aborts
<1>4. CASE TimePasses
  BY <1>1, <1>4 DEF TimePasses
<1> QED
  BY <1>2, <1>3, <1>4, Requesting, Encoding, Answering, Materializing, Reporting, Ending DEF TransportNext

\* Between requests the kernel holds no buffer of a former one and no deadline of it is
\* left, unless a buffer could not be freed (in-process-transport.ts).
THEOREM NothingLeftBehind == TransportSpec => []RequestsLeaveNothing
<1>1. TransportInv => RequestsLeaveNothing
  BY DEF TransportInv, FramesTyped, AllOwed, Cleared, RequestsLeaveNothing, NothingLeft
<1> QED
  BY TransportInvInit, TransportInvStep, <1>1, PTL DEF TransportSpec
=============================================================================
