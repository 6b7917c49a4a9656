------------------------- MODULE InProcessTransport -------------------------
(***************************************************************************)
(* Requests to a kernel in the same thread                                 *)
(* (ts/src/in-process-transport.ts, with materializeProtocolBuffers of     *)
(* ts/src/protocol-codec.ts), as DirectClient and SharedClient make them.  *)
(* A request has no await: it runs to its end but for the user's           *)
(* onProgress, which may abort a signal, throw, and make other requests.   *)
(* A step is the code from one such callback to the next.                  *)
(***************************************************************************)
EXTENDS Integers, Sequences, FiniteSets

CONSTANTS
  TransportRequest, \* the requests users make, each at most once
  WithTimeout,      \* those with timeoutMs
  NoRequest,
  MaxBuffers        \* bound on the input buffers, and the output buffers, of a request

VARIABLES
  frames,           \* the requests under way, the innermost last
  outcomes,         \* the promises request() returned
  installed,        \* #operation and #options: whose they are
  deadline,         \* #deadline: whose it is
  aborted,          \* the requests whose signal is aborted
  overdue,          \* the requests with a timeout whose time is over
  stored,           \* the buffers in the kernel
  nextBuffer,       \* the id of its next buffer
  lost              \* history: a freeBuffer failed

transportVars == <<frames, outcomes, installed, deadline, aborted, overdue, stored, nextBuffer, lost>>

TransportInit ==
  /\ frames = <<>>
  /\ outcomes = [r \in TransportRequest |-> "unsent"]
  /\ installed = NoRequest /\ deadline = NoRequest
  /\ aborted = {} /\ overdue = {}
  /\ stored = {} /\ nextBuffer = 1 /\ lost = FALSE

\* inputs: its input buffers; since: the kernel's next buffer when it began the
\* operation; outputs: the buffers of the result; outcome: what the promise will be.
Frame(r) ==
  [request |-> r, at |-> "started", inputs |-> <<>>, since |-> 0, outputs |-> {},
   outcome |-> "fulfilled"]

Top == frames[Len(frames)]
AtTop(phases) == frames # <<>> /\ Top.at \in phases
Goes(frame) == frames' = [frames EXCEPT ![Len(frames)] = frame]

\* #throwIfCancelled(options): the options are those of r, the deadline is whosever it is.
Cancellation(r) ==
  IF r \in aborted THEN "abort" ELSE IF deadline \in overdue THEN "timeout" ELSE "none"

\* The catch block: a cancellation takes the place of the error.
Fails(frame) ==
  LET cancelled == Cancellation(frame.request) IN
  Goes([frame EXCEPT !.at = "ending", !.outcome = IF cancelled = "none" THEN "failed" ELSE cancelled])

-----------------------------------------------------------------------------
(* A request.                                                              *)

\* User code runs between requests, and in the onProgress of the options installed.
InUserCode ==
  frames = <<>> \/ (AtTop({"started", "inKernel", "finishing"}) /\ installed # NoRequest)

\* Up to reportProgress(0).  What is refused here does not pass the finally clause.
transportRequest(r) ==
  /\ outcomes[r] = "unsent" /\ InUserCode
  /\ IF Cancellation(r) # "none"
     THEN /\ outcomes' = [outcomes EXCEPT ![r] = Cancellation(r)]
          /\ UNCHANGED <<frames, installed, deadline>>
     ELSE /\ outcomes' = [outcomes EXCEPT ![r] = "pending"]
          /\ frames' = Append(frames, Frame(r))
          /\ installed' = r
          /\ deadline' = IF r \in WithTimeout THEN r ELSE NoRequest
  /\ UNCHANGED <<aborted, overdue, stored, nextBuffer, lost>>

\* The input buffers are created and filled, and the kernel is called; or that fails
\* at one of them.  Without any, onProgress may be what failed.
Encoded ==
  /\ AtTop({"started"})
  /\ \E n \in 0 .. MaxBuffers :
       LET made == [Top EXCEPT !.inputs = [k \in 1 .. n |-> nextBuffer + k - 1]] IN
       /\ stored' = stored \cup {made.inputs[k] : k \in 1 .. n}
       /\ nextBuffer' = nextBuffer + n
       /\ Goes([made EXCEPT !.at = "inKernel", !.since = nextBuffer + n]) \/ Fails(made)
  /\ UNCHANGED <<outcomes, installed, deadline, aborted, overdue, lost>>

\* The kernel fails, or is cancelled, and takes back the buffers made since; or it
\* succeeds, and has emptied itself before if the operation was, or held, a releaseAll.
Answered ==
  /\ AtTop({"inKernel"})
  /\ \/ /\ stored' = {b \in stored : b < Top.since}
        /\ Fails(Top) /\ nextBuffer' = nextBuffer
     \/ \E kept \in {stored, {}}, n \in 0 .. MaxBuffers :
          LET made == {nextBuffer + k - 1 : k \in 1 .. n} IN
          /\ stored' = kept \cup made
          /\ nextBuffer' = nextBuffer + n
          /\ Goes([Top EXCEPT !.at = "materializing", !.outputs = made])
  /\ UNCHANGED <<outcomes, installed, deadline, aborted, overdue, lost>>

\* Mutant of Materialized: a copy that fails leaves the outputs that follow.
MaterializedUntil ==
  /\ AtTop({"materializing"})
  /\ \/ /\ stored' = stored \ Top.outputs
        /\ IF Cancellation(Top.request) = "none" THEN Goes([Top EXCEPT !.at = "finishing"])
           ELSE Fails(Top)
     \/ \E left \in SUBSET Top.outputs : stored' = (stored \ Top.outputs) \cup left /\ Fails(Top)
  /\ UNCHANGED <<outcomes, installed, deadline, aborted, overdue, nextBuffer, lost>>

\* Each output is copied and freed.  If a copy fails the others are freed all the same;
\* only what the kernel refuses to free stays.  Then the cancellation is looked at, and
\* reportProgress(1) called.
Materialized ==
  /\ AtTop({"materializing"})
  /\ \/ /\ stored' = stored \ Top.outputs /\ lost' = lost
        /\ IF Cancellation(Top.request) = "none" THEN Goes([Top EXCEPT !.at = "finishing"])
           ELSE Fails(Top)
     \/ \E left \in SUBSET Top.outputs :
          /\ stored' = (stored \ Top.outputs) \cup left
          /\ lost' = (lost \/ left # {})
          /\ Fails(Top)
  /\ UNCHANGED <<outcomes, installed, deadline, aborted, overdue, nextBuffer>>

\* onProgress has returned, or thrown.
Reported ==
  /\ AtTop({"finishing"})
  /\ Goes([Top EXCEPT !.at = "ending"]) \/ Fails(Top)
  /\ UNCHANGED <<outcomes, installed, deadline, aborted, overdue, stored, nextBuffer, lost>>

\* The finally clause.  The first freeBuffer that fails, as the buffer is gone or the
\* call finds no memory, takes the place of the outcome and ends the clause.
Ended ==
  /\ AtTop({"ending"})
  /\ frames' = SubSeq(frames, 1, Len(frames) - 1)
  /\ \/ /\ \A k \in DOMAIN Top.inputs : Top.inputs[k] \in stored
        /\ stored' = {b \in stored : \A k \in DOMAIN Top.inputs : b # Top.inputs[k]}
        /\ installed' = NoRequest /\ deadline' = NoRequest
        /\ outcomes' = [outcomes EXCEPT ![Top.request] = Top.outcome]
        /\ lost' = lost
     \/ \E k \in DOMAIN Top.inputs :
          /\ \A j \in 1 .. k - 1 : Top.inputs[j] \in stored
          /\ stored' = {b \in stored : \A j \in 1 .. k - 1 : b # Top.inputs[j]}
          /\ outcomes' = [outcomes EXCEPT ![Top.request] = "failed"]
          /\ lost' = TRUE
          /\ UNCHANGED <<installed, deadline>>
  /\ UNCHANGED <<aborted, overdue, nextBuffer>>

-----------------------------------------------------------------------------
(* User code, and time.                                                    *)

Aborts(r) ==
  /\ InUserCode /\ r \notin aborted /\ outcomes[r] \in {"unsent", "pending"}
  /\ aborted' = aborted \cup {r}
  /\ UNCHANGED <<frames, outcomes, installed, deadline, overdue, stored, nextBuffer, lost>>

TimePasses ==
  /\ deadline \in TransportRequest \ overdue
  /\ overdue' = overdue \cup {deadline}
  /\ UNCHANGED <<frames, outcomes, installed, deadline, aborted, stored, nextBuffer, lost>>

TransportNext ==
  \/ \E r \in TransportRequest : transportRequest(r) \/ Aborts(r)
  \/ Encoded \/ Answered \/ Materialized \/ Reported \/ Ended \/ TimePasses

TransportSpec == TransportInit /\ [][TransportNext]_transportVars

-----------------------------------------------------------------------------
(* Properties.                                                             *)

\* Between requests nothing of the former ones is left: no buffer in the kernel, and no
\* deadline that would time out the requests to come.
NothingLeft ==
  frames = <<>> => stored = {} /\ installed = NoRequest /\ deadline = NoRequest

\* The same unless a buffer could not be freed, as after a releaseAll in the middle of
\* the request: failures of any step, cancellations at any time, errors of onProgress and
\* requests made in it leave nothing.
RequestsLeaveNothing == lost \/ NothingLeft
=============================================================================
