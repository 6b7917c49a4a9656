----------------------------- MODULE Operations -----------------------------
(***************************************************************************)
(* The operation handlers in execution: one request is dispatched          *)
(* (Kernel::dispatchOperation), takes one of the courses of its handler,   *)
(* and is answered by Kernel::dispatch, which turns what a handler throws  *)
(* into an error code.  The arena is seen as its storage, the vector of    *)
(* slots that a handler holds references into.  What a failed dispatch     *)
(* rolls back is in module Kernel.                                         *)
(***************************************************************************)
EXTENDS OperationTable, Integers

CONSTANTS Served,      \* the operations requested
          HandleRange, \* 2^32: get<std::uint32_t>() keeps the handle modulo it
          MaxSpare     \* bound on the slots left when a request begins

ASSUME OperationsAssumption ==
  /\ "none" \notin Served
  /\ HandleRange \in Nat \ {0} /\ MaxSpare \in Nat \ {0}

VARIABLES
  op,        \* the operation requested, "none" between requests
  asked,     \* includeHistory was requested
  at,        \* the operation dispatched last: a handler may dispatch another
  course, pc,  \* the steps the handler takes, and the next one
  held,      \* the shapes got from the arena, as the handler holds them
  duplicated,  \* the shape at hand is a duplicate of the latest one got
  altered,   \* the geometry of an input shape was changed in place
  broken,    \* a call broke off because of the cancellation
  cancelled, \* the host's cancellation flag for the request
  free, spare,  \* slots on the free list; slots left in the vector's capacity
  recorded,  \* the history is part of the result
  answer     \* what the request was answered

request == <<op, asked>>
handler == <<at, course, pc, held, duplicated, broken, recorded>>
storage == <<free, spare>>
vars == <<op, asked, at, course, pc, held, duplicated, altered, broken,
          cancelled, free, spare, recorded, answer>>

-----------------------------------------------------------------------------
(* Requests and answers.                                                   *)

NoAnswer == [code |-> "none", cause |-> "none"]
Idle == op = "none"
Running == ~Idle /\ answer = NoAnswer
Answer(code, cause) == answer' = [code |-> code, cause |-> cause]

Init ==
  /\ op = "none" /\ asked = FALSE
  /\ at = "none" /\ course = <<>> /\ pc = 1
  /\ held = {} /\ duplicated = FALSE /\ altered = FALSE
  /\ broken = FALSE /\ cancelled = FALSE
  /\ free = 0 /\ spare = 0
  /\ recorded = FALSE /\ answer = NoAnswer

\* The history is refused before the operation is looked up.
dispatchOperation(o, history) ==
  /\ at' = o /\ pc' = 1 /\ held' = {}
  /\ \/ /\ history /\ o \notin HistorySupport
        /\ course' = <<>>
        /\ Answer("InvalidArgs", "arguments")
     \/ /\ ~history \/ o \in HistorySupport
        /\ IF o \in DOMAIN Handlers
             THEN course' \in Handlers[o] /\ UNCHANGED answer
             ELSE course' = <<>> /\ Answer("ProtocolError", "arguments")

\* The arena is as other requests left it.
Serve(o, history) ==
  /\ Idle
  /\ op' = o /\ asked' = history
  /\ dispatchOperation(o, history)
  /\ free' \in 0..1 /\ spare' \in 0..MaxSpare
  /\ UNCHANGED <<duplicated, altered, broken, cancelled, recorded>>

\* The host asks for the request to be cancelled; only a later poll sees it.
Cancel ==
  /\ Running /\ ~cancelled
  /\ \E i \in DOMAIN course : i >= pc /\ course[i].do \in {"poll", "transfer"}
  /\ cancelled' = TRUE
  /\ UNCHANGED <<request, handler, altered, storage, answer>>

\* What the handler throws leaves it where it is.
Throw(code, cause) ==
  /\ Answer(code, cause)
  /\ UNCHANGED <<request, handler, altered, cancelled, storage>>

Exhaust == Running /\ Throw("OutOfMemory", "memory")

Finish ==
  /\ Running /\ pc \notin DOMAIN course
  /\ Answer("ok", "none")
  /\ UNCHANGED <<request, handler, altered, cancelled, storage>>

Forget ==
  /\ ~Idle /\ ~Running
  /\ op' = "none" /\ asked' = FALSE
  /\ at' = "none" /\ course' = <<>> /\ pc' = 1
  /\ held' = {} /\ duplicated' = FALSE /\ altered' = FALSE
  /\ broken' = FALSE /\ cancelled' = FALSE
  /\ free' = 0 /\ spare' = 0
  /\ recorded' = FALSE /\ answer' = NoAnswer

-----------------------------------------------------------------------------
(* The steps of a handler.                                                 *)

step == course[pc]
Doing(kind) == Running /\ pc \in DOMAIN course /\ step.do = kind
Advance == pc' = pc + 1 /\ UNCHANGED <<op, asked, at, course, cancelled, answer>>

\* An exception of OCCT, or another std::exception.
Fail == Throw(operationFailureCode(at), "algorithm")

Checked ==
  /\ Doing("check")
  /\ \/ Advance /\ UNCHANGED <<held, duplicated, altered, broken, storage, recorded>>
     \/ Throw("InvalidArgs", "arguments")

Verified ==
  /\ Doing("verify")
  /\ \/ Advance /\ UNCHANGED <<held, duplicated, altered, broken, storage, recorded>>
     \/ Throw(step.code, "format")

\* The client names the shape by a number; the handle is what the handler
\* makes of it.
HandleRead(number, wraps) == IF wraps THEN number % HandleRange ELSE number
\* Mutant of Got: no handler copies the shape.
GotByReference ==
  /\ Doing("get")
  /\ \E number \in {1, 1 + HandleRange} :
       /\ step.wraps \/ number < HandleRange
       /\ held' = held \cup {[by |-> "reference", stale |-> FALSE, named |-> number,
                              handle |-> HandleRead(number, step.wraps)]}
       /\ duplicated' = FALSE
       /\ Advance
       /\ UNCHANGED <<altered, broken, storage, recorded>>
Got ==
  /\ Doing("get")
  /\ \/ \E number \in {1, 1 + HandleRange} :
          /\ step.wraps \/ number < HandleRange
          /\ held' = held \cup {[by |-> step.by, stale |-> FALSE, named |-> number,
                                 handle |-> HandleRead(number, step.wraps)]}
          /\ duplicated' = FALSE
          /\ Advance
          /\ UNCHANGED <<altered, broken, storage, recorded>>
     \/ Throw("InvalidArgs", "arguments")
     \/ Throw("InvalidHandle", "arguments")

\* OCCT is called, and succeeds, reports a failure or throws.
Computed ==
  /\ Doing("occt")
  /\ \/ ~broken /\ Advance
        /\ UNCHANGED <<held, duplicated, altered, broken, storage, recorded>>
     \/ Throw(step.code, IF broken THEN "cancellation" ELSE "algorithm")
     \/ ~broken /\ Fail
Called ==
  /\ Doing("call")
  /\ \/ Advance /\ UNCHANGED <<held, duplicated, altered, broken, storage, recorded>>
     \/ Fail
\* Mutant of Transferred: who sees the cancellation takes it away.
TransferredConsuming ==
  /\ Doing("transfer")
  /\ broken' = cancelled
  /\ cancelled' = FALSE
  /\ pc' = pc + 1
  /\ UNCHANGED <<request, at, course, held, duplicated, altered, storage, recorded,
                  answer>>
Transferred ==
  /\ Doing("transfer")
  /\ \/ /\ broken' \in IF cancelled THEN BOOLEAN ELSE {FALSE}
        /\ Advance /\ UNCHANGED <<held, duplicated, altered, storage, recorded>>
     \/ Fail
Duplicated ==
  /\ Doing("duplicate")
  /\ \/ /\ duplicated' = TRUE
        /\ Advance /\ UNCHANGED <<held, altered, broken, storage, recorded>>
     \/ Fail
\* A copy of a TopoDS_Shape has the same geometry.
Edited ==
  /\ Doing("edit")
  /\ altered' = (altered \/ ~duplicated)
  /\ \/ Advance /\ UNCHANGED <<held, duplicated, broken, storage, recorded>>
     \/ /\ Answer(operationFailureCode(at), "algorithm")
        /\ UNCHANGED <<request, handler, cancelled, storage>>

\* A slot of the free list, one at the end of the vector, or one at the end of
\* a larger vector, which leaves the references into the old one dangling.
Reallocates == free = 0 /\ spare = 0
AfterAdd(shape) ==
  [by |-> shape.by, named |-> shape.named, handle |-> shape.handle,
   stale |-> shape.stale \/ (shape.by = "reference" /\ Reallocates)]
Stored ==
  /\ Doing("add")
  /\ \/ /\ free' = 0
        /\ spare' = IF free > 0 THEN spare
                    ELSE IF spare > 0 THEN spare - 1 ELSE MaxSpare
        /\ held' = {AfterAdd(shape) : shape \in held}
        /\ Advance
        /\ UNCHANGED <<duplicated, altered, broken, recorded>>
     \/ Throw("InvalidArgs", "arguments")
     \/ Throw("OutOfMemory", "memory")
Copied ==
  /\ Doing("buffer")
  /\ Advance /\ UNCHANGED <<held, duplicated, altered, broken, storage, recorded>>

Polled ==
  /\ Doing("poll")
  /\ IF cancelled
       THEN Throw("Cancelled", "cancellation")
       ELSE Advance /\ UNCHANGED <<held, duplicated, altered, broken, storage, recorded>>

Recorded ==
  /\ Doing("history")
  /\ \/ /\ recorded' = asked
        /\ Advance /\ UNCHANGED <<held, duplicated, altered, broken, storage>>
     \/ asked /\ Fail

Redispatched ==
  /\ Doing("dispatch")
  /\ dispatchOperation(step.op, asked)
  /\ UNCHANGED <<request, duplicated, altered, broken, cancelled, storage, recorded>>

Next ==
  \/ \E o \in Served, history \in BOOLEAN : Serve(o, history)
  \/ Cancel \/ Exhaust \/ Finish \/ Forget
  \/ Checked \/ Verified \/ Got \/ Computed \/ Called \/ Transferred
  \/ Duplicated \/ Edited \/ Stored \/ Copied \/ Polled \/ Recorded \/ Redispatched

Spec == Init /\ [][Next]_vars

-----------------------------------------------------------------------------
(* Properties.                                                             *)

\* A handler keeps references into the arena's vector of slots.  None of them
\* is used any more when a shape was stored that made the vector reallocate.
NoStaleRead ==
  Running /\ pc \in DOMAIN course /\ step.do \in Reading
    => \A shape \in held : ~shape.stale

\* Wherever the cancellation is noticed first, by a poll of the handler or by
\* OCCT breaking off a call, the request is answered Cancelled.  Only the export
\* of an IGES document tests the result of the call before it polls: what it
\* answers depends on what OCCT returns from a call it broke off.
CancelledIsCancelled ==
  answer.cause = "cancellation" /\ op \notin TestsFirst => answer.code = "Cancelled"

\* A result has the history if and only if it was asked for: every course of
\* every operation in the support table records it, also when the operation
\* hands over to another.
HistoryAsAsked == answer.code = "ok" => recorded = asked

\* A failure of OCCT has one code per operation, whether OCCT reports it to the
\* handler or throws, except for these operations.
OneFailureCode ==
  answer.cause = "algorithm" /\ op \notin TwoCodes
    => answer.code = operationFailureCode(op)

\* No operation changes the geometry of a shape it was given, also when it
\* fails or is cancelled half-way, except that these drop and remake its mesh.
InputsUnchanged == altered => op \in Meshing

\* The shape read is the one the client named, except in the operations that
\* take a list of handles without checking their range.
NamedIsRead ==
  \A shape \in held : shape.named = shape.handle \/ op \in Unchecked

-----------------------------------------------------------------------------
(* What NoStaleRead and CancelledIsCancelled ask of the handlers of what   *)
(* is requested: the hypotheses of two theorems in OperationsProofs.       *)

ServedReadFirst ==
  Served \cap DOMAIN Handlers \subseteq ReadersFirst /\ Closed(ReadersFirst)
ServedPollFirst ==
  (Served \cap DOMAIN Handlers) \ TestsFirst \subseteq PollersFirst /\ Closed(PollersFirst)
=============================================================================
