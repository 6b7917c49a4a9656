---------------------------- MODULE HandlerSteps ----------------------------
(***************************************************************************)
(* The vocabulary in which the operation handlers (kernel/operations) are  *)
(* written down.  A handler h_xxx(context, args) is the set of the courses *)
(* it can take, each a sequence of the steps below; OCCT itself is         *)
(* external, a step that succeeds or fails.  What the steps do to the      *)
(* kernel's state is in module Operations.                                 *)
(***************************************************************************)
EXTENDS Sequences

\* The error codes of protocol/errors.json that handlers throw.
CF == "ConstructionFailed"
BF == "BooleanFailed"
FF == "FilletFailed"
TF == "TessellationFailed"
HF == "HealingFailed"
XF == "ImportExportFailed"
KE == "KernelError"
ErrorCode ==
  {CF, BF, FF, TF, HF, XF, KE, "InvalidArgs", "InvalidHandle", "Cancelled",
   "OutOfMemory", "ProtocolError"}

One(step) == {<<step>>}

\* A guard on the arguments, or on the shapes held so far: it throws
\* InvalidArgs, or the handler goes on.
Check == One([do |-> "check"])

\* arena().get: bound to a const reference into the arena's slots, or copied.
\* The handle is read by requiredU32 or range-checked in place ...
Ref  == One([do |-> "get", by |-> "reference", wraps |-> FALSE])
Copy == One([do |-> "get", by |-> "copy", wraps |-> FALSE])
\* ... or by get<std::uint32_t>(), which keeps the low 32 bits of any number.
RefLow32  == One([do |-> "get", by |-> "reference", wraps |-> TRUE])
CopyLow32 == One([do |-> "get", by |-> "copy", wraps |-> TRUE])

\* A call into OCCT that reads the shapes held.  When the algorithm reports a
\* failure the handler throws code; OCCT may also throw an exception itself.
Occt(code) == One([do |-> "occt", code |-> code])
\* A test of data read from the file: it throws code.
Verify(code) == One([do |-> "verify", code |-> code])
\* A call whose result the handler does not check, and one that itself polls
\* the progress callback and breaks off when it says so (More(), UserBreak()).
Call == One([do |-> "call"])
Transfer == One([do |-> "transfer"])

\* The shape or geometry at hand is duplicated; it is changed in place.
Duplicate == One([do |-> "duplicate"])
Edit      == One([do |-> "edit"])

\* arena().add in the scope of the request, buffers().copy, the progress
\* callback that may cancel, the history of the operation if it was asked for.
Add     == One([do |-> "add"])
Buffer  == One([do |-> "buffer"])
Poll    == One([do |-> "poll"])
History == One([do |-> "history"])

\* theContext.dispatch(op, args) as the handler's last act.
Dispatch(op) == One([do |-> "dispatch", op |-> op])

\* One part after the other; a part left out; a loop, unrolled twice.
a ** b == {s \o t : s \in a, t \in b}
Skip == {<<>>}
Opt(a) == Skip \cup a
Loop1(a) == a \cup (a ** a)
Loop(a) == Skip \cup Loop1(a)
=============================================================================
