--------------------------- MODULE ProfileRuntime ---------------------------
(***************************************************************************)
(* What GeometryEngine asks of a runtime (interface ProfileRuntime of      *)
(* ts/src/engine.ts, as createWorkerProfileRuntime of                      *)
(* ts/src/isolated-runtime.ts provides it): a WorkerClient that answers    *)
(* requests in order, and a kernel that forgets everything when the client *)
(* rebuilds it.  Handles and scope ids start again in a new kernel.  The   *)
(* modules WorkerClient, Kernel and HandleTable say why it is so; here it  *)
(* is assumed.                                                             *)
(***************************************************************************)
EXTENDS Integers, Sequences, SequencesExt

CONSTANTS
  Call,           \* the engine's calls, which ask
  MaxOutputs      \* bound: shapes one operation returns

VARIABLE
  runtimes        \* every runtime a factory was asked for

Nobody == "nobody"

ASSUME NobodyAssumption == Nobody \notin Call

\* shapes: the live shapes, <<handle, scope>>.
Fresh(epoch) == [epoch |-> epoch, scopes |-> {}, shapes |-> {}, begun |-> 0, issued |-> 0]

\* since: the engine's epoch of the profile when the factory was called.
NewRuntime(profile, since) ==
  [profile |-> profile, since |-> since, state |-> "starting", kernel |-> Fresh(1), queue |-> <<>>]

\* A question: who asks what, with the handles and the scope it names.
Question(c, op, handles, scope) ==
  [call |-> c, op |-> op, handles |-> handles, scope |-> scope]

Waiting(r) == {runtimes[r].queue[i].call : i \in DOMAIN runtimes[r].queue}

Holds(kernel, handle) == \E s \in kernel.scopes : <<handle, s>> \in kernel.shapes

\* The kernel checks the handles and the scope of a request.
Accepts(kernel, q) ==
  /\ \A h \in q.handles : Holds(kernel, h)
  /\ q.op \in {"make", "op", "importBREP", "endScope"} => q.scope \in kernel.scopes

\* Operations of OCCT may fail on their own.
MayFail(q) == q.op \in {"make", "op", "exportBREP", "importBREP"}

NewHandles(kernel, k) == kernel.issued + 1 .. kernel.issued + k

\* The outcomes of a question the kernel accepts: the kernel, and the answer.
Outcomes(kernel, q) ==
  CASE q.op = "beginScope" ->
         {[kernel |-> [kernel EXCEPT !.begun = @ + 1, !.scopes = @ \cup {kernel.begun + 1}],
           value |-> <<kernel.begun + 1>>]}
    [] q.op \in {"make", "importBREP", "op"} ->
         {[kernel |-> [kernel EXCEPT !.issued = @ + k,
                                     !.shapes = @ \cup (NewHandles(kernel, k) \X {q.scope})],
           value |-> [i \in 1 .. k |-> kernel.issued + i]] : k \in IF q.op = "op" THEN 0 .. MaxOutputs ELSE {1}}
    [] q.op = "release" ->
         {[kernel |-> [kernel EXCEPT !.shapes = {x \in @ : x[1] \notin q.handles}], value |-> <<>>]}
    [] q.op = "endScope" ->
         {[kernel |-> [kernel EXCEPT !.scopes = @ \ {q.scope},
                                     !.shapes = {x \in @ : x[2] # q.scope}], value |-> <<>>]}
    [] OTHER -> {[kernel |-> kernel, value |-> <<>>]}

\* close(): whatever waits is rejected.
Closed(r) ==
  [runtimes EXCEPT ![r].state = "closed", ![r].queue = <<>>, ![r].kernel = Fresh(@.epoch)]

\* The client rebuilds its kernel: an abort, a timeout, a trap.
Rebuilt(r) ==
  [runtimes EXCEPT ![r].queue = <<>>, ![r].kernel = Fresh(@.epoch + 1)]
=============================================================================
