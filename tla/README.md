# Formal model of occt-worker

occt-worker runs the OCCT geometry kernel as WebAssembly. A C++ kernel
(`kernel/`) keeps shapes in a handle table and answers one JSON request at a
time; TypeScript clients (`ts/src/`) put that kernel in a Web Worker, in the
calling thread, or behind Side modules loaded on demand, and a coordinator
(`GeometryEngine`) spreads shapes over several such runtimes. This directory
holds TLA+ specifications of that system, TLC configurations that model-check
them on small instances, and proofs checked by TLAPS.

## The system

| Component | State it keeps | Operations | Hard parts | Correct means |
|---|---|---|---|---|
| Shape arena (`kernel/runtime/shape_arena.cpp`) | slots with generation, free list, scope sets, counters | beginScope, add, get, release, endScope, clear, rollback | generation exhaustion, slot reuse, rollback after a release, u32 widths | a handle is valid exactly while its shape lives; no handle is issued twice |
| Buffer store (`buffer_store.cpp`) | buffers by id, creation sequence, byte count | create, release, clear, rollback | rollback in nested dispatches | a failed request leaves no buffer behind |
| Dispatch and batch (`kernel_context.hpp`, `kernel.cpp`) | checkpoints on the call stack | dispatch, batch | nested rollback, partial failure | a failed operation leaves nothing; a batch keeps what its finished operations created |
| Operation handlers (`kernel/operations`) | none of their own; references into the arena while one runs | every operation of the protocol | references that a store moves, cancellation inside OCCT, edits of shared geometry | the arena is read by valid references; errors and histories come as the protocol says |
| Operation registry, plugin entry (`operation_registry.cpp`, `full_entry.cpp`) | registered operations, staged registration | add, begin/commit/rollback, register plugin | failure in the middle of a registration | a failed Side registers nothing |
| `WorkerClient` (`worker-client.ts`) | worker, ready promise, active call, queue, epoch | send, abort, close, restart, worker messages, timeout | restarts racing queued calls and unfinished `await`s | every call settles; no call reaches a kernel its handles do not belong to |
| `worker-entry.ts` | kernel instance in the worker, active call | init, call | crash during a call | one response per call or a fatal message |
| In-process transport, direct client | buffers per request | request, materialize, release | exceptions between allocation and release | buffers are freed |
| Shared loader and client (`shared-loader.ts`, `shared-client.ts`) | loaded Sides, load tail, epoch, capability error | ensureSide, send, dispose | concurrent loads, failures, stale epochs | an operation is dispatched only on a runtime whose Sides are loaded and checked |
| Isolated runtime, session (`isolated-runtime.ts`, `single-runtime-session.ts`) | current runtime, switch in progress | switchProfile, request, close | close during a switch | at most one runtime, none after close |
| `GeometryEngine` (`engine.ts`) | profiles and epochs, engine shapes, placements with leases, kernel-scope reference counts | create, request, cloneTo, release, invalidate, close | state read before an `await` and used after it, runtime restarts | a live placement names a shape the runtime holds; kernel scopes are ended when, and only when, unused |
| Engine compatibility client (`engine-compat.ts`) | scopes of engine shapes | beginScope, endScope, request | endScope during a request | no shape without an owner |
| Parametric model (`parametric-model.ts`, `parametric-graph.ts`) | queue of recomputes, published scope | recompute, dispose | partial failure while publishing | the published result is complete and alive |
| Artifact resolver, load attempts (`artifact-resolver.ts`, `artifact-load-attempt.ts`) | cache, attempt state | resolve, begin/update/complete/fail | poisoned cache, superseded attempts | only verified bytes are used |

The kernel is single threaded: a request runs to completion. All concurrency is
in the clients, between promise continuations, user code, and the messages of
workers; a state read before an `await` may be stale after it.

## The modules

| Module | Models | Kind |
|---|---|---|
| `HandleTable` | what the kernel promises about handles | abstract specification |
| `ShapeArena` | `shape_arena.cpp` | component, implements `HandleTable` |
| `ShapeArenaProofs` | invariants of the arena; the refinement | proofs |
| `BufferStore` | `buffer_store.cpp` | component, instantiated by `Kernel` |
| `Kernel` | `kernel_context.hpp`, `kernel.cpp`, `shape_transfer.cpp` | composes `HandleTable` and `BufferStore` |
| `KernelProofs` | checkpoints and atomicity of failures | proofs |
| `HandlerSteps` | what a handler can do to the kernel, one step each | vocabulary |
| `ModelingHandlers`, `AlgorithmHandlers`, `GeometryHandlers`, `MeshHandlers`, `ExchangeHandlers` | `kernel/operations/*.cpp` with the codecs they call | each operation as the set of its courses |
| `OperationTable` | all handlers in one table, and the order of steps the theorems ask of them | vocabulary |
| `Operations` | one request in execution | component, over `OperationTable` |
| `OperationsProofs` | references, cancellation, histories, codes, inputs, handles | proofs |
| `DocumentTree` | `validateDocumentTree` | pure algorithm |
| `PluginRegistry` | `operation_registry.cpp`, `full_entry.cpp` | pure algorithm |
| `InProcessTransport` | `in-process-transport.ts`, `protocol-codec.ts` | component |
| `InProcessTransportProofs` | nothing is left between requests | proofs |
| `WorkerClient` | `worker-client.ts`, `worker-entry.ts` | component |
| `WorkerClientProofs` | placement, workers, epochs, the queue and who serves it | proofs |
| `SharedLoader` | `shared-loader.ts` | component |
| `SharedClient` | `shared-client.ts` | extends `SharedLoader` |
| `SharedClientProofs` | the loader, alone and under its client; capability errors | proofs |
| `ProfileRuntime` | `isolated-runtime.ts` and what lies below it | the engine's view of `WorkerClient` and `Kernel` |
| `GeometryEngine` | `engine.ts` | extends `ProfileRuntime` |
| `GeometryEngineProofs` | leases, runtimes, the begin of releases, whose shapes a question names | proofs |
| `RuntimeSession` | `single-runtime-session.ts` | component |
| `EngineCompat` | `engine-compat.ts` | component |
| `LifecycleProofs` | the session's runtimes; the scopes of the compatibility client and of the model, its published results | proofs |
| `FeatureOrder` | `orderFeatures` of `parametric-graph.ts` | pure algorithm |
| `ParametricModel` | `parametric-model.ts` | extends `FeatureOrder` |
| `MC...` | constants for TLC | `MCOperations`, `MCLifecycles` and `MCSharedClient` hold several components; `operations_dangling` runs `Operations` itself |

Definitions whose comment begins with "Mutant of" are plausible bugs: each
replaces one definition, and breaks the property it was written for.

`MCOperations` and `MCLifecycles` put components that share no state into one
run: the variable `part` says which of them a behaviour is about, so that their
states add up instead of multiplying.

### Kernel

`ShapeArena` keeps the fields of the C++ class under their names (`slots`,
`free`, `scopes`, `nextScope`, `liveCount`, `creationSequence`) with slots
numbered from 1 as in the handle. A handle is packed and unpacked with the
arithmetic of the code, parameterised by `IndexMask` and `GenerationMask`;
`Handle` is every value a caller may present. `add` is two actions, one that
takes a slot from the free list and one that appends; the paths that undo a
failed allocation have no step. `unordered_set` and `unordered_map` promise no
order of iteration, so `endScope` and `clear` push released slots to the free
list in any order (`Enumerations`), `rollback` in ascending order. `issued` is
history: the handle of every `add`. Calls that throw change nothing and are no
step.

`HandleTable` forgets slots and generations: a token is issued once, lives in a
scope, and is live until released. A checkpoint is the number of tokens issued,
which is `creationSequence` in the arena.

`Kernel` puts dispatches on a `stack`. `Dispatch` takes the checkpoints,
`Return` drops the frame, `Throw` puts an exception in flight, `Unwind` is the
catch block of `Kernel::dispatch`: it rolls back both tables, and hands the
failure to a batch below, which returns (`Caught`). `thrown = "failure"` stands
for every exception `dispatch` turns into a `KernelFailure`; `bad_alloc` passes
the batch. An operation handler is any sequence of `AddShape`, `AddBuffer`,
`AddBufferFails`, nested `Dispatch`, then `Return` or `Throw`; the runtime
operations (`BeginScope`, `EndScope`, `Release`, `ReleaseAll`, `CreateBuffer`,
`FreeBuffer`) check first, change one thing, and return, so each is a step,
alone or inside a batch. `shapesBefore` and `buffersBefore` of a frame are
history.

### Operations

The same handlers seen closer. A handler `h_xxx` is the set of its courses, each
a sequence of the steps of `HandlerSteps`: a check of arguments, a shape got
from the arena (bound to a reference or copied; its handle read by `requiredU32`
or by `get<std::uint32_t>()`), a call into OCCT, a poll of the cancellation, a
shape or buffer stored, the history, another operation dispatched. `**` puts
courses one after the other, `\cup` is a choice, `Opt`, `Loop` and `Loop1` are
an `if` and loops. Loops are unrolled at most twice: what the properties tell
apart is whether a step comes before or after another, in the same round or the
next.

`Operations` executes them. `held` are the shapes a handler got, each `stale`
once a shape was stored while the arena's vector was full (`spare = 0`) and it
was held by reference. `cancelled` is the host's flag, which may be set at any
step; `broken` says that OCCT broke off a call because of it. `altered` says
that the geometry or mesh of an input was changed in place. `answer` has the
code the client is given and, as history, its cause.

`DocumentTree` and `PluginRegistry` are functions compared with a definition of
what they mean: which documents are forests, and that a registration is all or
nothing. `SharedLoader` relies on the second for each module of a Side.

### Clients

JavaScript runs in turns, and this decides what can interleave. In all client
modules an action is the code from one `await`, callback or event to the next. A
continuation whose promise has settled runs before the next event of the
environment (`TurnOver` in `WorkerClient`, `MicrotasksDone` in `SharedClient`,
`Quiet` in `GeometryEngine`), in the order in which the promises settled. User
code may run in the same turn: in `WorkerClient` calls are sent, aborted and
closed at any point. The history variable `interrupted` records that an abort
came between a `send` and its continuation; two properties hold only until then
(`EpochRespectedByTurns`, `EveryCallSettles`).

`WorkerClient` names worker, `#ready` promise and epoch of one `#startWorker` by
one `generation`. `Continue` is the rest of `send` after its `await`. `Restart`,
`FailedCalls`, `FailInitialization` and `DispatchNext` are the private methods
of those names. `Deliver` is `onMessage` and `onError` of one worker, former
workers included: their messages in transit are dropped by the test `worker !==
this.#worker`. The worker answers, traps, or does neither for ever.

`SharedLoader` numbers the loads (`attempts`); a load starts when those before
it have ended, which is what `#sideLoadTail` does. A Side has `Modules` semantic
modules, registered one by one until one fails. `resident` and `registered` are
in the WebAssembly instance: a library stays resident after its registration
failed, and loading it again runs no constructor. `SharedClient` adds requests
with the Sides they need.

`InProcessTransport` has no `await`: requests interleave only because
`onProgress` is user code, which may make another request, abort, or throw.
`frames` is the call stack; `installed` and `deadline` are the fields all
requests share.

`GeometryEngine` models every method as a record in `calls` whose `at` says
which await it is suspended in, with the locals that survive the await
(`source`, `epoch`, `held`, `scope`, `shape`; `todo`, the placements of `shape` it has
still to release, in the order in which they were made; and `rest`, the shapes
`releaseAll` has not come to). `Kept` says that a placement is in the map of a shape
the engine knows; what fell out of it keeps its record, and its history. `runtimes` holds each runtime a factory was asked for:
the questions that wait, and a kernel reduced to its scopes and shapes. `Seen`
is the side effect of `#profileState`, which notices a rebuilt kernel only when
it is called; `Rebuild` is the runtime losing its kernel without telling anyone.
`origin` of a placement is history: the runtime and kernel it was made in.

`RuntimeSession`: `switching` is the await at which `#performSwitch` waits.
Callers are rejected at once by a switch or `close`, while the runtime may serve
their requests for ever; the switch waits for those.

`EngineCompat`: a task has `todo`, the shapes it has yet to release. `known` is
what the engine knows, `home` (history) the scope a shape was made in,
`overlapped` (history) that a scope was ended, or everything released, during a
request in it.

`ParametricModel`: `jobs` is `#tail`, `build` the running recomputation with the
await it is at. `instance` is the kernel below, which may be rebuilt at any
await; a scope handle carries its epoch, so that ending one of a former kernel
throws. `FeatureOrder` is the depth-first walk of the code.

## What the runs check

| Run | Instance | States | Shows |
|---|---|---|---|
| `shape_arena` | 2 slots, 2 generations, 3 scope ids, 4 creations | 3,984 | type, free list, scopes, counts and history agree; `HandleTable` is implemented |
| `kernel` | 3 handles, 1 scope, 2 buffers of 2 lengths, depth 3 | 802,724 | nested failures roll back what they must; the byte count is exact |
| `operations` | every operation but one; 2 in-process requests with 2 buffers | 326,964 | no dangling reference is read; cancellation, histories, codes, inputs and handles are as the protocol says; requests leave nothing |
| `worker_client` | 3 timed calls, 2 workers, aborts at any point | 134,124 | calls are placed once, the queue moves, no orphan worker, calls and `close` settle, a call runs on the kernel of its handles |
| `shared_client` | 2 good Sides of 2 modules, 1 mismatched, 2 Mains, 4 loads; 3 requests | 310,526 | loaded is registered; no stale load, no early call, no false refusal; every request settles |
| `engine` | 4 calls, 2 profiles, 1 loss, `close` at any turn | 860,944 | placements, leases, handles, runtimes and scopes are right |
| `lifecycles` | 2 engine calls of any kind with `close`; 3 switches and 3 requests; 4 compatibility calls; 3 recomputations or disposals | 195,395 | everything settles; one runtime at most; shapes have owners; published results are whole |
| `worker_client_epoch`, `shared_client_apart`, `engine_inputs`, `engine_released`, `operations_dangling` | small | | disagreements, below |

`MCLifecycles`, `MCOperations`, `MCSharedClient` and `MCKernel` also evaluate
`ASSUME`s: `orderFeatures` against its meaning for all definitions of up to three
features; `validateDocumentTree` for all documents of up to two nodes and those of
three whose kinds and indices are right; the registration of a module for all small
registries and descriptors; and the hypotheses of theorems, that the handlers have
their steps in the order asked for (two in `MCOperations`, four in `MCKernel`, which
has nothing to do with them but is quick to start) and that the requests of
`shared_client` need the Sides in one order.

Why the bounds are enough:

- Arena: two slots and two generations are the least with reuse, exhaustion, a
  full table and a choice of slot; four creations exhaust both slots. The proofs
  cover every other size.
- Kernel: three dispatches are a batch, an operation in it, and one that the
  operation makes; three handles are one from before, one of the finished
  prefix, one of the failing operation. One scope suffices, as everything inside
  a batch uses the batch's own. Two lengths, 1 and 3, tell sums apart.
  `MaxShapes`, `MaxBuffers` and `MaxDepth` bound counters that only grow;
  `MaxBuffers < IdWrap - 1` stops before ids wrap.
- Operations: requests do not influence one another but for the capacity of the
  vector, so one at a time is enough. `MaxSpare = 1` lets a store find room or
  not; `HandleRange = 8` stands for 2^32. Two rounds of a loop let a step of the
  second come after any step of the first.
- In-process requests: two, so that one can run inside the other's callback or
  after it; two buffers, so that the first can fail to be freed before the
  second.
- `WorkerClient`: one active, one queued and one suspended call; of these one is
  cancelled by flag, one by rebuilding, one cannot be cloned. `MaxWorkers = 2`
  gives a first worker, a replacement, and a generation whose factory throws.
- `SharedLoader`, `SharedClient`: two Sides that can overlap and one that always
  fails; the loads suffice for a failure and a retry of each good Side. `epoch <
  2 * MaxMains` bounds `dispose`. Two modules are the least that can fail half
  way.
- `GeometryEngine`: two makers of placements, a user of them and a release, with
  one loss at any point; `Kinds` fixes what each call may be, `MaxInputs =
  MaxOutputs = 1` the size of an operation. Two inputs are met by
  `engine_inputs`, two releases by `engine_released`.
- `lifecycles`: three factories are a first runtime, a switch, and a switch
  during or after a failure; one scope, with two shapes, is one that two
  requests fill and an end or `releaseAll` empties; three jobs are a publication,
  one that replaces it, and a disposal, with a rebuild before any of them. Five
  definitions: empty, in the wrong order, with a suppressed feature that is needed, with
  a cycle, with independent features.

Deadlock is checked for the arena, the kernel, the operations and the in-process
transport: they can always be called, and a request under way always goes on
(`NoMoreRequests` lets users of the transport stop between requests). The other
clients may stop (`CHECK_DEADLOCK FALSE`): each call is made once, and
a closed client has nothing left to do.

### Fairness

Only what the code's environment guarantees. Continuations of settled promises
run (`Continue`, `Resume`, `Switching`), timers fire (`Timeout`), messages that
were posted arrive (`Deliver`), a worker's initialization ends one way or the
other (`Initialize`), a request for a library ends (`StartLoad`, then
`LibraryLoads` or `LibraryFails`), a factory settles (`Starts`). Nothing says
that a kernel call ends: in `WorkerClient` calls settle by their timeouts, and
in `RuntimeSession` runtimes may never answer, so that `CloseEndsSession`
rests on `close` alone. In `GeometryEngine` runtimes are assumed to answer or
fail (`Runtime`), which `WorkerClient` provides for calls with timeouts. User
actions, traps and losses are never fair.

## Disagreements

Registered as findings, each with a run that reproduces it:

1. `worker_client_epoch`: a call suspended at `await #ready` is posted to a
   rebuilt worker with the handles of the former one, if the active call is
   aborted in the same turn (`worker-client.ts:86`).
2. `shared_client_apart`: loading Sides count as loaded in the capability check;
   two requests for different Sides at once make the client unusable
   (`shared-loader.ts:94`).
3. `engine_inputs`: a request that clones one input keeps the handle of another
   across the loss of its kernel (`engine.ts:359`).
4. `engine_released`: `#releasePlacement` counts a scope down without looking
   whether its placement was still there; two releases of one shape and a lost kernel
   end a scope of the new kernel while a shape lives in it (`engine.ts:772`).
5. `operations_dangling`: `batchTransformCopy` keeps a reference into the
   arena's vector and reads it again after it stored the first copy
   (`modeling_transform.cpp:117`).

More can be reproduced with configurations kept here, by `tlc -config <cfg>
<module>`:

- `MCKernelBatch.cfg` (`MCKernel`, `BatchKeepsFinishedShapes`): an exception the
  batch loop does not catch, such as a `"$ref"` of the wrong type, rolls back
  finished operations; `docs/protocol.md:117` says that shapes created before a
  failure remain.
- `MCWorkerClientHang.cfg` (`MCWorkerClient`, `EveryCallSettlesAnyway`): a call
  that resumes after its worker was replaced is queued; if the replacement cannot
  start, the call stays there without a timer (`worker-client.ts:293`).
- `MCGeometryEngineForgotten.cfg` (`MCGeometryEngine`, `NothingForgotten`):
  `releaseShape` checks leases once; a transfer that begins while it awaits adds
  a placement to a shape that is then forgotten (`engine.ts:520`), although
  `docs/architecture.md:164` says that it releases every placement of the shape.
- `MCGeometryEngineReleased.cfg` (`MCGeometryEngine`) with `ScopesEnded` in place of
  `LiveIsHeld`: counts of scopes survive a rebuild, and are then taken for those of
  the new kernel's scopes of the same number, which stay open when nothing is left in
  them (`engine.ts:761`).
- `MCSharedClientHalfway.cfg` (`MCSharedClient`, `NoFalseCapabilityError`): a Side
  of two modules whose second fails is rejected, but the operations of the first
  stay registered (`shared-loader.ts:192`, whose header at line 8 speaks of
  atomic registration); the next capability check finds them undeclared and the
  client refuses every request.
- `MCLifecyclesOrphan.cfg` (`MCLifecycles`, `ShapesHaveScopes`): a scope of the
  compatibility client that ends during a request leaves the shape of the result
  without an owner, and the request throws a `TypeError`
  (`engine-compat.ts:138`); `docs/protocol.md:80` says that a scope owns every
  shape created with its id and releases all that remain.
- `MCLifecyclesWedged.cfg` (`MCLifecycles`, `WithheldForLiveResults`): once the
  kernel was rebuilt, the published scope can never be ended, so that each
  recomputation succeeds, fails to publish, and is thrown away
  (`parametric-model.ts:235`); `docs/getting-started.md:195` advises to make new
  scopes and shapes after a rebuild, which the model cannot do.
- `MCOperationsLeft.cfg` (`MCOperations`, `NothingLeft`): if a buffer cannot be
  freed, as after a `releaseAll` made in the progress callback, the `finally`
  clause of the transport stops there: later buffers stay, and so does the
  deadline, which later requests of the kernel poll
  (`in-process-transport.ts:90`).

Four properties of `operations` name the operations they are not true of:

- `CancelledIsCancelled`: `exportIGESDocument` tests the result of a transfer
  before it polls (`TestsFirst`); `docs/protocol.md:17` says that cancellation is
  never reported as an exchange failure. Whether it is depends on what OCCT
  returns from a call that it broke off.
- `OneFailureCode`: the operations of `TwoCodes` give one code when OCCT reports
  a failure and another when it throws.
- `InputsUnchanged`: the operations of `Meshing` drop the mesh of their input and
  make another, in place; the shapes in the arena share it.
- `NamedIsRead`: the operations of `Unchecked` read list entries by
  `get<std::uint32_t>()`, which keeps the low 32 bits of any number, so that an
  out-of-range entry names another shape; `docs/protocol.md:76` says that a
  handle is a `u32`.

## What is proved

For every value of the constants that satisfies the assumptions of the module;
`tlapm` checks every step.

**The arena** (`ShapeArenaProofs`). `ArenaInv` is the conjunction of `TypeOK`,
`FreeListExact`, `ScopesOwnLiveHandles`, `LiveCountExact` and
`HistoryConsistent`. No part is inductive alone. That `add` overwrites no live
slot needs the free list to be exact; that `release` keeps it exact needs that
the slot was live and not retired; that `endScope` walks over live handles only,
so that it cannot throw half way, needs that scopes own exactly the live
handles; that an issued handle stays stale needs that generations only grow and
stop at `GenerationMask`, which is where retirement matters. `ReleaseSlots` is
proved once for any set of slots and any order; release, endScope, clear and
rollback are instances of it.

**The refinement** (also `ShapeArenaProofs`). `ArenaImplementsHandleTable`: with
the handles `get` accepts as the live tokens, every step of the arena is a step
of `HandleTable`. The hard cases are reuse, where `HistoryConsistent` shows that
the new handle was never issued before, and rollback, where creation sequences
are shown to select the tokens issued since.

**The kernel** (`KernelProofs`). `KernelInv` says of each frame that its
checkpoint lies in the past, that what it found was issued before the checkpoint
and what it did not find after; and that inner frames have later checkpoints and
batches are never inside operations. The last is what makes an operation unable
to take away what it found: shapes are released only by runtime operations,
which are called outside operations. `CheckpointsCorrect` and `FailuresAtomic`
follow from it. `Kernel` uses `HandleTable`, whose use in place of the arena the
refinement justifies. `BytesAreExact` is about the byte count of the store. A sum over
buffers would be a recursive definition, whose laws need induction; so the bytes of the
buffers are a set of pairs, and the count is its cardinality (`CountInv`): creating a
buffer adds a block of pairs that was not there, and a release, a clear or a rollback
takes the blocks of whole buffers away.

**Operations** (`OperationsProofs`). Six theorems, for every set of requests, every
capacity and range of handles. Each has a hypothesis about the table of handlers, an
order in which they take their steps, and holds for any other handlers that keep it:

| Theorem | Hypothesis | Explained by |
|---|---|---|
| `ReadsAreFresh` | a shape got by reference is not read after a store (`ServedReadFirst`) | `ReadInv`: two steps already taken explain each stale reference |
| `CancellationsAnswered` | a poll comes between a call that may break off and the test of its result (`ServedPollFirst`) | `PollInv`: a broken call has no poll after it yet |
| `HistoriesAsAsked` | an operation that supports histories records one, or hands over (`HandlersRecord`) | `RecordInv` |
| `OneCodePerOperation` | failures throw the code of the operation (`HandlersThrowOneCode`) | `CodeInv`: the handler at work has the code of the one that was asked for |
| `InputsStayUnchanged` | nothing is edited but what was duplicated since it was got (`HandlersDuplicateFirst`) | `EditInv` |
| `NamedShapesAreRead` | handles are read by `requiredU32` (`HandlersReadWhole`) | `WholeInv` |

The first two hypotheses are about the operations that are requested (one operation
breaks the order, finding 5), the others about the whole table but the operations
named above. The table holds no constant, so TLC evaluates them for all courses there
are: they are facts about the handlers, which the provers would have to find by
unfolding every one.

**The worker client** (`WorkerClientProofs`). `ClientInv` adds to `CallsPlaced`
and `NoOrphans` that messages are typed (`MailTyped`), that an active call has a
worker that is ready (`Attended`), and, until an abort interrupts a turn, that
calls which are queued or active were made in the current epoch, while suspended
ones were made in this or wait for a promise that will not be fulfilled
(`Epochs`). Most of the work is about
sequences: a call is in the queue once, and removing it leaves the others.

`ServedInv` is about the worker that is in use: the calls it holds and those named
in its mail are the active one, once, and nothing else. `QueueNeverStalls` and
`ActiveStaysServed` follow, for every order of answers, traps and timeouts.
`PromiseInv` is about former workers: a generation before the current one has its
promise settled. Hence `NobodyIsForsaken`, the safety half of `CloseSettles`: no
`send` waits for a worker that was terminated, and a closed client holds no call.

**The in-process transport** (`InProcessTransportProofs`). `TransportInv`: every
buffer in the kernel is one that some request under way will free (`AllOwed`),
requests below the innermost are in their callback (`OthersWait`), and nothing is
installed when none runs. `NothingLeftBehind` follows.

**The shared loader** (`SharedClientProofs`). `LoaderInv`: a Main belongs to one
epoch and is never used again (`MainsInOrder`); a Side is reserved by the one load
for the current Main that was not rejected (`SidesReserved`); loads run one after
the other (`InTurn`), so that nothing is registered between the two counts a load
compares (`Counted`); and a Side that registered anything is resident, so that a
second load of it registers nothing, and is counted as failed (`WhollyRegistered`).
The last two carry `LoadsAreExact`: a load that resolves has registered all modules
of its Side and one that failed half-way never all of them, by an argument about
cardinalities (`CountTells`). `LoadsAreFresh` is an action property: `dispose` and
`instantiate` may come between any two steps of a load.

**The shared client** (same module). `ClientInv` adds how far each suspended request
has come, and that what it has come past stays registered. `CallsFindTheirSides` and
`ClientsLoadsAreExact` follow. `NoFalseAlarm` says when finding 2 cannot happen: if
the Sides of all requests are the first of one sequence (`OneOrder`), no overlap,
failure or retry makes an open client see a capability mismatch. `OrderInv` says that
a Side is asked for only when those before it are loaded, and that a request which
will compare the capabilities is foremost (`Foremost`): no Side was asked for beyond
its own, and it resumes before the others that wait for the same load. So nothing is
loading when it compares.

**The engine** (`GeometryEngineProofs`). For any number of calls of every kind, of
profiles, inputs and outputs, losses of kernels, and `close` at any turn. A call's
continuation may look at a profile, notice a rebuilt kernel, invalidate placements,
start a runtime, ask one a question, move leases and make placements, all in one
turn and in many combinations. So the proof states once what a turn may do (`Turn`:
`RunTurn` for profiles and runtimes, `PlaceTurn` for placements and leases), shows
that a turn keeps the invariant, and then shows of each way each continuation can go
that it is a turn. `EngineInv` has, besides types:

- `CallsTyped` ties what a call holds to the await it is at (`CallOK`): a transfer has
  a source, a request its inputs, a release the placements it drops, and none of them
  two of these; without it a call that fails could not be shown to give back what it
  holds and no more.
- `AskedOnce`: who is in a queue is a call that awaits that answer, once, so that an
  answer resumes the call that asked and no other.
- `OwnRuntimes`, `AllWanted`, `OpenRuntimes`: a profile uses a runtime of its own; one
  that starts is what its profile waits for, or came too late and will be closed
  when it is up; one that is up is used, or is being closed. Here the epoch test after a
  start matters.
- `EpochsCurrent`: a placement in use that was not invalidated is of its profile's
  epoch, so that what invalidates an epoch reaches all its leases.
- `LeasesExact` itself: `leaseCount` is the number of leases calls hold, an input
  given twice counting twice (`Times`).

`EngineInvariant` is this invariant, `LeasesAreExact` and `NoRuntimeOrphaned` what it
says for a reader. `ReleasesBeginUnleased` is an action property: whichever of the
three releases begins, nothing it is about to drop is leased. For it each step is
shown either to keep the shape a call is releasing or to begin with placements whose
leases were looked at (`Lets`).

`OriginInv` is about handles, which say nothing of the kernel that made them and are
issued again after a loss. `OriginsTold`: a placement of its profile's epoch was made by
the kernel that the profile's runtime had when the engine looked at it last, which holds
because whoever records a shape looks at the profile in the same turn (`#profileState`),
and because a call that awaits a shape asks the runtime its target has (`Suits`).
`OwnNamed`: what is looked at and asked in one turn names shapes of the present kernel,
as a kernel that is lost takes its queue with it. `OriginsFollow` is this invariant,
`OwnShapesNamed` what it says of every question but an operation on several shapes; and
`ShapesAreOwn` is `NamesOwnShapes` for operations on at most one, which is where finding 3
ends.

`HandleInv` says when a handle tells shapes apart. `HandlesApart`: placements of the same
kernel have different handles. For that, a placement's handle is one its kernel has
issued (`MadeThere`), and what a call is told of is new, each handle different, and told
to that call alone until it has recorded the shapes (`Given`): only one call resumes at a
time, before any runtime answers again (`Quiet`). `HandlesAsked` ties the handles in a
queue to the placements the call named when it asked. `HandlesAreApart` is this invariant;
with `OwnNamed` it gives `OthersUnnamed`: the kernel is asked about no placement but those
the call names, so a release of one placement does not let another's shape go.

**The session** (`LifecycleProofs`). `RunningAt` says for each await of a
switch which runtime may be running: the current one, the one being started, or
none. `AtMostOneRuntime` follows.

**The compatibility client** (same module). `CompatInv`: as long as no
end of a scope overlapped a request, shapes have owners and `releaseAll` has in
its list all it has not come to (`AllAreTodo`); a `releaseAll` that failed keeps
what it could not release. `ScopesKeepShapes` follows.

**The parametric model** (same module). `ScopeInv` adds to `ScopesAccounted` that the
scopes in the kernel were begun in it (`InKernel`), that `dispose` is the last job
(`JobsInOrder`), and that the scope of the running recomputation is alive, unless its
kernel was lost, and another than the published one (`OneIsNew`). `ScopesAreAccounted`
follows, for all definitions, jobs and rebuilds. `WholeInv` says what was built at each
turn of the loop over the features; `PublishedResultsAreWhole` follows, under the
hypothesis `OrderIsSound`: `orderFeatures` returns the features it was given, each after
those it needs, or an error. That is about a recursion over data, so TLC evaluates it:
for the definitions of the run, and for all of up to three features.

### Only model-checked

- `LiveIsHeld` and `ScopesEndedAtFirst` of the engine. Both are about what the kernels
  hold, and so about the order of the questions in each queue and the exact counts of
  scopes. The first is false when two calls release one shape (finding 4), and the second
  speaks of profiles that lost no kernel because counts survive a loss.
- What the pure algorithms compute (`FeatureOrder`, `DocumentTree`,
  `PluginRegistry`): compared with its meaning on bounded inputs, for want of
  induction.
- Liveness and fairness, which are beyond the prover altogether.

## What is not modelled

OCCT itself: a call into it succeeds, fails, throws, or breaks off. Readers and
writers of glTF, OBJ and PLY, meshes, sketches and geometry helpers: numeric code
on bytes without state. The text of requests and responses, and hence a response
that cannot be serialized (`protocol_dispatch.cpp:19`). Which instances of an
IGES document are paired with which nodes of its metadata
(`exchange_document_import.cpp:248`), as names and labels are abstracted.

Of the engine, `setProfileAssertion`, the export and import of envelopes, and
profiles registered after the first call. In `GeometryEngine` and `WorkerClient`
the environment moves only between turns, so that user code running between an
answer and its continuation (`engine.ts:395`, `client-contract.ts:85`) is left
out; what a session, the compatibility client and the model rely on from the
engine is their own abstraction of it, not the composition.

The artifact resolver and load attempts: a cache lookup with a digest check, and
a record in storage whose use by several loads the code leaves to the host. The
parametric evaluators, argument builders, generated tables and build scripts are
functions without state, or offline tools. `PROJECT.json` lists each part with
its status.

## Plan

Done: the modules and the theorems above. Left, in this order:

1. Proofs: `LiveIsHeld`, as long as no placement is being released by two calls at
   once. `OriginInv` and `HandleInv` have what it needs of origins and handles; the
   invariant would have to add the exact count of each scope and what the questions
   in a queue still find.
2. `GeometryEngine`: envelopes and user code inside a turn.
3. `ArtifactLoading`: the cache of verified artifacts and load attempts across
   reloads.
4. Composition: the session and the compatibility client over `GeometryEngine`
   instead of their abstractions of it.
