---------------------------- MODULE WorkerClient ----------------------------
(***************************************************************************)
(* The client of a kernel in a Web Worker (ts/src/worker-client.ts) and    *)
(* the worker's message loop (ts/src/worker-entry.ts).                     *)
(*                                                                         *)
(* JavaScript runs one turn at a time.  send() suspends at `await #ready`; *)
(* its continuation is a microtask, which runs before the next message or  *)
(* timer, but after other code of the same turn: user code may abort a     *)
(* call or close the client in between.  Messages of workers and timers    *)
(* are turns of their own.                                                 *)
(*                                                                         *)
(* Every #startWorker makes a new worker, a new #ready promise and, but    *)
(* for the first, a new epoch: one generation number names all three.      *)
(***************************************************************************)
EXTENDS Integers, Sequences, FiniteSets, SequencesExt

CONSTANTS
  Call,             \* the calls a user makes, each sent at most once
  NoCall,           \* no call
  Timed,            \* calls with timeoutMs
  Abortable,        \* calls with a signal
  Cooperative,      \* calls whose kernel operation polls the cancel flag
  Uncloneable,      \* calls whose arguments postMessage cannot clone
  MaxWorkers        \* bound: the factory makes no more workers than this

ASSUME ClientAssumption ==
  /\ NoCall \notin Call
  /\ Timed \subseteq Call /\ Abortable \subseteq Call
  /\ Cooperative \subseteq Abortable /\ Uncloneable \subseteq Call
  /\ MaxWorkers \in Nat \ {0}

VARIABLES
  generation,   \* how often #startWorker has run
  worker,       \* #worker: a generation, or 0 for undefined
  ready,        \* the #ready promise of each generation
  isReady,      \* #isReady
  closed,       \* #closed
  active,       \* #active
  queue,        \* #queue
  awaiting,     \* calls suspended at `await #ready`, in the order sent
  status,       \* what the caller's promise shows
  sentAt,       \* the generation whose handles a call's arguments encode
  aborted,      \* calls whose signal is aborted
  cancelled,    \* calls with an abortReason: their cancel flag is set
  workers,      \* state of each worker
  held,         \* calls each worker has received and not answered
  mail,         \* messages and error events of each worker, in transit
  interrupted   \* history: an abort came between a send and its continuation

clientVars == <<generation, worker, ready, isReady, closed, active, queue,
                awaiting, status, sentAt, aborted, cancelled>>
workerVars == <<workers, held, mail>>
vars == <<generation, worker, ready, isReady, closed, active, queue, awaiting,
          status, sentAt, aborted, cancelled, workers, held, mail, interrupted>>

\* The generation after the last worker is the one whose factory failed.
Gen == 1 .. MaxWorkers + 1

Message == [type : {"ready", "init-error", "error", "fatal", "ok", "failed"},
            call : Call \cup {NoCall}]
Posts(type, c) == [type |-> type, call |-> c]

Settled(c) == status[c] \in {"resolved", "rejected"}

\* Continuations that are due: their promise has settled.
Due(c) == ready[sentAt[c]] # "pending"
TurnOver == \A c \in Range(awaiting) : ~Due(c)

-----------------------------------------------------------------------------
(* Shared steps of the client.                                             *)

\* The constructor's #startWorker: the factory returns a worker or throws.
Init ==
  /\ generation = 1
  /\ \/ /\ worker = 1
        /\ ready = [g \in Gen |-> "pending"]
        /\ workers = [g \in Gen |-> IF g = 1 THEN "starting" ELSE "none"]
     \/ /\ worker = 0
        /\ ready = [g \in Gen |-> IF g = 1 THEN "rejected" ELSE "pending"]
        /\ workers = [g \in Gen |-> "none"]
  /\ isReady = FALSE
  /\ closed = FALSE
  /\ active = NoCall
  /\ queue = <<>>
  /\ awaiting = <<>>
  /\ status = [c \in Call |-> "unsent"]
  /\ sentAt = [c \in Call |-> 1]
  /\ aborted = {}
  /\ cancelled = {}
  /\ held = [g \in Gen |-> {}]
  /\ mail = [g \in Gen |-> <<>>]
  /\ interrupted = FALSE

Rejected(C, base) == [c \in Call |-> IF c \in C THEN "rejected" ELSE base[c]]

\* postMessage throws on the first n calls of q, and not on the next, if there is one.
Unposted(q, n) ==
  /\ \A m \in 1 .. n : q[m] \in Uncloneable
  /\ n < Len(q) => q[n + 1] \notin Uncloneable

\* #dispatchNext with the queue q and the statuses base: the calls that cannot
\* be posted are rejected, the next one is active and goes to the worker.
DispatchNext(q, base) ==
  \E n \in 0 .. Len(q) :
    /\ Unposted(q, n)
    /\ status' = Rejected({q[m] : m \in 1 .. n}, base)
    /\ queue' = SubSeq(q, n + 2, Len(q))
    /\ active' = IF n < Len(q) THEN q[n + 1] ELSE NoCall
    /\ held' = IF n < Len(q) THEN [held EXCEPT ![worker] = @ \cup {q[n + 1]}]
               ELSE held

\* Mutant of FailedCalls: #failCalls leaves the active call.
FailedCallsQueueOnly == Rejected(Range(queue), status)

\* #failCalls.
FailedCalls == Rejected(Range(queue) \cup ({active} \ {NoCall}), status)

Terminated(ws) == IF worker = 0 THEN ws ELSE [ws EXCEPT ![worker] = "terminated"]

\* Mutant of Restart: calls still queued go to the replacement.
RestartKeepingQueue ==
  /\ status' = Rejected({active} \ {NoCall}, status)
  /\ active' = NoCall
  /\ queue' = queue
  /\ generation' = generation + 1
  /\ isReady' = FALSE
  /\ \/ /\ generation < MaxWorkers
        /\ worker' = generation + 1
        /\ workers' = [Terminated(workers) EXCEPT ![generation + 1] = "starting"]
        /\ ready' = ready
     \/ /\ worker' = 0
        /\ workers' = Terminated(workers)
        /\ ready' = [ready EXCEPT ![generation + 1] = "rejected"]
  /\ UNCHANGED <<closed, awaiting, sentAt, held>>

\* #restart: terminate, fail the calls, begin an epoch, start a replacement.
\* The factory, or the first postMessage to the new worker, may throw.
Restart ==
  /\ status' = FailedCalls
  /\ active' = NoCall
  /\ queue' = <<>>
  /\ generation' = generation + 1
  /\ isReady' = FALSE
  /\ \/ /\ generation < MaxWorkers
        /\ worker' = generation + 1
        /\ workers' = [Terminated(workers) EXCEPT ![generation + 1] = "starting"]
        /\ ready' = ready
     \/ /\ worker' = 0
        /\ workers' = Terminated(workers)
        /\ ready' = [ready EXCEPT ![generation + 1] = "rejected"]
  /\ UNCHANGED <<closed, awaiting, sentAt, held>>

\* Mutant of FailInitialization: the promise is left pending.
FailInitializationSilently ==
  /\ worker' = 0
  /\ workers' = Terminated(workers)
  /\ UNCHANGED <<generation, ready, isReady, closed, active, queue, awaiting,
                 status, sentAt, held>>

\* #failInitialization of the current worker, before it was ready.
FailInitialization ==
  /\ worker' = 0
  /\ workers' = Terminated(workers)
  /\ ready' = [ready EXCEPT ![worker] = "rejected"]
  /\ UNCHANGED <<generation, isReady, closed, active, queue, awaiting, status,
                 sentAt, held>>

-----------------------------------------------------------------------------
(* What user code does.                                                    *)

\* requestUnsafe encodes the handles, send suspends.
Send(c) ==
  /\ status[c] = "unsent"
  /\ status' = [status EXCEPT ![c] = "awaiting"]
  /\ sentAt' = [sentAt EXCEPT ![c] = generation]
  /\ awaiting' = Append(awaiting, c)
  /\ UNCHANGED <<generation, worker, ready, isReady, closed, active, queue,
                 aborted, cancelled, workerVars>>

\* send resumes: the first continuation that is due.
Continue ==
  \E n \in DOMAIN awaiting :
    LET c == awaiting[n]
        fails == ready[sentAt[c]] = "rejected" \/ closed \/ c \in aborted
        free == isReady /\ active = NoCall /\ worker # 0
    IN /\ Due(c)
       /\ \A m \in 1 .. n - 1 : ~Due(awaiting[m])
       /\ awaiting' = RemoveAt(awaiting, n)
       /\ \/ /\ fails
             /\ status' = Rejected({c}, status)
             /\ UNCHANGED <<queue, active, held>>
          \/ /\ ~fails /\ free
             /\ DispatchNext(Append(queue, c), [status EXCEPT ![c] = "queued"])
          \/ /\ ~fails /\ ~free
             /\ queue' = Append(queue, c)
             /\ status' = [status EXCEPT ![c] = "queued"]
             /\ UNCHANGED <<active, held>>
       /\ UNCHANGED <<generation, worker, ready, isReady, closed, sentAt,
                      aborted, cancelled, workers, mail>>

\* The signal of a call that has not settled: the active call is cancelled
\* by flag or by rebuilding the worker, a queued one is taken out, and a call
\* still suspended finds its signal aborted when it resumes.
Abort(c) ==
  /\ c \in Abortable \ aborted
  /\ status[c] \in {"awaiting", "queued"}
  /\ aborted' = aborted \cup {c}
  /\ mail' = mail
  /\ \/ /\ c = active /\ c \in Cooperative
        /\ cancelled' = cancelled \cup {c}
        /\ UNCHANGED <<generation, worker, ready, isReady, closed, active,
                       queue, awaiting, status, sentAt, workers, held>>
     \/ /\ c = active /\ c \notin Cooperative
        /\ cancelled' = cancelled
        /\ Restart
     \/ /\ c # active
        /\ \/ c \notin Range(queue) /\ UNCHANGED <<queue, status>>
           \/ /\ \E n \in DOMAIN queue : queue[n] = c /\ queue' = RemoveAt(queue, n)
              /\ status' = Rejected({c}, status)
        /\ UNCHANGED <<generation, worker, ready, isReady, closed, active,
                       awaiting, sentAt, cancelled, workers, held>>

\* Mutant of Close: the worker is not terminated.
CloseKeepingWorker ==
  /\ ~closed
  /\ closed' = TRUE
  /\ worker' = 0
  /\ ready' = IF ready[generation] = "pending"
              THEN [ready EXCEPT ![generation] = "rejected"] ELSE ready
  /\ status' = FailedCalls
  /\ active' = NoCall
  /\ queue' = <<>>
  /\ UNCHANGED <<generation, isReady, awaiting, sentAt, aborted, cancelled,
                 workers, held, mail>>

\* Mutant of Close: a send waiting for the worker is not told.
CloseLeavingReady ==
  /\ ~closed
  /\ closed' = TRUE
  /\ worker' = 0
  /\ workers' = Terminated(workers)
  /\ status' = FailedCalls
  /\ active' = NoCall
  /\ queue' = <<>>
  /\ UNCHANGED <<generation, ready, isReady, awaiting, sentAt, aborted,
                 cancelled, held, mail>>

Close ==
  /\ ~closed
  /\ closed' = TRUE
  /\ worker' = 0
  /\ workers' = Terminated(workers)
  /\ ready' = IF ready[generation] = "pending"
              THEN [ready EXCEPT ![generation] = "rejected"] ELSE ready
  /\ status' = FailedCalls
  /\ active' = NoCall
  /\ queue' = <<>>
  /\ UNCHANGED <<generation, isReady, awaiting, sentAt, aborted, cancelled,
                 held, mail>>

-----------------------------------------------------------------------------
(* Timers and messages.                                                    *)

\* The timer of the active call, which is set when the call is dispatched.
Timeout ==
  /\ TurnOver
  /\ active \in Timed
  /\ Restart
  /\ UNCHANGED <<aborted, cancelled, mail>>

OnReady(g) ==
  /\ isReady' = TRUE
  /\ ready' = [ready EXCEPT ![g] = "resolved"]
  /\ \/ active = NoCall /\ DispatchNext(queue, status)
     \/ active # NoCall /\ UNCHANGED <<active, queue, status, held>>
  /\ UNCHANGED <<generation, worker, closed, awaiting, sentAt, workers>>

\* Mutant of OnResponse: the next call is not dispatched.
OnResponseOnly(m) ==
  /\ m.call = active
  /\ status' = [status EXCEPT
       ![active] = IF m.type = "failed" \/ active \in cancelled
                   THEN "rejected" ELSE "resolved"]
  /\ active' = NoCall
  /\ UNCHANGED <<generation, worker, ready, isReady, closed, queue, awaiting,
                 sentAt, workers, held>>

\* A response to the active call; a call that was cancelled is rejected even
\* when its operation finished first.
OnResponse(m) ==
  /\ m.call = active
  /\ DispatchNext(queue, [status EXCEPT
       ![active] = IF m.type = "failed" \/ active \in cancelled
                   THEN "rejected" ELSE "resolved"])
  /\ UNCHANGED <<generation, worker, ready, isReady, closed, awaiting, sentAt,
                 workers>>

Ignored == UNCHANGED <<generation, worker, ready, isReady, closed, active,
                       queue, awaiting, status, sentAt, workers, held>>

\* Messages of a worker that is no longer the client's.
Stale(g) == g # worker \/ closed

\* The next message or error event of worker g.
Deliver(g) ==
  /\ TurnOver
  /\ mail[g] # <<>>
  /\ mail' = [mail EXCEPT ![g] = Tail(@)]
  /\ LET m == Head(mail[g])
     IN \/ Stale(g) /\ Ignored
        \/ ~Stale(g) /\ m.type = "ready" /\ OnReady(g)
        \/ ~Stale(g) /\ m.type \in {"init-error", "error"} /\ ~isReady
             /\ FailInitialization
        \/ ~Stale(g) /\ m.type = "init-error" /\ isReady /\ Ignored
        \/ ~Stale(g) /\ m.type = "error" /\ isReady /\ Restart
        \/ ~Stale(g) /\ m.type = "fatal" /\ Restart
        \/ ~Stale(g) /\ m.type \in {"ok", "failed"} /\ OnResponse(m)
        \/ ~Stale(g) /\ m.type \in {"ok", "failed"} /\ m.call # active /\ Ignored
  /\ UNCHANGED <<aborted, cancelled>>

-----------------------------------------------------------------------------
(* The worker.  Nothing says that a kernel call ends.                      *)

Mail(g, message) ==
  /\ mail' = [mail EXCEPT ![g] = Append(@, message)]
  /\ UNCHANGED clientVars

\* Initialization ends one way or the other.
Initialize(g) ==
  /\ workers[g] = "starting"
  /\ \/ /\ workers' = [workers EXCEPT ![g] = "serving"]
        /\ Mail(g, Posts("ready", NoCall))
     \/ /\ workers' = [workers EXCEPT ![g] = "broken"]
        /\ Mail(g, Posts("init-error", NoCall))
  /\ held' = held

Answer(g, c) ==
  /\ workers[g] = "serving"
  /\ c \in held[g]
  /\ held' = [held EXCEPT ![g] = @ \ {c}]
  /\ \E type \in {"ok", "failed"} : Mail(g, Posts(type, c))
  /\ workers' = workers

\* Mutant of Trap: the worker dies in a call without a message.
TrapSilently(g, c) ==
  /\ workers[g] = "serving"
  /\ c \in held[g]
  /\ held' = [held EXCEPT ![g] = @ \ {c}]
  /\ UNCHANGED <<clientVars, workers, mail>>

\* The WebAssembly instance traps in a call.
Trap(g, c) ==
  /\ workers[g] = "serving"
  /\ c \in held[g]
  /\ held' = [held EXCEPT ![g] = @ \ {c}]
  /\ Mail(g, Posts("fatal", c))
  /\ workers' = workers

\* The browser reports an uncaught error of the worker, at any time.
Uncaught(g) ==
  /\ workers[g] \in {"starting", "serving", "broken"}
  /\ \A n \in DOMAIN mail[g] : mail[g][n].type # "error"
  /\ Mail(g, Posts("error", NoCall))
  /\ UNCHANGED <<workers, held>>

Next ==
  \/ \E c \in Call : Abort(c) /\ interrupted' = (interrupted \/ ~TurnOver)
  \/ /\ \/ \E c \in Call : Send(c)
        \/ Continue
        \/ Close
        \/ Timeout
        \/ \E g \in Gen : Deliver(g) \/ Initialize(g) \/ Uncaught(g)
        \/ \E g \in Gen, c \in Call : Answer(g, c) \/ Trap(g, c)
     /\ UNCHANGED interrupted

\* Microtasks run, timers fire, messages arrive, and starting a worker ends.
Fairness ==
  /\ WF_vars(Continue /\ UNCHANGED interrupted)
  /\ WF_vars(Timeout /\ UNCHANGED interrupted)
  /\ \A g \in Gen :
       /\ WF_vars(Deliver(g) /\ UNCHANGED interrupted)
       /\ WF_vars(Initialize(g) /\ UNCHANGED interrupted)

Spec == Init /\ [][Next]_vars /\ Fairness

-----------------------------------------------------------------------------
(* Properties.                                                             *)

\* A call whose promise is open waits in exactly one place, and a settled one
\* in none: no call is dropped, answered after it was taken out, or run twice.
CallsPlaced ==
  /\ IsInjective(queue) /\ IsInjective(awaiting)
  /\ active \notin Range(queue)
  /\ \A c \in Call :
       /\ status[c] = "awaiting" <=> c \in Range(awaiting)
       /\ status[c] = "queued" <=> c = active \/ c \in Range(queue)

\* Whatever wakes the client, it never sits on a queue with a free worker.
WorkConserving ==
  worker # 0 /\ isReady /\ active = NoCall => queue = <<>>

\* The active call is with the worker or its answer, or news of a crash, is on
\* the way: the client never waits for an answer nobody will give, and the
\* worker never works on a call whose caller is gone.
ActiveIsServed ==
  worker # 0 =>
    LET answers == {c \in Call : \E n \in DOMAIN mail[worker] : mail[worker][n].call = c}
    IN /\ held[worker] \cup answers = {active} \ {NoCall}
       /\ held[worker] \cap answers = {}

\* Every worker the client started and no longer uses is terminated.
NoOrphans == \A g \in Gen : g # worker => workers[g] \in {"none", "terminated"}

\* A call runs on the kernel its handles belong to.
EpochRespected == active # NoCall => sentAt[active] = generation

\* Only an abort in the same turn lets a call slip into the next epoch: neither
\* timeouts, crashes nor the aborts of later turns do.
EpochRespectedByTurns == interrupted \/ EpochRespected

\* If every call has a timeout, every call that is sent settles, whatever the
\* kernel and the workers do, unless an abort slips into its turn.
EveryCallSettles ==
  \A c \in Call : status[c] = "awaiting" ~> Settled(c) \/ interrupted

\* The same without the exception, which MCWorkerClientHang.cfg refutes.
EveryCallSettlesAnyway == \A c \in Call : status[c] = "awaiting" ~> Settled(c)

\* close() settles every call, those still waiting for the worker included.
CloseSettles == closed ~> \A c \in Call : status[c] = "unsent" \/ Settled(c)
=============================================================================
