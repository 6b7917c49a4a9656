---------------------------- MODULE SharedClient ----------------------------
(***************************************************************************)
(* The client of a shared Main (ts/src/shared-client.ts): a request first  *)
(* ensures the Sides of its operation, and of those nested in a batch, one *)
(* after the other, then calls the kernel.  When a Side was not yet among  *)
(* loadedSides, the client compares the operations Main has registered     *)
(* with those its loaded Sides declare; a difference makes the client      *)
(* unusable.  Operations are modelled by their Sides.                      *)
(*                                                                         *)
(* Suspended requests resume in microtasks, in the order in which they     *)
(* began to wait, before the next library arrives.                         *)
(***************************************************************************)
EXTENDS SharedLoader, SequencesExt

CONSTANTS
  Request,        \* the requests users make, each once
  Needs           \* the Sides of a request, in the order they are ensured

ASSUME RequestAssumption == Needs \in [Request -> Seq(Side)]

VARIABLES
  requests,         \* state of each request
  waiting,          \* suspended requests, in order
  capabilityError,  \* #capabilityError is set
  closed            \* #closed

clientVars == <<requests, waiting, capabilityError, closed>>
vars == <<main, epoch, instantiating, mains, sides, attempts, resident,
          registered, requests, waiting, capabilityError, closed>>

\* step: the position in Needs; attempt: the load it waits for, 0 for none;
\* wasLoaded: what #ensureSides read before it began to wait.
RequestState ==
  [state : {"unsent", "waiting", "called", "failed"},
   step : Nat, attempt : 0 .. MaxAttempts, wasLoaded : BOOLEAN]

NothingAsked ==
  /\ requests = [r \in Request |->
       [state |-> "unsent", step |-> 0, attempt |-> 0, wasLoaded |-> FALSE]]
  /\ waiting = <<>>
  /\ capabilityError = FALSE
  /\ closed = FALSE

\* After create(): Main is there, no Side is.
ClientInit ==
  /\ main = 1 /\ mains = 1
  /\ epoch = 1
  /\ instantiating = -1
  /\ sides = [s \in {} |-> 0]
  /\ attempts = <<>>
  /\ resident = [k \in Main |-> {}]
  /\ registered = [k \in Main |-> {}]
  /\ NothingAsked

\* A request that waits for nothing or for a load that has ended resumes.
Resumable(r) == requests[r].attempt # 0 => Ended(requests[r].attempt)
MicrotasksDone ==
  /\ \A r \in Range(waiting) : ~Resumable(r)
  /\ \A n \in DOMAIN attempts : ~Startable(n)

\* Mutant of Declared: the operations of every configured Side.
DeclaredAll == Side

\* #declaredLoadedOperations: loadedSides lists every reserved Side.
Declared == DOMAIN sides

\* #assertLoadedCapabilities compares sets; the kernel is the Main of create().
Mismatch == ModulesOfAll(Declared) # registered[1]

Failed(r) == requests' = [requests EXCEPT ![r].state = "failed"]

\* The loop of #ensureSides up to its next await, at position step: the Side is
\* reserved and waited for, or there is none left and the request waits for
\* #ensureSides itself to return.
Ensure(r, step, others) ==
  \/ /\ step > Len(Needs[r])
     /\ requests' = [requests EXCEPT ![r] =
          [state |-> "waiting", step |-> step, attempt |-> 0, wasLoaded |-> TRUE]]
     /\ waiting' = Append(others, r)
     /\ UNCHANGED loaderVars
  \/ /\ step <= Len(Needs[r])
     /\ main = 0
     /\ Failed(r)
     /\ waiting' = others
     /\ UNCHANGED loaderVars
  \/ /\ step <= Len(Needs[r])
     /\ Reserve(Needs[r][step])
     /\ requests' = [requests EXCEPT ![r] =
          [state |-> "waiting", step |-> step, attempt |-> AttemptOf(Needs[r][step]),
           wasLoaded |-> Needs[r][step] \in DOMAIN sides]]
     /\ waiting' = Append(others, r)

Send(r) ==
  /\ requests[r].state = "unsent"
  /\ \/ /\ closed \/ capabilityError
        /\ Failed(r)
        /\ waiting' = waiting
        /\ UNCHANGED loaderVars
     \/ /\ ~closed /\ ~capabilityError
        /\ Ensure(r, 1, waiting)
  /\ UNCHANGED <<capabilityError, closed>>

\* The request was the first to see its Side missing, and the Side has come.
Checks(r) ==
  /\ requests[r].attempt # 0
  /\ attempts[requests[r].attempt].state = "resolved"
  /\ ~requests[r].wasLoaded

Resume ==
  \E n \in DOMAIN waiting :
    LET r == waiting[n]
        others == RemoveAt(waiting, n)
    IN /\ Resumable(r)
       /\ \A m \in 1 .. n - 1 : ~Resumable(waiting[m])
       /\ \/ /\ requests[r].attempt = 0                  \* #transport.request
             /\ requests' = [requests EXCEPT ![r].state = "called"]
             /\ waiting' = others
             /\ UNCHANGED <<loaderVars, capabilityError>>
          \/ /\ requests[r].attempt # 0
             /\ attempts[requests[r].attempt].state = "rejected"
             /\ Failed(r)
             /\ waiting' = others
             /\ UNCHANGED <<loaderVars, capabilityError>>
          \/ /\ Checks(r) /\ Mismatch
             /\ capabilityError' = TRUE
             /\ Failed(r)
             /\ waiting' = others
             /\ UNCHANGED loaderVars
          \/ /\ requests[r].attempt # 0
             /\ attempts[requests[r].attempt].state = "resolved"
             /\ ~(Checks(r) /\ Mismatch)
             /\ Ensure(r, requests[r].step + 1, others)
             /\ UNCHANGED capabilityError
       /\ UNCHANGED closed

Close ==
  /\ ~closed
  /\ closed' = TRUE
  /\ Dispose
  /\ UNCHANGED <<requests, waiting, capabilityError>>

Load(n) ==
  \/ StartLoad(n)
  \/ MicrotasksDone /\ (LibraryFails(n) \/ LibraryLoads(n))

ClientNext ==
  \/ \E r \in Request : Send(r)
  \/ Resume
  \/ Close
  \/ \E n \in DOMAIN attempts : Load(n) /\ UNCHANGED clientVars

\* Microtasks run, and a request for a library ends.
ClientSpec ==
  /\ ClientInit /\ [][ClientNext]_vars
  /\ WF_vars(Resume)
  /\ WF_vars(\E n \in DOMAIN attempts : Load(n) /\ UNCHANGED clientVars)

-----------------------------------------------------------------------------
(* Properties.                                                             *)

\* A request reaches the kernel only when every Side it needs is registered.
CalledOnLoadedSides ==
  \A r \in Request :
    requests[r].state = "called" => ModulesOfAll(Range(Needs[r])) \subseteq registered[1]

\* The Sides of every request are the first of one sequence: what the runs that find no
\* mismatch have in common.
OneOrder(order) ==
  /\ order \in Seq(Side) /\ IsInjective(order)
  /\ \A r \in Request : Len(Needs[r]) <= Len(order)
  /\ \A r \in Request : \A j \in 1 .. Len(Needs[r]) : Needs[r][j] = order[j]

\* Sides here register what they declare, so an open client must not find a
\* capability mismatch, whichever loads overlap.
NoFalseCapabilityError == capabilityError => closed

\* A request whose Sides fail to load, or whose client closes, is rejected; none
\* stays suspended, and no load waits for ever behind one that failed or went stale:
\* again and again, nothing is under way.
EveryRequestSettles ==
  []<>(AllEnded /\ \A r \in Request : requests[r].state # "waiting")
=============================================================================
