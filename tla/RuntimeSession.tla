--------------------------- MODULE RuntimeSession ---------------------------
(***************************************************************************)
(* A session that owns at most one runtime                                 *)
(* (ts/src/single-runtime-session.ts).  switchProfile is an async method:  *)
(* a step of it runs from one await to the next.  The runtimes are those   *)
(* of createWorkerProfileRuntime (ts/src/isolated-runtime.ts): close()     *)
(* stops the kernel at once and rejects what it was asked; a request may   *)
(* stay unanswered for ever.                                               *)
(***************************************************************************)
EXTENDS Integers, Sequences, FiniteSets

CONSTANTS
  SessionRequest,   \* the requests users make, each at most once
  MaxSwitches       \* bound: calls of a factory

VARIABLES
  current,          \* #runtime: its position in hosted, or 0
  switching,        \* where #performSwitch waits; "none" is #switching = undefined
  settling,         \* the requests whose settled promises it waits for
  leaving,          \* the runtime it waits to close, or 0
  shut,             \* #closed
  pending,          \* #pending
  callers,          \* the promises request() returned
  hosted,           \* every runtime: its state, and the requests it has not settled
  switches          \* bound

sessionVars == <<current, switching, settling, leaving, shut, pending, callers, hosted, switches>>

SessionInit ==
  /\ current = 0 /\ switching = "none" /\ settling = {} /\ leaving = 0
  /\ shut = FALSE /\ pending = {}
  /\ callers = [r \in SessionRequest |-> "unsent"]
  /\ hosted = <<>> /\ switches = 0

Rejected(rs) == [r \in SessionRequest |-> IF r \in rs /\ callers[r] = "open" THEN "settled" ELSE callers[r]]

\* hosted once the runtime n was closed; 0 is no runtime.
ClosedRuntime(n) ==
  IF n = 0 THEN hosted ELSE [hosted EXCEPT ![n] = [state |-> "closed", serving |-> {}]]

Serving(r) == \E n \in DOMAIN hosted : r \in hosted[n].serving

-----------------------------------------------------------------------------
(* The methods.                                                            *)

request(r) ==
  /\ callers[r] = "unsent"
  /\ ~shut /\ switching = "none" /\ current # 0
  /\ callers' = [callers EXCEPT ![r] = "open"]
  /\ pending' = pending \cup {r}
  /\ hosted' = [hosted EXCEPT ![current].serving = @ \cup {r}]
  /\ UNCHANGED <<current, switching, settling, leaving, shut, switches>>

\* Mutant of switchProfile: a switch may begin while another is in progress.
switchProfileAgain ==
  /\ ~shut /\ switches < MaxSwitches
  /\ switches' = switches + 1
  /\ callers' = Rejected(pending)
  /\ settling' = pending /\ switching' = "settling"
  /\ UNCHANGED <<current, leaving, shut, pending, hosted>>

\* switchProfile and #performSwitch, up to its first await.
switchProfile ==
  /\ ~shut /\ switching = "none" /\ switches < MaxSwitches
  /\ switches' = switches + 1
  /\ callers' = Rejected(pending)
  /\ settling' = pending /\ switching' = "settling"
  /\ UNCHANGED <<current, leaving, shut, pending, hosted>>

\* Every pending request has settled: the old runtime is closed.
OldSettled ==
  /\ switching = "settling"
  /\ \A r \in settling : ~Serving(r)
  /\ switching' = "closing" /\ settling' = {} /\ leaving' = current
  /\ pending' = {}
  /\ current' = 0
  /\ hosted' = ClosedRuntime(current)
  /\ UNCHANGED <<shut, callers, switches>>

\* The old runtime is closed: the factory is called.
OldClosed ==
  /\ switching = "closing"
  /\ leaving # 0 => hosted[leaving].state = "closed"
  /\ switching' = "creating" /\ leaving' = 0
  /\ hosted' = Append(hosted, [state |-> "starting", serving |-> {}])
  /\ UNCHANGED <<current, settling, shut, pending, callers, switches>>

\* Mutant of Created: the new runtime is taken without a look at #closed.
CreatedAnyway ==
  /\ switching = "creating"
  /\ LET n == Len(hosted) IN
     \/ /\ hosted[n].state = "up" /\ current' = n /\ UNCHANGED shut
     \/ /\ hosted[n].state = "failed" /\ current' = 0 /\ shut' = TRUE
  /\ switching' = "none"
  /\ UNCHANGED <<settling, leaving, pending, callers, hosted, switches>>

\* The factory has settled.  A session closed meanwhile closes what it was given.
Created ==
  /\ switching = "creating"
  /\ LET n == Len(hosted) IN
     \/ /\ hosted[n].state = "up" /\ ~shut
        /\ current' = n /\ switching' = "none"
        /\ UNCHANGED <<leaving, shut, hosted>>
     \/ /\ hosted[n].state = "up" /\ shut
        /\ switching' = "abandoning" /\ leaving' = n
        /\ hosted' = ClosedRuntime(n)
        /\ UNCHANGED <<current, shut>>
     \/ /\ hosted[n].state = "failed"
        /\ shut' = TRUE /\ current' = 0 /\ switching' = "none"
        /\ UNCHANGED <<leaving, hosted>>
  /\ UNCHANGED <<settling, pending, callers, switches>>

\* The runtime of a closed session is closed: the switch fails.
Abandoned ==
  /\ switching = "abandoning"
  /\ hosted[leaving].state = "closed"
  /\ switching' = "none" /\ leaving' = 0
  /\ shut' = TRUE /\ current' = 0
  /\ UNCHANGED <<settling, pending, callers, hosted, switches>>

closeSession ==
  /\ ~shut
  /\ shut' = TRUE
  /\ callers' = Rejected(pending)
  /\ pending' = {}
  /\ current' = 0
  /\ hosted' = ClosedRuntime(current)
  /\ UNCHANGED <<switching, settling, leaving, switches>>

-----------------------------------------------------------------------------
(* The runtimes.                                                           *)

\* A factory ends one way or the other.
Starts(n) ==
  /\ hosted[n].state = "starting"
  /\ \E s \in {"up", "failed"} : hosted' = [hosted EXCEPT ![n].state = s]
  /\ UNCHANGED <<current, switching, settling, leaving, shut, pending, callers, switches>>

\* A runtime answers, or fails, a request: its caller is told, unless it was already.
Answers(n, r) ==
  /\ r \in hosted[n].serving
  /\ hosted' = [hosted EXCEPT ![n].serving = @ \ {r}]
  /\ callers' = Rejected({r})
  /\ pending' = pending \ {r}
  /\ UNCHANGED <<current, switching, settling, leaving, shut, switches>>

Switching == OldSettled \/ OldClosed \/ Created \/ Abandoned

SessionNext ==
  \/ \E r \in SessionRequest : request(r)
  \/ switchProfile \/ Switching \/ closeSession
  \/ \E n \in DOMAIN hosted : Starts(n)
  \/ \E n \in DOMAIN hosted, r \in SessionRequest : Answers(n, r)

\* Promises that are settled go on, and a factory ends.  Nothing says that a
\* runtime answers.
SessionFairness ==
  /\ WF_sessionVars(Switching)
  /\ WF_sessionVars(\E n \in DOMAIN hosted : Starts(n))

SessionSpec == SessionInit /\ [][SessionNext]_sessionVars /\ SessionFairness

-----------------------------------------------------------------------------
(* Properties.                                                             *)

Running(n) == hosted[n].state \in {"starting", "up"}

\* Never two runtimes at once, whatever switches, failures and close() overlap, and
\* a runtime that is up outside a switch is the session's: none is forgotten.
OneRuntime ==
  /\ \A m, n \in DOMAIN hosted : Running(m) /\ Running(n) => m = n
  /\ switching = "none" => \A n \in DOMAIN hosted : Running(n) => n = current

\* close() ends everything, also a switch that waits for requests the old runtime
\* never answers, and a runtime that is still starting.
CloseEndsSession ==
  shut ~> /\ switching = "none"
          /\ \A r \in SessionRequest : callers[r] # "open"
          /\ \A n \in DOMAIN hosted : ~Running(n)
=============================================================================
