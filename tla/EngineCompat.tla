---------------------------- MODULE EngineCompat ----------------------------
(***************************************************************************)
(* The scopes of EngineCompatClient (ts/src/engine-compat.ts).  The engine *)
(* knows no scopes of its users: the client keeps, for each, the logical   *)
(* shapes made in it, and releases them one by one.  A call is an async    *)
(* method; a step of it runs from one await of the engine to the next.     *)
(*                                                                         *)
(* The engine (module GeometryEngine) is reduced to the shapes it knows: a *)
(* request may fail or return new shapes, a release succeeds, fails, or    *)
(* finds the shape unknown.                                                *)
(***************************************************************************)
EXTENDS Integers, Sequences, FiniteSets

CONSTANTS
  CompatCall,       \* the calls users make, each at most once
  MaxScopes,        \* bound: scopes begun
  MaxShapes         \* bound: shapes made

VARIABLES
  known,            \* the logical shapes of the engine
  home,             \* history: the scope each shape was made in, or 0
  owned,            \* #scopes: the Set object of each scope begun
  open,             \* the scopes that are in the map
  begun,            \* #nextScopeId - 1
  tasks,            \* the async methods
  overlapped,       \* history: a scope was ended, or everything released, during a request

  compatPhase       \* close(): "open", "closing" or "closed"

compatVars == <<known, home, owned, open, begun, tasks, overlapped, compatPhase>>

\* todo: the shapes yet to release, the one under way included; failed: firstError.
Task(kind, scope, todo) == [kind |-> kind, scope |-> scope, todo |-> todo, failed |-> FALSE]
NoTask == Task("unsent", 0, {})

CompatInit ==
  /\ known = {} /\ home = <<>>
  /\ owned = <<>> /\ open = {} /\ begun = 0 /\ compatPhase = "open"
  /\ tasks = [c \in CompatCall |-> NoTask]
  /\ overlapped = FALSE

Scopes == DOMAIN owned
Ends(c, outcome) == tasks' = [tasks EXCEPT ![c] = Task(outcome, 0, {})]

\* A request is under way in a scope that is ended or about to be emptied.
Overlap ==
  \E c, d \in CompatCall :
    LET s == tasks[c].scope IN
    /\ tasks[c].kind = "request" /\ s # 0
    /\ s \notin open \/ tasks[d].kind = "releaseAll" \/ (tasks[d].kind = "endScope" /\ tasks[d].scope = s)

-----------------------------------------------------------------------------
(* Calls begin.                                                            *)

beginScope ==
  /\ compatPhase = "open" /\ begun < MaxScopes
  /\ begun' = begun + 1
  /\ owned' = Append(owned, {})
  /\ open' = open \cup {begun + 1}
  /\ UNCHANGED <<known, home, tasks>>

\* A scope that has no shapes is ended at once.
endScope(c, s) ==
  /\ s \in open
  /\ IF owned[s] = {} THEN open' = open \ {s} /\ Ends(c, "done")
     ELSE tasks' = [tasks EXCEPT ![c] = Task("endScope", s, owned[s])] /\ open' = open
  /\ UNCHANGED <<known, home, owned, begun>>

release(c, x) ==
  /\ x \in DOMAIN home
  /\ tasks' = [tasks EXCEPT ![c] = Task("release", 0, {x})]
  /\ UNCHANGED <<known, home, owned, open, begun>>

\* #engine.releaseAll() releases every shape it finds; without any it ends at once.
releaseAll(c) ==
  /\ tasks' = [tasks EXCEPT ![c] = Task("releaseAll", 0, known)]
  /\ UNCHANGED <<known, home, owned, open, begun>>

\* The routed operation, with or without (0) a scope.
routed(c, s) ==
  /\ s \in open \cup {0}
  /\ tasks' = [tasks EXCEPT ![c] = Task("request", s, {})]
  /\ UNCHANGED <<known, home, owned, open, begun>>

-----------------------------------------------------------------------------
(* The engine answers, and the call goes on.                               *)

\* The shapes of a result belong to the scope it was made in.  A scope that is gone
\* is looked up in vain: the call fails with a TypeError.
Routed(c) ==
  LET s == tasks[c].scope IN
  /\ tasks[c].kind = "request"
  /\ \/ Ends(c, "failed") /\ UNCHANGED <<known, home, owned>>
     \/ LET x == Len(home) + 1 IN
        /\ compatPhase # "closed" /\ x <= MaxShapes
        /\ home' = Append(home, s)
        /\ known' = known \cup {x}
        /\ \/ s = 0 /\ Ends(c, "done") /\ owned' = owned
           \/ s \in open /\ Ends(c, "done") /\ owned' = [owned EXCEPT ![s] = @ \cup {x}]
           \/ s \notin open \cup {0} /\ Ends(c, "failed") /\ owned' = owned
  /\ UNCHANGED <<open, begun>>

\* Outcomes of #engine.releaseShape(x): the engine, and what it threw.  A release of
\* x that overlaps another may end either way; a closed engine throws.
Releases(x) ==
  {[known |-> known, threw |-> "error"]}
    \cup (IF compatPhase = "closed" THEN {} ELSE {[known |-> known \ {x}, threw |-> "nothing"]})
    \cup (IF x \in known THEN {} ELSE {[known |-> known, threw |-> "UnknownLogicalShape"]})

\* The end of endScope, once nothing is left to release.
Settled(c, task, sets) ==
  /\ open' = IF sets[task.scope] = {} THEN open \ {task.scope} ELSE open
  /\ Ends(c, IF task.failed THEN "failed" ELSE "done")

\* Mutant of ScopeEnded: a shape whose release failed is taken out of the scope.
ScopeEndedAnyway(c) ==
  /\ tasks[c].kind = "endScope"
  /\ \E x \in tasks[c].todo : \E r \in Releases(x) :
       LET task == [tasks[c] EXCEPT !.todo = @ \ {x}, !.failed = @ \/ r.threw = "error"]
           sets == [owned EXCEPT ![tasks[c].scope] = @ \ {x}] IN
       /\ known' = r.known /\ owned' = sets
       /\ IF task.todo = {} THEN Settled(c, task, sets)
          ELSE tasks' = [tasks EXCEPT ![c] = task] /\ open' = open
  /\ UNCHANGED <<home, begun>>

\* One turn of the loop of endScope, and its end.  The next release begins in the
\* same turn: a shape that is gone by then is unknown to the engine.
ScopeEnded(c) ==
  /\ tasks[c].kind = "endScope"
  /\ \E x \in tasks[c].todo : \E r \in Releases(x) :
       LET task == [tasks[c] EXCEPT !.todo = @ \ {x}, !.failed = @ \/ r.threw = "error"]
           sets == IF r.threw = "error" THEN owned
                   ELSE [owned EXCEPT ![tasks[c].scope] = @ \ {x}] IN
       /\ known' = r.known /\ owned' = sets
       /\ IF task.todo = {} THEN Settled(c, task, sets)
          ELSE tasks' = [tasks EXCEPT ![c] = task] /\ open' = open
  /\ UNCHANGED <<home, begun>>

\* Only what the engine released leaves the scopes.
ShapeReleased(c) ==
  /\ tasks[c].kind = "release"
  /\ \E x \in tasks[c].todo : \E r \in Releases(x) :
       /\ known' = r.known
       /\ IF r.threw = "nothing"
          THEN /\ owned' = [s \in Scopes |-> IF s \in open THEN owned[s] \ {x} ELSE owned[s]]
               /\ Ends(c, "done")
          ELSE owned' = owned /\ Ends(c, "failed")
  /\ UNCHANGED <<home, open, begun>>

\* releaseAll of the engine goes on after a failure; the scopes are emptied only if
\* there was none.
AllReleased(c) ==
  /\ tasks[c].kind = "releaseAll"
  /\ IF tasks[c].todo = {}
     THEN /\ known' = known
          /\ IF tasks[c].failed THEN owned' = owned /\ Ends(c, "failed")
             ELSE /\ owned' = [s \in Scopes |-> IF s \in open THEN {} ELSE owned[s]]
                  /\ Ends(c, "done")
     ELSE /\ \E x \in tasks[c].todo : \E r \in Releases(x) :
               /\ known' = r.known
               /\ tasks' = [tasks EXCEPT ![c].todo = @ \ {x}, ![c].failed = @ \/ r.threw # "nothing"]
          /\ owned' = owned
  /\ UNCHANGED <<home, open, begun>>

CompatBegins(c) ==
  /\ tasks[c].kind = "unsent" /\ compatPhase = "open"
  /\ \/ releaseAll(c)
     \/ \E s \in open \cup {0} : endScope(c, s) \/ routed(c, s)
     \/ \E x \in DOMAIN home : release(c, x)

\* close(): the engine closes first; then the scopes are forgotten.
CloseCompat ==
  /\ \/ compatPhase = "open" /\ compatPhase' = "closing" /\ UNCHANGED <<known, open>>
     \/ compatPhase = "closing" /\ compatPhase' = "closed" /\ known' = {} /\ open' = {}
  /\ UNCHANGED <<home, owned, begun, tasks>>

CompatNext ==
  /\ \/ /\ \/ beginScope
           \/ \E c \in CompatCall : CompatBegins(c) \/ Routed(c) \/ ScopeEnded(c) \/ ShapeReleased(c) \/ AllReleased(c)
        /\ UNCHANGED compatPhase
     \/ CloseCompat
  /\ overlapped' = (overlapped \/ Overlap')

CompatSpec == CompatInit /\ [][CompatNext]_compatVars

-----------------------------------------------------------------------------
(* Properties.                                                             *)

\* A scope owns every shape made in it that was not released: ending the scope, again
\* if it failed, releases it.  Failed releases, releases of single shapes, scopes ended
\* twice at once and close() leave it so.
ShapesHaveScopes ==
  \A x \in known : home[x] # 0 => home[x] \in open /\ x \in owned[home[x]]

\* The same unless a scope is ended, or everything released, during a request.
ScopesOwnShapes == overlapped \/ ShapesHaveScopes
=============================================================================
