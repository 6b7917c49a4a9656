--------------------------- MODULE LifecycleProofs ---------------------------
(***************************************************************************)
(* What users open and end, for any number of requests, scopes and shapes: *)
(* a session never has two runtimes; a scope of the compatibility client   *)
(* owns the shapes made in it; a parametric model publishes what is whole  *)
(* and loses no scope.  The components share no state.                     *)
(***************************************************************************)
EXTENDS RuntimeSession, EngineCompat, ParametricModel, SequenceTheorems, WellFoundedInduction, TLAPS

-----------------------------------------------------------------------------
(* The session of a single runtime.                                        *)

\* The types the argument needs.
Hosted == [state : {"starting", "up", "failed", "closed"}, serving : SUBSET SessionRequest]
SessionTypeOK ==
  /\ hosted \in Seq(Hosted)
  /\ current \in 0 .. Len(hosted)
  /\ leaving \in 0 .. Len(hosted)
  /\ switching \in {"none", "settling", "closing", "creating", "abandoning"}

\* Which runtime may be starting or up at each point of a switch.
RunningAt ==
  \A n \in DOMAIN hosted :
    Running(n) => \/ switching \in {"none", "settling"} /\ n = current
                  \/ switching = "creating" /\ n = Len(hosted)

SessionInv == SessionTypeOK /\ RunningAt

LEMMA SessionInvInit == SessionInit => SessionInv
BY DEF SessionInit, SessionInv, SessionTypeOK, RunningAt

\* One runtime changes: hosted stays what it was elsewhere.
LEMMA Changing ==
  ASSUME SessionTypeOK, NEW k \in DOMAIN hosted, NEW h \in Hosted, hosted' = [hosted EXCEPT ![k] = h]
  PROVE  /\ hosted' \in Seq(Hosted) /\ Len(hosted') = Len(hosted)
         /\ \A n \in DOMAIN hosted' : n \in DOMAIN hosted /\ hosted'[n] = IF n = k THEN h ELSE hosted[n]
<1>1. hosted \in Seq(Hosted)
  BY DEF SessionTypeOK
<1>2. hosted' \in Seq(Hosted) /\ Len(hosted') = Len(hosted) /\ DOMAIN hosted' = DOMAIN hosted
  BY <1>1
<1> QED
  BY <1>1, <1>2

\* Closing a runtime keeps the others as they are, and it does not run afterwards.
LEMMA Closing ==
  ASSUME SessionTypeOK, NEW k \in 0 .. Len(hosted)
  PROVE  /\ ClosedRuntime(k) \in Seq(Hosted)
         /\ Len(ClosedRuntime(k)) = Len(hosted)
         /\ DOMAIN ClosedRuntime(k) = DOMAIN hosted
         /\ \A n \in DOMAIN hosted :
              ClosedRuntime(k)[n].state \in {"starting", "up"} => Running(n) /\ n # k
<1>1. CASE k = 0
  BY <1>1 DEF ClosedRuntime, SessionTypeOK, Running
<1>2. CASE k # 0
  <2>1. k \in DOMAIN hosted
    BY <1>2 DEF SessionTypeOK
  <2>2. [state |-> "closed", serving |-> {}] \in Hosted
    BY DEF Hosted
  <2>3. ClosedRuntime(k) = [hosted EXCEPT ![k] = [state |-> "closed", serving |-> {}]]
    BY <1>2 DEF ClosedRuntime
  <2>4. ClosedRuntime(k) \in Seq(Hosted) /\ Len(ClosedRuntime(k)) = Len(hosted)
    BY <2>1, <2>2, <2>3 DEF SessionTypeOK
  <2>5. \A n \in DOMAIN hosted :
          ClosedRuntime(k)[n] = IF n = k THEN [state |-> "closed", serving |-> {}] ELSE hosted[n]
    BY <2>1, <2>3 DEF SessionTypeOK
  <2> QED
    BY <2>3, <2>4, <2>5 DEF Running, SessionTypeOK
<1> QED
  BY <1>1, <1>2

LEMMA SessionInvStep == SessionInv /\ [SessionNext]_sessionVars => SessionInv'
<1> SUFFICES ASSUME SessionInv, [SessionNext]_sessionVars
             PROVE  SessionInv'
  OBVIOUS
<1>0. SessionTypeOK /\ RunningAt
  BY DEF SessionInv
<1> USE <1>0 DEF SessionInv
<1>1. CASE UNCHANGED sessionVars
  BY <1>1 DEF sessionVars, SessionTypeOK, RunningAt, Running
<1>2. ASSUME NEW r \in SessionRequest, request(r)
      PROVE  SessionInv'
  <2>1. current \in DOMAIN hosted
    BY <1>2 DEF request, SessionTypeOK
  <2> DEFINE h == [hosted[current] EXCEPT !.serving = @ \cup {r}]
  <2>2. hosted[current] \in Hosted
    BY <2>1 DEF SessionTypeOK
  <2>3. h \in Hosted /\ h.state = hosted[current].state
    BY <1>2, <2>2 DEF Hosted
  <2>4. hosted' = [hosted EXCEPT ![current] = h]
    BY <1>2 DEF request
  <2> HIDE DEF h
  <2>5. /\ hosted' \in Seq(Hosted) /\ Len(hosted') = Len(hosted)
        /\ \A n \in DOMAIN hosted' : n \in DOMAIN hosted /\ hosted'[n] = IF n = current THEN h ELSE hosted[n]
    BY <2>1, <2>3, <2>4, Changing
  <2>6. \A n \in DOMAIN hosted' : n \in DOMAIN hosted /\ hosted'[n].state = hosted[n].state
    BY <2>5, <2>3
  <2> QED
    BY <1>2, <2>5, <2>6 DEF request, SessionTypeOK, RunningAt, Running
<1>3. CASE switchProfile
  BY <1>3 DEF switchProfile, SessionTypeOK, RunningAt, Running
<1>4. CASE OldSettled
  BY <1>4, Closing DEF OldSettled, SessionTypeOK, RunningAt, Running
<1>5. CASE OldClosed
  <2>1. \A n \in DOMAIN hosted : ~Running(n)
    BY <1>5 DEF OldClosed, RunningAt
  <2>2. [state |-> "starting", serving |-> {}] \in Hosted
    BY DEF Hosted
  <2>3. /\ hosted' \in Seq(Hosted) /\ Len(hosted') = Len(hosted) + 1
        /\ \A n \in 1 .. Len(hosted) : hosted'[n] = hosted[n]
    BY <1>5, <2>2 DEF OldClosed, SessionTypeOK
  <2> QED
    BY <1>5, <2>1, <2>3 DEF OldClosed, SessionTypeOK, RunningAt, Running
<1>6. CASE Created
  <2>1. CASE hosted[Len(hosted)].state = "up" /\ ~shut
    BY <1>6, <2>1 DEF Created, SessionTypeOK, RunningAt, Running
  <2>2. CASE hosted[Len(hosted)].state = "up" /\ shut
    BY <1>6, <2>2, Closing DEF Created, SessionTypeOK, RunningAt, Running
  <2>3. CASE hosted[Len(hosted)].state = "failed"
    BY <1>6, <2>3 DEF Created, SessionTypeOK, RunningAt, Running
  <2> QED
    BY <1>6, <2>1, <2>2, <2>3 DEF Created
<1>7. CASE Abandoned
  BY <1>7 DEF Abandoned, SessionTypeOK, RunningAt, Running
<1>8. CASE closeSession
  BY <1>8, Closing DEF closeSession, SessionTypeOK, RunningAt, Running
<1>9. ASSUME NEW n \in DOMAIN hosted, Starts(n)
      PROVE  SessionInv'
  <2>1. PICK s \in {"up", "failed"} : hosted' = [hosted EXCEPT ![n].state = s]
    BY <1>9 DEF Starts
  <2> DEFINE h == [hosted[n] EXCEPT !.state = s]
  <2>2. hosted[n] \in Hosted
    BY <1>9 DEF SessionTypeOK
  <2>3. h \in Hosted /\ hosted[n].state = "starting"
    BY <1>9, <2>2 DEF Starts, Hosted
  <2>4. hosted' = [hosted EXCEPT ![n] = h]
    BY <2>1
  <2> HIDE DEF h
  <2>5. /\ hosted' \in Seq(Hosted) /\ Len(hosted') = Len(hosted)
        /\ \A m \in DOMAIN hosted' : m \in DOMAIN hosted /\ hosted'[m] = IF m = n THEN h ELSE hosted[m]
    BY <2>3, <2>4, Changing
  <2>6. \A m \in DOMAIN hosted' : m \in DOMAIN hosted /\ (Running(m)' => Running(m))
    BY <2>5, <2>3 DEF Running
  <2> QED
    BY <1>9, <2>5, <2>6 DEF Starts, SessionTypeOK, RunningAt
<1>10. ASSUME NEW n \in DOMAIN hosted, NEW r \in SessionRequest, Answers(n, r)
       PROVE  SessionInv'
  <2> DEFINE h == [hosted[n] EXCEPT !.serving = @ \ {r}]
  <2>1. hosted[n] \in Hosted
    BY <1>10 DEF SessionTypeOK
  <2>2. h \in Hosted /\ h.state = hosted[n].state
    BY <1>10, <2>1 DEF Hosted
  <2>3. hosted' = [hosted EXCEPT ![n] = h]
    BY <1>10 DEF Answers
  <2> HIDE DEF h
  <2>4. /\ hosted' \in Seq(Hosted) /\ Len(hosted') = Len(hosted)
        /\ \A m \in DOMAIN hosted' : m \in DOMAIN hosted /\ hosted'[m] = IF m = n THEN h ELSE hosted[m]
    BY <2>2, <2>3, Changing
  <2>5. \A m \in DOMAIN hosted' : m \in DOMAIN hosted /\ hosted'[m].state = hosted[m].state
    BY <2>4, <2>2
  <2> QED
    BY <1>10, <2>4, <2>5 DEF Answers, SessionTypeOK, RunningAt, Running
<1> QED
  BY <1>1, <1>2, <1>3, <1>4, <1>5, <1>6, <1>7, <1>8, <1>9, <1>10 DEF SessionNext, Switching

\* There is at most one runtime that starts or runs, and outside a switch it is the
\* session's (single-runtime-session.ts), whatever requests the runtimes leave unanswered.
THEOREM AtMostOneRuntime == SessionSpec => []OneRuntime
<1>1. SessionInv => OneRuntime
  BY DEF SessionInv, RunningAt, OneRuntime
<1> QED
  BY SessionInvInit, SessionInvStep, <1>1, PTL DEF SessionSpec

-----------------------------------------------------------------------------
(* The compatibility client.                                               *)

CompatTask ==
  [kind : {"unsent", "done", "failed", "endScope", "release", "releaseAll", "request"},
   scope : 0 .. begun, todo : SUBSET Nat, failed : BOOLEAN]

CompatTypeOK ==
  /\ begun \in Nat
  /\ home \in Seq(0 .. begun)
  /\ owned \in Seq(SUBSET Nat) /\ Len(owned) = begun
  /\ open \subseteq 1 .. begun
  /\ known \subseteq DOMAIN home
  /\ tasks \in [CompatCall -> CompatTask]
  /\ \A c \in CompatCall : tasks[c].kind = "endScope" => tasks[c].scope # 0

\* What releaseAll has not come to yet is all that scopes have; a request in a scope
\* that makes more is an overlap.
AllAreTodo ==
  \A c \in CompatCall :
    tasks[c].kind = "releaseAll" /\ ~tasks[c].failed
      => \A x \in known : home[x] # 0 => x \in tasks[c].todo

CompatInv ==
  /\ CompatTypeOK
  /\ Overlap => overlapped
  /\ overlapped \/ (ShapesHaveScopes /\ AllAreTodo)

LEMMA CompatInvInit == CompatInit => CompatInv
BY DEF CompatInit, CompatInv, CompatTypeOK, CompatTask, NoTask, Task, Overlap,
       ShapesHaveScopes, AllAreTodo

\* A call that is over, or goes on, is typed.
LEMMA TaskTyped ==
  ASSUME NEW k \in {"unsent", "done", "failed", "endScope", "release", "releaseAll", "request"},
         NEW s \in 0 .. begun, NEW t \in SUBSET Nat
  PROVE  Task(k, s, t) \in CompatTask
BY DEF Task, CompatTask

\* A call that ends becomes a task that is over.
LEMMA CallEnds ==
  ASSUME CompatTypeOK, NEW c, NEW k \in {"done", "failed"}, Ends(c, k)
  PROVE  \E t \in CompatTask : tasks' = [tasks EXCEPT ![c] = t] /\ t.kind \in {"done", "failed"}
<1>1. 0 \in 0 .. begun
  BY DEF CompatTypeOK
<1>2. Task(k, 0, {}) \in CompatTask /\ Task(k, 0, {}).kind = k
  BY <1>1 DEF Task, CompatTask
<1>3. tasks' = [tasks EXCEPT ![c] = Task(k, 0, {})]
  BY DEF Ends
<1> QED
  BY <1>2, <1>3

\* A release that did not fail leaves the shape unknown.
LEMMA ReleaseForgets ==
  ASSUME NEW x, NEW r \in Releases(x)
  PROVE  /\ r.known \subseteq known
         /\ r.threw # "error" => x \notin r.known
         /\ r.threw \in {"error", "nothing", "UnknownLogicalShape"}
BY DEF Releases

Rest == Overlap' => overlapped'

LEMMA Beginning ==
  ASSUME CompatInv, beginScope, Rest, overlapped => overlapped'
  PROVE  CompatInv'
<1>0. CompatTypeOK
  BY DEF CompatInv
<1>1. /\ begun' = begun + 1 /\ begun \in Nat /\ Len(owned) = begun /\ owned \in Seq(SUBSET Nat)
      /\ owned' = Append(owned, {}) /\ open' = open \cup {begun + 1}
      /\ known' = known /\ home' = home /\ tasks' = tasks
  BY <1>0 DEF beginScope, CompatTypeOK
<1>2. /\ owned' \in Seq(SUBSET Nat) /\ Len(owned') = begun'
      /\ \A s \in 1 .. begun : owned'[s] = owned[s]
  BY <1>1
<1>3. CompatTask \subseteq CompatTask'
  BY <1>1 DEF CompatTask
<1>4. CompatTypeOK'
  BY <1>0, <1>1, <1>2, <1>3 DEF CompatTypeOK
<1>5. ShapesHaveScopes => ShapesHaveScopes'
  BY <1>0, <1>1, <1>2 DEF ShapesHaveScopes, CompatTypeOK
<1>6. AllAreTodo => AllAreTodo'
  BY <1>1 DEF AllAreTodo
<1> QED
  BY <1>4, <1>5, <1>6 DEF CompatInv, Rest

\* A step of one call: what the others are about stays.
LEMMA OneCall ==
  ASSUME CompatInv, NEW c \in CompatCall, NEW t \in CompatTask, tasks' = [tasks EXCEPT ![c] = t],
         begun' = begun, t.kind = "endScope" => t.scope # 0,
         home' \in Seq(0 .. begun), known' \subseteq DOMAIN home',
         owned' \in Seq(SUBSET Nat), Len(owned') = begun, open' \subseteq 1 .. begun,
         Rest, overlapped => overlapped',
         overlapped \/ ShapesHaveScopes',
         \A x \in known' : x \in known /\ home'[x] = home[x],
         overlapped \/ (t.kind = "releaseAll" /\ ~t.failed => \A x \in known' : home[x] # 0 => x \in t.todo)
  PROVE  CompatInv'
<1>0. CompatTypeOK /\ (overlapped \/ AllAreTodo)
  BY DEF CompatInv
<1>1. CompatTask' = CompatTask
  BY DEF CompatTask
<1>2. CompatTypeOK'
  BY <1>0, <1>1 DEF CompatTypeOK
<1>3. overlapped \/ AllAreTodo'
  BY <1>0 DEF AllAreTodo, CompatTypeOK
<1> QED
  BY <1>2, <1>3 DEF CompatInv, Rest

LEMMA CallBegins ==
  ASSUME CompatInv, NEW c \in CompatCall, CompatBegins(c), Rest, overlapped => overlapped'
  PROVE  CompatInv'
<1>0. CompatTypeOK /\ (overlapped \/ ShapesHaveScopes)
  BY DEF CompatInv
<1>1. CASE releaseAll(c)
  <2>1. Task("releaseAll", 0, known) \in CompatTask
    BY <1>0, TaskTyped DEF CompatTypeOK
  <2> QED
    BY <1>0, <1>1, <2>1, OneCall DEF releaseAll, Task, CompatTypeOK, ShapesHaveScopes
<1>2. ASSUME NEW s \in open \cup {0}, routed(c, s)
      PROVE  CompatInv'
  <2>1. Task("request", s, {}) \in CompatTask
    BY <1>0, TaskTyped DEF CompatTypeOK
  <2> QED
    BY <1>0, <1>2, <2>1, OneCall DEF routed, Task, CompatTypeOK, ShapesHaveScopes
<1>3. ASSUME NEW x \in DOMAIN home, release(c, x)
      PROVE  CompatInv'
  <2>1. Task("release", 0, {x}) \in CompatTask
    BY <1>0, TaskTyped DEF CompatTypeOK
  <2> QED
    BY <1>0, <1>3, <2>1, OneCall DEF release, Task, CompatTypeOK, ShapesHaveScopes
<1>4. ASSUME NEW s \in open, endScope(c, s)
      PROVE  CompatInv'
  <2>1. CASE owned[s] = {}
    <3>1. Task("done", 0, {}) \in CompatTask
      BY <1>0, TaskTyped DEF CompatTypeOK
    <3>2. overlapped \/ ShapesHaveScopes'
      BY <1>0, <1>4, <2>1 DEF endScope, ShapesHaveScopes, CompatTypeOK
    <3> QED
      BY <1>0, <1>4, <2>1, <3>1, <3>2, OneCall DEF endScope, Ends, Task, CompatTypeOK
  <2>2. CASE owned[s] # {}
    <3>1. Task("endScope", s, owned[s]) \in CompatTask /\ s # 0
      BY <1>0, TaskTyped DEF CompatTypeOK
    <3> QED
      BY <1>0, <1>4, <2>2, <3>1, OneCall DEF endScope, Task, CompatTypeOK, ShapesHaveScopes
  <2> QED
    BY <2>1, <2>2
<1> QED
  BY <1>1, <1>2, <1>3, <1>4 DEF CompatBegins, endScope

\* A request returns: its shape goes to its scope, or there is an overlap.
LEMMA RequestReturns ==
  ASSUME CompatInv, NEW c \in CompatCall, Routed(c), Rest, overlapped => overlapped'
  PROVE  CompatInv'
<1> DEFINE s == tasks[c].scope
<1>0. /\ CompatTypeOK /\ (overlapped \/ (ShapesHaveScopes /\ AllAreTodo))
      /\ tasks[c].kind = "request" /\ s \in 0 .. begun /\ open' = open /\ begun' = begun
      /\ Overlap => overlapped
  BY DEF CompatInv, Routed, CompatTypeOK, CompatTask
<1>1. Task("failed", 0, {}) \in CompatTask /\ Task("done", 0, {}) \in CompatTask
  BY <1>0, TaskTyped DEF CompatTypeOK
<1>2. CASE Ends(c, "failed") /\ UNCHANGED <<known, home, owned>>
  BY <1>0, <1>1, <1>2, OneCall DEF Ends, Task, CompatTypeOK, ShapesHaveScopes
<1>3. ASSUME NEW x, x = Len(home) + 1, home' = Append(home, s), known' = known \cup {x},
             \/ s = 0 /\ Ends(c, "done") /\ owned' = owned
             \/ s \in open /\ Ends(c, "done") /\ owned' = [owned EXCEPT ![s] = @ \cup {x}]
             \/ s \notin open \cup {0} /\ Ends(c, "failed") /\ owned' = owned
      PROVE  CompatInv'
  <2>1. PICK t \in CompatTask : tasks' = [tasks EXCEPT ![c] = t] /\ t.kind \in {"done", "failed"}
    BY <1>1, <1>3 DEF Ends, Task
  <2>2. /\ home' \in Seq(0 .. begun) /\ home'[x] = s /\ x \in Nat
        /\ DOMAIN home' = DOMAIN home \cup {x} /\ x \notin known
        /\ \A y \in known : home'[y] = home[y]
    BY <1>0, <1>3 DEF CompatTypeOK
  <2>3. /\ owned' \in Seq(SUBSET Nat) /\ Len(owned') = begun
        /\ \A q \in 1 .. begun : owned[q] \subseteq owned'[q]
        /\ s \in open => x \in owned'[s]
    <3>1. CASE owned' = owned /\ s \notin open
      BY <1>0, <3>1 DEF CompatTypeOK
    <3>2. CASE s \in open /\ owned' = [owned EXCEPT ![s] = @ \cup {x}]
      <4>1. s \in 1 .. begun /\ s \in DOMAIN owned /\ owned \in Seq(SUBSET Nat)
        BY <1>0, <3>2 DEF CompatTypeOK
      <4>2. owned[s] \in SUBSET Nat
        BY <4>1
      <4>3. owned[s] \cup {x} \in SUBSET Nat
        BY <2>2, <4>2
      <4> QED
        BY <1>0, <3>2, <4>1, <4>3 DEF CompatTypeOK
    <3> QED
      BY <1>0, <1>3, <3>1, <3>2 DEF CompatTypeOK
  <2>4. known' \subseteq DOMAIN home'
    BY <1>0, <1>3, <2>2 DEF CompatTypeOK
  <2>5. CompatTypeOK'
    <3>1. CompatTask' = CompatTask
      BY <1>0 DEF CompatTask
    <3> QED
      BY <1>0, <2>1, <2>2, <2>3, <2>4, <3>1 DEF CompatTypeOK
  <2>6. CASE ~overlapped
    <3>1. s \in open \cup {0}
      BY <1>0, <2>6 DEF Overlap
    <3>2. ShapesHaveScopes'
      BY <1>0, <1>3, <2>2, <2>3, <2>6, <3>1 DEF ShapesHaveScopes, CompatTypeOK
    <3>3. AllAreTodo'
      <4> SUFFICES ASSUME NEW d \in CompatCall, tasks'[d].kind = "releaseAll", ~tasks'[d].failed
                   PROVE  \A y \in known' : home'[y] # 0 => y \in tasks'[d].todo
        BY DEF AllAreTodo
      <4>1. d # c /\ tasks'[d] = tasks[d]
        BY <1>0, <2>1 DEF CompatTypeOK
      <4>2. s = 0
        BY <1>0, <2>6, <4>1 DEF Overlap
      <4> QED
        BY <1>0, <1>3, <2>2, <2>6, <4>1, <4>2 DEF AllAreTodo
    <3> QED
      BY <2>5, <3>2, <3>3 DEF CompatInv, Rest
  <2> QED
    BY <2>5, <2>6 DEF CompatInv, Rest
<1> QED
  BY <1>2, <1>3 DEF Routed

\* A shape leaves a scope only when the engine does not know it any more, and the scope
\* leaves the map only when it has no shape.
LEMMA ScopeEnds ==
  ASSUME CompatInv, NEW c \in CompatCall, ScopeEnded(c), Rest, overlapped => overlapped'
  PROVE  CompatInv'
<1> DEFINE s == tasks[c].scope
<1>0. /\ CompatTypeOK /\ (overlapped \/ (ShapesHaveScopes /\ AllAreTodo))
      /\ tasks[c] \in CompatTask /\ tasks[c].kind = "endScope" /\ s \in 1 .. begun
      /\ home' = home /\ begun' = begun
  BY DEF CompatInv, ScopeEnded, CompatTypeOK, CompatTask
<1>1. PICK x \in tasks[c].todo : \E r \in Releases(x) :
        LET task == [tasks[c] EXCEPT !.todo = @ \ {x}, !.failed = @ \/ r.threw = "error"]
            sets == IF r.threw = "error" THEN owned
                    ELSE [owned EXCEPT ![tasks[c].scope] = @ \ {x}] IN
        /\ known' = r.known /\ owned' = sets
        /\ IF task.todo = {} THEN Settled(c, task, sets)
           ELSE tasks' = [tasks EXCEPT ![c] = task] /\ open' = open
  BY DEF ScopeEnded
<1>2. PICK r \in Releases(x) :
        LET task == [tasks[c] EXCEPT !.todo = @ \ {x}, !.failed = @ \/ r.threw = "error"]
            sets == IF r.threw = "error" THEN owned
                    ELSE [owned EXCEPT ![tasks[c].scope] = @ \ {x}] IN
        /\ known' = r.known /\ owned' = sets
        /\ IF task.todo = {} THEN Settled(c, task, sets)
           ELSE tasks' = [tasks EXCEPT ![c] = task] /\ open' = open
  BY <1>1
<1> DEFINE task == [tasks[c] EXCEPT !.todo = @ \ {x}, !.failed = @ \/ r.threw = "error"]
<1>3. task \in CompatTask /\ task.kind = "endScope" /\ task.scope = s
  BY <1>0 DEF CompatTask
<1>4. /\ known' \subseteq known
      /\ r.threw # "error" => x \notin known'
  BY <1>2, ReleaseForgets
<1>5. /\ owned' \in Seq(SUBSET Nat) /\ Len(owned') = begun
      /\ \A q \in 1 .. begun, y \in known' : y \in owned[q] => y \in owned'[q]
  <2>1. CASE r.threw = "error"
    BY <1>0, <1>2, <2>1 DEF CompatTypeOK
  <2>2. CASE r.threw # "error"
    <3>1. owned' = [owned EXCEPT ![s] = @ \ {x}]
      BY <1>2, <2>2
    <3>2. owned[s] \ {x} \in SUBSET Nat
      BY <1>0 DEF CompatTypeOK
    <3> QED
      BY <1>0, <1>4, <2>2, <3>1, <3>2 DEF CompatTypeOK
  <2> QED
    BY <2>1, <2>2
<1>6. open' = open \/ (open' = open \ {s} /\ owned'[s] = {})
  BY <1>2, <1>3 DEF Settled
<1>7. overlapped \/ ShapesHaveScopes'
  BY <1>0, <1>4, <1>5, <1>6 DEF ShapesHaveScopes, CompatTypeOK
<1>8. PICK t \in CompatTask : tasks' = [tasks EXCEPT ![c] = t] /\ (t.kind = "endScope" => t.scope # 0)
                              /\ t.kind # "releaseAll"
  <2>1. CASE tasks' = [tasks EXCEPT ![c] = task]
    <3>1. task \in CompatTask /\ task.scope # 0 /\ task.kind # "releaseAll"
      <4> HIDE DEF task
      <4> QED
        BY <1>0, <1>3
    <3>2. tasks' = [tasks EXCEPT ![c] = task]
      BY <2>1
    <3> HIDE DEF task
    <3> QED
      BY <3>1, <3>2
  <2>2. CASE \E k \in {"failed", "done"} : Ends(c, k)
    BY <1>0, <2>2, CallEnds
  <2> QED
    BY <1>2, <2>1, <2>2 DEF Settled
<1> QED
  BY <1>0, <1>4, <1>5, <1>6, <1>7, <1>8, OneCall DEF CompatTypeOK

LEMMA ShapeReleases ==
  ASSUME CompatInv, NEW c \in CompatCall, ShapeReleased(c), Rest, overlapped => overlapped'
  PROVE  CompatInv'
<1>0. /\ CompatTypeOK /\ (overlapped \/ (ShapesHaveScopes /\ AllAreTodo))
      /\ home' = home /\ begun' = begun /\ open' = open
  BY DEF CompatInv, ShapeReleased
<1>1. PICK x \in tasks[c].todo : \E r \in Releases(x) :
        /\ known' = r.known
        /\ IF r.threw = "nothing"
           THEN /\ owned' = [s \in Scopes |-> IF s \in open THEN owned[s] \ {x} ELSE owned[s]]
                /\ Ends(c, "done")
           ELSE owned' = owned /\ Ends(c, "failed")
  BY DEF ShapeReleased
<1>2. PICK r \in Releases(x) :
        /\ known' = r.known
        /\ IF r.threw = "nothing"
           THEN /\ owned' = [s \in Scopes |-> IF s \in open THEN owned[s] \ {x} ELSE owned[s]]
                /\ Ends(c, "done")
           ELSE owned' = owned /\ Ends(c, "failed")
  BY <1>1
<1>3. /\ known' \subseteq known
      /\ r.threw = "nothing" => x \notin known'
  BY <1>2, ReleaseForgets
<1>4. /\ owned' \in Seq(SUBSET Nat) /\ Len(owned') = begun
      /\ \A q \in 1 .. begun, y \in known' : y \in owned[q] => y \in owned'[q]
  <2>1. CASE r.threw # "nothing"
    BY <1>0, <1>2, <2>1 DEF CompatTypeOK
  <2>2. CASE r.threw = "nothing"
    <3>1. Scopes = 1 .. begun /\ owned \in [1 .. begun -> SUBSET Nat] /\ begun \in Nat
      BY <1>0 DEF CompatTypeOK, Scopes
    <3>2. owned' = [s \in 1 .. begun |-> IF s \in open THEN owned[s] \ {x} ELSE owned[s]]
      BY <1>2, <2>2, <3>1
    <3>3. owned' \in [1 .. begun -> SUBSET Nat]
      BY <3>1, <3>2
    <3>4. owned' \in Seq(SUBSET Nat) /\ Len(owned') = begun
      BY <3>1, <3>3
    <3> QED
      BY <1>3, <2>2, <3>2, <3>4
  <2> QED
    BY <2>1, <2>2
<1>5. overlapped \/ ShapesHaveScopes'
  BY <1>0, <1>3, <1>4 DEF ShapesHaveScopes, CompatTypeOK
<1>6. \E k \in {"failed", "done"} : Ends(c, k)
  BY <1>2
<1>7. PICK t \in CompatTask : tasks' = [tasks EXCEPT ![c] = t] /\ t.kind \in {"failed", "done"}
  BY <1>0, <1>6, CallEnds
<1> QED
  BY <1>0, <1>3, <1>4, <1>5, <1>7, OneCall DEF CompatTypeOK

\* The scopes are emptied when every shape that was in one is gone.
LEMMA AllRelease ==
  ASSUME CompatInv, NEW c \in CompatCall, AllReleased(c), Rest, overlapped => overlapped'
  PROVE  CompatInv'
<1>0. /\ CompatTypeOK /\ (overlapped \/ (ShapesHaveScopes /\ AllAreTodo))
      /\ tasks[c] \in CompatTask /\ tasks[c].kind = "releaseAll"
      /\ home' = home /\ begun' = begun /\ open' = open
  BY DEF CompatInv, AllReleased, CompatTypeOK
<1>1. CASE tasks[c].todo = {}
  <2>0. known' = known /\ IF tasks[c].failed THEN owned' = owned /\ Ends(c, "failed")
             ELSE /\ owned' = [s \in Scopes |-> IF s \in open THEN {} ELSE owned[s]]
                  /\ Ends(c, "done")
    BY <1>1 DEF AllReleased
  <2>1. PICK t \in CompatTask : tasks' = [tasks EXCEPT ![c] = t] /\ t.kind \in {"failed", "done"}
    BY <1>0, <2>0, TaskTyped DEF Ends, Task, CompatTypeOK
  <2>2. CASE tasks[c].failed
    BY <1>0, <2>0, <2>1, <2>2, OneCall DEF CompatTypeOK, ShapesHaveScopes
  <2>3. CASE ~tasks[c].failed
    <3>1. Scopes = 1 .. begun /\ owned \in [1 .. begun -> SUBSET Nat] /\ begun \in Nat
      BY <1>0 DEF CompatTypeOK, Scopes
    <3>2. owned' = [s \in 1 .. begun |-> IF s \in open THEN {} ELSE owned[s]]
      BY <2>0, <2>3, <3>1
    <3>3. owned' \in [1 .. begun -> SUBSET Nat]
      BY <3>1, <3>2
    <3>4. owned' \in Seq(SUBSET Nat) /\ Len(owned') = begun
      BY <3>1, <3>3
    <3>5. overlapped \/ \A x \in known : home[x] = 0
      BY <1>0, <1>1, <2>3 DEF AllAreTodo
    <3>6. overlapped \/ ShapesHaveScopes'
      BY <1>0, <2>0, <3>5 DEF ShapesHaveScopes
    <3> QED
      BY <1>0, <2>0, <2>1, <3>4, <3>6, OneCall DEF CompatTypeOK
  <2> QED
    BY <2>2, <2>3
<1>2. CASE tasks[c].todo # {}
  <2>1. PICK x \in tasks[c].todo : \E r \in Releases(x) :
          /\ known' = r.known
          /\ tasks' = [tasks EXCEPT ![c].todo = @ \ {x}, ![c].failed = @ \/ r.threw # "nothing"]
    BY <1>2 DEF AllReleased
  <2>2. PICK r \in Releases(x) :
          /\ known' = r.known
          /\ tasks' = [tasks EXCEPT ![c].todo = @ \ {x}, ![c].failed = @ \/ r.threw # "nothing"]
    BY <2>1
  <2>3. owned' = owned
    BY <1>2 DEF AllReleased
  <2> DEFINE t == [tasks[c] EXCEPT !.todo = @ \ {x}, !.failed = @ \/ r.threw # "nothing"]
  <2>4. tasks' = [tasks EXCEPT ![c] = t]
    BY <1>0, <2>2 DEF CompatTypeOK
  <2>5. t \in CompatTask /\ t.kind = "releaseAll" /\ t.todo = tasks[c].todo \ {x}
        /\ (t.failed <=> tasks[c].failed \/ r.threw # "nothing")
    BY <1>0 DEF CompatTask
  <2>6. known' \subseteq known /\ (r.threw = "nothing" => x \notin known')
    BY <2>2, ReleaseForgets
  <2>7. overlapped \/ ShapesHaveScopes'
    BY <1>0, <2>3, <2>6 DEF ShapesHaveScopes
  <2>8. overlapped \/ (~t.failed => \A y \in known' : home[y] # 0 => y \in t.todo)
    BY <1>0, <2>5, <2>6 DEF AllAreTodo
  <2> HIDE DEF t
  <2> QED
    BY <1>0, <2>3, <2>4, <2>5, <2>6, <2>7, <2>8, OneCall DEF CompatTypeOK
<1> QED
  BY <1>1, <1>2

LEMMA CompatCloses ==
  ASSUME CompatInv, CloseCompat, Rest, overlapped => overlapped'
  PROVE  CompatInv'
<1>1. CompatTask' = CompatTask
  BY DEF CompatTask, CloseCompat
<1> QED
  BY <1>1 DEF CloseCompat, CompatInv, CompatTypeOK, ShapesHaveScopes, AllAreTodo, Rest

LEMMA CompatInvStep == CompatInv /\ [CompatNext]_compatVars => CompatInv'
<1> SUFFICES ASSUME CompatInv, [CompatNext]_compatVars
             PROVE  CompatInv'
  OBVIOUS
<1>1. CASE UNCHANGED compatVars
  <2>1. CompatTask' = CompatTask
    BY <1>1 DEF CompatTask, compatVars
  <2> QED
    BY <1>1, <2>1 DEF compatVars, CompatInv, CompatTypeOK, ShapesHaveScopes, AllAreTodo, Overlap
<1>2. CASE CompatNext
  <2>1. Rest /\ (overlapped => overlapped')
    BY <1>2 DEF CompatNext, Rest
  <2> QED
    BY <1>2, <2>1, Beginning, CallBegins, RequestReturns, ScopeEnds, ShapeReleases, AllRelease, CompatCloses
    DEF CompatNext
<1> QED
  BY <1>1, <1>2

\* A scope owns every shape made in it that was not released, whatever releases fail,
\* unless a request in it overlaps its end or a releaseAll (engine-compat.ts).
THEOREM ScopesKeepShapes == CompatSpec => []ScopesOwnShapes
<1>1. CompatInv => ScopesOwnShapes
  BY DEF CompatInv, ScopesOwnShapes
<1> QED
  BY CompatInvInit, CompatInvStep, <1>1, PTL DEF CompatSpec
-----------------------------------------------------------------------------
(* The parametric model: its queue and its scopes.                         *)

AtScope == {"feature", "endNew", "endOld", "endNewToo"}
ScopeHandles == [epoch : Nat, id : Nat]
JobType == [kind : {"recompute", "dispose"}, definition : Definitions \cup {<<>>}]
IsBuild(b) ==
  /\ b = [at |-> b.at, scope |-> b.scope, i |-> b.i, shapes |-> b.shapes, failed |-> b.failed,
          since |-> b.since]
  /\ b.at \in {"idle", "beginScope", "dispose"} \cup AtScope
  /\ b.scope \in ScopeHandles /\ b.failed \in BOOLEAN

ModelTypes ==
  /\ definition \in Definitions /\ jobs \in Seq(JobType)
  /\ \A k \in 1 .. Len(jobs) : jobs[k].kind = "recompute" => jobs[k].definition \in Definitions
  /\ IsBuild(build)
  /\ published.scope \in ScopeHandles
  /\ instance \in [epoch : Nat \ {0}, scopes : SUBSET ScopeHandles, begun : Nat]
  /\ disposeRequested \in BOOLEAN /\ disposePromise \in {"none", "pending", "done"}

\* A scope was begun in the kernel, or one before it, under an id of its own.
InKernel ==
  /\ \A s \in instance.scopes : s.epoch = instance.epoch /\ s.id # 0
  /\ \A s \in instance.scopes \cup {published.scope, build.scope} :
       s.epoch <= instance.epoch /\ s.id <= instance.begun

\* dispose() is the last job there is, and nothing comes after it ended.
JobsInOrder ==
  /\ build.at # "idle" => jobs # <<>>
  /\ build.at = "dispose" <=> build.at # "idle" /\ Job.kind = "dispose"
  /\ build.at = "dispose" => published.scope # NoScope
  /\ \A k \in 1 .. Len(jobs) : jobs[k].kind = "dispose" <=> k = Len(jobs) /\ disposePromise = "pending"
  /\ disposePromise = "pending" => jobs # <<>>
  /\ disposePromise # "none" => disposeRequested
  /\ disposeRequested /\ disposePromise # "pending" => jobs = <<>>

\* The scope of the running recomputation is alive, if its kernel is, and another than
\* the published one.
Alive(s) == Expired(s) \/ s \in instance.scopes
OneIsNew ==
  /\ build.at \in AtScope =>
       build.scope # NoScope /\ build.scope # published.scope /\ Alive(build.scope)
  /\ build.at \notin AtScope => build.scope = NoScope
  /\ build.at \in {"endOld", "endNewToo"} => published.scope # NoScope
  /\ published.scope # NoScope => Alive(published.scope)

ScopeInv == ModelTypes /\ InKernel /\ JobsInOrder /\ OneIsNew /\ ScopesAccounted

LEMMA ScopeInvInit == ModelInit => ScopeInv
<1> SUFFICES ASSUME ModelInit
             PROVE  ScopeInv
  OBVIOUS
<1>1. NoScope \in ScopeHandles /\ NoScope.epoch = 0 /\ NoScope.id = 0
  BY DEF NoScope, ScopeHandles
<1>2. /\ definition \in Definitions /\ jobs = <<>> /\ Len(jobs) = 0 /\ jobs \in Seq(JobType)
      /\ disposeRequested = FALSE /\ disposePromise = "none"
      /\ build.at = "idle" /\ build.scope = NoScope /\ published.scope = NoScope
  BY DEF ModelInit, Idle, Unpublished
<1>3. IsBuild(build)
  BY <1>1 DEF ModelInit, Idle, IsBuild
<1>4. /\ instance \in [epoch : Nat \ {0}, scopes : SUBSET ScopeHandles, begun : Nat]
      /\ instance.epoch = 1 /\ instance.scopes = {} /\ instance.begun = 0
  BY DEF ModelInit
<1>5. ModelTypes
  <2>1. disposeRequested \in BOOLEAN
    BY <1>2, Zenon
  <2> QED
    BY <1>1, <1>2, <1>3, <1>4, <2>1 DEF ModelTypes
<1>6. InKernel
  BY <1>1, <1>2, <1>4 DEF InKernel
<1>7. JobsInOrder
  BY <1>2 DEF JobsInOrder
<1>8. OneIsNew /\ ScopesAccounted
  BY <1>2, <1>4 DEF OneIsNew, ScopesAccounted, AtScope
<1> QED
  BY <1>5, <1>6, <1>7, <1>8 DEF ScopeInv

\* The loop comes to a feature, or to its end; or it has published.
AdvancesTo(b, at) ==
  /\ UNCHANGED <<jobs, published>>
  /\ at \in {"feature", "endNew", "endOld"}
  /\ at = "endOld" => published.scope # NoScope
  /\ IsBuild(build') /\ build'.at = at /\ build'.scope = b.scope
PublishesAtOnce(b) ==
  published.scope = NoScope /\ JobEnds /\ published'.scope = b.scope

LEMMA Advances ==
  ASSUME NEW b, IsBuild(b), Advance(b)
  PROVE  (\E at : AdvancesTo(b, at)) \/ PublishesAtOnce(b)
<1>1. ASSUME NEW at \in {"feature", "endNew", "endOld"}, NEW i, NEW failed \in BOOLEAN,
             build' = [b EXCEPT !.at = at, !.i = i, !.failed = failed],
             UNCHANGED <<jobs, published>>, at = "endOld" => published.scope # NoScope
      PROVE  AdvancesTo(b, at)
  BY <1>1 DEF AdvancesTo, IsBuild, AtScope
<1> DEFINE next == ToBuild(b)
           i == CHOOSE k \in next : \A j \in next : k <= j
           last == IF next = {} THEN Len(Features) ELSE i
           failed == b.failed \/ \E k \in b.i .. last : Missing(Features[k], b.shapes)
<1>2. \/ build' = [b EXCEPT !.at = "feature", !.i = i, !.failed = failed] /\ UNCHANGED <<jobs, published>>
      \/ build' = [b EXCEPT !.at = "endNew", !.failed = TRUE] /\ UNCHANGED <<jobs, published>>
      \/ Publishes(b)
  BY DEF Advance
<1>3. failed \in BOOLEAN
  BY DEF IsBuild
<1> HIDE DEF next, i, last, failed
<1>4. CASE build' = [b EXCEPT !.at = "feature", !.i = i, !.failed = failed] /\ UNCHANGED <<jobs, published>>
  BY <1>1, <1>3, <1>4
<1>5. CASE build' = [b EXCEPT !.at = "endNew", !.failed = TRUE] /\ UNCHANGED <<jobs, published>>
  <2>1. build' = [b EXCEPT !.at = "endNew", !.i = b.i, !.failed = TRUE]
    BY <1>5 DEF IsBuild
  <2> QED
    BY <1>1, <1>5, <2>1
<1>6. CASE Publishes(b)
  <2>1. CASE published.scope = NoScope
    BY <1>6, <2>1 DEF Publishes, Publish, PublishesAtOnce
  <2>2. CASE published.scope # NoScope
    <3>1. /\ build' = [b EXCEPT !.at = "endOld", !.i = b.i, !.failed = b.failed]
          /\ UNCHANGED <<jobs, published>> /\ b.failed \in BOOLEAN
      BY <1>6, <2>2 DEF Publishes, IsBuild
    <3> QED
      BY <1>1, <2>2, <3>1
  <2> QED
    BY <2>1, <2>2
<1> QED
  BY <1>2, <1>4, <1>5, <1>6

LEMMA FirstGone ==
  ASSUME NEW S, NEW q \in Seq(S), q # <<>>
  PROVE  /\ Len(q) \in Nat \ {0} /\ Head(q) = q[1]
         /\ Tail(q) \in Seq(S) /\ Len(Tail(q)) = Len(q) - 1
         /\ \A k \in 1 .. Len(Tail(q)) : Tail(q)[k] = q[k + 1]
         /\ Tail(q) = <<>> <=> Len(q) = 1
<1>1. Len(q) \in Nat \ {0} /\ Head(q) = q[1] /\ Tail(q) \in Seq(S) /\ Len(Tail(q)) = Len(q) - 1
  OBVIOUS
<1>2. \A k \in 1 .. Len(Tail(q)) : Tail(q)[k] = q[k + 1]
  OBVIOUS
<1>3. Tail(q) = <<>> <=> Len(Tail(q)) = 0
  BY <1>1, EmptySeq
<1> QED
  BY <1>1, <1>2, <1>3

\* The first job has ended; a disposal that has, has settled its promise.
LEMMA EndsFirst ==
  ASSUME ScopeInv, jobs # <<>>, JobEnds, UNCHANGED <<definition, disposeRequested>>,
         \/ Job.kind # "dispose" /\ disposePromise' = disposePromise
         \/ Job.kind = "dispose" /\ disposePromise' \in {"none", "done"}
  PROVE  /\ JobsInOrder'
         /\ jobs' \in Seq(JobType) /\ IsBuild(build') /\ disposePromise' \in {"none", "pending", "done"}
         /\ \A k \in 1 .. Len(jobs') : jobs'[k].kind = "recompute" => jobs'[k].definition \in Definitions
         /\ build'.at = "idle" /\ build'.scope = NoScope
         /\ disposePromise' = "done" => jobs' = <<>>
<1>1. /\ Len(jobs) \in Nat \ {0} /\ Job = jobs[1]
      /\ Len(jobs') = Len(jobs) - 1 /\ \A k \in 1 .. Len(jobs') : jobs'[k] = jobs[k + 1]
      /\ jobs' \in Seq(JobType) /\ (jobs' = <<>> <=> Len(jobs) = 1)
  BY FirstGone DEF ScopeInv, ModelTypes, JobEnds, Job
<1>2. build' = Idle
  BY DEF JobEnds
<1>3. IsBuild(build') /\ build'.at = "idle" /\ build'.scope = NoScope
  BY <1>2 DEF Idle, IsBuild, AtScope, NoScope, ScopeHandles
<1>4. \A k \in 1 .. Len(jobs') : jobs'[k].kind = "recompute" => jobs'[k].definition \in Definitions
  BY <1>1 DEF ScopeInv, ModelTypes
<1>5. /\ \A k \in 1 .. Len(jobs) : jobs[k].kind = "dispose" <=> k = Len(jobs) /\ disposePromise = "pending"
      /\ disposePromise # "none" => disposeRequested
      /\ disposeRequested /\ disposePromise # "pending" => jobs = <<>>
      /\ disposePromise \in {"none", "pending", "done"}
  BY DEF ScopeInv, JobsInOrder, ModelTypes
<1>6. CASE Job.kind # "dispose" /\ disposePromise' = disposePromise
  <2>1. disposePromise = "pending" => Len(jobs) # 1
    BY ONLY <1>1, <1>5, <1>6
  <2>2. disposePromise' = "pending" => jobs' # <<>>
    BY ONLY <1>1, <1>6, <2>1
  <2>3. \A k \in 1 .. Len(jobs') : jobs'[k].kind = "dispose" <=> k = Len(jobs') /\ disposePromise' = "pending"
    BY ONLY <1>1, <1>5, <1>6
  <2>4. JobsInOrder'
    BY <1>3, <1>5, <1>6, <2>2, <2>3 DEF JobsInOrder
  <2>5. disposePromise' # "done"
    BY <1>5, <1>6
  <2> QED
    BY <1>1, <1>3, <1>4, <1>5, <1>6, <2>4, <2>5
<1>7. CASE Job.kind = "dispose" /\ disposePromise' \in {"none", "done"}
  <2>1. Len(jobs) = 1 /\ disposePromise = "pending" /\ jobs' = <<>>
    BY ONLY <1>1, <1>5, <1>7
  <2>2. disposeRequested' /\ Len(jobs') = 0
    BY <1>5, <2>1
  <2>3. JobsInOrder'
    BY <1>3, <1>7, <2>1, <2>2 DEF JobsInOrder
  <2> QED
    BY <1>1, <1>3, <1>4, <1>7, <2>1, <2>3
<1> QED
  BY <1>6, <1>7
LEMMA OneMore ==
  ASSUME NEW S, NEW q \in Seq(S), NEW e \in S
  PROVE  /\ Append(q, e) \in Seq(S) /\ Len(Append(q, e)) = Len(q) + 1 /\ Len(q) \in Nat
         /\ \A k \in 1 .. Len(q) : Append(q, e)[k] = q[k]
         /\ Append(q, e)[Len(q) + 1] = e
         /\ Append(q, e) # <<>>
         /\ q # <<>> => Head(Append(q, e)) = Head(q)
<1>1. /\ Append(q, e) \in Seq(S) /\ Len(Append(q, e)) = Len(q) + 1 /\ Len(q) \in Nat
      /\ \A k \in 1 .. Len(q) : Append(q, e)[k] = q[k]
      /\ Append(q, e)[Len(q) + 1] = e
  OBVIOUS
<1>2. Append(q, e) # <<>>
  BY <1>1, EmptySeq
<1>3. ASSUME q # <<>>
      PROVE  Head(Append(q, e)) = Head(q)
  <2>1. Len(q) \in Nat \ {0} /\ Head(q) = q[1]
    BY <1>3, FirstGone
  <2>2. Head(Append(q, e)) = Append(q, e)[1]
    BY <1>1, <1>2, FirstGone
  <2> QED
    BY <1>1, <2>1, <2>2
<1> QED
  BY <1>1, <1>2, <1>3

\* Nothing but the jobs changes: the scopes stay as they are.
LEMMA ScopesStay ==
  ASSUME ScopeInv, UNCHANGED <<published, instance, unended>>, disposePromise' # "done",
         build'.scope = build.scope,
         build'.at = build.at \/ (build.at \notin AtScope /\ build'.at \notin AtScope)
  PROVE  InKernel' /\ OneIsNew' /\ ScopesAccounted'
<1>1. InKernel'
  BY DEF ScopeInv, InKernel
<1>2. OneIsNew'
  <2>1. build'.at \in {"endOld", "endNewToo"} => build'.at = build.at
    BY DEF AtScope
  <2> QED
    BY <2>1 DEF ScopeInv, OneIsNew, Alive, Expired
<1>3. ScopesAccounted'
  BY DEF ScopeInv, ScopesAccounted
<1> QED
  BY <1>1, <1>2, <1>3

LEMMA RecomputeKeeps ==
  ASSUME ScopeInv, recompute
  PROVE  ScopeInv'
<1> DEFINE new == [kind |-> "recompute", definition |-> definition]
<1>1. /\ jobs \in Seq(JobType) /\ definition \in Definitions /\ IsBuild(build)
      /\ disposePromise \in {"none", "pending", "done"} /\ ~disposeRequested
      /\ disposePromise # "none" => disposeRequested
  BY DEF ScopeInv, ModelTypes, JobsInOrder, recompute
<1>2. new \in JobType /\ new.kind = "recompute" /\ new.definition = definition
  BY <1>1 DEF JobType
<1> HIDE DEF new
<1>3. jobs' = Append(jobs, new) /\ UNCHANGED <<definition, build, published, disposeRequested, disposePromise, instance, unended>>
  BY DEF recompute, new
<1>4. disposePromise = "none" /\ disposePromise' = "none"
  BY <1>1, <1>3
<1>5. /\ jobs' \in Seq(JobType) /\ Len(jobs') = Len(jobs) + 1 /\ Len(jobs) \in Nat
      /\ \A k \in 1 .. Len(jobs) : jobs'[k] = jobs[k]
      /\ jobs'[Len(jobs) + 1] = new /\ jobs' # <<>>
      /\ jobs # <<>> => Head(jobs') = Head(jobs)
  BY <1>1, <1>2, <1>3, OneMore
<1>6. ModelTypes'
  <2>1. \A k \in 1 .. Len(jobs') : jobs'[k].kind = "recompute" => jobs'[k].definition \in Definitions
    BY <1>1, <1>2, <1>5 DEF ScopeInv, ModelTypes
  <2> QED
    BY <1>3, <1>5, <2>1 DEF ScopeInv, ModelTypes
<1>7. JobsInOrder'
  <2>1. \A k \in 1 .. Len(jobs) : jobs[k].kind # "dispose"
    BY <1>4 DEF ScopeInv, JobsInOrder
  <2>2. \A k \in 1 .. Len(jobs') : jobs'[k].kind # "dispose"
    BY <1>2, <1>5, <2>1
  <2> QED
    BY <1>1, <1>3, <1>4, <1>5, <2>2 DEF ScopeInv, JobsInOrder, Job
<1> QED
  BY <1>3, <1>4, <1>6, <1>7, ScopesStay DEF ScopeInv

LEMMA DisposeKeeps ==
  ASSUME ScopeInv, dispose
  PROVE  ScopeInv'
<1> DEFINE new == [kind |-> "dispose", definition |-> <<>>]
<1>1. jobs \in Seq(JobType) /\ IsBuild(build) /\ disposePromise = "none"
  BY DEF ScopeInv, ModelTypes, dispose
<1>2. new \in JobType /\ new.kind = "dispose"
  BY DEF JobType
<1> HIDE DEF new
<1>3. /\ jobs' = Append(jobs, new) /\ UNCHANGED <<definition, build, published, instance, unended>>
      /\ disposeRequested' = TRUE /\ disposePromise' = "pending"
  BY DEF dispose, new
<1>5. /\ jobs' \in Seq(JobType) /\ Len(jobs') = Len(jobs) + 1 /\ Len(jobs) \in Nat
      /\ \A k \in 1 .. Len(jobs) : jobs'[k] = jobs[k]
      /\ jobs'[Len(jobs) + 1] = new /\ jobs' # <<>>
      /\ jobs # <<>> => Head(jobs') = Head(jobs)
  BY <1>1, <1>2, <1>3, OneMore
<1>6. ModelTypes'
  <2>1. \A k \in 1 .. Len(jobs') : jobs'[k].kind = "recompute" => jobs'[k].definition \in Definitions
    BY <1>1, <1>2, <1>5 DEF ScopeInv, ModelTypes
  <2>2. disposeRequested' \in BOOLEAN
    BY <1>3, Zenon
  <2> QED
    BY <1>3, <1>5, <2>1, <2>2 DEF ScopeInv, ModelTypes
<1>7. JobsInOrder'
  <2>1. \A k \in 1 .. Len(jobs) : jobs[k].kind # "dispose"
    BY <1>1 DEF ScopeInv, JobsInOrder
  <2>2. \A k \in 1 .. Len(jobs') : jobs'[k].kind = "dispose" <=> k = Len(jobs')
    BY <1>2, <1>5, <2>1
  <2> QED
    BY <1>1, <1>3, <1>5, <2>2 DEF ScopeInv, JobsInOrder, Job
<1> QED
  BY <1>3, <1>6, <1>7, ScopesStay DEF ScopeInv

\* A lost kernel takes all its scopes with it.
LEMMA RebuildInstanceKeeps ==
  ASSUME ScopeInv, RebuildInstance
  PROVE  ScopeInv'
<1>1. /\ instance' = [instance EXCEPT !.epoch = @ + 1, !.scopes = {}]
      /\ UNCHANGED <<definition, jobs, build, published, disposeRequested, disposePromise, unended>>
  BY DEF RebuildInstance
<1>2. /\ instance \in [epoch : Nat \ {0}, scopes : SUBSET ScopeHandles, begun : Nat]
      /\ published.scope \in ScopeHandles /\ build.scope \in ScopeHandles
  BY DEF ScopeInv, ModelTypes, IsBuild
<1>3. /\ instance' \in [epoch : Nat \ {0}, scopes : SUBSET ScopeHandles, begun : Nat]
      /\ instance'.epoch = instance.epoch + 1 /\ instance'.scopes = {} /\ instance'.begun = instance.begun
      /\ instance.epoch \in Nat /\ instance.begun \in Nat
  <2>1. instance.epoch \in Nat \ {0} /\ instance.begun \in Nat
    BY ONLY <1>2
  <2>2. instance' = [epoch |-> instance.epoch + 1, scopes |-> {}, begun |-> instance.begun]
    BY ONLY <1>1, <1>2
  <2> QED
    BY ONLY <2>1, <2>2
<1>4. \A s \in {published.scope, build.scope} : s.epoch \in Nat /\ s.epoch <= instance.epoch /\ s.id <= instance.begun
  BY <1>2 DEF ScopeInv, InKernel, ScopeHandles
<1>5. ModelTypes'
  BY <1>1, <1>3 DEF ScopeInv, ModelTypes, IsBuild
<1>6. InKernel'
  BY <1>1, <1>3, <1>4 DEF InKernel
<1>7. JobsInOrder'
  BY <1>1 DEF ScopeInv, JobsInOrder, Job
<1>8. OneIsNew'
  <2>1. \A s \in {published.scope, build.scope} : Alive(s)'
    BY <1>3, <1>4 DEF Alive, Expired
  <2> QED
    BY <1>1, <2>1 DEF ScopeInv, OneIsNew, Alive, Expired
<1>9. ScopesAccounted'
  BY <1>1, <1>3 DEF ScopeInv, ScopesAccounted
<1> QED
  BY <1>5, <1>6, <1>7, <1>8, <1>9 DEF ScopeInv
\* What the scopes need of the jobs.
LEMMA StillToDo ==
  ASSUME ScopeInv, jobs # <<>>
  PROVE  /\ disposePromise \in {"none", "pending"} /\ jobs \in Seq(JobType)
         /\ Job = jobs[1] /\ Len(jobs) \in Nat \ {0} /\ Job.kind \in {"recompute", "dispose"}
         /\ Job.kind = "dispose" => disposePromise = "pending"
<1>1. /\ jobs \in Seq(JobType) /\ disposePromise \in {"none", "pending", "done"}
      /\ disposePromise # "none" => disposeRequested
      /\ disposeRequested /\ disposePromise # "pending" => jobs = <<>>
      /\ \A k \in 1 .. Len(jobs) : jobs[k].kind = "dispose" <=> k = Len(jobs) /\ disposePromise = "pending"
  BY DEF ScopeInv, ModelTypes, JobsInOrder
<1>2. Job = jobs[1] /\ Len(jobs) \in Nat \ {0}
  BY <1>1, FirstGone DEF Job
<1>3. jobs[1] \in JobType
  BY <1>1, <1>2
<1> QED
  BY <1>1, <1>2, <1>3 DEF JobType

LEMMA NoScopeNotThere == ScopeInv => NoScope \notin instance.scopes
BY DEF ScopeInv, InKernel, NoScope

LEMMA JobBeginsKeeps ==
  ASSUME ScopeInv, JobBegins
  PROVE  ScopeInv'
<1>1. /\ jobs # <<>> /\ build.at = "idle" /\ build.scope = NoScope /\ IsBuild(build) /\ build.at \notin AtScope
      /\ UNCHANGED <<definition, disposeRequested, instance, unended>>
  BY DEF JobBegins, ScopeInv, OneIsNew, ModelTypes, AtScope
<1>2. /\ disposePromise \in {"none", "pending"}
      /\ Job.kind = "dispose" => disposePromise = "pending"
  BY <1>1, StillToDo
<1>3. ASSUME Job.kind = "recompute", JobEnds, UNCHANGED <<published, disposePromise>>
      PROVE  ScopeInv'
  <2>1. /\ JobsInOrder' /\ jobs' \in Seq(JobType) /\ IsBuild(build')
        /\ \A k \in 1 .. Len(jobs') : jobs'[k].kind = "recompute" => jobs'[k].definition \in Definitions
        /\ build'.at = "idle" /\ build'.scope = NoScope
    BY <1>1, <1>3, EndsFirst
  <2>2. ModelTypes'
    BY <1>1, <1>3, <2>1 DEF ScopeInv, ModelTypes
  <2> QED
    BY <1>1, <1>2, <1>3, <2>1, <2>2, ScopesStay DEF ScopeInv
<1>4. ASSUME NEW at \in {"beginScope", "dispose"}, IsBuild(build'), build'.at = at, build'.scope = NoScope,
             UNCHANGED <<jobs, published, disposePromise>>,
             at = "dispose" <=> Job.kind = "dispose", at = "dispose" => published.scope # NoScope
      PROVE  ScopeInv'
  <2>1. ModelTypes'
    BY <1>1, <1>4 DEF ScopeInv, ModelTypes
  <2>2. JobsInOrder'
    BY <1>1, <1>4 DEF ScopeInv, JobsInOrder, Job
  <2>3. build'.at \notin AtScope
    BY <1>4 DEF AtScope
  <2> QED
    BY <1>1, <1>2, <1>4, <2>1, <2>2, <2>3, ScopesStay DEF ScopeInv
<1>6. ASSUME Job.kind = "recompute", build' = [Idle EXCEPT !.at = "beginScope", !.since = instance.epoch],
             UNCHANGED <<jobs, published, disposePromise>>
      PROVE  ScopeInv'
  <2>1. IsBuild(build') /\ build'.at = "beginScope" /\ build'.scope = NoScope
    BY <1>6 DEF Idle, IsBuild, NoScope, ScopeHandles, AtScope
  <2> QED
    BY <1>4, <1>6, <2>1
<1>7. ASSUME Job.kind = "dispose", published.scope # NoScope, build' = [Idle EXCEPT !.at = "dispose"],
             UNCHANGED <<jobs, published, disposePromise>>
      PROVE  ScopeInv'
  <2>1. IsBuild(build') /\ build'.at = "dispose" /\ build'.scope = NoScope
    BY <1>7 DEF Idle, IsBuild, NoScope, ScopeHandles, AtScope
  <2> QED
    BY <1>4, <1>7, <2>1
<1>8. ASSUME Job.kind = "dispose", published.scope = NoScope, published' = Unpublished,
             disposePromise' = "done", JobEnds
      PROVE  ScopeInv'
  <2>1. /\ JobsInOrder' /\ jobs' \in Seq(JobType) /\ IsBuild(build')
        /\ \A k \in 1 .. Len(jobs') : jobs'[k].kind = "recompute" => jobs'[k].definition \in Definitions
        /\ build'.at = "idle" /\ build'.scope = NoScope
    BY <1>1, <1>8, EndsFirst
  <2>2. published'.scope = NoScope /\ NoScope \in ScopeHandles
    BY <1>8 DEF Unpublished, NoScope, ScopeHandles
  <2>3. ModelTypes'
    BY <1>1, <1>8, <2>1, <2>2 DEF ScopeInv, ModelTypes
  <2>4. InKernel'
    BY <1>1, <1>8, <2>1, <2>2 DEF ScopeInv, InKernel
  <2>5. OneIsNew'
    BY <2>1, <2>2 DEF OneIsNew, AtScope
  <2>6. ScopesAccounted'
    BY <1>1, <1>8, <2>1, <2>2, NoScopeNotThere DEF ScopeInv, ScopesAccounted
  <2> QED
    BY <2>1, <2>3, <2>4, <2>5, <2>6 DEF ScopeInv
<1> QED
  BY <1>3, <1>6, <1>7, <1>8 DEF JobBegins

\* The loop goes on with the scope of b, which is build's or was just begun.
LEMMA AdvanceKeeps ==
  ASSUME ScopeInv, NEW b, IsBuild(b), Advance(b), build.at \in {"beginScope", "feature"},
         UNCHANGED <<definition, disposeRequested, disposePromise, unended>>,
         b.scope # NoScope, b.scope # published.scope, b.scope.epoch <= instance.epoch,
         b.scope.id <= instance'.begun, b.scope.epoch = instance.epoch => b.scope \in instance'.scopes,
         instance' \in [epoch : Nat \ {0}, scopes : SUBSET ScopeHandles, begun : Nat],
         instance'.epoch = instance.epoch, instance.begun <= instance'.begun,
         instance.scopes \subseteq instance'.scopes,
         \A s \in instance'.scopes : s \in instance.scopes \/ (s = b.scope /\ s.epoch = instance.epoch /\ s.id # 0),
         build.at = "feature" => b.scope = build.scope
  PROVE  ScopeInv'
<1>1. jobs # <<>> /\ Job.kind # "dispose" /\ disposePromise # "done" /\ b.scope \in ScopeHandles
  BY StillToDo DEF ScopeInv, JobsInOrder, IsBuild
<1>2. /\ published.scope \in ScopeHandles /\ instance.epoch \in Nat /\ instance.begun \in Nat
      /\ instance'.begun \in Nat /\ instance.scopes \subseteq ScopeHandles
  BY DEF ScopeInv, ModelTypes
<1>3. /\ \A s \in instance'.scopes : s.epoch = instance'.epoch /\ s.id # 0
      /\ \A s \in instance'.scopes \cup {published.scope, b.scope, NoScope} :
           s.epoch <= instance'.epoch /\ s.id <= instance'.begun
  <2>1. \A s \in instance.scopes \cup {published.scope} :
          s.epoch <= instance.epoch /\ s.id \in Nat /\ s.id <= instance.begun
    BY <1>2 DEF ScopeInv, InKernel, ScopeHandles
  <2>2. NoScope.epoch <= instance.epoch /\ NoScope.id <= instance'.begun
    BY <1>2 DEF NoScope
  <2>3. \A s \in instance.scopes : s.epoch = instance.epoch /\ s.id # 0
    BY DEF ScopeInv, InKernel
  <2>4. \A s \in instance.scopes \cup {published.scope} : s.id <= instance'.begun
    BY <1>2, <2>1
  <2> QED
    BY <2>1, <2>2, <2>3, <2>4
<1>4. Alive(published.scope)' \/ published.scope = NoScope \/ published' # published
  BY DEF ScopeInv, OneIsNew, Alive, Expired
<1>5. (b.scope.epoch # instance'.epoch) \/ b.scope \in instance'.scopes
  OBVIOUS
<1>6. instance'.scopes \subseteq {published.scope, b.scope} \cup unended
  <2>1. instance.scopes \subseteq {published.scope, build.scope} \cup unended /\ NoScope \notin instance.scopes
    BY NoScopeNotThere DEF ScopeInv, ScopesAccounted
  <2>2. build.scope = NoScope \/ build.scope = b.scope
    BY DEF ScopeInv, OneIsNew, AtScope
  <2> QED
    BY <2>1, <2>2
<1>7. ASSUME NEW at, AdvancesTo(b, at)
      PROVE  ScopeInv'
  <2>1. /\ UNCHANGED <<jobs, published>> /\ IsBuild(build') /\ build'.at = at /\ build'.scope = b.scope
        /\ at \in {"feature", "endNew", "endOld"} /\ at \in AtScope
        /\ at = "endOld" => published.scope # NoScope
    BY <1>7 DEF AdvancesTo, AtScope
  <2>2. ModelTypes'
    BY <2>1 DEF ScopeInv, ModelTypes
  <2>3. InKernel'
    BY <1>3, <2>1 DEF InKernel
  <2>4. JobsInOrder'
    BY <1>1, <2>1 DEF ScopeInv, JobsInOrder, Job
  <2>5. OneIsNew'
    BY <1>4, <1>5, <2>1 DEF OneIsNew, Alive, Expired
  <2>6. ScopesAccounted'
    BY <1>1, <1>6, <2>1 DEF ScopesAccounted
  <2> QED
    BY <2>2, <2>3, <2>4, <2>5, <2>6 DEF ScopeInv
<1>8. ASSUME PublishesAtOnce(b)
      PROVE  ScopeInv'
  <2>1. published.scope = NoScope /\ JobEnds /\ published'.scope = b.scope
    BY <1>8 DEF PublishesAtOnce
  <2>2. /\ JobsInOrder' /\ jobs' \in Seq(JobType) /\ IsBuild(build')
        /\ \A k \in 1 .. Len(jobs') : jobs'[k].kind = "recompute" => jobs'[k].definition \in Definitions
        /\ build'.at = "idle" /\ build'.scope = NoScope
    BY <1>1, <2>1, EndsFirst
  <2>3. ModelTypes'
    BY <1>1, <2>1, <2>2 DEF ScopeInv, ModelTypes
  <2>4. InKernel'
    BY <1>3, <2>1, <2>2 DEF InKernel
  <2>5. OneIsNew'
    BY <1>5, <2>1, <2>2 DEF OneIsNew, AtScope, Alive, Expired
  <2>6. ScopesAccounted'
    BY <1>1, <1>6, <2>1, <2>2 DEF ScopesAccounted
  <2> QED
    BY <2>2, <2>3, <2>4, <2>5, <2>6 DEF ScopeInv
<1> QED
  BY <1>7, <1>8, Advances
LEMMA ScopeBegunKeeps ==
  ASSUME ScopeInv, ScopeBegun
  PROVE  ScopeInv'
<1>1. /\ build.at = "beginScope" /\ build.scope = NoScope /\ IsBuild(build) /\ jobs # <<>>
      /\ UNCHANGED <<definition, disposeRequested, disposePromise, unended>>
  BY DEF ScopeBegun, ScopeInv, ModelTypes, OneIsNew, JobsInOrder, AtScope
<1>2. /\ instance \in [epoch : Nat \ {0}, scopes : SUBSET ScopeHandles, begun : Nat]
      /\ published.scope \in ScopeHandles
      /\ \A s \in instance.scopes \cup {published.scope} : s.id <= instance.begun
  BY DEF ScopeInv, ModelTypes, InKernel
<1>3. Job.kind # "dispose"
  BY <1>1 DEF ScopeInv, JobsInOrder
<1> DEFINE scope == [epoch |-> instance.epoch, id |-> instance.begun + 1]
           b == [build EXCEPT !.scope = scope]
<1>4. CASE instance' = [instance EXCEPT !.begun = @ + 1, !.scopes = @ \cup {scope}] /\ Advance(b)
  <2>1. instance.epoch \in Nat \ {0} /\ instance.begun \in Nat /\ instance.scopes \subseteq ScopeHandles
    BY ONLY <1>2
  <2>2. /\ scope \in ScopeHandles /\ scope.epoch = instance.epoch /\ scope.id = instance.begun + 1
        /\ scope # NoScope
    BY ONLY <2>1 DEF ScopeHandles, NoScope
  <2>3. scope # published.scope
    BY ONLY <1>2, <2>1, <2>2 DEF ScopeHandles
  <2>4. IsBuild(b) /\ b.scope = scope
    BY <1>1, <2>2 DEF IsBuild
  <2> HIDE DEF scope, b
  <2>5. instance' = [epoch |-> instance.epoch, scopes |-> instance.scopes \cup {scope}, begun |-> instance.begun + 1]
    BY ONLY <1>2, <1>4
  <2>6. /\ instance' \in [epoch : Nat \ {0}, scopes : SUBSET ScopeHandles, begun : Nat]
        /\ instance'.epoch = instance.epoch /\ instance'.begun = instance.begun + 1
        /\ instance'.scopes = instance.scopes \cup {scope}
    BY ONLY <2>1, <2>2, <2>5
  <2>7. /\ b.scope # NoScope /\ b.scope # published.scope /\ b.scope.epoch <= instance.epoch
        /\ b.scope.id <= instance'.begun /\ b.scope \in instance'.scopes
        /\ instance.begun <= instance'.begun /\ instance.scopes \subseteq instance'.scopes
        /\ \A s \in instance'.scopes : s \in instance.scopes \/ (s = b.scope /\ s.epoch = instance.epoch /\ s.id # 0)
    BY ONLY <2>1, <2>2, <2>3, <2>4, <2>6
  <2> QED
    BY <1>1, <1>4, <2>4, <2>6, <2>7, AdvanceKeeps
<1>5. CASE instance' = instance /\ JobEnds /\ published' = published
  <2>1. /\ JobsInOrder' /\ jobs' \in Seq(JobType) /\ IsBuild(build')
        /\ \A k \in 1 .. Len(jobs') : jobs'[k].kind = "recompute" => jobs'[k].definition \in Definitions
        /\ build'.at = "idle" /\ build'.scope = NoScope
    BY <1>1, <1>3, <1>5, EndsFirst
  <2>2. ModelTypes'
    BY <1>1, <1>5, <2>1 DEF ScopeInv, ModelTypes
  <2>3. build.at \notin AtScope /\ build'.at \notin AtScope /\ disposePromise' # "done"
    BY <1>1, <2>1, StillToDo DEF AtScope
  <2>4. InKernel' /\ OneIsNew' /\ ScopesAccounted'
    BY <1>1, <1>5, <2>1, <2>3, ScopesStay
  <2> QED
    BY <2>1, <2>2, <2>4 DEF ScopeInv
<1> QED
  BY <1>4, <1>5 DEF ScopeBegun

LEMMA FeatureBuiltKeeps ==
  ASSUME ScopeInv, FeatureBuilt
  PROVE  ScopeInv'
<1>1. /\ build.at = "feature" /\ IsBuild(build)
      /\ UNCHANGED <<definition, disposeRequested, disposePromise, unended, instance>>
  BY DEF FeatureBuilt, ScopeInv, ModelTypes
<1>2. /\ build.scope # NoScope /\ build.scope # published.scope
      /\ build.scope.epoch = instance.epoch => build.scope \in instance.scopes
      /\ build.scope.epoch <= instance.epoch /\ build.scope.id <= instance.begun
      /\ instance \in [epoch : Nat \ {0}, scopes : SUBSET ScopeHandles, begun : Nat]
  BY <1>1 DEF ScopeInv, OneIsNew, AtScope, Alive, Expired, InKernel, ModelTypes
<1>3. instance.begun <= instance.begun
  <2>1. instance.begun \in Nat
    BY ONLY <1>2
  <2> QED
    BY ONLY <2>1
<1>4. ASSUME NEW b, IsBuild(b), b.scope = build.scope, Advance(b)
      PROVE  ScopeInv'
  BY <1>1, <1>2, <1>3, <1>4, AdvanceKeeps
<1>5. ASSUME NEW i, NEW b, b = [build EXCEPT !.i = i, !.failed = TRUE], Advance(b)
      PROVE  ScopeInv'
  <2>1. b = [build EXCEPT !.i = i, !.shapes = build.shapes, !.failed = TRUE]
    BY <1>1, <1>5 DEF IsBuild
  <2>2. IsBuild(b) /\ b.scope = build.scope
    BY <1>1, <2>1 DEF IsBuild
  <2> QED
    BY <1>4, <1>5, <2>2
<1>6. ASSUME NEW i, NEW kept, NEW failed \in BOOLEAN, NEW b,
             b = [build EXCEPT !.i = i, !.shapes = kept, !.failed = failed], Advance(b)
      PROVE  ScopeInv'
  <2>1. IsBuild(b) /\ b.scope = build.scope
    BY <1>1, <1>6 DEF IsBuild
  <2> QED
    BY <1>4, <1>6, <2>1
<1>7. \A unresolved \in BOOLEAN : (build.failed \/ unresolved) \in BOOLEAN
  BY <1>1 DEF IsBuild
<1> QED
  BY <1>5, <1>6, <1>7 DEF FeatureBuilt

\* A scope has ended, or could not be.
EndedOrNot(s) ==
  /\ instance' \in [epoch : Nat \ {0}, scopes : SUBSET ScopeHandles, begun : Nat]
  /\ instance'.epoch = instance.epoch /\ instance'.begun = instance.begun
  /\ instance'.scopes \subseteq instance.scopes /\ instance.scopes \subseteq instance'.scopes \cup {s}
  /\ unended \subseteq unended'
  /\ s \notin instance'.scopes \/ s \in unended'

LEMMA EndsOrNot ==
  ASSUME ScopeInv, NEW s, EndsScope(s) \/ FailsToEnd(s)
  PROVE  EndedOrNot(s)
<1>1. instance \in [epoch : Nat \ {0}, scopes : SUBSET ScopeHandles, begun : Nat]
  BY DEF ScopeInv, ModelTypes
<1>2. CASE EndsScope(s)
  <2>1. instance' = [instance EXCEPT !.scopes = @ \ {s}] /\ unended' = unended
    BY <1>2 DEF EndsScope
  <2>2. instance' = [epoch |-> instance.epoch, scopes |-> instance.scopes \ {s}, begun |-> instance.begun]
    BY ONLY <1>1, <2>1
  <2>3. instance.epoch \in Nat \ {0} /\ instance.begun \in Nat /\ instance.scopes \subseteq ScopeHandles
    BY ONLY <1>1
  <2> QED
    BY ONLY <2>1, <2>2, <2>3 DEF EndedOrNot
<1>3. CASE FailsToEnd(s)
  BY <1>1, <1>3 DEF FailsToEnd, EndedOrNot
<1> QED
  BY <1>2, <1>3

\* What stays true of the scopes the kernel holds, of the published one and of the
\* others, when the scope s is no longer asked for.
LEMMA EndedKeeps ==
  ASSUME ScopeInv, NEW s, EndedOrNot(s),
         ModelTypes', JobsInOrder', build'.at = "idle", build'.scope = NoScope,
         published'.scope \in {published.scope, build.scope, NoScope},
         {published.scope, build.scope} \subseteq {published'.scope, s, NoScope},
         published'.scope # NoScope =>
           Alive(published'.scope) /\ (published'.scope # s \/ instance'.scopes = instance.scopes),
         disposePromise' = "done" => published'.scope = NoScope
  PROVE  ScopeInv'
<1>1. /\ instance'.epoch = instance.epoch /\ instance'.begun = instance.begun
      /\ instance'.scopes \subseteq instance.scopes /\ instance.scopes \subseteq instance'.scopes \cup {s}
      /\ unended \subseteq unended' /\ (s \notin instance'.scopes \/ s \in unended')
  BY DEF EndedOrNot
<1>2. /\ instance.scopes \subseteq {published.scope, build.scope} \cup unended
      /\ NoScope \notin instance.scopes
  BY NoScopeNotThere DEF ScopeInv, ScopesAccounted
<1>3. InKernel'
  <2>1. /\ \A r \in instance'.scopes : r.epoch = instance'.epoch /\ r.id # 0
        /\ \A r \in instance'.scopes \cup {published.scope, build.scope} :
             r.epoch <= instance'.epoch /\ r.id <= instance'.begun
    BY <1>1 DEF ScopeInv, InKernel
  <2>2. instance'.epoch \in Nat \ {0} /\ instance'.begun \in Nat
    BY DEF EndedOrNot
  <2>3. NoScope.epoch <= instance'.epoch /\ NoScope.id <= instance'.begun
    BY <2>2 DEF NoScope
  <2> QED
    BY <2>1, <2>3 DEF InKernel
<1>4. OneIsNew'
  <2>1. ASSUME published'.scope # NoScope
        PROVE  Alive(published.scope)'
    BY <1>1, <2>1 DEF Alive, Expired
  <2>2. build'.at \notin AtScope /\ build'.at \notin {"endOld", "endNewToo"}
    BY DEF AtScope
  <2> QED
    BY <2>1, <2>2 DEF OneIsNew
<1>5. ScopesAccounted'
  BY <1>1, <1>2 DEF ScopesAccounted
<1> QED
  BY <1>3, <1>4, <1>5 DEF ScopeInv
LEMMA NewEndedKeeps ==
  ASSUME ScopeInv, NewEnded
  PROVE  ScopeInv'
<1>1. /\ build.at \in {"endNew", "endNewToo"} /\ build.at \in AtScope /\ JobEnds /\ jobs # <<>>
      /\ build.at \notin {"idle", "dispose"}
      /\ UNCHANGED <<definition, published, disposeRequested, disposePromise>>
  BY DEF NewEnded, ScopeInv, JobsInOrder, AtScope
<1>2. EndedOrNot(build.scope)
  BY EndsOrNot DEF NewEnded
<1>3. Job.kind # "dispose"
  BY <1>1 DEF ScopeInv, JobsInOrder
<1>4. /\ JobsInOrder' /\ jobs' \in Seq(JobType) /\ IsBuild(build')
      /\ \A k \in 1 .. Len(jobs') : jobs'[k].kind = "recompute" => jobs'[k].definition \in Definitions
      /\ build'.at = "idle" /\ build'.scope = NoScope
  BY <1>1, <1>3, EndsFirst
<1>5. ModelTypes'
  BY <1>1, <1>2, <1>4 DEF ScopeInv, ModelTypes, EndedOrNot
<1>6. /\ published.scope # NoScope => Alive(published.scope) /\ published.scope # build.scope
      /\ disposePromise' # "done"
  BY <1>1, StillToDo DEF ScopeInv, OneIsNew
<1> QED
  BY <1>1, <1>2, <1>4, <1>5, <1>6, EndedKeeps

LEMMA OldEndedKeeps ==
  ASSUME ScopeInv, OldEnded
  PROVE  ScopeInv'
<1>1. /\ build.at = "endOld" /\ build.at \in AtScope /\ jobs # <<>> /\ IsBuild(build)
      /\ UNCHANGED <<definition, disposeRequested, disposePromise>>
  BY DEF OldEnded, ScopeInv, ModelTypes, JobsInOrder, AtScope
<1>2. /\ Job.kind # "dispose" /\ disposePromise' # "done" /\ published.scope # NoScope
      /\ build.scope \in ScopeHandles /\ build.scope # published.scope /\ Alive(build.scope)
  BY <1>1, StillToDo DEF ScopeInv, JobsInOrder, OneIsNew, IsBuild
<1>3. CASE /\ EndsScope(published.scope)
           /\ Publish(build.scope, build.shapes) /\ JobEnds
  <2>1. EndedOrNot(published.scope) /\ published'.scope = build.scope
    BY <1>3, EndsOrNot DEF Publish
  <2>2. /\ JobsInOrder' /\ jobs' \in Seq(JobType) /\ IsBuild(build')
        /\ \A k \in 1 .. Len(jobs') : jobs'[k].kind = "recompute" => jobs'[k].definition \in Definitions
        /\ build'.at = "idle" /\ build'.scope = NoScope
    BY <1>1, <1>2, <1>3, EndsFirst
  <2>3. ModelTypes'
    BY <1>1, <1>2, <2>1, <2>2 DEF ScopeInv, ModelTypes, EndedOrNot
  <2> QED
    BY <1>2, <2>1, <2>2, <2>3, EndedKeeps
<1>4. CASE /\ FailsToEnd(published.scope)
           /\ build' = [build EXCEPT !.at = "endNewToo"]
           /\ UNCHANGED <<jobs, published>>
  <2>1. instance' = instance /\ unended' = unended \cup {published.scope}
    BY <1>4 DEF FailsToEnd
  <2>2. IsBuild(build') /\ build'.at = "endNewToo" /\ build'.scope = build.scope
    BY <1>1, <1>4 DEF IsBuild, AtScope
  <2>3. ModelTypes'
    BY <1>1, <1>4, <2>1, <2>2 DEF ScopeInv, ModelTypes
  <2>4. InKernel'
    BY <1>4, <2>1, <2>2 DEF ScopeInv, InKernel
  <2>5. JobsInOrder'
    BY <1>1, <1>2, <1>4, <2>2 DEF ScopeInv, JobsInOrder, Job
  <2>6. OneIsNew'
    BY <1>1, <1>2, <1>4, <2>1, <2>2 DEF ScopeInv, OneIsNew, AtScope, Alive, Expired
  <2>7. ScopesAccounted'
    BY <1>2, <1>4, <2>1, <2>2 DEF ScopeInv, ScopesAccounted
  <2> QED
    BY <2>3, <2>4, <2>5, <2>6, <2>7 DEF ScopeInv
<1> QED
  BY <1>3, <1>4 DEF OldEnded

LEMMA DisposedKeeps ==
  ASSUME ScopeInv, Disposed
  PROVE  ScopeInv'
<1>1. /\ build.at = "dispose" /\ build.scope = NoScope /\ JobEnds /\ jobs # <<>> /\ Job.kind = "dispose"
      /\ published.scope # NoScope /\ Alive(published.scope)
      /\ UNCHANGED <<definition, disposeRequested>>
  BY DEF Disposed, ScopeInv, JobsInOrder, OneIsNew, AtScope
<1>2. EndedOrNot(published.scope) /\ disposePromise' \in {"none", "done"}
  BY EndsOrNot DEF Disposed
<1>3. /\ JobsInOrder' /\ jobs' \in Seq(JobType) /\ IsBuild(build') /\ disposePromise' \in {"none", "pending", "done"}
      /\ \A k \in 1 .. Len(jobs') : jobs'[k].kind = "recompute" => jobs'[k].definition \in Definitions
      /\ build'.at = "idle" /\ build'.scope = NoScope
  BY <1>1, <1>2, EndsFirst
<1>4. \/ published'.scope = NoScope
      \/ published' = published /\ disposePromise' = "none" /\ instance' = instance
  BY DEF Disposed, Unpublished, FailsToEnd
<1>5. published'.scope \in ScopeHandles
  BY <1>4 DEF ScopeInv, ModelTypes, NoScope, ScopeHandles
<1>6. ModelTypes'
  BY <1>1, <1>2, <1>3, <1>5 DEF ScopeInv, ModelTypes, EndedOrNot
<1> QED
  BY <1>1, <1>2, <1>3, <1>4, <1>6, EndedKeeps

LEMMA ModelStutters ==
  ASSUME ScopeInv, edit \/ UNCHANGED modelVars
  PROVE  ScopeInv'
<1>1. /\ UNCHANGED <<jobs, build, published, disposeRequested, disposePromise, instance, unended>>
      /\ definition' \in Definitions
  BY DEF edit, modelVars, ScopeInv, ModelTypes
<1>2. ModelTypes'
  BY <1>1 DEF ScopeInv, ModelTypes
<1>3. InKernel' /\ JobsInOrder'
  BY <1>1 DEF ScopeInv, InKernel, JobsInOrder, Job
<1>4. OneIsNew' /\ ScopesAccounted'
  BY <1>1 DEF ScopeInv, OneIsNew, Alive, Expired, ScopesAccounted
<1> QED
  BY <1>2, <1>3, <1>4 DEF ScopeInv

LEMMA ScopeInvNext == ScopeInv /\ [ModelNext]_modelVars => ScopeInv'
BY RecomputeKeeps, DisposeKeeps, JobBeginsKeeps, ScopeBegunKeeps, FeatureBuiltKeeps, NewEndedKeeps,
   OldEndedKeeps, DisposedKeeps, RebuildInstanceKeeps, ModelStutters DEF ModelNext, Working

LEMMA ScopesInOrder == ModelSpec => []ScopeInv
<1> QED
  BY ScopeInvInit, ScopeInvNext, PTL DEF ModelSpec

\* No scope is lost: whatever features fail, the kernel is rebuilt or an end() refused,
\* the kernel holds no scope but the published one, that of the running recomputation
\* and those whose end() failed, and none of the model's is left after dispose().
THEOREM ScopesAreAccounted == ModelSpec => []ScopesAccounted
<1>1. ScopeInv => ScopesAccounted
  BY DEF ScopeInv
<1> QED
  BY <1>1, ScopesInOrder, PTL
-----------------------------------------------------------------------------
(* The parametric model: what it publishes.                                *)

\* The features before the i-th that are built when nothing fails.
UpTo(features, i) == {features[k].id : k \in {j \in 1 .. i - 1 : ~features[j].suppressed}}

\* While nothing failed the running recomputation holds all it came by; it gives up or
\* publishes what is whole.
BuildIsWhole ==
  /\ build.at \in {"beginScope"} \cup AtScope => orderFeatures(Job.definition).error = "none"
  /\ build.at = "beginScope" => build.i = 1 /\ build.shapes = {} /\ ~build.failed
  /\ build.at = "feature" =>
       /\ build.i \in 1 .. Len(Features) /\ ~Features[build.i].suppressed
       /\ ~build.failed => build.shapes = UpTo(Features, build.i)
  /\ build.at \in {"endOld", "endNewToo"} => build.shapes = Wanted(Job.definition)
PublishedWhole == published.scope # NoScope => published.shapes = Wanted(published.definition)

WholeInv == BuildIsWhole /\ PublishedWhole

LEMMA LeastOfNext ==
  ASSUME NEW T \in SUBSET Nat, T # {}
  PROVE  LET least == CHOOSE k \in T : \A j \in T : k <= j
         IN least \in T /\ \A j \in T : least <= j
<1> DEFINE R == {ss \in Nat \X Nat : ss[1] < ss[2]}
<1>1. IsWellFoundedOn(R, Nat)
  BY NatLessThanWellFounded, Zenon DEF OpToRel
<1> HIDE DEF R
<1>2. PICK x \in T : \A y \in T : ~ (<<y, x>> \in R)
  BY <1>1, WFMin, Zenon
<1>3. \A y \in T : ~(y < x)
  BY <1>2 DEF R
<1>4. \E k \in T : \A j \in T : k <= j
  BY <1>3
<1> QED
  BY <1>4, Zenon

\* The features between two places are skipped if all of them are suppressed.
LEMMA SkipsSuppressed ==
  ASSUME NEW features, NEW i \in Nat \ {0}, NEW k \in Nat, i <= k,
         \A j \in i .. k - 1 : features[j].suppressed
  PROVE  UpTo(features, k) = UpTo(features, i)
<1>1. {j \in 1 .. k - 1 : ~features[j].suppressed} = {j \in 1 .. i - 1 : ~features[j].suppressed}
  OBVIOUS
<1> QED
  BY <1>1 DEF UpTo

LEMMA OneBuilt ==
  ASSUME NEW features, NEW i \in Nat \ {0}, ~features[i].suppressed
  PROVE  UpTo(features, i + 1) = UpTo(features, i) \cup {features[i].id}
<1>1. {j \in 1 .. (i + 1) - 1 : ~features[j].suppressed} = {j \in 1 .. i - 1 : ~features[j].suppressed} \cup {i}
  OBVIOUS
<1> QED
  BY <1>1 DEF UpTo

\* Ordering a definition neither adds nor loses a feature: all of it is what is wanted.
LEMMA AllIsWanted ==
  ASSUME NEW features, OrderIsSound(features), orderFeatures(features).error = "none"
  PROVE  LET ordered == orderFeatures(features).ordered IN
         /\ Len(ordered) \in Nat /\ UpTo(ordered, 1) = {}
         /\ UpTo(ordered, Len(ordered) + 1) = Wanted(features)
<1> DEFINE ordered == orderFeatures(features).ordered
<1>1. ordered \in Seq(Range(features)) /\ Range(ordered) = Range(features)
  BY DEF OrderIsSound
<1> HIDE DEF ordered
<1>2. Len(ordered) \in Nat /\ DOMAIN ordered = 1 .. Len(ordered)
  BY <1>1
<1>3. (Len(ordered) + 1) - 1 = Len(ordered)
  BY <1>2
<1>4. UpTo(ordered, Len(ordered) + 1) = {f.id : f \in {g \in Range(ordered) : ~g.suppressed}}
  BY <1>2, <1>3 DEF UpTo, Range
<1>5. Wanted(features) = {f.id : f \in {g \in Range(features) : ~g.suppressed}}
  BY DEF Wanted, Range
<1>6. UpTo(ordered, 1) = {}
  BY DEF UpTo
<1> QED
  BY <1>1, <1>2, <1>4, <1>5, <1>6 DEF ordered
\* The loop, from a build b that holds all it came by if nothing failed: it comes to the
\* next feature that is built, gives up, or has all that is wanted.
LoopEnds(b) ==
  \/ /\ UNCHANGED <<jobs, published>> /\ build'.at = "feature"
     /\ build'.i \in 1 .. Len(Features) /\ ~Features[build'.i].suppressed
     /\ ~build'.failed => build'.shapes = UpTo(Features, build'.i)
  \/ UNCHANGED <<jobs, published>> /\ build'.at = "endNew"
  \/ /\ UNCHANGED <<jobs, published>> /\ build'.at = "endOld"
     /\ build'.shapes = Wanted(Job.definition)
  \/ /\ JobEnds /\ published'.shapes = Wanted(Job.definition)
     /\ published'.definition = Job.definition

LEMMA LoopIsWhole ==
  ASSUME OrderIsSound(Job.definition), orderFeatures(Job.definition).error = "none",
         NEW b, IsBuild(b), b.i \in 1 .. Len(Features) + 1,
         ~b.failed => b.shapes = UpTo(Features, b.i), Advance(b)
  PROVE  LoopEnds(b)
<1> DEFINE next == ToBuild(b)
           i == CHOOSE k \in next : \A j \in next : k <= j
           last == IF next = {} THEN Len(Features) ELSE i
           failed == b.failed \/ \E k \in b.i .. last : Missing(Features[k], b.shapes)
<1>1. /\ Len(Features) \in Nat
      /\ UpTo(Features, Len(Features) + 1) = Wanted(Job.definition)
  BY AllIsWanted DEF Features
<1>2. next \in SUBSET Nat
  BY <1>1 DEF ToBuild
<1>3. ASSUME NEW k \in b.i .. Len(Features), ~Missing(Features[k], b.shapes), k \notin next
      PROVE  Features[k].suppressed
  BY <1>3 DEF ToBuild
<1>4. next # {} => i \in next /\ \A j \in next : i <= j
  BY <1>2, LeastOfNext
<1>5. ASSUME NEW k \in next
      PROVE  k \in b.i .. Len(Features) /\ ~Features[k].suppressed
  BY DEF ToBuild
<1>6. \/ /\ next # {} /\ build' = [b EXCEPT !.at = "feature", !.i = i, !.failed = failed]
         /\ UNCHANGED <<jobs, published>>
      \/ /\ next = {} /\ build' = [b EXCEPT !.at = "endNew", !.failed = TRUE]
         /\ UNCHANGED <<jobs, published>>
      \/ next = {} /\ ~failed /\ Publishes(b)
  BY DEF Advance
<1>7. ~failed => ~b.failed /\ \A k \in b.i .. last : ~Missing(Features[k], b.shapes)
  OBVIOUS
<1>8. (next # {} => last = i) /\ (next = {} => last = Len(Features))
  OBVIOUS
<1> HIDE DEF next, i, last, failed
<1>9. CASE next # {} /\ build' = [b EXCEPT !.at = "feature", !.i = i, !.failed = failed]
           /\ UNCHANGED <<jobs, published>>
  <2>1. build'.at = "feature" /\ build'.i = i /\ build'.shapes = b.shapes /\ build'.failed = failed
    BY <1>9 DEF IsBuild
  <2>2. /\ i \in next /\ i \in b.i .. Len(Features) /\ ~Features[i].suppressed /\ last = i
        /\ b.i \in Nat \ {0} /\ i \in 1 .. Len(Features) /\ i \in Nat
        /\ \A j \in next : i <= j
    BY <1>1, <1>4, <1>5, <1>8, <1>9
  <2>3. ASSUME ~failed
        PROVE  b.shapes = UpTo(Features, i)
    <3>1. ASSUME NEW k \in b.i .. i - 1
          PROVE  Features[k].suppressed
      <4>1. k \in b.i .. last /\ k \in b.i .. Len(Features) /\ k \notin next
        BY <1>1, <2>2
      <4> QED
        BY <1>3, <1>7, <2>3, <4>1
    <3>2. UpTo(Features, i) = UpTo(Features, b.i)
      BY <2>2, <3>1, SkipsSuppressed
    <3> QED
      BY <1>7, <2>3, <3>2
  <2> QED
    BY <1>9, <2>1, <2>2, <2>3 DEF LoopEnds
<1>10. CASE next = {} /\ build' = [b EXCEPT !.at = "endNew", !.failed = TRUE]
            /\ UNCHANGED <<jobs, published>>
  <2>1. build'.at = "endNew"
    BY <1>10 DEF IsBuild
  <2> QED
    BY <1>10, <2>1 DEF LoopEnds
<1>11. CASE next = {} /\ ~failed /\ Publishes(b)
  <2>1. \A k \in b.i .. Len(Features) : Features[k].suppressed
    BY <1>3, <1>7, <1>8, <1>11
  <2>2. /\ b.i \in Nat \ {0} /\ Len(Features) + 1 \in Nat /\ b.i <= Len(Features) + 1
        /\ (Len(Features) + 1) - 1 = Len(Features)
    BY <1>1
  <2>3. UpTo(Features, Len(Features) + 1) = UpTo(Features, b.i)
    BY <2>1, <2>2, SkipsSuppressed
  <2>4. b.shapes = Wanted(Job.definition)
    BY <1>1, <1>7, <1>11, <2>3
  <2>5. CASE published.scope = NoScope
    BY <1>11, <2>4, <2>5 DEF Publishes, Publish, LoopEnds
  <2>6. CASE published.scope # NoScope
    <3>1. UNCHANGED <<jobs, published>> /\ build' = [b EXCEPT !.at = "endOld"]
      BY <1>11, <2>6 DEF Publishes
    <3>2. build'.at = "endOld" /\ build'.shapes = b.shapes
      BY <3>1 DEF IsBuild
    <3> QED
      BY <2>4, <3>1, <3>2 DEF LoopEnds
  <2> QED
    BY <2>5, <2>6
<1> QED
  BY <1>6, <1>9, <1>10, <1>11
\* The definition the running recomputation builds is one of those the model was given.
LEMMA BuildsDefinition ==
  ASSUME \A d \in Definitions : OrderIsSound(d), ScopeInv, BuildIsWhole,
         build.at \in {"beginScope"} \cup AtScope
  PROVE  OrderIsSound(Job.definition) /\ orderFeatures(Job.definition).error = "none"
<1>1. jobs # <<>> /\ Job.kind # "dispose"
  BY DEF ScopeInv, JobsInOrder, AtScope
<1>2. Job = jobs[1] /\ Len(jobs) \in Nat \ {0} /\ Job.kind = "recompute"
  BY <1>1, StillToDo
<1>3. Job.definition \in Definitions
  BY <1>2 DEF ScopeInv, ModelTypes
<1> QED
  BY <1>3 DEF BuildIsWhole

LEMMA LoopKeeps ==
  ASSUME WholeInv, orderFeatures(Job.definition).error = "none", NEW b, LoopEnds(b)
  PROVE  WholeInv'
<1>1. CASE JobEnds /\ published'.shapes = Wanted(Job.definition) /\ published'.definition = Job.definition
  <2>1. build'.at = "idle"
    BY <1>1 DEF JobEnds, Idle
  <2>2. BuildIsWhole'
    BY <2>1 DEF BuildIsWhole, AtScope
  <2>3. PublishedWhole'
    BY <1>1 DEF PublishedWhole
  <2> QED
    BY <2>2, <2>3 DEF WholeInv
<1>2. ASSUME UNCHANGED <<jobs, published>>
      PROVE  /\ PublishedWhole' /\ Job' = Job /\ Features' = Features
             /\ orderFeatures(Job'.definition).error = "none"
  BY <1>2 DEF WholeInv, PublishedWhole, Job, Features
<1>3. CASE /\ UNCHANGED <<jobs, published>> /\ build'.at = "feature"
           /\ build'.i \in 1 .. Len(Features) /\ ~Features[build'.i].suppressed
           /\ ~build'.failed => build'.shapes = UpTo(Features, build'.i)
  BY <1>2, <1>3 DEF WholeInv, BuildIsWhole
<1>4. CASE UNCHANGED <<jobs, published>> /\ build'.at = "endNew"
  BY <1>2, <1>4 DEF WholeInv, BuildIsWhole
<1>5. CASE /\ UNCHANGED <<jobs, published>> /\ build'.at = "endOld"
           /\ build'.shapes = Wanted(Job.definition)
  BY <1>2, <1>5 DEF WholeInv, BuildIsWhole
<1> QED
  BY <1>1, <1>3, <1>4, <1>5 DEF LoopEnds

LEMMA WholeInvInit == ModelInit => WholeInv
<1> SUFFICES ASSUME ModelInit
             PROVE  WholeInv
  OBVIOUS
<1>1. build.at = "idle" /\ published.scope = NoScope
  BY DEF ModelInit, Idle, Unpublished
<1> QED
  BY <1>1 DEF WholeInv, BuildIsWhole, PublishedWhole, AtScope

\* When a job ends, or is no recomputation, nothing is asked of its build.
LEMMA NoBuildIsWhole ==
  ASSUME PublishedWhole', build'.at \in {"idle", "dispose"}
  PROVE  WholeInv'
BY DEF WholeInv, BuildIsWhole, AtScope

LEMMA JobBeginsWhole ==
  ASSUME WholeInv, JobBegins
  PROVE  WholeInv'
<1>1. PublishedWhole
  BY DEF WholeInv
<1>2. CASE JobEnds /\ UNCHANGED published
  BY <1>1, <1>2, NoBuildIsWhole DEF JobEnds, Idle, PublishedWhole
<1>3. CASE /\ orderFeatures(Job.definition).error = "none" /\ UNCHANGED <<jobs, published>>
           /\ build' = [Idle EXCEPT !.at = "beginScope", !.since = instance.epoch]
  <2>1. build'.at = "beginScope" /\ build'.i = 1 /\ build'.shapes = {} /\ ~build'.failed
    BY <1>3 DEF Idle
  <2>2. BuildIsWhole'
    BY <1>3, <2>1 DEF BuildIsWhole, Job
  <2> QED
    BY <1>1, <1>3, <2>2 DEF WholeInv, PublishedWhole
<1>4. CASE published' = Unpublished /\ JobEnds
  BY <1>4, NoBuildIsWhole DEF JobEnds, Idle, PublishedWhole, Unpublished
<1>5. CASE build' = [Idle EXCEPT !.at = "dispose"] /\ UNCHANGED <<jobs, published>>
  <2>1. build'.at = "dispose"
    BY <1>5 DEF Idle
  <2> QED
    BY <1>1, <1>5, <2>1, NoBuildIsWhole DEF PublishedWhole
<1> QED
  BY <1>2, <1>3, <1>4, <1>5 DEF JobBegins

LEMMA ScopeBegunWhole ==
  ASSUME \A d \in Definitions : OrderIsSound(d), ScopeInv, WholeInv, ScopeBegun
  PROVE  WholeInv'
<1>1. /\ build.at = "beginScope" /\ IsBuild(build)
      /\ build.i = 1 /\ build.shapes = {} /\ ~build.failed
  BY DEF ScopeBegun, ScopeInv, ModelTypes, WholeInv, BuildIsWhole
<1>2. OrderIsSound(Job.definition) /\ orderFeatures(Job.definition).error = "none"
  BY <1>1, BuildsDefinition DEF WholeInv
<1>3. Len(Features) \in Nat /\ UpTo(Features, 1) = {}
  BY <1>2, AllIsWanted DEF Features
<1>4. ASSUME NEW scope \in ScopeHandles, Advance([build EXCEPT !.scope = scope])
      PROVE  WholeInv'
  <2> DEFINE b == [build EXCEPT !.scope = scope]
  <2>1. IsBuild(b) /\ b.i = build.i /\ b.shapes = build.shapes /\ b.failed = build.failed
    BY <1>1, <1>4 DEF IsBuild
  <2>2. Advance(b)
    BY <1>4
  <2> HIDE DEF b
  <2>3. b.i \in 1 .. Len(Features) + 1 /\ (~b.failed => b.shapes = UpTo(Features, b.i))
    BY <1>1, <1>3, <2>1
  <2>4. LoopEnds(b)
    BY <1>2, <2>1, <2>2, <2>3, LoopIsWhole
  <2> QED
    BY <1>2, <2>4, LoopKeeps
<1>5. [epoch |-> instance.epoch, id |-> instance.begun + 1] \in ScopeHandles
  <2>1. instance \in [epoch : Nat \ {0}, scopes : SUBSET ScopeHandles, begun : Nat]
    BY DEF ScopeInv, ModelTypes
  <2>2. instance.epoch \in Nat /\ instance.begun + 1 \in Nat
    BY ONLY <2>1
  <2> QED
    BY <2>2 DEF ScopeHandles
<1>6. CASE JobEnds /\ published' = published
  BY <1>6, NoBuildIsWhole DEF JobEnds, Idle, WholeInv, PublishedWhole
<1> QED
  BY <1>4, <1>5, <1>6 DEF ScopeBegun

LEMMA FeatureBuiltWhole ==
  ASSUME \A d \in Definitions : OrderIsSound(d), ScopeInv, WholeInv, FeatureBuilt
  PROVE  WholeInv'
<1>1. /\ build.at = "feature" /\ build.at \in AtScope /\ IsBuild(build)
      /\ build.i \in 1 .. Len(Features) /\ ~Features[build.i].suppressed
      /\ ~build.failed => build.shapes = UpTo(Features, build.i)
  BY DEF FeatureBuilt, ScopeInv, ModelTypes, WholeInv, BuildIsWhole, AtScope
<1>2. OrderIsSound(Job.definition) /\ orderFeatures(Job.definition).error = "none"
  BY <1>1, BuildsDefinition DEF WholeInv
<1>3. Len(Features) \in Nat
  BY <1>2, AllIsWanted DEF Features
<1>4. /\ build.i \in Nat \ {0} /\ build.i + 1 \in 1 .. Len(Features) + 1
      /\ UpTo(Features, build.i + 1) = UpTo(Features, build.i) \cup {Features[build.i].id}
  <2>1. build.i \in Nat \ {0} /\ build.i + 1 \in 1 .. Len(Features) + 1 /\ ~Features[build.i].suppressed
    BY <1>1, <1>3
  <2> QED
    BY ONLY <2>1, OneBuilt
<1>5. ASSUME NEW b, IsBuild(b), b.i = build.i + 1,
             ~b.failed => b.shapes = UpTo(Features, build.i + 1), Advance(b)
      PROVE  WholeInv'
  BY <1>2, <1>4, <1>5, LoopIsWhole, LoopKeeps
<1>6. ASSUME NEW i, i = build.i + 1, NEW b, b = [build EXCEPT !.i = i, !.failed = TRUE], Advance(b)
      PROVE  WholeInv'
  <2>1. IsBuild(b) /\ b.i = i /\ b.failed
    BY <1>1, <1>6 DEF IsBuild
  <2> QED
    BY <1>5, <1>6, <2>1
<1>7. ASSUME NEW i, i = build.i + 1, NEW kept, kept = build.shapes \cup {Features[build.i].id},
             NEW failed \in BOOLEAN, build.failed => failed, NEW b,
             b = [build EXCEPT !.i = i, !.shapes = kept, !.failed = failed], Advance(b)
      PROVE  WholeInv'
  <2>1. IsBuild(b) /\ b.i = i /\ b.failed = failed /\ b.shapes = kept
    BY <1>1, <1>7 DEF IsBuild
  <2> QED
    BY <1>1, <1>4, <1>5, <1>7, <2>1
<1>8. \A unresolved \in BOOLEAN : (build.failed \/ unresolved) \in BOOLEAN
  BY <1>1 DEF IsBuild
<1> QED
  BY <1>6, <1>7, <1>8 DEF FeatureBuilt
LEMMA EndsAreWhole ==
  ASSUME ScopeInv, WholeInv, NewEnded \/ OldEnded \/ Disposed
  PROVE  WholeInv'
<1>1. PublishedWhole
  BY DEF WholeInv
<1>2. CASE published' = published /\ JobEnds
  BY <1>1, <1>2, NoBuildIsWhole DEF JobEnds, Idle, PublishedWhole
<1>3. CASE published' = Unpublished /\ JobEnds
  BY <1>3, NoBuildIsWhole DEF JobEnds, Idle, PublishedWhole, Unpublished
<1>4. CASE build.at = "endOld" /\ Publish(build.scope, build.shapes) /\ JobEnds
  <2>1. build.shapes = Wanted(Job.definition)
    BY <1>4 DEF WholeInv, BuildIsWhole
  <2> QED
    BY <1>4, <2>1, NoBuildIsWhole DEF JobEnds, Idle, Publish, PublishedWhole
<1>5. CASE build.at = "endOld" /\ build' = [build EXCEPT !.at = "endNewToo"] /\ UNCHANGED <<jobs, published>>
  <2>1. IsBuild(build) /\ build.shapes = Wanted(Job.definition) /\ orderFeatures(Job.definition).error = "none"
    BY <1>5 DEF ScopeInv, ModelTypes, WholeInv, BuildIsWhole, AtScope
  <2>2. build'.at = "endNewToo" /\ build'.shapes = build.shapes
    BY <1>5, <2>1 DEF IsBuild
  <2>3. BuildIsWhole'
    BY <1>5, <2>1, <2>2 DEF BuildIsWhole, Job
  <2> QED
    BY <1>1, <1>5, <2>3 DEF WholeInv, PublishedWhole
<1> QED
  BY <1>2, <1>3, <1>4, <1>5 DEF NewEnded, OldEnded, Disposed

\* A job that is added comes last: the running one stays the first.
LEMMA OthersAreWhole ==
  ASSUME ScopeInv, WholeInv, recompute \/ dispose \/ edit \/ RebuildInstance \/ UNCHANGED modelVars
  PROVE  WholeInv'
<1>1. UNCHANGED <<build, published>>
  BY DEF recompute, dispose, edit, RebuildInstance, modelVars
<1>2. build.at # "idle" => Job' = Job
  <2>1. jobs \in Seq(JobType) /\ definition \in Definitions /\ (build.at # "idle" => jobs # <<>>)
    BY DEF ScopeInv, ModelTypes, JobsInOrder
  <2>2. \/ jobs' = jobs
        \/ jobs' = Append(jobs, [kind |-> "recompute", definition |-> definition])
        \/ jobs' = Append(jobs, [kind |-> "dispose", definition |-> <<>>])
    BY DEF recompute, dispose, edit, RebuildInstance, modelVars
  <2>3. ASSUME NEW new \in JobType, jobs' = Append(jobs, new), jobs # <<>>
        PROVE  Job' = Job
    BY <2>1, <2>3, OneMore DEF Job
  <2>4. [kind |-> "recompute", definition |-> definition] \in JobType /\ [kind |-> "dispose", definition |-> <<>>] \in JobType
    BY <2>1 DEF JobType
  <2> QED
    BY <2>1, <2>2, <2>3, <2>4 DEF Job
<1>3. build.at # "idle" => Features' = Features
  BY <1>2 DEF Features
<1>4. BuildIsWhole'
  BY <1>1, <1>2, <1>3 DEF WholeInv, BuildIsWhole, AtScope
<1> QED
  BY <1>1, <1>4 DEF WholeInv, PublishedWhole

LEMMA WholeInvNext ==
  ASSUME \A d \in Definitions : OrderIsSound(d), ScopeInv, WholeInv, [ModelNext]_modelVars
  PROVE  WholeInv'
BY JobBeginsWhole, ScopeBegunWhole, FeatureBuiltWhole, EndsAreWhole, OthersAreWhole DEF ModelNext, Working

\* What a model publishes is every feature of one definition that is not suppressed, in
\* a scope the kernel still holds unless it was rebuilt: provided that orderFeatures
\* orders the definitions users give, which is checked for those of three features.
THEOREM PublishedResultsAreWhole ==
  ASSUME \A d \in Definitions : OrderIsSound(d)
  PROVE  ModelSpec => []PublishedIsWhole
<1>1. ScopeInv /\ WholeInv /\ [ModelNext]_modelVars => WholeInv'
  BY WholeInvNext
<1>2. ScopeInv /\ WholeInv => PublishedIsWhole
  BY DEF ScopeInv, OneIsNew, WholeInv, PublishedWhole, PublishedIsWhole, Alive
<1> QED
  BY <1>1, <1>2, WholeInvInit, ScopesInOrder, PTL DEF ModelSpec
=============================================================================
