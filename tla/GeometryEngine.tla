--------------------------- MODULE GeometryEngine ---------------------------
(***************************************************************************)
(* The coordinator of isolated profiles (ts/src/engine.ts).  A logical     *)
(* shape has placements, each a handle in the runtime of one profile.      *)
(*                                                                         *)
(* A call is an async method; a step of it runs from one await to the      *)
(* next.  Steps whose promise is settled run before anything else happens: *)
(* runtimes answer, fail and are rebuilt, and users begin calls, only      *)
(* between turns (Quiet).                                                  *)
(***************************************************************************)
EXTENDS ProfileRuntime, FiniteSets

CONSTANTS
  Profile,        \* the registered profiles
  Kinds,          \* what each call may be: a subset of AllKinds
  Eligible,       \* the profiles that can run a call's operation, in order
  MaxInputs,      \* bound: shapes an operation names
  MaxLosses,      \* bound: rebuilds and invalidations
  Closes          \* whether the user closes the engine

AllKinds == {"create", "request", "cloneTo", "releasePlacement", "releaseShape", "releaseAll",
             "probeProfile"}

ASSUME EngineAssumption ==
  /\ Kinds \in [Call -> SUBSET AllKinds]
  /\ Eligible \in [Call -> Seq(Profile) \ {<<>>}]
  /\ MaxInputs \in Nat /\ MaxOutputs \in Nat /\ MaxLosses \in Nat /\ Closes \in BOOLEAN
  /\ IsFiniteSet(Call)

VARIABLES
  profiles,       \* #profiles: runtime and starting are positions in runtimes, or 0
  placements,     \* every placement; its number stands for its id and its ref
  logical,        \* every logical shape: the placements in its map
  shapes,         \* #shapes: the logical shapes that are in it
  scopeRefs,      \* #scopeRefs: <<profile, scope id>> -> count, 0 when absent
  phase,          \* close(): "open", "closing" or "closed"
  awaited,        \* the runtimes close() waits for
  calls,          \* the async methods
  losses          \* bound

engineVars == <<profiles, placements, logical, shapes, scopeRefs, phase, awaited, losses>>
vars == <<runtimes, profiles, placements, logical, shapes, scopeRefs, phase,
          awaited, calls, losses>>

Count(p, s) == IF <<p, s>> \in DOMAIN scopeRefs THEN scopeRefs[<<p, s>>] ELSE 0

Counted(p, s, n) ==
  IF n = 0 THEN [k \in (DOMAIN scopeRefs) \ {<<p, s>>} |-> scopeRefs[k]]
  ELSE [k \in (DOMAIN scopeRefs) \cup {<<p, s>>} |-> IF k = <<p, s>> THEN n ELSE scopeRefs[k]]

\* A call that has not begun.  at: what it waits for; next: the question it has
\* for the runtime it waits for; source: the placement it transfers; held: its
\* leases; own: it opened its scope; todo: the placements of shape it has yet to
\* release; rest: the shapes that follow.
Unbegun ==
  [kind |-> "none", at |-> "begin", reply |-> "none", value |-> <<>>, refs |-> <<>>,
   i |-> 1, target |-> "none", rt |-> 0, next |-> "none", source |-> 0,
   epoch |-> 0, held |-> <<>>, scope |-> 0, own |-> FALSE, todo |-> {}, shape |-> 0,
   rest |-> {}]
Ended(outcome) == [Unbegun EXCEPT !.at = outcome]

Init ==
  /\ runtimes = <<>>
  /\ profiles = [p \in Profile |-> [runtime |-> 0, runtimeEpoch |-> 0, starting |-> 0, epoch |-> 1]]
  /\ placements = <<>> /\ logical = <<>> /\ shapes = {}
  /\ scopeRefs = [k \in {} |-> 0]
  /\ phase = "open" /\ awaited = {}
  /\ calls = [c \in Call |-> Unbegun]
  /\ losses = 0

Quiet == \A c \in Call : calls[c].reply = "none"

-----------------------------------------------------------------------------
(* #profileState: a profile whose runtime shows another epoch than when it  *)
(* was last looked at gets a new epoch, and its placements are invalid.     *)

\* The placement is in the map of its shape, and its shape is in #shapes.
Kept(n) == placements[n].shape \in shapes /\ n \in logical[placements[n].shape]

InvalidPlacements(P, ps) ==
  [n \in DOMAIN ps |->
     IF ps[n].profile \in P /\ Kept(n) THEN [ps[n] EXCEPT !.state = "invalid"] ELSE ps[n]]

\* Mutant of Rebuilds: rebuilds go unnoticed.
RebuildsNever(p) == FALSE

Rebuilds(p) ==
  /\ profiles[p].runtime # 0
  /\ runtimes[profiles[p].runtime].kernel.epoch # profiles[p].runtimeEpoch

\* profiles and placements once #profileState was called for the profiles P.
Seen(P) ==
  LET lost == {p \in P : Rebuilds(p)} IN
  [profiles |-> [p \in Profile |->
     IF p \in lost THEN [profiles[p] EXCEPT !.epoch = @ + 1,
                           !.runtimeEpoch = runtimes[profiles[p].runtime].kernel.epoch]
     ELSE profiles[p]],
   placements |-> InvalidPlacements(lost, placements)]

-----------------------------------------------------------------------------
(* Asking a runtime.                                                       *)

\* The placement a call releases next, in the order in which they were made.
First(call) == Min(call.todo)

Names(call, op) ==
  CASE op = "exportBREP" -> {call.source}
    [] op = "op" -> {call.held[i] : i \in DOMAIN call.held}
    [] op = "release" -> {First(call)}
    [] OTHER -> {}

\* call becomes c's state, waiting for the answer of runtime r; a runtime that is
\* closed rejects.
Ask(c, call, r, op) ==
  LET up == runtimes[r].state = "up" IN
  /\ calls' = [calls EXCEPT ![c] =
       [call EXCEPT !.at = op, !.rt = r, !.reply = IF up THEN "none" ELSE "error"]]
  /\ runtimes' = IF ~up THEN runtimes
                 ELSE [runtimes EXCEPT ![r].queue = Append(@, Question(c, op,
                         {placements[n].handle : n \in Names(call, op)}, call.scope))]

\* #runtimeFor, then the question op.  seen: profiles after #profileState(p).
Reach(c, call, seen, p, op) ==
  LET s == seen[p] IN
  \/ /\ s.runtime # 0
     /\ Ask(c, call, s.runtime, op)
     /\ profiles' = seen
  \/ /\ s.runtime = 0
     /\ IF s.starting # 0 THEN runtimes' = runtimes /\ profiles' = seen
        ELSE /\ runtimes' = Append(runtimes, NewRuntime(p, s.epoch))
             /\ profiles' = [seen EXCEPT ![p].starting = Len(runtimes) + 1]
     /\ calls' = [calls EXCEPT ![c] = [call EXCEPT !.at = "start", !.next = op, !.reply = "none",
                    !.rt = IF s.starting # 0 THEN s.starting ELSE Len(runtimes) + 1]]

-----------------------------------------------------------------------------
(* Placements.                                                             *)

Times(n, ns) == Cardinality({k \in DOMAIN ns : ns[k] = n})

\* Mutant of Leased: leases are not given back.
LeasedOnly(ps, ns, d) ==
  [n \in DOMAIN ps |-> IF d = 1 THEN [ps[n] EXCEPT !.leaseCount = @ + Times(n, ns)] ELSE ps[n]]

\* A placement in the list ns twice has two leases: inputs can be cloned to the same.
Leased(ps, ns, d) ==
  [n \in DOMAIN ps |-> [ps[n] EXCEPT !.leaseCount = @ + d * Times(n, ns)]]

\* origin is not in the code: the kernel that made the handle.
Placement(p, epoch, h, s, shape, r) ==
  [profile |-> p, epoch |-> epoch, handle |-> h, scope |-> s, shape |-> shape,
   leaseCount |-> 0, state |-> "live", origin |-> <<r, runtimes[r].kernel.epoch>>]

\* #placementForRef, once #profileState was called.
IsLive(ps, n) == Kept(n) /\ ps[n].state = "live"

\* A transfer begins: its source has a lease.
Lent(ps, n) == [ps EXCEPT ![n].state = "transferring", ![n].leaseCount = @ + 1]

\* It is over: the source is live again, if its profile still has its epoch.
GivenBack(ps, n, current) ==
  [ps EXCEPT ![n].leaseCount = @ - 1,
             ![n].state = IF @ = "transferring" /\ current THEN "live" ELSE @]
SourceBack(e, n) ==
  IF n = 0 THEN e.placements
  ELSE GivenBack(e.placements, n, e.profiles[placements[n].profile].epoch = placements[n].epoch)

\* A call ends by an exception, or has nothing left to do: the finally clauses of
\* cloneTo and request.  P: the profiles that #profileState was called for.
Finally(c, call, P, outcome) ==
  LET n == call.source
      transferring == n # 0 /\ placements[n].state = "transferring"
      e == Seen(P \cup IF transferring THEN {placements[n].profile} ELSE {})
  IN /\ placements' = Leased(SourceBack(e, n), call.held, -1)
     /\ profiles' = e.profiles
     /\ calls' = [calls EXCEPT ![c] = Ended(outcome)]
     /\ UNCHANGED <<runtimes, logical, shapes, scopeRefs, phase, awaited, losses>>

-----------------------------------------------------------------------------
(* request: the inputs are leased in the target profile, one after another. *)

Existing(ps, n, q) ==
  {m \in logical[placements[n].shape] : ps[m].profile = q /\ ps[m].state = "live"}

\* #uniqueTarget: the profile of all inputs; else one where every shape has a
\* placement already; else the first that can run the operation.
Target(c, refs, ps) ==
  LET own == {placements[n].profile : n \in Range(refs)}
      common == {k \in DOMAIN Eligible[c] : \A n \in Range(refs) : Existing(ps, n, Eligible[c][k]) # {}}
  IN IF Cardinality(own) = 1 /\ own \subseteq Range(Eligible[c]) THEN placements[refs[1]].profile
     ELSE IF common # {} THEN Eligible[c][Min(common)] ELSE Eligible[c][1]

\* cloneTo of n to call.target, in the state e: an existing placement is taken as
\* it is, else the source is exported.
Clone(c, call, e, n) ==
  /\ IF Existing(e.placements, n, call.target) # {}
     THEN /\ placements' = e.placements
          /\ profiles' = e.profiles
          /\ calls' = [calls EXCEPT ![c] = [call EXCEPT !.at = "cloned", !.reply = "ok",
                         !.value = <<Min(Existing(e.placements, n, call.target))>>]]
          /\ runtimes' = runtimes
     ELSE /\ placements' = Lent(e.placements, n)
          /\ Reach(c, [call EXCEPT !.source = n], e.profiles, placements[n].profile, "exportBREP")
  /\ UNCHANGED <<logical, shapes, scopeRefs, phase, awaited, losses>>

\* The position of the first input from call.i on that is not in the target profile.
FirstForeign(call) ==
  Min({k \in call.i .. Len(call.refs) : placements[call.refs[k]].profile # call.target}
        \cup {Len(call.refs) + 1})

\* The loop over the inputs up to its next await.  cloned: the placement the last
\* await returned, if any.  When all are leased the operation goes to the runtime,
\* with the handles as they were read when each was leased.
Inputs(c, call, cloned) ==
  LET j == FirstForeign(call)
      near == cloned \o SubSeq(call.refs, call.i, j - 1)
      looked == Range(near) \cup IF j <= Len(call.refs) THEN {call.refs[j]} ELSE {}
      P == {placements[n].profile : n \in looked}
      toTarget == Seen(P \cup {call.target})
      e == Seen(P)
      more == [call EXCEPT !.i = j + 1, !.held = @ \o near, !.value = <<>>]
  IN \/ /\ \E n \in looked : ~IsLive(e.placements, n)
        /\ Finally(c, call, P, "failed")
     \/ /\ \A n \in looked : IsLive(e.placements, n)
        /\ j <= Len(call.refs)
        /\ Clone(c, more, [e EXCEPT !.placements = Leased(@, near, 1)], call.refs[j])
     \/ /\ \A n \in looked : IsLive(e.placements, n)
        /\ j > Len(call.refs)
        /\ placements' = Leased(toTarget.placements, near, 1)
        /\ IF more.held # <<>>
           THEN Reach(c, [more EXCEPT !.scope = placements[more.held[1]].scope],
                      toTarget.profiles, call.target, "op")
           ELSE Reach(c, [more EXCEPT !.own = TRUE], toTarget.profiles, call.target, "beginScope")
        /\ UNCHANGED <<logical, shapes, scopeRefs, phase, awaited, losses>>

-----------------------------------------------------------------------------
(* Calls begin.                                                            *)

Begins(c, kind) == phase = "open" /\ Quiet /\ calls[c].at = "begin" /\ kind \in Kinds[c]

Refs == {n \in DOMAIN placements : IsLive(placements, n)}

Create(c) ==
  /\ Begins(c, "create")
  /\ \E p \in Range(Eligible[c]) :
       /\ Reach(c, [Unbegun EXCEPT !.kind = "create", !.target = p, !.own = TRUE],
                Seen({p}).profiles, p, "beginScope")
       /\ placements' = Seen({p}).placements
  /\ UNCHANGED <<logical, shapes, scopeRefs, phase, awaited, losses>>

\* Every input is looked at first; a stale one makes the call fail.
Request(c) ==
  /\ Begins(c, "request")
  /\ \E refs \in UNION {[1 .. k -> Refs] : k \in 0 .. MaxInputs} :
       /\ IsInjective(refs)
       /\ LET P == {placements[n].profile : n \in Range(refs)}
              ps == Seen(P).placements
          IN /\ \A n \in Range(refs) : IsLive(ps, n)
             /\ Inputs(c, [Unbegun EXCEPT !.kind = "request", !.refs = refs,
                             !.target = Target(c, refs, ps)], <<>>)

CloneTo(c) ==
  /\ Begins(c, "cloneTo")
  /\ \E n \in Refs, q \in Profile :
       LET e == Seen({placements[n].profile}) IN
       /\ IsLive(e.placements, n)
       /\ Clone(c, [Unbegun EXCEPT !.kind = "cloneTo", !.target = q], e, n)

ProbeProfile(c) ==
  /\ Begins(c, "probeProfile")
  /\ \E p \in Profile :
       /\ Reach(c, [Unbegun EXCEPT !.kind = "probeProfile", !.target = p], Seen({p}).profiles, p, "capabilities")
       /\ placements' = Seen({p}).placements
  /\ UNCHANGED <<logical, shapes, scopeRefs, phase, awaited, losses>>

-----------------------------------------------------------------------------
(* Calls go on.  The question was answered ("ok") or rejected ("error").    *)

Goes(c, at) == calls[c].at = at /\ calls[c].reply # "none"
Ok(c) == calls[c].reply = "ok"

TheValue(c) == Head(calls[c].value)

\* Mutant of Start: a failed start is not passed on.
StartOkOnly(c) ==
  /\ Goes(c, "start") /\ Ok(c)
  /\ Ask(c, calls[c], calls[c].rt, calls[c].next)
  /\ UNCHANGED engineVars

Start(c) ==
  /\ Goes(c, "start")
  /\ \/ /\ Ok(c)
        /\ Ask(c, calls[c], calls[c].rt, calls[c].next)
        /\ UNCHANGED engineVars
     \/ /\ ~Ok(c)
        /\ Finally(c, calls[c], {}, "failed")

\* Mutant of Cleanup: the scope is left open.
CleanupNothing(c, e) == Finally(c, calls[c], {}, "failed")

\* The catch clauses: the scope that was opened is ended, whatever comes of it.
Cleanup(c, e) ==
  /\ placements' = e.placements
  /\ profiles' = e.profiles
  /\ Ask(c, calls[c], calls[c].rt, "endScope")
  /\ UNCHANGED <<logical, shapes, scopeRefs, phase, awaited, losses>>

Opened(c) ==
  LET p == calls[c].target
      e == Seen({p})
      call == [calls[c] EXCEPT !.scope = TheValue(c), !.value = <<>>]
  IN /\ Goes(c, "beginScope")
     /\ \/ /\ ~Ok(c)
           /\ Finally(c, calls[c], {}, "failed")
        \/ /\ Ok(c) /\ call.kind = "create"
           /\ Ask(c, call, call.rt, "make")
           /\ UNCHANGED engineVars
        \/ /\ Ok(c) /\ call.kind # "create"
           /\ placements' = e.placements
           /\ IF call.own THEN Reach(c, call, e.profiles, p, "op")
              ELSE /\ profiles' = e.profiles
                   /\ Ask(c, [call EXCEPT !.epoch = e.profiles[p].epoch], call.rt, "importBREP")
           /\ UNCHANGED <<logical, shapes, scopeRefs, phase, awaited, losses>>

Exported(c) ==
  LET n == calls[c].source
      p == placements[n].profile
      e == Seen({p, calls[c].target})
      valid == /\ Ok(c) /\ phase = "open"
               /\ placements[n].state = "transferring"
               /\ Seen({p}).profiles[p].epoch = placements[n].epoch
  IN /\ Goes(c, "exportBREP")
     /\ \/ /\ ~valid
           /\ Finally(c, calls[c],
                IF Ok(c) /\ phase = "open" /\ placements[n].state = "transferring" THEN {p} ELSE {},
                "failed")
        \/ /\ valid
           /\ placements' = e.placements
           /\ Reach(c, calls[c], e.profiles, calls[c].target, "beginScope")
           /\ UNCHANGED <<logical, shapes, scopeRefs, phase, awaited, losses>>

\* The placement is recorded if the target has still the epoch it had when its
\* scope was opened; then cloneTo ends, and its finally clause runs.
Imported(c) ==
  LET call == calls[c]
      n == call.source
      p == placements[n].profile
      q == call.target
      e == Seen({q} \cup IF placements[n].state = "transferring" THEN {p} ELSE {})
      valid == Ok(c) /\ phase = "open" /\ Seen({q}).profiles[q].epoch = call.epoch
      m == Len(placements) + 1
  IN /\ Goes(c, "importBREP")
     /\ \/ /\ ~valid
           /\ Cleanup(c, Seen(IF Ok(c) /\ phase = "open" THEN {q} ELSE {}))
        \/ /\ valid
           /\ placements' = Append(SourceBack(e, n),
                Placement(q, e.profiles[q].epoch, TheValue(c), call.scope, placements[n].shape, call.rt))
           /\ logical' = [logical EXCEPT ![placements[n].shape] = @ \cup {m}]
           /\ scopeRefs' = Counted(q, call.scope, Count(q, call.scope) + 1)
           /\ profiles' = e.profiles
           /\ calls' = [calls EXCEPT ![c] =
                [call EXCEPT !.at = "cloned", !.value = <<m>>, !.source = 0, !.epoch = 0]]
           /\ UNCHANGED <<runtimes, shapes, phase, awaited, losses>>

Cloned(c) ==
  /\ Goes(c, "cloned")
  /\ \/ calls[c].kind = "cloneTo" /\ Finally(c, calls[c], {}, "done")
     \/ /\ calls[c].kind = "request"
        /\ Inputs(c, [calls[c] EXCEPT !.rt = 0, !.scope = 0, !.next = "none"], <<TheValue(c)>>)

\* #attachPlacement for each shape that came back, in the order of the handles.
Attached(c) ==
  LET call == calls[c]
      p == call.target
      e == Seen({p})
      handles == call.value
  IN /\ placements' = Leased(e.placements, call.held, -1) \o
          [k \in DOMAIN handles |-> Placement(p, e.profiles[p].epoch, handles[k], call.scope,
                                              Len(logical) + k, call.rt)]
     /\ logical' = logical \o [k \in DOMAIN handles |-> {Len(placements) + k}]
     /\ shapes' = shapes \cup {Len(logical) + k : k \in DOMAIN handles}
     /\ scopeRefs' = Counted(p, call.scope, Count(p, call.scope) + Len(handles))
     /\ profiles' = e.profiles
     /\ calls' = [calls EXCEPT ![c] = Ended("done")]
     /\ UNCHANGED <<runtimes, phase, awaited, losses>>

\* create's and request's result.  Without a shape in it, a scope opened for it is
\* ended; a failed call ends a scope of its own.
Result(c) ==
  LET call == calls[c]
      good == Ok(c) /\ phase = "open"
  IN /\ Goes(c, "make") \/ Goes(c, "op")
     /\ \/ /\ good /\ call.value # <<>> /\ Attached(c)
        \/ /\ ~good \/ call.value = <<>>
           /\ call.own
           /\ Cleanup(c, Seen({}))
        \/ /\ ~good \/ call.value = <<>>
           /\ ~call.own
           /\ Finally(c, call, {}, IF good THEN "done" ELSE "failed")

Probed(c) == Goes(c, "capabilities") /\ Finally(c, calls[c], {}, IF Ok(c) THEN "done" ELSE "failed")

CleanedUp(c) == Goes(c, "endScope") /\ calls[c].todo = {} /\ Finally(c, calls[c], {}, "failed")

-----------------------------------------------------------------------------
(* Release.                                                                *)

\* Mutant of Left: the scope is ended with the first of its shapes.
LeftNone(p, s) == 0

\* What remains counted for a scope; an absent count is taken for 1.
Left(p, s) == IF Count(p, s) = 0 THEN 0 ELSE Count(p, s) - 1

\* #releasePlacement drops a placement from its shape and counts its scope down.
\* The scope is ended when nothing else is counted for it.  remaining: shapes'.
Dropped(c, call, e, n, remaining) ==
  LET x == placements[n]
      left == Left(x.profile, x.scope)
      s == e.profiles[x.profile]
  IN /\ logical' = [logical EXCEPT ![x.shape] = @ \ {n}]
     /\ scopeRefs' = Counted(x.profile, x.scope, left)
     /\ profiles' = e.profiles
     /\ placements' = e.placements
     /\ IF left = 0 /\ x.epoch = s.epoch /\ s.runtime # 0
        THEN Ask(c, [call EXCEPT !.scope = x.scope], s.runtime, "endScope")
        ELSE /\ calls' = [calls EXCEPT ![c] = [call EXCEPT !.at = "endScope", !.reply = "ok"]]
             /\ runtimes' = runtimes
     /\ shapes' = remaining
     /\ UNCHANGED <<phase, awaited, losses>>

\* #releasePlacement of the first of call.todo: a placement whose runtime is gone
\* is dropped at once.
ReleaseFirst(c, call, remaining) ==
  LET n == First(call)
      e == Seen({placements[n].profile})
      s == e.profiles[placements[n].profile]
  IN \/ /\ placements[n].epoch = s.epoch /\ s.runtime # 0
        /\ Ask(c, call, s.runtime, "release")
        /\ profiles' = e.profiles
        /\ placements' = e.placements
        /\ shapes' = remaining
        /\ UNCHANGED <<logical, scopeRefs, phase, awaited, losses>>
     \/ /\ placements[n].epoch # s.epoch \/ s.runtime = 0
        /\ Dropped(c, call, e, n, remaining)

\* Mutant of Unleased: leases do not matter.
UnleasedAnyway(ns) == TRUE

Unleased(ns) == \A n \in ns : placements[n].leaseCount = 0

ReleasePlacement(c) ==
  /\ Begins(c, "releasePlacement")
  /\ \E n \in Refs :
       /\ IsLive(Seen({placements[n].profile}).placements, n)
       /\ Unleased({n})
       /\ ReleaseFirst(c, [Unbegun EXCEPT !.kind = "releasePlacement",
                             !.todo = {n}, !.shape = placements[n].shape], shapes)

\* releaseShape of each shape in call.rest until one has a placement to release.  Its
\* leases are looked at once, before the first placement is released.  A shape
\* without placements is forgotten.
ReleaseShapes(c, call, remaining) ==
  LET open == {s \in call.rest : phase = "open" /\ s \in remaining}
      next == {s \in open : logical[s] # {} /\ Unleased(logical[s])}
      Emptied(S) == {s \in S : logical[s] = {}}
  IN \/ /\ next # {}
        /\ LET s == Min(next) IN
           ReleaseFirst(c, [call EXCEPT !.shape = s, !.scope = 0, !.todo = logical[s],
                              !.rest = {t \in @ : t > s}],
                        remaining \ Emptied({t \in open : t < s}))
     \/ /\ next = {}
        /\ shapes' = remaining \ Emptied(open)
        /\ calls' = [calls EXCEPT ![c] = Ended("done")]
        /\ UNCHANGED <<runtimes, profiles, placements, logical, scopeRefs, phase, awaited, losses>>

ReleaseShape(c) ==
  /\ Begins(c, "releaseShape")
  /\ \E s \in shapes :
       /\ Unleased(logical[s])
       /\ ReleaseShapes(c, [Unbegun EXCEPT !.kind = "releaseShape", !.rest = {s}], shapes)

ReleaseAll(c) ==
  /\ Begins(c, "releaseAll")
  /\ \A s \in shapes : Unleased(logical[s])
  /\ ReleaseShapes(c, [Unbegun EXCEPT !.kind = "releaseAll", !.rest = shapes], shapes)

\* After a placement: the next one of its shape; then the shape is forgotten, if no
\* placement is left, and the shapes that follow are released.  An exception ends
\* releasePlacement before that.
ReleaseOn(c, call, ok) ==
  \/ /\ call.todo # {First(call)}
     /\ ReleaseFirst(c, [call EXCEPT !.todo = @ \ {First(call)}, !.scope = 0], shapes)
  \/ /\ call.todo = {First(call)}
     /\ ReleaseShapes(c, call,
          IF logical[call.shape] = {} /\ (ok \/ call.kind # "releasePlacement")
          THEN shapes \ {call.shape} ELSE shapes)

Released(c) ==
  /\ Goes(c, "release")
  /\ \/ Ok(c) /\ Dropped(c, calls[c], Seen({}), First(calls[c]), shapes)
     \/ ~Ok(c) /\ ReleaseOn(c, calls[c], FALSE)

ScopeReleased(c) ==
  Goes(c, "endScope") /\ calls[c].todo # {} /\ ReleaseOn(c, calls[c], TRUE)

-----------------------------------------------------------------------------
(* Runtimes.                                                               *)

\* The calls C get a reply.
Replied(C, reply, value) ==
  [c \in Call |-> IF c \in C THEN [calls[c] EXCEPT !.reply = reply, !.value = value] ELSE calls[c]]

\* Mutant of StillWanted: invalidations are not looked at.
StillWantedOpen(r) == phase = "open"

StillWanted(r) == phase = "open" /\ profiles[runtimes[r].profile].epoch = runtimes[r].since

\* A factory settles.  A runtime that comes after its profile was invalidated, or
\* after close(), is closed at once.
Started(r) ==
  LET p == runtimes[r].profile
      C == {c \in Call : calls[c].at = "start" /\ calls[c].rt = r}
      done == IF profiles[p].starting = r THEN [profiles[p] EXCEPT !.starting = 0] ELSE profiles[p]
  IN /\ Quiet /\ runtimes[r].state = "starting"
     /\ \/ /\ StillWanted(r)
           /\ runtimes' = [runtimes EXCEPT ![r].state = "up"]
           /\ profiles' = [profiles EXCEPT ![p] =
                [done EXCEPT !.runtime = r, !.runtimeEpoch = runtimes[r].kernel.epoch]]
           /\ calls' = Replied(C, "ok", <<>>)
        \/ /\ runtimes' = Closed(r)
           /\ profiles' = [profiles EXCEPT ![p] = done]
           /\ calls' = Replied(C, "error", <<>>)
     /\ UNCHANGED <<placements, logical, shapes, scopeRefs, phase, awaited, losses>>

\* A runtime answers its first question.
Answer(r) ==
  LET q == Head(runtimes[r].queue)
      k == runtimes[r].kernel
      popped == [runtimes EXCEPT ![r].queue = Tail(@)]
  IN /\ Quiet /\ runtimes[r].queue # <<>>
     /\ \/ /\ q.op = "releaseAll"
           /\ runtimes' = Closed(r)
           /\ calls' = Replied(Waiting(r) \cap Call, "error", <<>>)
        \/ /\ q.op # "releaseAll" /\ (~Accepts(k, q) \/ MayFail(q))
           /\ runtimes' = popped
           /\ calls' = Replied({q.call}, "error", <<>>)
        \/ /\ q.op # "releaseAll" /\ Accepts(k, q)
           /\ \E o \in Outcomes(k, q) :
                /\ runtimes' = [popped EXCEPT ![r].kernel = o.kernel]
                /\ calls' = Replied({q.call}, "ok", o.value)
     /\ UNCHANGED engineVars

\* The WorkerClient rebuilds its kernel.  close() goes on to close the runtime.
Rebuild(r) ==
  /\ Quiet /\ losses < MaxLosses
  /\ runtimes[r].state = "up"
  /\ losses' = losses + 1
  /\ runtimes' = IF Nobody \in Waiting(r) THEN Closed(r) ELSE Rebuilt(r)
  /\ calls' = Replied(Waiting(r) \cap Call, "error", <<>>)
  /\ UNCHANGED <<profiles, placements, logical, shapes, scopeRefs, phase, awaited>>

InvalidateProfileEpoch(p) ==
  LET r == profiles[p].runtime IN
  /\ Quiet /\ losses < MaxLosses
  /\ losses' = losses + 1
  /\ runtimes' = IF r # 0 THEN Closed(r) ELSE runtimes
  /\ calls' = IF r # 0 THEN Replied(Waiting(r) \cap Call, "error", <<>>) ELSE calls
  /\ profiles' = [profiles EXCEPT ![p] =
       [runtime |-> 0, runtimeEpoch |-> 0, starting |-> 0, epoch |-> @.epoch + 1]]
  /\ placements' = InvalidPlacements({p}, placements)
  /\ UNCHANGED <<logical, shapes, scopeRefs, phase, awaited>>

\* close(): every runtime is asked to release all and closed then.
Close ==
  LET up == {profiles[p].runtime : p \in Profile} \ {0} IN
  /\ Closes /\ phase = "open" /\ Quiet
  /\ phase' = "closing"
  /\ awaited' = up \cup ({profiles[p].starting : p \in Profile} \ {0})
  /\ runtimes' = [r \in DOMAIN runtimes |->
       IF r \in up THEN [runtimes[r] EXCEPT !.queue = Append(@, Question(Nobody, "releaseAll", {}, 0))]
       ELSE runtimes[r]]
  /\ profiles' = [p \in Profile |->
       [runtime |-> 0, runtimeEpoch |-> 0, starting |-> 0, epoch |-> profiles[p].epoch + 1]]
  /\ UNCHANGED <<placements, logical, shapes, scopeRefs, calls, losses>>

CloseEnds ==
  /\ phase = "closing" /\ Quiet
  /\ \A r \in awaited : runtimes[r].state = "closed"
  /\ phase' = "closed" /\ awaited' = {}
  /\ shapes' = {}
  /\ scopeRefs' = [k \in {} |-> 0]
  /\ UNCHANGED <<runtimes, profiles, placements, logical, calls, losses>>

-----------------------------------------------------------------------------
Begin(c) == Create(c) \/ Request(c) \/ CloneTo(c) \/ ReleasePlacement(c)
            \/ ReleaseShape(c) \/ ReleaseAll(c) \/ ProbeProfile(c)

Continue(c) ==
  \/ Start(c) \/ Opened(c) \/ Exported(c) \/ Imported(c) \/ Cloned(c)
  \/ Result(c) \/ Probed(c) \/ CleanedUp(c) \/ Released(c) \/ ScopeReleased(c)

Runtime(r) == Started(r) \/ Answer(r)

Next ==
  \/ \E c \in Call : Begin(c) \/ Continue(c)
  \/ \E r \in DOMAIN runtimes : Runtime(r) \/ Rebuild(r)
  \/ \E p \in Profile : InvalidateProfileEpoch(p)
  \/ Close \/ CloseEnds

\* Promises that are settled go on, and runtimes answer.
Fairness ==
  /\ WF_vars(\E c \in Call : Continue(c))
  /\ WF_vars(\E r \in DOMAIN runtimes : Runtime(r))
  /\ WF_vars(CloseEnds)

Spec == Init /\ [][Next]_vars /\ Fairness

-----------------------------------------------------------------------------
(* Properties.                                                             *)

InSync(p) ==
  profiles[p].runtime # 0 /\ runtimes[profiles[p].runtime].kernel.epoch = profiles[p].runtimeEpoch

\* The placement is in the map of its shape, and of the current epoch.
Current(n) ==
  /\ Kept(n)
  /\ placements[n].epoch = profiles[placements[n].profile].epoch

Releasing(n) == \E c \in Call : calls[c].todo # {} /\ First(calls[c]) = n

\* A placement of the current epoch names, in its runtime, the shape it was made
\* for; its shape lives in the scope the engine counts it for.  Two releases of one shape
\* can break this: they may count a placement of a lost kernel down twice, and the number
\* of its scope may be a new scope's by then.
LiveIsHeld ==
  \A n \in DOMAIN placements :
    LET x == placements[n] IN
    x.state # "invalid" /\ Current(n) /\ InSync(x.profile) /\ ~Releasing(n)
      => /\ x.origin = <<profiles[x.profile].runtime, profiles[x.profile].runtimeEpoch>>
         /\ <<x.handle, x.scope>> \in runtimes[x.origin[1]].kernel.shapes

\* The leases of a placement: one for each input of a request that became it, and, as
\* input 0, one for the transfer it is the source of.
LeasedBy(call, n) ==
  {k \in 0 .. Len(call.held) : IF k = 0 THEN call.source = n ELSE call.held[k] = n}

Leases(n) == UNION {{c} \X LeasedBy(calls[c], n) : c \in Call}

\* Leases are exactly those of the requests and transfers that are under way, and a
\* placement is transferring for one of them.
LeasesExact ==
  \A n \in DOMAIN placements :
    /\ placements[n].leaseCount = Cardinality(Leases(n))
    /\ placements[n].state = "transferring" /\ Kept(n) /\ phase = "open"
         => \E c \in Call : calls[c].source = n

\* A runtime is asked only about shapes of its present kernel: no handle of an
\* earlier one, which may name another shape there.
NamesOwnShapes ==
  \A r \in DOMAIN runtimes : \A i \in DOMAIN runtimes[r].queue :
    LET q == runtimes[r].queue[i] IN
    q.call \in Call =>
      \A n \in Names(calls[q.call], q.op) :
        placements[n].origin = <<r, runtimes[r].kernel.epoch>>

\* Every runtime that runs is one its profile uses, or one close() is closing.
NoOrphanRuntime ==
  \A r \in DOMAIN runtimes :
    runtimes[r].state = "up" => \/ profiles[runtimes[r].profile].runtime = r
                                \/ Nobody \in Waiting(r)

\* A release of a shape that begins, by itself or as the next of releaseAll, touches
\* nothing that a request or a transfer uses: none of the placements it is going to
\* release is leased.
ReleaseBeginsUnleased ==
  [][ \A c \in Call :
        calls'[c].shape # calls[c].shape =>
          \A n \in calls'[c].todo : placements[n].leaseCount = 0 ]_vars

AllEnded == \A c \in Call : calls[c].at \in {"begin", "done", "failed"}

\* Every scope that is open in the kernel of p is counted for a placement: one that
\* is live, of the current epoch and not released.
ScopesInUse(p) ==
  \A s \in runtimes[profiles[p].runtime].kernel.scopes :
    \E n \in DOMAIN placements :
      /\ placements[n].profile = p /\ placements[n].scope = s
      /\ placements[n].epoch = profiles[p].epoch /\ placements[n].state = "live"
      /\ n \in logical[placements[n].shape]

\* A shape is forgotten only when none of its placements is left, so that every
\* placement can be released.  releaseShape lets a transfer that began under it add
\* one to a shape it forgets.
NothingForgotten ==
  phase = "open" => \A s \in DOMAIN logical : s \in shapes \/ logical[s] = {}

\* When no call is under way nothing was left behind in a kernel: no open scope
\* without a placement.
ScopesEnded == AllEnded => \A p \in Profile : InSync(p) => ScopesInUse(p)

\* The same for profiles that lost no kernel yet.
ScopesEndedAtFirst ==
  AllEnded => \A p \in Profile : InSync(p) /\ profiles[p].epoch = 1 /\ profiles[p].runtimeEpoch = 1
                                   => ScopesInUse(p)

\* Every call ends, and close() does.
EveryCallSettles ==
  /\ \A c \in Call : calls[c].at # "begin" ~> calls[c].at \in {"done", "failed"}
  /\ phase = "closing" ~> phase = "closed"
=============================================================================
