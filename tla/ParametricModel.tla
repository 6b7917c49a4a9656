-------------------------- MODULE ParametricModel ---------------------------
(***************************************************************************)
(* The queue, the scopes and the publication of a parametric model         *)
(* (ts/src/parametric-model.ts) over a client whose kernel may be rebuilt. *)
(* Recomputations and disposal run one after the other; a step of one runs *)
(* from one await of the client to the next.  What features compute is     *)
(* left out: each is built or fails.                                       *)
(***************************************************************************)
EXTENDS FeatureOrder

CONSTANTS
  Definitions,      \* the definitions users give the model: sequences of features
  MaxJobs,          \* bound: recomputations and disposals asked for
  MaxRebuilds       \* bound: rebuilds of the kernel

VARIABLES
  definition,       \* #definition
  jobs,             \* what #tail has yet to do, the running one first
  build,            \* the running recomputation: its locals and what it awaits
  published,        \* #scope, #shapes and the definition they were computed from
  disposeRequested, \* #disposeRequested
  disposePromise,   \* #disposePromise: "none", "pending" or "done"
  instance,         \* the kernel: its epoch, its open scopes, how many there were
  asked,            \* bound
  unended           \* history: scopes whose end() failed

modelVars == <<definition, jobs, build, published, disposeRequested, disposePromise,
               instance, asked, unended>>

\* A scope handle carries the epoch it was made in.
NoScope == [epoch |-> 0, id |-> 0]
Idle == [at |-> "idle", scope |-> NoScope, i |-> 1, shapes |-> {}, failed |-> FALSE, since |-> 0]
Unpublished == [scope |-> NoScope, shapes |-> {}, definition |-> <<>>]

ModelInit ==
  /\ definition \in Definitions
  /\ jobs = <<>> /\ build = Idle /\ published = Unpublished
  /\ disposeRequested = FALSE /\ disposePromise = "none"
  /\ instance = [epoch |-> 1, scopes |-> {}, begun |-> 0]
  /\ asked = 0 /\ unended = {}

Job == Head(jobs)
Features == orderFeatures(Job.definition).ordered
JobEnds == jobs' = Tail(jobs) /\ build' = Idle

\* A handle of an earlier epoch is refused before anything is sent.
Expired(scope) == scope.epoch # instance.epoch

-----------------------------------------------------------------------------
(* The methods.                                                            *)

edit ==
  /\ definition' \in Definitions \ {definition}
  /\ UNCHANGED <<jobs, build, published, disposeRequested, disposePromise, instance, asked, unended>>

recompute ==
  /\ ~disposeRequested /\ asked < MaxJobs
  /\ asked' = asked + 1
  /\ jobs' = Append(jobs, [kind |-> "recompute", definition |-> definition])
  /\ UNCHANGED <<definition, build, published, disposeRequested, disposePromise, instance, unended>>

dispose ==
  /\ disposePromise = "none" /\ asked < MaxJobs
  /\ asked' = asked + 1
  /\ disposeRequested' = TRUE /\ disposePromise' = "pending"
  /\ jobs' = Append(jobs, [kind |-> "dispose", definition |-> <<>>])
  /\ UNCHANGED <<definition, build, published, instance, unended>>

-----------------------------------------------------------------------------
(* A recomputation.                                                        *)

\* A feature is skipped if it is suppressed, or if what it needs was not built; the
\* latter fails the recomputation.
Missing(f, shapes) == ~f.suppressed /\ ~(Range(f.needs) \subseteq shapes)
ToBuild(b) ==
  {i \in b.i .. Len(Features) : ~Features[i].suppressed /\ ~Missing(Features[i], b.shapes)}

Publish(scope, shapes) ==
  published' = [scope |-> scope, shapes |-> shapes, definition |-> Job.definition]

\* Mutant of Publishes: the old scope is left as it is.
PublishesOver(b) ==
  /\ Publish(b.scope, b.shapes) /\ JobEnds

\* Everything was built: it is published, after the published scope was ended.
Publishes(b) ==
  IF published.scope = NoScope THEN Publish(b.scope, b.shapes) /\ JobEnds
  ELSE build' = [b EXCEPT !.at = "endOld"] /\ UNCHANGED <<jobs, published>>

\* Mutant of Advance: a feature whose needs are missing is skipped like a suppressed one.
AdvanceOver(b) ==
  LET next == ToBuild(b) IN
  IF next # {} THEN /\ build' = [b EXCEPT !.at = "feature", !.i = CHOOSE i \in next : \A j \in next : i <= j]
                    /\ UNCHANGED <<jobs, published>>
  ELSE IF b.failed THEN build' = [b EXCEPT !.at = "endNew"] /\ UNCHANGED <<jobs, published>>
  ELSE Publishes(b)

\* The loop, from the feature b.i to the next one that is built, or to its end.
Advance(b) ==
  LET next == ToBuild(b)
      i == CHOOSE k \in next : \A j \in next : k <= j
      last == IF next = {} THEN Len(Features) ELSE i
      failed == b.failed \/ \E k \in b.i .. last : Missing(Features[k], b.shapes) IN
  IF next # {} THEN /\ build' = [b EXCEPT !.at = "feature", !.i = i, !.failed = failed]
                    /\ UNCHANGED <<jobs, published>>
  ELSE IF failed THEN build' = [b EXCEPT !.at = "endNew", !.failed = TRUE] /\ UNCHANGED <<jobs, published>>
  ELSE Publishes(b)

\* A job begins when those before it have ended.  A definition that cannot be ordered
\* fails before a scope is opened; a model without a scope is disposed at once.
JobBegins ==
  /\ jobs # <<>> /\ build.at = "idle"
  /\ \/ /\ Job.kind = "recompute" /\ orderFeatures(Job.definition).error # "none"
        /\ JobEnds /\ UNCHANGED <<published, disposePromise>>
     \/ /\ Job.kind = "recompute" /\ orderFeatures(Job.definition).error = "none"
        /\ build' = [Idle EXCEPT !.at = "beginScope", !.since = instance.epoch]
        /\ UNCHANGED <<jobs, published, disposePromise>>
     \/ /\ Job.kind = "dispose" /\ published.scope = NoScope
        /\ published' = Unpublished /\ disposePromise' = "done" /\ JobEnds
     \/ /\ Job.kind = "dispose" /\ published.scope # NoScope
        /\ build' = [Idle EXCEPT !.at = "dispose"]
        /\ UNCHANGED <<jobs, published, disposePromise>>
  /\ UNCHANGED <<definition, disposeRequested, instance, asked, unended>>

ScopeBegun ==
  /\ build.at = "beginScope"
  /\ \/ /\ build.since = instance.epoch
        /\ LET scope == [epoch |-> instance.epoch, id |-> instance.begun + 1] IN
           /\ instance' = [instance EXCEPT !.begun = @ + 1, !.scopes = @ \cup {scope}]
           /\ Advance([build EXCEPT !.scope = scope])
     \/ instance' = instance /\ JobEnds /\ published' = published
  /\ UNCHANGED <<definition, disposeRequested, disposePromise, asked, unended>>

\* A feature is built, or fails, before its shape is kept or after, when one of its
\* references is not resolved; the loop goes on.
FeatureBuilt ==
  /\ build.at = "feature"
  /\ LET kept == build.shapes \cup {Features[build.i].id} IN
     \/ Advance([build EXCEPT !.i = @ + 1, !.failed = TRUE])
     \/ /\ ~Expired(build.scope)
        /\ \E unresolved \in BOOLEAN :
             Advance([build EXCEPT !.i = @ + 1, !.shapes = kept, !.failed = @ \/ unresolved])
  /\ UNCHANGED <<definition, disposeRequested, disposePromise, instance, asked, unended>>

\* scope.end(), which the kernel may refuse.
EndsScope(scope) ==
  /\ ~Expired(scope)
  /\ instance' = [instance EXCEPT !.scopes = @ \ {scope}]
  /\ unended' = unended
FailsToEnd(scope) == instance' = instance /\ unended' = unended \cup {scope}

\* The new scope is given up, whether it could be ended or not.
NewEnded ==
  /\ build.at \in {"endNew", "endNewToo"}
  /\ EndsScope(build.scope) \/ FailsToEnd(build.scope)
  /\ JobEnds
  /\ UNCHANGED <<definition, published, disposeRequested, disposePromise, asked>>

OldEnded ==
  /\ build.at = "endOld"
  /\ \/ /\ EndsScope(published.scope)
        /\ Publish(build.scope, build.shapes) /\ JobEnds
     \/ /\ FailsToEnd(published.scope)
        /\ build' = [build EXCEPT !.at = "endNewToo"]
        /\ UNCHANGED <<jobs, published>>
  /\ UNCHANGED <<definition, disposeRequested, disposePromise, asked>>

\* A disposal that fails can be asked for again.
Disposed ==
  /\ build.at = "dispose"
  /\ \/ /\ EndsScope(published.scope)
        /\ published' = Unpublished /\ disposePromise' = "done"
     \/ /\ FailsToEnd(published.scope)
        /\ published' = published /\ disposePromise' = "none"
  /\ JobEnds
  /\ UNCHANGED <<definition, disposeRequested, asked>>

\* The client rebuilds its kernel: a timeout, an abort or a trap of anybody's call.
RebuildInstance ==
  /\ instance.epoch <= MaxRebuilds
  /\ instance' = [instance EXCEPT !.epoch = @ + 1, !.scopes = {}]
  /\ UNCHANGED <<definition, jobs, build, published, disposeRequested, disposePromise, asked, unended>>

Working == JobBegins \/ ScopeBegun \/ FeatureBuilt \/ NewEnded \/ OldEnded \/ Disposed
ModelNext == edit \/ recompute \/ dispose \/ Working \/ RebuildInstance
ModelSpec == ModelInit /\ [][ModelNext]_modelVars /\ WF_modelVars(Working)

-----------------------------------------------------------------------------
(* Properties.                                                             *)

Wanted(features) == {f.id : f \in {features[i] : i \in {j \in DOMAIN features : ~features[j].suppressed}}}

\* What is published is whole and alive: every feature of one definition that is not
\* suppressed, in a scope the kernel holds, unless that kernel is gone.
PublishedIsWhole ==
  published.scope # NoScope =>
    /\ published.shapes = Wanted(published.definition)
    /\ Expired(published.scope) \/ published.scope \in instance.scopes

\* No scope is left in the kernel but the published one, that of the running
\* recomputation and those that could not be ended; none but the latter once dispose()
\* has ended, and nothing is published after it.
ScopesAccounted ==
  /\ instance.scopes \subseteq {published.scope, build.scope} \cup unended
  /\ disposePromise = "done" => published.scope = NoScope /\ instance.scopes \subseteq unended

\* A recomputation in which every feature was built is given up only to keep results
\* that are alive.
WithheldForLiveResults ==
  build.at = "endNewToo" => published.scope \in instance.scopes
=============================================================================
