-------------------------- MODULE MCGeometryEngine --------------------------
(* Two profiles that can run every operation.  Each run fixes what the calls  *)
(* may be, so that it meets the interleavings it is about.                   *)
EXTENDS GeometryEngine

CONSTANTS core, mesh, c1, c2, c3, c4, c5, c6

AnyProfile == [c \in Call |-> <<core, mesh>>]

\* Two makers of placements, a user of them, a release; one loss of a runtime, and close()
\* at any turn.
MakeUseRelease ==
  (c1 :> {"create", "probeProfile"}) @@ (c2 :> {"cloneTo"}) @@ (c3 :> {"create", "request", "cloneTo"})
    @@ (c4 :> {"releaseShape", "releasePlacement", "releaseAll"})

\* Anything beside a request, while the engine is closed.
Closing == (c1 :> {"create", "request"}) @@ (c2 :> AllKinds)

\* A request of two shapes.
TwoInputs == (c1 :> {"create"}) @@ (c2 :> {"create"}) @@ (c3 :> {"request"})

\* A shape of two placements is released while it is cloned again.
ReleaseClone ==
  (c1 :> {"create"}) @@ (c2 :> {"cloneTo"}) @@ (c3 :> {"releaseShape"}) @@ (c4 :> {"cloneTo"})

\* A shape of two placements is released twice, and one of two shapes made meanwhile.
ReleaseTwice ==
  (c1 :> {"create"}) @@ (c2 :> {"cloneTo"}) @@ (c3 :> {"releaseShape"}) @@ (c4 :> {"releaseShape"})
    @@ (c5 :> {"request"}) @@ (c6 :> {"releasePlacement"})
FirstApart == [c \in Call |-> IF c = c1 THEN <<core>> ELSE <<mesh>>]
TwiceAlike == Permutations({c3, c4})

\* The shape is there before it is released, the shapes in use after it was.
OneAfterAnother ==
  /\ (\E c \in {c3, c4, c5, c6} : calls[c].at # "begin") => calls[c1].at = "done" /\ calls[c2].at = "done"
  /\ calls[c5].at # "begin" => calls[c3].at # "begin" /\ calls[c4].at # "begin"
  /\ calls[c6].at # "begin" => \A c \in Call \ {c6} : calls[c].at \in {"done", "failed"}
=============================================================================
