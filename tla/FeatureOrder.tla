---------------------------- MODULE FeatureOrder ----------------------------
(***************************************************************************)
(* The order in which the features of a parametric model are built         *)
(* (orderFeatures of ts/src/parametric-graph.ts).  A feature is a record   *)
(* of its id, the ids it needs in the order the code lists them, and       *)
(* whether it is suppressed; a profile of a sketch is needed as its        *)
(* sketch.  The checks of single fields and profiles come first in the     *)
(* code and are left out.                                                  *)
(***************************************************************************)
EXTENDS Integers, Sequences, SequencesExt, FiniteSets

Ids(features) == {features[i].id : i \in DOMAIN features}
WithId(features, id) == CHOOSE f \in Range(features) : f.id = id

\* visit(id): w.ordered is what was ordered so far, w.path the features being
\* visited, w.error why the walk stopped.
Walk(features) ==
  [error : {"none", "cycle", "unknown"}, path : Seq(Ids(features)), ordered : Seq(Range(features))]

visit(features) ==
  LET Named == Ids(features) \cup UNION {Range(f.needs) : f \in Range(features)}
      v[id \in Named, w \in Walk(features)] ==
        IF w.error # "none" \/ (\E f \in Range(w.ordered) : f.id = id) THEN w
        ELSE IF id \in Range(w.path) THEN [w EXCEPT !.error = "cycle"]
        ELSE IF id \notin Ids(features) THEN [w EXCEPT !.error = "unknown"]
        ELSE LET f == WithId(features, id)
                 deeper == FoldLeft(LAMBDA u, d : v[d, u], [w EXCEPT !.path = Append(@, id)], f.needs)
             IN IF deeper.error # "none" THEN deeper
                ELSE [deeper EXCEPT !.path = w.path, !.ordered = Append(@, f)]
  IN v

orderFeatures(features) ==
  LET start == [error |-> "none", path |-> <<>>, ordered |-> <<>>] IN
  IF Cardinality(Ids(features)) < Len(features) THEN [start EXCEPT !.error = "duplicate"]
  ELSE LET v == visit(features) IN FoldLeft(LAMBDA w, f : v[f.id, w], start, features)

-----------------------------------------------------------------------------
(* What it means.                                                          *)

\* A definition can be ordered if no id is used twice, every id that is needed is
\* defined, and the features can be numbered so that each comes after what it needs.
Orderable(features) ==
  /\ \A i, j \in DOMAIN features : features[i].id = features[j].id => i = j
  /\ \A i \in DOMAIN features : Range(features[i].needs) \subseteq Ids(features)
  /\ \E n \in [Ids(features) -> DOMAIN features] :
       \A i \in DOMAIN features : \A d \in Range(features[i].needs) : n[d] < n[features[i].id]

\* orderFeatures accepts exactly what can be ordered, and returns the same features,
\* each after all that it needs.
OrderIsSound(features) ==
  LET w == orderFeatures(features) IN
  /\ w.error = "none" <=> Orderable(features)
  /\ w.error = "none" =>
       /\ w.ordered \in Seq(Range(features)) /\ Len(w.ordered) = Len(features)
       /\ Range(w.ordered) = Range(features)
       /\ \A i \in DOMAIN w.ordered :
            Range(w.ordered[i].needs) \subseteq {w.ordered[j].id : j \in 1 .. i - 1}
=============================================================================
