---------------------------- MODULE MCLifecycles ----------------------------
(***************************************************************************)
(* What users open and end: an engine, a session of one runtime, the       *)
(* scopes of an engine client, a parametric model.  They share no state; a *)
(* behaviour is one of one of them.                                        *)
(***************************************************************************)
EXTENDS MCGeometryEngine, RuntimeSession, EngineCompat, ParametricModel

CONSTANTS f1, f2, f3

Feature(id, needs, suppressed) == [id |-> id, needs |-> needs, suppressed |-> suppressed]

\* Empty; in the wrong order; with a feature that needs a suppressed one; with a cycle; and
\* one whose features do not need each other.
MCDefinitions ==
  { <<>>,
    <<Feature(f2, <<f1>>, FALSE), Feature(f1, <<>>, FALSE)>>,
    <<Feature(f1, <<>>, TRUE), Feature(f2, <<f1>>, FALSE), Feature(f3, <<>>, FALSE)>>,
    <<Feature(f1, <<f2>>, FALSE), Feature(f2, <<f1>>, FALSE)>>,
    <<Feature(f1, <<>>, TRUE), Feature(f2, <<>>, FALSE), Feature(f3, <<>>, FALSE)>> }

\* Every definition of up to three features, each needing some of the others: with
\* those of the run, orderFeatures orders them, as LifecycleProofs assumes.
Needs == {<<>>, <<f1>>, <<f2>>, <<f3>>, <<f1, f2>>, <<f3, f1>>}
Listed == UNION {[1 .. n -> [id : {f1, f2, f3}, needs : Needs, suppressed : {FALSE}]] : n \in 0 .. 3}

ASSUME MCOrderIsSound == \A features \in Listed \cup Definitions : OrderIsSound(features)

VARIABLE part

others == <<sessionVars, compatVars, modelVars, part>>
allVars == <<vars, others>>

MCInit ==
  /\ part \in {"engine", "session", "compat", "model"}
  /\ Init /\ SessionInit /\ CompatInit /\ ModelInit
  /\ part # "model" => definition = CHOOSE d \in Definitions : TRUE

Engine(A) == part = "engine" /\ A /\ UNCHANGED others
Session(A) ==
  part = "session" /\ A /\ UNCHANGED <<vars, compatVars, modelVars, part>>

MCNext ==
  \/ part = "engine" /\ Next /\ UNCHANGED others
  \/ part = "session" /\ SessionNext /\ UNCHANGED <<vars, compatVars, modelVars, part>>
  \/ part = "compat" /\ CompatNext /\ UNCHANGED <<vars, sessionVars, modelVars, part>>
  \/ part = "model" /\ ModelNext /\ UNCHANGED <<vars, sessionVars, compatVars, part>>

MCSpec ==
  /\ MCInit /\ [][MCNext]_allVars
  /\ WF_allVars(Engine(\E c \in Call : Continue(c)))
  /\ WF_allVars(Engine(\E r \in DOMAIN runtimes : Runtime(r)))
  /\ WF_allVars(Engine(CloseEnds))
  /\ WF_allVars(Session(Switching))
  /\ WF_allVars(Session(\E n \in DOMAIN hosted : Starts(n)))
=============================================================================
