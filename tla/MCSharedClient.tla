--------------------------- MODULE MCSharedClient ---------------------------
(***************************************************************************)
(* The loader used by itself, with a second Main after a dispose() and a   *)
(* Side of another build family; and the loader under a client: three      *)
(* requests that share Sides in one order, or, in the run                  *)
(* shared_client_apart, two that do not.                                   *)
(***************************************************************************)
EXTENDS SharedClient, PluginRegistry

CONSTANTS a, b, x, r1, r2, r3

InOneOrder == (r1 :> <<a, b>>) @@ (r2 :> <<a, b>>) @@ (r3 :> <<a>>)
Singles == (a :> 1) @@ (b :> 1)
Halves == (a :> 2) @@ (b :> 1)
Pairs == (a :> 2) @@ (b :> 1) @@ (x :> 1)
Apart == (r1 :> <<a>>) @@ (r2 :> <<b>>) @@ (r3 :> <<>>)

\* Descriptors of up to two operations, right or wrong, and registries that some of
\* these operations are in.
Operations3 == 1 .. 3
UpToTwo == UNION {[1 .. n -> Operations3] : n \in 0 .. 2}
Descriptors == [name : {a, b}, matches : BOOLEAN, listed : UpToTwo, adds : UpToTwo]
Registries ==
  [handlers : SUBSET Operations3, pending : {<<>>}, names : {{}, {b}}, count : {1},
   error : {0, 2}, thrown : {FALSE}]

ASSUME MCAllOrNothing ==
  \A registry \in Registries, descriptor \in Descriptors : AllOrNothing(registry, descriptor)

\* The hypothesis of NoFalseAlarm.
ASSUME MCOneOrder == Needs = InOneOrder => OneOrder(<<a, b>>)

\* A user who waits for each request before the next.
OneAtATime == Len(waiting) <= 1

VARIABLE alone  \* the loader is used without a client

allVars == <<vars, alone>>

Alone(A) == alone /\ A /\ UNCHANGED <<clientVars, alone>>

MCInit == alone \in BOOLEAN /\ IF alone THEN Init /\ NothingAsked ELSE ClientInit
MCNext ==
  \/ Alone(Next)
  \/ ~alone /\ ClientNext /\ UNCHANGED alone

MCSpec ==
  /\ MCInit /\ [][MCNext]_allVars
  /\ \A n \in 1 .. MaxAttempts :
       /\ WF_allVars(Alone(n \in DOMAIN attempts /\ StartLoad(n)))
       /\ WF_allVars(Alone(n \in DOMAIN attempts /\ (LibraryFails(n) \/ LibraryLoads(n))))
  /\ WF_allVars(~alone /\ Resume /\ UNCHANGED alone)
  /\ WF_allVars(/\ ~alone
                /\ \E n \in DOMAIN attempts : Load(n)
                /\ UNCHANGED <<clientVars, alone>>)
=============================================================================
