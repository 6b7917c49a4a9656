---------------------------- MODULE MCOperations ----------------------------
(***************************************************************************)
(* Every operation in all its courses, except batchTransformCopy, which    *)
(* the run operations_dangling is about; and the transport that makes      *)
(* requests to a kernel in the same thread.  They share no state: a        *)
(* behaviour is one of either.                                             *)
(***************************************************************************)
EXTENDS Operations, InProcessTransport, DocumentTree

MCServed ==
  (DOMAIN Handlers \ {"batchTransformCopy"}) \cup {"unknown"}

ASSUME MCServedAreSound == ServedReadFirst /\ ServedPollFirst

\* Documents of one and two nodes of any kind whose children are anything in or out of
\* range; and of three nodes whose kinds and ranges are right.
Lists(indices, most) == UNION {[1 .. k -> indices] : k \in 0 .. most}
AnyNodes(n) == [1 .. n -> [kind : {"part", "assembly"}, children : Lists(1 .. n + 1, 2)]]
Kinded(children) ==
  [kind |-> IF children = <<>> THEN "part" ELSE "assembly", children |-> children]
KindedNodes(n) == [1 .. n -> {Kinded(children) : children \in Lists(1 .. n, 2)}]

ASSUME MCDocumentsValidated ==
  /\ \A n \in 1 .. 2 : \A nodes \in AnyNodes(n), roots \in Lists(1 .. n + 1, 2) :
       ValidatesForests(nodes, roots) /\ NeverACycle(nodes, roots)
  /\ \A nodes \in KindedNodes(3), roots \in Lists(1 .. 3, 3) :
       ValidatesForests(nodes, roots) /\ NeverACycle(nodes, roots)

VARIABLE part

MCInit == part \in {"kernel", "transport"} /\ Init /\ TransportInit

\* Users need make no further request.
NoMoreRequests == frames = <<>> /\ UNCHANGED transportVars

MCNext ==
  \/ part = "kernel" /\ Next /\ UNCHANGED <<transportVars, part>>
  \/ part = "transport" /\ (TransportNext \/ NoMoreRequests) /\ UNCHANGED <<vars, part>>

MCSpec == MCInit /\ [][MCNext]_<<vars, transportVars, part>>
=============================================================================
