---------------------------- MODULE DocumentTree ----------------------------
(***************************************************************************)
(* Which trees of nodes a document may consist of (validateDocumentTree of *)
(* kernel/operations/exchange_document_nodes.cpp).  A node is a record of  *)
(* its kind and the sequence of its children; nodes are numbered from 1.   *)
(* The checks of types, and that the shape of a part exists, are left out. *)
(***************************************************************************)
EXTENDS Integers, Sequences, SequencesExt, FiniteSets

RootsAreValid(nodes, roots) ==
  /\ roots # <<>>
  /\ \A k \in DOMAIN roots : roots[k] \in DOMAIN nodes
  /\ \A j, k \in DOMAIN roots : roots[j] = roots[k] => j = k

NodeIsValid(nodes, i) ==
  /\ nodes[i].kind = "part" => nodes[i].children = <<>>
  /\ nodes[i].kind = "assembly" => nodes[i].children # <<>>
  /\ \A k \in DOMAIN nodes[i].children : nodes[i].children[k] \in DOMAIN nodes \ {i}

\* Where i is listed as a child.  Listed twice, it has two parents.
Places(nodes, i) ==
  UNION {{<<p, k>> : k \in {j \in DOMAIN nodes[p].children : nodes[p].children[j] = i}}
           : p \in DOMAIN nodes}
ParentCount(nodes, i) == Cardinality(Places(nodes, i))

\* visitNode: state[i] is 1 while i is being visited, 2 afterwards; 3 stops the walk.
RECURSIVE visitNode(_, _, _)
visitNode(nodes, i, state) ==
  IF 3 \in Range(state) \/ state[i] = 2 THEN state
  ELSE IF state[i] = 1 THEN [state EXCEPT ![i] = 3]
  ELSE LET deeper == FoldLeft(LAMBDA s, child : visitNode(nodes, child, s),
                              [state EXCEPT ![i] = 1], nodes[i].children)
       IN IF 3 \in Range(deeper) THEN deeper ELSE [deeper EXCEPT ![i] = 2]

\* What validateDocumentTree says of a document; "valid" is that it returns.
DocumentVerdict(nodes, roots) ==
  LET visited == FoldLeft(LAMBDA s, i : IF i \in Range(roots) THEN visitNode(nodes, i, s) ELSE s,
                          [i \in DOMAIN nodes |-> 0], [i \in DOMAIN nodes |-> i])
  IN CASE nodes = <<>> \/ ~RootsAreValid(nodes, roots) -> "roots"
       [] \E i \in DOMAIN nodes : ~NodeIsValid(nodes, i) -> "nodes"
       [] \E i \in DOMAIN nodes : \/ (i \in Range(roots)) # (ParentCount(nodes, i) = 0)
                                  \/ ParentCount(nodes, i) > 1 -> "parents"
       [] 3 \in Range(visited) -> "cycle"
       [] \E i \in DOMAIN nodes : visited[i] # 2 -> "outside"
       [] OTHER -> "valid"

-----------------------------------------------------------------------------
(* What it means.                                                          *)

\* The nodes are a forest with these roots: every node is a root or has one place under
\* one parent, parents come before their children in some order of the nodes, parts have
\* no children and assemblies have some.
IsForest(nodes, roots) ==
  LET N == DOMAIN nodes IN
  /\ N # {}
  /\ Range(roots) = {i \in N : Places(nodes, i) = {}} /\ IsInjective(roots)
  /\ \A i \in N : \A x, y \in Places(nodes, i) : x = y
  /\ \A i \in N : Range(nodes[i].children) \subseteq N
  /\ \A i \in N : nodes[i].kind = "part" <=> nodes[i].children = <<>>
  /\ \E rank \in [N -> N] : \A i \in N : \A c \in Range(nodes[i].children) : rank[i] < rank[c]

\* validateDocumentTree accepts forests and nothing else.  What it calls a cycle it has
\* then refused before.
ValidatesForests(nodes, roots) ==
  LET found == DocumentVerdict(nodes, roots) IN
  found = "valid" <=> IsForest(nodes, roots)
NeverACycle(nodes, roots) == DocumentVerdict(nodes, roots) # "cycle"
=============================================================================
