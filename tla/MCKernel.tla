------------------------------ MODULE MCKernel ------------------------------
(* Three handles, two buffers, dispatches nested three deep: a shape from      *)
(* before a batch, one its prefix made, one of a failed operation.  One scope  *)
(* is enough: a batch forces its own scope on everything inside it.            *)
EXTENDS Kernel, TLC

CONSTANTS t1, t2, t3, s1

MCToken == {t1, t2, t3}
MCScopeId == {s1}
\* The handlers of the operations that are dispatched.
Table == INSTANCE OperationTable
ASSUME MCHandlersAreSound ==
  /\ Table!HandlersRecord /\ Table!HandlersThrowOneCode
  /\ Table!HandlersDuplicateFirst /\ Table!HandlersReadWhole

Symmetric == Permutations(MCToken)
=============================================================================
