--------------------------- MODULE PluginRegistry ---------------------------
(***************************************************************************)
(* How Main registers the descriptor of one semantic module of a Side      *)
(* (occt_host_register_plugin_v1 of kernel/entry/full_entry.cpp, and the   *)
(* OperationRegistry of kernel/runtime/operation_registry.cpp): the        *)
(* constructor of a library calls it, and it runs to its end.  A registry  *)
(* is a record of the operations that have a handler, the pending ones,    *)
(* and the names of the plugins; a descriptor says whether its identity is *)
(* Main's, the operations it lists, and those that its registerOperations  *)
(* adds, in order.                                                         *)
(***************************************************************************)
EXTENDS Integers, Sequences, SequencesExt, FiniteSets

\* OperationRegistry::add, in a registration; what throws ends registerOperations, and
\* nothing after it is added.
add(registry, operation) ==
  IF registry.thrown THEN registry
  ELSE IF operation \in registry.handlers THEN [registry EXCEPT !.thrown = TRUE]
  ELSE [registry EXCEPT !.handlers = @ \cup {operation}, !.pending = Append(@, operation)]

registerOperations(registry, added) ==
  FoldLeft(LAMBDA r, operation : add(r, operation), registry, added)

rollbackRegistration(registry) ==
  [registry EXCEPT !.handlers = @ \ Range(registry.pending), !.pending = <<>>]

\* commitRegistration asks whether the operations listed are those that were added.
Listed(registry, listed) ==
  /\ Len(listed) = Len(registry.pending)
  /\ IsInjective(listed)
  /\ Range(registry.pending) \subseteq Range(listed)

\* The registry afterwards; its error is THE_PLUGIN_ERROR, and count THE_PLUGIN_COUNT.
RegisterPlugin(registry, descriptor) ==
  IF ~descriptor.matches \/ descriptor.listed = <<>> \/ descriptor.name \in registry.names
  THEN [registry EXCEPT !.error = 1]
  ELSE LET begun == [registry EXCEPT !.names = @ \cup {descriptor.name}]
           staged == registerOperations(begun, descriptor.adds)
       IN IF ~staged.thrown /\ Listed(staged, descriptor.listed)
          THEN [staged EXCEPT !.pending = <<>>, !.count = @ + 1, !.error = 0]
          ELSE [rollbackRegistration(staged) EXCEPT
                  !.names = @ \ {descriptor.name}, !.thrown = FALSE, !.error = 2]

-----------------------------------------------------------------------------
(* What it means.                                                          *)

\* A registration is all or nothing: it leaves the registry as it was, but for the error,
\* or adds the name and exactly the operations listed, none of which had a handler; and
\* it succeeds if and only if no error is left, which is what the loader looks at.
AllOrNothing(registry, descriptor) ==
  LET r == RegisterPlugin(registry, descriptor) IN
  \/ /\ r.error # 0
     /\ [r EXCEPT !.error = registry.error] = registry
  \/ /\ r.error = 0 /\ r.count = registry.count + 1
     /\ r.names = registry.names \cup {descriptor.name}
     /\ descriptor.matches
     /\ r.handlers = registry.handlers \cup Range(descriptor.listed)
     /\ registry.handlers \cap Range(descriptor.listed) = {}
=============================================================================
