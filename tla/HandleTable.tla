---------------------------- MODULE HandleTable ----------------------------
(***************************************************************************)
(* What the kernel promises about shape handles, without slots,            *)
(* generations or free lists.  A handle is a token.  A token is issued at  *)
(* most once; it is live from then until it is released, its scope ends,   *)
(* the table is cleared, or the operation that issued it is rolled back.   *)
(* ShapeArena implements this specification.                               *)
(***************************************************************************)
EXTENDS Integers, Sequences

CONSTANTS
  Token,      \* every value a caller may present as a shape handle
  ScopeId     \* every value a caller may present as a scope id

VARIABLES
  live,       \* the live tokens, each mapped to the scope that owns it
  open,       \* the scopes that have begun and not ended
  issued      \* every token ever issued, in order: a checkpoint is a length

vars == <<live, open, issued>>

Init ==
  /\ live = [t \in {} |-> 0]
  /\ open = {}
  /\ issued = <<>>

BeginScope(s) ==
  /\ open' = open \cup {s}
  /\ UNCHANGED <<live, issued>>

\* A token that was issued before, whatever became of it, is never issued again.
Issue(t, s) ==
  /\ s \in open
  /\ \A k \in 1 .. Len(issued) : issued[k] # t
  /\ issued' = Append(issued, t)
  /\ live' = [u \in (DOMAIN live) \cup {t} |-> IF u = t THEN s ELSE live[u]]
  /\ open' = open

Keep(T) == [u \in T |-> live[u]]

Release(t) ==
  /\ t \in DOMAIN live
  /\ live' = Keep((DOMAIN live) \ {t})
  /\ UNCHANGED <<open, issued>>

EndScope(s) ==
  /\ s \in open
  /\ open' = open \ {s}
  /\ live' = Keep({t \in DOMAIN live : live[t] # s})
  /\ issued' = issued

Clear ==
  /\ live' = [t \in {} |-> 0]
  /\ open' = {}
  /\ issued' = issued

\* Forget what was issued after the first k tokens, and nothing else.
Rollback(k) ==
  /\ live' = Keep({t \in DOMAIN live : \E n \in 1 .. k : issued[n] = t})
  /\ UNCHANGED <<open, issued>>

Next ==
  \/ \E s \in ScopeId : BeginScope(s) \/ EndScope(s)
  \/ \E t \in Token, s \in ScopeId : Issue(t, s)
  \/ \E t \in Token : Release(t)
  \/ \E k \in 0 .. Len(issued) : Rollback(k)
  \/ Clear

Spec == Init /\ [][Next]_vars
=============================================================================
