---------------------------- MODULE SharedLoader ----------------------------
(***************************************************************************)
(* The loader of a shared Main and its Sides (ts/src/shared-loader.ts),    *)
(* with what Main does when a Side registers its operations                *)
(* (kernel/entry/full_entry.cpp).  A Side has a descriptor for each of its *)
(* semantic modules; what becomes of one is in module PluginRegistry.  The *)
(* load of a Side is an attempt; attempts run one after the other, in the  *)
(* order they were scheduled on #sideLoadTail, whatever becomes of each.   *)
(***************************************************************************)
EXTENDS Integers, Sequences, FiniteSets

CONSTANTS
  Side,           \* the Sides a caller asks for
  Modules,        \* how many semantic modules a Side has
  Mismatched,     \* Sides whose expected build family is not Main's
  MaxMains,       \* bound: instances of Main
  MaxAttempts     \* bound: loads of Sides

ASSUME LoaderAssumption ==
  /\ Modules \in [Side -> Nat \ {0}]
  /\ Mismatched \subseteq Side
  /\ MaxMains \in Nat \ {0} /\ MaxAttempts \in Nat

VARIABLES
  main,           \* #module: the number of the instance, or 0 for undefined
  epoch,          \* #epoch
  instantiating,  \* the epoch #instantiating began in, or -1
  mains,          \* how many instances of Main were ever made
  sides,          \* #sides: Side -> its attempt, from the reservation on
  attempts,       \* every load that was scheduled
  resident,       \* per Main, the libraries loaded into it: they stay
  registered      \* per Main, the modules of Sides whose operations are registered

loaderVars == <<main, epoch, instantiating, mains, sides, attempts, resident,
                registered>>

Main == 1 .. MaxMains
Attempt == [side : Side, main : Main, epoch : Nat,
            state : {"queued", "loading", "resolved", "rejected"}, before : Nat]

ModulesOf(s) == {s} \X (1 .. Modules[s])
ModulesOfAll(S) == UNION {ModulesOf(s) : s \in S}

Ended(n) == attempts[n].state \in {"resolved", "rejected"}
Without(s) == [t \in (DOMAIN sides) \ {s} |-> sides[t]]

\* The module or the epoch changed since ensureSide read them.
Stale(n) == main # attempts[n].main \/ epoch # attempts[n].epoch

Init ==
  /\ main = 0
  /\ epoch = 0
  /\ instantiating = -1
  /\ mains = 0
  /\ sides = [s \in {} |-> 0]
  /\ attempts = <<>>
  /\ resident = [k \in Main |-> {}]
  /\ registered = [k \in Main |-> {}]

-----------------------------------------------------------------------------
Instantiate ==
  /\ main = 0
  /\ instantiating = -1
  /\ mains < MaxMains
  /\ instantiating' = epoch
  /\ UNCHANGED <<main, epoch, mains, sides, attempts, resident, registered>>

\* The factory settles; an instance that comes after dispose() is dropped.
Instantiated ==
  /\ instantiating # -1
  /\ instantiating' = -1
  /\ \/ /\ epoch = instantiating
        /\ main' = mains + 1
        /\ mains' = mains + 1
        /\ epoch' = epoch + 1
        /\ sides' = [s \in {} |-> 0]
     \/ UNCHANGED <<main, mains, epoch, sides>>
  /\ UNCHANGED <<attempts, resident, registered>>

\* ensureSide up to its await: a Side that is reserved is shared, even while
\* it loads.  The caller then waits for the attempt AttemptOf(s).
Reserve(s) ==
  /\ main # 0
  /\ IF s \in DOMAIN sides
     THEN UNCHANGED <<sides, attempts>>
     ELSE /\ Len(attempts) < MaxAttempts
          /\ attempts' = Append(attempts,
               [side |-> s, main |-> main, epoch |-> epoch,
                state |-> "queued", before |-> 0])
          /\ sides' = [t \in (DOMAIN sides) \cup {s} |->
                         IF t = s THEN Len(attempts) + 1 ELSE sides[t]]
  /\ UNCHANGED <<main, epoch, instantiating, mains, resident, registered>>

AttemptOf(s) == IF s \in DOMAIN sides THEN sides[s] ELSE Len(attempts) + 1

\* A rejected attempt gives its reservation back, if it still holds it.
Settle(n, state) ==
  /\ attempts' = [attempts EXCEPT ![n].state = state]
  /\ sides' = IF /\ state = "rejected"
                 /\ attempts[n].side \in DOMAIN sides
                 /\ sides[attempts[n].side] = n
              THEN Without(attempts[n].side) ELSE sides

\* Mutant of Startable: loads are not serialized.
StartableAtOnce(n) == attempts[n].state = "queued"

\* Mutant of Startable: the tail does not survive a failed load.
StartableAfterSuccess(n) ==
  attempts[n].state = "queued" /\ \A m \in 1 .. n - 1 : attempts[m].state = "resolved"

\* The tail has come to this attempt.
Startable(n) == attempts[n].state = "queued" /\ \A m \in 1 .. n - 1 : Ended(m)

StartLoad(n) ==
  /\ Startable(n)
  /\ \/ /\ Stale(n) \/ attempts[n].side \in Mismatched
        /\ Settle(n, "rejected")
     \/ /\ ~Stale(n) /\ attempts[n].side \notin Mismatched
        /\ attempts' = [attempts EXCEPT
             ![n].state = "loading", ![n].before = Cardinality(registered[main])]
        /\ sides' = sides
  /\ UNCHANGED <<main, epoch, instantiating, mains, resident, registered>>

\* Mutant of Checked: a load is not compared with the current Main.
CheckedCount(n, count) == count = attempts[n].before + Modules[attempts[n].side]

\* Mutant of Checked: a library that registered nothing counts as loaded.
CheckedMain(n, count) == ~Stale(n)

\* What is checked after the library loaded.
Checked(n, count) == ~Stale(n) /\ count = attempts[n].before + Modules[attempts[n].side]

LibraryFails(n) ==
  /\ attempts[n].state = "loading"
  /\ Settle(n, "rejected")
  /\ UNCHANGED <<main, epoch, instantiating, mains, resident, registered>>

\* The library is loaded into the Main the attempt began with.  Its
\* constructors register the operations of each module, all or none, the first
\* time only: loading a resident library again runs no constructor.  Nobody takes
\* back the modules that were registered when others were not.
LibraryLoads(n) ==
  LET k == attempts[n].main
      s == attempts[n].side
  IN /\ attempts[n].state = "loading"
     /\ resident' = [resident EXCEPT ![k] = @ \cup {s}]
     /\ \E done \in SUBSET ModulesOf(s) :
          /\ s \in resident[k] => done = {}
          /\ registered' = [registered EXCEPT ![k] = @ \cup done]
     /\ Settle(n, IF Checked(n, Cardinality(registered'[k])) THEN "resolved" ELSE "rejected")
     /\ UNCHANGED <<main, epoch, instantiating, mains>>

Dispose ==
  /\ epoch' = epoch + 1
  /\ sides' = [s \in {} |-> 0]
  /\ main' = 0
  /\ UNCHANGED <<instantiating, mains, attempts, resident, registered>>

Next ==
  \/ Instantiate
  \/ Instantiated
  \/ \E s \in Side : Reserve(s)
  \/ \E n \in DOMAIN attempts : StartLoad(n) \/ LibraryFails(n) \/ LibraryLoads(n)
  \/ epoch < 2 * MaxMains /\ Dispose

\* The tail moves on, and a request for a library ends.
LoadFairness ==
  \A n \in 1 .. MaxAttempts :
    /\ WF_loaderVars(n \in DOMAIN attempts /\ StartLoad(n))
    /\ WF_loaderVars(n \in DOMAIN attempts /\ (LibraryFails(n) \/ LibraryLoads(n)))

Spec == Init /\ [][Next]_loaderVars /\ LoadFairness

-----------------------------------------------------------------------------
(* Properties.                                                             *)

\* Sides some of whose modules are registered, and others not.
Halfway(k) ==
  {s \in Side : ModulesOf(s) \cap registered[k] # {} /\ ~(ModulesOf(s) \subseteq registered[k])}

\* What the loader holds as loaded is what Main has registered, neither more nor
\* less, but for modules of a Side whose registration broke off half-way: a
\* successful load is not rejected for the registrations of another.
LoadedIsRegistered ==
  main # 0 =>
    registered[main] \ ModulesOfAll(Halfway(main))
      = ModulesOfAll({s \in DOMAIN sides : attempts[sides[s]].state = "resolved"})

\* No load resolves for a Main that is gone: a caller of ensureSide that is told
\* the Side is loaded can use it on the Main it started with.
NoStaleLoad ==
  [][ \A n \in DOMAIN attempts :
        attempts[n].state # "resolved" /\ attempts'[n].state = "resolved"
          => ~Stale(n) ]_loaderVars

\* No load waits for ever behind one that failed or went stale: again and again there
\* is none under way.
AllEnded == \A n \in DOMAIN attempts : Ended(n)
=============================================================================
