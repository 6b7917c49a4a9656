-------------------------- MODULE SharedClientProofs --------------------------
(***************************************************************************)
(* The shared loader and its client, for any Sides with any numbers of     *)
(* modules, any requests and any number of Mains: what the loader holds as *)
(* loaded, and what the client makes of it.                                *)
(***************************************************************************)
EXTENDS SharedClient, FiniteSetTheorems, SequenceTheorems, TLAPS

-----------------------------------------------------------------------------
(* The modules of a Side.                                                  *)

LEMMA ModulesCounted ==
  ASSUME NEW s \in Side
  PROVE  /\ Modules[s] \in Nat \ {0}
         /\ IsFiniteSet(ModulesOf(s)) /\ Cardinality(ModulesOf(s)) = Modules[s]
         /\ ModulesOf(s) # {}
<1>1. Modules[s] \in Nat /\ Modules[s] >= 1
  BY LoaderAssumption
<1>2. IsFiniteSet({s}) /\ Cardinality({s}) = 1
  BY FS_Singleton
<1>3. IsFiniteSet(1 .. Modules[s]) /\ Cardinality(1 .. Modules[s]) = Modules[s]
  <2>1. IsFiniteSet(1 .. Modules[s])
        /\ Cardinality(1 .. Modules[s]) = IF 1 > Modules[s] THEN 0 ELSE Modules[s] - 1 + 1
    BY <1>1, FS_Interval
  <2> QED
    BY <1>1, <2>1
<1>4. IsFiniteSet(ModulesOf(s)) /\ Cardinality(ModulesOf(s)) = 1 * Modules[s]
  BY <1>2, <1>3, FS_Product DEF ModulesOf
<1>5. <<s, 1>> \in ModulesOf(s)
  BY <1>1 DEF ModulesOf
<1> QED
  BY <1>1, <1>4, <1>5

LEMMA ModulesApart ==
  ASSUME NEW s \in Side, NEW t \in Side, ModulesOf(s) \cap ModulesOf(t) # {}
  PROVE  s = t
BY DEF ModulesOf

\* What the count of registrations tells: they are as many more as the Side has
\* modules only if all of them are new.
LEMMA CountTells ==
  ASSUME NEW s \in Side, NEW R, IsFiniteSet(R), NEW done \in SUBSET ModulesOf(s)
  PROVE  /\ IsFiniteSet(R \cup done)
         /\ Cardinality(R \cup done) = Cardinality(R) + Modules[s]
              <=> done = ModulesOf(s) /\ ModulesOf(s) \cap R = {}
<1>1. /\ IsFiniteSet(ModulesOf(s)) /\ Cardinality(ModulesOf(s)) = Modules[s]
      /\ Modules[s] \in Nat
  BY ModulesCounted
<1>2. /\ IsFiniteSet(done) /\ Cardinality(done) <= Modules[s]
      /\ Cardinality(done) = Modules[s] => done = ModulesOf(s)
  BY <1>1, FS_Subset
<1>3. IsFiniteSet(R \cap done)
  BY <1>2, FS_Subset
<1>4. /\ IsFiniteSet(R \cup done)
      /\ Cardinality(R \cup done) = Cardinality(R) + Cardinality(done) - Cardinality(R \cap done)
  BY <1>2, FS_Union
<1>5. /\ Cardinality(R) \in Nat /\ Cardinality(done) \in Nat /\ Cardinality(R \cap done) \in Nat
      /\ Cardinality(R \cap done) = 0 <=> R \cap done = {}
  BY <1>2, <1>3, FS_CardinalityType, FS_EmptySet
<1>6. ASSUME Cardinality(R \cup done) = Cardinality(R) + Modules[s]
      PROVE  done = ModulesOf(s) /\ ModulesOf(s) \cap R = {}
  <2>1. Cardinality(done) = Modules[s] /\ Cardinality(R \cap done) = 0
    BY <1>1, <1>2, <1>4, <1>5, <1>6
  <2> QED
    BY <1>2, <1>5, <2>1
<1>7. ASSUME done = ModulesOf(s), ModulesOf(s) \cap R = {}
      PROVE  Cardinality(R \cup done) = Cardinality(R) + Modules[s]
  <2>1. R \cap done = {} /\ Cardinality(done) = Modules[s]
    BY <1>1, <1>7
  <2> QED
    BY <1>1, <1>4, <1>5, <2>1
<1> QED
  BY <1>4, <1>6, <1>7

-----------------------------------------------------------------------------
(* The invariant of the loader.                                            *)

Tries == DOMAIN attempts
Loaded(s) == s \in DOMAIN sides /\ attempts[sides[s]].state = "resolved"

LoaderTypes ==
  /\ main \in Nat /\ mains \in Nat /\ mains <= MaxMains
  /\ epoch \in Nat /\ instantiating \in Nat \cup {-1}
  /\ attempts \in Seq(Attempt)
  /\ sides \in [DOMAIN sides -> Tries] /\ DOMAIN sides \subseteq Side
  /\ resident \in [Main -> SUBSET Side]
  /\ registered \in [Main -> SUBSET ModulesOfAll(Side)]

\* A Main is used in one epoch, and never again once another was made.
MainsInOrder ==
  /\ main # 0 => main = mains
  /\ instantiating # -1 => mains < MaxMains
  /\ \A n \in Tries : attempts[n].main <= mains
  /\ \A n \in Tries : attempts[n].main = main => attempts[n].epoch = epoch
  /\ \A k \in Main : k > mains => registered[k] = {} /\ resident[k] = {}

\* A Side is reserved by the one attempt for the current Main that was not rejected.
SidesReserved ==
  /\ \A s \in DOMAIN sides :
       /\ attempts[sides[s]].side = s /\ attempts[sides[s]].main = main
       /\ attempts[sides[s]].state # "rejected"
  /\ \A n \in Tries :
       attempts[n].main = main /\ attempts[n].state # "rejected"
         => attempts[n].side \in DOMAIN sides /\ sides[attempts[n].side] = n

\* Loads run one after the other.
InTurn == \A n, m \in Tries : m < n /\ attempts[n].state # "queued" => Ended(m)

\* Nothing is registered between the count before a load and the one after it.
Counted ==
  /\ \A k \in Main : IsFiniteSet(registered[k])
  /\ \A n \in Tries : attempts[n].state = "loading"
       => attempts[n].before = Cardinality(registered[attempts[n].main])

\* A Side that was loaded once is resident; the current Main has it wholly
\* registered exactly if its load resolved.
WhollyRegistered ==
  /\ \A k \in Main : \A s \in Side :
       ModulesOf(s) \cap registered[k] # {} => s \in resident[k]
  /\ \A n \in Tries : attempts[n].state = "resolved"
       => ModulesOf(attempts[n].side) \subseteq registered[attempts[n].main]
  /\ \A s \in Side : main # 0 /\ ModulesOf(s) \subseteq registered[main] => Loaded(s)
  /\ \A k \in Main : \A s \in resident[k] : \E n \in Tries : attempts[n].side = s

LoaderInv ==
  LoaderTypes /\ MainsInOrder /\ SidesReserved /\ InTurn /\ Counted /\ WhollyRegistered

\* The Main, if there is one, is one of those of the model.
LEMMA MainIs ==
  ASSUME LoaderInv
  PROVE  /\ main # 0 => main \in Main
         /\ \A n \in Tries : attempts[n] \in Attempt
         /\ Tries = 1 .. Len(attempts) /\ Len(attempts) \in Nat /\ Tries \subseteq Nat
BY LoaderAssumption DEF LoaderInv, LoaderTypes, MainsInOrder, Main, Tries

\* What changes when an attempt gets on.
LEMMA Replaced ==
  ASSUME LoaderInv, NEW n \in Tries, NEW a \in Attempt,
         attempts' = [attempts EXCEPT ![n] = a],
         a.side = attempts[n].side, a.main = attempts[n].main, a.epoch = attempts[n].epoch
  PROVE  /\ attempts' \in Seq(Attempt) /\ Tries' = Tries
         /\ attempts'[n].state = a.state /\ attempts'[n].before = a.before
         /\ \A m \in Tries :
              /\ attempts'[m].side = attempts[m].side /\ attempts'[m].main = attempts[m].main
              /\ attempts'[m].epoch = attempts[m].epoch
              /\ m # n => attempts'[m] = attempts[m]
<1>1. attempts \in Seq(Attempt) /\ n \in 1 .. Len(attempts) /\ Tries = 1 .. Len(attempts)
  BY MainIs DEF LoaderInv, LoaderTypes
<1> DEFINE next == [attempts EXCEPT ![n] = a]
<1>2. /\ next \in Seq(Attempt) /\ Len(next) = Len(attempts)
      /\ \A m \in 1 .. Len(attempts) : next[m] = IF m = n THEN a ELSE attempts[m]
  BY <1>1, ExceptSeq
<1>3. attempts' = next
  OBVIOUS
<1> HIDE DEF next
<1>4. Tries' = Tries
  BY <1>1, <1>2, <1>3 DEF Tries
<1> QED
  BY <1>1, <1>2, <1>3, <1>4

LEMMA GotState ==
  ASSUME LoaderInv, NEW n \in Tries, NEW st \in {"loading", "resolved", "rejected"},
         attempts' = [attempts EXCEPT ![n].state = st]
  PROVE  /\ attempts' \in Seq(Attempt) /\ Tries' = Tries
         /\ \A m \in Tries :
              /\ attempts'[m].side = attempts[m].side /\ attempts'[m].main = attempts[m].main
              /\ attempts'[m].epoch = attempts[m].epoch
              /\ attempts'[m].state = IF m = n THEN st ELSE attempts[m].state
              /\ attempts'[m].before = attempts[m].before
<1> DEFINE a == [attempts[n] EXCEPT !.state = st]
<1>1. attempts[n] \in Attempt
  BY MainIs
<1>2. a \in Attempt /\ a.side = attempts[n].side /\ a.main = attempts[n].main
      /\ a.epoch = attempts[n].epoch /\ a.state = st /\ a.before = attempts[n].before
  BY <1>1 DEF Attempt
<1>3. attempts' = [attempts EXCEPT ![n] = a]
  OBVIOUS
<1> HIDE DEF a
<1>4. /\ attempts' \in Seq(Attempt) /\ Tries' = Tries
      /\ attempts'[n].state = a.state /\ attempts'[n].before = a.before
      /\ \A m \in Tries :
           /\ attempts'[m].side = attempts[m].side /\ attempts'[m].main = attempts[m].main
           /\ attempts'[m].epoch = attempts[m].epoch
           /\ m # n => attempts'[m] = attempts[m]
  BY <1>2, <1>3, Replaced
<1> QED
  BY <1>2, <1>4

LEMMA GotGoing ==
  ASSUME LoaderInv, NEW n \in Tries, NEW b \in Nat,
         attempts' = [attempts EXCEPT ![n] = [attempts[n] EXCEPT !.state = "loading", !.before = b]]
  PROVE  /\ attempts' \in Seq(Attempt) /\ Tries' = Tries
         /\ attempts'[n].before = b
         /\ \A m \in Tries :
              /\ attempts'[m].side = attempts[m].side /\ attempts'[m].main = attempts[m].main
              /\ attempts'[m].epoch = attempts[m].epoch
              /\ attempts'[m].state = IF m = n THEN "loading" ELSE attempts[m].state
              /\ m # n => attempts'[m].before = attempts[m].before
<1> DEFINE a == [attempts[n] EXCEPT !.state = "loading", !.before = b]
<1>1. attempts[n] \in Attempt /\ attempts \in Seq(Attempt)
  BY MainIs DEF LoaderInv, LoaderTypes
<1>2. a \in Attempt /\ a.side = attempts[n].side /\ a.main = attempts[n].main
      /\ a.epoch = attempts[n].epoch /\ a.state = "loading" /\ a.before = b
  BY <1>1 DEF Attempt
<1>3. attempts' = [attempts EXCEPT ![n] = a]
  OBVIOUS
<1> HIDE DEF a
<1>4. /\ attempts' \in Seq(Attempt) /\ Tries' = Tries
      /\ attempts'[n].state = a.state /\ attempts'[n].before = a.before
      /\ \A m \in Tries :
           /\ attempts'[m].side = attempts[m].side /\ attempts'[m].main = attempts[m].main
           /\ attempts'[m].epoch = attempts[m].epoch
           /\ m # n => attempts'[m] = attempts[m]
  BY <1>2, <1>3, Replaced
<1> QED
  BY <1>2, <1>4

-----------------------------------------------------------------------------
(* The loader keeps its invariant.                                         *)

LEMMA LoaderInvInit == Init \/ ClientInit => LoaderInv
<1> SUFFICES ASSUME Init \/ ClientInit
             PROVE  LoaderInv
  OBVIOUS
<1>1. /\ attempts = <<>> /\ DOMAIN sides = {} /\ sides = [s \in {} |-> 0]
      /\ resident = [k \in Main |-> {}] /\ registered = [k \in Main |-> {}]
      /\ instantiating = -1 /\ main \in {0, 1} /\ mains = main /\ epoch \in Nat
  BY DEF Init, ClientInit
<1>2. Tries = {} /\ attempts \in Seq(Attempt) /\ MaxMains \in Nat /\ MaxMains >= 1
  BY <1>1, LoaderAssumption DEF Tries
<1>3. LoaderTypes
  BY <1>1, <1>2 DEF LoaderTypes
<1>4. MainsInOrder /\ SidesReserved /\ InTurn
  BY <1>1, <1>2 DEF MainsInOrder, SidesReserved, InTurn
<1>5. Counted
  BY <1>1, <1>2, FS_EmptySet DEF Counted
<1>6. \A s \in Side : ModulesOf(s) # {}
  BY ModulesCounted
<1>7. main # 0 => main \in Main
  BY <1>1, <1>2 DEF Main
<1>8. WhollyRegistered
  BY <1>1, <1>2, <1>6, <1>7 DEF WhollyRegistered
<1> QED
  BY <1>3, <1>4, <1>5, <1>8 DEF LoaderInv

LEMMA InstantiateKeeps ==
  ASSUME LoaderInv, Instantiate
  PROVE  LoaderInv'
<1>1. /\ UNCHANGED <<main, epoch, mains, sides, attempts, resident, registered>>
      /\ instantiating' \in Nat /\ mains < MaxMains
  BY DEF Instantiate, LoaderInv, LoaderTypes
<1>2. LoaderTypes' /\ MainsInOrder'
  BY <1>1 DEF LoaderInv, LoaderTypes, MainsInOrder, Tries
<1>3. SidesReserved' /\ InTurn' /\ Counted'
  BY <1>1 DEF LoaderInv, SidesReserved, InTurn, Counted, Tries, Ended
<1>4. WhollyRegistered'
  BY <1>1 DEF LoaderInv, WhollyRegistered, Loaded, Tries
<1> QED
  BY <1>2, <1>3, <1>4 DEF LoaderInv

\* Another Main, or none: no attempt was made for it, nothing is registered in it.
LEMMA RenewKeeps ==
  ASSUME LoaderInv, epoch' \in Nat, instantiating' \in {-1, instantiating},
         UNCHANGED <<attempts, resident, registered>>, sides' = [s \in {} |-> 0],
         \/ main' = 0 /\ mains' = mains
         \/ main' = mains + 1 /\ mains' = mains + 1 /\ mains < MaxMains /\ instantiating' = -1
  PROVE  LoaderInv'
<1>1. /\ Tries' = Tries /\ DOMAIN sides' = {} /\ mains' \in Nat /\ mains' <= MaxMains
      /\ mains' >= mains /\ main' \in Nat /\ mains \in Nat
  BY LoaderAssumption DEF Tries, LoaderInv, LoaderTypes
<1>2. LoaderTypes'
  BY <1>1 DEF LoaderInv, LoaderTypes
<1>3. \A n \in Tries : attempts[n].main \in Nat /\ attempts[n].main <= mains /\ attempts[n].main # 0
  BY MainIs, LoaderAssumption DEF Attempt, Main, LoaderInv, MainsInOrder
<1>4. \A n \in Tries : attempts[n].main # main'
  BY <1>1, <1>3
<1>5. main' # 0 => main' \in Main /\ registered[main'] = {}
  BY <1>1, LoaderAssumption DEF Main, LoaderInv, MainsInOrder
<1>6. MainsInOrder'
  <2>1. \A n \in Tries : attempts[n].main <= mains'
    BY <1>1, <1>3
  <2>2. \A k \in Main : k > mains' => registered[k] = {} /\ resident[k] = {}
    BY <1>1, LoaderAssumption DEF LoaderInv, MainsInOrder, Main
  <2>3. (main' # 0 => main' = mains') /\ (instantiating' # -1 => mains' < MaxMains)
    BY DEF LoaderInv, MainsInOrder
  <2> QED
    BY <1>1, <1>4, <2>1, <2>2, <2>3 DEF MainsInOrder
<1>7. SidesReserved' /\ InTurn' /\ Counted'
  BY <1>1, <1>4 DEF LoaderInv, SidesReserved, InTurn, Counted, Ended
<1>8. \A s \in Side : ModulesOf(s) # {}
  BY ModulesCounted
<1>9. WhollyRegistered'
  BY <1>1, <1>5, <1>8 DEF LoaderInv, WhollyRegistered
<1> QED
  BY <1>2, <1>6, <1>7, <1>9 DEF LoaderInv

LEMMA InstantiatedKeeps ==
  ASSUME LoaderInv, Instantiated
  PROVE  LoaderInv'
<1>1. instantiating # -1 /\ mains < MaxMains /\ epoch \in Nat
  BY DEF Instantiated, LoaderInv, MainsInOrder, LoaderTypes
<1>2. CASE epoch = instantiating /\ main' = mains + 1 /\ mains' = mains + 1
           /\ epoch' = epoch + 1 /\ sides' = [s \in {} |-> 0]
  <2>1. epoch' \in Nat /\ instantiating' = -1 /\ UNCHANGED <<attempts, resident, registered>>
    BY <1>1, <1>2 DEF Instantiated
  <2> QED
    BY <1>1, <1>2, <2>1, RenewKeeps
<1>3. CASE UNCHANGED <<main, mains, epoch, sides>>
  <2>1. UNCHANGED <<main, mains, epoch, sides, attempts, resident, registered>> /\ instantiating' = -1
    BY <1>3 DEF Instantiated
  <2>2. LoaderTypes' /\ MainsInOrder'
    BY <2>1 DEF LoaderInv, LoaderTypes, MainsInOrder, Tries
  <2>3. SidesReserved' /\ InTurn' /\ Counted'
    BY <2>1 DEF LoaderInv, SidesReserved, InTurn, Counted, Tries, Ended
  <2>4. WhollyRegistered'
    BY <2>1 DEF LoaderInv, WhollyRegistered, Loaded, Tries
  <2> QED
    BY <2>2, <2>3, <2>4 DEF LoaderInv
<1> QED
  BY <1>2, <1>3 DEF Instantiated

LEMMA DisposeKeeps ==
  ASSUME LoaderInv, Dispose
  PROVE  LoaderInv'
<1>1. epoch' \in Nat
  BY DEF Dispose, LoaderInv, LoaderTypes
<1> QED
  BY <1>1, RenewKeeps DEF Dispose

\* An attempt is added at the end.
LEMMA Added ==
  ASSUME LoaderInv, NEW a \in Attempt, attempts' = Append(attempts, a)
  PROVE  /\ attempts' \in Seq(Attempt) /\ Len(attempts) + 1 \in Nat \ Tries
         /\ Tries' = Tries \cup {Len(attempts) + 1}
         /\ attempts'[Len(attempts) + 1] = a
         /\ \A n \in Tries : attempts'[n] = attempts[n] /\ n < Len(attempts) + 1
<1>1. attempts \in Seq(Attempt) /\ Tries = 1 .. Len(attempts) /\ Len(attempts) \in Nat
  BY MainIs DEF LoaderInv, LoaderTypes
<1>2. /\ attempts' \in Seq(Attempt) /\ Len(attempts') = Len(attempts) + 1
      /\ attempts'[Len(attempts) + 1] = a
      /\ \A n \in 1 .. Len(attempts) : attempts'[n] = attempts[n]
  BY <1>1, AppendProperties
<1>3. Tries' = 1 .. Len(attempts) + 1
  BY <1>2 DEF Tries
<1>4. \A n \in 1 .. Len(attempts) : n < Len(attempts) + 1
  BY <1>1
<1>5. 1 .. Len(attempts) + 1 = (1 .. Len(attempts)) \cup {Len(attempts) + 1}
      /\ Len(attempts) + 1 \notin 1 .. Len(attempts)
  BY <1>1
<1> QED
  BY <1>1, <1>2, <1>3, <1>4, <1>5

LEMMA ReserveKeeps ==
  ASSUME LoaderInv, NEW s \in Side, Reserve(s)
  PROVE  LoaderInv'
<1>0. main \in Main /\ UNCHANGED <<main, epoch, instantiating, mains, resident, registered>>
  BY MainIs DEF Reserve
<1>1. CASE s \in DOMAIN sides
  <2>1. UNCHANGED <<main, mains, epoch, sides, attempts, instantiating, resident, registered>>
    BY <1>1 DEF Reserve
  <2>2. LoaderTypes' /\ MainsInOrder'
    BY <2>1 DEF LoaderInv, LoaderTypes, MainsInOrder, Tries
  <2>3. SidesReserved' /\ InTurn' /\ Counted'
    BY <2>1 DEF LoaderInv, SidesReserved, InTurn, Counted, Tries, Ended
  <2>4. WhollyRegistered'
    BY <2>1 DEF LoaderInv, WhollyRegistered, Loaded, Tries
  <2> QED
    BY <2>2, <2>3, <2>4 DEF LoaderInv
<1>2. CASE s \notin DOMAIN sides
  <2> DEFINE a == [side |-> s, main |-> main, epoch |-> epoch, state |-> "queued", before |-> 0]
             l == Len(attempts) + 1
  <2>1. a \in Attempt /\ attempts' = Append(attempts, a)
        /\ a.side = s /\ a.main = main /\ a.epoch = epoch /\ a.state = "queued"
    BY <1>0, <1>2 DEF Reserve, Attempt, LoaderInv, LoaderTypes
  <2>2. /\ sides' = [t \in (DOMAIN sides) \cup {s} |-> IF t = s THEN l ELSE sides[t]]
        /\ sides \in [DOMAIN sides -> Tries]
    BY <1>2 DEF Reserve, LoaderInv, LoaderTypes
  <2> HIDE DEF a
  <2>3. /\ attempts' \in Seq(Attempt) /\ l \in Nat \ Tries /\ Tries' = Tries \cup {l}
        /\ attempts'[l] = a
        /\ \A n \in Tries : attempts'[n] = attempts[n] /\ n < l
    BY <2>1, Added
  <2> HIDE DEF l
  <2>4. DOMAIN sides' = DOMAIN sides \cup {s} /\ sides'[s] = l
        /\ \A t \in DOMAIN sides : t # s /\ sides'[t] = sides[t] /\ sides[t] \in Tries
    BY <1>2, <2>2
  <2>5. LoaderTypes'
    <3>1. sides' \in [DOMAIN sides' -> Tries'] /\ DOMAIN sides' \subseteq Side
      BY <2>2, <2>3, <2>4 DEF LoaderInv, LoaderTypes
    <3> QED
      BY <1>0, <2>3, <3>1 DEF LoaderInv, LoaderTypes
  <2>6. MainsInOrder'
    <3>1. main <= mains
      BY <1>0, LoaderAssumption DEF LoaderInv, MainsInOrder, LoaderTypes, Main
    <3> QED
      BY <1>0, <2>1, <2>3, <3>1 DEF LoaderInv, MainsInOrder
  <2>7. SidesReserved'
    <3>1. ASSUME NEW t \in DOMAIN sides'
          PROVE  /\ attempts'[sides'[t]].side = t /\ attempts'[sides'[t]].main = main
                 /\ attempts'[sides'[t]].state # "rejected"
      <4>1. CASE t = s
        BY <2>1, <2>3, <2>4, <4>1
      <4>2. CASE t # s
        BY <2>3, <2>4, <4>2 DEF LoaderInv, SidesReserved
      <4> QED
        BY <4>1, <4>2
    <3>2. ASSUME NEW n \in Tries', attempts'[n].main = main, attempts'[n].state # "rejected"
          PROVE  attempts'[n].side \in DOMAIN sides' /\ sides'[attempts'[n].side] = n
      <4>1. CASE n = l
        BY <2>1, <2>3, <2>4, <4>1
      <4>2. CASE n # l
        BY <2>3, <2>4, <3>2, <4>2 DEF LoaderInv, SidesReserved
      <4> QED
        BY <4>1, <4>2
    <3> QED
      BY <1>0, <3>1, <3>2 DEF SidesReserved
  <2>8. InTurn'
    <3>1. \A n \in Tries : ~(l < n)
      BY <2>3, MainIs
    <3>2. \A n \in Tries : (Ended(n))' <=> Ended(n)
      BY <2>3 DEF Ended
    <3> QED
      BY <2>1, <2>3, <3>1, <3>2 DEF LoaderInv, InTurn
  <2>9. Counted'
    BY <1>0, <2>1, <2>3 DEF LoaderInv, Counted
  <2>10. WhollyRegistered'
    <3>1. \A t \in Side : Loaded(t) => Loaded(t)'
      BY <2>3, <2>4 DEF Loaded
    <3> QED
      BY <1>0, <2>1, <2>3, <3>1 DEF LoaderInv, WhollyRegistered
  <2> QED
    BY <2>5, <2>6, <2>7, <2>8, <2>9, <2>10 DEF LoaderInv
<1> QED
  BY <1>1, <1>2

\* A Side that is given back is none that was loaded.
LEMMA SettledSides ==
  ASSUME LoaderInv, NEW n \in Tries, attempts[n].state \in {"queued", "loading"},
         NEW st \in {"resolved", "rejected"}, Settle(n, st), main' = main
  PROVE  /\ sides' \in [DOMAIN sides' -> Tries] /\ DOMAIN sides' \subseteq DOMAIN sides
         /\ \A s \in DOMAIN sides' : sides'[s] = sides[s]
         /\ st # "rejected" => sides' = sides
         /\ \A s \in DOMAIN sides : s \in DOMAIN sides' \/ (st = "rejected" /\ sides[s] = n)
         /\ SidesReserved'
         /\ \A s \in Side : Loaded(s) => Loaded(s)'
<1>1. /\ attempts' \in Seq(Attempt) /\ Tries' = Tries
      /\ \A m \in Tries :
           /\ attempts'[m].side = attempts[m].side /\ attempts'[m].main = attempts[m].main
           /\ attempts'[m].state = IF m = n THEN st ELSE attempts[m].state
  <2>1. attempts' = [attempts EXCEPT ![n].state = st] /\ st \in {"loading", "resolved", "rejected"}
    BY DEF Settle
  <2>2. /\ attempts' \in Seq(Attempt) /\ Tries' = Tries
        /\ \A m \in Tries :
             /\ attempts'[m].side = attempts[m].side /\ attempts'[m].main = attempts[m].main
             /\ attempts'[m].epoch = attempts[m].epoch
             /\ attempts'[m].state = IF m = n THEN st ELSE attempts[m].state
             /\ attempts'[m].before = attempts[m].before
    BY <2>1, GotState
  <2> QED
    BY <2>2
<1>2. sides \in [DOMAIN sides -> Tries]
  BY DEF LoaderInv, LoaderTypes
<1>3. \A s \in DOMAIN sides : attempts[sides[s]].side = s
  BY DEF LoaderInv, SidesReserved
<1> DEFINE own == attempts[n].side
<1>4. \/ st = "rejected" /\ own \in DOMAIN sides /\ sides[own] = n /\ sides' = Without(own)
      \/ sides' = sides /\ (st = "rejected" => own \notin DOMAIN sides \/ sides[own] # n)
  BY DEF Settle
<1>5. /\ sides' \in [DOMAIN sides' -> Tries] /\ DOMAIN sides' \subseteq DOMAIN sides
      /\ \A s \in DOMAIN sides' : sides'[s] = sides[s]
      /\ st # "rejected" => sides' = sides
  BY <1>2, <1>4 DEF Without
<1>6. \A s \in DOMAIN sides : s \in DOMAIN sides' \/ (st = "rejected" /\ sides[s] = n)
  BY <1>2, <1>4 DEF Without
<1>7. st = "rejected" => \A s \in DOMAIN sides' : sides'[s] # n
  BY <1>2, <1>3, <1>4 DEF Without
<1>8. SidesReserved'
  <2>1. ASSUME NEW s \in DOMAIN sides'
        PROVE  /\ attempts'[sides'[s]].side = s /\ attempts'[sides'[s]].main = main
               /\ attempts'[sides'[s]].state # "rejected"
    BY <1>1, <1>5, <1>7, <2>1 DEF LoaderInv, SidesReserved
  <2>2. ASSUME NEW m \in Tries, attempts'[m].main = main, attempts'[m].state # "rejected"
        PROVE  attempts'[m].side \in DOMAIN sides' /\ sides'[attempts'[m].side] = m
    <3>1. attempts[m].main = main /\ attempts'[m].side = attempts[m].side
      BY <1>1, <2>2
    <3>2. CASE m = n
      <4>1. st = "resolved" /\ sides' = sides
        BY <1>1, <1>5, <2>2, <3>2
      <4> QED
        BY <3>1, <3>2, <4>1, <1>4 DEF LoaderInv, SidesReserved
    <3>3. CASE m # n
      <4>1. attempts[m].side \in DOMAIN sides /\ sides[attempts[m].side] = m
        BY <1>1, <2>2, <3>1, <3>3 DEF LoaderInv, SidesReserved
      <4> QED
        BY <1>5, <1>6, <3>1, <3>3, <4>1
    <3> QED
      BY <3>2, <3>3
  <2> QED
    BY <1>1, <2>1, <2>2 DEF SidesReserved
<1>9. ASSUME NEW s \in Side, Loaded(s)
      PROVE  Loaded(s)'
  <2>1. sides[s] \in Tries /\ sides[s] # n /\ s \in DOMAIN sides'
    BY <1>2, <1>6, <1>9 DEF Loaded
  <2> QED
    BY <1>1, <1>5, <1>9, <2>1 DEF Loaded
<1> QED
  BY <1>5, <1>6, <1>8, <1>9

\* What settles an attempt, whatever was registered meanwhile.
LEMMA SettleKeeps ==
  ASSUME LoaderInv, NEW n \in Tries, attempts[n].state \in {"queued", "loading"},
         \A m \in Tries : m < n => Ended(m),
         NEW st \in {"resolved", "rejected"}, Settle(n, st),
         UNCHANGED <<main, epoch, instantiating, mains>>
  PROVE  /\ attempts' \in Seq(Attempt) /\ Tries' = Tries
         /\ \A m \in Tries :
              /\ attempts'[m].side = attempts[m].side /\ attempts'[m].main = attempts[m].main
              /\ attempts'[m].epoch = attempts[m].epoch
              /\ attempts'[m].state = IF m = n THEN st ELSE attempts[m].state
              /\ attempts'[m].before = attempts[m].before
         /\ SidesReserved' /\ InTurn'
         /\ sides' \in [DOMAIN sides' -> Tries'] /\ DOMAIN sides' \subseteq Side
         /\ \A s \in Side : Loaded(s) => Loaded(s)'
<1>1. attempts' = [attempts EXCEPT ![n].state = st] /\ st \in {"loading", "resolved", "rejected"}
  BY DEF Settle
<1>2. /\ attempts' \in Seq(Attempt) /\ Tries' = Tries
      /\ \A m \in Tries :
           /\ attempts'[m].side = attempts[m].side /\ attempts'[m].main = attempts[m].main
           /\ attempts'[m].epoch = attempts[m].epoch
           /\ attempts'[m].state = IF m = n THEN st ELSE attempts[m].state
           /\ attempts'[m].before = attempts[m].before
  BY <1>1, GotState
<1> HIDE <1>1
<1>3. /\ sides' \in [DOMAIN sides' -> Tries] /\ DOMAIN sides' \subseteq DOMAIN sides
      /\ SidesReserved' /\ \A s \in Side : Loaded(s) => Loaded(s)'
  BY SettledSides
<1>4. DOMAIN sides \subseteq Side
  BY DEF LoaderInv, LoaderTypes
<1>5. InTurn'
  <2>1. \A m \in Tries : Ended(m) => Ended(m)'
    BY <1>2 DEF Ended
  <2>2. \A k, m \in Tries : m < k /\ attempts[k].state # "queued" => Ended(m)
    BY DEF LoaderInv, InTurn
  <2>3. ASSUME NEW k \in Tries, NEW m \in Tries, m < k, attempts'[k].state # "queued"
        PROVE  Ended(m)
    <3>1. CASE k = n
      BY <2>3, <3>1
    <3>2. CASE k # n
      BY <1>2, <2>2, <2>3, <3>2
    <3> QED
      BY <3>1, <3>2
  <2> QED
    BY <1>2, <2>1, <2>3 DEF InTurn
<1> QED
  BY <1>2, <1>3, <1>4, <1>5

\* Before an attempt that has begun all others have ended.
LEMMA TurnOf ==
  ASSUME LoaderInv, NEW n \in Tries, Startable(n) \/ attempts[n].state = "loading"
  PROVE  /\ attempts[n].state \in {"queued", "loading"}
         /\ \A m \in Tries : m < n => Ended(m)
         /\ \A m \in Tries : m # n => attempts[m].state # "loading"
<1>1. attempts[n].state \in {"queued", "loading"}
  BY DEF Startable
<1>2. n \in Nat /\ Tries \subseteq Nat /\ \A m \in Tries : m >= 1
  BY MainIs
<1>3. \A m \in Tries : m < n => Ended(m)
  BY <1>2 DEF LoaderInv, InTurn, Startable
<1>4. ASSUME NEW m \in Tries, m # n, attempts[m].state = "loading"
      PROVE  FALSE
  <2>1. CASE m < n
    BY <1>3, <1>4, <2>1 DEF Ended
  <2>2. CASE n < m
    <3>1. Ended(n)
      BY <1>4, <2>2 DEF LoaderInv, InTurn
    <3> QED
      BY <1>1, <3>1 DEF Ended
  <2>3. m < n \/ n < m
    <3>1. n \in Nat /\ Tries \subseteq Nat
      BY <1>2, Zenon
    <3>2. m \in Nat /\ n \in Nat /\ m # n
      BY ONLY <3>1, <1>4, m \in Tries, Zenon
    <3> QED
      BY ONLY <3>2, SMT
  <2> QED
    BY <2>1, <2>2, <2>3
<1> QED
  BY <1>1, <1>3, <1>4

LEMMA RejectKeeps ==
  ASSUME LoaderInv, NEW n \in Tries, Startable(n) \/ attempts[n].state = "loading",
         Settle(n, "rejected"),
         UNCHANGED <<main, epoch, instantiating, mains, resident, registered>>
  PROVE  LoaderInv'
<1>1. attempts[n].state \in {"queued", "loading"} /\ \A m \in Tries : m < n => Ended(m)
  BY TurnOf
<1>2. /\ attempts' \in Seq(Attempt) /\ Tries' = Tries
      /\ \A m \in Tries :
           /\ attempts'[m].side = attempts[m].side /\ attempts'[m].main = attempts[m].main
           /\ attempts'[m].epoch = attempts[m].epoch
           /\ attempts'[m].state = IF m = n THEN "rejected" ELSE attempts[m].state
           /\ attempts'[m].before = attempts[m].before
      /\ SidesReserved' /\ InTurn'
      /\ sides' \in [DOMAIN sides' -> Tries'] /\ DOMAIN sides' \subseteq Side
      /\ \A s \in Side : Loaded(s) => Loaded(s)'
  BY <1>1, SettleKeeps
<1>3. LoaderTypes'
  BY <1>2 DEF LoaderInv, LoaderTypes
<1>4. MainsInOrder'
  BY <1>2 DEF LoaderInv, MainsInOrder
<1>5. Counted'
  BY <1>2 DEF LoaderInv, Counted
<1>6. WhollyRegistered'
  <2>1. \A m \in Tries : attempts'[m].state = "resolved" => attempts[m].state = "resolved"
    BY <1>2
  <2>2. \A s \in Side : main # 0 /\ ModulesOf(s) \subseteq registered[main] => Loaded(s)'
    BY <1>2 DEF LoaderInv, WhollyRegistered
  <2>3. \A m \in Tries : attempts'[m].state = "resolved"
          => ModulesOf(attempts'[m].side) \subseteq registered[attempts'[m].main]
    BY <1>2, <2>1 DEF LoaderInv, WhollyRegistered
  <2>4. \A k \in Main : \A s \in resident[k] : \E m \in Tries : attempts'[m].side = s
    BY <1>2 DEF LoaderInv, WhollyRegistered
  <2>5. \A k \in Main : \A s \in Side :
          ModulesOf(s) \cap registered[k] # {} => s \in resident[k]
    BY DEF LoaderInv, WhollyRegistered
  <2> QED
    BY <1>2, <2>2, <2>3, <2>4, <2>5 DEF WhollyRegistered
<1> QED
  BY <1>2, <1>3, <1>4, <1>5, <1>6 DEF LoaderInv

LEMMA StartLoadKeeps ==
  ASSUME LoaderInv, NEW n \in Tries, StartLoad(n)
  PROVE  LoaderInv'
<1>1. Startable(n) /\ UNCHANGED <<main, epoch, instantiating, mains, resident, registered>>
  BY DEF StartLoad
<1>2. CASE Settle(n, "rejected")
  BY <1>1, <1>2, RejectKeeps
<1>3. CASE /\ ~Stale(n) /\ sides' = sides
           /\ attempts' = [attempts EXCEPT
                ![n].state = "loading", ![n].before = Cardinality(registered[main])]
  <2> DEFINE b == Cardinality(registered[main])
  <2>1. attempts[n].main = main /\ main \in Main
    BY <1>3, MainIs DEF Stale, Attempt
  <2>2. b \in Nat
    BY <2>1, FS_CardinalityType DEF LoaderInv, Counted
  <2>3. attempts' = [attempts EXCEPT ![n] = [attempts[n] EXCEPT !.state = "loading", !.before = b]]
    BY <1>3 DEF LoaderInv, LoaderTypes
  <2> HIDE DEF b
  <2>4. /\ attempts' \in Seq(Attempt) /\ Tries' = Tries
        /\ attempts'[n].before = b
        /\ \A m \in Tries :
             /\ attempts'[m].side = attempts[m].side /\ attempts'[m].main = attempts[m].main
             /\ attempts'[m].epoch = attempts[m].epoch
             /\ attempts'[m].state = IF m = n THEN "loading" ELSE attempts[m].state
             /\ m # n => attempts'[m].before = attempts[m].before
    BY <2>2, <2>3, GotGoing
  <2>5. sides' = sides
    BY <1>3
  <2>6. /\ attempts[n].state = "queued" /\ \A m \in Tries : m < n => Ended(m)
    BY <1>1, TurnOf DEF Startable
  <2>7. LoaderTypes' /\ MainsInOrder'
    BY <1>1, <2>4, <2>5 DEF LoaderInv, LoaderTypes, MainsInOrder
  <2>8. SidesReserved'
    <3>1. \A s \in DOMAIN sides : sides[s] \in Tries
      BY DEF LoaderInv, LoaderTypes
    <3>2. \A m \in Tries : attempts'[m].state = "rejected" <=> attempts[m].state = "rejected"
      BY <2>4, <2>6
    <3> QED
      BY <1>1, <2>4, <2>5, <3>1, <3>2 DEF LoaderInv, SidesReserved
  <2>9. InTurn'
    <3>1. \A m \in Tries : Ended(m) => Ended(m)'
      BY <2>4, <2>6 DEF Ended
    <3>2. ASSUME NEW k \in Tries, NEW m \in Tries, m < k, attempts'[k].state # "queued"
          PROVE  Ended(m)
      <4>1. CASE k = n
        BY <2>6, <3>2, <4>1
      <4>2. CASE k # n
        BY <2>4, <3>2, <4>2 DEF LoaderInv, InTurn
      <4> QED
        BY <4>1, <4>2
    <3> QED
      BY <2>4, <3>1, <3>2 DEF InTurn
  <2>10. Counted'
    <3>1. ASSUME NEW m \in Tries, attempts'[m].state = "loading"
          PROVE  attempts'[m].before = Cardinality(registered[attempts'[m].main])
      <4>1. CASE m = n
        BY <2>1, <2>4, <4>1 DEF b
      <4>2. CASE m # n
        BY <2>4, <3>1, <4>2 DEF LoaderInv, Counted
      <4> QED
        BY <4>1, <4>2
    <3> QED
      BY <1>1, <2>4, <3>1 DEF LoaderInv, Counted
  <2>11. WhollyRegistered'
    <3>1. ASSUME NEW s \in Side, Loaded(s)
          PROVE  Loaded(s)'
      <4>1. sides[s] \in Tries /\ sides[s] # n
        BY <2>6, <3>1 DEF Loaded, LoaderInv, LoaderTypes
      <4> QED
        BY <2>4, <2>5, <3>1, <4>1 DEF Loaded
    <3>2. \A m \in Tries : attempts'[m].state = "resolved" => attempts[m].state = "resolved"
      BY <2>4
    <3> QED
      BY <1>1, <2>4, <3>1, <3>2 DEF LoaderInv, WhollyRegistered
  <2> QED
    BY <2>7, <2>8, <2>9, <2>10, <2>11 DEF LoaderInv
<1> QED
  BY <1>2, <1>3 DEF StartLoad

\* A library registers all its modules in a Main that has none of them and counts as
\* loaded, or it does not.
LEMMA Outcome ==
  ASSUME LoaderInv, NEW n \in Tries, attempts[n].state = "loading",
         NEW done \in SUBSET ModulesOf(attempts[n].side)
  PROVE  LET k == attempts[n].main
             s == attempts[n].side
         IN /\ IsFiniteSet(registered[k] \cup done)
            /\ Checked(n, Cardinality(registered[k] \cup done))
                 <=> main = k /\ done = ModulesOf(s) /\ ModulesOf(s) \cap registered[k] = {}
<1> DEFINE k == attempts[n].main
           s == attempts[n].side
<1>1. k \in Main /\ s \in Side
  BY MainIs DEF Attempt
<1>2. IsFiniteSet(registered[k]) /\ attempts[n].before = Cardinality(registered[k])
  BY <1>1 DEF LoaderInv, Counted
<1>3. /\ IsFiniteSet(registered[k] \cup done)
      /\ Cardinality(registered[k] \cup done) = Cardinality(registered[k]) + Modules[s]
           <=> done = ModulesOf(s) /\ ModulesOf(s) \cap registered[k] = {}
  BY <1>1, <1>2, CountTells
<1>4. ~Stale(n) <=> main = k
  BY DEF Stale, LoaderInv, MainsInOrder
<1> QED
  BY <1>2, <1>3, <1>4 DEF Checked

LEMMA LibraryLoadsKeeps ==
  ASSUME LoaderInv, NEW n \in Tries, LibraryLoads(n)
  PROVE  LoaderInv'
<1> DEFINE k == attempts[n].main
           s == attempts[n].side
<1>1. attempts[n].state = "loading" /\ UNCHANGED <<main, epoch, instantiating, mains>>
      /\ resident' = [resident EXCEPT ![k] = @ \cup {s}]
  BY DEF LibraryLoads
<1>2. PICK done \in SUBSET ModulesOf(s) :
        /\ s \in resident[k] => done = {}
        /\ registered' = [registered EXCEPT ![k] = @ \cup done]
        /\ Settle(n, IF Checked(n, Cardinality(registered'[k])) THEN "resolved" ELSE "rejected")
  BY DEF LibraryLoads
<1>3. k \in Main /\ s \in Side /\ attempts[n] \in Attempt
  BY MainIs DEF Attempt
<1>4. /\ registered \in [Main -> SUBSET ModulesOfAll(Side)]
      /\ resident \in [Main -> SUBSET Side]
  BY DEF LoaderInv, LoaderTypes
<1>5. /\ registered'[k] = registered[k] \cup done /\ resident'[k] = resident[k] \cup {s}
      /\ \A j \in Main : j # k => registered'[j] = registered[j] /\ resident'[j] = resident[j]
  BY <1>1, <1>2, <1>3, <1>4
<1> DEFINE st == IF Checked(n, Cardinality(registered'[k])) THEN "resolved" ELSE "rejected"
<1>6. /\ IsFiniteSet(registered'[k])
      /\ st = "resolved"
           <=> main = k /\ done = ModulesOf(s) /\ ModulesOf(s) \cap registered[k] = {}
  <2>1. /\ IsFiniteSet(registered[k] \cup done)
        /\ Checked(n, Cardinality(registered[k] \cup done))
             <=> main = k /\ done = ModulesOf(s) /\ ModulesOf(s) \cap registered[k] = {}
    BY <1>1, Outcome
  <2>2. st = "resolved" <=> Checked(n, Cardinality(registered'[k]))
    OBVIOUS
  <2>3. registered'[k] = registered[k] \cup done
    BY <1>5
  <2> HIDE DEF st
  <2> QED
    BY <2>1, <2>2, <2>3
<1>7. st \in {"resolved", "rejected"} /\ Settle(n, st)
  BY <1>2
<1> HIDE DEF st
<1>8. /\ \A m \in Tries : m < n => Ended(m)
      /\ \A m \in Tries : m # n => attempts[m].state # "loading"
  BY <1>1, TurnOf
<1>9. /\ attempts' \in Seq(Attempt) /\ Tries' = Tries
      /\ \A m \in Tries :
           /\ attempts'[m].side = attempts[m].side /\ attempts'[m].main = attempts[m].main
           /\ attempts'[m].epoch = attempts[m].epoch
           /\ attempts'[m].state = IF m = n THEN st ELSE attempts[m].state
           /\ attempts'[m].before = attempts[m].before
      /\ SidesReserved' /\ InTurn'
      /\ sides' \in [DOMAIN sides' -> Tries'] /\ DOMAIN sides' \subseteq Side
      /\ \A t \in Side : Loaded(t) => Loaded(t)'
  BY <1>1, <1>7, <1>8, SettleKeeps
<1>10. LoaderTypes'
  <2>1. ModulesOf(s) \subseteq ModulesOfAll(Side)
    BY <1>3 DEF ModulesOfAll
  <2>2. registered' \in [Main -> SUBSET ModulesOfAll(Side)]
    BY <1>2, <1>3, <1>4, <2>1
  <2>3. resident' \in [Main -> SUBSET Side]
    BY <1>1, <1>3, <1>4
  <2> QED
    BY <1>1, <1>9, <2>2, <2>3 DEF LoaderInv, LoaderTypes
<1>11. MainsInOrder'
  <2>1. ~(k > mains)
    BY <1>3, LoaderAssumption DEF LoaderInv, MainsInOrder, LoaderTypes, Main
  <2>2. \A j \in Main : j > mains => registered'[j] = {} /\ resident'[j] = {}
    BY <1>5, <2>1 DEF LoaderInv, MainsInOrder
  <2> QED
    BY <1>1, <1>9, <2>2 DEF LoaderInv, MainsInOrder
<1>12. Counted'
  <2>1. \A j \in Main : IsFiniteSet(registered'[j])
    BY <1>5, <1>6 DEF LoaderInv, Counted
  <2>2. \A m \in Tries : attempts'[m].state # "loading"
    BY <1>7, <1>8, <1>9
  <2> QED
    BY <1>9, <2>1, <2>2 DEF Counted
<1>13. WhollyRegistered'
  <2>1. ASSUME NEW j \in Main, NEW t \in Side, ModulesOf(t) \cap registered'[j] # {}
        PROVE  t \in resident'[j]
    <3>1. CASE ModulesOf(t) \cap registered[j] # {}
      BY <1>5, <3>1 DEF LoaderInv, WhollyRegistered
    <3>2. CASE ModulesOf(t) \cap registered[j] = {}
      <4>1. j = k /\ ModulesOf(t) \cap ModulesOf(s) # {}
        BY <1>5, <2>1, <3>2
      <4> QED
        BY <1>3, <1>5, <4>1, ModulesApart
    <3> QED
      BY <3>1, <3>2
  <2>2. ASSUME NEW m \in Tries, attempts'[m].state = "resolved"
        PROVE  ModulesOf(attempts'[m].side) \subseteq registered'[attempts'[m].main]
    <3>1. CASE m = n
      BY <1>5, <1>6, <1>9, <2>2, <3>1
    <3>2. CASE m # n
      <4>1. attempts[m].main \in Main
        BY MainIs DEF Attempt
      <4>2. ModulesOf(attempts[m].side) \subseteq registered[attempts[m].main]
        BY <1>9, <2>2, <3>2 DEF LoaderInv, WhollyRegistered
      <4> QED
        BY <1>5, <1>9, <4>1, <4>2
    <3> QED
      BY <3>1, <3>2
  <2>3. ASSUME NEW t \in Side, main # 0, ModulesOf(t) \subseteq registered'[main]
        PROVE  Loaded(t)'
    <3>0. main \in Main
      BY <2>3, MainIs
    <3>1. CASE ModulesOf(t) \subseteq registered[main]
      BY <1>9, <2>3, <3>1 DEF LoaderInv, WhollyRegistered
    <3>2. CASE ~(ModulesOf(t) \subseteq registered[main])
      <4>1. main = k /\ ModulesOf(t) \cap done # {}
        BY <1>5, <2>3, <3>0, <3>2
      <4>2. t = s
        BY <1>3, <4>1, ModulesApart
      <4>3. ModulesOf(s) \cap registered[k] = {}
        BY <1>2, <1>3, <4>1 DEF LoaderInv, WhollyRegistered
      <4>4. st = "resolved"
        BY <1>5, <1>6, <2>3, <4>1, <4>2, <4>3
      <4>5. s \in DOMAIN sides /\ sides[s] = n
        BY <1>1, <4>1 DEF LoaderInv, SidesReserved
      <4>6. sides' = sides
        BY <1>7, <4>4 DEF Settle
      <4> QED
        BY <1>9, <4>2, <4>4, <4>5, <4>6 DEF Loaded
    <3> QED
      BY <3>1, <3>2
  <2>4. ASSUME NEW j \in Main, NEW t \in resident'[j]
        PROVE  \E m \in Tries : attempts'[m].side = t
    <3>1. CASE t \in resident[j]
      BY <1>9, <3>1 DEF LoaderInv, WhollyRegistered
    <3>2. CASE t \notin resident[j]
      <4>1. t = s
        BY <1>5, <3>2
      <4> QED
        BY <1>9, <4>1
    <3> QED
      BY <3>1, <3>2
  <2> QED
    BY <1>1, <1>9, <2>1, <2>2, <2>3, <2>4 DEF WhollyRegistered
<1> QED
  BY <1>9, <1>10, <1>11, <1>12, <1>13 DEF LoaderInv

LEMMA LibraryFailsKeeps ==
  ASSUME LoaderInv, NEW n \in Tries, LibraryFails(n)
  PROVE  LoaderInv'
BY RejectKeeps DEF LibraryFails

LEMMA UnchangedKeeps ==
  ASSUME LoaderInv, UNCHANGED loaderVars
  PROVE  LoaderInv'
<1>1. UNCHANGED <<main, epoch, instantiating, mains, sides, attempts, resident, registered>>
  BY DEF loaderVars
<1>2. LoaderTypes' /\ MainsInOrder'
  BY <1>1 DEF LoaderInv, LoaderTypes, MainsInOrder, Tries
<1>3. SidesReserved' /\ InTurn' /\ Counted'
  BY <1>1 DEF LoaderInv, SidesReserved, InTurn, Counted, Tries, Ended
<1>4. WhollyRegistered'
  BY <1>1 DEF LoaderInv, WhollyRegistered, Loaded, Tries
<1> QED
  BY <1>2, <1>3, <1>4 DEF LoaderInv

\* What a step of the loader may be, alone or under a client.
LoaderStep ==
  \/ Instantiate \/ Instantiated \/ Dispose
  \/ \E s \in Side : Reserve(s)
  \/ \E n \in DOMAIN attempts : StartLoad(n) \/ LibraryFails(n) \/ LibraryLoads(n)
  \/ UNCHANGED loaderVars

LEMMA LoaderInvStep == LoaderInv /\ LoaderStep => LoaderInv'
BY InstantiateKeeps, InstantiatedKeeps, DisposeKeeps, ReserveKeeps, StartLoadKeeps,
   LibraryFailsKeeps, LibraryLoadsKeeps, UnchangedKeeps DEF LoaderStep, Tries

-----------------------------------------------------------------------------
(* What the loader promises.                                               *)

LEMMA LoadedFromInv == LoaderInv => LoadedIsRegistered
<1> SUFFICES ASSUME LoaderInv, main # 0
             PROVE  registered[main] \ ModulesOfAll(Halfway(main))
                      = ModulesOfAll({s \in DOMAIN sides : attempts[sides[s]].state = "resolved"})
  BY DEF LoadedIsRegistered
<1> DEFINE whole == {s \in DOMAIN sides : attempts[sides[s]].state = "resolved"}
<1>1. main \in Main /\ registered[main] \subseteq ModulesOfAll(Side) /\ DOMAIN sides \subseteq Side
  BY MainIs DEF LoaderInv, LoaderTypes
<1>2. \A s \in Side : s \in whole <=> ModulesOf(s) \subseteq registered[main]
  <2>1. ASSUME NEW s \in Side, s \in whole
        PROVE  ModulesOf(s) \subseteq registered[main]
    <3>1. sides[s] \in Tries /\ attempts[sides[s]].side = s /\ attempts[sides[s]].main = main
      BY <2>1 DEF LoaderInv, SidesReserved, LoaderTypes
    <3> QED
      BY <2>1, <3>1 DEF LoaderInv, WhollyRegistered
  <2>2. ASSUME NEW s \in Side, ModulesOf(s) \subseteq registered[main]
        PROVE  s \in whole
    BY <2>2 DEF LoaderInv, WhollyRegistered, Loaded
  <2> QED
    BY <2>1, <2>2
<1>3. whole \subseteq Side
  BY <1>1
<1> HIDE DEF whole
<1>4. ASSUME NEW x \in registered[main], x \notin ModulesOfAll(Halfway(main))
      PROVE  x \in ModulesOfAll(whole)
  <2>1. PICK s \in Side : x \in ModulesOf(s)
    BY <1>1 DEF ModulesOfAll
  <2>2. s \notin Halfway(main)
    BY <1>4, <2>1 DEF ModulesOfAll
  <2>3. s \in whole
    BY <1>2, <2>1, <2>2 DEF Halfway
  <2> QED
    BY <2>1, <2>3 DEF ModulesOfAll
<1>5. ASSUME NEW x \in ModulesOfAll(whole)
      PROVE  x \in registered[main] /\ x \notin ModulesOfAll(Halfway(main))
  <2>1. PICK s \in whole : x \in ModulesOf(s)
    BY DEF ModulesOfAll
  <2>2. s \in Side /\ ModulesOf(s) \subseteq registered[main]
    BY <1>2, <1>3
  <2>3. ASSUME NEW t \in Halfway(main), x \in ModulesOf(t)
        PROVE  FALSE
    <3>1. t \in Side /\ t = s
      BY <2>1, <2>2, <2>3, ModulesApart DEF Halfway
    <3> QED
      BY <2>2, <3>1 DEF Halfway
  <2> QED
    BY <2>1, <2>2, <2>3 DEF ModulesOfAll
<1> QED
  BY <1>4, <1>5 DEF whole

\* Only a library that loaded resolves an attempt, and only if it is not stale.
LEMMA NoStaleLoadStep ==
  ASSUME LoaderInv, LoaderStep, NEW n \in DOMAIN attempts,
         attempts[n].state # "resolved", attempts'[n].state = "resolved"
  PROVE  ~Stale(n)
<1>0. n \in Tries
  BY DEF Tries
<1>1. CASE attempts' = attempts
  BY <1>1
<1>2. ASSUME NEW s \in Side, Reserve(s), attempts' # attempts
      PROVE  ~Stale(n)
  <2> DEFINE a == [side |-> s, main |-> main, epoch |-> epoch, state |-> "queued", before |-> 0]
  <2>1. a \in Attempt /\ attempts' = Append(attempts, a)
    BY <1>2, MainIs DEF Reserve, Attempt, LoaderInv, LoaderTypes
  <2> HIDE DEF a
  <2>2. attempts'[n] = attempts[n]
    BY <1>0, <2>1, Added
  <2> QED
    BY <2>2
<1>3. ASSUME NEW m \in Tries, StartLoad(m)
      PROVE  ~Stale(n)
  <2>1. CASE Settle(m, "rejected")
    <3>1. attempts' = [attempts EXCEPT ![m].state = "rejected"]
      BY <2>1 DEF Settle
    <3>2. attempts'[n].state = IF n = m THEN "rejected" ELSE attempts[n].state
      BY <1>0, <3>1, GotState
    <3> QED
      BY <3>2
  <2>2. CASE ~Settle(m, "rejected")
    <3>1. attempts' = [attempts EXCEPT ![m].state = "loading", ![m].before = Cardinality(registered[main])]
      BY <1>3, <2>2 DEF StartLoad
    <3>2. attempts'[n].state = IF n = m THEN "loading" ELSE attempts[n].state
      BY <1>0, <3>1, MainIs DEF LoaderInv, LoaderTypes, Attempt
    <3> QED
      BY <3>2
  <2> QED
    BY <2>1, <2>2
<1>4. ASSUME NEW m \in Tries, LibraryFails(m)
      PROVE  ~Stale(n)
  <2>1. attempts' = [attempts EXCEPT ![m].state = "rejected"]
    BY <1>4 DEF LibraryFails, Settle
  <2>2. attempts'[n].state = IF n = m THEN "rejected" ELSE attempts[n].state
    BY <1>0, <2>1, GotState
  <2> QED
    BY <2>2
<1>5. ASSUME NEW m \in Tries, LibraryLoads(m)
      PROVE  ~Stale(n)
  <2> DEFINE fine == Checked(m, Cardinality(registered'[attempts[m].main]))
             st == IF fine THEN "resolved" ELSE "rejected"
  <2>1. attempts' = [attempts EXCEPT ![m].state = st]
    BY <1>5 DEF LibraryLoads, Settle
  <2>2. st \in {"loading", "resolved", "rejected"} /\ (st = "resolved" => fine)
    OBVIOUS
  <2>3. fine => ~Stale(m)
    BY DEF Checked
  <2> HIDE DEF fine, st
  <2>4. attempts'[n].state = IF n = m THEN st ELSE attempts[n].state
    BY <1>0, <2>1, <2>2, GotState
  <2> QED
    BY <2>2, <2>3, <2>4
<1> QED
  BY <1>1, <1>2, <1>3, <1>4, <1>5
     DEF LoaderStep, Tries, Instantiate, Instantiated, Dispose, loaderVars

LEMMA LoaderNext == [Next]_loaderVars => LoaderStep
BY DEF Next, LoaderStep

LEMMA LoaderInvHolds == Spec => []LoaderInv
<1>1. LoaderInv /\ [Next]_loaderVars => LoaderInv'
  BY LoaderInvStep, LoaderNext
<1> QED
  BY LoaderInvInit, <1>1, PTL DEF Spec

\* What the loader holds as loaded is what Main has registered (#loadSide compares the
\* count of registrations before and after a load), for any Sides, some of which fail
\* half-way, and through dispose() and new instances of Main.
THEOREM LoadsAreExact == Spec => []LoadedIsRegistered
BY LoaderInvHolds, LoadedFromInv, PTL

\* No load resolves for a Main that is gone, although dispose() and instantiate() may
\* come between any two steps of it.
THEOREM LoadsAreFresh == Spec => NoStaleLoad
<1>1. LoaderInv /\ [Next]_loaderVars =>
        [ \A n \in DOMAIN attempts :
            attempts[n].state # "resolved" /\ attempts'[n].state = "resolved" => ~Stale(n) ]_loaderVars
  BY NoStaleLoadStep, LoaderNext
<1> QED
  BY LoaderInvHolds, <1>1, PTL DEF Spec, NoStaleLoad

-----------------------------------------------------------------------------
(* The queue of suspended requests.                                        *)

Precedes(q, x, y) == \E i, j \in DOMAIN q : i <= j /\ q[i] = x /\ q[j] = y

\* The element at n is taken out: what came after it moves up.
LEMMA Removed ==
  ASSUME NEW S, NEW q \in Seq(S), NEW n \in 1 .. Len(q)
  PROVE  LET r == RemoveAt(q, n) IN
         /\ r \in Seq(S) /\ DOMAIN r = 1 .. Len(q) - 1
         /\ \A i \in 1 .. Len(q) - 1 : r[i] = q[IF i < n THEN i ELSE i + 1]
<1> DEFINE a == SubSeq(q, 1, n - 1)
           b == SubSeq(q, n + 1, Len(q))
           r == RemoveAt(q, n)
           l == Len(q)
<1>1. l \in Nat /\ n \in Int /\ 1 <= n /\ n <= l /\ \A i \in 1 .. l : q[i] \in S
  OBVIOUS
<1>2. a \in Seq(S) /\ Len(a) = n - 1 /\ \A i \in 1 .. n - 1 : a[i] = q[i]
  <2>1. \A i \in 1 .. n - 1 : q[i] \in S
    BY <1>1
  <2>2. /\ a \in Seq(S) /\ Len(a) = IF 1 <= n - 1 THEN n - 1 - 1 + 1 ELSE 0
        /\ \A i \in 1 .. n - 1 - 1 + 1 : a[i] = q[1 + i - 1]
    BY <1>1, <2>1, SubSeqProperties
  <2> HIDE DEF a
  <2>3. ASSUME NEW i \in 1 .. n - 1
        PROVE  a[i] = q[i]
    <3>1. i \in 1 .. n - 1 - 1 + 1 /\ 1 + i - 1 = i
      BY <1>1
    <3> QED
      BY <2>2, <3>1
  <2> QED
    BY <1>1, <2>2, <2>3
<1>3. b \in Seq(S) /\ Len(b) = l - n /\ \A i \in 1 .. l - n : b[i] = q[n + i]
  <2>1. \A i \in n + 1 .. l : q[i] \in S
    BY <1>1
  <2>2. /\ b \in Seq(S) /\ Len(b) = IF n + 1 <= l THEN l - (n + 1) + 1 ELSE 0
        /\ \A i \in 1 .. l - (n + 1) + 1 : b[i] = q[n + 1 + i - 1]
    BY <1>1, <2>1, SubSeqProperties
  <2> HIDE DEF b, l
  <2>3. ASSUME NEW i \in 1 .. l - n
        PROVE  b[i] = q[n + i]
    <3>1. i \in 1 .. l - (n + 1) + 1 /\ n + 1 + i - 1 = n + i
      BY <1>1
    <3> QED
      BY <2>2, <3>1
  <2>4. Len(b) = l - n
    BY <1>1, <2>2
  <2> QED
    BY <2>2, <2>3, <2>4
<1>4. r = a \o b
  BY DEF RemoveAt
<1> HIDE DEF a, b, r, l
<1>5. /\ r \in Seq(S) /\ Len(r) = Len(a) + Len(b)
      /\ \A i \in 1 .. Len(a) + Len(b) : r[i] = IF i <= Len(a) THEN a[i] ELSE b[i - Len(a)]
  BY <1>2, <1>3, <1>4, ConcatProperties
<1>6. Len(r) = l - 1
  BY <1>1, <1>2, <1>3, <1>5
<1>7. ASSUME NEW i \in 1 .. l - 1
      PROVE  r[i] = q[IF i < n THEN i ELSE i + 1]
  <2>1. r[i] = IF i <= n - 1 THEN a[i] ELSE b[i - (n - 1)]
    BY <1>1, <1>2, <1>3, <1>5, <1>6
  <2>2. CASE i < n
    <3>1. i \in 1 .. n - 1 /\ i <= n - 1
      BY <1>1, <2>2
    <3> QED
      BY <1>2, <2>1, <2>2, <3>1
  <2>3. CASE ~(i < n)
    <3>1. ~(i <= n - 1) /\ i - (n - 1) \in 1 .. l - n /\ n + (i - (n - 1)) = i + 1
      BY <1>1, <2>3
    <3>2. r[i] = b[i - (n - 1)]
      BY <2>1, <3>1
    <3> QED
      BY <1>3, <2>3, <3>1, <3>2
  <2> QED
    BY <2>2, <2>3
<1>8. DOMAIN r = 1 .. l - 1
  BY <1>5, <1>6
<1> QED
  BY <1>5, <1>7, <1>8 DEF r, l

\* Taking an element out leaves the order of the others.
LEMMA OrderKept ==
  ASSUME NEW S, NEW q \in Seq(S), IsInjective(q), NEW n \in DOMAIN q
  PROVE  LET r == RemoveAt(q, n) IN
         /\ r \in Seq(S) /\ IsInjective(r) /\ Range(r) = Range(q) \ {q[n]}
         /\ \A x, y \in Range(r) : Precedes(q, x, y) => Precedes(r, x, y)
<1> DEFINE r == RemoveAt(q, n)
           l == Len(q)
           old(i) == IF i < n THEN i ELSE i + 1
           new(k) == IF k < n THEN k ELSE k - 1
<1>1. l \in Nat /\ n \in 1 .. l /\ DOMAIN q = 1 .. l
  OBVIOUS
<1>2. /\ r \in Seq(S) /\ DOMAIN r = 1 .. l - 1
      /\ \A i \in 1 .. l - 1 : r[i] = q[old(i)]
  BY <1>1, Removed
<1>3. \A i, j \in 1 .. l : q[i] = q[j] => i = j
  BY DEF IsInjective
<1>4. Range(r) = {r[i] : i \in 1 .. l - 1} /\ Range(q) = {q[i] : i \in 1 .. l}
  BY <1>1, <1>2 DEF Range
<1> HIDE DEF r, l
<1>5. \A i \in 1 .. l - 1 : old(i) \in 1 .. l /\ old(i) # n /\ new(old(i)) = i
  BY <1>1
<1>6. \A k \in 1 .. l : k # n => new(k) \in 1 .. l - 1 /\ old(new(k)) = k
  BY <1>1
<1>7. \A i, k \in 1 .. l : i # n /\ k # n /\ i <= k => new(i) <= new(k)
  BY <1>1
<1> HIDE DEF old, new
<1>8. IsInjective(r)
  <2> SUFFICES ASSUME NEW i \in 1 .. l - 1, NEW j \in 1 .. l - 1, r[i] = r[j]
               PROVE  i = j
    BY <1>2 DEF IsInjective
  <2>1. old(i) = old(j)
    BY <1>2, <1>3, <1>5
  <2> QED
    BY <1>5, <2>1
<1>9. Range(r) = Range(q) \ {q[n]}
  <2>1. ASSUME NEW i \in 1 .. l - 1
        PROVE  r[i] \in Range(q) \ {q[n]}
    BY <1>1, <1>2, <1>3, <1>4, <1>5
  <2>2. ASSUME NEW k \in 1 .. l, q[k] # q[n]
        PROVE  q[k] \in Range(r)
    <3>1. new(k) \in 1 .. l - 1 /\ r[new(k)] = q[k]
      BY <1>2, <1>6, <2>2
    <3> QED
      BY <1>4, <3>1
  <2> QED
    BY <1>4, <2>1, <2>2
<1>10. ASSUME NEW x \in Range(r), NEW y \in Range(r), Precedes(q, x, y)
       PROVE  Precedes(r, x, y)
  <2>1. PICK i, j \in 1 .. l : i <= j /\ q[i] = x /\ q[j] = y
    BY <1>1, <1>10 DEF Precedes
  <2>2. i # n /\ j # n
    BY <1>9, <2>1
  <2>3. /\ new(i) \in DOMAIN r /\ new(j) \in DOMAIN r /\ new(i) <= new(j)
        /\ r[new(i)] = x /\ r[new(j)] = y
    BY <1>2, <1>6, <1>7, <2>1, <2>2
  <2> QED
    BY <2>3 DEF Precedes
<1> QED
  BY <1>2, <1>8, <1>9, <1>10 DEF r

\* An element added at the end comes after all the others.
LEMMA OrderAdded ==
  ASSUME NEW S, NEW q \in Seq(S), IsInjective(q), NEW c \in S, c \notin Range(q)
  PROVE  LET r == Append(q, c) IN
         /\ r \in Seq(S) /\ IsInjective(r) /\ Range(r) = Range(q) \cup {c}
         /\ \A x \in Range(r) : Precedes(r, x, c)
         /\ \A x, y : Precedes(q, x, y) => Precedes(r, x, y)
<1> DEFINE r == Append(q, c)
           l == Len(q)
<1>1. l \in Nat /\ DOMAIN q = 1 .. l /\ \A i, j \in 1 .. l : q[i] = q[j] => i = j
  BY DEF IsInjective
<1>2. /\ r \in Seq(S) /\ Len(r) = l + 1 /\ r[l + 1] = c
      /\ \A i \in 1 .. l : r[i] = q[i]
  BY AppendProperties
<1> HIDE DEF r, l
<1>3. DOMAIN r = 1 .. l + 1 /\ 1 .. l + 1 = 1 .. l \cup {l + 1} /\ l + 1 \notin 1 .. l
  BY <1>1, <1>2
<1>4. \A i \in 1 .. l : q[i] # c
  BY <1>1 DEF Range
<1>5. IsInjective(r)
  BY <1>1, <1>2, <1>3, <1>4 DEF IsInjective
<1>6. Range(r) = Range(q) \cup {c}
  BY <1>1, <1>2, <1>3 DEF Range
<1>7. ASSUME NEW x \in Range(r)
      PROVE  Precedes(r, x, c)
  <2>1. PICK i \in 1 .. l + 1 : r[i] = x
    BY <1>3 DEF Range
  <2>2. i <= l + 1 /\ l + 1 \in DOMAIN r /\ i \in DOMAIN r
    BY <1>1, <1>3
  <2> QED
    BY <1>2, <2>1, <2>2 DEF Precedes
<1>8. ASSUME NEW x, NEW y, Precedes(q, x, y)
      PROVE  Precedes(r, x, y)
  <2>1. PICK i, j \in 1 .. l : i <= j /\ q[i] = x /\ q[j] = y
    BY <1>1, <1>8 DEF Precedes
  <2> QED
    BY <1>2, <1>3, <2>1 DEF Precedes
<1> QED
  BY <1>2, <1>5, <1>6, <1>7, <1>8 DEF r

-----------------------------------------------------------------------------
(* What a request sees of the loader.                                      *)

\* A load ends one attempt, for good, and takes nothing back.
LEMMA LoadDoes ==
  ASSUME LoaderInv, NEW n \in Tries, StartLoad(n) \/ LibraryFails(n) \/ LibraryLoads(n)
  PROVE  /\ Tries' = Tries /\ UNCHANGED <<main, epoch, instantiating, mains>>
         /\ \A m \in Tries :
              /\ attempts'[m].side = attempts[m].side
              /\ Ended(m) => attempts'[m].state = attempts[m].state
         /\ \A k \in Main : registered[k] \subseteq registered'[k]
         /\ \A s \in Side : Loaded(s) => Loaded(s)'
<1>1. \/ \E st \in {"resolved", "rejected"} : Settle(n, st)
      \/ /\ sides' = sides /\ Startable(n)
         /\ attempts' = [attempts EXCEPT ![n].state = "loading", ![n].before = Cardinality(registered[main])]
  BY DEF StartLoad, LibraryFails, LibraryLoads
<1>2. Startable(n) \/ attempts[n].state = "loading"
  BY DEF StartLoad, LibraryFails, LibraryLoads
<1>3. attempts[n].state \in {"queued", "loading"} /\ \A m \in Tries : m < n => Ended(m)
  BY <1>2, TurnOf
<1>4. UNCHANGED <<main, epoch, instantiating, mains>>
  BY DEF StartLoad, LibraryFails, LibraryLoads
<1>5. \A k \in Main : registered[k] \subseteq registered'[k]
  <2>1. CASE registered' = registered
    BY <2>1
  <2>2. CASE LibraryLoads(n)
    <3>1. PICK done : registered' = [registered EXCEPT ![attempts[n].main] = @ \cup done]
      BY <2>2 DEF LibraryLoads
    <3> QED
      BY <3>1 DEF LoaderInv, LoaderTypes
  <2> QED
    BY <2>1, <2>2 DEF StartLoad, LibraryFails
<1>6. ASSUME NEW st \in {"resolved", "rejected"}, Settle(n, st)
      PROVE  /\ Tries' = Tries
             /\ \A m \in Tries :
                  /\ attempts'[m].side = attempts[m].side
                  /\ Ended(m) => attempts'[m].state = attempts[m].state
             /\ \A s \in Side : Loaded(s) => Loaded(s)'
  <2>1. /\ Tries' = Tries
        /\ \A m \in Tries :
             /\ attempts'[m].side = attempts[m].side /\ attempts'[m].main = attempts[m].main
             /\ attempts'[m].epoch = attempts[m].epoch
             /\ attempts'[m].state = IF m = n THEN st ELSE attempts[m].state
             /\ attempts'[m].before = attempts[m].before
        /\ \A s \in Side : Loaded(s) => Loaded(s)'
    BY <1>3, <1>4, <1>6, SettleKeeps
  <2>2. ~Ended(n)
    BY <1>3 DEF Ended
  <2> QED
    BY <2>1, <2>2
<1>7. CASE /\ sides' = sides
           /\ attempts' = [attempts EXCEPT ![n].state = "loading", ![n].before = Cardinality(registered[main])]
  <2>1. /\ Tries' = Tries /\ attempts'[n].side = attempts[n].side
        /\ \A m \in Tries : m # n => attempts'[m] = attempts[m]
    BY <1>7, MainIs DEF LoaderInv, LoaderTypes, Attempt, Tries
  <2>2. ~Ended(n)
    BY <1>3 DEF Ended
  <2>3. \A m \in Tries :
          /\ attempts'[m].side = attempts[m].side
          /\ Ended(m) => attempts'[m].state = attempts[m].state
    BY <2>1, <2>2
  <2>4. ASSUME NEW s \in Side, Loaded(s)
        PROVE  Loaded(s)'
    <3>1. sides[s] \in Tries /\ sides[s] # n
      BY <1>3, <2>4 DEF Loaded, LoaderInv, LoaderTypes
    <3> QED
      BY <1>7, <2>1, <2>4, <3>1 DEF Loaded
  <2> QED
    BY <1>4, <1>5, <2>1, <2>3, <2>4
<1> QED
  BY <1>1, <1>4, <1>5, <1>6, <1>7

\* A Side is reserved by the attempt it was, or by a new one.
LEMMA ReserveDoes ==
  ASSUME LoaderInv, NEW s \in Side, Reserve(s)
  PROVE  /\ UNCHANGED <<main, epoch, instantiating, mains, resident, registered>>
         /\ Tries' = Tries \cup {AttemptOf(s)} /\ AttemptOf(s) \in Nat \ {0}
         /\ \A n \in Tries : attempts'[n] = attempts[n]
         /\ attempts'[AttemptOf(s)].side = s
         /\ IF s \in DOMAIN sides THEN AttemptOf(s) = sides[s] /\ AttemptOf(s) \in Tries
            ELSE AttemptOf(s) \notin Tries
         /\ \A t \in Side : Loaded(t) => Loaded(t)'
<1>1. /\ UNCHANGED <<main, epoch, instantiating, mains, resident, registered>>
      /\ main \in Main
  BY MainIs DEF Reserve
<1>2. CASE s \in DOMAIN sides
  <2>1. /\ attempts' = attempts /\ sides' = sides /\ AttemptOf(s) = sides[s]
    BY <1>2 DEF Reserve, AttemptOf
  <2>2. /\ sides[s] \in Tries /\ attempts[sides[s]].side = s
    BY <1>2 DEF LoaderInv, LoaderTypes, SidesReserved
  <2>3. sides[s] \in Nat \ {0}
    BY <2>2, MainIs
  <2>4. Tries' = Tries /\ Tries = Tries \cup {sides[s]}
    BY <2>1, <2>2 DEF Tries
  <2> QED
    BY <1>1, <1>2, <2>1, <2>2, <2>3, <2>4 DEF Loaded
<1>3. CASE s \notin DOMAIN sides
  <2> DEFINE a == [side |-> s, main |-> main, epoch |-> epoch, state |-> "queued", before |-> 0]
             l == Len(attempts) + 1
  <2>1. a \in Attempt /\ attempts' = Append(attempts, a) /\ a.side = s
    BY <1>1, <1>3 DEF Reserve, Attempt, LoaderInv, LoaderTypes
  <2>2. /\ sides' = [t \in (DOMAIN sides) \cup {s} |-> IF t = s THEN l ELSE sides[t]]
        /\ AttemptOf(s) = l
    BY <1>3 DEF Reserve, AttemptOf
  <2> HIDE DEF a
  <2>3. /\ l \in Nat \ Tries /\ Tries' = Tries \cup {l} /\ attempts'[l] = a
        /\ \A n \in Tries : attempts'[n] = attempts[n]
    BY <2>1, Added
  <2>4. l # 0
    BY MainIs
  <2> HIDE DEF l
  <2>5. ASSUME NEW t \in Side, Loaded(t)
        PROVE  Loaded(t)'
    <3>1. t # s /\ sides[t] \in Tries
      BY <1>3, <2>5 DEF Loaded, LoaderInv, LoaderTypes
    <3> QED
      BY <2>2, <2>3, <2>5, <3>1 DEF Loaded
  <2> QED
    BY <1>1, <1>3, <2>1, <2>2, <2>3, <2>4, <2>5
<1> QED
  BY <1>2, <1>3

-----------------------------------------------------------------------------
(* The invariant of the client.                                            *)

RequestRecord ==
  [state : {"unsent", "waiting", "called", "failed"}, step : Nat, attempt : Nat, wasLoaded : BOOLEAN]

ClientTypes ==
  /\ requests \in [Request -> RequestRecord]
  /\ waiting \in Seq(Request) /\ IsInjective(waiting)
  /\ \A r \in Request : r \in Range(waiting) <=> requests[r].state = "waiting"

\* The client uses the Main it was made with, until it is closed.
OneMain == mains = 1 /\ instantiating = -1 /\ (closed <=> main = 0)

RegisteredUpTo(r, step, done) ==
  \A j \in 1 .. Len(Needs[r]) : j < step => ModulesOf(Needs[r][j]) \subseteq done

\* A suspended request has come past the Sides that are registered; it waits for
\* the load of its next one, or is through with all.
Steps ==
  \A r \in Request : requests[r].state = "waiting" =>
    /\ requests[r].step \in 1 .. Len(Needs[r]) + 1
    /\ RegisteredUpTo(r, requests[r].step, registered[1])
    /\ requests[r].attempt = 0 => requests[r].step = Len(Needs[r]) + 1
    /\ requests[r].attempt # 0 =>
         /\ requests[r].step <= Len(Needs[r])
         /\ requests[r].attempt \in Tries
         /\ attempts[requests[r].attempt].side = Needs[r][requests[r].step]

Called ==
  \A r \in Request : requests[r].state = "called" => RegisteredUpTo(r, Len(Needs[r]) + 1, registered[1])

ClientInv == LoaderInv /\ ClientTypes /\ OneMain /\ Steps /\ Called

LEMMA NeedsAre ==
  ASSUME NEW r \in Request
  PROVE  /\ Needs[r] \in Seq(Side) /\ Len(Needs[r]) \in Nat
         /\ \A j \in 1 .. Len(Needs[r]) : Needs[r][j] \in Side
BY RequestAssumption

LEMMA FirstMain ==
  ASSUME LoaderInv, OneMain
  PROVE  /\ 1 \in Main /\ main \in {0, 1}
         /\ \A n \in Tries : attempts[n].main = 1
<1>1. 1 \in Main
  BY LoaderAssumption DEF Main
<1>2. main \in {0, 1}
  BY DEF LoaderInv, MainsInOrder, OneMain
<1>3. \A n \in Tries : attempts[n].main \in Nat /\ attempts[n].main >= 1 /\ attempts[n].main <= 1
  BY MainIs DEF Attempt, Main, LoaderInv, MainsInOrder, OneMain
<1> QED
  BY <1>1, <1>2, <1>3

\* A request whose attempt resolved has come past its Side.
LEMMA ComesPast ==
  ASSUME ClientInv, NEW r \in Request, requests[r].state = "waiting",
         requests[r].attempt # 0, attempts[requests[r].attempt].state = "resolved"
  PROVE  /\ requests[r].step + 1 \in 1 .. Len(Needs[r]) + 1
         /\ RegisteredUpTo(r, requests[r].step + 1, registered[1])
<1>1. /\ requests[r].step \in 1 .. Len(Needs[r]) /\ RegisteredUpTo(r, requests[r].step, registered[1])
      /\ requests[r].attempt \in Tries
      /\ attempts[requests[r].attempt].side = Needs[r][requests[r].step]
  BY NeedsAre DEF ClientInv, Steps
<1>2. ModulesOf(Needs[r][requests[r].step]) \subseteq registered[1]
  BY <1>1, FirstMain DEF ClientInv, LoaderInv, WhollyRegistered
<1>3. \A j \in 1 .. Len(Needs[r]) : j < requests[r].step + 1 => j < requests[r].step \/ j = requests[r].step
  BY <1>1, NeedsAre
<1> QED
  BY <1>1, <1>2, <1>3, NeedsAre DEF RegisteredUpTo

\* What the others have come to stays, whatever the loader does.
LEMMA OthersStay ==
  ASSUME ClientInv, NEW r \in Request,
         requests' = [requests EXCEPT ![r] = requests'[r]] \/ requests' = requests,
         NEW q \in Request, q # r \/ requests' = requests,
         \A n \in Tries : n \in Tries' /\ attempts'[n].side = attempts[n].side,
         registered[1] \subseteq registered'[1]
  PROVE  /\ requests'[q] = requests[q]
         /\ \A step : RegisteredUpTo(q, step, registered[1]) => RegisteredUpTo(q, step, registered'[1])
         /\ requests'[q].state = "waiting" =>
              /\ requests'[q].step \in 1 .. Len(Needs[q]) + 1
              /\ RegisteredUpTo(q, requests'[q].step, registered'[1])
              /\ requests'[q].attempt = 0 => requests'[q].step = Len(Needs[q]) + 1
              /\ requests'[q].attempt # 0 =>
                   /\ requests'[q].step <= Len(Needs[q])
                   /\ requests'[q].attempt \in Tries'
                   /\ attempts'[requests'[q].attempt].side = Needs[q][requests'[q].step]
         /\ requests'[q].state = "called" => RegisteredUpTo(q, Len(Needs[q]) + 1, registered'[1])
<1>1. requests'[q] = requests[q]
  BY DEF ClientInv, ClientTypes
<1>2. \A step : RegisteredUpTo(q, step, registered[1]) => RegisteredUpTo(q, step, registered'[1])
  BY DEF RegisteredUpTo
<1> QED
  BY <1>1, <1>2 DEF ClientInv, Steps, Called

-----------------------------------------------------------------------------
(* The client keeps its invariant.                                         *)

\* A request goes to the end of the queue, or leaves it.
LEMMA Moves ==
  ASSUME ClientInv, NEW r \in Request,
         NEW others \in Seq(Request), IsInjective(others), Range(others) = Range(waiting) \ {r},
         NEW to \in RequestRecord, requests' = [requests EXCEPT ![r] = to],
         \/ to.state = "waiting" /\ waiting' = Append(others, r)
         \/ to.state \in {"called", "failed"} /\ waiting' = others
  PROVE  ClientTypes'
<1>1. /\ requests \in [Request -> RequestRecord]
      /\ \A q \in Request : q \in Range(waiting) <=> requests[q].state = "waiting"
  BY DEF ClientInv, ClientTypes
<1>2. requests' \in [Request -> RequestRecord]
  BY <1>1
<1>3. \A q \in Request : requests'[q] = IF q = r THEN to ELSE requests[q]
  BY <1>1
<1>4. CASE to.state = "waiting" /\ waiting' = Append(others, r)
  <2>1. r \notin Range(others)
    OBVIOUS
  <2>2. /\ Append(others, r) \in Seq(Request) /\ IsInjective(Append(others, r))
        /\ Range(Append(others, r)) = Range(others) \cup {r}
    BY <2>1, OrderAdded
  <2> QED
    BY <1>1, <1>2, <1>3, <1>4, <2>2 DEF ClientTypes
<1>5. CASE to.state \in {"called", "failed"} /\ waiting' = others
  BY <1>1, <1>2, <1>3, <1>5 DEF ClientTypes
<1> QED
  BY <1>4, <1>5

\* The record of a request once the client has ensured what it could.
Ensured(r, step) ==
  [state |-> "waiting", step |-> step,
   attempt |-> IF step > Len(Needs[r]) THEN 0 ELSE AttemptOf(Needs[r][step]),
   wasLoaded |-> step > Len(Needs[r]) \/ Needs[r][step] \in DOMAIN sides]

LEMMA Recorded ==
  ASSUME NEW step \in Nat, NEW attempt \in Nat, NEW loaded \in BOOLEAN
  PROVE  LET to == [state |-> "waiting", step |-> step, attempt |-> attempt, wasLoaded |-> loaded]
         IN /\ to \in RequestRecord
            /\ to.state = "waiting" /\ to.step = step /\ to.attempt = attempt
            /\ to.wasLoaded <=> loaded
BY DEF RequestRecord

LEMMA EnsureDoes ==
  ASSUME ClientInv, NEW r \in Request, NEW step \in 1 .. Len(Needs[r]) + 1, NEW others,
         Ensure(r, step, others)
  PROVE  /\ UNCHANGED <<main, mains, instantiating, registered>>
         /\ \A n \in Tries : n \in Tries' /\ attempts'[n] = attempts[n]
         /\ LoaderInv' /\ \A s \in Side : Loaded(s) => Loaded(s)'
         /\ \E to \in RequestRecord :
              /\ requests' = [requests EXCEPT ![r] = to]
              /\ \/ to.state = "failed" /\ waiting' = others /\ Tries' = Tries /\ main = 0
                 \/ /\ to = Ensured(r, step) /\ waiting' = Append(others, r)
                    /\ to.state = "waiting" /\ to.step = step
                    /\ to.attempt = 0 => step = Len(Needs[r]) + 1
                    /\ to.attempt # 0 =>
                         /\ step <= Len(Needs[r]) /\ to.attempt \in Tries'
                         /\ attempts'[to.attempt].side = Needs[r][step]
                    /\ Tries' \subseteq Tries \cup {to.attempt}
                    /\ to.attempt # 0 /\ ~to.wasLoaded =>
                         to.attempt \notin Tries /\ Needs[r][step] \notin DOMAIN sides
                    /\ to.wasLoaded => Tries' = Tries
<1>1. Needs[r] \in Seq(Side) /\ Len(Needs[r]) \in Nat /\ step \in Nat
  BY NeedsAre
<1>2. requests \in [Request -> RequestRecord] /\ LoaderInv
  BY DEF ClientInv, ClientTypes
<1>3. CASE /\ UNCHANGED loaderVars
           /\ \/ Failed(r) /\ waiting' = others /\ main = 0
              \/ /\ step > Len(Needs[r]) /\ waiting' = Append(others, r)
                 /\ requests' = [requests EXCEPT ![r] =
                      [state |-> "waiting", step |-> step, attempt |-> 0, wasLoaded |-> TRUE]]
  <2>1. /\ UNCHANGED <<main, mains, instantiating, registered>>
        /\ Tries' = Tries /\ attempts' = attempts /\ sides' = sides
    BY <1>3 DEF loaderVars, Tries
  <2>2. LoaderInv'
    BY <1>2, <1>3, UnchangedKeeps
  <2>3. \A s \in Side : Loaded(s) => Loaded(s)'
    BY <2>1 DEF Loaded
  <2>4. CASE Failed(r) /\ waiting' = others /\ main = 0
    <3> DEFINE to == [requests[r] EXCEPT !.state = "failed"]
    <3>1. to \in RequestRecord /\ requests' = [requests EXCEPT ![r] = to] /\ to.state = "failed"
      BY <1>2, <2>4 DEF Failed, RequestRecord
    <3> HIDE DEF to
    <3> QED
      BY <2>1, <2>2, <2>3, <2>4, <3>1
  <2>5. CASE /\ step > Len(Needs[r]) /\ waiting' = Append(others, r)
             /\ requests' = [requests EXCEPT ![r] =
                  [state |-> "waiting", step |-> step, attempt |-> 0, wasLoaded |-> TRUE]]
    <3> DEFINE to == [state |-> "waiting", step |-> step, attempt |-> 0, wasLoaded |-> TRUE]
    <3>1. /\ to \in RequestRecord /\ requests' = [requests EXCEPT ![r] = to]
          /\ to.state = "waiting" /\ to.step = step /\ to.attempt = 0 /\ to.wasLoaded
          /\ step = Len(Needs[r]) + 1
      BY <1>1, <2>5 DEF RequestRecord
    <3>2. to = Ensured(r, step)
      BY <2>5 DEF Ensured
    <3> HIDE DEF to
    <3> QED
      BY <2>1, <2>2, <2>3, <2>5, <3>1, <3>2
  <2> QED
    BY <1>3, <2>4, <2>5
<1>4. CASE /\ step <= Len(Needs[r]) /\ Reserve(Needs[r][step])
           /\ requests' = [requests EXCEPT ![r] =
                [state |-> "waiting", step |-> step, attempt |-> AttemptOf(Needs[r][step]),
                 wasLoaded |-> Needs[r][step] \in DOMAIN sides]]
           /\ waiting' = Append(others, r)
  <2> DEFINE s == Needs[r][step]
             to == [state |-> "waiting", step |-> step, attempt |-> AttemptOf(s),
                    wasLoaded |-> s \in DOMAIN sides]
  <2>1. s \in Side /\ Reserve(s)
    BY <1>1, <1>4
  <2>2. /\ UNCHANGED <<main, epoch, instantiating, mains, resident, registered>>
        /\ Tries' = Tries \cup {AttemptOf(s)} /\ AttemptOf(s) \in Nat \ {0}
        /\ \A n \in Tries : attempts'[n] = attempts[n]
        /\ attempts'[AttemptOf(s)].side = s
        /\ IF s \in DOMAIN sides THEN AttemptOf(s) = sides[s] /\ AttemptOf(s) \in Tries
           ELSE AttemptOf(s) \notin Tries
        /\ \A t \in Side : Loaded(t) => Loaded(t)'
    BY <1>2, <2>1, ReserveDoes
  <2>3. LoaderInv'
    BY <1>2, <2>1, ReserveKeeps
  <2>4. to = Ensured(r, step)
    BY <1>1, <1>4 DEF Ensured
  <2>5. /\ to \in RequestRecord /\ requests' = [requests EXCEPT ![r] = to]
        /\ to.state = "waiting" /\ to.step = step /\ to.attempt = AttemptOf(s)
        /\ to.wasLoaded <=> s \in DOMAIN sides
    <3>1. requests' = [requests EXCEPT ![r] = to]
      BY <1>4
    <3>2. AttemptOf(s) \in Nat /\ (s \in DOMAIN sides) \in BOOLEAN
      BY <2>2
    <3> QED
      BY ONLY <1>1, <3>1, <3>2, Recorded
  <2> HIDE DEF to
  <2>6. /\ to.attempt # 0 /\ to.attempt \in Tries' /\ attempts'[to.attempt].side = Needs[r][step]
        /\ Tries' \subseteq Tries \cup {to.attempt}
        /\ ~to.wasLoaded => to.attempt \notin Tries /\ Needs[r][step] \notin DOMAIN sides
        /\ to.wasLoaded => Tries' = Tries
    BY <2>2, <2>5
  <2>7. /\ UNCHANGED <<main, mains, instantiating, registered>>
        /\ \A n \in Tries : n \in Tries' /\ attempts'[n] = attempts[n]
        /\ \A t \in Side : Loaded(t) => Loaded(t)'
    BY <2>2
  <2>8. waiting' = Append(others, r) /\ step <= Len(Needs[r])
    BY <1>4
  <2>9. /\ to = Ensured(r, step) /\ waiting' = Append(others, r)
        /\ to.state = "waiting" /\ to.step = step
        /\ to.attempt = 0 => step = Len(Needs[r]) + 1
        /\ to.attempt # 0 =>
             /\ step <= Len(Needs[r]) /\ to.attempt \in Tries'
             /\ attempts'[to.attempt].side = Needs[r][step]
        /\ Tries' \subseteq Tries \cup {to.attempt}
        /\ to.attempt # 0 /\ ~to.wasLoaded =>
             to.attempt \notin Tries /\ Needs[r][step] \notin DOMAIN sides
        /\ to.wasLoaded => Tries' = Tries
    BY ONLY <2>4, <2>5, <2>6, <2>8
  <2>10. to \in RequestRecord /\ requests' = [requests EXCEPT ![r] = to]
    BY <2>5
  <2> QED
    BY ONLY <2>3, <2>7, <2>9, <2>10, Zenon
<1>5. \/ /\ UNCHANGED loaderVars
         /\ \/ Failed(r) /\ waiting' = others /\ main = 0
            \/ /\ step > Len(Needs[r]) /\ waiting' = Append(others, r)
               /\ requests' = [requests EXCEPT ![r] =
                    [state |-> "waiting", step |-> step, attempt |-> 0, wasLoaded |-> TRUE]]
      \/ /\ step <= Len(Needs[r]) /\ Reserve(Needs[r][step])
         /\ requests' = [requests EXCEPT ![r] =
              [state |-> "waiting", step |-> step, attempt |-> AttemptOf(Needs[r][step]),
               wasLoaded |-> Needs[r][step] \in DOMAIN sides]]
         /\ waiting' = Append(others, r)
  BY DEF Ensure
<1> QED
  BY <1>3, <1>4, <1>5

\* A step that changes one request at most.
LEMMA OneMoves ==
  ASSUME ClientInv, LoaderInv', ClientTypes', OneMain', NEW r \in Request,
         requests' = [requests EXCEPT ![r] = requests'[r]],
         \A n \in Tries : n \in Tries' /\ attempts'[n].side = attempts[n].side,
         registered[1] \subseteq registered'[1],
         requests'[r].state = "waiting" =>
           /\ requests'[r].step \in 1 .. Len(Needs[r]) + 1
           /\ RegisteredUpTo(r, requests'[r].step, registered'[1])
           /\ requests'[r].attempt = 0 => requests'[r].step = Len(Needs[r]) + 1
           /\ requests'[r].attempt # 0 =>
                /\ requests'[r].step <= Len(Needs[r])
                /\ requests'[r].attempt \in Tries'
                /\ attempts'[requests'[r].attempt].side = Needs[r][requests'[r].step],
         requests'[r].state = "called" => RegisteredUpTo(r, Len(Needs[r]) + 1, registered'[1])
  PROVE  ClientInv'
<1>1. ASSUME NEW q \in Request, q # r
      PROVE  /\ requests'[q].state = "waiting" =>
                  /\ requests'[q].step \in 1 .. Len(Needs[q]) + 1
                  /\ RegisteredUpTo(q, requests'[q].step, registered'[1])
                  /\ requests'[q].attempt = 0 => requests'[q].step = Len(Needs[q]) + 1
                  /\ requests'[q].attempt # 0 =>
                       /\ requests'[q].step <= Len(Needs[q])
                       /\ requests'[q].attempt \in Tries'
                       /\ attempts'[requests'[q].attempt].side = Needs[q][requests'[q].step]
             /\ requests'[q].state = "called" => RegisteredUpTo(q, Len(Needs[q]) + 1, registered'[1])
  BY <1>1, OthersStay
<1>2. Steps'
  BY <1>1 DEF Steps, RegisteredUpTo
<1>3. Called'
  BY <1>1 DEF Called, RegisteredUpTo
<1> QED
  BY <1>2, <1>3 DEF ClientInv

LEMMA EnsureKeeps ==
  ASSUME ClientInv, NEW r \in Request, NEW step \in 1 .. Len(Needs[r]) + 1,
         RegisteredUpTo(r, step, registered[1]),
         NEW others \in Seq(Request), IsInjective(others), Range(others) = Range(waiting) \ {r},
         Ensure(r, step, others), closed' = closed
  PROVE  ClientInv'
<1>1. /\ UNCHANGED <<main, mains, instantiating, registered>>
      /\ \A n \in Tries : n \in Tries' /\ attempts'[n] = attempts[n]
      /\ LoaderInv'
  BY EnsureDoes
<1>2. PICK to \in RequestRecord :
        /\ requests' = [requests EXCEPT ![r] = to]
        /\ \/ to.state = "failed" /\ waiting' = others
           \/ /\ waiting' = Append(others, r)
              /\ to.state = "waiting" /\ to.step = step
              /\ to.attempt = 0 => step = Len(Needs[r]) + 1
              /\ to.attempt # 0 =>
                   /\ step <= Len(Needs[r]) /\ to.attempt \in Tries'
                   /\ attempts'[to.attempt].side = Needs[r][step]
  BY EnsureDoes
<1>3. ClientTypes'
  BY <1>2, Moves
<1>4. OneMain'
  BY <1>1 DEF ClientInv, OneMain
<1>5. requests'[r] = to /\ requests' = [requests EXCEPT ![r] = requests'[r]]
  BY <1>2 DEF ClientInv, ClientTypes
<1> QED
  BY <1>1, <1>2, <1>3, <1>4, <1>5, OneMoves

\* A request fails, or is sent to the kernel.
LEMMA LeaveKeeps ==
  ASSUME ClientInv, NEW r \in Request, UNCHANGED loaderVars, closed' = closed,
         NEW others \in Seq(Request), IsInjective(others), Range(others) = Range(waiting) \ {r},
         waiting' = others,
         NEW state \in {"called", "failed"}, requests' = [requests EXCEPT ![r].state = state],
         state = "called" => RegisteredUpTo(r, Len(Needs[r]) + 1, registered[1])
  PROVE  ClientInv'
<1> DEFINE to == [requests[r] EXCEPT !.state = state]
<1>1. requests[r] \in RequestRecord /\ requests \in [Request -> RequestRecord]
  BY DEF ClientInv, ClientTypes
<1>2. to \in RequestRecord /\ to.state = state /\ requests' = [requests EXCEPT ![r] = to]
  BY <1>1 DEF RequestRecord
<1> HIDE DEF to
<1>3. ClientTypes'
  BY <1>2, Moves
<1>4. LoaderInv'
  BY UnchangedKeeps DEF ClientInv
<1>5. /\ OneMain' /\ registered' = registered
      /\ \A n \in Tries : n \in Tries' /\ attempts'[n].side = attempts[n].side
  BY DEF ClientInv, OneMain, loaderVars, Tries
<1>6. requests'[r] = to /\ requests' = [requests EXCEPT ![r] = requests'[r]]
  BY <1>1, <1>2
<1> QED
  BY <1>2, <1>3, <1>4, <1>5, <1>6, OneMoves

LEMMA SendKeeps ==
  ASSUME ClientInv, NEW r \in Request, Send(r)
  PROVE  ClientInv'
<1>1. /\ requests[r].state = "unsent" /\ r \notin Range(waiting) /\ closed' = closed
      /\ waiting \in Seq(Request) /\ IsInjective(waiting) /\ Range(waiting) = Range(waiting) \ {r}
  BY DEF Send, ClientInv, ClientTypes
<1>2. CASE Failed(r) /\ waiting' = waiting /\ UNCHANGED loaderVars
  BY <1>1, <1>2, LeaveKeeps DEF Failed
<1>3. CASE Ensure(r, 1, waiting)
  <2>1. 1 \in 1 .. Len(Needs[r]) + 1 /\ RegisteredUpTo(r, 1, registered[1])
    BY NeedsAre DEF RegisteredUpTo
  <2> QED
    BY <1>1, <1>3, <2>1, EnsureKeeps
<1> QED
  BY <1>2, <1>3 DEF Send

LEMMA ResumeKeeps ==
  ASSUME ClientInv, Resume
  PROVE  ClientInv'
<1>1. PICK n \in DOMAIN waiting :
        LET r == waiting[n]
            others == RemoveAt(waiting, n)
        IN \/ /\ requests[r].attempt = 0
              /\ requests' = [requests EXCEPT ![r].state = "called"]
              /\ waiting' = others /\ UNCHANGED loaderVars
           \/ Failed(r) /\ waiting' = others /\ UNCHANGED loaderVars
           \/ /\ requests[r].attempt # 0
              /\ attempts[requests[r].attempt].state = "resolved"
              /\ Ensure(r, requests[r].step + 1, others)
  BY DEF Resume
<1> DEFINE r == waiting[n]
           others == RemoveAt(waiting, n)
<1>2. closed' = closed /\ waiting \in Seq(Request) /\ IsInjective(waiting)
  BY DEF Resume, ClientInv, ClientTypes
<1>3. r \in Request /\ r \in Range(waiting) /\ requests[r].state = "waiting"
  BY <1>2 DEF Range, ClientInv, ClientTypes
<1>4. others \in Seq(Request) /\ IsInjective(others) /\ Range(others) = Range(waiting) \ {r}
  BY <1>2, OrderKept
<1> HIDE DEF r, others
<1>5. CASE /\ requests[r].attempt = 0
           /\ requests' = [requests EXCEPT ![r].state = "called"]
           /\ waiting' = others /\ UNCHANGED loaderVars
  <2>1. RegisteredUpTo(r, Len(Needs[r]) + 1, registered[1])
    BY <1>3, <1>5 DEF ClientInv, Steps
  <2> QED
    BY <1>2, <1>3, <1>4, <1>5, <2>1, LeaveKeeps
<1>6. CASE Failed(r) /\ waiting' = others /\ UNCHANGED loaderVars
  BY <1>2, <1>3, <1>4, <1>6, LeaveKeeps DEF Failed
<1>7. CASE /\ requests[r].attempt # 0
           /\ attempts[requests[r].attempt].state = "resolved"
           /\ Ensure(r, requests[r].step + 1, others)
  <2>1. /\ requests[r].step + 1 \in 1 .. Len(Needs[r]) + 1
        /\ RegisteredUpTo(r, requests[r].step + 1, registered[1])
    BY <1>3, <1>7, ComesPast
  <2> QED
    BY <1>2, <1>3, <1>4, <1>7, <2>1, EnsureKeeps
<1> QED
  BY <1>1, <1>5, <1>6, <1>7 DEF r, others

\* The requests stay as they are.
LEMMA StillKeeps ==
  ASSUME ClientInv, LoaderInv', OneMain', UNCHANGED <<requests, waiting>>,
         \A n \in Tries : n \in Tries' /\ attempts'[n].side = attempts[n].side,
         registered[1] \subseteq registered'[1]
  PROVE  ClientInv'
<1>1. ClientTypes'
  BY DEF ClientInv, ClientTypes
<1>2. Steps' /\ Called'
  BY DEF ClientInv, Steps, Called, RegisteredUpTo
<1> QED
  BY <1>1, <1>2 DEF ClientInv

LEMMA CloseKeeps ==
  ASSUME ClientInv, Close
  PROVE  ClientInv'
<1>1. LoaderInv' /\ OneMain'
  BY DisposeKeeps DEF Close, ClientInv, OneMain, Dispose
<1>2. UNCHANGED <<requests, waiting, attempts, registered>>
  BY DEF Close, Dispose
<1> QED
  BY <1>1, <1>2, StillKeeps DEF Tries

LEMMA LoadKeeps ==
  ASSUME ClientInv, NEW n \in Tries, Load(n), UNCHANGED clientVars
  PROVE  ClientInv'
<1>1. StartLoad(n) \/ LibraryFails(n) \/ LibraryLoads(n)
  BY DEF Load
<1>2. LoaderInv'
  BY <1>1, StartLoadKeeps, LibraryFailsKeeps, LibraryLoadsKeeps DEF ClientInv
<1>3. /\ Tries' = Tries /\ UNCHANGED <<main, epoch, instantiating, mains>>
      /\ \A m \in Tries : attempts'[m].side = attempts[m].side
      /\ registered[1] \subseteq registered'[1]
  BY <1>1, LoadDoes, FirstMain DEF ClientInv
<1>4. UNCHANGED <<requests, waiting, closed>>
  BY DEF clientVars
<1>5. OneMain'
  BY <1>3, <1>4 DEF ClientInv, OneMain
<1> QED
  BY <1>2, <1>3, <1>4, <1>5, StillKeeps

LEMMA ClientInvInit == ClientInit => ClientInv
<1> SUFFICES ASSUME ClientInit
             PROVE  ClientInv
  OBVIOUS
<1>1. LoaderInv
  BY LoaderInvInit
<1>2. /\ waiting = <<>> /\ closed = FALSE /\ main = 1 /\ mains = 1 /\ instantiating = -1
      /\ requests = [r \in Request |->
           [state |-> "unsent", step |-> 0, attempt |-> 0, wasLoaded |-> FALSE]]
  BY DEF ClientInit, NothingAsked
<1>3. [state |-> "unsent", step |-> 0, attempt |-> 0, wasLoaded |-> FALSE] \in RequestRecord
  BY DEF RequestRecord
<1>4. waiting \in Seq(Request) /\ IsInjective(waiting) /\ Range(waiting) = {}
  BY <1>2 DEF IsInjective, Range
<1>5. ClientTypes
  BY <1>2, <1>3, <1>4 DEF ClientTypes
<1>6. OneMain /\ Steps /\ Called
  BY <1>2 DEF OneMain, Steps, Called
<1> QED
  BY <1>1, <1>5, <1>6 DEF ClientInv

LEMMA ClientInvStep == ClientInv /\ [ClientNext]_vars => ClientInv'
<1> SUFFICES ASSUME ClientInv, [ClientNext]_vars
             PROVE  ClientInv'
  OBVIOUS
<1>1. CASE UNCHANGED vars
  <2>1. UNCHANGED loaderVars /\ UNCHANGED <<requests, waiting, closed, attempts, registered, main, mains, instantiating>>
    BY <1>1 DEF vars, loaderVars
  <2>2. LoaderInv' /\ OneMain'
    BY <2>1, UnchangedKeeps DEF ClientInv, OneMain
  <2> QED
    BY <2>1, <2>2, StillKeeps DEF Tries
<1> QED
  BY <1>1, SendKeeps, ResumeKeeps, CloseKeeps, LoadKeeps DEF ClientNext, Tries

LEMMA ClientInvHolds == ClientSpec => []ClientInv
BY ClientInvInit, ClientInvStep, PTL DEF ClientSpec

\* A request reaches the kernel only with all its Sides registered there: what
\* #ensureSides awaited stays true over its awaits, whatever other requests, failing
\* loads and close() do.
THEOREM CallsFindTheirSides == ClientSpec => []CalledOnLoadedSides
<1>1. ClientInv => CalledOnLoadedSides
  <2> SUFFICES ASSUME ClientInv, NEW r \in Request, requests[r].state = "called",
                      NEW s \in Range(Needs[r]), NEW m \in ModulesOf(s)
               PROVE  m \in registered[1]
    BY DEF CalledOnLoadedSides, ModulesOfAll
  <2>1. PICK j \in 1 .. Len(Needs[r]) : s = Needs[r][j]
    BY NeedsAre DEF Range
  <2>2. j < Len(Needs[r]) + 1
    BY NeedsAre
  <2> QED
    BY <2>1, <2>2 DEF ClientInv, Called, RegisteredUpTo
<1> QED
  BY ClientInvHolds, <1>1, PTL

LEMMA ClientStep == ClientInv /\ [ClientNext]_vars => LoaderStep
<1> SUFFICES ASSUME ClientInv, [ClientNext]_vars
             PROVE  LoaderStep
  OBVIOUS
<1>1. CASE UNCHANGED vars
  BY <1>1 DEF vars, loaderVars, LoaderStep
<1>2. ASSUME NEW r \in Request, NEW step, NEW others, step \in Nat \ {0}, Ensure(r, step, others)
      PROVE  LoaderStep
  BY <1>2, NeedsAre DEF Ensure, LoaderStep
<1>3. ASSUME NEW r \in Request, Send(r)
      PROVE  LoaderStep
  BY <1>2, <1>3 DEF Send, LoaderStep
<1>4. ASSUME NEW n \in DOMAIN attempts, Load(n)
      PROVE  LoaderStep
  BY <1>4 DEF Load, LoaderStep
<1>5. CASE Close
  BY <1>5 DEF Close, LoaderStep
<1>6. ASSUME Resume
      PROVE  LoaderStep
  <2>1. PICK n \in DOMAIN waiting :
          \/ UNCHANGED loaderVars
          \/ /\ requests[waiting[n]].attempt # 0
             /\ attempts[requests[waiting[n]].attempt].state = "resolved"
             /\ Ensure(waiting[n], requests[waiting[n]].step + 1, RemoveAt(waiting, n))
    BY <1>6 DEF Resume
  <2>2. CASE UNCHANGED loaderVars
    BY <2>2 DEF LoaderStep
  <2>3. CASE Ensure(waiting[n], requests[waiting[n]].step + 1, RemoveAt(waiting, n))
    <3>1. waiting[n] \in Request /\ requests[waiting[n]].step + 1 \in Nat \ {0}
      BY DEF ClientInv, ClientTypes, RequestRecord
    <3> QED
      BY <1>2, <2>3, <3>1
  <2> QED
    BY <2>1, <2>2, <2>3
<1> QED
  BY <1>1, <1>3, <1>4, <1>5, <1>6 DEF ClientNext

\* Under a client too the loader holds as loaded what Main has registered, and resolves
\* no load for a Main that is gone.
THEOREM ClientsLoadsAreExact == ClientSpec => []LoadedIsRegistered /\ NoStaleLoad
<1>1. ClientInv => LoadedIsRegistered
  BY LoadedFromInv DEF ClientInv
<1>2. ClientInv /\ [ClientNext]_vars =>
        [ \A n \in DOMAIN attempts :
            attempts[n].state # "resolved" /\ attempts'[n].state = "resolved" => ~Stale(n) ]_loaderVars
  BY NoStaleLoadStep, ClientStep DEF ClientInv
<1> QED
  BY ClientInvHolds, <1>1, <1>2, PTL DEF ClientSpec, NoStaleLoad

-----------------------------------------------------------------------------
(* Requests that need their Sides in one order.                            *)

\* r reserved its Side, whose load has not failed: it will compare the capabilities.
First(r) ==
  /\ requests[r].state = "waiting" /\ requests[r].attempt # 0 /\ ~requests[r].wasLoaded
  /\ attempts[requests[r].attempt].state # "rejected"

LoadedBefore(order, h) == \A j \in 1 .. Len(order) : j < h => Loaded(order[j])

\* A Side was asked for only once those before it were loaded.
LoadsInOrder(order) ==
  \A n \in Tries : \E h \in 1 .. Len(order) : attempts[n].side = order[h] /\ LoadedBefore(order, h)

\* No Side was asked for beyond the one of a request that is to compare, which
\* resumes before any other that waits for the same load.
Foremost(order, r) ==
  /\ \A n \in Tries : \E h \in 1 .. Len(order) : h <= requests[r].step /\ attempts[n].side = order[h]
  /\ \A q \in Range(waiting) :
       requests[q].attempt = requests[r].attempt => Precedes(waiting, r, q)

OrderInv(order) ==
  ~closed =>
    /\ ~capabilityError
    /\ LoadsInOrder(order)
    /\ \A r \in Request : First(r) => Foremost(order, r)

\* While the client is open, a load that was not rejected is the one its Side is
\* reserved by.
LEMMA TheReserved ==
  ASSUME ClientInv, ~closed, NEW n \in Tries, attempts[n].state # "rejected"
  PROVE  attempts[n].side \in DOMAIN sides /\ sides[attempts[n].side] = n
<1>1. main = 1 /\ attempts[n].main = 1
  BY FirstMain DEF ClientInv, OneMain
<1> QED
  BY <1>1 DEF ClientInv, LoaderInv, SidesReserved

\* Where the load stands that a request waits for.
LEMMA Awaited ==
  ASSUME ClientInv, NEW order, OneOrder(order), NEW r \in Request,
         requests[r].state = "waiting", requests[r].attempt # 0
  PROVE  /\ requests[r].step \in 1 .. Len(order) /\ requests[r].attempt \in Tries
         /\ requests[r].step <= Len(Needs[r])
         /\ attempts[requests[r].attempt].side = order[requests[r].step]
<1>1. /\ requests[r].step \in 1 .. Len(Needs[r]) /\ requests[r].attempt \in Tries
      /\ attempts[requests[r].attempt].side = Needs[r][requests[r].step]
  BY NeedsAre DEF ClientInv, Steps
<1>2. Len(Needs[r]) <= Len(order) /\ Len(order) \in Nat /\ Len(Needs[r]) \in Nat
  BY NeedsAre DEF OneOrder
<1> QED
  BY <1>1, <1>2 DEF OneOrder

\* A Side whose load resolved is loaded, and so are those before it.
LEMMA LoadedUpTo ==
  ASSUME ClientInv, ~closed, NEW order, OneOrder(order), LoadsInOrder(order),
         NEW r \in Request, requests[r].state = "waiting", requests[r].attempt # 0,
         attempts[requests[r].attempt].state = "resolved"
  PROVE  LoadedBefore(order, requests[r].step + 1)
<1> DEFINE a == requests[r].attempt
           k == requests[r].step
<1>1. k \in 1 .. Len(order) /\ a \in Tries /\ attempts[a].side = order[k]
  BY Awaited
<1>2. Loaded(order[k])
  BY <1>1, TheReserved DEF Loaded
<1>3. PICK h \in 1 .. Len(order) : attempts[a].side = order[h] /\ LoadedBefore(order, h)
  BY <1>1 DEF LoadsInOrder
<1>4. order \in Seq(Side) /\ \A i, j \in 1 .. Len(order) : order[i] = order[j] => i = j
  BY DEF OneOrder, IsInjective
<1>5. h = k
  BY <1>1, <1>3, <1>4
<1>6. \A j \in 1 .. Len(order) : j < k + 1 => j < k \/ j = k
  BY <1>1, <1>4
<1> QED
  BY <1>2, <1>3, <1>5, <1>6 DEF LoadedBefore

\* The comparison finds no difference.
LEMMA NothingMissing ==
  ASSUME ClientInv, ~closed, NEW order, OneOrder(order), LoadsInOrder(order),
         NEW r \in Request, requests[r].state = "waiting", Checks(r), Foremost(order, r)
  PROVE  ~Mismatch
<1> DEFINE a == requests[r].attempt
           k == requests[r].step
<1>1. a # 0 /\ attempts[a].state = "resolved"
  BY DEF Checks
<1>2. LoadedBefore(order, k + 1) /\ k \in 1 .. Len(order)
  BY <1>1, LoadedUpTo, Awaited
<1>3. ASSUME NEW n \in Tries
      PROVE  Loaded(attempts[n].side)
  <2>1. PICK h \in 1 .. Len(order) : h <= k /\ attempts[n].side = order[h]
    BY DEF Foremost
  <2>2. h < k + 1
    BY <1>2, <2>1
  <2> QED
    BY <1>2, <2>1, <2>2 DEF LoadedBefore
<1>4. 1 \in Main /\ \A n \in Tries : attempts[n].main = 1
  BY FirstMain DEF ClientInv
<1>5. ASSUME NEW s \in DOMAIN sides
      PROVE  ModulesOf(s) \subseteq registered[1]
  <2>1. sides[s] \in Tries /\ attempts[sides[s]].side = s
    BY DEF ClientInv, LoaderInv, LoaderTypes, SidesReserved
  <2>2. attempts[sides[s]].state = "resolved"
    BY <1>3, <2>1 DEF Loaded
  <2> QED
    BY <1>4, <2>1, <2>2 DEF ClientInv, LoaderInv, WhollyRegistered
<1>6. ASSUME NEW x \in registered[1]
      PROVE  \E s \in DOMAIN sides : x \in ModulesOf(s)
  <2>1. PICK s \in Side : x \in ModulesOf(s)
    BY <1>4 DEF ClientInv, LoaderInv, LoaderTypes, ModulesOfAll
  <2>2. s \in resident[1]
    BY <1>4, <2>1 DEF ClientInv, LoaderInv, WhollyRegistered
  <2>3. PICK n \in Tries : attempts[n].side = s
    BY <1>4, <2>2 DEF ClientInv, LoaderInv, WhollyRegistered
  <2>4. s \in DOMAIN sides
    BY <1>3, <2>3 DEF Loaded
  <2> QED
    BY <2>1, <2>4
<1>7. ModulesOfAll(DOMAIN sides) = registered[1]
  BY <1>5, <1>6 DEF ModulesOfAll
<1> QED
  BY <1>7 DEF Mismatch, Declared

\* A request leaves the queue; the loader does nothing.
LEMMA OrderLeave ==
  ASSUME ClientInv, NEW order, OrderInv(order), closed' = closed, capabilityError' = capabilityError,
         UNCHANGED loaderVars, NEW r \in Request,
         NEW others, Range(others) = Range(waiting) \ {r}, waiting' = others,
         \A x, y \in Range(others) : Precedes(waiting, x, y) => Precedes(others, x, y),
         NEW state \in {"called", "failed"}, requests' = [requests EXCEPT ![r].state = state]
  PROVE  OrderInv(order)'
<1> SUFFICES ASSUME ~closed
             PROVE  ~capabilityError /\ LoadsInOrder(order)'
                    /\ \A p \in Request : First(p)' => Foremost(order, p)'
  BY DEF OrderInv
<1>1. /\ ~capabilityError /\ LoadsInOrder(order) /\ \A p \in Request : First(p) => Foremost(order, p)
      /\ UNCHANGED <<attempts, sides>>
  BY DEF OrderInv, loaderVars
<1>2. LoadsInOrder(order)'
  BY <1>1 DEF LoadsInOrder, LoadedBefore, Loaded, Tries
<1>3. requests'[r].state = state /\ \A q \in Request : q # r => requests'[q] = requests[q]
  BY DEF ClientInv, ClientTypes, RequestRecord
<1>4. ASSUME NEW p \in Request, First(p)'
      PROVE  Foremost(order, p)'
  <2>1. p # r /\ requests'[p] = requests[p]
    BY <1>3, <1>4 DEF First
  <2>2. First(p) /\ Foremost(order, p)
    BY <1>1, <1>4, <2>1 DEF First
  <2>3. p \in Range(others) /\ \A q \in Range(waiting) : q \in Request
    <3>1. p \in Range(waiting)
      BY <2>2 DEF First, ClientInv, ClientTypes
    <3>2. waiting \in Seq(Request)
      BY DEF ClientInv, ClientTypes
    <3> QED
      BY <2>1, <3>1, <3>2 DEF Range
  <2>4. ASSUME NEW q \in Range(waiting'), requests'[q].attempt = requests'[p].attempt
        PROVE  Precedes(waiting', p, q)
    <3>1. q \in Range(waiting) /\ q # r /\ requests'[q] = requests[q]
      BY <1>3, <2>3
    <3> QED
      BY <2>1, <2>2, <2>3, <2>4, <3>1 DEF Foremost
  <2>5. \A n \in Tries' : \E h \in 1 .. Len(order) : h <= requests'[p].step /\ attempts'[n].side = order[h]
    BY <1>1, <2>1, <2>2 DEF Foremost, Tries
  <2> QED
    BY <2>4, <2>5 DEF Foremost
<1> QED
  BY <1>1, <1>2, <1>4

\* A request goes on to a Side before which all are loaded, and which is not beyond
\* that of a request which is to compare.
LEMMA OrderEnsure ==
  ASSUME ClientInv, NEW order, OneOrder(order), OrderInv(order), closed' = closed,
         capabilityError' = capabilityError, NEW r \in Request,
         NEW step \in 1 .. Len(Needs[r]) + 1,
         NEW others \in Seq(Request), IsInjective(others), Range(others) = Range(waiting) \ {r},
         \A x, y \in Range(others) : Precedes(waiting, x, y) => Precedes(others, x, y),
         Ensure(r, step, others),
         ~closed => LoadedBefore(order, step),
         ~closed => \A p \in Request : First(p) /\ p # r => step <= requests[p].step
  PROVE  OrderInv(order)'
<1> SUFFICES ASSUME ~closed
             PROVE  ~capabilityError /\ LoadsInOrder(order)'
                    /\ \A p \in Request : First(p)' => Foremost(order, p)'
  BY DEF OrderInv
<1>1. ~capabilityError /\ LoadsInOrder(order) /\ \A p \in Request : First(p) => Foremost(order, p)
  BY DEF OrderInv
<1>2. /\ \A n \in Tries : n \in Tries' /\ attempts'[n] = attempts[n]
      /\ \A s \in Side : Loaded(s) => Loaded(s)'
  BY EnsureDoes
<1>3. main # 0
  BY DEF ClientInv, OneMain
<1>4. PICK to \in RequestRecord :
        /\ requests' = [requests EXCEPT ![r] = to]
        /\ waiting' = Append(others, r)
        /\ to.state = "waiting" /\ to.step = step
        /\ to.attempt # 0 =>
             /\ step <= Len(Needs[r]) /\ to.attempt \in Tries'
             /\ attempts'[to.attempt].side = Needs[r][step]
        /\ Tries' \subseteq Tries \cup {to.attempt}
        /\ to.attempt # 0 /\ ~to.wasLoaded =>
             to.attempt \notin Tries /\ Needs[r][step] \notin DOMAIN sides
  BY <1>3, EnsureDoes
<1>5. requests'[r] = to /\ \A q \in Request : q # r => requests'[q] = requests[q]
  BY <1>4 DEF ClientInv, ClientTypes
<1>6. /\ Len(order) \in Nat /\ Len(Needs[r]) \in Nat /\ Len(Needs[r]) <= Len(order)
      /\ \A j \in 1 .. Len(order) : order[j] \in Side
  BY NeedsAre DEF OneOrder
<1>7. step <= Len(Needs[r]) => step \in 1 .. Len(order) /\ Needs[r][step] = order[step]
  BY <1>6 DEF OneOrder
<1>8. 0 \notin Tries'
  <2>1. LoaderInv'
    BY EnsureDoes
  <2>2. attempts' \in Seq(Attempt)
    BY <2>1 DEF LoaderInv, LoaderTypes
  <2> QED
    BY <2>2 DEF Tries
<1>9. \A n \in Tries' : n \in Tries \/ (n = to.attempt /\ to.attempt # 0)
  BY <1>4, <1>8
<1>10. \A h : LoadedBefore(order, h) => LoadedBefore(order, h)'
  BY <1>2, <1>6 DEF LoadedBefore
<1>11. to.attempt # 0 =>
         step \in 1 .. Len(order) /\ attempts'[to.attempt].side = order[step]
  BY <1>4, <1>7
<1>12. LoadsInOrder(order)'
  <2>1. ASSUME NEW n \in Tries'
        PROVE  \E h \in 1 .. Len(order) : attempts'[n].side = order[h] /\ LoadedBefore(order, h)'
    <3>1. CASE n \in Tries
      BY <1>1, <1>2, <1>10, <3>1 DEF LoadsInOrder
    <3>2. CASE n = to.attempt /\ to.attempt # 0
      BY <1>10, <1>11, <3>2
    <3> QED
      BY <1>9, <3>1, <3>2
  <2> QED
    BY <2>1 DEF LoadsInOrder
<1>13. /\ Range(waiting') = Range(others) \cup {r}
       /\ \A x \in Range(waiting') : Precedes(waiting', x, r)
       /\ \A x, y : Precedes(others, x, y) => Precedes(waiting', x, y)
  <2>1. r \notin Range(others)
    OBVIOUS
  <2> QED
    BY <1>4, <2>1, OrderAdded
<1>14. \A q \in Range(others) : q \in Request /\ q # r /\ requests[q].state = "waiting"
  <2>1. \A q \in Range(others) : q \in Request
    BY DEF Range
  <2> QED
    BY <2>1 DEF ClientInv, ClientTypes
<1>15. ASSUME NEW p \in Request, p # r, First(p)'
       PROVE  Foremost(order, p)'
  <2>1. requests'[p] = requests[p]
    BY <1>5, <1>15
  <2>2. requests[p].attempt \in Tries /\ requests[p].attempt # 0 /\ requests[p].state = "waiting"
    BY <1>15, <2>1, Awaited DEF First
  <2>3. First(p) /\ Foremost(order, p)
    BY <1>1, <1>2, <1>15, <2>1, <2>2 DEF First
  <2>4. step <= requests[p].step
    BY <1>15, <2>3
  <2>5. \A n \in Tries' : \E h \in 1 .. Len(order) : h <= requests'[p].step /\ attempts'[n].side = order[h]
    <3>1. ASSUME NEW n \in Tries'
          PROVE  \E h \in 1 .. Len(order) : h <= requests[p].step /\ attempts'[n].side = order[h]
      <4>1. CASE n \in Tries
        BY <1>2, <2>3, <4>1 DEF Foremost
      <4>2. CASE n = to.attempt /\ to.attempt # 0
        BY <1>11, <2>4, <4>2
      <4> QED
        BY <1>9, <4>1, <4>2
    <3> QED
      BY <2>1, <3>1
  <2>6. p \in Range(others)
    BY <1>15, <2>2 DEF ClientInv, ClientTypes
  <2>7. ASSUME NEW q \in Range(waiting'), requests'[q].attempt = requests'[p].attempt
        PROVE  Precedes(waiting', p, q)
    <3>1. CASE q = r
      BY <1>13, <2>6, <3>1
    <3>2. CASE q # r
      <4>1. q \in Range(others) /\ q \in Range(waiting) /\ requests'[q] = requests[q]
        BY <1>5, <1>13, <1>14, <3>2
      <4>2. Precedes(waiting, p, q)
        BY <2>1, <2>3, <2>7, <4>1 DEF Foremost
      <4> QED
        BY <1>13, <2>6, <4>1, <4>2
    <3> QED
      BY <3>1, <3>2
  <2> QED
    BY <2>5, <2>7 DEF Foremost
<1>16. ASSUME First(r)'
       PROVE  Foremost(order, r)'
  <2>1. /\ to.attempt # 0 /\ to.attempt \notin Tries
        /\ step \in 1 .. Len(order) /\ order[step] \notin DOMAIN sides
        /\ requests'[r].step = step /\ requests'[r].attempt = to.attempt
    BY <1>4, <1>5, <1>7, <1>16 DEF First
  <2>2. \A n \in Tries' : \E h \in 1 .. Len(order) : h <= step /\ attempts'[n].side = order[h]
    <3>1. ASSUME NEW n \in Tries'
          PROVE  \E h \in 1 .. Len(order) : h <= step /\ attempts'[n].side = order[h]
      <4>1. CASE n \in Tries
        <5>1. PICK h \in 1 .. Len(order) : attempts[n].side = order[h] /\ LoadedBefore(order, h)
          BY <1>1, <4>1 DEF LoadsInOrder
        <5>2. ~(step < h)
          BY <2>1, <5>1 DEF LoadedBefore, Loaded
        <5>3. h <= step
          BY <5>1, <5>2, <2>1
        <5> QED
          BY <1>2, <4>1, <5>1, <5>3
      <4>2. CASE n = to.attempt /\ to.attempt # 0
        BY <1>11, <2>1, <4>2
      <4> QED
        BY <1>9, <4>1, <4>2
    <3> QED
      BY <3>1
  <2>3. ASSUME NEW q \in Range(waiting'), requests'[q].attempt = requests'[r].attempt
        PROVE  Precedes(waiting', r, q)
    <3>1. CASE q = r
      BY <1>13, <3>1
    <3>2. CASE q # r
      <4>1. q \in Request /\ requests[q].state = "waiting" /\ requests'[q] = requests[q]
        BY <1>5, <1>13, <1>14, <3>2
      <4>2. requests[q].attempt # 0 => requests[q].attempt \in Tries
        BY <4>1, Awaited
      <4> QED
        BY <2>1, <2>3, <4>1, <4>2
    <3> QED
      BY <3>1, <3>2
  <2> QED
    BY <2>1, <2>2, <2>3 DEF Foremost
<1> QED
  BY <1>1, <1>12, <1>15, <1>16

LEMMA OrderSend ==
  ASSUME ClientInv, NEW order, OneOrder(order), OrderInv(order), NEW r \in Request, Send(r)
  PROVE  OrderInv(order)'
<1>1. /\ requests[r].state = "unsent" /\ r \notin Range(waiting)
      /\ UNCHANGED <<closed, capabilityError>>
      /\ waiting \in Seq(Request) /\ IsInjective(waiting) /\ Range(waiting) = Range(waiting) \ {r}
  BY DEF Send, ClientInv, ClientTypes
<1>2. CASE Failed(r) /\ waiting' = waiting /\ UNCHANGED loaderVars
  BY <1>1, <1>2, OrderLeave DEF Failed
<1>3. CASE Ensure(r, 1, waiting)
  <2>1. 1 \in 1 .. Len(Needs[r]) + 1
    BY NeedsAre
  <2>2. LoadedBefore(order, 1)
    BY DEF LoadedBefore, OneOrder
  <2>3. \A p \in Request : First(p) => 1 <= requests[p].step
    BY Awaited DEF First, OneOrder
  <2> QED
    BY <1>1, <1>3, <2>1, <2>2, <2>3, OrderEnsure
<1> QED
  BY <1>2, <1>3 DEF Send

\* A request that resumes is not beyond one that is to compare: that one would
\* resume first.
LEMMA NotBeyond ==
  ASSUME ClientInv, ~closed, NEW order, OneOrder(order), OrderInv(order),
         NEW n \in DOMAIN waiting, NEW r \in Request, r = waiting[n],
         \A m \in 1 .. n - 1 : ~Resumable(waiting[m]),
         requests[r].attempt # 0, attempts[requests[r].attempt].state = "resolved",
         NEW p \in Request, First(p), p # r
  PROVE  requests[r].step + 1 <= requests[p].step
<1> DEFINE a == requests[r].attempt
<1>1. waiting \in Seq(Request) /\ IsInjective(waiting)
  BY DEF ClientInv, ClientTypes
<1>2. r \in Range(waiting) /\ requests[r].state = "waiting"
  BY <1>1 DEF Range, ClientInv, ClientTypes
<1>3. requests[r].step \in 1 .. Len(order) /\ a \in Tries /\ attempts[a].side = order[requests[r].step]
  BY <1>2, Awaited
<1>4. /\ requests[p].step \in 1 .. Len(order) /\ requests[p].attempt \in Tries
      /\ attempts[requests[p].attempt].side = order[requests[p].step]
      /\ attempts[requests[p].attempt].state # "rejected"
  BY Awaited DEF First
<1>5. Foremost(order, p)
  BY DEF OrderInv
<1>6. Len(order) \in Nat /\ \A i, j \in 1 .. Len(order) : order[i] = order[j] => i = j
  BY DEF OneOrder, IsInjective
<1>7. requests[r].step <= requests[p].step
  BY <1>3, <1>5, <1>6 DEF Foremost
<1>8. ASSUME requests[r].step = requests[p].step
      PROVE  FALSE
  <2>1. requests[p].attempt = a
    BY <1>3, <1>4, <1>8, TheReserved
  <2>2. Precedes(waiting, p, r)
    BY <1>2, <1>5, <2>1 DEF Foremost
  <2>3. PICK i, j \in 1 .. Len(waiting) : i <= j /\ waiting[i] = p /\ waiting[j] = r
    BY <1>1, <2>2 DEF Precedes
  <2>4. j = n /\ i # n /\ n \in 1 .. Len(waiting)
    BY <1>1, <2>3 DEF IsInjective
  <2>5. i \in 1 .. n - 1
    BY <1>1, <2>3, <2>4
  <2>6. Resumable(p)
    BY <2>1 DEF Resumable, Ended
  <2> QED
    BY <2>3, <2>5, <2>6
<1> QED
  BY <1>3, <1>4, <1>6, <1>7, <1>8

LEMMA OrderResume ==
  ASSUME ClientInv, NEW order, OneOrder(order), OrderInv(order), Resume
  PROVE  OrderInv(order)'
<1>1. PICK n \in DOMAIN waiting :
        LET r == waiting[n]
            others == RemoveAt(waiting, n)
        IN /\ \A m \in 1 .. n - 1 : ~Resumable(waiting[m])
           /\ \/ /\ requests' = [requests EXCEPT ![r].state = "called"]
                 /\ waiting' = others
                 /\ UNCHANGED <<loaderVars, capabilityError>>
              \/ /\ Failed(r)
                 /\ waiting' = others
                 /\ UNCHANGED <<loaderVars, capabilityError>>
              \/ /\ Checks(r) /\ Mismatch
                 /\ capabilityError' = TRUE
                 /\ Failed(r)
                 /\ waiting' = others
                 /\ UNCHANGED loaderVars
              \/ /\ requests[r].attempt # 0
                 /\ attempts[requests[r].attempt].state = "resolved"
                 /\ Ensure(r, requests[r].step + 1, others)
                 /\ UNCHANGED capabilityError
  BY DEF Resume
<1> DEFINE r == waiting[n]
           others == RemoveAt(waiting, n)
<1>2. closed' = closed /\ waiting \in Seq(Request) /\ IsInjective(waiting)
  BY DEF Resume, ClientInv, ClientTypes
<1>3. r \in Request /\ r \in Range(waiting) /\ requests[r].state = "waiting"
  BY <1>2 DEF Range, ClientInv, ClientTypes
<1>4. /\ others \in Seq(Request) /\ IsInjective(others) /\ Range(others) = Range(waiting) \ {r}
      /\ \A x, y \in Range(others) : Precedes(waiting, x, y) => Precedes(others, x, y)
  BY <1>2, OrderKept
<1>5. r = waiting[n]
  OBVIOUS
<1> HIDE DEF r, others
<1>6. CASE /\ requests' = [requests EXCEPT ![r].state = "called"]
           /\ waiting' = others
           /\ UNCHANGED <<loaderVars, capabilityError>>
  BY <1>2, <1>3, <1>4, <1>6, OrderLeave
<1>7. CASE Failed(r) /\ waiting' = others /\ UNCHANGED <<loaderVars, capabilityError>>
  BY <1>2, <1>3, <1>4, <1>7, OrderLeave DEF Failed
<1>8. CASE Checks(r) /\ Mismatch
  <2>1. ASSUME ~closed
        PROVE  FALSE
    <3>1. First(r) /\ LoadsInOrder(order) /\ Foremost(order, r)
      BY <1>3, <1>8, <2>1 DEF Checks, First, OrderInv
    <3> QED
      BY <1>3, <1>8, <2>1, <3>1, NothingMissing
  <2> QED
    BY <1>2, <2>1 DEF OrderInv
<1>9. CASE /\ requests[r].attempt # 0
           /\ attempts[requests[r].attempt].state = "resolved"
           /\ Ensure(r, requests[r].step + 1, others)
           /\ UNCHANGED capabilityError
  <2>1. requests[r].step + 1 \in 1 .. Len(Needs[r]) + 1
    BY <1>3, <1>9, ComesPast
  <2>2. ~closed => LoadedBefore(order, requests[r].step + 1)
    BY <1>3, <1>9, LoadedUpTo DEF OrderInv
  <2>3. ~closed => \A p \in Request : First(p) /\ p # r => requests[r].step + 1 <= requests[p].step
    BY <1>1, <1>3, <1>5, <1>9, NotBeyond
  <2> QED
    BY <1>2, <1>3, <1>4, <1>9, <2>1, <2>2, <2>3, OrderEnsure
<1> QED
  BY <1>1, <1>6, <1>7, <1>8, <1>9 DEF r, others

LEMMA OrderLoad ==
  ASSUME ClientInv, NEW order, OneOrder(order), OrderInv(order),
         NEW n \in Tries, Load(n), UNCHANGED clientVars
  PROVE  OrderInv(order)'
<1> SUFFICES ASSUME ~closed
             PROVE  ~capabilityError' /\ LoadsInOrder(order)'
                    /\ \A p \in Request : First(p)' => Foremost(order, p)'
  BY DEF OrderInv, clientVars
<1>1. /\ ~capabilityError /\ LoadsInOrder(order) /\ \A p \in Request : First(p) => Foremost(order, p)
      /\ UNCHANGED <<requests, waiting, capabilityError>>
  BY DEF OrderInv, clientVars
<1>2. StartLoad(n) \/ LibraryFails(n) \/ LibraryLoads(n)
  BY DEF Load
<1>3. /\ Tries' = Tries
      /\ \A m \in Tries :
           /\ attempts'[m].side = attempts[m].side
           /\ Ended(m) => attempts'[m].state = attempts[m].state
      /\ \A s \in Side : Loaded(s) => Loaded(s)'
  BY <1>2, LoadDoes DEF ClientInv
<1>4. \A h : LoadedBefore(order, h) => LoadedBefore(order, h)'
  BY <1>3 DEF LoadedBefore, OneOrder
<1>5. LoadsInOrder(order)'
  BY <1>1, <1>3, <1>4 DEF LoadsInOrder
<1>6. ASSUME NEW p \in Request, First(p)'
      PROVE  Foremost(order, p)'
  <2>1. requests[p].attempt \in Tries
    BY <1>1, <1>6, Awaited DEF First
  <2>2. First(p)
    BY <1>1, <1>3, <1>6, <2>1 DEF First, Ended
  <2> QED
    BY <1>1, <1>3, <2>2 DEF Foremost
<1> QED
  BY <1>1, <1>5, <1>6

LEMMA OrderStep ==
  ASSUME NEW order, OneOrder(order), ClientInv, OrderInv(order), [ClientNext]_vars
  PROVE  OrderInv(order)'
<1>1. CASE UNCHANGED vars
  BY <1>1 DEF vars, OrderInv, LoadsInOrder, LoadedBefore, Loaded, Tries, First, Foremost
<1>2. CASE Close
  BY <1>2 DEF Close, OrderInv
<1> QED
  BY <1>1, <1>2, OrderSend, OrderResume, OrderLoad DEF ClientNext, Tries

\* Requests whose Sides are the first of one order never make an open client take a
\* load in progress for a capability mismatch, whichever of them overlap, fail
\* half-way or are retried.  (Without one order they do: run shared_client_apart.)
THEOREM NoFalseAlarm ==
  ASSUME NEW order, OneOrder(order)
  PROVE  ClientSpec => []NoFalseCapabilityError
<1>1. ClientInit => OrderInv(order)
  <2> SUFFICES ASSUME ClientInit
               PROVE  ~capabilityError /\ LoadsInOrder(order)
                      /\ \A r \in Request : First(r) => Foremost(order, r)
    BY DEF OrderInv
  <2> QED
    BY DEF ClientInit, NothingAsked, LoadsInOrder, Tries, First
<1>2. OrderInv(order) => NoFalseCapabilityError
  BY DEF OrderInv, NoFalseCapabilityError
<1>3. ClientInv /\ OrderInv(order) /\ [ClientNext]_vars => OrderInv(order)'
  BY OrderStep
<1> QED
  BY <1>1, <1>2, <1>3, ClientInvHolds, PTL DEF ClientSpec
=============================================================================
