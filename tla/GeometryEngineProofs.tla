------------------------- MODULE GeometryEngineProofs -------------------------
(***************************************************************************)
(* The coordinator of isolated profiles, for any number of calls of every  *)
(* kind, profiles, inputs and losses.  Whatever a call does from one await *)
(* to the next is a Turn, which says of the runtimes, of the call and of   *)
(* the placements no more than the invariant needs; each step of a call is *)
(* shown to be one.                                                        *)
(***************************************************************************)
EXTENDS GeometryEngine, FiniteSetTheorems, SequenceTheorems, WellFoundedInduction, TLAPS

-----------------------------------------------------------------------------
(* Numbers, sequences and counts.                                          *)

LEMMA LeastExists ==
  ASSUME NEW T \in SUBSET Nat, T # {}
  PROVE  Min(T) \in T /\ \A y \in T : Min(T) <= y
<1> DEFINE R == {ss \in Nat \X Nat : ss[1] < ss[2]}
<1>1. IsWellFoundedOn(R, Nat)
  BY NatLessThanWellFounded, Zenon DEF OpToRel
<1> HIDE DEF R
<1>2. PICK x \in T : \A y \in T : ~ (<<y, x>> \in R)
  BY <1>1, WFMin, Zenon
<1>3. \A y \in T : ~(y < x)
  BY <1>2 DEF R
<1>4. \E z \in T : \A y \in T : z <= y
  BY <1>3
<1> QED
  BY <1>4, Zenon DEF Min

LEMMA TimesIs ==
  ASSUME NEW S, NEW ns \in Seq(S), NEW n
  PROVE  /\ IsFiniteSet({k \in DOMAIN ns : ns[k] = n})
         /\ Times(n, ns) \in Nat
         /\ n \notin S => Times(n, ns) = 0
<1>1. IsFiniteSet(1 .. Len(ns)) /\ DOMAIN ns = 1 .. Len(ns)
  BY FS_Interval
<1>2. IsFiniteSet({k \in DOMAIN ns : ns[k] = n})
  BY <1>1, FS_Subset
<1>3. Times(n, ns) \in Nat
  BY <1>2, FS_CardinalityType DEF Times
<1>4. ASSUME n \notin S
      PROVE  Times(n, ns) = 0
  <2>1. {k \in DOMAIN ns : ns[k] = n} = {}
    BY <1>4
  <2> QED
    BY <2>1, FS_EmptySet DEF Times
<1> QED
  BY <1>2, <1>3, <1>4

LEMMA TimesNothing ==
  ASSUME NEW n
  PROVE  Times(n, <<>>) = 0
<1>1. {k \in DOMAIN <<>> : <<>>[k] = n} = {}
  OBVIOUS
<1> QED
  BY <1>1, FS_EmptySet DEF Times

LEMMA TimesConcat ==
  ASSUME NEW S, NEW a \in Seq(S), NEW b \in Seq(S), NEW n
  PROVE  Times(n, a \o b) = Times(n, a) + Times(n, b)
<1> DEFINE A == {k \in DOMAIN a : a[k] = n}
           B == {k \in DOMAIN b : b[k] = n}
           D == {k \in Len(a) + 1 .. Len(a) + Len(b) : b[k - Len(a)] = n}
           f == [k \in B |-> k + Len(a)]
<1>1. a \o b \in Seq(S) /\ Len(a \o b) = Len(a) + Len(b)
      /\ \A k \in 1 .. Len(a) + Len(b) : (a \o b)[k] = IF k <= Len(a) THEN a[k] ELSE b[k - Len(a)]
  OBVIOUS
<1>2. {k \in DOMAIN (a \o b) : (a \o b)[k] = n} = A \cup D
  BY <1>1
<1>3. IsFiniteSet(A) /\ IsFiniteSet(B)
  BY TimesIs
<1>4. f \in Bijection(B, D)
  <2>1. f \in [B -> D]
    OBVIOUS
  <2>2. \A x, y \in B : f[x] = f[y] => x = y
    OBVIOUS
  <2>3. ASSUME NEW t \in D
        PROVE  \E x \in B : f[x] = t
    <3>1. t - Len(a) \in B /\ f[t - Len(a)] = t
      OBVIOUS
    <3> QED
      BY <3>1
  <2> QED
    BY <2>1, <2>2, <2>3 DEF Bijection, Injection, Surjection, IsInjective
<1>5. IsFiniteSet(D) /\ Cardinality(D) = Cardinality(B)
  BY <1>3, <1>4, FS_Bijection DEF ExistsBijection
<1>6. A \cap D = {}
  OBVIOUS
<1>7. Cardinality(A \cup D) = Cardinality(A) + Cardinality(D) - Cardinality(A \cap D)
  BY <1>3, <1>5, FS_Union
<1>8. Cardinality(A) \in Nat /\ Cardinality(D) \in Nat
  BY <1>3, <1>5, FS_CardinalityType
<1>9. Cardinality(A \cap D) = 0
  BY <1>6, FS_EmptySet
<1>10. Times(n, a) = Cardinality(A) /\ Times(n, b) = Cardinality(D) /\ Times(n, a \o b) = Cardinality(A \cup D)
  BY <1>2, <1>5 DEF Times
<1> HIDE DEF A, B, D, f
<1> QED
  BY <1>7, <1>8, <1>9, <1>10

\* How often a call has a lease of n.
LEMMA LeasedTimes ==
  ASSUME NEW S, NEW call, call.held \in Seq(S), NEW n
  PROVE  /\ IsFiniteSet(LeasedBy(call, n))
         /\ Cardinality(LeasedBy(call, n)) =
              Times(n, call.held) + IF call.source = n THEN 1 ELSE 0
<1> DEFINE H == {k \in DOMAIN call.held : call.held[k] = n}
<1>1. IsFiniteSet(H) /\ Cardinality(H) \in Nat /\ 0 \notin H
  <2>1. IsFiniteSet(H)
    BY TimesIs
  <2>2. 0 \notin H
    OBVIOUS
  <2> QED
    BY <2>1, <2>2, FS_CardinalityType
<1>2. LeasedBy(call, n) = IF call.source = n THEN H \cup {0} ELSE H
  BY DEF LeasedBy
<1>3. IsFiniteSet(H \cup {0}) /\ Cardinality(H \cup {0}) = Cardinality(H) + 1
  <2>1. Cardinality(H \cup {0}) = IF 0 \in H THEN Cardinality(H) ELSE Cardinality(H) + 1
    BY <1>1, FS_AddElement
  <2> QED
    BY <1>1, <2>1, FS_AddElement
<1> QED
  BY <1>1, <1>2, <1>3 DEF Times

\* One call changes: so do its leases, and no others.
LEMMA LeasesMove ==
  ASSUME NEW c \in Call, NEW new, DOMAIN calls = Call,
         \A d \in Call : calls[d].held \in Seq(Nat),
         new.held \in Seq(Nat), calls' = [calls EXCEPT ![c] = new], NEW n
  PROVE  /\ Cardinality(Leases(n)) \in Nat
         /\ Cardinality(Leases(n)') =
              Cardinality(Leases(n)) - Cardinality(LeasedBy(calls[c], n)) + Cardinality(LeasedBy(new, n))
<1> DEFINE Apart == Call \ {c}
           f == [d \in Apart |-> {d} \X LeasedBy(calls[d], n)]
           Rest == UNION {f[d] : d \in Apart}
           Old == {c} \X LeasedBy(calls[c], n)
           New == {c} \X LeasedBy(new, n)
<1>1. \A d \in Call : IsFiniteSet(LeasedBy(calls[d], n))
  BY LeasedTimes
<1>2. IsFiniteSet(LeasedBy(new, n))
  BY LeasedTimes
<1>3. IsFiniteSet({c}) /\ Cardinality({c}) = 1
  BY FS_Singleton
<1>4. \A d \in Apart : IsFiniteSet(f[d])
  BY <1>1, FS_Product, FS_Singleton
<1>5. IsFiniteSet({f[d] : d \in Apart})
  <2>1. IsFiniteSet(Apart)
    BY EngineAssumption, FS_RemoveElement
  <2>2. f \in Surjection(Apart, {f[d] : d \in Apart})
    BY DEF Surjection
  <2> QED
    BY <2>1, <2>2, FS_Surjection
<1>6. IsFiniteSet(Rest)
  BY <1>4, <1>5, FS_UNION
<1>7. /\ IsFiniteSet(Old) /\ Cardinality(Old) = Cardinality(LeasedBy(calls[c], n))
      /\ IsFiniteSet(New) /\ Cardinality(New) = Cardinality(LeasedBy(new, n))
  <2>1. /\ IsFiniteSet(Old) /\ Cardinality(Old) = 1 * Cardinality(LeasedBy(calls[c], n))
        /\ IsFiniteSet(New) /\ Cardinality(New) = 1 * Cardinality(LeasedBy(new, n))
    BY <1>1, <1>2, <1>3, FS_Product
  <2>2. Cardinality(LeasedBy(calls[c], n)) \in Nat /\ Cardinality(LeasedBy(new, n)) \in Nat
    BY <1>1, <1>2, FS_CardinalityType
  <2> QED
    BY <2>1, <2>2
<1>8. Leases(n) = Rest \cup Old
  BY DEF Leases
<1>9. Leases(n)' = Rest \cup New
  <2>1. Leases(n)' = UNION {{d} \X LeasedBy(calls'[d], n) : d \in Call}
    BY DEF Leases
  <2>2. calls'[c] = new /\ \A d \in Apart : calls'[d] = calls[d]
    OBVIOUS
  <2> QED
    BY <2>1, <2>2
<1>10. Rest \cap Old = {} /\ Rest \cap New = {}
  <2>1. ASSUME NEW x \in Rest
        PROVE  x[1] # c
    <3>1. PICK d \in Apart : x \in {d} \X LeasedBy(calls[d], n)
      OBVIOUS
    <3> QED
      BY <3>1
  <2>2. \A x \in Old \cup New : x[1] = c
    OBVIOUS
  <2> QED
    BY <2>1, <2>2
<1>11. /\ Cardinality(Rest \cup Old) = Cardinality(Rest) + Cardinality(Old) - Cardinality({})
       /\ Cardinality(Rest \cup New) = Cardinality(Rest) + Cardinality(New) - Cardinality({})
  <2> HIDE DEF Rest, Old, New
  <2>1. /\ Cardinality(Rest \cup Old) = Cardinality(Rest) + Cardinality(Old) - Cardinality(Rest \cap Old)
        /\ Cardinality(Rest \cup New) = Cardinality(Rest) + Cardinality(New) - Cardinality(Rest \cap New)
    BY ONLY <1>6, <1>7, FS_Union
  <2> QED
    BY ONLY <1>10, <2>1
<1>12. /\ Cardinality({}) = 0 /\ Cardinality(Rest) \in Nat
       /\ Cardinality(Old) \in Nat /\ Cardinality(New) \in Nat
  BY <1>6, <1>7, FS_EmptySet, FS_CardinalityType
<1> QED
  BY <1>7, <1>8, <1>9, <1>11, <1>12

-----------------------------------------------------------------------------
(* The invariant.                                                          *)

Ops == {"capabilities", "beginScope", "make", "op", "exportBREP", "importBREP", "release", "endScope"}
Idle == {"begin", "done", "failed"}

Kernels == [epoch : Nat, scopes : SUBSET Nat, shapes : SUBSET (Nat \X Nat), begun : Nat, issued : Nat]
Questions == [call : Call \cup {Nobody}, op : Ops \cup {"releaseAll"}, handles : SUBSET Nat, scope : Nat]
RuntimeType ==
  [profile : Profile, since : Nat, state : {"starting", "up", "closed"}, kernel : Kernels,
   queue : Seq(Questions)]
ProfileType == [runtime : Nat, runtimeEpoch : Nat, starting : Nat, epoch : Nat]
PlacementType ==
  [profile : Profile, epoch : Nat, handle : Nat, scope : Nat, shape : Nat,
   leaseCount : Int, state : {"live", "transferring", "invalid"}, origin : Nat \X Nat]
CallType ==
  [kind : AllKinds \cup {"none"}, at : Ops \cup Idle \cup {"start", "cloned"},
   reply : {"none", "ok", "error"}, value : Seq(Nat), refs : Seq(Nat),
   i : Nat, target : Profile \cup {"none"}, rt : Nat, next : Ops \cup {"none"}, source : Nat,
   epoch : Nat, held : Seq(Nat), scope : Nat, own : BOOLEAN, todo : SUBSET Nat, shape : Nat,
   rest : SUBSET Nat]

RuntimesTyped == runtimes \in Seq(RuntimeType)
ProfilesTyped ==
  /\ profiles \in [Profile -> ProfileType]
  /\ \A p \in Profile :
       profiles[p].runtime \in 0 .. Len(runtimes) /\ profiles[p].starting \in 0 .. Len(runtimes)
PlacementsTyped ==
  /\ placements \in Seq(PlacementType)
  /\ \A n \in 1 .. Len(placements) : placements[n].shape \in 1 .. Len(logical)
ShapesTyped ==
  /\ logical \in Seq(SUBSET Nat)
  /\ \A k \in 1 .. Len(logical) : logical[k] \subseteq 1 .. Len(placements)
  /\ shapes \subseteq 1 .. Len(logical)
  /\ phase \in {"open", "closing", "closed"}
DataTyped == RuntimesTyped /\ ProfilesTyped /\ PlacementsTyped /\ ShapesTyped

\* What a call refers to is there.
Points(call, ps, rs, ls) ==
  /\ call.refs \in Seq(1 .. ps) /\ call.held \in Seq(1 .. ps)
  /\ call.source \in 0 .. ps /\ call.todo \subseteq 1 .. ps
  /\ call.rt \in 0 .. rs /\ call.shape \in 0 .. ls /\ call.rest \subseteq 1 .. ls
  /\ call.i # 0
Within(call, ps, rs, ls) ==
  /\ Points(call, ps, rs, ls)
  /\ call.at = "cloned" => call.value # <<>> /\ Head(call.value) \in 1 .. ps

\* The question a call asks, or will ask of a runtime that starts.
Stage(call) == IF call.at = "start" THEN call.next ELSE call.at

\* What a call has when it is at st: a target, a scope of its own or a source, shapes to
\* release or leases.
StageOK(call, st) ==
  /\ st \in Idle \cup {"release", "endScope"} \/ call.target \in Profile
  /\ st \in {"make", "op", "cloned", "capabilities", "release"} \cup Idle => call.source = 0
  /\ st \in {"exportBREP", "importBREP"} => call.source # 0
  /\ st \in {"exportBREP", "importBREP", "cloned"} => call.kind # "create"
  /\ st = "beginScope" => (call.own <=> call.source = 0) /\ (call.kind = "create" => call.own)
  /\ call.own => call.source = 0 /\ st \in {"beginScope", "make", "op", "endScope"}
  /\ call.todo # {} => st \in {"release", "endScope"} /\ call.source = 0 /\ call.held = <<>> /\ ~call.own
  /\ st = "release" => call.todo # {}
  /\ st \in Idle => call.held = <<>>

\* What it has when it waits, and when it was answered.
ReplyOK(call) ==
  /\ call.at = "start" => call.next \in Ops
  /\ call.at \in Idle => call.reply = "none"
  /\ call.at \in (Ops \ {"endScope"}) \cup {"start"} => call.rt # 0
  /\ call.at = "cloned" => call.reply = "ok"
  /\ call.reply = "ok" /\ call.at \in {"beginScope", "importBREP"} => call.value # <<>>

CallOK(call) == StageOK(call, Stage(call)) /\ ReplyOK(call)

CallsTyped ==
  /\ calls \in [Call -> CallType]
  /\ \A c \in Call : Within(calls[c], Len(placements), Len(runtimes), Len(logical))
  /\ \A c \in Call : CallOK(calls[c])

\* Whoever is in a queue waits for the answer, and asked once.
AskedBy(r, q) ==
  /\ q.call = Nobody <=> q.op = "releaseAll"
  /\ q.call \in Call => calls[q.call].at = q.op /\ calls[q.call].reply = "none" /\ calls[q.call].rt = r
AskedOnce ==
  \A r \in 1 .. Len(runtimes) :
    /\ runtimes[r].state # "up" => runtimes[r].queue = <<>>
    /\ \A i \in 1 .. Len(runtimes[r].queue) :
         /\ AskedBy(r, runtimes[r].queue[i])
         /\ runtimes[r].queue[i].call \in Call =>
              \A j \in 1 .. Len(runtimes[r].queue) :
                j # i => runtimes[r].queue[j].call # runtimes[r].queue[i].call

\* A profile uses runtimes of its own.
OwnRuntimes ==
  \A p \in Profile : profiles[p].runtime # 0 => runtimes[profiles[p].runtime].profile = p

\* A start that is still wanted is the one its profile waits for; a runtime that is up is
\* the one its profile uses, or close() is closing it.
Leaving(x) == \E i \in 1 .. Len(x.queue) : x.queue[i].call = Nobody
Wanted(r) ==
  LET x == runtimes[r]
      own == profiles[x.profile]
  IN /\ x.since <= own.epoch
     /\ x.state = "starting" /\ x.since = own.epoch /\ phase = "open"
          => own.starting = r /\ own.runtime = 0
     /\ x.state = "up" => own.runtime = r \/ Leaving(x)
AllWanted == \A r \in 1 .. Len(runtimes) : Wanted(r)

\* A runtime that a profile uses is up; nobody closes one while the engine is open.
OpenRuntimes ==
  /\ \A p \in Profile :
       profiles[p].runtime # 0 => phase = "open" /\ runtimes[profiles[p].runtime].state = "up"
  /\ phase = "open" => \A r \in 1 .. Len(runtimes) : ~Leaving(runtimes[r])

\* While the engine is open a placement in use that is not invalid is of the epoch its
\* profile has.
EpochsCurrent ==
  phase = "open" =>
    \A n \in 1 .. Len(placements) :
      Kept(n) /\ placements[n].state # "invalid"
        => placements[n].epoch = profiles[placements[n].profile].epoch

EngineInv ==
  /\ DataTyped /\ CallsTyped /\ AskedOnce /\ OwnRuntimes /\ AllWanted /\ OpenRuntimes /\ EpochsCurrent
  /\ LeasesExact

-----------------------------------------------------------------------------
(* Turns.                                                                  *)

\* A call that is not in a queue.
Free(c) == calls[c].reply # "none" \/ calls[c].at = "begin"

\* The runtimes in a turn of c that ends with new and for which P was looked at: nothing
\* happens, a question is asked, or a runtime is started.
AsksFor(c, new) ==
  \E r \in 1 .. Len(runtimes), q \in Questions :
    /\ runtimes[r].state = "up"
    /\ q.call = c /\ q.op = new.at /\ q.op # "releaseAll" /\ new.reply = "none" /\ new.rt = r
    /\ q.handles = {placements[n].handle : n \in Names(new, new.at)}
    /\ runtimes' = [runtimes EXCEPT ![r].queue = Append(@, q)]
StartsFor(P) ==
  \E p \in Profile :
    /\ Seen(P).profiles[p].runtime = 0 /\ Seen(P).profiles[p].starting = 0
    /\ runtimes' = Append(runtimes, NewRuntime(p, Seen(P).profiles[p].epoch))
    /\ profiles' = [Seen(P).profiles EXCEPT ![p].starting = Len(runtimes) + 1]
RunTurn(c, new, P) ==
  \/ profiles' = Seen(P).profiles /\ (runtimes' = runtimes \/ AsksFor(c, new))
  \/ StartsFor(P)

\* The placements in such a turn.  A new one is for a shape that c's runtime answered with, each
\* for another; and c was not told of shapes it has yet to record.
Lost(p, P) == p \in P /\ Rebuilds(p)
MadeBy(c, x, P) ==
  /\ calls[c].at \in {"make", "op", "importBREP"} /\ Ok(c) /\ phase = "open"
  /\ x.profile = calls[c].target /\ x.profile \in P
  /\ x.origin = <<calls[c].rt, runtimes[calls[c].rt].kernel.epoch>>
Unheard(new) == new.reply = "ok" => new.at \notin {"make", "op", "importBREP"}
HandleOf(c, x, i) == i \in 1 .. Len(calls[c].value) /\ x.handle = calls[c].value[i]
PlaceTurn(c, new, P) ==
  /\ PlacementsTyped' /\ ShapesTyped' /\ Len(placements) <= Len(placements') /\ Len(logical) <= Len(logical')
  /\ \A n \in 1 .. Len(placements) :
       LET x == placements[n]
           y == placements'[n]
       IN /\ y.profile = x.profile /\ y.epoch = x.epoch /\ y.origin = x.origin /\ y.handle = x.handle
          /\ Kept(n)' => Kept(n)
          /\ y.state # "invalid" /\ Kept(n) => x.state # "invalid" /\ ~Lost(x.profile, P)
          /\ y.state = "transferring" /\ Kept(n)' /\ phase = "open" =>
               new.source = n \/ (x.state = "transferring" /\ calls[c].source # n)
          /\ y.leaseCount = x.leaseCount - Cardinality(LeasedBy(calls[c], n))
                              + Cardinality(LeasedBy(new, n))
  /\ \A n \in Len(placements) + 1 .. Len(placements') :
       /\ placements'[n].epoch = Seen(P).profiles[placements'[n].profile].epoch
       /\ placements'[n].state = "live" /\ placements'[n].leaseCount = 0
       /\ n \notin Range(new.held) \cup new.todo /\ new.source # n
       /\ MadeBy(c, placements'[n], P) /\ HandleOf(c, placements'[n], n - Len(placements))

Turn(c, new, P) ==
  /\ Free(c) /\ phase' = phase
  /\ calls' = [calls EXCEPT ![c] = new]
  /\ new \in CallType /\ CallOK(new) /\ Unheard(new)
  /\ Within(new, Len(placements'), Len(runtimes'), Len(logical'))
  /\ RunTurn(c, new, P)
  /\ PlaceTurn(c, new, P)

\* #profileState: what is looked at, and what it changes.
LEMMA RuntimeIs ==
  ASSUME DataTyped, NEW p \in Profile
  PROVE  /\ profiles[p] \in ProfileType
         /\ profiles[p].runtime # 0 => /\ profiles[p].runtime \in 1 .. Len(runtimes)
                                       /\ runtimes[profiles[p].runtime] \in RuntimeType
<1>1. profiles[p] \in ProfileType /\ profiles[p].runtime \in 0 .. Len(runtimes)
  BY DEF DataTyped, ProfilesTyped
<1>2. runtimes \in Seq(RuntimeType)
  BY DEF DataTyped, RuntimesTyped
<1> QED
  BY <1>1, <1>2

LEMMA NewEpoch ==
  ASSUME NEW x \in ProfileType, NEW e \in Nat
  PROVE  LET y == [x EXCEPT !.epoch = @ + 1, !.runtimeEpoch = e] IN
         y \in ProfileType /\ y.runtime = x.runtime /\ y.starting = x.starting /\ y.epoch = x.epoch + 1
<1> DEFINE n == x.epoch + 1
           y == [x EXCEPT !.epoch = n, !.runtimeEpoch = e]
<1>1. n \in Nat
  BY DEF ProfileType
<1> HIDE DEF n
<1>2. y \in ProfileType /\ y.runtime = x.runtime /\ y.starting = x.starting /\ y.epoch = n
  BY <1>1 DEF ProfileType
<1> QED
  BY <1>2 DEF n

LEMMA Invalid ==
  ASSUME NEW x \in PlacementType
  PROVE  LET y == [x EXCEPT !.state = "invalid"] IN
         /\ y \in PlacementType /\ y.state = "invalid"
         /\ y.profile = x.profile /\ y.epoch = x.epoch /\ y.origin = x.origin /\ y.shape = x.shape
         /\ y.handle = x.handle
         /\ y.leaseCount = x.leaseCount
BY DEF PlacementType

LEMMA SeenIs ==
  ASSUME DataTyped, NEW P
  PROVE  /\ Seen(P).profiles \in [Profile -> ProfileType]
         /\ \A p \in Profile :
              /\ Seen(P).profiles[p].runtime = profiles[p].runtime
              /\ Seen(P).profiles[p].starting = profiles[p].starting
              /\ Seen(P).profiles[p].epoch = IF Lost(p, P) THEN profiles[p].epoch + 1 ELSE profiles[p].epoch
              /\ ~Lost(p, P) => Seen(P).profiles[p] = profiles[p]
         /\ Seen(P).placements \in Seq(PlacementType)
         /\ Len(Seen(P).placements) = Len(placements)
         /\ \A n \in 1 .. Len(placements) :
              /\ placements[n] \in PlacementType
              /\ Seen(P).placements[n] =
                   IF Lost(placements[n].profile, P) /\ Kept(n)
                   THEN [placements[n] EXCEPT !.state = "invalid"] ELSE placements[n]
<1> DEFINE lost == {p \in P : Rebuilds(p)}
           ps == Seen(P).profiles
<1>0. Seen(P).placements = InvalidPlacements(lost, placements)
  BY DEF Seen
<1>1. ps = [p \in Profile |->
              IF p \in lost THEN [profiles[p] EXCEPT !.epoch = @ + 1,
                                    !.runtimeEpoch = runtimes[profiles[p].runtime].kernel.epoch]
              ELSE profiles[p]]
  BY DEF Seen
<1>2. \A p : p \in lost <=> Lost(p, P)
  BY DEF Lost
<1>3. ASSUME NEW p \in Profile, p \in lost
      PROVE  /\ ps[p] \in ProfileType
             /\ ps[p].runtime = profiles[p].runtime /\ ps[p].starting = profiles[p].starting
             /\ ps[p].epoch = profiles[p].epoch + 1
  <2>1. profiles[p] \in ProfileType /\ runtimes[profiles[p].runtime] \in RuntimeType
    BY <1>3, RuntimeIs DEF Rebuilds
  <2>2. ps[p] = [profiles[p] EXCEPT !.epoch = @ + 1,
                   !.runtimeEpoch = runtimes[profiles[p].runtime].kernel.epoch]
    BY <1>1, <1>3
  <2> DEFINE k == runtimes[profiles[p].runtime].kernel.epoch
             y == [profiles[p] EXCEPT !.epoch = @ + 1, !.runtimeEpoch = k]
  <2>3. k \in Nat
    BY <2>1 DEF RuntimeType, Kernels
  <2> HIDE DEF k
  <2>4. /\ y \in ProfileType /\ y.runtime = profiles[p].runtime
        /\ y.starting = profiles[p].starting /\ y.epoch = profiles[p].epoch + 1
    BY ONLY <2>1, <2>3, NewEpoch, Zenon
  <2>5. ps[p] = y
    BY ONLY <2>2 DEF k
  <2> HIDE DEF y
  <2> QED
    BY ONLY <2>4, <2>5
<1>4. ASSUME NEW p \in Profile, p \notin lost
      PROVE  ps[p] = profiles[p] /\ ps[p] \in ProfileType
  BY <1>1, <1>4, RuntimeIs
<1>5. ps \in [Profile -> ProfileType]
  BY <1>1, <1>3, <1>4
<1>6. placements \in Seq(PlacementType)
  BY DEF DataTyped, PlacementsTyped
<1>7. \A n \in 1 .. Len(placements) : [placements[n] EXCEPT !.state = "invalid"] \in PlacementType
  BY <1>6, Invalid
<1>8. InvalidPlacements(lost, placements) =
        [n \in 1 .. Len(placements) |->
           IF placements[n].profile \in lost /\ Kept(n)
           THEN [placements[n] EXCEPT !.state = "invalid"] ELSE placements[n]]
  BY <1>6 DEF InvalidPlacements
<1> HIDE DEF lost, ps
<1>9. /\ Seen(P).placements \in Seq(PlacementType)
      /\ Len(Seen(P).placements) = Len(placements)
  <2>1. \A n \in 1 .. Len(placements) : placements[n] \in PlacementType
    BY <1>6
  <2>2. Seen(P).placements \in [1 .. Len(placements) -> PlacementType] /\ Len(placements) \in Nat
    BY <1>0, <1>6, <1>7, <1>8, <2>1
  <2> QED
    BY ONLY <2>2
<1>10. \A p \in Profile :
         /\ ps[p].runtime = profiles[p].runtime
         /\ ps[p].starting = profiles[p].starting
         /\ ps[p].epoch = IF Lost(p, P) THEN profiles[p].epoch + 1 ELSE profiles[p].epoch
         /\ ~Lost(p, P) => ps[p] = profiles[p]
  BY <1>2, <1>3, <1>4
<1>11. \A n \in 1 .. Len(placements) :
         /\ placements[n] \in PlacementType
         /\ Seen(P).placements[n] =
              IF Lost(placements[n].profile, P) /\ Kept(n)
              THEN [placements[n] EXCEPT !.state = "invalid"] ELSE placements[n]
  BY <1>0, <1>2, <1>6, <1>8
<1> QED
  BY <1>5, <1>9, <1>10, <1>11 DEF ps

\* Nothing is lost if nothing is looked at.
LEMMA SeenNothing ==
  ASSUME DataTyped
  PROVE  Seen({}).profiles = profiles /\ Seen({}).placements = placements /\ \A p : ~Lost(p, {})
<1>1. \A p : ~Lost(p, {})
  BY DEF Lost
<1>2. Seen({}).profiles \in [Profile -> ProfileType] /\ \A p \in Profile : Seen({}).profiles[p] = profiles[p]
  BY <1>1, SeenIs
<1>3. profiles \in [Profile -> ProfileType] /\ placements \in Seq(PlacementType)
  BY DEF DataTyped, ProfilesTyped, PlacementsTyped
<1>4. /\ Seen({}).placements \in Seq(PlacementType) /\ Len(Seen({}).placements) = Len(placements)
      /\ \A n \in 1 .. Len(placements) : Seen({}).placements[n] = placements[n]
  BY <1>1, SeenIs
<1> QED
  BY <1>1, <1>2, <1>3, <1>4

-----------------------------------------------------------------------------
(* A turn keeps the invariant.                                             *)

LEMMA NewRuntimeIs ==
  ASSUME NEW p \in Profile, NEW e \in Nat
  PROVE  NewRuntime(p, e) \in RuntimeType
BY DEF NewRuntime, Fresh, RuntimeType, Kernels

\* The runtimes after a turn: what was there is there, with one more in a queue at most.
LEMMA TurnRuntimes ==
  ASSUME DataTyped, NEW c \in Call, NEW new, NEW P, RunTurn(c, new, P)
  PROVE  /\ RuntimesTyped' /\ Len(runtimes) <= Len(runtimes')
         /\ \A r \in 1 .. Len(runtimes) :
              /\ runtimes'[r].profile = runtimes[r].profile /\ runtimes'[r].since = runtimes[r].since
              /\ runtimes'[r].state = runtimes[r].state /\ runtimes'[r].kernel = runtimes[r].kernel
              /\ Leaving(runtimes[r]) => Leaving(runtimes'[r])
<1>1. runtimes \in Seq(RuntimeType)
  BY DEF DataTyped, RuntimesTyped
<1>2. CASE runtimes' = runtimes
  BY <1>1, <1>2 DEF RuntimesTyped
<1>3. CASE AsksFor(c, new)
  <2>1. PICK r \in 1 .. Len(runtimes), q \in Questions :
          runtimes' = [runtimes EXCEPT ![r].queue = Append(@, q)]
    BY <1>3 DEF AsksFor
  <2>0. runtimes[r] \in RuntimeType
    BY <1>1
  <2>2. runtimes[r] \in RuntimeType /\ runtimes[r].queue \in Seq(Questions)
    BY ONLY <2>0 DEF RuntimeType
  <2> DEFINE a == Append(runtimes[r].queue, q)
             x == [runtimes[r] EXCEPT !.queue = a]
  <2>3. a \in Seq(Questions)
    BY <2>2
  <2>4. \A i \in 1 .. Len(runtimes[r].queue) : i \in 1 .. Len(a) /\ a[i] = runtimes[r].queue[i]
    BY <2>2
  <2>5. runtimes' = [runtimes EXCEPT ![r] = x]
    BY <2>1
  <2> HIDE DEF a
  <2>6. /\ x \in RuntimeType /\ x.profile = runtimes[r].profile /\ x.since = runtimes[r].since
        /\ x.state = runtimes[r].state /\ x.kernel = runtimes[r].kernel /\ x.queue = a
    BY <2>2, <2>3 DEF RuntimeType
  <2> HIDE DEF x
  <2>7. Leaving(runtimes[r]) => Leaving(x)
    BY <2>4, <2>6 DEF Leaving
  <2>8. /\ runtimes' \in Seq(RuntimeType) /\ Len(runtimes') = Len(runtimes)
        /\ runtimes'[r] = x /\ \A t \in 1 .. Len(runtimes) : t # r => runtimes'[t] = runtimes[t]
    BY ONLY <1>1, <2>1, <2>5, <2>6, SMTT(60)
  <2> QED
    BY ONLY <1>1, <2>6, <2>7, <2>8 DEF RuntimesTyped
<1>4. CASE StartsFor(P)
  <2>1. PICK p \in Profile : runtimes' = Append(runtimes, NewRuntime(p, Seen(P).profiles[p].epoch))
    BY <1>4 DEF StartsFor
  <2>2. Seen(P).profiles[p].epoch \in Nat
    BY SeenIs DEF ProfileType
  <2>3. NewRuntime(p, Seen(P).profiles[p].epoch) \in RuntimeType
    BY <2>2, NewRuntimeIs
  <2> QED
    BY ONLY <1>1, <2>1, <2>3 DEF RuntimesTyped
<1> QED
  BY <1>2, <1>3, <1>4 DEF RunTurn

\* The profiles after a turn: new epochs for those that were lost, a start at most.
LEMMA TurnProfiles ==
  ASSUME DataTyped, NEW c \in Call, NEW new, NEW P, RunTurn(c, new, P)
  PROVE  /\ ProfilesTyped'
         /\ \A p \in Profile :
              /\ profiles'[p].runtime = profiles[p].runtime
              /\ profiles'[p].epoch = IF Lost(p, P) THEN profiles[p].epoch + 1 ELSE profiles[p].epoch
              /\ profiles'[p].starting # profiles[p].starting
                   => profiles[p].starting = 0 /\ profiles[p].runtime = 0
<1>1. runtimes' \in Seq(RuntimeType) /\ Len(runtimes') \in Nat /\ Len(runtimes) \in Nat /\ Len(runtimes) <= Len(runtimes')
  BY TurnRuntimes DEF DataTyped, RuntimesTyped
<1>2. \A p \in Profile : profiles[p].runtime \in 0 .. Len(runtimes) /\ profiles[p].starting \in 0 .. Len(runtimes)
  BY DEF DataTyped, ProfilesTyped
<1> DEFINE s == Seen(P).profiles
<1>3. /\ s \in [Profile -> ProfileType]
      /\ \A p \in Profile :
           /\ s[p].runtime = profiles[p].runtime /\ s[p].starting = profiles[p].starting
           /\ s[p].epoch = IF Lost(p, P) THEN profiles[p].epoch + 1 ELSE profiles[p].epoch
  BY SeenIs
<1> HIDE DEF s
<1>4. CASE profiles' = s
  <2>1. profiles' \in [Profile -> ProfileType]
        /\ \A p \in Profile : profiles'[p].runtime \in 0 .. Len(runtimes') /\ profiles'[p].starting \in 0 .. Len(runtimes')
    BY <1>1, <1>2, <1>3, <1>4
  <2> QED
    BY <1>3, <1>4, <2>1 DEF ProfilesTyped
<1>5. CASE StartsFor(P)
  <2>1. PICK p \in Profile :
          /\ s[p].runtime = 0 /\ s[p].starting = 0
          /\ runtimes' = Append(runtimes, NewRuntime(p, s[p].epoch))
          /\ profiles' = [s EXCEPT ![p].starting = Len(runtimes) + 1]
    BY <1>5 DEF StartsFor, s
  <2>2. Len(runtimes') = Len(runtimes) + 1
    BY <2>1 DEF DataTyped, RuntimesTyped
  <2> DEFINE k == Len(runtimes) + 1
             y == [s[p] EXCEPT !.starting = k]
  <2>3. k \in Nat /\ k \in 0 .. Len(runtimes')
    BY <1>1, <2>2
  <2>4. profiles' = [s EXCEPT ![p] = y]
    BY <2>1
  <2> HIDE DEF k
  <2>5. s[p] \in ProfileType
    BY <1>3
  <2>6. y \in ProfileType /\ y.runtime = s[p].runtime /\ y.epoch = s[p].epoch /\ y.starting = k
    BY ONLY <2>3, <2>5 DEF ProfileType
  <2> HIDE DEF y
  <2>7. /\ profiles' \in [Profile -> ProfileType] /\ profiles'[p] = y
        /\ \A t \in Profile : t # p => profiles'[t] = s[t]
    BY ONLY <1>3, <2>4, <2>6
  <2>8. \A t \in Profile : profiles'[t].runtime \in 0 .. Len(runtimes') /\ profiles'[t].starting \in 0 .. Len(runtimes')
    BY ONLY <1>1, <1>2, <1>3, <2>3, <2>6, <2>7
  <2>9. \A t \in Profile :
          /\ profiles'[t].runtime = profiles[t].runtime
          /\ profiles'[t].epoch = s[t].epoch
          /\ profiles'[t].starting # profiles[t].starting
               => profiles[t].starting = 0 /\ profiles[t].runtime = 0
    BY ONLY <1>3, <2>1, <2>6, <2>7
  <2> QED
    BY ONLY <1>3, <2>7, <2>8, <2>9 DEF ProfilesTyped
<1> QED
  BY <1>4, <1>5 DEF RunTurn, s

LEMMA MoreSeqs ==
  ASSUME NEW A, NEW B, A \subseteq B, NEW x \in Seq(A)
  PROVE  x \in Seq(B)
OBVIOUS

LEMMA PointsMore ==
  ASSUME NEW call, NEW a \in Nat, NEW b \in Nat, NEW g \in Nat, NEW aa \in Nat, NEW bb \in Nat, NEW gg \in Nat,
         a <= aa, b <= bb, g <= gg
  PROVE  /\ Points(call, a, b, g) => Points(call, aa, bb, gg)
         /\ Within(call, a, b, g) => Within(call, aa, bb, gg)
<1>1. 1 .. a \subseteq 1 .. aa /\ 1 .. g \subseteq 1 .. gg /\ 0 .. a \subseteq 0 .. aa /\ 0 .. b \subseteq 0 .. bb
      /\ 0 .. g \subseteq 0 .. gg
  OBVIOUS
<1>2. ASSUME Points(call, a, b, g)
      PROVE  Points(call, aa, bb, gg)
  <2>1. call.refs \in Seq(1 .. a) /\ call.held \in Seq(1 .. a)
    BY <1>2 DEF Points
  <2>2. call.refs \in Seq(1 .. aa) /\ call.held \in Seq(1 .. aa)
    BY ONLY <1>1, <2>1, MoreSeqs
  <2> QED
    BY <1>1, <1>2, <2>2, Zenon DEF Points
<1> QED
  BY <1>1, <1>2, Zenon DEF Within

LEMMA TurnCalls ==
  ASSUME DataTyped, CallsTyped, NEW c \in Call, NEW new, NEW P, Turn(c, new, P)
  PROVE  CallsTyped'
<1>1. /\ calls \in [Call -> CallType] /\ new \in CallType
      /\ calls' = [calls EXCEPT ![c] = new]
      /\ \A d \in Call : CallOK(calls[d])
      /\ CallOK(new)
  BY DEF Turn, CallsTyped
<1>2. calls' \in [Call -> CallType] /\ \A d \in Call : CallOK(calls'[d])
  BY <1>1
<1>3. /\ Len(placements) <= Len(placements') /\ Len(runtimes) <= Len(runtimes') /\ Len(logical) <= Len(logical')
      /\ Len(placements) \in Nat /\ Len(placements') \in Nat /\ Len(runtimes) \in Nat
      /\ Len(runtimes') \in Nat /\ Len(logical) \in Nat /\ Len(logical') \in Nat
  <2>1. RunTurn(c, new, P) /\ PlaceTurn(c, new, P)
    BY DEF Turn
  <2>2. RuntimesTyped' /\ Len(runtimes) <= Len(runtimes')
    BY <2>1, TurnRuntimes
  <2> QED
    BY <2>1, <2>2 DEF PlaceTurn, DataTyped, RuntimesTyped, PlacementsTyped, ShapesTyped
<1>4. ASSUME NEW d \in Call
      PROVE  Within(calls'[d], Len(placements'), Len(runtimes'), Len(logical'))
  <2>1. CASE d = c
    BY <1>1, <2>1 DEF Turn
  <2>2. CASE d # c
    <3>1. calls'[d] = calls[d]
      BY <1>1, <2>2
    <3>2. Within(calls[d], Len(placements), Len(runtimes), Len(logical))
      BY DEF CallsTyped
    <3> QED
      BY <1>3, <3>1, <3>2, PointsMore
  <2> QED
    BY <2>1, <2>2
<1> QED
  BY <1>2, <1>4 DEF CallsTyped

\* The call that goes on is in no queue, so that it may change.
LEMMA NotAsked ==
  ASSUME DataTyped, AskedOnce, NEW c \in Call, Free(c), NEW r \in 1 .. Len(runtimes), NEW i \in 1 .. Len(runtimes[r].queue)
  PROVE  runtimes[r].queue[i].call # c
<1>1. AskedBy(r, runtimes[r].queue[i])
  BY DEF AskedOnce
<1>2. runtimes \in Seq(RuntimeType)
  BY DEF DataTyped, RuntimesTyped
<1>3. runtimes[r] \in RuntimeType
  BY <1>2
<1>4. runtimes[r].queue \in Seq(Questions)
  BY ONLY <1>3 DEF RuntimeType
<1>5. runtimes[r].queue[i] \in Questions
  BY ONLY <1>4
<1>6. runtimes[r].queue[i].op \in Ops \cup {"releaseAll"}
  BY ONLY <1>5 DEF Questions
<1> QED
  BY <1>1, <1>6, NobodyAssumption DEF AskedBy, Free, Ops

LEMMA TurnQueues ==
  ASSUME DataTyped, AskedOnce, NEW c \in Call, NEW new, NEW P, RunTurn(c, new, P), Free(c),
         calls \in [Call -> CallType], calls' = [calls EXCEPT ![c] = new]
  PROVE  AskedOnce'
<1>1. runtimes \in Seq(RuntimeType)
  BY DEF DataTyped, RuntimesTyped
<1> DEFINE Fine(x, r) ==
      /\ x.state # "up" => x.queue = <<>>
      /\ \A i \in 1 .. Len(x.queue) :
           /\ x.queue[i].call = Nobody <=> x.queue[i].op = "releaseAll"
           /\ x.queue[i].call \in Call => /\ calls'[x.queue[i].call].at = x.queue[i].op
                                          /\ calls'[x.queue[i].call].reply = "none"
                                          /\ calls'[x.queue[i].call].rt = r
           /\ x.queue[i].call \in Call =>
                \A j \in 1 .. Len(x.queue) : j # i => x.queue[j].call # x.queue[i].call
<1>2. ASSUME NEW r \in 1 .. Len(runtimes)
      PROVE  Fine(runtimes[r], r)
  <2>1. \A i \in 1 .. Len(runtimes[r].queue) : runtimes[r].queue[i].call # c
    BY NotAsked
  <2>2. \A d \in Call : d # c => calls'[d] = calls[d]
    OBVIOUS
  <2> QED
    BY <2>1, <2>2 DEF AskedOnce, AskedBy
<1>3. ASSUME \A r \in 1 .. Len(runtimes') : Fine(runtimes'[r], r)
      PROVE  AskedOnce'
  <2> SUFFICES ASSUME NEW r \in 1 .. Len(runtimes')
               PROVE  Fine(runtimes'[r], r)
    BY DEF AskedOnce, AskedBy
  <2> QED
    BY ONLY <1>3
<1> HIDE DEF Fine
<1>4. CASE runtimes' = runtimes
  BY <1>2, <1>3, <1>4
<1>5. CASE AsksFor(c, new)
  <2>1. PICK r \in 1 .. Len(runtimes), q \in Questions :
          /\ runtimes[r].state = "up"
          /\ q.call = c /\ q.op = new.at /\ q.op # "releaseAll" /\ new.reply = "none" /\ new.rt = r
          /\ runtimes' = [runtimes EXCEPT ![r].queue = Append(@, q)]
    BY <1>5 DEF AsksFor
  <2>2. runtimes[r] \in RuntimeType
    BY <1>1
  <2>3. runtimes[r].queue \in Seq(Questions)
    BY ONLY <2>2 DEF RuntimeType
  <2> DEFINE a == Append(runtimes[r].queue, q)
             x == [runtimes[r] EXCEPT !.queue = a]
  <2>4. /\ Len(a) = Len(runtimes[r].queue) + 1 /\ a[Len(a)] = q
        /\ \A i \in 1 .. Len(runtimes[r].queue) : a[i] = runtimes[r].queue[i]
        /\ Len(runtimes[r].queue) \in Nat
    BY <2>3
  <2>5. runtimes' = [runtimes EXCEPT ![r] = x]
    BY <2>1
  <2> HIDE DEF a
  <2>6. x.queue = a /\ x.state = runtimes[r].state
    BY ONLY <2>2 DEF RuntimeType
  <2>7. calls'[c] = new
    OBVIOUS
  <2> HIDE DEF x
  <2>8. Fine(x, r)
    <3>1. Fine(runtimes[r], r)
      BY <1>2
    <3>2. \A i \in 1 .. Len(runtimes[r].queue) : runtimes[r].queue[i].call # c
      BY NotAsked
    <3>3. x.state = "up"
      BY <2>1, <2>6
    <3>4. ASSUME NEW i \in 1 .. Len(a)
          PROVE  /\ a[i].call = Nobody <=> a[i].op = "releaseAll"
                 /\ a[i].call \in Call => /\ calls'[a[i].call].at = a[i].op
                                          /\ calls'[a[i].call].reply = "none"
                                          /\ calls'[a[i].call].rt = r
      <4>1. CASE i = Len(a)
        BY <2>1, <2>4, <2>7, <4>1, NobodyAssumption
      <4>2. CASE i # Len(a)
        <5>1. i \in 1 .. Len(runtimes[r].queue)
          BY <2>4, <4>2
        <5> QED
          BY <2>4, <3>1, <5>1 DEF Fine
      <4> QED
        BY <4>1, <4>2
    <3>5. ASSUME NEW i \in 1 .. Len(a), a[i].call \in Call, NEW j \in 1 .. Len(a), j # i
          PROVE  a[j].call # a[i].call
      <4>1. CASE i = Len(a)
        <5>1. j \in 1 .. Len(runtimes[r].queue)
          BY <2>4, <3>5, <4>1
        <5> QED
          BY <2>1, <2>4, <3>2, <4>1, <5>1
      <4>2. CASE j = Len(a)
        <5>1. i \in 1 .. Len(runtimes[r].queue)
          BY <2>4, <3>5, <4>2
        <5> QED
          BY <2>1, <2>4, <3>2, <4>2, <5>1
      <4>3. CASE i # Len(a) /\ j # Len(a)
        <5>1. i \in 1 .. Len(runtimes[r].queue) /\ j \in 1 .. Len(runtimes[r].queue)
          BY <2>4, <4>3
        <5> QED
          BY <2>4, <3>1, <3>5, <5>1, SMTT(60) DEF Fine
      <4> QED
        BY <4>1, <4>2, <4>3
    <3> QED
      BY ONLY <2>6, <3>3, <3>4, <3>5 DEF Fine
  <2>9. /\ Len(runtimes') = Len(runtimes)
        /\ runtimes'[r] = x /\ \A t \in 1 .. Len(runtimes) : t # r => runtimes'[t] = runtimes[t]
    BY ONLY <1>1, <2>5
  <2> QED
    BY ONLY <1>2, <1>3, <2>8, <2>9
<1>6. CASE StartsFor(P)
  <2>1. PICK p \in Profile : runtimes' = Append(runtimes, NewRuntime(p, Seen(P).profiles[p].epoch))
    BY <1>6 DEF StartsFor
  <2> DEFINE x == NewRuntime(p, Seen(P).profiles[p].epoch)
  <2>2. x.queue = <<>>
    BY DEF NewRuntime
  <2>3. \A r : Fine(x, r)
    BY <2>2 DEF Fine
  <2> HIDE DEF x
  <2>4. \A t \in 1 .. Len(runtimes') : IF t <= Len(runtimes) THEN t \in 1 .. Len(runtimes) /\ runtimes'[t] = runtimes[t] ELSE runtimes'[t] = x
    BY <1>1, <2>1 DEF x
  <2> QED
    BY <1>2, <1>3, <2>3, <2>4
<1> QED
  BY <1>4, <1>5, <1>6 DEF RunTurn

LEMMA TurnWanted ==
  ASSUME DataTyped, OwnRuntimes, AllWanted, NEW c \in Call, NEW new, NEW P, RunTurn(c, new, P), phase' = phase
  PROVE  OwnRuntimes' /\ AllWanted'
<1>1. /\ RuntimesTyped' /\ Len(runtimes) <= Len(runtimes') /\ Len(runtimes) \in Nat /\ Len(runtimes') \in Nat
      /\ \A r \in 1 .. Len(runtimes) :
           /\ runtimes'[r].profile = runtimes[r].profile /\ runtimes'[r].since = runtimes[r].since
           /\ runtimes'[r].state = runtimes[r].state
           /\ Leaving(runtimes[r]) => Leaving(runtimes'[r])
  BY TurnRuntimes DEF DataTyped, RuntimesTyped
<1>2. /\ ProfilesTyped'
      /\ \A p \in Profile :
           /\ profiles'[p].runtime = profiles[p].runtime
           /\ profiles'[p].epoch = IF Lost(p, P) THEN profiles[p].epoch + 1 ELSE profiles[p].epoch
           /\ profiles'[p].starting # profiles[p].starting
                => profiles[p].starting = 0 /\ profiles[p].runtime = 0
  BY TurnProfiles
<1>3. \A p \in Profile : /\ profiles[p].runtime \in 0 .. Len(runtimes) /\ profiles[p].starting \in 0 .. Len(runtimes)
                         /\ profiles[p].epoch \in Nat /\ profiles'[p].epoch \in Nat
  BY <1>2 DEF DataTyped, ProfilesTyped, ProfileType
<1>4. \A r \in 1 .. Len(runtimes) : runtimes[r].profile \in Profile /\ runtimes[r].since \in Nat
  <2>1. ASSUME NEW r \in 1 .. Len(runtimes)
        PROVE  runtimes[r] \in RuntimeType
    BY DEF DataTyped, RuntimesTyped
  <2> QED
    BY <2>1 DEF RuntimeType
<1>5. OwnRuntimes'
  <2>1. ASSUME NEW p \in Profile, profiles'[p].runtime # 0
        PROVE  runtimes'[profiles'[p].runtime].profile = p
    BY <1>1, <1>2, <1>3, <2>1 DEF OwnRuntimes
  <2> QED
    BY <2>1 DEF OwnRuntimes
<1>6. ASSUME NEW r \in 1 .. Len(runtimes)
      PROVE  Wanted(r)'
  <2> DEFINE p == runtimes[r].profile
  <2>1. p \in Profile
    BY <1>4
  <2>2. /\ runtimes[r].since <= profiles[p].epoch
        /\ runtimes[r].state = "starting" /\ runtimes[r].since = profiles[p].epoch /\ phase = "open"
             => profiles[p].starting = r /\ profiles[p].runtime = 0
        /\ runtimes[r].state = "up" => profiles[p].runtime = r \/ Leaving(runtimes[r])
    BY DEF AllWanted, Wanted
  <2>3. /\ runtimes'[r].profile = p /\ runtimes'[r].since = runtimes[r].since
        /\ runtimes'[r].state = runtimes[r].state
        /\ Leaving(runtimes[r]) => Leaving(runtimes'[r])
    BY <1>1
  <2>4. /\ profiles'[p].runtime = profiles[p].runtime
        /\ profiles'[p].epoch = profiles[p].epoch + 1 \/ profiles'[p].epoch = profiles[p].epoch
        /\ profiles'[p].starting # profiles[p].starting
             => profiles[p].starting = 0 /\ profiles[p].runtime = 0
    BY <1>2, <2>1
  <2>5. runtimes[r].since \in Nat /\ profiles[p].epoch \in Nat
    BY <1>3, <1>4, <2>1
  <2> HIDE DEF p
  <2>6. /\ runtimes'[r].since <= profiles'[p].epoch
        /\ runtimes'[r].since = profiles'[p].epoch => runtimes[r].since = profiles[p].epoch
    BY ONLY <2>2, <2>3, <2>4, <2>5
  <2>7. /\ runtimes'[r].state = "starting" /\ runtimes'[r].since = profiles'[p].epoch /\ phase' = "open"
             => profiles'[p].starting = r /\ profiles'[p].runtime = 0
        /\ runtimes'[r].state = "up" => profiles'[p].runtime = r \/ Leaving(runtimes'[r])
    BY <2>2, <2>3, <2>4, <2>6
  <2> QED
    BY ONLY <2>3, <2>6, <2>7 DEF Wanted
<1>7. CASE StartsFor(P)
  <2> DEFINE s == Seen(P).profiles
  <2>1. PICK p \in Profile :
          /\ s[p].runtime = 0
          /\ runtimes' = Append(runtimes, NewRuntime(p, s[p].epoch))
          /\ profiles' = [s EXCEPT ![p].starting = Len(runtimes) + 1]
    BY <1>7 DEF StartsFor
  <2>2. s \in [Profile -> ProfileType]
    BY SeenIs
  <2> DEFINE k == Len(runtimes) + 1
             y == [s[p] EXCEPT !.starting = k]
             x == NewRuntime(p, s[p].epoch)
  <2> HIDE DEF s
  <2>3. x.since = s[p].epoch /\ x.state = "starting" /\ x.profile = p /\ s[p].epoch \in Nat
    BY <2>2 DEF NewRuntime, ProfileType
  <2>4. k \in Nat
    BY <1>1
  <2>5. profiles' = [s EXCEPT ![p] = y]
    BY <2>1
  <2> HIDE DEF k
  <2>6. s[p] \in ProfileType
    BY <2>2
  <2>7. y.starting = k /\ y.epoch = s[p].epoch /\ y.runtime = s[p].runtime
    BY ONLY <2>4, <2>6 DEF ProfileType
  <2> HIDE DEF x, y
  <2>8. profiles'[p] = y
    BY ONLY <2>2, <2>5
  <2>9. /\ Len(runtimes') = k /\ runtimes'[k] = x
    BY <2>1 DEF DataTyped, RuntimesTyped, k, x
  <2>10. ASSUME NEW r, r = k
         PROVE  Wanted(r)'
    BY ONLY <2>1, <2>3, <2>7, <2>8, <2>9, <2>10 DEF Wanted
  <2>11. \A r \in 1 .. Len(runtimes') : r \in 1 .. Len(runtimes) \/ r = k
    BY <1>1, <2>9 DEF k
  <2>12. \A r \in 1 .. Len(runtimes') : Wanted(r)'
    BY ONLY <1>6, <2>10, <2>11
  <2> QED
    BY ONLY <1>5, <2>12 DEF AllWanted
<1>8. CASE ~StartsFor(P)
  <2>1. Len(runtimes') = Len(runtimes)
    <3>1. CASE runtimes' = runtimes
      BY <3>1
    <3>2. CASE AsksFor(c, new)
      BY <3>2 DEF AsksFor, DataTyped, RuntimesTyped
    <3> QED
      BY <1>8, <3>1, <3>2 DEF RunTurn
  <2> QED
    BY <1>5, <1>6, <2>1 DEF AllWanted
<1> QED
  BY <1>7, <1>8

LEMMA TurnOpen ==
  ASSUME DataTyped, OpenRuntimes, NEW c \in Call, NEW new, NEW P, RunTurn(c, new, P), phase' = phase
  PROVE  OpenRuntimes'
<1>1. runtimes \in Seq(RuntimeType) /\ Len(runtimes) \in Nat
  BY DEF DataTyped, RuntimesTyped
<1>2. ASSUME NEW p \in Profile, profiles'[p].runtime # 0
      PROVE  phase' = "open" /\ runtimes'[profiles'[p].runtime].state = "up"
  <2>1. profiles'[p].runtime = profiles[p].runtime
    BY TurnProfiles
  <2>2. profiles[p].runtime \in 1 .. Len(runtimes)
    BY <1>2, <2>1, RuntimeIs
  <2>3. \A r \in 1 .. Len(runtimes) : runtimes'[r].state = runtimes[r].state
    BY TurnRuntimes
  <2> QED
    BY <1>2, <2>1, <2>2, <2>3 DEF OpenRuntimes
<1>3. ASSUME phase = "open", NEW r \in 1 .. Len(runtimes')
      PROVE  ~Leaving(runtimes'[r])
  <2>1. \A t \in 1 .. Len(runtimes) : ~Leaving(runtimes[t])
    BY <1>3 DEF OpenRuntimes
  <2>2. CASE runtimes' = runtimes
    BY <2>1, <2>2
  <2>3. CASE AsksFor(c, new)
    <3>1. PICK t \in 1 .. Len(runtimes), q \in Questions :
            q.call = c /\ runtimes' = [runtimes EXCEPT ![t].queue = Append(@, q)]
      BY <2>3 DEF AsksFor
    <3>2. runtimes[t] \in RuntimeType
      BY <1>1
    <3>3. runtimes[t].queue \in Seq(Questions) /\ DOMAIN runtimes = 1 .. Len(runtimes)
      BY <1>1, <3>2 DEF RuntimeType
    <3>4. Len(runtimes') = Len(runtimes) /\ (r # t => runtimes'[r] = runtimes[r])
      BY <1>1, <3>1
    <3>5. r = t => runtimes'[r].queue = Append(runtimes[t].queue, q)
      BY <1>1, <3>1, <3>2, <3>3 DEF RuntimeType
    <3>6. \A i \in 1 .. Len(runtimes[t].queue) : runtimes[t].queue[i].call # Nobody
      BY <2>1 DEF Leaving
    <3>7. q.call # Nobody
      BY <3>1, NobodyAssumption
    <3>8. r = t => \A i \in 1 .. Len(runtimes'[r].queue) : runtimes'[r].queue[i].call # Nobody
      <4> DEFINE w == runtimes[t].queue
                 a == Append(w, q)
      <4>1. w \in Seq(Questions) /\ \A i \in 1 .. Len(w) : w[i].call # Nobody
        BY <3>3, <3>6
      <4> HIDE DEF w
      <4>2. /\ Len(a) = Len(w) + 1 /\ Len(w) \in Nat /\ a[Len(w) + 1] = q
            /\ \A i \in 1 .. Len(w) : a[i] = w[i]
        BY ONLY <4>1, q \in Questions
      <4>3. \A i \in 1 .. Len(a) : i \in 1 .. Len(w) \/ i = Len(w) + 1
        BY ONLY <4>2
      <4> HIDE DEF a
      <4>4. \A i \in 1 .. Len(a) : a[i].call # Nobody
        BY <3>7, <4>1, <4>2, <4>3
      <4> QED
        BY <3>5, <4>4 DEF a, w
    <3> QED
      BY <2>1, <3>4, <3>8 DEF Leaving
  <2>4. CASE StartsFor(P)
    <3>1. PICK p \in Profile : runtimes' = Append(runtimes, NewRuntime(p, Seen(P).profiles[p].epoch))
      BY <2>4 DEF StartsFor
    <3> DEFINE x == NewRuntime(p, Seen(P).profiles[p].epoch)
    <3>2. x.queue = <<>>
      BY DEF NewRuntime
    <3>3. ~Leaving(x)
      BY <3>2 DEF Leaving
    <3> HIDE DEF x
    <3>4. runtimes'[r] = x \/ (r \in 1 .. Len(runtimes) /\ runtimes'[r] = runtimes[r])
      BY <1>1, <3>1 DEF x
    <3> QED
      BY <2>1, <3>3, <3>4
  <2> QED
    BY <2>2, <2>3, <2>4 DEF RunTurn
<1> QED
  BY <1>2, <1>3 DEF OpenRuntimes

LEMMA TurnEpochs ==
  ASSUME DataTyped, EpochsCurrent, NEW c \in Call, NEW new, NEW P, RunTurn(c, new, P), PlaceTurn(c, new, P),
         phase' = phase
  PROVE  EpochsCurrent'
<1> SUFFICES ASSUME phase = "open", NEW n \in 1 .. Len(placements'), Kept(n)', placements'[n].state # "invalid"
             PROVE  placements'[n].epoch = profiles'[placements'[n].profile].epoch
  BY DEF EpochsCurrent
<1>1. \A p \in Profile : profiles'[p].epoch = IF Lost(p, P) THEN profiles[p].epoch + 1 ELSE profiles[p].epoch
  BY TurnProfiles
<1>2. CASE n \in 1 .. Len(placements)
  <2>1. /\ placements'[n].profile = placements[n].profile /\ placements'[n].epoch = placements[n].epoch
        /\ Kept(n) /\ placements[n].state # "invalid" /\ ~Lost(placements[n].profile, P)
    BY <1>2 DEF PlaceTurn
  <2>2. placements[n] \in PlacementType
    BY <1>2 DEF DataTyped, PlacementsTyped
  <2>3. placements[n].profile \in Profile
    BY ONLY <2>2 DEF PlacementType
  <2> QED
    BY <1>1, <1>2, <2>1, <2>3 DEF EpochsCurrent
<1>3. CASE n \notin 1 .. Len(placements)
  <2>1. n \in Len(placements) + 1 .. Len(placements')
    BY <1>3 DEF DataTyped, PlacementsTyped
  <2>2. placements'[n].epoch = Seen(P).profiles[placements'[n].profile].epoch
    BY <2>1 DEF PlaceTurn
  <2>3. placements'[n] \in PlacementType
    BY DEF PlaceTurn, PlacementsTyped
  <2>4. placements'[n].profile \in Profile
    BY ONLY <2>3 DEF PlacementType
  <2> QED
    BY <1>1, <2>2, <2>4, SeenIs
<1> QED
  BY <1>2, <1>3

LEMMA TurnLeases ==
  ASSUME DataTyped, CallsTyped, LeasesExact, NEW c \in Call, NEW new, NEW P, Turn(c, new, P)
  PROVE  LeasesExact'
<1>1. /\ calls \in [Call -> CallType] /\ new \in CallType /\ calls' = [calls EXCEPT ![c] = new]
      /\ phase' = phase /\ PlaceTurn(c, new, P)
  BY DEF CallsTyped, Turn
<1>2. new.held \in Seq(Nat) /\ \A d \in Call : calls[d].held \in Seq(Nat)
  BY <1>1 DEF CallType
<1>3. placements \in Seq(PlacementType) /\ placements' \in Seq(PlacementType) /\ DOMAIN placements = 1 .. Len(placements)
      /\ DOMAIN placements' = 1 .. Len(placements')
  BY <1>1 DEF DataTyped, PlacementsTyped, PlaceTurn
<1>4. ASSUME NEW n \in 1 .. Len(placements)
      PROVE  /\ placements'[n].leaseCount = Cardinality(Leases(n)')
             /\ placements'[n].state = "transferring" /\ Kept(n)' /\ phase' = "open"
                  => \E d \in Call : calls'[d].source = n
  <2>1. placements[n].leaseCount = Cardinality(Leases(n))
    BY <1>3 DEF LeasesExact
  <2>2. placements'[n].leaseCount = placements[n].leaseCount - Cardinality(LeasedBy(calls[c], n))
                                      + Cardinality(LeasedBy(new, n))
    BY <1>1 DEF PlaceTurn
  <2>3. Cardinality(Leases(n)') =
          Cardinality(Leases(n)) - Cardinality(LeasedBy(calls[c], n)) + Cardinality(LeasedBy(new, n))
    <3>1. DOMAIN calls = Call
      BY <1>1
    <3> QED
      BY ONLY <1>1, <1>2, <3>1, LeasesMove, Zenon
  <2>4. ASSUME placements'[n].state = "transferring", Kept(n)', phase' = "open"
        PROVE  \E d \in Call : calls'[d].source = n
    <3>1. CASE new.source = n
      BY <1>1, <3>1
    <3>2. CASE new.source # n
      <4>1. placements[n].state = "transferring" /\ calls[c].source # n /\ Kept(n)
        BY <1>1, <2>4, <3>2 DEF PlaceTurn
      <4>2. PICK d \in Call : calls[d].source = n
        BY <1>1, <1>3, <2>4, <4>1 DEF LeasesExact
      <4> QED
        BY <1>1, <4>1, <4>2
    <3> QED
      BY <3>1, <3>2
  <2> QED
    BY <2>1, <2>2, <2>3, <2>4
<1>5. ASSUME NEW n \in Len(placements) + 1 .. Len(placements')
      PROVE  /\ placements'[n].leaseCount = Cardinality(Leases(n)')
             /\ placements'[n].state # "transferring"
  <2>1. /\ placements'[n].state = "live" /\ placements'[n].leaseCount = 0
        /\ n \notin Range(new.held) /\ new.source # n
    BY <1>1 DEF PlaceTurn
  <2>2. n \notin 0 .. Len(placements)
    BY <1>3
  <2>3. ASSUME NEW d \in Call
        PROVE  LeasedBy(calls'[d], n) = {}
    <3>1. CASE d = c
      <4>1. calls'[d] = new
        BY <1>1, <3>1
      <4>2. \A k \in 1 .. Len(new.held) : new.held[k] # n
        BY <1>2, <2>1 DEF Range
      <4> QED
        BY <2>1, <4>1, <4>2 DEF LeasedBy
    <3>2. CASE d # c
      <4>1. calls'[d] = calls[d]
        BY <1>1, <3>2
      <4>2. calls[d].held \in Seq(1 .. Len(placements)) /\ calls[d].source \in 0 .. Len(placements)
        BY DEF CallsTyped, Within, Points
      <4>3. \A k \in 1 .. Len(calls[d].held) : calls[d].held[k] \in 1 .. Len(placements)
        BY <4>2, SMTT(60)
      <4> QED
        BY <2>2, <4>1, <4>2, <4>3 DEF LeasedBy
    <3> QED
      BY <3>1, <3>2
  <2>4. Leases(n)' = UNION {{d} \X LeasedBy(calls'[d], n) : d \in Call}
    BY DEF Leases, LeasedBy
  <2>5. Leases(n)' = {}
    BY <2>3, <2>4
  <2> QED
    BY <2>1, <2>5, FS_EmptySet
<1>6. \A n \in 1 .. Len(placements') : n \in 1 .. Len(placements) \/ n \in Len(placements) + 1 .. Len(placements')
  BY <1>3
<1> QED
  BY <1>3, <1>4, <1>5, <1>6 DEF LeasesExact

LEMMA TurnKeeps ==
  ASSUME EngineInv, NEW c \in Call, NEW new, NEW P, Turn(c, new, P)
  PROVE  EngineInv'
<1>1. /\ DataTyped /\ CallsTyped /\ AskedOnce /\ OwnRuntimes /\ AllWanted /\ OpenRuntimes /\ EpochsCurrent
      /\ LeasesExact /\ RunTurn(c, new, P) /\ PlaceTurn(c, new, P) /\ Free(c) /\ phase' = phase
      /\ calls' = [calls EXCEPT ![c] = new] /\ calls \in [Call -> CallType]
  BY DEF EngineInv, Turn, CallsTyped
<1>2. RuntimesTyped' /\ ProfilesTyped'
  BY <1>1, TurnRuntimes, TurnProfiles
<1>3. PlacementsTyped' /\ ShapesTyped'
  BY <1>1 DEF PlaceTurn
<1>4. CallsTyped'
  BY <1>1, TurnCalls
<1>5. AskedOnce'
  BY <1>1, TurnQueues
<1>6. OwnRuntimes' /\ AllWanted'
  BY <1>1, TurnWanted
<1>7. EpochsCurrent'
  BY <1>1, TurnEpochs
<1>8. LeasesExact'
  BY <1>1, TurnLeases
<1>9. OpenRuntimes'
  BY <1>1, TurnOpen
<1> QED
  BY <1>2, <1>3, <1>4, <1>5, <1>6, <1>7, <1>8, <1>9 DEF EngineInv, DataTyped

-----------------------------------------------------------------------------
(* Questions.                                                              *)

\* new is call once it waits, or was rejected: at a question, or for a runtime that starts.
Keeps(call, new) ==
  /\ new \in CallType /\ CallOK(new) /\ Unheard(new)
  /\ Within(new, Len(placements), Len(runtimes'), Len(logical))
  /\ new.held = call.held /\ new.source = call.source
Leads(c, call, new) == calls' = [calls EXCEPT ![c] = new] /\ Keeps(call, new)

Asking(call, at, next, r, reply) == [call EXCEPT !.at = at, !.next = next, !.rt = r, !.reply = reply]

LEMMA Waits ==
  ASSUME NEW call \in CallType, NEW at, NEW next \in Ops \cup {"none"}, NEW r \in Nat, NEW reply \in {"none", "error"},
         NEW st \in Ops, at \in {st, "start"}, at = "start" => next = st, StageOK(call, st),
         Points(call, Len(placements), Len(runtimes'), Len(logical)), r \in 1 .. Len(runtimes')
  PROVE  LET new == Asking(call, at, next, r, reply) IN
         Keeps(call, new) /\ new.at = at /\ new.reply = reply /\ new.rt = r
<1> DEFINE new == Asking(call, at, next, r, reply)
<1>0. at \in Ops \cup {"start"} /\ "start" \notin Ops /\ "cloned" \notin Ops
  BY DEF Ops
<1>1. /\ new \in CallType
      /\ new.at = at /\ new.next = next /\ new.rt = r /\ new.reply = reply
      /\ new.kind = call.kind /\ new.refs = call.refs /\ new.i = call.i /\ new.target = call.target
      /\ new.source = call.source /\ new.held = call.held /\ new.own = call.own /\ new.todo = call.todo
      /\ new.shape = call.shape /\ new.rest = call.rest
  <2>1. /\ call \in CallType /\ at \in Ops \cup Idle \cup {"start", "cloned"} /\ next \in Ops \cup {"none"}
        /\ r \in Nat /\ reply \in {"none", "ok", "error"}
    BY <1>0
  <2> DEFINE mid == [call EXCEPT !.at = at, !.next = next]
  <2>2. /\ mid \in CallType /\ mid.at = at /\ mid.next = next
        /\ mid.kind = call.kind /\ mid.refs = call.refs /\ mid.i = call.i /\ mid.target = call.target
        /\ mid.source = call.source /\ mid.held = call.held /\ mid.own = call.own /\ mid.todo = call.todo
        /\ mid.shape = call.shape /\ mid.rest = call.rest
    BY ONLY <2>1, ZenonT(60) DEF CallType
  <2>3. new = [mid EXCEPT !.rt = r, !.reply = reply]
    BY DEF Asking
  <2> HIDE DEF mid, new
  <2>4. /\ new \in CallType /\ new.rt = r /\ new.reply = reply
        /\ new.at = mid.at /\ new.next = mid.next /\ new.kind = mid.kind /\ new.refs = mid.refs
        /\ new.i = mid.i /\ new.target = mid.target /\ new.source = mid.source /\ new.held = mid.held
        /\ new.own = mid.own /\ new.todo = mid.todo /\ new.shape = mid.shape /\ new.rest = mid.rest
    BY ONLY <2>1, <2>2, <2>3 DEF CallType
  <2> QED
    BY ONLY <2>2, <2>4
<1> HIDE DEF new
<1>2. st = Stage(new)
  BY <1>0, <1>1 DEF Stage
<1>3. StageOK(new, st)
  BY ONLY <1>1, StageOK(call, st) DEF StageOK
<1>4. ReplyOK(new)
  <2>1. at \in Ops \cup {"start"} /\ (at = "start" => next \in Ops) /\ r # 0 /\ reply \in {"none", "error"}
    BY <1>0
  <2> QED
    BY ONLY <1>1, <2>1 DEF ReplyOK, Ops, Idle
<1>5. Points(new, Len(placements), Len(runtimes'), Len(logical))
  <2>1. r \in 0 .. Len(runtimes')
    OBVIOUS
  <2> QED
    BY <1>1, <2>1 DEF Points
<1>6. CallOK(new) /\ Within(new, Len(placements), Len(runtimes'), Len(logical))
  BY <1>0, <1>1, <1>2, <1>3, <1>4, <1>5 DEF CallOK, Within
<1> QED
  BY <1>1, <1>6 DEF new, Keeps, Unheard

LEMMA Lens ==
  ASSUME DataTyped
  PROVE  /\ Len(runtimes) \in Nat /\ Len(placements) \in Nat /\ Len(logical) \in Nat
         /\ DOMAIN runtimes = 1 .. Len(runtimes) /\ DOMAIN placements = 1 .. Len(placements)
         /\ DOMAIN logical = 1 .. Len(logical)
         /\ \A n \in 1 .. Len(placements) : placements[n] \in PlacementType
         /\ \A k \in 1 .. Len(logical) : logical[k] \subseteq Nat
BY DEF DataTyped, RuntimesTyped, PlacementsTyped, ShapesTyped

LEMMA NamesWithin ==
  ASSUME NEW call, NEW op \in Ops, NEW ps, NEW rs, NEW ls, StageOK(call, op), Points(call, ps, rs, ls)
  PROVE  /\ Names(call, op) \subseteq 1 .. ps
         /\ Names(call, op) \subseteq Range(call.held) \cup call.todo \cup {call.source}
<1>1. CASE op = "exportBREP"
  BY <1>1 DEF Names, StageOK, Points
<1>2. CASE op = "op"
  <2> DEFINE S == 1 .. ps
  <2>1. call.held \in Seq(S)
    BY DEF Points
  <2> HIDE DEF S
  <2>2. \A i \in DOMAIN call.held : call.held[i] \in S
    BY <2>1
  <2> QED
    BY <1>2, <2>2 DEF Names, Range, S
<1>3. CASE op = "release"
  <2>1. call.todo # {} /\ call.todo \in SUBSET Nat /\ call.todo \subseteq 1 .. ps
    BY <1>3 DEF StageOK, Points
  <2>2. First(call) \in call.todo
    BY <2>1, LeastExists DEF First
  <2> QED
    BY <1>3, <2>1, <2>2 DEF Names
<1>4. CASE op \notin {"exportBREP", "op", "release"}
  BY <1>4 DEF Names
<1> QED
  BY <1>1, <1>2, <1>3, <1>4

LEMMA NamesAre ==
  ASSUME DataTyped, NEW call, NEW op \in Ops, StageOK(call, op),
         Points(call, Len(placements), Len(runtimes), Len(logical))
  PROVE  {placements[n].handle : n \in Names(call, op)} \subseteq Nat
<1>1. Names(call, op) \subseteq 1 .. Len(placements)
  BY NamesWithin
<1>2. \A n \in 1 .. Len(placements) : placements[n].handle \in Nat
  BY Lens DEF PlacementType
<1> QED
  BY <1>1, <1>2

LEMMA AskIs ==
  ASSUME DataTyped, NEW c \in Call, NEW call \in CallType, NEW op \in Ops, StageOK(call, op),
         Points(call, Len(placements), Len(runtimes), Len(logical)),
         NEW r \in 1 .. Len(runtimes), Ask(c, call, r, op)
  PROVE  \E new : Leads(c, call, new) /\ (runtimes' = runtimes \/ AsksFor(c, new))
<1> DEFINE up == runtimes[r].state = "up"
           reply == IF up THEN "none" ELSE "error"
           new == [call EXCEPT !.at = op, !.rt = r, !.reply = reply]
           q == Question(c, op, {placements[n].handle : n \in Names(call, op)}, call.scope)
<1>1. /\ calls' = [calls EXCEPT ![c] = new]
      /\ ~up => runtimes' = runtimes
      /\ up => runtimes' = [runtimes EXCEPT ![r].queue = Append(@, q)]
  BY DEF Ask
<1>2. q \in Questions /\ q.call = c /\ q.op = op
  <2>1. call.scope \in Nat
    BY DEF CallType
  <2> QED
    BY <2>1, NamesAre DEF Question, Questions
<1> DEFINE nw == Asking(call, op, call.next, r, reply)
<1>3. call.next \in Ops \cup {"none"} /\ new = nw
  BY DEF CallType, Asking
<1>4. op # "start" /\ op # "releaseAll" /\ op \in Ops \cup {"start"}
  BY DEF Ops
<1>5. reply \in {"none", "error"} /\ (up => reply = "none")
  OBVIOUS
<1>6. r \in Nat /\ r \in 1 .. Len(runtimes)
  OBVIOUS
<1> HIDE DEF reply, new, q, up
<1>7. Len(runtimes') = Len(runtimes)
  BY <1>1 DEF DataTyped, RuntimesTyped
<1>8. Keeps(call, nw) /\ nw.at = op /\ nw.reply = reply /\ nw.rt = r
  <2>1. Points(call, Len(placements), Len(runtimes'), Len(logical)) /\ r \in 1 .. Len(runtimes')
    BY <1>6, <1>7
  <2>2. call.next \in Ops \cup {"none"} /\ reply \in {"none", "error"} /\ (op = "start" => call.next = op)
    BY <1>3, <1>4, <1>5
  <2> HIDE DEF nw
  <2>3. Keeps(call, Asking(call, op, call.next, r, reply))
    BY <1>6, <2>1, <2>2, Waits
  <2>4. nw.at = op /\ nw.reply = reply /\ nw.rt = r
    BY DEF nw, Asking, CallType
  <2> QED
    BY <2>3, <2>4 DEF nw
<1>9. Leads(c, call, new) /\ new.at = op /\ new.reply = reply /\ new.rt = r
  BY <1>1, <1>3, <1>8 DEF Leads
<1>10. q.handles = {placements[n].handle : n \in Names(new, new.at)}
  <2>1. nw.held = call.held /\ nw.source = call.source /\ nw.todo = call.todo
    BY DEF Asking, CallType
  <2> HIDE DEF nw
  <2>2. Names(new, new.at) = Names(call, op)
    BY <1>3, <1>9, <2>1 DEF Names, First
  <2> QED
    BY <2>2 DEF q, Question
<1>11. runtimes' = runtimes \/ AsksFor(c, new)
  <2>1. ASSUME up
        PROVE  AsksFor(c, new)
    BY <1>1, <1>2, <1>4, <1>5, <1>9, <1>10, <2>1 DEF AsksFor, up
  <2> QED
    BY <1>1, <2>1
<1> QED
  BY <1>9, <1>11

LEMMA ReachIs ==
  ASSUME DataTyped, NEW c \in Call, NEW call \in CallType, NEW op \in Ops, StageOK(call, op),
         Points(call, Len(placements), Len(runtimes), Len(logical)),
         NEW p \in Profile, NEW P, NEW s, s = Seen(P).profiles, Reach(c, call, s, p, op)
  PROVE  \E new : Leads(c, call, new) /\ RunTurn(c, new, P)
<1>1. /\ s \in [Profile -> ProfileType]
      /\ s[p].runtime \in 0 .. Len(runtimes) /\ s[p].starting \in 0 .. Len(runtimes)
  BY SeenIs DEF DataTyped, ProfilesTyped
<1>2. CASE s[p].runtime # 0
  <2>1. Ask(c, call, s[p].runtime, op) /\ profiles' = s
    BY <1>2 DEF Reach
  <2>2. s[p].runtime \in 1 .. Len(runtimes)
    BY <1>1, <1>2
  <2>3. PICK new : Leads(c, call, new) /\ (runtimes' = runtimes \/ AsksFor(c, new))
    BY <2>1, <2>2, AskIs
  <2> QED
    BY <2>1, <2>3 DEF RunTurn
<1>3. CASE s[p].runtime = 0
  <2> DEFINE r == IF s[p].starting # 0 THEN s[p].starting ELSE Len(runtimes) + 1
             new == [call EXCEPT !.at = "start", !.next = op, !.reply = "none", !.rt = r]
  <2>1. /\ calls' = [calls EXCEPT ![c] = new]
        /\ s[p].starting # 0 => runtimes' = runtimes /\ profiles' = s
        /\ s[p].starting = 0 => /\ runtimes' = Append(runtimes, NewRuntime(p, s[p].epoch))
                                /\ profiles' = [s EXCEPT ![p].starting = Len(runtimes) + 1]
    BY <1>3 DEF Reach
  <2>2. Len(runtimes) \in Nat /\ runtimes \in Seq(RuntimeType)
    BY DEF DataTyped, RuntimesTyped
  <2>3. /\ s[p].starting = 0 => Len(runtimes') = Len(runtimes) + 1
        /\ s[p].starting # 0 => Len(runtimes') = Len(runtimes)
    BY <2>1, <2>2
  <2>4. /\ r \in Nat \ {0} /\ r <= Len(runtimes') /\ Len(runtimes') \in Nat /\ Len(runtimes) <= Len(runtimes')
    BY <1>1, <2>2, <2>3
  <2> DEFINE nw == Asking(call, "start", op, r, "none")
  <2>5. new = nw
    BY DEF CallType, Asking
  <2>6. RunTurn(c, new, P)
    <3>1. CASE s[p].starting # 0
      BY <2>1, <3>1 DEF RunTurn
    <3>2. CASE s[p].starting = 0
      BY <1>3, <2>1, <3>2 DEF RunTurn, StartsFor
    <3> QED
      BY <3>1, <3>2
  <2> HIDE DEF r, new
  <2>7. Points(call, Len(placements), Len(runtimes'), Len(logical))
    BY <2>2, <2>4, Lens, PointsMore
  <2>10. r \in 1 .. Len(runtimes') /\ r \in Nat
    BY <2>4
  <2>8. Keeps(call, nw)
    BY <2>7, <2>10, Waits
  <2>9. Leads(c, call, new)
    BY <2>1, <2>5, <2>8 DEF Leads
  <2> QED
    BY <2>6, <2>9
<1> QED
  BY <1>2, <1>3

-----------------------------------------------------------------------------
(* Placements.                                                             *)

\* The same placement, whatever its state and its leases.
Alike(x, y) ==
  /\ x \in PlacementType /\ y \in PlacementType
  /\ y.profile = x.profile /\ y.epoch = x.epoch /\ y.origin = x.origin /\ y.shape = x.shape
  /\ y.handle = x.handle

LEMMA SeenAlike ==
  ASSUME DataTyped, NEW P, NEW n \in 1 .. Len(placements)
  PROVE  /\ Alike(placements[n], Seen(P).placements[n])
         /\ Seen(P).placements[n].leaseCount = placements[n].leaseCount
         /\ Seen(P).placements[n].state =
              IF Lost(placements[n].profile, P) /\ Kept(n) THEN "invalid" ELSE placements[n].state
<1> DEFINE x == placements[n]
           y == Seen(P).placements[n]
           z == [x EXCEPT !.state = "invalid"]
           b == Lost(x.profile, P) /\ Kept(n)
<1>1. x \in PlacementType /\ y = IF b THEN z ELSE x
  BY SeenIs
<1>2. /\ z \in PlacementType /\ z.state = "invalid"
      /\ z.profile = x.profile /\ z.epoch = x.epoch /\ z.origin = x.origin /\ z.shape = x.shape
      /\ z.handle = x.handle
      /\ z.leaseCount = x.leaseCount
  BY <1>1, Invalid
<1> HIDE DEF x, y, z
<1>3. CASE b
  <2>1. y = z
    BY <1>1, <1>3
  <2>2. Alike(x, y) /\ y.leaseCount = x.leaseCount /\ y.state = "invalid"
    BY ONLY <1>1, <1>2, <2>1 DEF Alike
  <2> QED
    BY <1>3, <2>2 DEF x, y
<1>4. CASE ~b
  <2>1. y = x
    BY <1>1, <1>4
  <2>2. Alike(x, y) /\ y.leaseCount = x.leaseCount /\ y.state = x.state
    BY ONLY <1>1, <2>1 DEF Alike
  <2> QED
    BY <1>4, <2>2 DEF x, y
<1> QED
  BY <1>3, <1>4

LEMMA LeasedOne ==
  ASSUME NEW x \in PlacementType, NEW t \in Int
  PROVE  LET y == [x EXCEPT !.leaseCount = @ + t] IN
         Alike(x, y) /\ y.leaseCount = x.leaseCount + t /\ y.state = x.state
<1> DEFINE k == x.leaseCount + t
           y == [x EXCEPT !.leaseCount = k]
<1>1. k \in Int
  BY DEF PlacementType
<1> HIDE DEF k
<1>2. /\ y \in PlacementType
      /\ y.profile = x.profile /\ y.epoch = x.epoch /\ y.origin = x.origin /\ y.shape = x.shape
      /\ y.handle = x.handle
      /\ y.leaseCount = k /\ y.state = x.state
  BY <1>1 DEF PlacementType
<1> QED
  BY <1>2 DEF k, Alike

LEMMA LeasedIs ==
  ASSUME NEW ps \in Seq(PlacementType), NEW ns \in Seq(Nat), NEW d \in {1, -1}
  PROVE  /\ Leased(ps, ns, d) \in Seq(PlacementType) /\ Len(Leased(ps, ns, d)) = Len(ps)
         /\ \A n \in 1 .. Len(ps) :
              /\ Alike(ps[n], Leased(ps, ns, d)[n])
              /\ Leased(ps, ns, d)[n].leaseCount = ps[n].leaseCount + d * Times(n, ns)
              /\ Leased(ps, ns, d)[n].state = ps[n].state
<1> DEFINE L == Leased(ps, ns, d)
           y(n) == [ps[n] EXCEPT !.leaseCount = @ + d * Times(n, ns)]
<1>1. DOMAIN ps = 1 .. Len(ps) /\ Len(ps) \in Nat /\ \A n \in 1 .. Len(ps) : ps[n] \in PlacementType
  OBVIOUS
<1>2. ASSUME NEW n \in 1 .. Len(ps)
      PROVE  Alike(ps[n], y(n)) /\ y(n).leaseCount = ps[n].leaseCount + d * Times(n, ns) /\ y(n).state = ps[n].state
  <2>1. Times(n, ns) \in Nat
    BY TimesIs
  <2>2. d * Times(n, ns) \in Int
    BY <2>1
  <2> QED
    BY <1>1, <2>2, LeasedOne
<1>3. L = [n \in 1 .. Len(ps) |-> y(n)]
  BY <1>1 DEF Leased
<1>4. \A n \in 1 .. Len(ps) : y(n) \in PlacementType
  BY <1>2 DEF Alike
<1> HIDE DEF L, y
<1>5. L \in Seq(PlacementType) /\ Len(L) = Len(ps) /\ \A n \in 1 .. Len(ps) : L[n] = y(n)
  BY ONLY <1>1, <1>3, <1>4
<1> QED
  BY <1>2, <1>5 DEF L

LEMMA LeasesBack ==
  ASSUME NEW ps \in Seq(PlacementType), NEW ns \in Seq(Nat)
  PROVE  /\ Leased(ps, ns, -1) \in Seq(PlacementType) /\ Len(Leased(ps, ns, -1)) = Len(ps)
         /\ \A n \in 1 .. Len(ps) :
              /\ Alike(ps[n], Leased(ps, ns, -1)[n])
              /\ Leased(ps, ns, -1)[n].leaseCount = ps[n].leaseCount - Times(n, ns)
              /\ Leased(ps, ns, -1)[n].state = ps[n].state
<1>1. -1 \in {1, -1} /\ \A n : Times(n, ns) \in Nat
  BY TimesIs
<1>2. /\ Leased(ps, ns, -1) \in Seq(PlacementType) /\ Len(Leased(ps, ns, -1)) = Len(ps)
      /\ \A n \in 1 .. Len(ps) :
           /\ Alike(ps[n], Leased(ps, ns, -1)[n])
           /\ Leased(ps, ns, -1)[n].leaseCount = ps[n].leaseCount + (-1) * Times(n, ns)
           /\ Leased(ps, ns, -1)[n].state = ps[n].state
  BY <1>1, LeasedIs
<1>3. \A n \in 1 .. Len(ps) : ps[n].leaseCount \in Int
  BY <1>2 DEF Alike, PlacementType
<1>4. \A n \in 1 .. Len(ps) : ps[n].leaseCount + (-1) * Times(n, ns) = ps[n].leaseCount - Times(n, ns)
  BY ONLY <1>1, <1>3
<1> QED
  BY ONLY <1>2, <1>4

\* The source of a transfer that begins, and of one that is over.
LEMMA LentIs ==
  ASSUME NEW ps \in Seq(PlacementType), NEW n \in 1 .. Len(ps)
  PROVE  /\ Lent(ps, n) \in Seq(PlacementType) /\ Len(Lent(ps, n)) = Len(ps)
         /\ Alike(ps[n], Lent(ps, n)[n]) /\ Lent(ps, n)[n].leaseCount = ps[n].leaseCount + 1
         /\ Lent(ps, n)[n].state = "transferring"
         /\ \A m \in 1 .. Len(ps) : m # n => Lent(ps, n)[m] = ps[m]
<1> DEFINE x == ps[n]
           t == x.leaseCount + 1
           y == [x EXCEPT !.state = "transferring", !.leaseCount = t]
<1>1. x \in PlacementType
  OBVIOUS
<1>2. t \in Int
  BY <1>1 DEF PlacementType
<1>3. Lent(ps, n) = [ps EXCEPT ![n] = y]
  BY DEF Lent
<1> HIDE DEF x, t
<1>4. /\ y \in PlacementType /\ y.profile = x.profile /\ y.epoch = x.epoch /\ y.origin = x.origin /\ y.shape = x.shape
      /\ y.handle = x.handle
      /\ y.leaseCount = t /\ y.state = "transferring"
  BY ONLY <1>1, <1>2 DEF PlacementType
<1> HIDE DEF y
<1>5. Alike(x, y)
  BY ONLY <1>1, <1>4 DEF Alike
<1> DEFINE L == Lent(ps, n)
<1>6. L \in Seq(PlacementType) /\ Len(L) = Len(ps) /\ L[n] = y /\ \A m \in 1 .. Len(ps) : m # n => L[m] = ps[m]
  BY <1>3, <1>4
<1> HIDE DEF L
<1> QED
  BY <1>4, <1>5, <1>6 DEF L, x, t

LEMMA GivenBackIs ==
  ASSUME NEW ps \in Seq(PlacementType), NEW n \in 1 .. Len(ps), NEW current \in BOOLEAN
  PROVE  LET L == GivenBack(ps, n, current) IN
         /\ L \in Seq(PlacementType) /\ Len(L) = Len(ps)
         /\ Alike(ps[n], L[n]) /\ L[n].leaseCount = ps[n].leaseCount - 1
         /\ L[n].state = "invalid" <=> ps[n].state = "invalid"
         /\ L[n].state = "transferring" => ps[n].state = "transferring" /\ ~current
         /\ \A m \in 1 .. Len(ps) : m # n => L[m] = ps[m]
<1> DEFINE x == ps[n]
           t == x.leaseCount - 1
           st == IF x.state = "transferring" /\ current THEN "live" ELSE x.state
           y == [x EXCEPT !.leaseCount = t, !.state = st]
           L == GivenBack(ps, n, current)
<1>1. x \in PlacementType
  OBVIOUS
<1>2. t \in Int /\ st \in {"live", "transferring", "invalid"}
  <2>1. x.leaseCount \in Int /\ x.state \in {"live", "transferring", "invalid"}
    BY <1>1 DEF PlacementType
  <2> HIDE DEF x
  <2> QED
    BY <2>1
<1>3. L = [ps EXCEPT ![n] = y]
  <2>1. \A s : [x EXCEPT !.leaseCount = t, !.state = s] = [[x EXCEPT !.leaseCount = t] EXCEPT !.state = s]
    OBVIOUS
  <2>2. [x EXCEPT !.leaseCount = t].state = x.state
    BY <1>1 DEF PlacementType
  <2> QED
    BY <2>2 DEF GivenBack
<1>4. /\ st = "invalid" <=> x.state = "invalid"
      /\ st = "transferring" => x.state = "transferring" /\ ~current
  OBVIOUS
<1> HIDE DEF x, t, st
<1>5. /\ y \in PlacementType /\ y.profile = x.profile /\ y.epoch = x.epoch /\ y.origin = x.origin /\ y.shape = x.shape
      /\ y.handle = x.handle
      /\ y.leaseCount = t /\ y.state = st
  BY ONLY <1>1, <1>2 DEF PlacementType
<1> HIDE DEF y, L
<1>6. Alike(x, y)
  BY ONLY <1>1, <1>5 DEF Alike
<1>7. L \in Seq(PlacementType) /\ Len(L) = Len(ps) /\ L[n] = y /\ \A m \in 1 .. Len(ps) : m # n => L[m] = ps[m]
  BY <1>3, <1>5
<1>8. /\ L \in Seq(PlacementType) /\ Len(L) = Len(ps)
      /\ Alike(x, L[n]) /\ L[n].leaseCount = t /\ L[n].state = st
      /\ \A m \in 1 .. Len(ps) : m # n => L[m] = ps[m]
  BY ONLY <1>5, <1>6, <1>7
<1> QED
  BY <1>4, <1>8 DEF L, x, t

LEMMA SourceBackIs ==
  ASSUME DataTyped, EpochsCurrent, NEW n \in 0 .. Len(placements), NEW P,
         n # 0 /\ placements[n].state = "transferring" => placements[n].profile \in P
  PROVE  LET L == SourceBack(Seen(P), n) IN
         /\ L \in Seq(PlacementType) /\ Len(L) = Len(placements)
         /\ \A m \in 1 .. Len(placements) :
              /\ Alike(placements[m], L[m])
              /\ L[m].leaseCount = placements[m].leaseCount - IF m = n THEN 1 ELSE 0
              /\ L[m].state # "invalid" /\ Kept(m)
                   => placements[m].state # "invalid" /\ ~Lost(placements[m].profile, P)
              /\ L[m].state = "transferring" /\ Kept(m) /\ phase = "open"
                   => placements[m].state = "transferring" /\ m # n
<1> DEFINE e == Seen(P)
           L == SourceBack(Seen(P), n)
           current == e.profiles[placements[n].profile].epoch = placements[n].epoch
<1>1. e.placements \in Seq(PlacementType) /\ Len(e.placements) = Len(placements)
  BY SeenIs
<1>2. \A m \in 1 .. Len(placements) :
        /\ Alike(placements[m], e.placements[m])
        /\ e.placements[m].leaseCount = placements[m].leaseCount
        /\ e.placements[m].state =
              IF Lost(placements[m].profile, P) /\ Kept(m) THEN "invalid" ELSE placements[m].state
  BY SeenAlike
<1>3. n = 0 => L = e.placements
  BY DEF SourceBack
<1>4. ASSUME n # 0
      PROVE  /\ L \in Seq(PlacementType) /\ Len(L) = Len(e.placements)
             /\ Alike(e.placements[n], L[n]) /\ L[n].leaseCount = e.placements[n].leaseCount - 1
             /\ L[n].state = "invalid" <=> e.placements[n].state = "invalid"
             /\ L[n].state = "transferring" => e.placements[n].state = "transferring" /\ ~current
             /\ \A m \in 1 .. Len(e.placements) : m # n => L[m] = e.placements[m]
  <2>1. L = GivenBack(e.placements, n, current) /\ current \in BOOLEAN
    BY <1>4 DEF SourceBack
  <2>2. n \in 1 .. Len(e.placements)
    BY <1>1, <1>4
  <2> HIDE DEF L, e, current
  <2> DEFINE G == GivenBack(e.placements, n, current)
  <2>3. /\ G \in Seq(PlacementType) /\ Len(G) = Len(e.placements)
        /\ Alike(e.placements[n], G[n]) /\ G[n].leaseCount = e.placements[n].leaseCount - 1
        /\ G[n].state = "invalid" <=> e.placements[n].state = "invalid"
        /\ G[n].state = "transferring" => e.placements[n].state = "transferring" /\ ~current
        /\ \A m \in 1 .. Len(e.placements) : m # n => G[m] = e.placements[m]
    BY ONLY <1>1, <2>1, <2>2, GivenBackIs
  <2> HIDE DEF G
  <2>4. L = G
    BY <2>1 DEF G
  <2> QED
    BY ONLY <2>3, <2>4
<1>5. n # 0 /\ Kept(n) /\ phase = "open" /\ e.placements[n].state = "transferring" => current
  <2> SUFFICES ASSUME n # 0, Kept(n), phase = "open", e.placements[n].state = "transferring"
               PROVE  current
    OBVIOUS
  <2>1. placements[n].state = "transferring" /\ ~Lost(placements[n].profile, P) /\ placements[n] \in PlacementType
    BY <1>2 DEF Alike
  <2>2. placements[n].epoch = profiles[placements[n].profile].epoch /\ placements[n].profile \in Profile
    BY <2>1 DEF EpochsCurrent, PlacementType
  <2> QED
    BY <2>1, <2>2, SeenIs
<1> HIDE DEF e, L, current
<1>6. L \in Seq(PlacementType) /\ Len(L) = Len(placements)
  BY <1>1, <1>3, <1>4
<1>7. ASSUME NEW m \in 1 .. Len(placements)
      PROVE  /\ Alike(placements[m], L[m])
             /\ L[m].leaseCount = placements[m].leaseCount - IF m = n THEN 1 ELSE 0
             /\ L[m].state # "invalid" /\ Kept(m)
                   => placements[m].state # "invalid" /\ ~Lost(placements[m].profile, P)
             /\ L[m].state = "transferring" /\ Kept(m) /\ phase = "open"
                   => placements[m].state = "transferring" /\ m # n
  <2>1. CASE m # n
    <3>1. L[m] = e.placements[m]
      BY <1>1, <1>3, <1>4, <2>1
    <3>2. placements[m].leaseCount \in Int
      BY <1>2 DEF Alike, PlacementType
    <3> QED
      BY <1>2, <2>1, <3>1, <3>2
  <2>2. CASE m = n
    <3>1. n # 0 /\ placements[m].leaseCount \in Int
      BY <1>2, <2>2 DEF Alike, PlacementType
    <3>2. Alike(placements[m], L[m])
      BY <1>2, <1>4, <2>2, <3>1 DEF Alike
    <3>3. L[m].leaseCount = placements[m].leaseCount - 1
      BY <1>2, <1>4, <2>2, <3>1
    <3>4. /\ L[m].state # "invalid" /\ Kept(m)
                   => placements[m].state # "invalid" /\ ~Lost(placements[m].profile, P)
          /\ ~(L[m].state = "transferring" /\ Kept(m) /\ phase = "open")
      BY <1>2, <1>4, <1>5, <2>2, <3>1
    <3> QED
      BY <2>2, <3>2, <3>3, <3>4
  <2> QED
    BY <2>1, <2>2
<1> QED
  BY <1>6, <1>7 DEF L

\* What a step without new placements does to one: enough for a turn.
Moves(c, new, P, n) ==
  LET x == placements[n]
      y == placements'[n]
  IN /\ Alike(x, y)
     /\ y.state # "invalid" /\ Kept(n) => x.state # "invalid" /\ ~Lost(x.profile, P)
     /\ y.state = "transferring" /\ Kept(n) /\ phase = "open" =>
          new.source = n \/ (x.state = "transferring" /\ calls[c].source # n)
     /\ y.leaseCount = x.leaseCount - Cardinality(LeasedBy(calls[c], n)) + Cardinality(LeasedBy(new, n))

LEMMA Steady ==
  ASSUME DataTyped, NEW c \in Call, NEW new, NEW P,
         placements' \in Seq(PlacementType), Len(placements') = Len(placements),
         logical' \in Seq(SUBSET Nat), Len(logical') = Len(logical),
         \A k \in 1 .. Len(logical) : logical'[k] \subseteq logical[k],
         shapes' \subseteq shapes, phase' = phase,
         \A n \in 1 .. Len(placements) : Moves(c, new, P, n)
  PROVE  PlaceTurn(c, new, P)
<1>1. /\ \A n \in 1 .. Len(placements) : placements[n].shape \in 1 .. Len(logical)
      /\ \A k \in 1 .. Len(logical) : logical[k] \subseteq 1 .. Len(placements)
      /\ shapes \subseteq 1 .. Len(logical) /\ phase \in {"open", "closing", "closed"}
  BY DEF DataTyped, PlacementsTyped, ShapesTyped
<1>2. ASSUME NEW n \in 1 .. Len(placements)
      PROVE  placements'[n].shape = placements[n].shape /\ (Kept(n)' => Kept(n))
  <2>1. placements'[n].shape = placements[n].shape
    BY DEF Moves, Alike
  <2> QED
    BY <1>1, <2>1 DEF Kept
<1>3. PlacementsTyped' /\ ShapesTyped'
  BY <1>1, <1>2 DEF PlacementsTyped, ShapesTyped
<1>4. Len(placements) \in Nat /\ Len(logical) \in Nat
  BY Lens
<1>5. ASSUME NEW n \in 1 .. Len(placements)
      PROVE  LET x == placements[n]
                 y == placements'[n]
             IN /\ y.profile = x.profile /\ y.epoch = x.epoch /\ y.origin = x.origin /\ y.handle = x.handle
                /\ Kept(n)' => Kept(n)
                /\ y.state # "invalid" /\ Kept(n) => x.state # "invalid" /\ ~Lost(x.profile, P)
                /\ y.state = "transferring" /\ Kept(n)' /\ phase = "open" =>
                     new.source = n \/ (x.state = "transferring" /\ calls[c].source # n)
                /\ y.leaseCount = x.leaseCount - Cardinality(LeasedBy(calls[c], n))
                                    + Cardinality(LeasedBy(new, n))
  <2>1. Moves(c, new, P, n) /\ (Kept(n)' => Kept(n))
    BY <1>2
  <2> QED
    BY <2>1, Zenon DEF Moves, Alike
<1>6. Len(placements) + 1 .. Len(placements') = {}
  BY <1>4
<1> QED
  BY <1>3, <1>4, <1>5, <1>6 DEF PlaceTurn

-----------------------------------------------------------------------------
(* Kinds of turns.                                                         *)

\* Profiles are looked at; shapes and placements in their maps may go.
Looks(P) ==
  /\ placements' = Seen(P).placements /\ phase' = phase
  /\ logical' \in Seq(SUBSET Nat) /\ Len(logical') = Len(logical)
  /\ \A k \in 1 .. Len(logical) : logical'[k] \subseteq logical[k]
  /\ shapes' \subseteq shapes

\* call can ask op, with the leases that c has.
Ready(c, call, op) ==
  /\ call \in CallType /\ op \in Ops /\ StageOK(call, op)
  /\ Points(call, Len(placements), Len(runtimes), Len(logical))
  /\ call.held = calls[c].held /\ call.source = calls[c].source

LEMMA CallIs ==
  ASSUME EngineInv, NEW c \in Call
  PROVE  /\ DataTyped /\ calls \in [Call -> CallType] /\ calls[c] \in CallType
         /\ CallOK(calls[c]) /\ StageOK(calls[c], Stage(calls[c])) /\ ReplyOK(calls[c])
         /\ Within(calls[c], Len(placements), Len(runtimes), Len(logical))
         /\ Points(calls[c], Len(placements), Len(runtimes), Len(logical))
         /\ calls[c].held \in Seq(Nat)
<1>1. DataTyped /\ CallsTyped
  BY DEF EngineInv
<1>2. calls \in [Call -> CallType] /\ calls[c] \in CallType /\ CallOK(calls[c])
      /\ Within(calls[c], Len(placements), Len(runtimes), Len(logical))
  BY <1>1 DEF CallsTyped
<1>3. calls[c].held \in Seq(Nat)
  BY <1>2 DEF CallType
<1> QED
  BY <1>1, <1>2, <1>3 DEF CallOK, Within

LEMMA LeasesAre ==
  ASSUME NEW call, call.held \in Seq(Nat), NEW n
  PROVE  /\ Cardinality(LeasedBy(call, n)) \in Nat /\ Times(n, call.held) \in Nat
         /\ Cardinality(LeasedBy(call, n)) = Times(n, call.held) + IF call.source = n THEN 1 ELSE 0
<1>1. Times(n, call.held) \in Nat
  BY TimesIs
<1>2. Cardinality(LeasedBy(call, n)) = Times(n, call.held) + IF call.source = n THEN 1 ELSE 0
  BY LeasedTimes
<1> QED
  BY <1>1, <1>2

LEMMA SameLeases ==
  ASSUME NEW call, NEW new, new.held = call.held, new.source = call.source, NEW n
  PROVE  LeasedBy(new, n) = LeasedBy(call, n)
BY DEF LeasedBy

LEMMA LooksTurn ==
  ASSUME EngineInv, NEW c \in Call, Free(c), NEW P, Looks(P), NEW op, NEW call, Ready(c, call, op),
         NEW new, Leads(c, call, new), RunTurn(c, new, P)
  PROVE  Turn(c, new, P)
<1>1. DataTyped /\ calls[c].held \in Seq(Nat)
  BY CallIs
<1>2. new.held = calls[c].held /\ new.source = calls[c].source
  BY DEF Leads, Keeps, Ready
<1>3. /\ placements' = Seen(P).placements
      /\ Seen(P).placements \in Seq(PlacementType) /\ Len(Seen(P).placements) = Len(placements)
  BY <1>1, SeenIs DEF Looks
<1>4. ASSUME NEW n \in 1 .. Len(placements)
      PROVE  Moves(c, new, P, n)
  <2>1. /\ Alike(placements[n], placements'[n])
        /\ placements'[n].leaseCount = placements[n].leaseCount
        /\ placements'[n].state =
             IF Lost(placements[n].profile, P) /\ Kept(n) THEN "invalid" ELSE placements[n].state
    BY <1>1, <1>3, SeenAlike
  <2>2. LeasedBy(new, n) = LeasedBy(calls[c], n)
    BY <1>2, SameLeases
  <2>3. Cardinality(LeasedBy(calls[c], n)) \in Nat
    BY <1>1, LeasesAre
  <2>4. placements[n].leaseCount \in Int
    BY <2>1 DEF Alike, PlacementType
  <2>5. placements'[n].leaseCount = placements[n].leaseCount - Cardinality(LeasedBy(calls[c], n))
                                      + Cardinality(LeasedBy(new, n))
    BY ONLY <2>1, <2>2, <2>3, <2>4
  <2> QED
    BY <1>2, <2>1, <2>5 DEF Moves
<1>5. PlaceTurn(c, new, P)
  BY <1>1, <1>3, <1>4, Steady DEF Looks
<1>6. Len(placements') = Len(placements) /\ Len(logical') = Len(logical)
  BY <1>3 DEF Looks
<1> QED
  BY <1>5, <1>6 DEF Turn, Leads, Keeps, Looks

LEMMA AskTurn ==
  ASSUME EngineInv, NEW c \in Call, Free(c), NEW P, Looks(P), profiles' = Seen(P).profiles,
         NEW op, NEW call, Ready(c, call, op), NEW r \in 1 .. Len(runtimes), Ask(c, call, r, op)
  PROVE  \E new : Turn(c, new, P)
<1>1. DataTyped
  BY CallIs
<1>2. call \in CallType /\ op \in Ops /\ StageOK(call, op)
      /\ Points(call, Len(placements), Len(runtimes), Len(logical))
  BY DEF Ready
<1>3. PICK new : Leads(c, call, new) /\ (runtimes' = runtimes \/ AsksFor(c, new))
  BY <1>1, <1>2, AskIs
<1>4. RunTurn(c, new, P)
  BY <1>3 DEF RunTurn
<1> QED
  BY <1>3, <1>4, LooksTurn

LEMMA ReachTurn ==
  ASSUME EngineInv, NEW c \in Call, Free(c), NEW P, Looks(P),
         NEW op, NEW call, Ready(c, call, op), NEW p \in Profile, Reach(c, call, Seen(P).profiles, p, op)
  PROVE  \E new : Turn(c, new, P)
<1>1. DataTyped
  BY CallIs
<1>2. call \in CallType /\ op \in Ops /\ StageOK(call, op)
      /\ Points(call, Len(placements), Len(runtimes), Len(logical))
  BY DEF Ready
<1>3. PICK new : Leads(c, call, new) /\ RunTurn(c, new, P)
  BY <1>1, <1>2, ReachIs
<1> QED
  BY <1>3, LooksTurn

\* What no call has yet, or no more.
LEMMA EndedIs ==
  ASSUME NEW outcome \in {"done", "failed"}, NEW ps \in Nat, NEW rs \in Nat, NEW ls \in Nat
  PROVE  /\ Ended(outcome) \in CallType /\ CallOK(Ended(outcome)) /\ Within(Ended(outcome), ps, rs, ls)
         /\ Ended(outcome).held = <<>> /\ Ended(outcome).source = 0 /\ Ended(outcome).todo = {}
         /\ Unheard(Ended(outcome))
         /\ \A n \in Nat \ {0} : Cardinality(LeasedBy(Ended(outcome), n)) = 0
<1> DEFINE x == Ended(outcome)
<1>1. /\ x \in CallType /\ x.at = outcome /\ x.reply = "none" /\ x.source = 0 /\ x.held = <<>> /\ x.own = FALSE
      /\ x.todo = {} /\ x.refs = <<>> /\ x.rt = 0 /\ x.shape = 0 /\ x.rest = {} /\ x.i = 1
  <2>1. Unbegun \in CallType
    BY DEF Unbegun, CallType, Idle, AllKinds
  <2> QED
    BY <2>1 DEF Ended, Unbegun, CallType, Idle
<1> HIDE DEF x
<1>2. CallOK(x)
  BY <1>1 DEF CallOK, Stage, StageOK, ReplyOK, Idle, Ops
<1>3. Within(x, ps, rs, ls)
  BY <1>1 DEF Within, Points
<1>4. ASSUME NEW n \in Nat \ {0}
      PROVE  Cardinality(LeasedBy(x, n)) = 0
  <2>1. LeasedBy(x, n) = {}
    BY <1>1 DEF LeasedBy
  <2> QED
    BY <2>1, FS_EmptySet
<1> QED
  BY <1>1, <1>2, <1>3, <1>4 DEF x, Unheard

LEMMA FinallyTurn ==
  ASSUME EngineInv, NEW c \in Call, Free(c), NEW call, call.held = calls[c].held, call.source = calls[c].source,
         NEW P, NEW outcome \in {"done", "failed"}, Finally(c, call, P, outcome)
  PROVE  \E new, Q : Turn(c, new, Q)
<1> DEFINE n == call.source
           Q == P \cup IF n # 0 /\ placements[n].state = "transferring" THEN {placements[n].profile} ELSE {}
           L == SourceBack(Seen(Q), n)
           new == Ended(outcome)
<1>1. DataTyped /\ calls[c].held \in Seq(Nat) /\ call.held \in Seq(Nat)
      /\ n \in 0 .. Len(placements) /\ EpochsCurrent
  BY CallIs DEF Points, EngineInv
<1>2. /\ placements' = Leased(L, call.held, -1)
      /\ profiles' = Seen(Q).profiles
      /\ calls' = [calls EXCEPT ![c] = new]
      /\ UNCHANGED <<runtimes, logical, shapes, scopeRefs, phase, awaited, losses>>
  BY DEF Finally
<1>3. n # 0 /\ placements[n].state = "transferring" => placements[n].profile \in Q
  OBVIOUS
<1> HIDE DEF n, Q
<1>4. /\ L \in Seq(PlacementType) /\ Len(L) = Len(placements)
      /\ \A m \in 1 .. Len(placements) :
           /\ Alike(placements[m], L[m])
           /\ L[m].leaseCount = placements[m].leaseCount - IF m = n THEN 1 ELSE 0
           /\ L[m].state # "invalid" /\ Kept(m)
                => placements[m].state # "invalid" /\ ~Lost(placements[m].profile, Q)
           /\ L[m].state = "transferring" /\ Kept(m) /\ phase = "open"
                => placements[m].state = "transferring" /\ m # n
  BY <1>1, <1>3, SourceBackIs
<1> HIDE DEF L
<1>5. /\ placements' \in Seq(PlacementType) /\ Len(placements') = Len(placements)
      /\ \A m \in 1 .. Len(placements) :
           /\ Alike(L[m], placements'[m])
           /\ placements'[m].leaseCount = L[m].leaseCount - Times(m, call.held)
           /\ placements'[m].state = L[m].state
  <2> DEFINE B == Leased(L, call.held, -1)
  <2>1. /\ B \in Seq(PlacementType) /\ Len(B) = Len(L)
        /\ \A m \in 1 .. Len(L) :
             /\ Alike(L[m], B[m])
             /\ B[m].leaseCount = L[m].leaseCount - Times(m, call.held)
             /\ B[m].state = L[m].state
    BY <1>1, <1>4, LeasesBack
  <2>2. placements' = B
    BY <1>2
  <2> HIDE DEF B
  <2> QED
    BY ONLY <1>4, <2>1, <2>2
<1>6. new \in CallType /\ CallOK(new) /\ Within(new, Len(placements'), Len(runtimes'), Len(logical'))
      /\ new.held = <<>> /\ new.source = 0 /\ Unheard(new)
      /\ \A m \in Nat \ {0} : Cardinality(LeasedBy(new, m)) = 0
  BY <1>1, <1>2, <1>5, Lens, EndedIs
<1> HIDE DEF new
<1>7. ASSUME NEW m \in 1 .. Len(placements)
      PROVE  Moves(c, new, Q, m)
  <2>1. Alike(placements[m], placements'[m]) /\ placements[m].leaseCount \in Int
    <3>1. Alike(placements[m], L[m]) /\ Alike(L[m], placements'[m])
      BY <1>4, <1>5
    <3> QED
      BY ONLY <3>1 DEF Alike, PlacementType
  <2>2. placements'[m].leaseCount = placements[m].leaseCount - Cardinality(LeasedBy(calls[c], m))
                                      + Cardinality(LeasedBy(new, m))
    <3>1. /\ Cardinality(LeasedBy(calls[c], m)) = Times(m, call.held) + IF n = m THEN 1 ELSE 0
          /\ Times(m, call.held) \in Nat /\ Cardinality(LeasedBy(new, m)) = 0
      BY <1>1, <1>6, LeasesAre, SMTT(60) DEF n
    <3>2. placements'[m].leaseCount = (placements[m].leaseCount - IF m = n THEN 1 ELSE 0) - Times(m, call.held)
      BY <1>4, <1>5
    <3> QED
      BY ONLY <2>1, <3>1, <3>2
  <2>3. /\ placements'[m].state # "invalid" /\ Kept(m)
             => placements[m].state # "invalid" /\ ~Lost(placements[m].profile, Q)
        /\ placements'[m].state = "transferring" /\ Kept(m) /\ phase = "open"
             => placements[m].state = "transferring" /\ calls[c].source # m
    BY <1>4, <1>5 DEF n
  <2> QED
    BY <2>1, <2>2, <2>3 DEF Moves
<1>8. PlaceTurn(c, new, Q)
  <2>1. /\ logical' \in Seq(SUBSET Nat) /\ Len(logical') = Len(logical) /\ shapes' \subseteq shapes /\ phase' = phase
        /\ \A k \in 1 .. Len(logical) : logical'[k] \subseteq logical[k]
    BY <1>1, <1>2 DEF DataTyped, ShapesTyped
  <2> QED
    BY <1>1, <1>5, <1>7, <2>1, Steady
<1>9. RunTurn(c, new, Q) /\ phase' = phase
  BY <1>2 DEF RunTurn
<1>10. Turn(c, new, Q)
  BY <1>2, <1>6, <1>8, <1>9 DEF Turn
<1> QED
  BY <1>10

-----------------------------------------------------------------------------
(* The steps of calls are turns.                                           *)

LEMMA NotBegun ==
  ASSUME EngineInv, NEW c \in Call, NEW kind, Begins(c, kind)
  PROVE  Free(c) /\ calls[c].held = <<>> /\ calls[c].source = 0 /\ phase = "open"
<1>1. calls[c].at = "begin" /\ phase = "open"
  BY DEF Begins
<1>2. StageOK(calls[c], "begin")
  BY <1>1, CallIs DEF Stage
<1> QED
  BY <1>1, <1>2 DEF Free, StageOK, Idle

LEMMA UnbegunIs ==
  /\ Unbegun \in CallType /\ Unbegun.source = 0 /\ Unbegun.held = <<>> /\ Unbegun.own = FALSE
  /\ Unbegun.todo = {} /\ Unbegun.refs = <<>> /\ Unbegun.rt = 0 /\ Unbegun.shape = 0 /\ Unbegun.rest = {}
  /\ Unbegun.i = 1 /\ Unbegun.kind = "none" /\ Unbegun.value = <<>> /\ Unbegun.at = "begin"
BY DEF Unbegun, CallType, Idle, AllKinds

LEMMA UnchangedLooks ==
  ASSUME DataTyped, NEW P, placements' = Seen(P).placements, UNCHANGED <<logical, shapes, phase>>
  PROVE  Looks(P)
BY DEF Looks, DataTyped, ShapesTyped

\* A call that has nothing yet but the profile it is for.
Alone(call) ==
  /\ call \in CallType /\ call.target \in Profile /\ call.source = 0 /\ call.held = <<>> /\ call.todo = {}
  /\ call.refs = <<>> /\ call.rt = 0 /\ call.shape = 0 /\ call.rest = {} /\ call.i = 1

LEMMA AskedAlone ==
  ASSUME EngineInv, NEW c \in Call, calls[c].held = <<>>, calls[c].source = 0,
         NEW call, Alone(call), NEW op \in {"capabilities", "beginScope"}, call.own <=> op = "beginScope"
  PROVE  Ready(c, call, op)
<1>1. StageOK(call, op) /\ op \in Ops
  BY DEF StageOK, Idle, Alone, Ops
<1>2. Points(call, Len(placements), Len(runtimes), Len(logical))
  <2>1. DataTyped
    BY CallIs
  <2>2. Len(runtimes) \in Nat /\ Len(placements) \in Nat /\ Len(logical) \in Nat
    BY <2>1, Lens
  <2> QED
    BY ONLY <2>2, Alone(call) DEF Points, Alone
<1> QED
  BY <1>1, <1>2 DEF Ready, Alone

LEMMA EligibleIs ==
  ASSUME NEW c \in Call
  PROVE  /\ \A k \in 1 .. Len(Eligible[c]) : Eligible[c][k] \in Profile
         /\ Eligible[c] # <<>> /\ Len(Eligible[c]) \in Nat /\ Eligible[c] \in Seq(Profile)
         /\ Range(Eligible[c]) \subseteq Profile
<1>1. Eligible[c] \in Seq(Profile) /\ Eligible[c] # <<>>
  BY EngineAssumption
<1> QED
  BY <1>1 DEF Range

LEMMA CreateTurn ==
  ASSUME EngineInv, NEW c \in Call, Create(c)
  PROVE  \E new, P : Turn(c, new, P)
<1>1. PICK p \in Range(Eligible[c]) :
        /\ Reach(c, [Unbegun EXCEPT !.kind = "create", !.target = p, !.own = TRUE],
                 Seen({p}).profiles, p, "beginScope")
        /\ placements' = Seen({p}).placements
  BY DEF Create
<1>2. Begins(c, "create") /\ UNCHANGED <<logical, shapes, scopeRefs, phase, awaited, losses>>
  BY DEF Create
<1>3. p \in Profile
  BY EligibleIs
<1> DEFINE call == [Unbegun EXCEPT !.kind = "create", !.target = p, !.own = TRUE]
<1>7. Alone(call) /\ call.own
  BY <1>3, UnbegunIs DEF CallType, Alone, AllKinds
<1> HIDE DEF call
<1>4. Ready(c, call, "beginScope")
  BY <1>2, <1>7, NotBegun, AskedAlone
<1>5. Looks({p}) /\ Free(c)
  BY <1>1, <1>2, CallIs, NotBegun, UnchangedLooks
<1>6. Reach(c, call, Seen({p}).profiles, p, "beginScope")
  BY <1>1 DEF call
<1> QED
  BY <1>3, <1>4, <1>5, <1>6, ReachTurn

LEMMA ProbeProfileTurn ==
  ASSUME EngineInv, NEW c \in Call, ProbeProfile(c)
  PROVE  \E new, P : Turn(c, new, P)
<1>1. PICK p \in Profile :
        /\ Reach(c, [Unbegun EXCEPT !.kind = "probeProfile", !.target = p], Seen({p}).profiles, p, "capabilities")
        /\ placements' = Seen({p}).placements
  BY DEF ProbeProfile
<1>2. Begins(c, "probeProfile") /\ UNCHANGED <<logical, shapes, scopeRefs, phase, awaited, losses>>
  BY DEF ProbeProfile
<1> DEFINE call == [Unbegun EXCEPT !.kind = "probeProfile", !.target = p]
<1>3. Alone(call) /\ ~call.own
  BY UnbegunIs DEF CallType, Alone, AllKinds
<1> HIDE DEF call
<1>4. Ready(c, call, "capabilities")
  BY <1>2, <1>3, NotBegun, AskedAlone
<1>5. Looks({p}) /\ Free(c)
  BY <1>1, <1>2, CallIs, NotBegun, UnchangedLooks
<1>6. Reach(c, call, Seen({p}).profiles, p, "capabilities")
  BY <1>1 DEF call
<1> QED
  BY <1>4, <1>5, <1>6, ReachTurn

\* A call that goes on is in no queue.
LEMMA GoesOn ==
  ASSUME EngineInv, NEW c \in Call, NEW at, Goes(c, at)
  PROVE  /\ Free(c) /\ calls[c].at = at
         /\ calls[c].rt # 0 => calls[c].rt \in 1 .. Len(runtimes)
         /\ at # "start" => StageOK(calls[c], at)
<1>1. calls[c].at = at /\ calls[c].reply # "none"
  BY DEF Goes
<1>2. Points(calls[c], Len(placements), Len(runtimes), Len(logical)) /\ DataTyped
  BY CallIs
<1>3. calls[c].rt \in 0 .. Len(runtimes) /\ Len(runtimes) \in Nat
  BY <1>2, Lens DEF Points
<1>4. at # "start" => StageOK(calls[c], at)
  BY <1>1, CallIs DEF Stage
<1> QED
  BY <1>1, <1>3, <1>4 DEF Free

LEMMA ReadyAsIs ==
  ASSUME EngineInv, NEW c \in Call, NEW op \in Ops, StageOK(calls[c], op)
  PROVE  Ready(c, calls[c], op)
BY CallIs DEF Ready

LEMMA StartTurn ==
  ASSUME EngineInv, NEW c \in Call, Start(c)
  PROVE  \E new, P : Turn(c, new, P)
<1>1. Goes(c, "start")
  BY DEF Start
<1>2. Free(c) /\ calls[c].at = "start"
  BY <1>1, GoesOn
<1>3. CASE Ask(c, calls[c], calls[c].rt, calls[c].next) /\ UNCHANGED engineVars
  <2>1. calls[c].next \in Ops /\ calls[c].rt # 0 /\ StageOK(calls[c], calls[c].next)
    BY <1>2, CallIs DEF ReplyOK, Stage
  <2>2. calls[c].rt \in 1 .. Len(runtimes)
    BY <1>1, <2>1, GoesOn
  <2>3. Looks({}) /\ profiles' = Seen({}).profiles
    BY <1>3, CallIs, SeenNothing, UnchangedLooks DEF engineVars
  <2>4. Ready(c, calls[c], calls[c].next)
    BY <2>1, ReadyAsIs
  <2> QED
    BY <1>2, <1>3, <2>2, <2>3, <2>4, AskTurn
<1>4. CASE Finally(c, calls[c], {}, "failed")
  BY <1>2, <1>4, FinallyTurn
<1> QED
  BY <1>3, <1>4 DEF Start

\* A call that opened a scope.
LEMMA ScopedIs ==
  ASSUME EngineInv, NEW c \in Call, NEW s \in Nat, NEW e \in Nat, NEW op \in Ops, StageOK(calls[c], op)
  PROVE  /\ Ready(c, [calls[c] EXCEPT !.scope = s, !.value = <<>>], op)
         /\ Ready(c, [calls[c] EXCEPT !.scope = s, !.value = <<>>, !.epoch = e], op)
<1> DEFINE x == calls[c]
           y == [x EXCEPT !.scope = s, !.value = <<>>]
           z == [x EXCEPT !.scope = s, !.value = <<>>, !.epoch = e]
           Same(w) == /\ w \in CallType /\ w.kind = x.kind /\ w.refs = x.refs /\ w.i = x.i /\ w.target = x.target
                      /\ w.rt = x.rt /\ w.source = x.source /\ w.held = x.held /\ w.own = x.own /\ w.todo = x.todo
                      /\ w.shape = x.shape /\ w.rest = x.rest
<1>1. x \in CallType /\ Points(x, Len(placements), Len(runtimes), Len(logical))
  BY CallIs
<1>2. <<>> \in Seq(Nat)
  OBVIOUS
<1>3. StageOK(x, op)
  OBVIOUS
<1>4. x.held = calls[c].held /\ x.source = calls[c].source
  OBVIOUS
<1> HIDE DEF x
<1>5. Same(y)
  BY <1>1, <1>2 DEF CallType
<1>6. Same(z)
  BY <1>1, <1>2 DEF CallType
<1> HIDE DEF y, z
<1>7. ASSUME NEW w, Same(w)
      PROVE  Ready(c, w, op)
  <2>1. StageOK(w, op)
    BY <1>3, <1>7 DEF StageOK
  <2>2. Points(w, Len(placements), Len(runtimes), Len(logical))
    BY <1>1, <1>7 DEF Points
  <2> QED
    BY <1>4, <1>7, <2>1, <2>2 DEF Ready
<1> QED
  BY <1>5, <1>6, <1>7 DEF x, y, z

LEMMA AnsweredScope ==
  ASSUME EngineInv, NEW c \in Call, NEW at \in {"beginScope", "importBREP"}, Goes(c, at), Ok(c)
  PROVE  calls[c].value \in Seq(Nat) /\ calls[c].value # <<>> /\ TheValue(c) \in Nat
<1>1. calls[c].value \in Seq(Nat)
  BY CallIs DEF CallType
<1>2. calls[c].value # <<>>
  BY CallIs DEF Goes, Ok, ReplyOK
<1> QED
  BY <1>1, <1>2 DEF TheValue

LEMMA OpenedTurn ==
  ASSUME EngineInv, NEW c \in Call, Opened(c)
  PROVE  \E new, P : Turn(c, new, P)
<1> DEFINE p == calls[c].target
           e == Seen({p})
           call == [calls[c] EXCEPT !.scope = TheValue(c), !.value = <<>>]
           more == [call EXCEPT !.epoch = e.profiles[p].epoch]
<1>1. Goes(c, "beginScope")
  BY DEF Opened
<1>2. Free(c) /\ calls[c].at = "beginScope" /\ StageOK(calls[c], "beginScope")
      /\ (calls[c].rt # 0 => calls[c].rt \in 1 .. Len(runtimes))
  BY <1>1, GoesOn
<1>3. calls[c].rt \in 1 .. Len(runtimes)
  BY <1>2, CallIs DEF ReplyOK, Ops
<1>4. DataTyped /\ calls[c] \in CallType
  BY CallIs
<1>5. p \in Profile
  BY <1>2 DEF StageOK, Idle
<1>6. e.profiles[p].epoch \in Nat
  BY <1>4, <1>5, SeenIs DEF ProfileType
<1>7. call.rt = calls[c].rt /\ call.own = calls[c].own /\ call.kind = calls[c].kind
  BY <1>4 DEF CallType
<1>8. CASE ~Ok(c) /\ Finally(c, calls[c], {}, "failed")
  BY <1>2, <1>8, FinallyTurn
<1>9. CASE Ok(c) /\ call.kind = "create" /\ Ask(c, call, call.rt, "make") /\ UNCHANGED engineVars
  <2>1. StageOK(calls[c], "make") /\ "make" \in Ops
    BY <1>2, <1>7, <1>9 DEF StageOK, Ops, Idle
  <2>2. Ready(c, call, "make")
    BY <1>1, <1>6, <1>9, <2>1, AnsweredScope, ScopedIs
  <2>3. Looks({}) /\ profiles' = Seen({}).profiles
    BY <1>4, <1>9, SeenNothing, UnchangedLooks DEF engineVars
  <2> HIDE DEF call
  <2> QED
    BY <1>2, <1>3, <1>7, <1>9, <2>2, <2>3, AskTurn
<1>10. ASSUME Ok(c), call.kind # "create", placements' = e.placements,
              UNCHANGED <<logical, shapes, scopeRefs, phase, awaited, losses>>
       PROVE  Looks({p}) /\ TheValue(c) \in Nat
  BY <1>1, <1>4, <1>10, UnchangedLooks, AnsweredScope
<1>11. CASE /\ Ok(c) /\ call.kind # "create" /\ placements' = e.placements
            /\ call.own /\ Reach(c, call, e.profiles, p, "op")
            /\ UNCHANGED <<logical, shapes, scopeRefs, phase, awaited, losses>>
  <2>1. StageOK(calls[c], "op") /\ "op" \in Ops
    BY <1>2, <1>7, <1>11 DEF StageOK, Ops, Idle
  <2>2. Ready(c, call, "op") /\ Looks({p})
    BY <1>6, <1>10, <1>11, <2>1, ScopedIs
  <2> HIDE DEF call, p
  <2> QED
    BY <1>2, <1>5, <1>11, <2>2, ReachTurn
<1>12. CASE /\ Ok(c) /\ call.kind # "create" /\ placements' = e.placements
            /\ ~call.own /\ profiles' = e.profiles /\ Ask(c, more, call.rt, "importBREP")
            /\ UNCHANGED <<logical, shapes, scopeRefs, phase, awaited, losses>>
  <2>1. StageOK(calls[c], "importBREP") /\ "importBREP" \in Ops
    BY <1>2, <1>7, <1>12 DEF StageOK, Ops, Idle
  <2>2. more = [calls[c] EXCEPT !.scope = TheValue(c), !.value = <<>>, !.epoch = e.profiles[p].epoch]
    OBVIOUS
  <2> HIDE DEF p, e
  <2>3. Ready(c, more, "importBREP") /\ Looks({p})
    BY <1>6, <1>10, <1>12, <2>1, <2>2, ScopedIs
  <2> HIDE DEF call, more
  <2> QED
    BY <1>2, <1>3, <1>7, <1>12, <2>3, AskTurn DEF e
<1> QED
  <2> HIDE DEF call
  <2>1. \/ ~Ok(c) /\ Finally(c, calls[c], {}, "failed")
        \/ Ok(c) /\ call.kind = "create" /\ Ask(c, call, call.rt, "make") /\ UNCHANGED engineVars
        \/ /\ Ok(c) /\ call.kind # "create" /\ placements' = e.placements
           /\ \/ call.own /\ Reach(c, call, e.profiles, p, "op")
              \/ ~call.own /\ profiles' = e.profiles /\ Ask(c, more, call.rt, "importBREP")
           /\ UNCHANGED <<logical, shapes, scopeRefs, phase, awaited, losses>>
    BY DEF Opened, call
  <2> QED
    BY <1>8, <1>9, <1>11, <1>12, <2>1

LEMMA ExportedTurn ==
  ASSUME EngineInv, NEW c \in Call, Exported(c)
  PROVE  \E new, P : Turn(c, new, P)
<1> DEFINE n == calls[c].source
           q == calls[c].target
           P == {placements[n].profile, q}
<1>1. Goes(c, "exportBREP")
  BY DEF Exported
<1>2. Free(c) /\ StageOK(calls[c], "exportBREP")
  BY <1>1, GoesOn
<1>3. CASE \E Q : Finally(c, calls[c], Q, "failed")
  BY <1>2, <1>3, FinallyTurn
<1>4. CASE /\ placements' = Seen(P).placements
           /\ Reach(c, calls[c], Seen(P).profiles, q, "beginScope")
           /\ UNCHANGED <<logical, shapes, scopeRefs, phase, awaited, losses>>
  <2>1. q \in Profile /\ StageOK(calls[c], "beginScope") /\ "beginScope" \in Ops
    BY <1>2 DEF StageOK, Ops, Idle
  <2>2. Looks(P) /\ Ready(c, calls[c], "beginScope")
    BY <1>4, <2>1, CallIs, UnchangedLooks, ReadyAsIs
  <2> HIDE DEF P, q
  <2> QED
    BY <1>2, <1>4, <2>1, <2>2, ReachTurn
<1> QED
  BY <1>3, <1>4, Zenon DEF Exported

LEMMA CleanupTurn ==
  ASSUME EngineInv, NEW c \in Call, NEW at \in {"make", "op", "importBREP"}, Goes(c, at), NEW P, Cleanup(c, Seen(P))
  PROVE  \E new, Q : Turn(c, new, Q)
<1>1. Free(c) /\ calls[c].at = at /\ StageOK(calls[c], at)
      /\ (calls[c].rt # 0 => calls[c].rt \in 1 .. Len(runtimes))
  BY GoesOn
<1>2. calls[c].rt \in 1 .. Len(runtimes)
  BY <1>1, CallIs DEF ReplyOK, Ops
<1>3. StageOK(calls[c], "endScope") /\ "endScope" \in Ops
  BY <1>1 DEF StageOK, Ops, Idle
<1>4. /\ placements' = Seen(P).placements /\ profiles' = Seen(P).profiles
      /\ Ask(c, calls[c], calls[c].rt, "endScope")
      /\ UNCHANGED <<logical, shapes, scopeRefs, phase, awaited, losses>>
  BY DEF Cleanup
<1>5. Looks(P) /\ Ready(c, calls[c], "endScope")
  BY <1>3, <1>4, CallIs, UnchangedLooks, ReadyAsIs
<1> QED
  BY <1>1, <1>2, <1>4, <1>5, AskTurn

LEMMA ProbedTurn ==
  ASSUME EngineInv, NEW c \in Call, Probed(c) \/ CleanedUp(c)
  PROVE  \E new, P : Turn(c, new, P)
<1>1. Free(c)
  BY GoesOn DEF Probed, CleanedUp
<1>2. \E outcome \in {"done", "failed"} : Finally(c, calls[c], {}, outcome)
  BY DEF Probed, CleanedUp
<1> QED
  BY <1>1, <1>2, FinallyTurn

-----------------------------------------------------------------------------
(* Releases.                                                               *)

LEMMA RemainingLooks ==
  ASSUME DataTyped, NEW P, placements' = Seen(P).placements, logical' = logical, shapes' \subseteq shapes, phase' = phase
  PROVE  Looks(P)
BY DEF Looks, DataTyped, ShapesTyped

LEMMA EndsScope ==
  ASSUME NEW c \in Call, NEW call, Ready(c, call, "release")
  PROVE  Ready(c, call, "endScope")
<1>1. StageOK(call, "endScope")
  BY DEF Ready, StageOK, Idle
<1> QED
  BY <1>1 DEF Ready, Ops

LEMMA OtherScope ==
  ASSUME NEW c \in Call, NEW op, NEW call, Ready(c, call, op), NEW s \in Nat
  PROVE  Ready(c, [call EXCEPT !.scope = s], op)
<1> DEFINE y == [call EXCEPT !.scope = s]
<1>1. call \in CallType /\ StageOK(call, op) /\ Points(call, Len(placements), Len(runtimes), Len(logical)) /\ op \in Ops
      /\ call.held = calls[c].held /\ call.source = calls[c].source
  BY DEF Ready
<1>2. /\ y \in CallType /\ y.kind = call.kind /\ y.refs = call.refs /\ y.i = call.i /\ y.target = call.target
      /\ y.rt = call.rt /\ y.source = call.source /\ y.held = call.held /\ y.own = call.own /\ y.todo = call.todo
      /\ y.shape = call.shape /\ y.rest = call.rest
  BY <1>1 DEF CallType
<1> HIDE DEF y
<1>3. StageOK(y, op) /\ Points(y, Len(placements), Len(runtimes), Len(logical))
  BY <1>1, <1>2 DEF StageOK, Points
<1> QED
  BY <1>1, <1>2, <1>3 DEF Ready, y

\* A call whose scope needs no ending goes on as if it was ended.
LEMMA AnsweredIs ==
  ASSUME NEW c \in Call, NEW call, Ready(c, call, "endScope"), runtimes' = runtimes
  PROVE  Keeps(call, [call EXCEPT !.at = "endScope", !.reply = "ok"])
<1> DEFINE y == [call EXCEPT !.at = "endScope", !.reply = "ok"]
<1>1. call \in CallType /\ StageOK(call, "endScope") /\ Points(call, Len(placements), Len(runtimes), Len(logical))
  BY DEF Ready
<1>2. /\ y \in CallType /\ y.kind = call.kind /\ y.refs = call.refs /\ y.i = call.i /\ y.target = call.target
      /\ y.rt = call.rt /\ y.source = call.source /\ y.held = call.held /\ y.own = call.own /\ y.todo = call.todo
      /\ y.shape = call.shape /\ y.rest = call.rest /\ y.at = "endScope" /\ y.reply = "ok"
  BY <1>1 DEF CallType, Ops
<1> HIDE DEF y
<1>3. StageOK(y, "endScope") /\ Points(y, Len(placements), Len(runtimes), Len(logical))
  BY <1>1, <1>2 DEF StageOK, Points
<1>4. CallOK(y)
  BY <1>2, <1>3 DEF CallOK, Stage, ReplyOK, Ops, Idle
<1> QED
  BY <1>2, <1>3, <1>4 DEF Keeps, Within, Unheard, y

LEMMA DroppedTurn ==
  ASSUME EngineInv, NEW c \in Call, Free(c), NEW call, Ready(c, call, "endScope"), NEW P,
         NEW n \in 1 .. Len(placements), NEW remaining, remaining \subseteq shapes,
         Dropped(c, call, Seen(P), n, remaining)
  PROVE  \E new, Q : Turn(c, new, Q)
<1> DEFINE x == placements[n]
           s == Seen(P).profiles[x.profile]
           bare == [call EXCEPT !.scope = x.scope]
           after == [call EXCEPT !.at = "endScope", !.reply = "ok"]
<1>1. DataTyped /\ x \in PlacementType
  BY CallIs, Lens
<1>2. x.profile \in Profile /\ x.scope \in Nat /\ x.shape \in 1 .. Len(logical)
  BY <1>1 DEF PlacementType, DataTyped, PlacementsTyped
<1>3. /\ logical' = [logical EXCEPT ![x.shape] = @ \ {n}]
      /\ profiles' = Seen(P).profiles /\ placements' = Seen(P).placements
      /\ shapes' = remaining /\ phase' = phase
      /\ \/ s.runtime # 0 /\ Ask(c, bare, s.runtime, "endScope")
         \/ calls' = [calls EXCEPT ![c] = after] /\ runtimes' = runtimes
  BY DEF Dropped
<1>4. Looks(P)
  <2>1. logical \in Seq(SUBSET Nat) /\ logical[x.shape] \ {n} \in SUBSET Nat
    BY <1>1, <1>2, Lens DEF DataTyped, ShapesTyped
  <2> HIDE DEF x
  <2>2. /\ logical' \in Seq(SUBSET Nat) /\ Len(logical') = Len(logical)
        /\ \A k \in 1 .. Len(logical) : logical'[k] \subseteq logical[k]
    BY <1>2, <1>3, <2>1
  <2> QED
    BY <1>3, <2>2 DEF Looks
<1>5. s.runtime = profiles[x.profile].runtime
  BY <1>1, <1>2, SeenIs
<1>6. CASE s.runtime # 0 /\ Ask(c, bare, s.runtime, "endScope")
  <2>1. s.runtime \in 1 .. Len(runtimes)
    BY <1>1, <1>2, <1>5, <1>6, RuntimeIs
  <2>2. Ready(c, bare, "endScope")
    BY <1>2, OtherScope
  <2> HIDE DEF s, bare
  <2> QED
    BY <1>3, <1>4, <1>6, <2>1, <2>2, AskTurn
<1>7. CASE calls' = [calls EXCEPT ![c] = after] /\ runtimes' = runtimes
  <2>1. Leads(c, call, after)
    BY <1>7, AnsweredIs DEF Leads
  <2> HIDE DEF after
  <2>2. RunTurn(c, after, P)
    BY <1>3, <1>7 DEF RunTurn
  <2> QED
    BY <1>4, <2>1, <2>2, LooksTurn
<1> QED
  BY <1>3, <1>6, <1>7

LEMMA FirstIs ==
  ASSUME DataTyped, NEW call, call.todo # {}, Points(call, Len(placements), Len(runtimes), Len(logical))
  PROVE  First(call) \in call.todo /\ First(call) \in 1 .. Len(placements)
<1>1. call.todo \in SUBSET Nat /\ call.todo \subseteq 1 .. Len(placements)
  BY DEF Points
<1> QED
  BY <1>1, LeastExists DEF First

LEMMA ReleaseFirstTurn ==
  ASSUME EngineInv, NEW c \in Call, Free(c), NEW call, Ready(c, call, "release"),
         NEW remaining, remaining \subseteq shapes, ReleaseFirst(c, call, remaining)
  PROVE  \E new, P : Turn(c, new, P)
<1> DEFINE n == First(call)
           P == {placements[n].profile}
           s == Seen(P).profiles[placements[n].profile]
<1>1. DataTyped /\ call.todo # {} /\ Points(call, Len(placements), Len(runtimes), Len(logical))
  BY CallIs DEF Ready, StageOK
<1>2. n \in 1 .. Len(placements)
  BY <1>1, FirstIs
<1>3. \/ /\ s.runtime # 0
         /\ Ask(c, call, s.runtime, "release")
         /\ profiles' = Seen(P).profiles /\ placements' = Seen(P).placements
         /\ shapes' = remaining
         /\ UNCHANGED <<logical, scopeRefs, phase, awaited, losses>>
      \/ Dropped(c, call, Seen(P), n, remaining)
  BY DEF ReleaseFirst
<1>4. placements[n].profile \in Profile
  BY <1>1, <1>2, Lens DEF PlacementType
<1>5. s.runtime = profiles[placements[n].profile].runtime
  BY <1>1, <1>4, SeenIs
<1>6. CASE /\ s.runtime # 0
           /\ Ask(c, call, s.runtime, "release")
           /\ profiles' = Seen(P).profiles /\ placements' = Seen(P).placements
           /\ shapes' = remaining
           /\ UNCHANGED <<logical, scopeRefs, phase, awaited, losses>>
  <2>1. s.runtime \in 1 .. Len(runtimes)
    BY <1>1, <1>4, <1>5, <1>6, RuntimeIs
  <2>2. Looks(P)
    BY <1>1, <1>6, RemainingLooks
  <2> HIDE DEF s, P
  <2> QED
    BY <1>6, <2>1, <2>2, AskTurn
<1>7. CASE Dropped(c, call, Seen(P), n, remaining)
  BY <1>2, <1>7, EndsScope, DroppedTurn
<1> QED
  BY <1>3, <1>6, <1>7

\* A call that has no leases and nothing to release, but may have shapes to go on with.
Bare(call) ==
  /\ call \in CallType /\ Points(call, Len(placements), Len(runtimes), Len(logical))
  /\ call.held = <<>> /\ call.source = 0 /\ ~call.own

\* The release of placements of a shape begins.
LEMMA BareReady ==
  ASSUME NEW c \in Call, calls[c].held = <<>>, calls[c].source = 0, NEW call, Bare(call),
         NEW shape \in 0 .. Len(logical), Len(logical) \in Nat, NEW todo \in SUBSET (1 .. Len(placements)), todo # {},
         NEW rest, rest \subseteq call.rest
  PROVE  Ready(c, [call EXCEPT !.shape = shape, !.scope = 0, !.todo = todo, !.rest = rest], "release")
<1> DEFINE y == [call EXCEPT !.shape = shape, !.scope = 0, !.todo = todo, !.rest = rest]
<1>1. call \in CallType /\ Points(call, Len(placements), Len(runtimes), Len(logical))
      /\ call.held = <<>> /\ call.source = 0 /\ call.own = FALSE
  BY DEF Bare, CallType
<1>2. todo \in SUBSET Nat /\ rest \in SUBSET Nat /\ shape \in Nat
  <2>1. call.rest \in SUBSET Nat
    BY <1>1 DEF CallType
  <2> QED
    BY <2>1
<1>3. /\ y \in CallType /\ y.kind = call.kind /\ y.refs = call.refs /\ y.i = call.i /\ y.target = call.target
      /\ y.rt = call.rt /\ y.source = call.source /\ y.held = call.held /\ y.own = call.own /\ y.todo = todo
      /\ y.shape = shape /\ y.rest = rest
  BY <1>1, <1>2 DEF CallType
<1> HIDE DEF y
<1>4. StageOK(y, "release")
  BY <1>1, <1>3 DEF StageOK, Idle
<1>5. Points(y, Len(placements), Len(runtimes), Len(logical))
  BY <1>1, <1>3 DEF Points
<1> QED
  BY <1>1, <1>3, <1>4, <1>5 DEF Ready, y, Ops

LEMMA EndedTurn ==
  ASSUME EngineInv, NEW c \in Call, Free(c), calls[c].held = <<>>, calls[c].source = 0,
         calls' = [calls EXCEPT ![c] = Ended("done")], shapes' \subseteq shapes,
         UNCHANGED <<runtimes, profiles, placements, logical, phase>>
  PROVE  \E new, P : Turn(c, new, P)
<1> DEFINE new == Ended("done")
<1>1. DataTyped /\ calls[c].held \in Seq(Nat)
  BY CallIs
<1>2. /\ new \in CallType /\ CallOK(new) /\ Within(new, Len(placements), Len(runtimes), Len(logical))
      /\ new.held = <<>> /\ new.source = 0 /\ Unheard(new)
      /\ \A n \in Nat \ {0} : Cardinality(LeasedBy(new, n)) = 0
  BY <1>1, Lens, EndedIs
<1> HIDE DEF new
<1>3. Seen({}).profiles = profiles /\ Seen({}).placements = placements /\ \A p : ~Lost(p, {})
  BY <1>1, SeenNothing
<1>4. ASSUME NEW n \in 1 .. Len(placements)
      PROVE  Moves(c, new, {}, n)
  <2>1. placements[n] \in PlacementType /\ placements'[n] = placements[n]
    BY <1>1, Lens
  <2>2. placements[n].leaseCount \in Int
    BY <2>1 DEF PlacementType
  <2>3. LeasedBy(new, n) = LeasedBy(calls[c], n) /\ Cardinality(LeasedBy(new, n)) = 0
    BY <1>2, SameLeases
  <2>4. Alike(placements[n], placements'[n])
    BY <2>1 DEF Alike
  <2> QED
    BY <1>2, <1>3, <2>1, <2>2, <2>3, <2>4 DEF Moves
<1>5. /\ placements' \in Seq(PlacementType) /\ Len(placements') = Len(placements)
      /\ logical' \in Seq(SUBSET Nat) /\ Len(logical') = Len(logical)
      /\ \A k \in 1 .. Len(logical) : logical'[k] \subseteq logical[k]
  BY <1>1 DEF DataTyped, PlacementsTyped, ShapesTyped
<1>6. PlaceTurn(c, new, {})
  BY <1>1, <1>4, <1>5, Steady
<1>7. RunTurn(c, new, {})
  BY <1>3 DEF RunTurn
<1>8. Turn(c, new, {})
  BY <1>2, <1>6, <1>7 DEF Turn, new
<1> QED
  BY <1>8

LEMMA ReleaseShapesTurn ==
  ASSUME EngineInv, NEW c \in Call, Free(c), calls[c].held = <<>>, calls[c].source = 0, NEW call, Bare(call),
         NEW remaining, remaining \subseteq shapes, ReleaseShapes(c, call, remaining)
  PROVE  \E new, P : Turn(c, new, P)
<1> DEFINE open == {s \in call.rest : phase = "open" /\ s \in remaining}
           next == {s \in open : logical[s] # {} /\ Unleased(logical[s])}
           Emptied(S) == {s \in S : logical[s] = {}}
           first == Min(next)
           rest == {t \in call.rest : t > first}
           then == [call EXCEPT !.shape = first, !.scope = 0, !.todo = logical[first], !.rest = rest]
           less == remaining \ Emptied({t \in open : t < first})
<1>1. DataTyped /\ call.rest \subseteq 1 .. Len(logical)
  BY CallIs DEF Bare, Points
<1>2. \/ next # {} /\ ReleaseFirst(c, then, less)
      \/ /\ shapes' = remaining \ Emptied(open)
         /\ calls' = [calls EXCEPT ![c] = Ended("done")]
         /\ UNCHANGED <<runtimes, profiles, placements, logical, scopeRefs, phase, awaited, losses>>
  BY DEF ReleaseShapes
<1>3. CASE next # {} /\ ReleaseFirst(c, then, less)
  <2>1. next \in SUBSET Nat /\ next \subseteq 1 .. Len(logical)
    BY <1>1
  <2> HIDE DEF open
  <2>2. first \in next
    <3> HIDE DEF next
    <3> QED
      BY <1>3, <2>1, LeastExists
  <2>3. first \in 1 .. Len(logical) /\ logical[first] # {}
    BY <2>1, <2>2
  <2>4. logical[first] \in SUBSET (1 .. Len(placements))
    BY <1>1, <2>3 DEF DataTyped, ShapesTyped
  <2>5. rest \subseteq call.rest /\ first \in 0 .. Len(logical) /\ Len(logical) \in Nat
    BY <1>1, <2>3, Lens
  <2>6. less \subseteq shapes
    OBVIOUS
  <2> HIDE DEF next, first, rest, less
  <2>7. Ready(c, then, "release")
    BY <2>3, <2>4, <2>5, BareReady
  <2> HIDE DEF then
  <2> QED
    BY <1>3, <2>6, <2>7, ReleaseFirstTurn
<1>4. CASE /\ shapes' = remaining \ Emptied(open)
           /\ calls' = [calls EXCEPT ![c] = Ended("done")]
           /\ UNCHANGED <<runtimes, profiles, placements, logical, scopeRefs, phase, awaited, losses>>
  BY <1>4, EndedTurn
<1> QED
  BY <1>2, <1>3, <1>4

LEMMA ReleaseOnTurn ==
  ASSUME EngineInv, NEW c \in Call, Free(c), calls[c].at \in {"release", "endScope"}, calls[c].todo # {}, NEW ok,
         ReleaseOn(c, calls[c], ok)
  PROVE  \E new, P : Turn(c, new, P)
<1> DEFINE call == calls[c]
           n == First(call)
<1>1. DataTyped /\ call \in CallType /\ StageOK(call, call.at)
      /\ Points(call, Len(placements), Len(runtimes), Len(logical))
  BY CallIs DEF Stage
<1>2. call.source = 0 /\ call.held = <<>> /\ ~call.own
  BY <1>1 DEF StageOK
<1>3. CASE /\ call.todo # {n}
           /\ ReleaseFirst(c, [call EXCEPT !.todo = @ \ {n}, !.scope = 0], shapes)
  <2> DEFINE todo == call.todo \ {n}
             then == [call EXCEPT !.shape = call.shape, !.scope = 0, !.todo = todo, !.rest = call.rest]
  <2>1. todo # {} /\ todo \in SUBSET (1 .. Len(placements)) /\ call.shape \in 0 .. Len(logical) /\ call.rest \subseteq call.rest
        /\ Len(logical) \in Nat
    BY <1>1, <1>3, Lens DEF Points
  <2>2. Bare(call)
    BY <1>1, <1>2 DEF Bare
  <2> HIDE DEF n, todo
  <2>3. Ready(c, then, "release")
    BY <1>2, <2>1, <2>2, BareReady
  <2>4. then = [call EXCEPT !.todo = todo, !.scope = 0]
    BY <1>1 DEF CallType
  <2>5. ReleaseFirst(c, then, shapes)
    BY <1>3, <2>4 DEF todo
  <2> QED
    BY <2>3, <2>5, ReleaseFirstTurn
<1>4. CASE \E remaining : remaining \subseteq shapes /\ ReleaseShapes(c, call, remaining)
  <2>1. Bare(call)
    BY <1>1, <1>2 DEF Bare
  <2> QED
    BY <1>2, <1>4, <2>1, ReleaseShapesTurn
<1> QED
  BY <1>3, <1>4 DEF ReleaseOn

LEMMA ReleasePlacementTurn ==
  ASSUME EngineInv, NEW c \in Call, ReleasePlacement(c)
  PROVE  \E new, P : Turn(c, new, P)
<1>1. Begins(c, "releasePlacement")
  BY DEF ReleasePlacement
<1>2. Free(c) /\ calls[c].held = <<>> /\ calls[c].source = 0 /\ DataTyped
  BY <1>1, NotBegun, CallIs
<1>3. PICK n \in Refs : ReleaseFirst(c, [Unbegun EXCEPT !.kind = "releasePlacement",
                                           !.todo = {n}, !.shape = placements[n].shape], shapes)
  BY DEF ReleasePlacement
<1>4. n \in 1 .. Len(placements) /\ placements[n].shape \in 1 .. Len(logical) /\ Len(logical) \in Nat
  BY <1>2, Lens DEF Refs, DataTyped, PlacementsTyped
<1> DEFINE bare == [Unbegun EXCEPT !.kind = "releasePlacement"]
           shape == placements[n].shape
           todo == {n}
           then == [bare EXCEPT !.shape = shape, !.scope = 0, !.todo = todo, !.rest = {}]
           call == [Unbegun EXCEPT !.kind = "releasePlacement", !.todo = {n}, !.shape = placements[n].shape]
<1>5. bare \in CallType /\ bare.rest = {} /\ bare.scope = 0 /\ bare.held = <<>> /\ bare.source = 0 /\ bare.own = FALSE
      /\ bare.refs = <<>> /\ bare.rt = 0 /\ bare.shape = 0 /\ bare.todo = {} /\ bare.i = 1
  BY UnbegunIs DEF CallType, AllKinds, Unbegun
<1>6. call = [bare EXCEPT !.shape = shape, !.todo = todo]
  BY DEF Unbegun
<1> HIDE DEF bare, shape, todo
<1>7. call = then
  <2>1. then = [bare EXCEPT !.shape = shape, !.todo = todo]
    BY <1>5 DEF CallType
  <2> HIDE DEF call, then
  <2> QED
    BY ONLY <1>6, <2>1
<1>8. Bare(bare)
  <2>1. Len(placements) \in Nat /\ Len(runtimes) \in Nat
    BY <1>2, Lens
  <2> QED
    BY <1>4, <1>5, <2>1 DEF Bare, Points
<1>9. shape \in 0 .. Len(logical) /\ todo \in SUBSET (1 .. Len(placements)) /\ todo # {}
  BY <1>4 DEF shape, todo
<1>10. Ready(c, then, "release")
  BY <1>2, <1>4, <1>5, <1>8, <1>9, BareReady
<1>11. ReleaseFirst(c, then, shapes)
  BY <1>3, <1>7
<1> QED
  BY <1>2, <1>10, <1>11, ReleaseFirstTurn

LEMMA ShapesBegun ==
  ASSUME EngineInv, NEW c \in Call, NEW kind \in {"releaseShape", "releaseAll"}, Begins(c, kind),
         NEW rest, rest \subseteq shapes, ReleaseShapes(c, [Unbegun EXCEPT !.kind = kind, !.rest = rest], shapes)
  PROVE  \E new, P : Turn(c, new, P)
<1> DEFINE bare == [Unbegun EXCEPT !.kind = kind, !.rest = rest]
<1>1. Free(c) /\ calls[c].held = <<>> /\ calls[c].source = 0 /\ DataTyped
  BY NotBegun, CallIs
<1>2. rest \subseteq 1 .. Len(logical) /\ rest \in SUBSET Nat /\ Len(logical) \in Nat /\ Len(placements) \in Nat
      /\ Len(runtimes) \in Nat
  BY <1>1, Lens DEF DataTyped, ShapesTyped
<1>3. bare \in CallType /\ bare.rest = rest /\ bare.held = <<>> /\ bare.source = 0 /\ bare.own = FALSE
      /\ bare.refs = <<>> /\ bare.rt = 0 /\ bare.shape = 0 /\ bare.todo = {} /\ bare.i = 1
  BY <1>2, UnbegunIs DEF CallType, AllKinds
<1>4. ReleaseShapes(c, bare, shapes)
  OBVIOUS
<1> HIDE DEF bare
<1>5. Bare(bare)
  BY <1>2, <1>3 DEF Bare, Points
<1> QED
  BY <1>1, <1>4, <1>5, ReleaseShapesTurn

LEMMA ReleasedTurn ==
  ASSUME EngineInv, NEW c \in Call, Released(c) \/ ScopeReleased(c)
  PROVE  \E new, P : Turn(c, new, P)
<1>1. CASE Goes(c, "release") /\ Dropped(c, calls[c], Seen({}), First(calls[c]), shapes)
  <2>1. Free(c) /\ StageOK(calls[c], "release")
    BY <1>1, GoesOn
  <2>2. Ready(c, calls[c], "endScope")
    BY <2>1, ReadyAsIs, EndsScope DEF Ops
  <2>3. First(calls[c]) \in 1 .. Len(placements)
    <3>1. calls[c].todo # {}
      BY <2>1 DEF StageOK
    <3> QED
      BY <3>1, CallIs, FirstIs
  <2> QED
    BY <1>1, <2>1, <2>2, <2>3, DroppedTurn
<1>2. CASE Goes(c, "release") /\ ReleaseOn(c, calls[c], FALSE)
  <2>1. Free(c) /\ StageOK(calls[c], "release") /\ calls[c].at = "release"
    BY <1>2, GoesOn
  <2>2. calls[c].todo # {}
    BY <2>1 DEF StageOK
  <2> QED
    BY <1>2, <2>1, <2>2, ReleaseOnTurn
<1>3. CASE Goes(c, "endScope") /\ calls[c].todo # {} /\ ReleaseOn(c, calls[c], TRUE)
  <2>1. Free(c) /\ calls[c].at = "endScope"
    BY <1>3, GoesOn
  <2> QED
    BY <1>3, <2>1, ReleaseOnTurn
<1> QED
  BY <1>1, <1>2, <1>3 DEF Released, ScopeReleased

-----------------------------------------------------------------------------
(* Inputs and transfers.                                                   *)

\* The placements once P was looked at and those in near were leased.
Near(P, near, ps) ==
  /\ near \in Seq(1 .. Len(placements)) /\ ps \in Seq(PlacementType) /\ Len(ps) = Len(placements)
  /\ \A n \in 1 .. Len(placements) :
       /\ Alike(placements[n], ps[n])
       /\ ps[n].leaseCount = placements[n].leaseCount + Times(n, near)
       /\ ps[n].state = Seen(P).placements[n].state

LEMMA NearIs ==
  ASSUME DataTyped, NEW P, NEW near \in Seq(1 .. Len(placements))
  PROVE  Near(P, near, Leased(Seen(P).placements, near, 1))
<1> DEFINE ps == Seen(P).placements
           L == Leased(ps, near, 1)
<1>1. ps \in Seq(PlacementType) /\ Len(ps) = Len(placements)
  BY SeenIs
<1>2. near \in Seq(Nat) /\ 1 \in {1, -1}
  OBVIOUS
<1>3. \A n \in 1 .. Len(placements) :
        Alike(placements[n], ps[n]) /\ ps[n].leaseCount = placements[n].leaseCount
  BY SeenAlike
<1> HIDE DEF ps
<1>4. /\ L \in Seq(PlacementType) /\ Len(L) = Len(ps)
      /\ \A n \in 1 .. Len(ps) :
           /\ Alike(ps[n], L[n])
           /\ L[n].leaseCount = ps[n].leaseCount + 1 * Times(n, near)
           /\ L[n].state = ps[n].state
  BY <1>1, <1>2, LeasedIs
<1> HIDE DEF L
<1>5. ASSUME NEW n \in 1 .. Len(placements)
      PROVE  /\ Alike(placements[n], L[n])
             /\ L[n].leaseCount = placements[n].leaseCount + Times(n, near)
             /\ L[n].state = ps[n].state
  <2>1. Alike(placements[n], ps[n]) /\ Alike(ps[n], L[n])
    BY <1>1, <1>3, <1>4
  <2>2. Alike(placements[n], L[n])
    BY ONLY <2>1 DEF Alike
  <2>3. L[n].leaseCount = placements[n].leaseCount + 1 * Times(n, near) /\ L[n].state = ps[n].state
    BY <1>1, <1>3, <1>4
  <2>4. Times(n, near) \in Nat
    BY <1>2, TimesIs
  <2>5. 1 * Times(n, near) = Times(n, near)
    BY ONLY <2>4
  <2> QED
    BY ONLY <2>2, <2>3, <2>5
<1> QED
  BY <1>1, <1>4, <1>5 DEF Near, L, ps

LEMMA NothingNear ==
  ASSUME DataTyped, NEW P
  PROVE  Near(P, <<>>, Seen(P).placements)
<1> DEFINE ps == Seen(P).placements
<1>1. ps \in Seq(PlacementType) /\ Len(ps) = Len(placements)
  BY SeenIs
<1>2. ASSUME NEW n \in 1 .. Len(placements)
      PROVE  Alike(placements[n], ps[n]) /\ ps[n].leaseCount = placements[n].leaseCount + Times(n, <<>>)
  <2>1. Alike(placements[n], ps[n]) /\ ps[n].leaseCount = placements[n].leaseCount
    BY SeenAlike
  <2>2. placements[n].leaseCount \in Int
    BY <2>1 DEF Alike, PlacementType
  <2>3. Times(n, <<>>) = 0
    BY TimesNothing
  <2> QED
    BY ONLY <2>1, <2>2, <2>3
<1> QED
  BY <1>1, <1>2 DEF Near

LEMMA NearMoves ==
  ASSUME EngineInv, NEW c \in Call, calls[c].source = 0, NEW P, NEW near, NEW ps, Near(P, near, ps),
         NEW new, new.held = calls[c].held \o near, NEW n \in 1 .. Len(placements), new.source # n,
         placements'[n] = ps[n]
  PROVE  Moves(c, new, P, n)
<1>1. DataTyped /\ calls[c].held \in Seq(Nat) /\ near \in Seq(Nat)
  BY CallIs DEF Near
<1>2. /\ Alike(placements[n], ps[n])
      /\ ps[n].leaseCount = placements[n].leaseCount + Times(n, near)
      /\ ps[n].state = Seen(P).placements[n].state
  BY DEF Near
<1>3. Seen(P).placements[n].state =
        IF Lost(placements[n].profile, P) /\ Kept(n) THEN "invalid" ELSE placements[n].state
  BY <1>1, SeenAlike
<1>4. placements[n].leaseCount \in Int
  BY <1>2 DEF Alike, PlacementType
<1>5. /\ Cardinality(LeasedBy(calls[c], n)) = Times(n, calls[c].held) /\ Times(n, calls[c].held) \in Nat
      /\ Cardinality(LeasedBy(new, n)) = Times(n, new.held) /\ Times(n, near) \in Nat
  <2>1. new.held \in Seq(Nat)
    BY <1>1
  <2>2. /\ Cardinality(LeasedBy(calls[c], n)) = Times(n, calls[c].held) + IF calls[c].source = n THEN 1 ELSE 0
        /\ Cardinality(LeasedBy(new, n)) = Times(n, new.held) + IF new.source = n THEN 1 ELSE 0
        /\ Times(n, calls[c].held) \in Nat /\ Times(n, new.held) \in Nat /\ Times(n, near) \in Nat
    BY <1>1, <2>1, LeasesAre, TimesIs
  <2> QED
    BY <2>2
<1>6. Times(n, new.held) = Times(n, calls[c].held) + Times(n, near)
  BY <1>1, TimesConcat
<1>7. ps[n].leaseCount = placements[n].leaseCount - Cardinality(LeasedBy(calls[c], n)) + Cardinality(LeasedBy(new, n))
  BY ONLY <1>2, <1>4, <1>5, <1>6
<1>8. /\ ps[n].state # "invalid" /\ Kept(n) => placements[n].state # "invalid" /\ ~Lost(placements[n].profile, P)
      /\ ps[n].state = "transferring" => placements[n].state = "transferring"
  BY <1>2, <1>3
<1> QED
  BY <1>2, <1>7, <1>8 DEF Moves

\* A turn in which a call leases placements.
LEMMA NearTurn ==
  ASSUME EngineInv, NEW c \in Call, Free(c), calls[c].source = 0, NEW P, NEW near, NEW ps, Near(P, near, ps),
         UNCHANGED <<logical, shapes, phase>>, NEW new, new \in CallType, CallOK(new), Unheard(new),
         new.held = calls[c].held \o near, calls' = [calls EXCEPT ![c] = new],
         Within(new, Len(placements), Len(runtimes'), Len(logical)), RunTurn(c, new, P),
         \/ new.source = 0 /\ placements' = ps
         \/ /\ new.source \in 1 .. Len(placements) /\ IsLive(Seen(P).placements, new.source)
            /\ placements' = Lent(ps, new.source)
  PROVE  Turn(c, new, P)
<1>1. DataTyped /\ ps \in Seq(PlacementType) /\ Len(ps) = Len(placements) /\ near \in Seq(Nat)
      /\ calls[c].held \in Seq(Nat)
  BY CallIs DEF Near
<1>2. /\ placements' \in Seq(PlacementType) /\ Len(placements') = Len(placements)
      /\ \A m \in 1 .. Len(placements) : m # new.source => placements'[m] = ps[m]
  <2>1. CASE new.source = 0 /\ placements' = ps
    BY <1>1, <2>1
  <2>2. CASE new.source \in 1 .. Len(placements) /\ placements' = Lent(ps, new.source)
    <3>1. ps \in Seq(PlacementType) /\ new.source \in 1 .. Len(ps) /\ Len(ps) = Len(placements)
      BY <1>1, <2>2
    <3> QED
      BY ONLY <2>2, <3>1, LentIs
  <2> QED
    BY <2>1, <2>2
<1>3. ASSUME NEW m \in 1 .. Len(placements)
      PROVE  Moves(c, new, P, m)
  <2>1. CASE m # new.source
    BY <1>2, <2>1, NearMoves
  <2>2. CASE m = new.source
    <3>1. IsLive(Seen(P).placements, m) /\ placements' = Lent(ps, m)
      <4>1. m # 0
        BY <1>1, Lens
      <4> QED
        BY <2>2, <4>1
    <3>2. /\ Alike(ps[m], placements'[m]) /\ placements'[m].leaseCount = ps[m].leaseCount + 1
          /\ placements'[m].state = "transferring"
      BY <1>1, <3>1, LentIs
    <3>3. Alike(placements[m], ps[m]) /\ ps[m].leaseCount = placements[m].leaseCount + Times(m, near)
      BY DEF Near
    <3>4. Alike(placements[m], placements'[m]) /\ placements[m].leaseCount \in Int
      BY ONLY <3>2, <3>3 DEF Alike, PlacementType
    <3>5. placements[m].state # "invalid" /\ ~Lost(placements[m].profile, P)
      BY <1>1, <3>1, SeenAlike DEF IsLive
    <3>6. /\ Cardinality(LeasedBy(calls[c], m)) = Times(m, calls[c].held) /\ Times(m, calls[c].held) \in Nat
          /\ Cardinality(LeasedBy(new, m)) = Times(m, new.held) + 1 /\ Times(m, near) \in Nat
      <4>1. new.held \in Seq(Nat) /\ m # 0
        BY <1>1, Lens
      <4>2. /\ Cardinality(LeasedBy(calls[c], m)) = Times(m, calls[c].held) + IF calls[c].source = m THEN 1 ELSE 0
            /\ Cardinality(LeasedBy(new, m)) = Times(m, new.held) + IF new.source = m THEN 1 ELSE 0
            /\ Times(m, calls[c].held) \in Nat /\ Times(m, new.held) \in Nat /\ Times(m, near) \in Nat
        BY <1>1, <4>1, LeasesAre, TimesIs
      <4> QED
        BY <2>2, <4>1, <4>2
    <3>7. Times(m, new.held) = Times(m, calls[c].held) + Times(m, near)
      BY <1>1, TimesConcat
    <3>8. placements'[m].leaseCount = placements[m].leaseCount - Cardinality(LeasedBy(calls[c], m))
                                        + Cardinality(LeasedBy(new, m))
      BY ONLY <3>2, <3>3, <3>4, <3>6, <3>7
    <3> QED
      BY <2>2, <3>4, <3>5, <3>8 DEF Moves
  <2> QED
    BY <2>1, <2>2
<1>4. /\ logical' \in Seq(SUBSET Nat) /\ Len(logical') = Len(logical) /\ shapes' \subseteq shapes /\ phase' = phase
      /\ \A k \in 1 .. Len(logical) : logical'[k] \subseteq logical[k]
  BY <1>1 DEF DataTyped, ShapesTyped
<1>5. PlaceTurn(c, new, P)
  BY <1>1, <1>2, <1>3, <1>4, Steady
<1>6. Within(new, Len(placements'), Len(runtimes'), Len(logical'))
  BY <1>2
<1> QED
  BY <1>5, <1>6 DEF Turn

\* A call that looks at its inputs, or at the one it clones.
Moving(call) ==
  /\ call \in CallType /\ call.kind # "create" /\ call.target \in Profile
  /\ call.source = 0 /\ call.todo = {} /\ ~call.own
  /\ Points(call, Len(placements), Len(runtimes), Len(logical))

LEMMA ExistingIs ==
  ASSUME DataTyped, NEW ps, NEW n \in 1 .. Len(placements), NEW q, Existing(ps, n, q) # {}
  PROVE  Min(Existing(ps, n, q)) \in 1 .. Len(placements)
<1> DEFINE T == Existing(ps, n, q)
<1>1. placements[n].shape \in 1 .. Len(logical)
  BY DEF DataTyped, PlacementsTyped
<1>2. T \subseteq logical[placements[n].shape] /\ logical[placements[n].shape] \subseteq 1 .. Len(placements)
  BY <1>1 DEF Existing, DataTyped, ShapesTyped
<1>3. T \in SUBSET Nat /\ T # {}
  BY <1>2
<1> HIDE DEF T
<1>4. Min(T) \in T
  BY <1>3, LeastExists
<1> QED
  BY <1>2, <1>4 DEF T

LEMMA CloneTurn ==
  ASSUME EngineInv, NEW c \in Call, Free(c), calls[c].source = 0, NEW P, NEW near,
         NEW call, Moving(call), call.held = calls[c].held \o near,
         NEW e, e.profiles = Seen(P).profiles, Near(P, near, e.placements),
         NEW n \in 1 .. Len(placements), IsLive(Seen(P).placements, n), Clone(c, call, e, n)
  PROVE  \E new : Turn(c, new, P)
<1>1. DataTyped /\ UNCHANGED <<logical, shapes, phase>>
  BY CallIs DEF Clone
<1>2. Len(placements) \in Nat /\ Len(runtimes) \in Nat /\ Len(logical) \in Nat
  BY <1>1, Lens
<1>3. CASE Existing(e.placements, n, call.target) # {}
  <2> DEFINE m == Min(Existing(e.placements, n, call.target))
             value == <<m>>
             new == [call EXCEPT !.at = "cloned", !.reply = "ok", !.value = value]
  <2>1. /\ placements' = e.placements /\ profiles' = e.profiles /\ runtimes' = runtimes
        /\ calls' = [calls EXCEPT ![c] = new]
    BY <1>3 DEF Clone
  <2>2. m \in 1 .. Len(placements)
    BY <1>1, <1>3, ExistingIs
  <2> HIDE DEF m
  <2>3. value \in Seq(Nat) /\ value # <<>> /\ Head(value) = m
    BY <1>2, <2>2
  <2> HIDE DEF value
  <2>4. /\ new \in CallType /\ new.at = "cloned" /\ new.reply = "ok" /\ new.value = value
        /\ new.kind = call.kind /\ new.refs = call.refs /\ new.i = call.i /\ new.target = call.target
        /\ new.rt = call.rt /\ new.source = call.source /\ new.held = call.held /\ new.own = call.own
        /\ new.todo = call.todo /\ new.shape = call.shape /\ new.rest = call.rest
    BY <2>3 DEF CallType, Moving
  <2> HIDE DEF new
  <2>5. CallOK(new)
    <3>1. Stage(new) = "cloned"
      BY <2>4 DEF Stage
    <3>2. StageOK(new, "cloned")
      BY <2>4 DEF StageOK, Idle, Moving
    <3>3. ReplyOK(new)
      BY <2>4 DEF ReplyOK, Idle, Ops
    <3> QED
      BY <3>1, <3>2, <3>3 DEF CallOK
  <2>6. Within(new, Len(placements), Len(runtimes'), Len(logical))
    <3>1. Points(new, Len(placements), Len(runtimes'), Len(logical))
      BY <2>1, <2>4 DEF Points, Moving
    <3> QED
      BY <2>2, <2>3, <2>4, <3>1 DEF Within
  <2>7. RunTurn(c, new, P)
    BY <2>1 DEF RunTurn
  <2>8. new.source = 0 /\ new.held = calls[c].held \o near /\ Unheard(new)
    BY <2>4 DEF Moving, Unheard
  <2> QED
    BY <1>1, <2>1, <2>4, <2>5, <2>6, <2>7, <2>8, NearTurn
<1>4. CASE Existing(e.placements, n, call.target) = {}
  <2> DEFINE from == [call EXCEPT !.source = n]
  <2>1. /\ placements' = Lent(e.placements, n)
        /\ Reach(c, from, Seen(P).profiles, placements[n].profile, "exportBREP")
    BY <1>4 DEF Clone
  <2>2. n \in Nat /\ n # 0 /\ placements[n].profile \in Profile
    BY <1>1, <1>2, Lens DEF PlacementType
  <2>3. /\ from \in CallType /\ from.source = n
        /\ from.kind = call.kind /\ from.refs = call.refs /\ from.i = call.i /\ from.target = call.target
        /\ from.rt = call.rt /\ from.held = call.held /\ from.own = call.own
        /\ from.todo = call.todo /\ from.shape = call.shape /\ from.rest = call.rest
    BY <2>2 DEF CallType, Moving
  <2> HIDE DEF from
  <2>4. StageOK(from, "exportBREP") /\ "exportBREP" \in Ops
    BY <2>2, <2>3 DEF StageOK, Ops, Idle, Moving
  <2>5. Points(from, Len(placements), Len(runtimes), Len(logical))
    <3>1. n \in 0 .. Len(placements)
      BY <1>2, <2>2
    <3> QED
      BY <2>3, <3>1 DEF Points, Moving
  <2>6. PICK new : Leads(c, from, new) /\ RunTurn(c, new, P)
    BY <1>1, <2>1, <2>2, <2>3, <2>4, <2>5, ReachIs
  <2>7. /\ new \in CallType /\ CallOK(new) /\ Within(new, Len(placements), Len(runtimes'), Len(logical))
        /\ Unheard(new) /\ new.held = from.held /\ new.source = from.source /\ calls' = [calls EXCEPT ![c] = new]
    BY <2>6 DEF Leads, Keeps
  <2>8. new.source = n /\ new.held = calls[c].held \o near
    BY <2>3, <2>7
  <2> QED
    BY <1>1, <2>1, <2>6, <2>7, <2>8, NearTurn
<1> QED
  BY <1>3, <1>4

LEMMA NearReachTurn ==
  ASSUME EngineInv, NEW c \in Call, Free(c), calls[c].source = 0, NEW P, NEW near, Near(P, near, placements'),
         UNCHANGED <<logical, shapes, phase>>, NEW call \in CallType, NEW op \in Ops, StageOK(call, op),
         call.held = calls[c].held \o near, call.source = 0,
         Points(call, Len(placements), Len(runtimes), Len(logical)),
         NEW p \in Profile, Reach(c, call, Seen(P).profiles, p, op)
  PROVE  \E new : Turn(c, new, P)
<1>1. DataTyped
  BY CallIs
<1>2. PICK new : Leads(c, call, new) /\ RunTurn(c, new, P)
  BY <1>1, ReachIs
<1>3. /\ new \in CallType /\ CallOK(new) /\ Within(new, Len(placements), Len(runtimes'), Len(logical))
      /\ Unheard(new) /\ new.held = call.held /\ new.source = call.source /\ calls' = [calls EXCEPT ![c] = new]
  BY <1>2 DEF Leads, Keeps
<1>4. new.source = 0 /\ new.held = calls[c].held \o near
  BY <1>3
<1> QED
  BY <1>2, <1>3, <1>4, NearTurn

LEMMA FirstForeignIs ==
  ASSUME DataTyped, NEW call, Moving(call)
  PROVE  LET j == FirstForeign(call) IN
         /\ j \in Nat
         /\ j <= Len(call.refs) => j \in 1 .. Len(call.refs)
         /\ SubSeq(call.refs, call.i, j - 1) \in Seq(1 .. Len(placements))
<1> DEFINE F == {k \in call.i .. Len(call.refs) : placements[call.refs[k]].profile # call.target}
           T == F \cup {Len(call.refs) + 1}
           j == FirstForeign(call)
<1>1. /\ call.refs \in Seq(1 .. Len(placements)) /\ Len(call.refs) \in Nat /\ call.i \in Nat \ {0}
      /\ \A k \in 1 .. Len(call.refs) : call.refs[k] \in 1 .. Len(placements)
  BY SMTT(60) DEF Moving, Points, CallType
<1>2. T \in SUBSET Nat /\ T # {} /\ \A k \in T : k >= 1 /\ k <= Len(call.refs) + 1
  BY <1>1
<1>3. j = Min(T)
  BY DEF FirstForeign
<1> HIDE DEF T, j
<1>4. j \in T /\ j \in Nat
  BY <1>2, <1>3, LeastExists
<1>5. j >= 1 /\ j <= Len(call.refs) + 1
  BY <1>2, <1>4
<1>6. \A k \in call.i .. j - 1 : call.refs[k] \in 1 .. Len(placements)
  BY <1>1, <1>4, <1>5
<1>7. SubSeq(call.refs, call.i, j - 1) \in Seq(1 .. Len(placements))
  <2>1. j - 1 \in Int /\ call.i \in Int
    BY <1>1, <1>4
  <2> QED
    BY <1>6, <2>1, SubSeqProperties
<1> QED
  BY <1>1, <1>4, <1>5, <1>7 DEF j

LEMMA MoreIs ==
  ASSUME NEW call, Moving(call), NEW near \in Seq(1 .. Len(placements)), NEW j \in Nat
  PROVE  LET more == [call EXCEPT !.i = j + 1, !.held = @ \o near, !.value = <<>>] IN
         Moving(more) /\ more.held = call.held \o near
<1> DEFINE i == j + 1
           held == call.held \o near
           more == [call EXCEPT !.i = i, !.held = held, !.value = <<>>]
<1>1. i \in Nat /\ i # 0 /\ <<>> \in Seq(Nat)
  OBVIOUS
<1>2. held \in Seq(1 .. Len(placements)) /\ held \in Seq(Nat)
  <2>1. call.held \in Seq(1 .. Len(placements)) /\ call.held \in Seq(Nat) /\ near \in Seq(Nat)
    BY DEF Moving, Points, CallType
  <2> QED
    BY <2>1
<1> HIDE DEF i, held
<1>3. /\ more \in CallType /\ more.i = i /\ more.held = held
      /\ more.kind = call.kind /\ more.target = call.target /\ more.source = call.source /\ more.todo = call.todo
      /\ more.own = call.own /\ more.refs = call.refs /\ more.rt = call.rt /\ more.shape = call.shape
      /\ more.rest = call.rest
  BY <1>1, <1>2 DEF Moving, CallType
<1> HIDE DEF more
<1>4. Moving(more)
  BY <1>1, <1>2, <1>3 DEF Moving, Points
<1> QED
  BY <1>3, <1>4 DEF more, i, held

\* A call that has all its inputs asks for the operation; without inputs it opens a scope.
LEMMA ScopeOf ==
  ASSUME NEW more, Moving(more), NEW s \in Nat
  PROVE  LET x == [more EXCEPT !.scope = s] IN
         /\ x \in CallType /\ StageOK(x, "op") /\ Points(x, Len(placements), Len(runtimes), Len(logical))
         /\ x.held = more.held /\ x.source = 0
<1> DEFINE x == [more EXCEPT !.scope = s]
<1>1. /\ x \in CallType /\ x.kind = more.kind /\ x.target = more.target /\ x.source = more.source
      /\ x.todo = more.todo /\ x.own = more.own /\ x.refs = more.refs /\ x.rt = more.rt /\ x.held = more.held
      /\ x.shape = more.shape /\ x.rest = more.rest /\ x.i = more.i
  BY DEF Moving, CallType
<1> HIDE DEF x
<1>2. StageOK(x, "op") /\ Points(x, Len(placements), Len(runtimes), Len(logical)) /\ x.source = 0
  BY <1>1 DEF StageOK, Idle, Moving, Points
<1> QED
  BY <1>1, <1>2 DEF x

LEMMA OwnScope ==
  ASSUME NEW more, Moving(more)
  PROVE  LET x == [more EXCEPT !.own = TRUE] IN
         /\ x \in CallType /\ StageOK(x, "beginScope") /\ Points(x, Len(placements), Len(runtimes), Len(logical))
         /\ x.held = more.held /\ x.source = 0
<1> DEFINE x == [more EXCEPT !.own = TRUE]
<1>1. /\ x \in CallType /\ x.kind = more.kind /\ x.target = more.target /\ x.source = more.source
      /\ x.todo = more.todo /\ x.own = TRUE /\ x.refs = more.refs /\ x.rt = more.rt /\ x.held = more.held
      /\ x.shape = more.shape /\ x.rest = more.rest /\ x.i = more.i
  BY DEF Moving, CallType
<1> HIDE DEF x
<1>2. StageOK(x, "beginScope") /\ Points(x, Len(placements), Len(runtimes), Len(logical)) /\ x.source = 0
  BY <1>1 DEF StageOK, Idle, Moving, Points
<1> QED
  BY <1>1, <1>2 DEF x

LEMMA InputsTurn ==
  ASSUME EngineInv, NEW c \in Call, Free(c), calls[c].source = 0,
         NEW call, Moving(call), call.held = calls[c].held,
         NEW cloned \in Seq(1 .. Len(placements)), Inputs(c, call, cloned)
  PROVE  \E new, P : Turn(c, new, P)
<1> DEFINE j == FirstForeign(call)
           near == cloned \o SubSeq(call.refs, call.i, j - 1)
           looked == Range(near) \cup IF j <= Len(call.refs) THEN {call.refs[j]} ELSE {}
           P == {placements[n].profile : n \in looked}
           Q == P \cup {call.target}
           more == [call EXCEPT !.i = j + 1, !.held = @ \o near, !.value = <<>>]
           e == [Seen(P) EXCEPT !.placements = Leased(@, near, 1)]
<1>1. \/ Finally(c, call, P, "failed")
      \/ /\ \A n \in looked : IsLive(Seen(P).placements, n)
         /\ j <= Len(call.refs)
         /\ Clone(c, more, e, call.refs[j])
      \/ /\ j > Len(call.refs)
         /\ placements' = Leased(Seen(Q).placements, near, 1)
         /\ \/ /\ more.held # <<>>
               /\ Reach(c, [more EXCEPT !.scope = placements[more.held[1]].scope],
                        Seen(Q).profiles, call.target, "op")
            \/ Reach(c, [more EXCEPT !.own = TRUE], Seen(Q).profiles, call.target, "beginScope")
         /\ UNCHANGED <<logical, shapes, scopeRefs, phase, awaited, losses>>
  BY Zenon DEF Inputs
<1>2. DataTyped
  BY CallIs
<1>3. /\ j \in Nat /\ (j <= Len(call.refs) => call.refs[j] \in looked /\ call.refs[j] \in 1 .. Len(placements))
      /\ near \in Seq(1 .. Len(placements))
  <2>1. /\ j \in Nat /\ (j <= Len(call.refs) => j \in 1 .. Len(call.refs))
        /\ SubSeq(call.refs, call.i, j - 1) \in Seq(1 .. Len(placements))
    BY <1>2, FirstForeignIs
  <2>2. call.refs \in Seq(1 .. Len(placements))
    BY DEF Moving, Points
  <2> HIDE DEF j
  <2> QED
    BY <2>1, <2>2
<1> HIDE DEF j, near
<1>4. Moving(more) /\ more.held = calls[c].held \o near
  <2>1. j \in Nat /\ near \in Seq(1 .. Len(placements)) /\ Moving(call)
    BY <1>3
  <2>2. Moving(more) /\ more.held = call.held \o near
    BY ONLY <2>1, MoreIs
  <2> HIDE DEF more
  <2> QED
    BY <2>2
<1> HIDE DEF more, looked
<1>5. call.target \in Profile
  BY DEF Moving
<1>6. CASE Finally(c, call, P, "failed")
  <2>1. call.source = calls[c].source
    BY DEF Moving
  <2> HIDE DEF P
  <2> QED
    BY <1>6, <2>1, FinallyTurn
<1>7. CASE /\ \A n \in looked : IsLive(Seen(P).placements, n)
           /\ j <= Len(call.refs)
           /\ Clone(c, more, e, call.refs[j])
  <2>1. e.profiles = Seen(P).profiles /\ e.placements = Leased(Seen(P).placements, near, 1)
    BY DEF Seen
  <2>2. call.refs[j] \in 1 .. Len(placements) /\ IsLive(Seen(P).placements, call.refs[j])
    BY <1>3, <1>7
  <2>3. Near(P, near, e.placements)
    BY <1>2, <1>3, <2>1, NearIs
  <2> HIDE DEF e, P
  <2>4. e.profiles = Seen(P).profiles /\ Near(P, near, e.placements) /\ Clone(c, more, e, call.refs[j])
    BY <1>7, <2>1, <2>3
  <2>5. \E new : Turn(c, new, P)
    BY <1>4, <2>2, <2>4, CloneTurn
  <2> QED
    BY <2>5
<1>8. ASSUME placements' = Leased(Seen(Q).placements, near, 1)
      PROVE  Near(Q, near, placements')
  BY <1>2, <1>3, <1>8, NearIs
<1>9. CASE /\ placements' = Leased(Seen(Q).placements, near, 1) /\ more.held # <<>>
           /\ Reach(c, [more EXCEPT !.scope = placements[more.held[1]].scope],
                    Seen(Q).profiles, call.target, "op")
           /\ UNCHANGED <<logical, shapes, scopeRefs, phase, awaited, losses>>
  <2> DEFINE s == placements[more.held[1]].scope
             x == [more EXCEPT !.scope = s]
  <2>1. s \in Nat
    <3>1. more.held[1] \in 1 .. Len(placements)
      <4>1. more.held \in Seq(1 .. Len(placements)) /\ more.held # <<>>
        BY <1>4, <1>9 DEF Moving, Points
      <4> QED
        BY ONLY <4>1
    <3> QED
      BY <1>2, <3>1, Lens DEF PlacementType
  <2>2. Near(Q, near, placements') /\ Reach(c, x, Seen(Q).profiles, call.target, "op") /\ UNCHANGED <<logical, shapes, phase>>
    BY <1>8, <1>9
  <2> HIDE DEF s
  <2>3. /\ x \in CallType /\ StageOK(x, "op") /\ Points(x, Len(placements), Len(runtimes), Len(logical))
        /\ x.held = more.held /\ x.source = 0
    BY <1>4, <2>1, ScopeOf
  <2> HIDE DEF x, Q
  <2>4. "op" \in Ops /\ x.held = calls[c].held \o near
    BY <1>4, <2>3 DEF Ops
  <2> QED
    BY <1>5, <2>2, <2>3, <2>4, NearReachTurn
<1>10. CASE /\ placements' = Leased(Seen(Q).placements, near, 1)
            /\ Reach(c, [more EXCEPT !.own = TRUE], Seen(Q).profiles, call.target, "beginScope")
            /\ UNCHANGED <<logical, shapes, scopeRefs, phase, awaited, losses>>
  <2> DEFINE x == [more EXCEPT !.own = TRUE]
  <2>1. /\ Near(Q, near, placements') /\ Reach(c, x, Seen(Q).profiles, call.target, "beginScope")
        /\ UNCHANGED <<logical, shapes, phase>>
    BY <1>8, <1>10
  <2>2. /\ x \in CallType /\ StageOK(x, "beginScope") /\ Points(x, Len(placements), Len(runtimes), Len(logical))
        /\ x.held = more.held /\ x.source = 0
    BY <1>4, OwnScope
  <2> HIDE DEF x, Q
  <2>3. "beginScope" \in Ops /\ x.held = calls[c].held \o near
    BY <1>4, <2>2 DEF Ops
  <2> QED
    BY <1>5, <2>1, <2>2, <2>3, NearReachTurn
<1> QED
  <2> HIDE DEF e, P, Q
  <2> QED
    BY <1>1, <1>6, <1>7, <1>9, <1>10

LEMMA TargetIs ==
  ASSUME DataTyped, NEW c \in Call, NEW refs \in Seq(1 .. Len(placements)), NEW ps
  PROVE  Target(c, refs, ps) \in Profile
<1> DEFINE own == {placements[n].profile : n \in Range(refs)}
           common == {k \in DOMAIN Eligible[c] : \A n \in Range(refs) : Existing(ps, n, Eligible[c][k]) # {}}
<1>1. \/ Cardinality(own) = 1 /\ Target(c, refs, ps) = placements[refs[1]].profile
      \/ common # {} /\ Target(c, refs, ps) = Eligible[c][Min(common)]
      \/ Target(c, refs, ps) = Eligible[c][1]
  BY Zenon DEF Target
<1>2. CASE Cardinality(own) = 1 /\ Target(c, refs, ps) = placements[refs[1]].profile
  <2>1. refs # <<>>
    <3>1. ASSUME refs = <<>>
          PROVE  FALSE
      <4>1. Range(refs) = {}
        BY <3>1 DEF Range
      <4>2. own = {}
        BY <4>1
      <4> HIDE DEF own
      <4> QED
        BY <1>2, <4>2, FS_EmptySet
    <3> QED
      BY <3>1
  <2>2. refs[1] \in 1 .. Len(placements)
    BY <2>1
  <2> QED
    BY <1>2, <2>2, Lens DEF PlacementType
<1>3. CASE common # {} /\ Target(c, refs, ps) = Eligible[c][Min(common)]
  <2>1. Eligible[c] \in Seq(Profile)
    BY EligibleIs
  <2>2. common \subseteq 1 .. Len(Eligible[c]) /\ common \in SUBSET Nat
    BY <2>1
  <2> HIDE DEF common
  <2>3. Min(common) \in common
    BY <1>3, <2>2, LeastExists
  <2> QED
    BY <1>3, <2>2, <2>3, EligibleIs
<1>4. CASE Target(c, refs, ps) = Eligible[c][1]
  <2>1. Len(Eligible[c]) # 0
    BY EligibleIs
  <2>2. 1 \in 1 .. Len(Eligible[c])
    BY <2>1, EligibleIs
  <2> QED
    BY <1>4, <2>2, EligibleIs
<1> QED
  BY <1>1, <1>2, <1>3, <1>4

LEMMA RefsAre ==
  ASSUME DataTyped
  PROVE  Refs \subseteq 1 .. Len(placements)
BY Lens DEF Refs

\* A call that begins with its inputs.
LEMMA BeginsMoving ==
  ASSUME DataTyped, NEW kind \in {"request", "cloneTo"}, NEW refs \in Seq(1 .. Len(placements)), NEW q \in Profile
  PROVE  /\ Moving([Unbegun EXCEPT !.kind = kind, !.refs = refs, !.target = q])
         /\ [Unbegun EXCEPT !.kind = kind, !.refs = refs, !.target = q].held = <<>>
<1> DEFINE x == [Unbegun EXCEPT !.kind = kind, !.refs = refs, !.target = q]
<1>1. refs \in Seq(Nat) /\ kind \in AllKinds
  BY DEF AllKinds
<1>2. /\ x \in CallType /\ x.kind = kind /\ x.refs = refs /\ x.target = q /\ x.source = 0 /\ x.held = <<>>
      /\ x.own = FALSE /\ x.todo = {} /\ x.rt = 0 /\ x.shape = 0 /\ x.rest = {} /\ x.i = 1
  BY <1>1, UnbegunIs DEF CallType
<1> HIDE DEF x
<1>3. Len(placements) \in Nat /\ Len(runtimes) \in Nat /\ Len(logical) \in Nat
  BY Lens
<1>4. Points(x, Len(placements), Len(runtimes), Len(logical))
  BY ONLY <1>2, <1>3, refs \in Seq(1 .. Len(placements)) DEF Points
<1> QED
  BY <1>2, <1>4 DEF Moving, x

LEMMA RequestTurn ==
  ASSUME EngineInv, NEW c \in Call, Request(c)
  PROVE  \E new, P : Turn(c, new, P)
<1>1. Free(c) /\ calls[c].held = <<>> /\ calls[c].source = 0 /\ DataTyped
  BY NotBegun, CallIs DEF Request
<1>2. PICK refs \in UNION {[1 .. k -> Refs] : k \in 0 .. MaxInputs} :
        LET ps == Seen({placements[n].profile : n \in Range(refs)}).placements IN
        Inputs(c, [Unbegun EXCEPT !.kind = "request", !.refs = refs, !.target = Target(c, refs, ps)], <<>>)
  BY Zenon DEF Request
<1> DEFINE ps == Seen({placements[n].profile : n \in Range(refs)}).placements
           q == Target(c, refs, ps)
           call == [Unbegun EXCEPT !.kind = "request", !.refs = refs, !.target = q]
<1>3. refs \in Seq(1 .. Len(placements))
  <2>1. PICK k \in 0 .. MaxInputs : refs \in [1 .. k -> Refs]
    OBVIOUS
  <2>2. k \in Nat /\ Refs \subseteq 1 .. Len(placements)
    BY <1>1, EngineAssumption, RefsAre
  <2> QED
    <3>1. refs \in [1 .. k -> 1 .. Len(placements)]
      BY ONLY <2>1, <2>2
    <3> QED
      BY ONLY <2>2, <3>1
<1>4. Inputs(c, call, <<>>)
  BY <1>2
<1> HIDE DEF ps
<1>5. q \in Profile
  BY <1>1, <1>3, TargetIs
<1> HIDE DEF q
<1>6. Moving(call) /\ call.held = <<>>
  BY <1>1, <1>3, <1>5, BeginsMoving
<1> HIDE DEF call
<1>7. <<>> \in Seq(1 .. Len(placements)) /\ call.held = calls[c].held
  BY <1>1, <1>6
<1> QED
  BY <1>1, <1>4, <1>6, <1>7, InputsTurn

LEMMA CloneToTurn ==
  ASSUME EngineInv, NEW c \in Call, CloneTo(c)
  PROVE  \E new, P : Turn(c, new, P)
<1>1. Free(c) /\ calls[c].held = <<>> /\ calls[c].source = 0 /\ DataTyped
  BY NotBegun, CallIs DEF CloneTo
<1>2. PICK n \in Refs, q \in Profile :
        /\ IsLive(Seen({placements[n].profile}).placements, n)
        /\ Clone(c, [Unbegun EXCEPT !.kind = "cloneTo", !.target = q], Seen({placements[n].profile}), n)
  BY DEF CloneTo
<1> DEFINE call == [Unbegun EXCEPT !.kind = "cloneTo", !.target = q]
           P == {placements[n].profile}
           e == Seen(P)
<1>3. n \in 1 .. Len(placements)
  BY <1>1, RefsAre
<1>4. Moving(call) /\ call.held = <<>>
  <2>1. /\ call \in CallType /\ call.kind = "cloneTo" /\ call.refs = <<>> /\ call.target = q /\ call.source = 0
        /\ call.held = <<>> /\ call.own = FALSE /\ call.todo = {} /\ call.rt = 0 /\ call.shape = 0
        /\ call.rest = {} /\ call.i = 1
    BY UnbegunIs DEF CallType, AllKinds
  <2> HIDE DEF call
  <2>2. Len(placements) \in Nat /\ Len(runtimes) \in Nat /\ Len(logical) \in Nat
    BY <1>1, Lens
  <2>3. Points(call, Len(placements), Len(runtimes), Len(logical))
    BY ONLY <2>1, <2>2 DEF Points
  <2> QED
    BY <2>1, <2>3 DEF Moving
<1>5. Clone(c, call, e, n) /\ IsLive(e.placements, n)
  BY <1>2
<1> HIDE DEF call, P
<1>6. Near(P, <<>>, e.placements)
  BY <1>1, NothingNear
<1>7. call.held = calls[c].held \o <<>>
  BY <1>1, <1>4
<1>8. e.profiles = Seen(P).profiles /\ IsLive(Seen(P).placements, n)
  BY <1>5
<1> HIDE DEF e
<1> QED
  BY <1>1, <1>3, <1>4, <1>5, <1>6, <1>7, <1>8, CloneTurn

LEMMA ClonedTurn ==
  ASSUME EngineInv, NEW c \in Call, Cloned(c)
  PROVE  \E new, P : Turn(c, new, P)
<1>1. Goes(c, "cloned")
  BY DEF Cloned
<1>2. Free(c) /\ calls[c].at = "cloned" /\ StageOK(calls[c], "cloned")
  BY <1>1, GoesOn
<1>3. CASE Finally(c, calls[c], {}, "done")
  BY <1>2, <1>3, FinallyTurn
<1>4. CASE Inputs(c, [calls[c] EXCEPT !.rt = 0, !.scope = 0, !.next = "none"], <<TheValue(c)>>)
  <2> DEFINE x == calls[c]
             call == [x EXCEPT !.rt = 0, !.scope = 0, !.next = "none"]
             cloned == <<TheValue(c)>>
  <2>1. /\ x \in CallType /\ Points(x, Len(placements), Len(runtimes), Len(logical)) /\ DataTyped
        /\ Within(x, Len(placements), Len(runtimes), Len(logical)) /\ StageOK(x, "cloned")
    BY <1>2, CallIs
  <2>2. TheValue(c) \in 1 .. Len(placements)
    BY <1>2, <2>1 DEF Within, TheValue
  <2>3. Len(runtimes) \in Nat
    BY <2>1, Lens
  <2>4. calls[c].source = 0 /\ calls[c].held = x.held
    BY <2>1 DEF StageOK
  <2>5. Inputs(c, call, cloned)
    BY <1>4
  <2> HIDE DEF x
  <2>6. /\ call \in CallType /\ call.kind = x.kind /\ call.refs = x.refs /\ call.i = x.i /\ call.target = x.target
        /\ call.rt = 0 /\ call.source = x.source /\ call.held = x.held /\ call.own = x.own
        /\ call.todo = x.todo /\ call.shape = x.shape /\ call.rest = x.rest
    BY <2>1 DEF CallType
  <2> HIDE DEF call
  <2>7. Points(call, Len(placements), Len(runtimes), Len(logical))
    BY <2>1, <2>3, <2>6 DEF Points
  <2>8. Moving(call)
    BY <2>1, <2>6, <2>7 DEF Moving, StageOK, Idle
  <2>9. cloned \in Seq(1 .. Len(placements)) /\ call.held = calls[c].held
    BY <2>2, <2>4, <2>6
  <2> HIDE DEF cloned
  <2> QED
    BY <1>2, <2>4, <2>5, <2>8, <2>9, InputsTurn
<1> QED
  BY <1>3, <1>4 DEF Cloned

-----------------------------------------------------------------------------
(* Results: placements are recorded.                                       *)

Concat(S, s, a, b) ==
  /\ s \in Seq(S) /\ Len(s) = Len(a) + Len(b) /\ Len(a) \in Nat /\ Len(b) \in Nat
  /\ \A i \in 1 .. Len(a) : s[i] = a[i]
  /\ \A i \in Len(a) + 1 .. Len(a) + Len(b) : i - Len(a) \in 1 .. Len(b) /\ s[i] = b[i - Len(a)]

LEMMA Joined ==
  ASSUME NEW S, NEW a \in Seq(S), NEW b \in Seq(S), NEW s, s = a \o b
  PROVE  Concat(S, s, a, b)
BY DEF Concat

\* Placements, and shapes for them, are added to those there are.
LEMMA Grows ==
  ASSUME DataTyped, NEW c \in Call, NEW new, NEW P,
         NEW old \in Seq(PlacementType), Len(old) = Len(placements), NEW fresh \in Seq(PlacementType),
         placements' = old \o fresh, phase' = phase,
         \A n \in 1 .. Len(placements) : Moves(c, new, P, n),
         logical' \in Seq(SUBSET Nat), Len(logical) <= Len(logical'),
         \A s \in 1 .. Len(logical') : logical'[s] \subseteq 1 .. Len(placements'),
         \A s \in 1 .. Len(logical) : logical'[s] \cap (1 .. Len(placements)) \subseteq logical[s],
         shapes' \subseteq 1 .. Len(logical'), shapes' \cap (1 .. Len(logical)) \subseteq shapes,
         \A i \in 1 .. Len(fresh) :
           /\ fresh[i].shape \in 1 .. Len(logical') /\ fresh[i].state = "live" /\ fresh[i].leaseCount = 0
           /\ fresh[i].epoch = Seen(P).profiles[fresh[i].profile].epoch
           /\ MadeBy(c, fresh[i], P) /\ HandleOf(c, fresh[i], i),
         new.held \in Seq(1 .. Len(placements)), new.source \in 0 .. Len(placements),
         new.todo \subseteq 1 .. Len(placements)
  PROVE  PlaceTurn(c, new, P)
<1>1. /\ Len(placements) \in Nat /\ Len(logical) \in Nat /\ Len(logical') \in Nat /\ Len(fresh) \in Nat
      /\ \A n \in 1 .. Len(placements) : placements[n].shape \in 1 .. Len(logical)
      /\ phase \in {"open", "closing", "closed"}
  BY Lens DEF DataTyped, PlacementsTyped, ShapesTyped
<1>2. /\ placements' \in Seq(PlacementType) /\ Len(placements') = Len(placements) + Len(fresh)
      /\ \A n \in 1 .. Len(placements) : placements'[n] = old[n]
      /\ \A n \in Len(placements) + 1 .. Len(placements') :
           n - Len(placements) \in 1 .. Len(fresh) /\ placements'[n] = fresh[n - Len(placements)]
  <2>1. placements' = old \o fresh /\ Len(old) = Len(placements)
    OBVIOUS
  <2>2. Concat(PlacementType, placements', old, fresh)
    BY <2>1, Joined
  <2> QED
    BY ONLY <1>1, <2>1, <2>2 DEF Concat
<1>3. ASSUME NEW n \in 1 .. Len(placements)
      PROVE  placements'[n].shape = placements[n].shape /\ (Kept(n)' => Kept(n))
  <2>1. placements'[n].shape = placements[n].shape
    BY DEF Moves, Alike
  <2> QED
    BY <1>1, <2>1 DEF Kept
<1>4. ASSUME NEW n \in 1 .. Len(placements)
      PROVE  LET x == placements[n]
                 y == placements'[n]
             IN /\ y.profile = x.profile /\ y.epoch = x.epoch /\ y.origin = x.origin /\ y.handle = x.handle
                /\ Kept(n)' => Kept(n)
                /\ y.state # "invalid" /\ Kept(n) => x.state # "invalid" /\ ~Lost(x.profile, P)
                /\ y.state = "transferring" /\ Kept(n)' /\ phase = "open" =>
                     new.source = n \/ (x.state = "transferring" /\ calls[c].source # n)
                /\ y.leaseCount = x.leaseCount - Cardinality(LeasedBy(calls[c], n))
                                    + Cardinality(LeasedBy(new, n))
  <2>1. Moves(c, new, P, n) /\ (Kept(n)' => Kept(n))
    BY <1>3
  <2> QED
    BY <2>1, Zenon DEF Moves, Alike
<1>5. PlacementsTyped'
  <2>1. ASSUME NEW n \in 1 .. Len(placements')
        PROVE  placements'[n].shape \in 1 .. Len(logical')
    <3>1. CASE n \in 1 .. Len(placements)
      <4>1. placements'[n].shape \in 1 .. Len(logical)
        BY <1>1, <1>3, <3>1
      <4> QED
        BY <1>1, <4>1
    <3>2. CASE n \in Len(placements) + 1 .. Len(placements')
      BY <1>2, <3>2
    <3> QED
      BY <1>1, <1>2, <3>1, <3>2
  <2> QED
    BY <1>2, <2>1 DEF PlacementsTyped
<1>6. ShapesTyped'
  BY <1>1 DEF ShapesTyped
<1>7. ASSUME NEW n \in Len(placements) + 1 .. Len(placements')
      PROVE  /\ placements'[n].epoch = Seen(P).profiles[placements'[n].profile].epoch
             /\ placements'[n].state = "live" /\ placements'[n].leaseCount = 0
             /\ n \notin Range(new.held) \cup new.todo /\ new.source # n
             /\ MadeBy(c, placements'[n], P) /\ HandleOf(c, placements'[n], n - Len(placements))
  <2>1. n \notin 0 .. Len(placements)
    BY <1>1, <1>2
  <2>2. Range(new.held) \subseteq 1 .. Len(placements)
    BY DEF Range
  <2>3. n \notin Range(new.held) \cup new.todo /\ new.source # n
    BY <1>1, <2>1, <2>2
  <2>4. n - Len(placements) \in 1 .. Len(fresh) /\ placements'[n] = fresh[n - Len(placements)]
    BY <1>2
  <2> QED
    BY <2>3, <2>4
<1>8. Len(placements) <= Len(placements') /\ Len(logical) <= Len(logical')
  BY <1>1, <1>2
<1> QED
  BY <1>4, <1>5, <1>6, <1>7, <1>8 DEF PlaceTurn

FreshPlacement(x, p, epoch, h, shape, r) ==
  /\ x \in PlacementType /\ x.profile = p /\ x.epoch = epoch /\ x.handle = h /\ x.shape = shape
  /\ x.state = "live" /\ x.leaseCount = 0 /\ x.origin = <<r, runtimes[r].kernel.epoch>>

LEMMA PlacementIs ==
  ASSUME DataTyped, NEW p \in Profile, NEW epoch \in Nat, NEW h \in Nat, NEW s \in Nat, NEW shape \in Nat,
         NEW r \in 1 .. Len(runtimes)
  PROVE  FreshPlacement(Placement(p, epoch, h, s, shape, r), p, epoch, h, shape, r)
<1>1. runtimes[r].kernel.epoch \in Nat /\ r \in Nat
  <2>1. runtimes[r] \in RuntimeType
    BY DEF DataTyped, RuntimesTyped
  <2>2. runtimes[r].kernel \in Kernels
    BY <2>1 DEF RuntimeType
  <2> QED
    BY <2>2 DEF Kernels
<1> QED
  BY <1>1 DEF Placement, PlacementType, FreshPlacement

LEMMA AttachedTurn ==
  ASSUME EngineInv, NEW c \in Call, Free(c), calls[c].source = 0, calls[c].target \in Profile,
         calls[c].rt \in 1 .. Len(runtimes), calls[c].at \in {"make", "op"}, Ok(c), phase = "open", Attached(c)
  PROVE  \E new, P : Turn(c, new, P)
<1> DEFINE call == calls[c]
           p == call.target
           e == Seen({p})
           handles == call.value
           old == Leased(e.placements, call.held, -1)
           fresh == [k \in DOMAIN handles |-> Placement(p, e.profiles[p].epoch, handles[k], call.scope,
                                                          Len(logical) + k, call.rt)]
           added == [k \in DOMAIN handles |-> {Len(placements) + k}]
           new == Ended("done")
<1>1. /\ placements' = old \o fresh /\ logical' = logical \o added
      /\ shapes' = shapes \cup {Len(logical) + k : k \in DOMAIN handles}
      /\ profiles' = Seen({p}).profiles /\ calls' = [calls EXCEPT ![c] = new]
      /\ UNCHANGED <<runtimes, phase, awaited, losses>>
  BY DEF Attached
<1>2. /\ DataTyped /\ call.held \in Seq(Nat) /\ call.held \in Seq(1 .. Len(placements)) /\ handles \in Seq(Nat)
      /\ call.scope \in Nat
  BY CallIs DEF CallType, Points
<1>3. /\ Len(placements) \in Nat /\ Len(logical) \in Nat /\ Len(runtimes) \in Nat /\ Len(handles) \in Nat
      /\ DOMAIN handles = 1 .. Len(handles)
  BY <1>2, Lens
<1>4. e.placements \in Seq(PlacementType) /\ Len(e.placements) = Len(placements) /\ e.profiles[p].epoch \in Nat
  BY <1>2, SeenIs DEF ProfileType
<1>5. /\ old \in Seq(PlacementType) /\ Len(old) = Len(placements)
      /\ \A n \in 1 .. Len(placements) :
           /\ Alike(e.placements[n], old[n])
           /\ old[n].leaseCount = e.placements[n].leaseCount - Times(n, call.held)
           /\ old[n].state = e.placements[n].state
  <2> DEFINE ps == e.placements
             ns == call.held
  <2>1. ps \in Seq(PlacementType) /\ Len(ps) = Len(placements) /\ ns \in Seq(Nat) /\ old = Leased(ps, ns, -1)
    BY <1>2, <1>4
  <2> HIDE DEF ps, ns, old
  <2>2. /\ Leased(ps, ns, -1) \in Seq(PlacementType) /\ Len(Leased(ps, ns, -1)) = Len(ps)
        /\ \A n \in 1 .. Len(ps) :
             /\ Alike(ps[n], Leased(ps, ns, -1)[n])
             /\ Leased(ps, ns, -1)[n].leaseCount = ps[n].leaseCount - Times(n, ns)
             /\ Leased(ps, ns, -1)[n].state = ps[n].state
    BY <2>1, LeasesBack
  <2>3. /\ old \in Seq(PlacementType) /\ Len(old) = Len(placements)
        /\ \A n \in 1 .. Len(placements) :
             /\ Alike(ps[n], old[n])
             /\ old[n].leaseCount = ps[n].leaseCount - Times(n, ns)
             /\ old[n].state = ps[n].state
    BY ONLY <2>1, <2>2
  <2> QED
    BY <2>3 DEF ps, ns
<1>6. ASSUME NEW k \in 1 .. Len(handles)
      PROVE  FreshPlacement(Placement(p, e.profiles[p].epoch, handles[k], call.scope, Len(logical) + k, call.rt),
                            p, e.profiles[p].epoch, handles[k], Len(logical) + k, call.rt)
  <2> DEFINE epoch == e.profiles[p].epoch
             h == handles[k]
             s == call.scope
             shape == Len(logical) + k
             r == call.rt
  <2>1. /\ s \in Nat /\ epoch \in Nat /\ r \in 1 .. Len(runtimes)
        /\ p \in Profile /\ DataTyped
    BY <1>2, <1>4
  <2>3. h \in Nat /\ shape \in Nat
    <3> HIDE DEF handles
    <3> QED
      BY <1>2, <1>3
  <2> HIDE DEF epoch, h, s, shape, r, p
  <2>2. FreshPlacement(Placement(p, epoch, h, s, shape, r), p, epoch, h, shape, r)
    BY ONLY <2>1, <2>3, PlacementIs
  <2> QED
    BY <2>2 DEF epoch, h, s, shape, r, p
<1>7. /\ fresh \in Seq(PlacementType) /\ Len(fresh) = Len(handles)
      /\ \A k \in 1 .. Len(handles) :
           /\ fresh[k].shape = Len(logical) + k /\ fresh[k].state = "live" /\ fresh[k].leaseCount = 0
           /\ fresh[k].epoch = Seen({p}).profiles[fresh[k].profile].epoch
           /\ MadeBy(c, fresh[k], {p}) /\ fresh[k].handle = handles[k]
  <2> DEFINE F(k) == Placement(p, e.profiles[p].epoch, handles[k], call.scope, Len(logical) + k, call.rt)
  <2>1. fresh = [k \in 1 .. Len(handles) |-> F(k)]
    BY <1>3
  <2>2. \A k \in 1 .. Len(handles) :
          /\ F(k) \in PlacementType /\ F(k).profile = p /\ F(k).epoch = Seen({p}).profiles[p].epoch
          /\ F(k).shape = Len(logical) + k /\ F(k).state = "live" /\ F(k).leaseCount = 0
          /\ F(k).origin = <<call.rt, runtimes[call.rt].kernel.epoch>> /\ F(k).handle = handles[k]
    BY <1>6 DEF FreshPlacement
  <2>4. \A k \in 1 .. Len(handles) : MadeBy(c, F(k), {p})
    <3> HIDE DEF F, fresh, handles
    <3> QED
      BY <2>2 DEF MadeBy
  <2> HIDE DEF F, p, fresh, handles
  <2>3. /\ fresh \in Seq(PlacementType) /\ Len(fresh) = Len(handles)
        /\ \A k \in 1 .. Len(handles) : fresh[k] = F(k)
    BY ONLY <1>3, <2>1, <2>2
  <2> QED
    BY <2>2, <2>3, <2>4
<1>8. /\ added \in Seq(SUBSET Nat) /\ Len(added) = Len(handles)
      /\ \A k \in 1 .. Len(handles) : added[k] = {Len(placements) + k}
  <2> HIDE DEF handles
  <2> QED
    BY ONLY <1>3
<1>9. new \in CallType /\ CallOK(new) /\ Unheard(new) /\ new.held = <<>> /\ new.source = 0
      /\ new.todo = {} /\ \A m \in Nat \ {0} : Cardinality(LeasedBy(new, m)) = 0
  BY <1>3, EndedIs
<1> HIDE DEF old, fresh, added, new, handles
<1>10. /\ logical' \in Seq(SUBSET Nat) /\ Len(logical') = Len(logical) + Len(handles)
       /\ Len(placements') = Len(placements) + Len(handles)
       /\ \A s \in 1 .. Len(logical) : logical'[s] = logical[s]
       /\ \A s \in Len(logical) + 1 .. Len(logical') : logical'[s] = {Len(placements) + (s - Len(logical))}
       /\ \A n \in 1 .. Len(placements) : placements'[n] = old[n]
  <2>1. logical \in Seq(SUBSET Nat)
    BY <1>2 DEF DataTyped, ShapesTyped
  <2>2. Concat(SUBSET Nat, logical', logical, added)
    BY <1>1, <1>8, <2>1, Joined
  <2>3. Concat(PlacementType, placements', old, fresh)
    BY <1>1, <1>5, <1>7, Joined
  <2>4. \A s \in Len(logical) + 1 .. Len(logical') : logical'[s] = {Len(placements) + (s - Len(logical))}
    BY ONLY <1>8, <2>2 DEF Concat
  <2>5. /\ Len(placements') = Len(placements) + Len(handles)
        /\ \A n \in 1 .. Len(placements) : placements'[n] = old[n]
    BY ONLY <1>5, <1>7, <2>3 DEF Concat
  <2>6. /\ logical' \in Seq(SUBSET Nat) /\ Len(logical') = Len(logical) + Len(handles)
        /\ \A s \in 1 .. Len(logical) : logical'[s] = logical[s]
    BY ONLY <1>8, <2>2 DEF Concat
  <2> QED
    BY ONLY <2>4, <2>5, <2>6
<1>11. ASSUME NEW n \in 1 .. Len(placements)
       PROVE  Moves(c, new, {p}, n)
  <2>1. /\ Alike(placements[n], e.placements[n]) /\ e.placements[n].leaseCount = placements[n].leaseCount
        /\ e.placements[n].state =
             IF Lost(placements[n].profile, {p}) /\ Kept(n) THEN "invalid" ELSE placements[n].state
    BY <1>2, SeenAlike
  <2> HIDE DEF e, p
  <2>2. Alike(placements[n], placements'[n])
    BY <1>5, <1>10, <2>1 DEF Alike
  <2>3. placements[n].leaseCount \in Int
    BY <2>1 DEF Alike, PlacementType
  <2>4. /\ Cardinality(LeasedBy(calls[c], n)) = Times(n, call.held) + IF calls[c].source = n THEN 1 ELSE 0
        /\ Times(n, call.held) \in Nat /\ Cardinality(LeasedBy(new, n)) = 0 /\ calls[c].source # n
    <3>1. n \in Nat \ {0} /\ calls[c].source = 0 /\ calls[c].held \in Seq(Nat)
      BY <1>2, <1>3
    <3> QED
      BY ONLY <1>9, <3>1, LeasesAre
  <2>5. placements'[n].leaseCount = placements[n].leaseCount - Times(n, call.held)
    BY <1>5, <1>10, <2>1
  <2>6. placements'[n].leaseCount = placements[n].leaseCount - Cardinality(LeasedBy(calls[c], n))
                                      + Cardinality(LeasedBy(new, n))
    BY ONLY <2>3, <2>4, <2>5
  <2>7. placements'[n].state = e.placements[n].state
    BY <1>5, <1>10
  <2> QED
    BY <2>1, <2>2, <2>4, <2>6, <2>7 DEF Moves
<1>12. PlaceTurn(c, new, {p})
  <2>1. ASSUME NEW s \in 1 .. Len(logical')
        PROVE  logical'[s] \subseteq 1 .. Len(placements')
    <3>1. CASE s \in 1 .. Len(logical)
      <4>1. logical[s] \subseteq 1 .. Len(placements)
        BY <1>2, <3>1 DEF DataTyped, ShapesTyped
      <4> QED
        BY <1>3, <1>10, <3>1, <4>1
    <3>2. CASE s \in Len(logical) + 1 .. Len(logical')
      BY <1>3, <1>10, <3>2
    <3> QED
      BY <1>3, <1>10, <3>1, <3>2
  <2>2. shapes' \subseteq 1 .. Len(logical') /\ shapes' \cap (1 .. Len(logical)) \subseteq shapes
    <3>1. shapes \subseteq 1 .. Len(logical)
      BY <1>2 DEF DataTyped, ShapesTyped
    <3>2. shapes' = shapes \cup {Len(logical) + k : k \in 1 .. Len(handles)}
      BY <1>1, <1>3
    <3>3. Len(logical) \in Nat /\ Len(handles) \in Nat /\ Len(logical') = Len(logical) + Len(handles)
      BY <1>3, <1>10
    <3>4. \A k \in 1 .. Len(handles) : Len(logical) + k \in 1 .. Len(logical') /\ Len(logical) + k \notin 1 .. Len(logical)
      BY ONLY <3>3
    <3>5. 1 .. Len(logical) \subseteq 1 .. Len(logical')
      BY ONLY <3>3
    <3> QED
      BY ONLY <3>1, <3>2, <3>4, <3>5
  <2>3. \A i \in 1 .. Len(fresh) :
           /\ fresh[i].shape \in 1 .. Len(logical') /\ fresh[i].state = "live" /\ fresh[i].leaseCount = 0
           /\ fresh[i].epoch = Seen({p}).profiles[fresh[i].profile].epoch
           /\ MadeBy(c, fresh[i], {p}) /\ HandleOf(c, fresh[i], i)
    <3>1. \A i \in 1 .. Len(handles) : Len(logical) + i \in 1 .. Len(logical')
      BY <1>3, <1>10
    <3>2. \A i \in 1 .. Len(handles) : fresh[i].handle = handles[i] => HandleOf(c, fresh[i], i)
      BY DEF HandleOf, handles
    <3> HIDE DEF p
    <3> QED
      BY ONLY <1>7, <3>1, <3>2
  <2>4. /\ new.held \in Seq(1 .. Len(placements)) /\ new.source \in 0 .. Len(placements) /\ new.todo = {}
        /\ Len(logical) <= Len(logical') /\ phase' = phase
        /\ \A s \in 1 .. Len(logical) : logical'[s] \cap (1 .. Len(placements)) \subseteq logical[s]
    BY <1>1, <1>3, <1>9, <1>10
  <2> HIDE DEF p, e
  <2> QED
    BY <1>1, <1>2, <1>5, <1>7, <1>10, <1>11, <2>1, <2>2, <2>3, <2>4, Grows
<1>13. Within(new, Len(placements'), Len(runtimes'), Len(logical'))
  <2>1. Len(placements') \in Nat /\ Len(runtimes') \in Nat /\ Len(logical') \in Nat
    BY <1>1, <1>3, <1>10
  <2> QED
    BY <2>1, EndedIs DEF new
<1>14. RunTurn(c, new, {p})
  BY <1>1 DEF RunTurn
<1> HIDE DEF p
<1> QED
  BY <1>1, <1>9, <1>12, <1>13, <1>14 DEF Turn

LEMMA ImportedTurn ==
  ASSUME EngineInv, NEW c \in Call, Imported(c)
  PROVE  \E new, P : Turn(c, new, P)
<1> DEFINE call == calls[c]
           n == call.source
           q == call.target
           P == {q} \cup IF placements[n].state = "transferring" THEN {placements[n].profile} ELSE {}
           e == Seen(P)
           old == SourceBack(e, n)
           x == Placement(q, e.profiles[q].epoch, TheValue(c), call.scope, placements[n].shape, call.rt)
           m == Len(placements) + 1
           value == <<m>>
           new == [call EXCEPT !.at = "cloned", !.value = value, !.source = 0, !.epoch = 0]
<1>1. Goes(c, "importBREP")
  BY DEF Imported
<1>2. Free(c) /\ call.at = "importBREP" /\ StageOK(call, "importBREP")
  BY <1>1, GoesOn
<1>3. CASE \E Q : Cleanup(c, Seen(Q))
  BY <1>1, <1>3, CleanupTurn
<1>4. CASE /\ Ok(c) /\ phase = "open" /\ placements' = Append(old, x)
           /\ logical' = [logical EXCEPT ![placements[n].shape] = @ \cup {m}]
           /\ profiles' = Seen(P).profiles /\ calls' = [calls EXCEPT ![c] = new]
           /\ UNCHANGED <<runtimes, shapes, phase, awaited, losses>>
  <2>1. /\ DataTyped /\ EpochsCurrent /\ call \in CallType /\ call.held \in Seq(Nat) /\ call.scope \in Nat
        /\ Points(call, Len(placements), Len(runtimes), Len(logical)) /\ call.held \in Seq(1 .. Len(placements))
    BY CallIs DEF CallType, Points, EngineInv
  <2>2. /\ Len(placements) \in Nat /\ Len(logical) \in Nat /\ Len(runtimes) \in Nat
    BY <2>1, Lens
  <2>3. n \in 1 .. Len(placements) /\ q \in Profile /\ call.own = FALSE /\ call.todo = {} /\ call.kind # "create"
    <3>1. n # 0 /\ n \in 0 .. Len(placements)
      BY <1>2, <2>1 DEF StageOK, Points
    <3>2. q \in Profile /\ ~call.own /\ call.todo = {} /\ call.kind # "create"
      BY <1>2 DEF StageOK, Idle
    <3>3. call.own \in BOOLEAN
      BY <2>1 DEF CallType
    <3> HIDE DEF n, q
    <3> QED
      BY <2>2, <3>1, <3>2, <3>3
  <2>4. call.rt \in 1 .. Len(runtimes)
    <3>1. call.rt # 0
      BY <1>2, CallIs DEF ReplyOK, Ops
    <3> QED
      BY <1>1, <3>1, GoesOn
  <2>5. TheValue(c) \in Nat
    BY <1>1, <1>4, AnsweredScope
  <2>6. placements[n].shape \in 1 .. Len(logical)
    BY <2>1, <2>3 DEF DataTyped, PlacementsTyped
  <2>7. e.profiles[q].epoch \in Nat
    BY <2>1, <2>3, SeenIs DEF ProfileType
  <2>8. FreshPlacement(x, q, e.profiles[q].epoch, TheValue(c), placements[n].shape, call.rt)
    <3> DEFINE epoch == e.profiles[q].epoch
               h == TheValue(c)
               s == call.scope
               shape == placements[n].shape
               r == call.rt
    <3>1. /\ s \in Nat /\ epoch \in Nat /\ r \in 1 .. Len(runtimes) /\ q \in Profile /\ DataTyped
          /\ h \in Nat
      BY <2>1, <2>3, <2>4, <2>5, <2>7
    <3>2. shape \in Nat
      BY <2>2, <2>6
    <3> HIDE DEF epoch, h, s, shape, r, q
    <3>3. FreshPlacement(Placement(q, epoch, h, s, shape, r), q, epoch, h, shape, r)
      BY ONLY <3>1, <3>2, PlacementIs
    <3> QED
      BY <3>3 DEF epoch, h, s, shape, r, q
  <2>9. /\ old \in Seq(PlacementType) /\ Len(old) = Len(placements)
        /\ \A k \in 1 .. Len(placements) :
             /\ Alike(placements[k], old[k])
             /\ old[k].leaseCount = placements[k].leaseCount - IF k = n THEN 1 ELSE 0
             /\ old[k].state # "invalid" /\ Kept(k)
                  => placements[k].state # "invalid" /\ ~Lost(placements[k].profile, P)
             /\ old[k].state = "transferring" /\ Kept(k) /\ phase = "open"
                  => placements[k].state = "transferring" /\ k # n
    <3>1. n \in 0 .. Len(placements) /\ (n # 0 /\ placements[n].state = "transferring" => placements[n].profile \in P)
      BY <2>2, <2>3
    <3> HIDE DEF n, P
    <3> QED
      BY <2>1, <3>1, SourceBackIs
  <2>10. value \in Seq(Nat) /\ value # <<>> /\ Head(value) = m
    BY <2>2
  <2> HIDE DEF value, old, x
  <2>11. /\ new \in CallType /\ new.at = "cloned" /\ new.reply = call.reply /\ new.value = value
         /\ new.kind = call.kind /\ new.refs = call.refs /\ new.i = call.i /\ new.target = q
         /\ new.rt = call.rt /\ new.source = 0 /\ new.held = call.held /\ new.own = FALSE
         /\ new.todo = {} /\ new.shape = call.shape /\ new.rest = call.rest
    <3> HIDE DEF call
    <3> QED
      BY <2>1, <2>3, <2>10 DEF CallType
  <2> HIDE DEF new
  <2>12. CallOK(new)
    <3>1. StageOK(new, "cloned")
      BY <2>3, <2>11 DEF StageOK, Idle
    <3>2. new.reply = "ok"
      BY <1>4, <2>11 DEF Ok
    <3>3. ReplyOK(new)
      BY <2>11, <3>2 DEF ReplyOK, Idle, Ops
    <3>4. Stage(new) = "cloned"
      BY <2>11 DEF Stage
    <3> QED
      BY <3>1, <3>3, <3>4 DEF CallOK
  <2> DEFINE fresh == <<x>>
             one == <<>>
  <2>13. fresh \in Seq(PlacementType) /\ Len(fresh) = 1 /\ fresh[1] = x /\ placements' = old \o fresh
    <3>1. x \in PlacementType
      BY <2>8 DEF FreshPlacement
    <3> QED
      BY <1>4, <2>9, <3>1
  <2> HIDE DEF fresh
  <2>14. Len(placements') = m /\ \A k \in 1 .. Len(placements) : placements'[k] = old[k]
    <3>1. Concat(PlacementType, placements', old, fresh)
      BY <2>9, <2>13, Joined
    <3> QED
      BY ONLY <2>9, <2>13, <3>1 DEF Concat
  <2>15. ASSUME NEW k \in 1 .. Len(placements)
         PROVE  Moves(c, new, P, k)
    <3>1. placements[k].leaseCount \in Int /\ Alike(placements[k], placements'[k])
      <4>1. placements'[k] = old[k] /\ Alike(placements[k], old[k])
        BY <2>9, <2>14
      <4> QED
        BY ONLY <4>1 DEF Alike, PlacementType
    <3>2. /\ Cardinality(LeasedBy(call, k)) = Times(k, call.held) + IF call.source = k THEN 1 ELSE 0
          /\ Cardinality(LeasedBy(new, k)) = Times(k, new.held) + IF new.source = k THEN 1 ELSE 0
          /\ Times(k, call.held) \in Nat /\ Times(k, new.held) \in Nat
      BY <2>1, <2>11, LeasesAre
    <3>3. k # 0 /\ new.held = call.held /\ new.source = 0
      BY <2>2, <2>11
    <3>4. placements'[k].leaseCount = placements[k].leaseCount - IF k = n THEN 1 ELSE 0
      BY <2>9, <2>14
    <3> HIDE DEF n
    <3>5. placements'[k].leaseCount = placements[k].leaseCount - Cardinality(LeasedBy(call, k))
                                       + Cardinality(LeasedBy(new, k))
      BY ONLY <3>1, <3>2, <3>3, <3>4 DEF n
    <3>6. /\ placements'[k].state # "invalid" /\ Kept(k)
               => placements[k].state # "invalid" /\ ~Lost(placements[k].profile, P)
          /\ placements'[k].state = "transferring" /\ Kept(k) /\ phase = "open"
               => placements[k].state = "transferring" /\ call.source # k
      BY <2>9, <2>14 DEF n
    <3> QED
      BY <3>1, <3>5, <3>6 DEF Moves
  <2>16. /\ logical' \in Seq(SUBSET Nat) /\ Len(logical') = Len(logical)
         /\ \A s \in 1 .. Len(logical') : logical'[s] \subseteq 1 .. Len(placements')
         /\ \A s \in 1 .. Len(logical) : logical'[s] \cap (1 .. Len(placements)) \subseteq logical[s]
    <3>1. /\ logical \in Seq(SUBSET Nat) /\ \A s \in 1 .. Len(logical) : logical[s] \subseteq 1 .. Len(placements)
      BY <2>1 DEF DataTyped, ShapesTyped
    <3>2. logical[placements[n].shape] \cup {m} \in SUBSET Nat
      BY <2>2, <2>6, <3>1
    <3>3. /\ logical' \in Seq(SUBSET Nat) /\ Len(logical') = Len(logical)
          /\ \A s \in 1 .. Len(logical) :
               logical'[s] = IF s = placements[n].shape THEN logical[s] \cup {m} ELSE logical[s]
      <4> DEFINE t == placements[n].shape
                 T == logical[t] \cup {m}
      <4>1. logical' = [logical EXCEPT ![t] = T] /\ t \in 1 .. Len(logical) /\ T \in SUBSET Nat
        BY <1>4, <2>6, <3>2
      <4> HIDE DEF T, t
      <4>2. /\ logical' \in Seq(SUBSET Nat) /\ Len(logical') = Len(logical)
            /\ \A s \in 1 .. Len(logical) : logical'[s] = IF s = t THEN T ELSE logical[s]
        BY ONLY <3>1, <4>1
      <4> QED
        BY <4>2 DEF T, t
    <3>4. m \notin 1 .. Len(placements) /\ m \in 1 .. Len(placements')
          /\ 1 .. Len(placements) \subseteq 1 .. Len(placements')
      BY <2>2, <2>14
    <3>5. ASSUME NEW s \in 1 .. Len(logical)
          PROVE  /\ logical'[s] \subseteq 1 .. Len(placements')
                 /\ logical'[s] \cap (1 .. Len(placements)) \subseteq logical[s]
      <4>1. logical'[s] \subseteq logical[s] \cup {m} /\ logical[s] \subseteq 1 .. Len(placements)
        BY <3>1, <3>3
      <4> HIDE DEF m
      <4> QED
        BY ONLY <3>4, <4>1
    <3> QED
      BY <3>3, <3>5
  <2>17. PlaceTurn(c, new, P)
    <3>1. /\ shapes' \subseteq 1 .. Len(logical') /\ shapes' \cap (1 .. Len(logical)) \subseteq shapes
          /\ phase' = phase /\ Len(logical) <= Len(logical')
      BY <1>4, <2>1, <2>2, <2>16 DEF DataTyped, ShapesTyped
    <3>2. ASSUME NEW i \in 1 .. Len(fresh)
          PROVE  /\ fresh[i].shape \in 1 .. Len(logical') /\ fresh[i].state = "live" /\ fresh[i].leaseCount = 0
                 /\ fresh[i].epoch = Seen(P).profiles[fresh[i].profile].epoch
                 /\ MadeBy(c, fresh[i], P) /\ HandleOf(c, fresh[i], i)
      <4>1. i = 1 /\ fresh[i] = x
        BY <2>13
      <4>2. /\ x.shape = placements[n].shape /\ x.profile = q /\ x.epoch = Seen(P).profiles[q].epoch
            /\ x.state = "live" /\ x.leaseCount = 0
        BY <2>8 DEF FreshPlacement
      <4>3. MadeBy(c, x, P)
        <5>1. x.profile = q /\ x.origin = <<call.rt, runtimes[call.rt].kernel.epoch>> /\ q \in P
          BY <2>8 DEF FreshPlacement
        <5> HIDE DEF P
        <5> QED
          BY <1>2, <1>4, <5>1 DEF MadeBy
      <4>4. HandleOf(c, x, 1)
        <5>1. x.handle = Head(calls[c].value)
          BY <2>8 DEF FreshPlacement, TheValue
        <5>2. calls[c].value \in Seq(Nat) /\ calls[c].value # <<>>
          BY <1>2, <1>4, <2>1, CallIs DEF ReplyOK, CallType, Ok
        <5> QED
          BY <5>1, <5>2 DEF HandleOf
      <4> HIDE DEF n, q, P
      <4> QED
        BY <2>6, <2>16, <4>1, <4>2, <4>3, <4>4
    <3>3. new.held \in Seq(1 .. Len(placements)) /\ new.source \in 0 .. Len(placements) /\ new.todo = {}
      BY <2>1, <2>2, <2>11
    <3> HIDE DEF P
    <3> QED
      BY <2>1, <2>9, <2>13, <2>15, <2>16, <3>1, <3>2, <3>3, Grows
  <2>18. Within(new, Len(placements'), Len(runtimes'), Len(logical'))
    <3>1. Points(call, Len(placements'), Len(runtimes'), Len(logical'))
      <4>1. /\ Len(placements') \in Nat /\ Len(runtimes') \in Nat /\ Len(logical') \in Nat
            /\ Len(placements) <= Len(placements') /\ Len(runtimes) <= Len(runtimes')
            /\ Len(logical) <= Len(logical')
        BY <1>4, <2>2, <2>14, <2>16
      <4> QED
        BY <2>1, <2>2, <4>1, PointsMore
    <3>2. Points(new, Len(placements'), Len(runtimes'), Len(logical'))
      <4>1. 0 \in 0 .. Len(placements') /\ {} \subseteq 1 .. Len(placements')
        BY <2>2, <2>14
      <4> HIDE DEF call
      <4> QED
        BY <2>11, <3>1, <4>1 DEF Points
    <3>3. Head(new.value) \in 1 .. Len(placements') /\ new.value # <<>>
      BY <2>2, <2>10, <2>11, <2>14
    <3> QED
      BY <3>2, <3>3 DEF Within
  <2>19. RunTurn(c, new, P)
    BY <1>4 DEF RunTurn
  <2> HIDE DEF P
  <2>20. Turn(c, new, P)
    BY <1>2, <1>4, <2>11, <2>12, <2>17, <2>18, <2>19 DEF Turn, Unheard
  <2> QED
    BY <2>20
<1> QED
  BY <1>3, <1>4, Zenon DEF Imported

LEMMA ResultTurn ==
  ASSUME EngineInv, NEW c \in Call, Result(c)
  PROVE  \E new, P : Turn(c, new, P)
<1>1. PICK at \in {"make", "op"} : Goes(c, at)
  BY DEF Result
<1>2. Free(c) /\ calls[c].at = at /\ StageOK(calls[c], at)
  BY <1>1, GoesOn
<1>3. CASE Attached(c) /\ Ok(c) /\ phase = "open"
  <2>1. calls[c].source = 0 /\ calls[c].target \in Profile
    BY <1>2 DEF StageOK, Idle
  <2>2. calls[c].rt # 0
    BY <1>2, CallIs DEF ReplyOK, Ops
  <2>3. calls[c].rt \in 1 .. Len(runtimes)
    BY <1>1, <2>2, GoesOn
  <2> QED
    BY <1>2, <1>3, <2>1, <2>3, AttachedTurn
<1>4. CASE Cleanup(c, Seen({}))
  BY <1>1, <1>4, CleanupTurn
<1>5. CASE \E outcome \in {"done", "failed"} : Finally(c, calls[c], {}, outcome)
  BY <1>2, <1>5, FinallyTurn
<1>6. \A good : (IF good THEN "done" ELSE "failed") \in {"done", "failed"}
  OBVIOUS
<1> QED
  BY <1>3, <1>4, <1>5, <1>6, Zenon DEF Result

LEMMA CallTurn ==
  ASSUME EngineInv, NEW c \in Call, Begin(c) \/ Continue(c)
  PROVE  \E new, P : Turn(c, new, P)
<1>1. ASSUME ReleaseShape(c)
      PROVE  \E new, P : Turn(c, new, P)
  <2>1. PICK s \in shapes : ReleaseShapes(c, [Unbegun EXCEPT !.kind = "releaseShape", !.rest = {s}], shapes)
    BY <1>1 DEF ReleaseShape
  <2>2. Begins(c, "releaseShape")
    BY <1>1 DEF ReleaseShape
  <2>3. {s} \subseteq shapes
    OBVIOUS
  <2> DEFINE rest == {s}
  <2>4. ReleaseShapes(c, [Unbegun EXCEPT !.kind = "releaseShape", !.rest = rest], shapes) /\ rest \subseteq shapes
    BY <2>1, <2>3
  <2> HIDE DEF rest
  <2> QED
    BY <2>2, <2>4, ShapesBegun
<1>2. ASSUME ReleaseAll(c)
      PROVE  \E new, P : Turn(c, new, P)
  BY <1>2, ShapesBegun DEF ReleaseAll
<1>3. CASE Begin(c)
  BY <1>1, <1>2, <1>3, CreateTurn, RequestTurn, CloneToTurn, ReleasePlacementTurn, ProbeProfileTurn DEF Begin
<1>4. CASE Continue(c)
  BY <1>4, StartTurn, OpenedTurn, ExportedTurn, ImportedTurn, ClonedTurn, ResultTurn, ProbedTurn, ReleasedTurn
     DEF Continue
<1> QED
  BY <1>3, <1>4

LEMMA CallKeeps ==
  ASSUME EngineInv, NEW c \in Call, Begin(c) \/ Continue(c)
  PROVE  EngineInv'
BY CallTurn, TurnKeeps

-----------------------------------------------------------------------------
(* Runtimes answer, fail and are closed.                                   *)

\* y is what became of the runtime x: some of those who asked are answered, in order.
Shrunk(x, y, C) ==
  /\ y \in RuntimeType /\ y.profile = x.profile /\ y.since = x.since
  /\ y.state # "up" => y.queue = <<>>
  /\ \E d \in {0, 1} : \A i \in 1 .. Len(y.queue) :
       i + d \in 1 .. Len(x.queue) /\ y.queue[i] = x.queue[i + d] /\ y.queue[i].call \notin C

\* A call that was replied to.
Heard(x, reply, value) == [x EXCEPT !.reply = reply, !.value = value]
StaysFine(x, y, ps, rs, ls) ==
  /\ y \in CallType /\ CallOK(y) /\ Within(y, ps, rs, ls)
  /\ y.held = x.held /\ y.source = x.source /\ y.at = x.at /\ y.rt = x.rt

LEMMA RepliedIs ==
  ASSUME NEW x \in CallType, CallOK(x), NEW ps, NEW rs, NEW ls, Within(x, ps, rs, ls),
         NEW reply \in {"ok", "error"}, NEW value \in Seq(Nat), x.at \in Ops \cup {"start"},
         reply = "ok" /\ x.at \in {"beginScope", "importBREP"} => value # <<>>
  PROVE  StaysFine(x, Heard(x, reply, value), ps, rs, ls)
<1> DEFINE y == Heard(x, reply, value)
<1>1. /\ y \in CallType /\ y.reply = reply /\ y.value = value /\ y.at = x.at /\ y.next = x.next
      /\ y.kind = x.kind /\ y.refs = x.refs /\ y.i = x.i /\ y.target = x.target /\ y.rt = x.rt
      /\ y.source = x.source /\ y.held = x.held /\ y.own = x.own /\ y.todo = x.todo
      /\ y.shape = x.shape /\ y.rest = x.rest
  BY DEF CallType, Heard
<1> HIDE DEF y
<1>2. x.at \notin Idle /\ x.at # "cloned"
  BY DEF Ops, Idle
<1>3. Stage(y) = Stage(x)
  BY <1>1 DEF Stage
<1>4. StageOK(y, Stage(x))
  <2> DEFINE st == Stage(x)
  <2>1. StageOK(x, st)
    BY DEF CallOK
  <2> HIDE DEF st
  <2>2. StageOK(y, st)
    BY ONLY <1>1, <2>1 DEF StageOK
  <2> QED
    BY <2>2 DEF st
<1>5. ReplyOK(y)
  BY <1>1, <1>2 DEF CallOK, ReplyOK
<1>6. Within(y, ps, rs, ls)
  BY <1>1, <1>2 DEF Within, Points
<1> QED
  BY <1>1, <1>3, <1>4, <1>5, <1>6 DEF CallOK, y, StaysFine

LEMMA QueueIs ==
  ASSUME DataTyped, NEW r \in 1 .. Len(runtimes)
  PROVE  /\ runtimes[r] \in RuntimeType /\ runtimes[r].queue \in Seq(Questions) /\ runtimes[r].kernel \in Kernels
         /\ Len(runtimes[r].queue) \in Nat /\ DOMAIN runtimes[r].queue = 1 .. Len(runtimes[r].queue)
         /\ \A i \in 1 .. Len(runtimes[r].queue) : runtimes[r].queue[i] \in Questions
         /\ runtimes[r].profile \in Profile /\ runtimes[r].since \in Nat
<1>1. runtimes \in Seq(RuntimeType)
  BY DEF DataTyped, RuntimesTyped
<1>2. runtimes[r] \in RuntimeType
  BY <1>1
<1>3. runtimes[r].queue \in Seq(Questions) /\ runtimes[r].kernel \in Kernels
      /\ runtimes[r].profile \in Profile /\ runtimes[r].since \in Nat
  BY ONLY <1>2 DEF RuntimeType
<1> DEFINE w == runtimes[r].queue
<1>4. w \in Seq(Questions)
  BY <1>3
<1> HIDE DEF w
<1>5. Len(w) \in Nat /\ DOMAIN w = 1 .. Len(w) /\ \A i \in 1 .. Len(w) : w[i] \in Questions
  BY ONLY <1>4
<1> QED
  BY <1>2, <1>3, <1>5 DEF w

LEMMA Settles ==
  ASSUME EngineInv, NEW C, C \subseteq Call, NEW reply \in {"ok", "error"}, NEW value \in Seq(Nat),
         calls' = Replied(C, reply, value),
         \A c \in C : /\ calls[c].at \in Ops \cup {"start"}
                      /\ reply = "ok" /\ calls[c].at \in {"beginScope", "importBREP"} => value # <<>>,
         Len(runtimes') = Len(runtimes),
         \A r \in 1 .. Len(runtimes) : Shrunk(runtimes[r], runtimes'[r], C),
         Len(placements') = Len(placements), Len(logical') = Len(logical)
  PROVE  /\ CallsTyped' /\ AskedOnce'
         /\ \A c \in Call : calls'[c].held = calls[c].held /\ calls'[c].source = calls[c].source
<1>1. DataTyped /\ AskedOnce /\ CallsTyped
  BY DEF EngineInv
<1>2. ASSUME NEW c \in Call
      PROVE  /\ calls'[c] \in CallType /\ CallOK(calls'[c])
             /\ Within(calls'[c], Len(placements), Len(runtimes), Len(logical))
             /\ calls'[c].held = calls[c].held /\ calls'[c].source = calls[c].source
             /\ c \notin C => calls'[c] = calls[c]
  <2> DEFINE x == calls[c]
             y == Heard(x, reply, value)
  <2>1. calls'[c] = IF c \in C THEN y ELSE x
    BY DEF Replied, Heard
  <2>2. x \in CallType /\ CallOK(x) /\ Within(x, Len(placements), Len(runtimes), Len(logical))
    BY CallIs
  <2>3. CASE c \in C
    <3>1. x.at \in Ops \cup {"start"} /\ (reply = "ok" /\ x.at \in {"beginScope", "importBREP"} => value # <<>>)
      BY <2>3
    <3> HIDE DEF x
    <3>2. StaysFine(x, y, Len(placements), Len(runtimes), Len(logical))
      BY <2>2, <3>1, RepliedIs
    <3> HIDE DEF y
    <3> QED
      BY <2>1, <2>3, <3>2 DEF x, StaysFine
  <2>4. CASE c \notin C
    BY <2>1, <2>2, <2>4
  <2> QED
    BY <2>3, <2>4
<1>3. CallsTyped'
  <2>1. calls' \in [Call -> CallType]
    <3>1. calls' = [c \in Call |-> calls'[c]]
      BY DEF Replied
    <3> QED
      BY <1>2, <3>1
  <2> QED
    BY <1>2, <2>1 DEF CallsTyped
<1> DEFINE Asked(r, q) ==
             /\ q.call = Nobody <=> q.op = "releaseAll"
             /\ q.call \in Call => calls'[q.call].at = q.op /\ calls'[q.call].reply = "none" /\ calls'[q.call].rt = r
<1>4. ASSUME NEW r \in 1 .. Len(runtimes)
      PROVE  /\ runtimes'[r].state # "up" => runtimes'[r].queue = <<>>
             /\ \A i \in 1 .. Len(runtimes'[r].queue) :
                  /\ Asked(r, runtimes'[r].queue[i])
                  /\ runtimes'[r].queue[i].call \in Call =>
                       \A j \in 1 .. Len(runtimes'[r].queue) :
                         j # i => runtimes'[r].queue[j].call # runtimes'[r].queue[i].call
  <2> DEFINE v == runtimes[r].queue
             w == runtimes'[r].queue
  <2>1. Shrunk(runtimes[r], runtimes'[r], C)
    OBVIOUS
  <2>2. PICK d \in {0, 1} : \A i \in 1 .. Len(w) : i + d \in 1 .. Len(v) /\ w[i] = v[i + d] /\ w[i].call \notin C
    BY <2>1 DEF Shrunk
  <2>3. \A i \in 1 .. Len(v) :
          /\ AskedBy(r, v[i])
          /\ v[i].call \in Call => \A j \in 1 .. Len(v) : j # i => v[j].call # v[i].call
    BY <1>1 DEF AskedOnce
  <2>4. \A q : q.call \notin C /\ AskedBy(r, q) => Asked(r, q)
    BY <1>2 DEF AskedBy
  <2>5. runtimes'[r].state # "up" => w = <<>>
    BY <2>1 DEF Shrunk
  <2>6. \A i, j \in 1 .. Len(w) : j # i => j + d # i + d
    <3>1. d \in Int
      OBVIOUS
    <3> HIDE DEF w
    <3> QED
      BY ONLY <3>1
  <2> HIDE DEF Asked, v, w
  <2>7. \A i \in 1 .. Len(w) : Asked(r, w[i])
    BY ONLY <2>2, <2>3, <2>4
  <2>8. \A i \in 1 .. Len(w) : w[i].call \in Call => \A j \in 1 .. Len(w) : j # i => w[j].call # w[i].call
    BY ONLY <2>2, <2>3, <2>6
  <2> QED
    BY <2>5, <2>7, <2>8 DEF w
<1>5. AskedOnce'
  <2>1. Len(runtimes') = Len(runtimes)
    OBVIOUS
  <2> QED
    BY ONLY <1>4, <2>1, SMTT(60) DEF AskedOnce, AskedBy
<1> QED
  BY <1>2, <1>3, <1>5

LEMMA LeasesStay ==
  ASSUME DataTyped, LeasesExact, placements' \in Seq(PlacementType), Len(placements') = Len(placements),
         \A c \in Call : calls'[c].held = calls[c].held /\ calls'[c].source = calls[c].source,
         phase' = "open" => phase = "open",
         \A n \in 1 .. Len(placements) :
           /\ placements'[n].leaseCount = placements[n].leaseCount
           /\ placements'[n].state = "transferring" => placements[n].state = "transferring"
           /\ phase' = "open" /\ Kept(n)' => Kept(n)
  PROVE  LeasesExact'
<1> SUFFICES ASSUME NEW n \in DOMAIN placements'
             PROVE  /\ placements'[n].leaseCount = Cardinality(Leases(n)')
                    /\ placements'[n].state = "transferring" /\ Kept(n)' /\ phase' = "open"
                         => \E c \in Call : calls'[c].source = n
  BY DEF LeasesExact
<1>1. n \in DOMAIN placements /\ n \in 1 .. Len(placements)
  BY Lens
<1>2. /\ placements[n].leaseCount = Cardinality(Leases(n))
      /\ placements[n].state = "transferring" /\ Kept(n) /\ phase = "open" => \E c \in Call : calls[c].source = n
  BY <1>1 DEF LeasesExact
<1>3. Leases(n)' = Leases(n)
  <2>1. \A c \in Call : LeasedBy(calls'[c], n) = LeasedBy(calls[c], n)
    BY SameLeases
  <2>2. \A c \in Call : {c} \X LeasedBy(calls'[c], n) = {c} \X LeasedBy(calls[c], n)
    BY <2>1
  <2>3. Leases(n)' = UNION {{c} \X LeasedBy(calls'[c], n) : c \in Call}
    BY DEF Leases, LeasedBy
  <2> QED
    BY <2>2, <2>3 DEF Leases
<1> QED
  BY <1>1, <1>2, <1>3

LEMMA FreshIs ==
  ASSUME NEW e \in Nat
  PROVE  Fresh(e) \in Kernels
BY DEF Fresh, Kernels

LEMMA ReplacedIs ==
  ASSUME DataTyped, NEW r \in 1 .. Len(runtimes), NEW x \in RuntimeType, runtimes' = [runtimes EXCEPT ![r] = x]
  PROVE  /\ runtimes' \in Seq(RuntimeType) /\ Len(runtimes') = Len(runtimes) /\ runtimes'[r] = x
         /\ \A k \in 1 .. Len(runtimes) : k # r => runtimes'[k] = runtimes[k]
<1>1. runtimes \in Seq(RuntimeType)
  BY DEF DataTyped, RuntimesTyped
<1> QED
  BY <1>1

\* A runtime in which nothing happens to the calls C, and one that answers or rejects them.
LEMMA Unshrunk ==
  ASSUME NEW x \in RuntimeType, NEW C, \A i \in 1 .. Len(x.queue) : x.queue[i].call \notin C,
         x.state # "up" => x.queue = <<>>
  PROVE  Shrunk(x, x, C)
<1> DEFINE q == x.queue
<1>1. q \in Seq(Questions)
  BY DEF RuntimeType
<1>2. \A i \in 1 .. Len(q) : i + 0 \in 1 .. Len(q) /\ q[i] = q[i + 0] /\ q[i].call \notin C
  BY <1>1
<1> QED
  BY <1>2 DEF Shrunk

LEMMA QueueGone ==
  ASSUME NEW x \in RuntimeType, NEW y \in RuntimeType, y.profile = x.profile, y.since = x.since, y.queue = <<>>,
         NEW C
  PROVE  Shrunk(x, y, C)
<1>1. \A i \in 1 .. Len(<<>>) : FALSE
  OBVIOUS
<1>2. \E d \in {0, 1} : \A i \in 1 .. Len(y.queue) :
        i + d \in 1 .. Len(x.queue) /\ y.queue[i] = x.queue[i + d] /\ y.queue[i].call \notin C
  BY <1>1
<1> QED
  BY <1>2 DEF Shrunk

\* A runtime never starts again, nor has a kernel it had before, and a kernel issues more and
\* more handles while it runs.
Onward(x, y) ==
  /\ x.state # "starting" => y.state # "starting"
  /\ x.kernel.epoch <= y.kernel.epoch
  /\ x.state # "starting" /\ y.state = "up" /\ y.kernel.epoch = x.kernel.epoch
       => x.state = "up" /\ x.kernel.issued <= y.kernel.issued

\* What a runtime is once it is closed, or its client has a new kernel.
Gone(r, x) ==
  /\ x \in RuntimeType /\ x.profile = runtimes[r].profile /\ x.since = runtimes[r].since /\ x.queue = <<>>
  /\ Onward(runtimes[r], x)

LEMMA ClosedIs ==
  ASSUME DataTyped, NEW r \in 1 .. Len(runtimes)
  PROVE  \E x : Gone(r, x) /\ x.state = "closed" /\ Closed(r) = [runtimes EXCEPT ![r] = x]
<1> DEFINE k == Fresh(runtimes[r].kernel.epoch)
           x == [runtimes[r] EXCEPT !.state = "closed", !.queue = <<>>, !.kernel = k]
<1>1. runtimes[r] \in RuntimeType /\ runtimes[r].kernel.epoch \in Nat /\ DOMAIN runtimes = 1 .. Len(runtimes)
  BY QueueIs, Lens DEF Kernels
<1>2. k \in Kernels
  BY <1>1, FreshIs
<1>3. Closed(r) = [runtimes EXCEPT ![r] = x]
  BY <1>1 DEF Closed
<1> HIDE DEF k
<1>4. <<>> \in Seq(Questions)
  OBVIOUS
<1>5. /\ x \in RuntimeType /\ x.profile = runtimes[r].profile /\ x.since = runtimes[r].since
      /\ x.queue = <<>> /\ x.state = "closed" /\ x.kernel = k
  BY <1>1, <1>2, <1>4 DEF RuntimeType
<1>6. k.epoch = runtimes[r].kernel.epoch
  BY DEF k, Fresh
<1> HIDE DEF x
<1>7. Onward(runtimes[r], x)
  BY <1>1, <1>5, <1>6 DEF Onward
<1> QED
  BY <1>3, <1>5, <1>7 DEF Gone

LEMMA RebuiltIs ==
  ASSUME DataTyped, NEW r \in 1 .. Len(runtimes)
  PROVE  \E x : Gone(r, x) /\ x.state = runtimes[r].state /\ Rebuilt(r) = [runtimes EXCEPT ![r] = x]
<1> DEFINE k == Fresh(runtimes[r].kernel.epoch + 1)
           x == [runtimes[r] EXCEPT !.queue = <<>>, !.kernel = k]
<1>1. runtimes[r] \in RuntimeType /\ runtimes[r].kernel.epoch \in Nat /\ DOMAIN runtimes = 1 .. Len(runtimes)
  BY QueueIs, Lens DEF Kernels
<1>2. k \in Kernels
  BY <1>1, FreshIs
<1>3. Rebuilt(r) = [runtimes EXCEPT ![r] = x]
  BY <1>1 DEF Rebuilt
<1> HIDE DEF k
<1>4. <<>> \in Seq(Questions)
  OBVIOUS
<1>5. /\ x \in RuntimeType /\ x.profile = runtimes[r].profile /\ x.since = runtimes[r].since
      /\ x.queue = <<>> /\ x.state = runtimes[r].state /\ x.kernel = k
  BY <1>1, <1>2, <1>4 DEF RuntimeType
<1>6. k.epoch = runtimes[r].kernel.epoch + 1
  BY DEF k, Fresh
<1> HIDE DEF x
<1>7. Onward(runtimes[r], x)
  BY <1>1, <1>5, <1>6 DEF Onward
<1> QED
  BY <1>3, <1>5, <1>7 DEF Gone

\* Whoever waits for a runtime waits for no other.
LEMMA WaitingIs ==
  ASSUME EngineInv, NEW r \in 1 .. Len(runtimes), NEW i \in 1 .. Len(runtimes[r].queue),
         runtimes[r].queue[i].call # Nobody
  PROVE  LET q == runtimes[r].queue[i] IN
         /\ q.call \in Call /\ q.op \in Ops
         /\ calls[q.call].at = q.op /\ calls[q.call].rt = r
<1> DEFINE q == runtimes[r].queue[i]
<1>1. DataTyped /\ AskedOnce
  BY DEF EngineInv
<1>2. q \in Questions
  BY <1>1, QueueIs
<1>3. AskedBy(r, q)
  BY <1>1 DEF AskedOnce
<1> HIDE DEF q
<1>4. q.call \in Call /\ q.op # "releaseAll"
  BY <1>2, <1>3 DEF Questions, AskedBy, q
<1> QED
  BY <1>2, <1>3, <1>4 DEF Questions, AskedBy, q

\* One runtime is replaced, and calls that waited for it get a reply.
Replies(r, x, C, reply, value) ==
  /\ C \subseteq Call /\ reply \in {"ok", "error"} /\ value \in Seq(Nat)
  /\ calls' = Replied(C, reply, value) /\ runtimes' = [runtimes EXCEPT ![r] = x]
  /\ Shrunk(runtimes[r], x, C)
  /\ \A c \in C : /\ calls[c].at \in Ops \cup {"start"}
                  /\ calls[c].at = "start" \/ calls[c].rt = r
                  /\ reply = "ok" /\ calls[c].at \in {"beginScope", "importBREP"} => value # <<>>

LEMMA OneSettles ==
  ASSUME EngineInv, NEW r \in 1 .. Len(runtimes), NEW x, NEW C, NEW reply, NEW value,
         Replies(r, x, C, reply, value),
         Len(placements') = Len(placements), Len(logical') = Len(logical)
  PROVE  /\ RuntimesTyped' /\ Len(runtimes') = Len(runtimes) /\ runtimes'[r] = x
         /\ \A k \in 1 .. Len(runtimes) : k # r => runtimes'[k] = runtimes[k]
         /\ CallsTyped' /\ AskedOnce'
         /\ \A c \in Call : calls'[c].held = calls[c].held /\ calls'[c].source = calls[c].source
<1>0. /\ C \subseteq Call /\ reply \in {"ok", "error"} /\ value \in Seq(Nat)
      /\ calls' = Replied(C, reply, value) /\ runtimes' = [runtimes EXCEPT ![r] = x]
      /\ Shrunk(runtimes[r], x, C)
      /\ \A c \in C : /\ calls[c].at \in Ops \cup {"start"}
                      /\ calls[c].at = "start" \/ calls[c].rt = r
                      /\ reply = "ok" /\ calls[c].at \in {"beginScope", "importBREP"} => value # <<>>
  BY DEF Replies
<1>1. DataTyped /\ AskedOnce
  BY DEF EngineInv
<1>2. x \in RuntimeType
  BY <1>0 DEF Shrunk
<1>3. /\ runtimes' \in Seq(RuntimeType) /\ Len(runtimes') = Len(runtimes) /\ runtimes'[r] = x
      /\ \A k \in 1 .. Len(runtimes) : k # r => runtimes'[k] = runtimes[k]
  BY <1>0, <1>1, <1>2, ReplacedIs
<1>4. ASSUME NEW k \in 1 .. Len(runtimes)
      PROVE  Shrunk(runtimes[k], runtimes'[k], C)
  <2>1. CASE k = r
    BY <1>0, <1>3, <2>1
  <2>2. CASE k # r
    <3>1. ASSUME NEW i \in 1 .. Len(runtimes[k].queue), runtimes[k].queue[i].call \in C
          PROVE  FALSE
      <4> DEFINE q == runtimes[k].queue[i]
      <4>1. q.call # Nobody
        BY <1>0, <3>1, NobodyAssumption
      <4>2. q.op \in Ops /\ calls[q.call].at = q.op /\ calls[q.call].rt = k
        BY <4>1, WaitingIs
      <4>3. calls[q.call].at = "start" \/ calls[q.call].rt = r
        BY <1>0, <3>1
      <4> QED
        BY <2>2, <4>2, <4>3 DEF Ops
    <3>2. runtimes[k].state # "up" => runtimes[k].queue = <<>>
      BY <1>1 DEF AskedOnce
    <3>3. Shrunk(runtimes[k], runtimes[k], C)
      BY <1>1, <3>1, <3>2, QueueIs, Unshrunk
    <3> QED
      BY <1>3, <2>2, <3>3
  <2> QED
    BY <2>1, <2>2
<1>5. /\ CallsTyped' /\ AskedOnce'
      /\ \A c \in Call : calls'[c].held = calls[c].held /\ calls'[c].source = calls[c].source
  <2>1. \A c \in C : /\ calls[c].at \in Ops \cup {"start"}
                     /\ reply = "ok" /\ calls[c].at \in {"beginScope", "importBREP"} => value # <<>>
    BY <1>0
  <2>2. Len(runtimes') = Len(runtimes)
    BY <1>3
  <2>3. EngineInv /\ C \subseteq Call /\ reply \in {"ok", "error"} /\ value \in Seq(Nat)
        /\ calls' = Replied(C, reply, value) /\ Len(placements') = Len(placements)
        /\ Len(logical') = Len(logical)
    BY <1>0
  <2> QED
    BY ONLY <1>4, <2>1, <2>2, <2>3, Settles, Zenon
<1> QED
  BY <1>3, <1>5 DEF RuntimesTyped

\* The runtimes of the profiles stay: r goes on, or close() closed it.
LEMMA OneKeeps ==
  ASSUME EngineInv, NEW r \in 1 .. Len(runtimes), NEW x, NEW C, NEW reply, NEW value,
         Replies(r, x, C, reply, value),
         runtimes[r].state = "up", x.state \in {"up", "closed"},
         x.state = "closed" => Leaving(runtimes[r]),
         x.state = "up" => profiles[runtimes[r].profile].runtime = r \/ Leaving(x),
         Leaving(x) => Leaving(runtimes[r]),
         UNCHANGED <<profiles, placements, logical, shapes, phase>>
  PROVE  EngineInv'
<1>1. /\ DataTyped /\ AskedOnce /\ OwnRuntimes /\ AllWanted /\ OpenRuntimes /\ EpochsCurrent /\ LeasesExact
  BY DEF EngineInv
<1>2. /\ RuntimesTyped' /\ Len(runtimes') = Len(runtimes) /\ runtimes'[r] = x
      /\ \A k \in 1 .. Len(runtimes) : k # r => runtimes'[k] = runtimes[k]
      /\ CallsTyped' /\ AskedOnce'
      /\ \A c \in Call : calls'[c].held = calls[c].held /\ calls'[c].source = calls[c].source
  <2>1. Len(placements') = Len(placements) /\ Len(logical') = Len(logical)
    OBVIOUS
  <2> QED
    BY ONLY EngineInv, r \in 1 .. Len(runtimes), Replies(r, x, C, reply, value), <2>1, OneSettles
<1>3. DataTyped'
  BY <1>1, <1>2 DEF DataTyped, ProfilesTyped, PlacementsTyped, ShapesTyped
<1>4. x.profile = runtimes[r].profile /\ x.since = runtimes[r].since
  BY DEF Shrunk, Replies
<1>5. \A k \in 1 .. Len(runtimes) : runtimes'[k].profile = runtimes[k].profile /\ runtimes'[k].since = runtimes[k].since
  BY <1>2, <1>4
<1>6. OwnRuntimes'
  BY <1>1, <1>5, RuntimeIs DEF OwnRuntimes
<1>7. AllWanted'
  <2>1. ASSUME NEW k \in 1 .. Len(runtimes)
        PROVE  Wanted(k)'
    <3>1. Wanted(k)
      BY <1>1 DEF AllWanted
    <3>2. CASE k = r
      BY <1>2, <1>4, <3>1, <3>2 DEF Wanted
    <3>3. CASE k # r
      BY <1>2, <3>1, <3>3 DEF Wanted
    <3> QED
      BY <3>2, <3>3
  <2> QED
    BY <1>2, <2>1 DEF AllWanted
<1>8. OpenRuntimes'
  <2>1. ASSUME NEW p \in Profile, profiles[p].runtime # 0
        PROVE  phase = "open" /\ runtimes'[profiles[p].runtime].state = "up"
    <3>1. phase = "open" /\ runtimes[profiles[p].runtime].state = "up" /\ profiles[p].runtime \in 1 .. Len(runtimes)
      BY <1>1, <2>1, RuntimeIs DEF OpenRuntimes
    <3>2. x.state = "up"
      BY <1>1, <3>1 DEF OpenRuntimes
    <3> QED
      BY <1>2, <3>1, <3>2
  <2>2. phase = "open" => \A k \in 1 .. Len(runtimes) : ~Leaving(runtimes'[k])
    BY <1>1, <1>2 DEF OpenRuntimes
  <2> QED
    BY <1>2, <2>1, <2>2 DEF OpenRuntimes
<1>9. EpochsCurrent'
  BY <1>1 DEF EpochsCurrent, Kept
<1>10. LeasesExact'
  <2>1. \A n \in 1 .. Len(placements) :
           /\ placements'[n].leaseCount = placements[n].leaseCount
           /\ placements'[n].state = "transferring" => placements[n].state = "transferring"
           /\ phase' = "open" /\ Kept(n)' => Kept(n)
    BY DEF Kept
  <2>2. placements' \in Seq(PlacementType)
    BY <1>1 DEF DataTyped, PlacementsTyped
  <2> QED
    BY <1>1, <1>2, <2>1, <2>2, LeasesStay
<1> QED
  BY <1>2, <1>3, <1>6, <1>7, <1>8, <1>9, <1>10 DEF EngineInv

\* What a kernel answers.
LEMMA OutcomeIs ==
  ASSUME NEW k \in Kernels, NEW q \in Questions, NEW o \in Outcomes(k, q)
  PROVE  /\ o.kernel \in Kernels /\ o.value \in Seq(Nat)
         /\ q.op \in {"beginScope", "importBREP"} => o.value # <<>>
<1>1. /\ k.epoch \in Nat /\ k.scopes \in SUBSET Nat /\ k.shapes \in SUBSET (Nat \X Nat)
      /\ k.begun \in Nat /\ k.issued \in Nat /\ q.scope \in Nat
  BY DEF Kernels, Questions
<1>2. CASE q.op = "beginScope"
  <2> DEFINE b == k.begun + 1
             S == k.scopes \cup {b}
  <2>1. o = [kernel |-> [k EXCEPT !.begun = b, !.scopes = S], value |-> <<b>>]
    BY <1>2 DEF Outcomes
  <2>2. b \in Nat /\ S \in SUBSET Nat
    BY <1>1
  <2> HIDE DEF b, S
  <2>3. [k EXCEPT !.begun = b, !.scopes = S] \in Kernels
    BY <2>2 DEF Kernels
  <2> QED
    BY <2>1, <2>2, <2>3
<1>3. CASE q.op \in {"make", "importBREP", "op"}
  <2>1. PICK m \in IF q.op = "op" THEN 0 .. MaxOutputs ELSE {1} :
          o = [kernel |-> [k EXCEPT !.issued = @ + m,
                                    !.shapes = @ \cup (NewHandles(k, m) \X {q.scope})],
               value |-> [i \in 1 .. m |-> k.issued + i]]
    BY <1>3 DEF Outcomes
  <2>2. m \in Nat /\ (q.op # "op" => m = 1)
    BY <2>1, EngineAssumption
  <2> DEFINE b == k.issued + m
             S == k.shapes \cup (NewHandles(k, m) \X {q.scope})
             v == [i \in 1 .. m |-> k.issued + i]
  <2>3. b \in Nat /\ S \in SUBSET (Nat \X Nat)
    <3>1. NewHandles(k, m) \subseteq Nat
      BY <1>1, <2>2 DEF NewHandles
    <3> QED
      BY <1>1, <2>2, <3>1
  <2>4. v \in Seq(Nat) /\ Len(v) = m
    BY <1>1, <2>2
  <2>5. o = [kernel |-> [k EXCEPT !.issued = b, !.shapes = S], value |-> v]
    BY <2>1
  <2> HIDE DEF b, S, v
  <2>6. [k EXCEPT !.issued = b, !.shapes = S] \in Kernels
    BY <2>3 DEF Kernels
  <2>7. o.kernel \in Kernels /\ o.value = v
    BY <2>5, <2>6
  <2>8. q.op = "importBREP" => v # <<>>
    BY <2>2, <2>4
  <2> QED
    BY <1>3, <2>4, <2>7, <2>8
<1>4. CASE q.op = "release"
  <2> DEFINE S == {y \in k.shapes : y[1] \notin q.handles}
  <2>1. o = [kernel |-> [k EXCEPT !.shapes = S], value |-> <<>>]
    BY <1>4 DEF Outcomes
  <2>2. S \in SUBSET (Nat \X Nat)
    BY <1>1
  <2> HIDE DEF S
  <2>3. [k EXCEPT !.shapes = S] \in Kernels
    BY <2>2 DEF Kernels
  <2> QED
    BY <1>4, <2>1, <2>3
<1>5. CASE q.op = "endScope"
  <2> DEFINE S == {y \in k.shapes : y[2] # q.scope}
             T == k.scopes \ {q.scope}
  <2>1. o = [kernel |-> [k EXCEPT !.scopes = T, !.shapes = S], value |-> <<>>]
    BY <1>5 DEF Outcomes
  <2>2. S \in SUBSET (Nat \X Nat) /\ T \in SUBSET Nat
    BY <1>1
  <2> HIDE DEF S, T
  <2>3. [k EXCEPT !.scopes = T, !.shapes = S] \in Kernels
    BY <2>2 DEF Kernels
  <2> QED
    BY <1>5, <2>1, <2>3
<1>6. CASE q.op \notin {"beginScope", "make", "importBREP", "op", "release", "endScope"}
  <2>1. o = [kernel |-> k, value |-> <<>>]
    BY <1>6 DEF Outcomes
  <2> QED
    BY <1>6, <2>1
<1> QED
  BY <1>2, <1>3, <1>4, <1>5, <1>6

\* A runtime that answered its first question, with the kernel k then.
Popped(r, k) == [runtimes[r] EXCEPT !.queue = Tail(@), !.kernel = k]

LEMMA PoppedIs ==
  ASSUME EngineInv, NEW r \in 1 .. Len(runtimes), runtimes[r].queue # <<>>,
         Head(runtimes[r].queue).call # Nobody, NEW k \in Kernels
  PROVE  /\ Popped(r, k).state = "up"
         /\ Shrunk(runtimes[r], Popped(r, k), {Head(runtimes[r].queue).call})
         /\ Leaving(Popped(r, k)) <=> Leaving(runtimes[r])
<1> DEFINE x == runtimes[r]
           v == x.queue
           w == Tail(v)
           y == Popped(r, k)
<1>1. DataTyped /\ AskedOnce
  BY DEF EngineInv
<1>2. x \in RuntimeType /\ v \in Seq(Questions)
  BY <1>1, QueueIs
<1>3. v # <<>> /\ x.state = "up"
  BY <1>1 DEF AskedOnce
<1>4. \A i \in 1 .. Len(v) : v[i].call \in Call => \A j \in 1 .. Len(v) : j # i => v[j].call # v[i].call
  BY <1>1 DEF AskedOnce
<1>5. v[1].call \in Call /\ v[1].call # Nobody
  <2>1. 1 \in 1 .. Len(v) /\ v[1].call # Nobody
    BY <1>2
  <2> QED
    BY <2>1, WaitingIs
<1> HIDE DEF v
<1>6. /\ Len(v) \in Nat /\ w \in Seq(Questions) /\ Len(w) = Len(v) - 1 /\ 1 \in 1 .. Len(v) /\ Head(v) = v[1]
      /\ \A i \in 1 .. Len(w) : i + 1 \in 1 .. Len(v) /\ i + 1 # 1 /\ w[i] = v[i + 1]
  BY <1>2, <1>3
<1>7. y = [x EXCEPT !.queue = w, !.kernel = k]
  BY DEF Popped, v
<1> HIDE DEF w, x
<1>8. /\ y \in RuntimeType /\ y.profile = x.profile /\ y.since = x.since /\ y.state = x.state
      /\ y.queue = w
  BY <1>2, <1>6, <1>7 DEF RuntimeType
<1> HIDE DEF y
<1>9. \A i \in 1 .. Len(w) : i + 1 \in 1 .. Len(v) /\ w[i] = v[i + 1] /\ w[i].call \notin {Head(v).call}
  BY <1>4, <1>5, <1>6
<1>10. Leaving(y) <=> Leaving(x)
  <2>1. ASSUME NEW i \in 1 .. Len(v), v[i].call = Nobody
        PROVE  \E j \in 1 .. Len(w) : w[j].call = Nobody
    <3>1. i # 1
      BY <1>5, <2>1
    <3>2. i - 1 \in 1 .. Len(w) /\ (i - 1) + 1 = i
      BY <1>6, <3>1
    <3>3. w[i - 1] = v[(i - 1) + 1]
      BY <1>6, <3>2
    <3>4. w[i - 1].call = Nobody
      BY <2>1, <3>2, <3>3
    <3> QED
      BY <3>2, <3>4
  <2>2. ASSUME NEW j \in 1 .. Len(w), w[j].call = Nobody
        PROVE  \E i \in 1 .. Len(v) : v[i].call = Nobody
    BY <1>6, <2>2
  <2> QED
    BY <1>8, <2>1, <2>2 DEF Leaving, v
<1>11. Shrunk(x, y, {Head(v).call})
  <2>1. \E d \in {0, 1} : \A i \in 1 .. Len(w) :
          i + d \in 1 .. Len(v) /\ w[i] = v[i + d] /\ w[i].call \notin {Head(v).call}
    BY <1>9
  <2> QED
    BY <1>3, <1>8, <2>1 DEF Shrunk, v
<1> QED
  BY <1>3, <1>8, <1>10, <1>11 DEF x, y, v

\* Everyone who waits for a runtime gets an error.
LEMMA AllReplied ==
  ASSUME EngineInv, NEW r \in 1 .. Len(runtimes), NEW x, Gone(r, x),
         calls' = Replied(Waiting(r) \cap Call, "error", <<>>), runtimes' = [runtimes EXCEPT ![r] = x]
  PROVE  Replies(r, x, Waiting(r) \cap Call, "error", <<>>)
<1> DEFINE C == Waiting(r) \cap Call
<1>1. DataTyped
  BY DEF EngineInv
<1>2. ASSUME NEW c \in C
      PROVE  calls[c].at \in Ops /\ calls[c].rt = r
  <2>1. PICK i \in 1 .. Len(runtimes[r].queue) : c = runtimes[r].queue[i].call
    BY <1>1, QueueIs DEF Waiting
  <2>2. runtimes[r].queue[i].call # Nobody
    BY <2>1, NobodyAssumption
  <2> QED
    BY <2>1, <2>2, WaitingIs
<1>3. Shrunk(runtimes[r], x, C)
  BY <1>1, QueueIs, QueueGone DEF Gone
<1>4. <<>> \in Seq(Nat)
  OBVIOUS
<1> QED
  BY <1>2, <1>3, <1>4 DEF Replies

LEMMA NobodyLeaves ==
  ASSUME EngineInv, NEW r \in 1 .. Len(runtimes)
  PROVE  /\ Nobody \in Waiting(r) <=> Leaving(runtimes[r])
         /\ Wanted(r)
         /\ runtimes[r].queue # <<>> => /\ runtimes[r].state = "up"
                                        /\ Head(runtimes[r].queue) \in Questions
                                        /\ AskedBy(r, Head(runtimes[r].queue))
                                        /\ Head(runtimes[r].queue).call = Nobody => Leaving(runtimes[r])
<1>1. DataTyped /\ AllWanted /\ AskedOnce
  BY DEF EngineInv
<1>2. Nobody \in Waiting(r) <=> Leaving(runtimes[r])
  BY <1>1, QueueIs DEF Waiting, Leaving
<1>3. ASSUME runtimes[r].queue # <<>>
      PROVE  /\ runtimes[r].state = "up"
             /\ Head(runtimes[r].queue) \in Questions
             /\ AskedBy(r, Head(runtimes[r].queue))
             /\ Head(runtimes[r].queue).call = Nobody => Leaving(runtimes[r])
  <2> DEFINE v == runtimes[r].queue
  <2>1. v \in Seq(Questions) /\ \A i \in 1 .. Len(v) : v[i] \in Questions
    BY <1>1, QueueIs
  <2>2. v # <<>>
    BY <1>3
  <2>3. 1 \in 1 .. Len(v) /\ Head(v) = v[1]
    <3> HIDE DEF v
    <3> QED
      BY <2>1, <2>2
  <2>4. runtimes[r].state = "up" /\ AskedBy(r, v[1])
    BY <1>1, <1>3, <2>3 DEF AskedOnce
  <2> QED
    BY <2>1, <2>3, <2>4 DEF Leaving
<1> QED
  BY <1>1, <1>2, <1>3 DEF AllWanted

LEMMA GoneKeeps ==
  ASSUME EngineInv, NEW r \in 1 .. Len(runtimes), NEW x, Gone(r, x), runtimes[r].state = "up",
         calls' = Replied(Waiting(r) \cap Call, "error", <<>>), runtimes' = [runtimes EXCEPT ![r] = x],
         IF Leaving(runtimes[r]) THEN x.state = "closed" ELSE x.state = "up",
         UNCHANGED <<profiles, placements, logical, shapes, phase>>
  PROVE  EngineInv'
<1>1. Replies(r, x, Waiting(r) \cap Call, "error", <<>>)
  BY AllReplied
<1>2. ~Leaving(x)
  BY DEF Gone, Leaving
<1>3. x.state = "up" => profiles[runtimes[r].profile].runtime = r \/ Leaving(x)
  BY NobodyLeaves DEF Wanted
<1>4. x.state \in {"up", "closed"} /\ (x.state = "closed" => Leaving(runtimes[r]))
  OBVIOUS
<1>5. \A c \in Waiting(r) \cap Call : calls[c].at \in Ops /\ calls[c].rt = r
  <2>1. ASSUME NEW c \in Waiting(r) \cap Call
        PROVE  calls[c].at \in Ops /\ calls[c].rt = r
    <3>1. PICK i \in 1 .. Len(runtimes[r].queue) : c = runtimes[r].queue[i].call
      <4>1. DataTyped
        BY DEF EngineInv
      <4> QED
        BY <4>1, QueueIs DEF Waiting
    <3>2. runtimes[r].queue[i].call # Nobody
      BY <3>1, NobodyAssumption
    <3> QED
      BY <3>1, <3>2, WaitingIs
  <2> QED
    BY <2>1
<1> QED
  BY <1>1, <1>2, <1>3, <1>4, OneKeeps

LEMMA PoppedKeeps ==
  ASSUME EngineInv, NEW r \in 1 .. Len(runtimes), runtimes[r].queue # <<>>,
         Head(runtimes[r].queue).op # "releaseAll", NEW k \in Kernels,
         runtimes' = [runtimes EXCEPT ![r] = Popped(r, k)],
         NEW reply \in {"ok", "error"}, NEW value \in Seq(Nat),
         reply = "ok" /\ Head(runtimes[r].queue).op \in {"beginScope", "importBREP"} => value # <<>>,
         calls' = Replied({Head(runtimes[r].queue).call}, reply, value),
         UNCHANGED <<profiles, placements, logical, shapes, phase>>
  PROVE  EngineInv'
<1> DEFINE x == Popped(r, k)
           q == Head(runtimes[r].queue)
           C == {q.call}
<1>1. q \in Questions /\ AskedBy(r, q) /\ runtimes[r].state = "up" /\ Wanted(r)
  BY NobodyLeaves
<1>2. q.op # "releaseAll"
  OBVIOUS
<1> HIDE DEF q
<1>3. /\ q.call # Nobody /\ q.call \in Call /\ q.op \in Ops
      /\ calls[q.call].at = q.op /\ calls[q.call].rt = r
  BY <1>1, <1>2 DEF Questions, AskedBy
<1>4. x.state = "up" /\ Shrunk(runtimes[r], x, C) /\ (Leaving(x) <=> Leaving(runtimes[r]))
  BY <1>3, PoppedIs DEF q
<1>5. Replies(r, x, C, reply, value)
  <2>1. /\ calls' = Replied(C, reply, value) /\ runtimes' = [runtimes EXCEPT ![r] = x]
        /\ reply = "ok" /\ q.op \in {"beginScope", "importBREP"} => value # <<>>
    BY DEF q
  <2> HIDE DEF x
  <2> QED
    BY <1>3, <1>4, <2>1 DEF Replies
<1>6. x.state = "up" => profiles[runtimes[r].profile].runtime = r \/ Leaving(x)
  BY <1>1, <1>4 DEF Wanted
<1> HIDE DEF x, C
<1> QED
  BY <1>1, <1>4, <1>5, <1>6, OneKeeps

LEMMA AnswerKeeps ==
  ASSUME EngineInv, NEW r \in DOMAIN runtimes, Answer(r)
  PROVE  EngineInv'
<1> DEFINE q == Head(runtimes[r].queue)
           k == runtimes[r].kernel
<1>1. /\ runtimes[r].queue # <<>> /\ DataTyped /\ r \in 1 .. Len(runtimes)
      /\ UNCHANGED <<profiles, placements, logical, shapes, phase>>
  <2>1. DataTyped
    BY DEF EngineInv
  <2> QED
    BY <2>1, Lens DEF Answer, engineVars
<1>2. q \in Questions /\ AskedBy(r, q) /\ runtimes[r].state = "up" /\ (q.call = Nobody => Leaving(runtimes[r]))
      /\ k \in Kernels /\ runtimes[r] \in RuntimeType
  BY <1>1, NobodyLeaves, QueueIs
<1>3. CASE /\ q.op = "releaseAll"
           /\ runtimes' = Closed(r)
           /\ calls' = Replied(Waiting(r) \cap Call, "error", <<>>)
  <2>1. PICK x : Gone(r, x) /\ x.state = "closed" /\ Closed(r) = [runtimes EXCEPT ![r] = x]
    BY <1>1, ClosedIs
  <2>2. Leaving(runtimes[r])
    BY <1>2, <1>3 DEF AskedBy
  <2>3. runtimes' = [runtimes EXCEPT ![r] = x] /\ calls' = Replied(Waiting(r) \cap Call, "error", <<>>)
    BY <1>3, <2>1
  <2> QED
    BY <1>1, <1>2, <2>1, <2>2, <2>3, GoneKeeps
<1>4. CASE /\ q.op # "releaseAll"
           /\ runtimes' = [runtimes EXCEPT ![r].queue = Tail(@)]
           /\ calls' = Replied({q.call}, "error", <<>>)
  <2>1. runtimes' = [runtimes EXCEPT ![r] = Popped(r, k)]
    BY <1>1, <1>2, <1>4 DEF Popped, RuntimeType
  <2>2. <<>> \in Seq(Nat)
    OBVIOUS
  <2> HIDE DEF k
  <2> QED
    BY <1>1, <1>2, <1>4, <2>1, <2>2, PoppedKeeps
<1>5. CASE /\ q.op # "releaseAll"
           /\ \E o \in Outcomes(k, q) :
                /\ runtimes' = [[runtimes EXCEPT ![r].queue = Tail(@)] EXCEPT ![r].kernel = o.kernel]
                /\ calls' = Replied({q.call}, "ok", o.value)
  <2>1. PICK o \in Outcomes(k, q) :
          /\ runtimes' = [[runtimes EXCEPT ![r].queue = Tail(@)] EXCEPT ![r].kernel = o.kernel]
          /\ calls' = Replied({q.call}, "ok", o.value)
    BY <1>5
  <2>2. /\ o.kernel \in Kernels /\ o.value \in Seq(Nat)
        /\ q.op \in {"beginScope", "importBREP"} => o.value # <<>>
    BY <1>2, OutcomeIs
  <2> DEFINE l == o.kernel
             v == o.value
  <2>3. l \in Kernels /\ v \in Seq(Nat) /\ calls' = Replied({q.call}, "ok", v)
    BY <2>1, <2>2
  <2>4. runtimes' = [[runtimes EXCEPT ![r].queue = Tail(@)] EXCEPT ![r].kernel = l]
        /\ (q.op \in {"beginScope", "importBREP"} => v # <<>>)
    BY <2>1, <2>2
  <2> HIDE DEF l, v, k
  <2>5. runtimes' = [runtimes EXCEPT ![r] = Popped(r, l)]
    BY <1>1, <1>2, <2>4 DEF Popped, RuntimeType
  <2> QED
    BY <1>1, <1>2, <1>5, <2>3, <2>4, <2>5, PoppedKeeps
<1> QED
  BY <1>3, <1>4, <1>5 DEF Answer

LEMMA RebuildKeeps ==
  ASSUME EngineInv, NEW r \in DOMAIN runtimes, Rebuild(r)
  PROVE  EngineInv'
<1>1. /\ runtimes[r].state = "up" /\ DataTyped /\ r \in 1 .. Len(runtimes)
      /\ calls' = Replied(Waiting(r) \cap Call, "error", <<>>)
      /\ UNCHANGED <<profiles, placements, logical, shapes, phase>>
  <2>1. DataTyped
    BY DEF EngineInv
  <2> QED
    BY <2>1, Lens DEF Rebuild
<1>2. PICK x : /\ Gone(r, x) /\ runtimes' = [runtimes EXCEPT ![r] = x]
               /\ IF Leaving(runtimes[r]) THEN x.state = "closed" ELSE x.state = "up"
  <2>1. CASE Leaving(runtimes[r])
    <3>1. PICK x : Gone(r, x) /\ x.state = "closed" /\ Closed(r) = [runtimes EXCEPT ![r] = x]
      BY <1>1, ClosedIs
    <3> QED
      BY <1>1, <2>1, <3>1, NobodyLeaves DEF Rebuild
  <2>2. CASE ~Leaving(runtimes[r])
    <3>1. PICK x : Gone(r, x) /\ x.state = runtimes[r].state /\ Rebuilt(r) = [runtimes EXCEPT ![r] = x]
      BY <1>1, RebuiltIs
    <3> QED
      BY <1>1, <2>2, <3>1, NobodyLeaves DEF Rebuild
  <2> QED
    BY <2>1, <2>2
<1> QED
  BY <1>1, <1>2, GoneKeeps

\* The start of r settles: its profile uses it, or goes without it.
StartersOf(r) == {c \in Call : calls[c].at = "start" /\ calls[c].rt = r}
Settling(r, x, mine, reply) ==
  LET own == profiles[runtimes[r].profile] IN
  /\ Gone(r, x) /\ reply \in {"ok", "error"} /\ calls' = Replied(StartersOf(r), reply, <<>>)
  /\ runtimes' = [runtimes EXCEPT ![r] = x] /\ profiles' = [profiles EXCEPT ![runtimes[r].profile] = mine]
  /\ mine \in ProfileType /\ mine.epoch = own.epoch
  /\ mine.starting = IF own.starting = r THEN 0 ELSE own.starting
  /\ \/ /\ StillWanted(r) /\ x.state = "up" /\ mine.runtime = r
     \/ /\ x.state = "closed" /\ mine.runtime = own.runtime

LEMMA StartSettled ==
  ASSUME EngineInv, NEW r \in 1 .. Len(runtimes), runtimes[r].state = "starting",
         NEW x, NEW mine, NEW reply, Settling(r, x, mine, reply),
         UNCHANGED <<placements, logical, shapes, phase>>
  PROVE  EngineInv'
<1> DEFINE p == runtimes[r].profile
           own == profiles[p]
           C == StartersOf(r)
<1>1. /\ DataTyped /\ AskedOnce /\ OwnRuntimes /\ AllWanted /\ OpenRuntimes /\ EpochsCurrent /\ LeasesExact
  BY DEF EngineInv
<1>0. /\ Gone(r, x) /\ reply \in {"ok", "error"} /\ calls' = Replied(C, reply, <<>>)
      /\ runtimes' = [runtimes EXCEPT ![r] = x] /\ profiles' = [profiles EXCEPT ![p] = mine]
      /\ mine \in ProfileType /\ mine.epoch = own.epoch
      /\ mine.starting = IF own.starting = r THEN 0 ELSE own.starting
      /\ \/ /\ StillWanted(r) /\ x.state = "up" /\ mine.runtime = r
         \/ /\ x.state = "closed" /\ mine.runtime = own.runtime
  BY DEF Settling
<1>2. p \in Profile /\ runtimes[r] \in RuntimeType /\ own \in ProfileType /\ runtimes[r].queue = <<>> /\ Wanted(r)
  BY <1>1, QueueIs, RuntimeIs DEF AskedOnce, AllWanted
<1>3. Replies(r, x, C, reply, <<>>)
  <2>1. Shrunk(runtimes[r], x, C)
    BY <1>0, <1>2, QueueGone DEF Gone
  <2>2. <<>> \in Seq(Nat)
    OBVIOUS
  <2>3. \A c \in C : /\ calls[c].at \in Ops \cup {"start"}
                     /\ calls[c].at = "start" \/ calls[c].rt = r
                     /\ ~(calls[c].at \in {"beginScope", "importBREP"})
    BY DEF StartersOf
  <2>4. C \subseteq Call
    BY DEF StartersOf
  <2> QED
    BY <1>0, <2>4, <2>1, <2>2, <2>3 DEF Replies
<1>4. /\ RuntimesTyped' /\ Len(runtimes') = Len(runtimes) /\ runtimes'[r] = x
      /\ \A k \in 1 .. Len(runtimes) : k # r => runtimes'[k] = runtimes[k]
      /\ CallsTyped' /\ AskedOnce'
      /\ \A c \in Call : calls'[c].held = calls[c].held /\ calls'[c].source = calls[c].source
  <2>1. Len(placements') = Len(placements) /\ Len(logical') = Len(logical)
    OBVIOUS
  <2> HIDE DEF C
  <2> QED
    BY ONLY EngineInv, r \in 1 .. Len(runtimes), <1>3, <2>1, OneSettles
<1>5. /\ mine \in ProfileType /\ mine.epoch = own.epoch /\ mine.starting \in {0, own.starting}
      /\ own.starting # r => mine.starting = own.starting
      /\ mine.runtime \in {own.runtime, r}
      /\ mine.runtime = r => x.state = "up" /\ StillWanted(r)
      /\ x.state = "up" => mine.runtime = r /\ StillWanted(r)
      /\ x.state \in {"up", "closed"}
  <2>1. own.runtime # r
    BY <1>1, <1>2 DEF OpenRuntimes
  <2> QED
    BY <1>0, <1>2, <2>1
<1>6. /\ profiles' \in [Profile -> ProfileType] /\ profiles'[p] = mine
      /\ \A q \in Profile : q # p => profiles'[q] = profiles[q]
  BY <1>0, <1>1, <1>2, <1>5 DEF DataTyped, ProfilesTyped
<1>7. x.profile = p /\ x.since = runtimes[r].since /\ ~Leaving(x) /\ x.queue = <<>>
  BY <1>0 DEF Gone, Leaving
<1>8. StillWanted(r) => phase = "open" /\ own.starting = r /\ own.runtime = 0
  BY <1>2 DEF StillWanted, Wanted
<1> HIDE DEF p, own, C
<1>9. DataTyped'
  <2>1. ASSUME NEW q \in Profile
        PROVE  profiles'[q].runtime \in 0 .. Len(runtimes) /\ profiles'[q].starting \in 0 .. Len(runtimes)
    <3>1. profiles[q].runtime \in 0 .. Len(runtimes) /\ profiles[q].starting \in 0 .. Len(runtimes) /\ Len(runtimes) \in Nat
      BY <1>1, Lens DEF DataTyped, ProfilesTyped
    <3>2. CASE q = p
      BY <1>5, <1>6, <3>1, <3>2 DEF own
    <3>3. CASE q # p
      BY <1>6, <3>1, <3>3
    <3> QED
      BY <3>2, <3>3
  <2>2. ProfilesTyped'
    BY <1>4, <1>6, <2>1 DEF ProfilesTyped
  <2> QED
    BY <1>1, <1>4, <2>2 DEF DataTyped, PlacementsTyped, ShapesTyped
<1>10. \A k \in 1 .. Len(runtimes) : runtimes'[k].profile = runtimes[k].profile /\ runtimes'[k].since = runtimes[k].since
  BY <1>4, <1>7 DEF p
<1>11. OwnRuntimes'
  <2>1. ASSUME NEW q \in Profile, profiles'[q].runtime # 0
        PROVE  runtimes'[profiles'[q].runtime].profile = q
    <3>1. profiles[q].runtime # 0 => profiles[q].runtime \in 1 .. Len(runtimes) /\ runtimes[profiles[q].runtime].profile = q
      BY <1>1, RuntimeIs DEF OwnRuntimes
    <3>2. CASE profiles'[q].runtime = profiles[q].runtime
      BY <1>10, <2>1, <3>1, <3>2
    <3>3. CASE q = p /\ profiles'[q].runtime = r
      BY <1>4, <1>7, <3>3
    <3> QED
      BY <1>5, <1>6, <3>2, <3>3 DEF own
  <2> QED
    BY <2>1 DEF OwnRuntimes
<1>12. AllWanted'
  <2>1. ASSUME NEW k \in 1 .. Len(runtimes)
        PROVE  Wanted(k)'
    <3>1. Wanted(k) /\ runtimes[k].profile \in Profile
      BY <1>1, QueueIs DEF AllWanted
    <3>2. profiles'[runtimes[k].profile].epoch = profiles[runtimes[k].profile].epoch
      BY <1>5, <1>6, <3>1 DEF own
    <3>3. CASE k = r
      <4>1. runtimes'[k] = x /\ x.profile = p /\ x.since = runtimes[r].since /\ x.state # "starting"
        BY <1>4, <1>5, <1>7, <3>3
      <4>2. x.state = "up" => profiles'[p].runtime = r
        BY <1>5, <1>6
      <4> QED
        BY <3>1, <3>2, <3>3, <4>1, <4>2 DEF Wanted, p
    <3>4. CASE k # r /\ runtimes[k].profile # p
      BY <1>4, <1>6, <3>1, <3>4 DEF Wanted
    <3>5. CASE k # r /\ runtimes[k].profile = p
      <4>1. runtimes'[k] = runtimes[k] /\ profiles'[p] = mine
        BY <1>4, <1>6, <3>5
      <4>2. ASSUME runtimes[k].state = "starting", runtimes[k].since = mine.epoch, phase = "open"
            PROVE  mine.starting = k /\ mine.runtime = 0
        <5>1. own.starting = k /\ own.runtime = 0
          BY <1>5, <3>1, <3>5, <4>2 DEF Wanted, own
        <5>2. mine.starting = k
          BY <1>5, <3>5, <5>1
        <5>3. mine.runtime = 0
          BY <1>5, <1>8, <3>5, <5>1
        <5> QED
          BY <5>2, <5>3
      <4>3. ASSUME runtimes[k].state = "up"
            PROVE  mine.runtime = k \/ Leaving(runtimes[k])
        <5>1. own.runtime = k \/ Leaving(runtimes[k])
          BY <3>1, <3>5, <4>3 DEF Wanted, own
        <5>2. mine.runtime = own.runtime \/ own.runtime = 0
          BY <1>5, <1>8
        <5> QED
          BY <5>1, <5>2
      <4>4. runtimes[k].since <= mine.epoch
        BY <3>1, <3>2, <3>5, <4>1 DEF Wanted
      <4> QED
        BY <3>5, <4>1, <4>2, <4>3, <4>4 DEF Wanted
    <3> QED
      BY <3>3, <3>4, <3>5
  <2> QED
    BY <1>4, <2>1 DEF AllWanted
<1>13. OpenRuntimes'
  <2>1. ASSUME NEW q \in Profile, profiles'[q].runtime # 0
        PROVE  phase = "open" /\ runtimes'[profiles'[q].runtime].state = "up"
    <3>1. profiles[q].runtime # 0 =>
            /\ phase = "open" /\ runtimes[profiles[q].runtime].state = "up"
            /\ profiles[q].runtime \in 1 .. Len(runtimes) /\ profiles[q].runtime # r
      BY <1>1, RuntimeIs DEF OpenRuntimes
    <3>2. CASE profiles'[q].runtime = profiles[q].runtime
      BY <1>4, <2>1, <3>1, <3>2
    <3>3. CASE q = p /\ profiles'[q].runtime = r
      BY <1>4, <1>5, <1>6, <1>8, <3>3
    <3> QED
      BY <1>5, <1>6, <3>2, <3>3 DEF own
  <2>2. phase = "open" => \A k \in 1 .. Len(runtimes) : ~Leaving(runtimes'[k])
    BY <1>1, <1>4, <1>7 DEF OpenRuntimes
  <2> QED
    BY <1>4, <2>1, <2>2 DEF OpenRuntimes
<1>14. EpochsCurrent'
  <2>1. \A q \in Profile : profiles'[q].epoch = profiles[q].epoch
    BY <1>5, <1>6 DEF own
  <2>2. \A n \in 1 .. Len(placements) : placements[n].profile \in Profile
    BY <1>1, Lens DEF PlacementType
  <2> QED
    BY <1>1, <2>1, <2>2 DEF EpochsCurrent, Kept
<1>15. LeasesExact'
  <2>1. \A n \in 1 .. Len(placements) :
           /\ placements'[n].leaseCount = placements[n].leaseCount
           /\ placements'[n].state = "transferring" => placements[n].state = "transferring"
           /\ phase' = "open" /\ Kept(n)' => Kept(n)
    BY DEF Kept
  <2>2. placements' \in Seq(PlacementType)
    BY <1>1 DEF DataTyped, PlacementsTyped
  <2> QED
    BY <1>1, <1>4, <2>1, <2>2, LeasesStay
<1> QED
  BY <1>4, <1>9, <1>11, <1>12, <1>13, <1>14, <1>15 DEF EngineInv

LEMMA StartedKeeps ==
  ASSUME EngineInv, NEW r \in DOMAIN runtimes, Started(r)
  PROVE  EngineInv'
<1> DEFINE p == runtimes[r].profile
           own == profiles[p]
           done == IF own.starting = r THEN [own EXCEPT !.starting = 0] ELSE own
<1>1. /\ DataTyped /\ AskedOnce /\ r \in 1 .. Len(runtimes)
  <2>1. DataTyped /\ AskedOnce
    BY DEF EngineInv
  <2> QED
    BY <2>1, Lens
<1>2. /\ runtimes[r] \in RuntimeType /\ p \in Profile /\ own \in ProfileType
      /\ runtimes[r].state = "starting" /\ runtimes[r].queue = <<>>
      /\ UNCHANGED <<placements, logical, shapes, phase>>
  BY <1>1, QueueIs, RuntimeIs DEF AskedOnce, Started
<1>3. /\ done \in ProfileType /\ done.epoch = own.epoch /\ done.runtime = own.runtime
      /\ done.starting = IF own.starting = r THEN 0 ELSE own.starting
  <2> HIDE DEF own
  <2> QED
    BY <1>2 DEF ProfileType
<1>4. CASE /\ StillWanted(r)
           /\ runtimes' = [runtimes EXCEPT ![r].state = "up"]
           /\ profiles' = [profiles EXCEPT ![p] =
                [done EXCEPT !.runtime = r, !.runtimeEpoch = runtimes[r].kernel.epoch]]
           /\ calls' = Replied(StartersOf(r), "ok", <<>>)
  <2> DEFINE x == [runtimes[r] EXCEPT !.state = "up"]
             e == runtimes[r].kernel.epoch
             mine == [done EXCEPT !.runtime = r, !.runtimeEpoch = e]
  <2>1. runtimes' = [runtimes EXCEPT ![r] = x]
    BY <1>4
  <2>2. /\ x \in RuntimeType /\ x.profile = p /\ x.since = runtimes[r].since /\ x.queue = <<>> /\ x.state = "up"
        /\ x.kernel = runtimes[r].kernel /\ runtimes[r].kernel.epoch \in Nat
    BY <1>2 DEF RuntimeType, Kernels
  <2>3. e \in Nat /\ r \in Nat
    BY <1>1, QueueIs DEF Kernels
  <2>4. profiles' = [profiles EXCEPT ![p] = mine]
    BY <1>4
  <2> HIDE DEF x, e, done
  <2>5. mine \in ProfileType /\ mine.epoch = done.epoch /\ mine.starting = done.starting /\ mine.runtime = r
    BY <1>3, <2>3 DEF ProfileType
  <2> HIDE DEF mine
  <2>6. Gone(r, x)
    BY <1>2, <2>2 DEF Gone, Onward
  <2>7. Settling(r, x, mine, "ok")
    BY <1>3, <1>4, <2>1, <2>2, <2>4, <2>5, <2>6 DEF Settling
  <2> QED
    BY <1>1, <1>2, <2>7, StartSettled
<1>5. CASE /\ runtimes' = Closed(r)
           /\ profiles' = [profiles EXCEPT ![p] = done]
           /\ calls' = Replied(StartersOf(r), "error", <<>>)
  <2>1. PICK x : Gone(r, x) /\ x.state = "closed" /\ Closed(r) = [runtimes EXCEPT ![r] = x]
    BY <1>1, ClosedIs
  <2>2. profiles' = [profiles EXCEPT ![p] = done] /\ runtimes' = [runtimes EXCEPT ![r] = x]
    BY <1>5, <2>1
  <2> HIDE DEF done
  <2>3. Settling(r, x, done, "error")
    BY <1>3, <1>5, <2>1, <2>2 DEF Settling
  <2> QED
    BY <1>1, <1>2, <2>3, StartSettled
<1> QED
  BY <1>4, <1>5 DEF Started, StartersOf

\* A profile gets a new epoch and no runtime; whoever waited for the one it had gets an error.
LEMMA InvalidateKeeps ==
  ASSUME EngineInv, NEW p \in Profile, InvalidateProfileEpoch(p)
  PROVE  EngineInv'
<1> DEFINE r == profiles[p].runtime
           none == [runtime |-> 0, runtimeEpoch |-> 0, starting |-> 0, epoch |-> profiles[p].epoch + 1]
<1>1. /\ DataTyped /\ CallsTyped /\ AskedOnce /\ OwnRuntimes /\ AllWanted /\ OpenRuntimes /\ EpochsCurrent
      /\ LeasesExact
  BY DEF EngineInv
<1>2. /\ profiles' = [profiles EXCEPT ![p] = none] /\ placements' = InvalidPlacements({p}, placements)
      /\ logical' = logical /\ shapes' = shapes /\ phase' = phase
      /\ profiles \in [Profile -> ProfileType] /\ profiles[p].epoch \in Nat
      /\ r # 0 => r \in 1 .. Len(runtimes) /\ runtimes[r].profile = p
  BY <1>1, RuntimeIs DEF InvalidateProfileEpoch, DataTyped, ProfilesTyped, ProfileType, OwnRuntimes
<1>3. /\ none \in ProfileType /\ none.epoch = profiles[p].epoch + 1 /\ none.runtime = 0 /\ none.starting = 0
  BY <1>2 DEF ProfileType
<1> HIDE DEF none
<1>4. /\ profiles' \in [Profile -> ProfileType] /\ profiles'[p] = none
      /\ \A q \in Profile : q # p => profiles'[q] = profiles[q]
  BY <1>2, <1>3
<1>5. /\ placements' \in Seq(PlacementType) /\ Len(placements') = Len(placements)
      /\ \A n \in 1 .. Len(placements) :
           /\ placements'[n].profile = placements[n].profile /\ placements'[n].epoch = placements[n].epoch
           /\ placements'[n].shape = placements[n].shape /\ placements'[n].leaseCount = placements[n].leaseCount
           /\ placements[n].profile = p /\ Kept(n) => placements'[n].state = "invalid"
           /\ placements'[n].state # "invalid" => placements'[n].state = placements[n].state
  <2>1. /\ placements \in Seq(PlacementType)
        /\ placements' = [n \in 1 .. Len(placements) |->
             IF placements[n].profile \in {p} /\ Kept(n) THEN [placements[n] EXCEPT !.state = "invalid"]
             ELSE placements[n]]
    BY <1>1, <1>2, Lens DEF InvalidPlacements, DataTyped, PlacementsTyped
  <2>2. ASSUME NEW n \in 1 .. Len(placements)
        PROVE  /\ placements'[n] \in PlacementType
               /\ placements'[n].profile = placements[n].profile /\ placements'[n].epoch = placements[n].epoch
               /\ placements'[n].shape = placements[n].shape
               /\ placements'[n].leaseCount = placements[n].leaseCount
               /\ placements[n].profile = p /\ Kept(n) => placements'[n].state = "invalid"
               /\ placements'[n].state # "invalid" => placements'[n].state = placements[n].state
    <3>1. placements[n] \in PlacementType
      BY <2>1
    <3>2. CASE placements[n].profile = p /\ Kept(n)
      <4>1. placements'[n] = [placements[n] EXCEPT !.state = "invalid"]
        BY <2>1, <3>2
      <4> QED
        BY <3>1, <4>1, Invalid
    <3>3. CASE ~(placements[n].profile = p /\ Kept(n))
      BY <2>1, <3>1, <3>3
    <3> QED
      BY <3>2, <3>3
  <2>3. placements' \in Seq(PlacementType) /\ Len(placements') = Len(placements)
    <3>1. Len(placements) \in Nat /\ \A n \in 1 .. Len(placements) : placements'[n] \in PlacementType
      BY <2>1, <2>2
    <3>2. placements' = [n \in 1 .. Len(placements) |-> placements'[n]]
      BY <2>1
    <3> QED
      BY ONLY <3>1, <3>2
  <2> QED
    BY <2>2, <2>3
<1>6. /\ RuntimesTyped' /\ Len(runtimes') = Len(runtimes) /\ CallsTyped' /\ AskedOnce'
      /\ \A k \in 1 .. Len(runtimes) : k # r => runtimes'[k] = runtimes[k]
      /\ r # 0 => Gone(r, runtimes'[r]) /\ runtimes'[r].state = "closed"
      /\ \A c \in Call : calls'[c].held = calls[c].held /\ calls'[c].source = calls[c].source
  <2>1. CASE r # 0
    <3>1. PICK x : Gone(r, x) /\ x.state = "closed" /\ Closed(r) = [runtimes EXCEPT ![r] = x]
      BY <1>1, <1>2, <2>1, ClosedIs
    <3>2. runtimes' = [runtimes EXCEPT ![r] = x] /\ calls' = Replied(Waiting(r) \cap Call, "error", <<>>)
      BY <2>1, <3>1 DEF InvalidateProfileEpoch
    <3>3. r \in 1 .. Len(runtimes)
      BY <1>2, <2>1
    <3>4. Len(placements') = Len(placements) /\ Len(logical') = Len(logical)
      BY <1>2, <1>5
    <3> HIDE DEF r
    <3>5. Replies(r, x, Waiting(r) \cap Call, "error", <<>>)
      BY <3>1, <3>2, <3>3, AllReplied
    <3>6. /\ RuntimesTyped' /\ Len(runtimes') = Len(runtimes) /\ runtimes'[r] = x
          /\ \A k \in 1 .. Len(runtimes) : k # r => runtimes'[k] = runtimes[k]
          /\ CallsTyped' /\ AskedOnce'
          /\ \A c \in Call : calls'[c].held = calls[c].held /\ calls'[c].source = calls[c].source
      BY ONLY EngineInv, <3>3, <3>4, <3>5, OneSettles
    <3> QED
      BY <3>1, <3>6
  <2>2. CASE r = 0
    <3>1. runtimes' = runtimes /\ calls' = calls /\ Len(placements') = Len(placements) /\ Len(logical') = Len(logical)
      BY <1>2, <1>5, <2>2 DEF InvalidateProfileEpoch
    <3>2. RuntimesTyped' /\ CallsTyped' /\ AskedOnce'
      BY <1>1, <3>1 DEF DataTyped, RuntimesTyped, CallsTyped, AskedOnce, AskedBy
    <3> QED
      BY <2>2, <3>1, <3>2
  <2> QED
    BY <2>1, <2>2
<1>7. /\ \A k \in 1 .. Len(runtimes) : runtimes'[k].profile = runtimes[k].profile /\ runtimes'[k].since = runtimes[k].since
      /\ \A k \in 1 .. Len(runtimes) : runtimes[k].profile # p => runtimes'[k] = runtimes[k]
  BY <1>2, <1>6 DEF Gone
<1>8. ASSUME NEW q \in Profile, profiles'[q].runtime # 0
      PROVE  /\ q # p /\ profiles'[q] = profiles[q] /\ profiles[q].runtime \in 1 .. Len(runtimes)
             /\ runtimes[profiles[q].runtime].profile = q
             /\ runtimes'[profiles[q].runtime] = runtimes[profiles[q].runtime]
  <2>1. q # p /\ profiles'[q] = profiles[q]
    BY <1>3, <1>4, <1>8
  <2>2. profiles[q].runtime \in 1 .. Len(runtimes) /\ runtimes[profiles[q].runtime].profile = q
    BY <1>1, <1>8, <2>1, RuntimeIs DEF OwnRuntimes
  <2> QED
    BY <1>7, <2>1, <2>2
<1>9. DataTyped'
  <2>1. \A q \in Profile : profiles'[q].runtime \in 0 .. Len(runtimes) /\ profiles'[q].starting \in 0 .. Len(runtimes)
    <3>1. Len(runtimes) \in Nat
      BY <1>1, Lens
    <3> QED
      BY <1>1, <1>3, <1>4, <3>1 DEF DataTyped, ProfilesTyped
  <2>2. ProfilesTyped'
    BY <1>4, <1>6, <2>1 DEF ProfilesTyped
  <2>3. PlacementsTyped' /\ ShapesTyped'
    BY <1>1, <1>2, <1>5 DEF DataTyped, PlacementsTyped, ShapesTyped
  <2> QED
    BY <1>6, <2>2, <2>3 DEF DataTyped
<1>10. OwnRuntimes'
  BY <1>8 DEF OwnRuntimes
<1>11. AllWanted'
  <2>1. ASSUME NEW k \in 1 .. Len(runtimes)
        PROVE  Wanted(k)'
    <3>1. Wanted(k) /\ runtimes[k].profile \in Profile /\ runtimes[k].since \in Nat
      BY <1>1, QueueIs DEF AllWanted
    <3>2. CASE runtimes[k].profile # p
      BY <1>2, <1>4, <1>7, <3>1, <3>2 DEF Wanted
    <3>3. CASE runtimes[k].profile = p
      <4>1. /\ profiles'[p].epoch = profiles[p].epoch + 1 /\ runtimes'[k].profile = p
            /\ runtimes'[k].since = runtimes[k].since /\ runtimes[k].since <= profiles[p].epoch
        BY <1>3, <1>4, <1>7, <3>1, <3>3 DEF Wanted
      <4>2. runtimes'[k].since <= profiles'[p].epoch /\ runtimes'[k].since # profiles'[p].epoch
        <5> HIDE DEF r
        <5> QED
          BY ONLY <1>2, <3>1, <4>1
      <4>3. runtimes'[k].state = "up" => Leaving(runtimes'[k])
        BY <1>6, <3>1, <3>3 DEF Wanted
      <4> QED
        BY <4>1, <4>2, <4>3 DEF Wanted
    <3> QED
      BY <3>2, <3>3
  <2> QED
    BY <1>6, <2>1 DEF AllWanted
<1>12. OpenRuntimes'
  <2>1. \A q \in Profile : profiles'[q].runtime # 0 => phase' = "open" /\ runtimes'[profiles'[q].runtime].state = "up"
    BY <1>1, <1>2, <1>8 DEF OpenRuntimes
  <2>2. r # 0 => ~Leaving(runtimes'[r])
    BY <1>6 DEF Gone, Leaving
  <2>3. phase' = "open" => \A k \in 1 .. Len(runtimes) : ~Leaving(runtimes'[k])
    BY <1>1, <1>2, <1>6, <2>2 DEF OpenRuntimes
  <2> QED
    BY <1>6, <2>1, <2>3 DEF OpenRuntimes
<1>13. ASSUME NEW n \in 1 .. Len(placements)
       PROVE  Kept(n)' <=> Kept(n)
  BY <1>2, <1>5 DEF Kept
<1>14. EpochsCurrent'
  <2>1. ASSUME NEW n \in 1 .. Len(placements), phase = "open", Kept(n), placements'[n].state # "invalid"
        PROVE  placements'[n].epoch = profiles'[placements'[n].profile].epoch
    <3>1. /\ placements[n].profile # p /\ placements[n].state # "invalid" /\ placements[n].profile \in Profile
      BY <1>1, <1>5, <2>1, Lens DEF PlacementType
    <3>2. placements[n].epoch = profiles[placements[n].profile].epoch
      BY <1>1, <2>1, <3>1 DEF EpochsCurrent
    <3> QED
      BY <1>4, <1>5, <3>1, <3>2
  <2> QED
    BY <1>2, <1>5, <1>13, <2>1 DEF EpochsCurrent
<1>15. LeasesExact'
  <2>1. \A n \in 1 .. Len(placements) :
           /\ placements'[n].leaseCount = placements[n].leaseCount
           /\ placements'[n].state = "transferring" => placements[n].state = "transferring"
           /\ phase' = "open" /\ Kept(n)' => Kept(n)
    BY <1>5, <1>13
  <2> QED
    BY <1>1, <1>2, <1>5, <1>6, <2>1, LeasesStay
<1> QED
  BY <1>6, <1>9, <1>10, <1>11, <1>12, <1>14, <1>15 DEF EngineInv

\* The runtime x is asked to release all.
AskedToLeave(x) == [x EXCEPT !.queue = Append(@, Question(Nobody, "releaseAll", {}, 0))]

LEMMA AskedToLeaveIs ==
  ASSUME NEW x \in RuntimeType
  PROVE  LET y == AskedToLeave(x)
             m == Len(x.queue)
         IN /\ y \in RuntimeType /\ y.profile = x.profile /\ y.since = x.since /\ y.state = x.state
            /\ m \in Nat /\ Len(y.queue) = m + 1 /\ Leaving(y)
            /\ \A i \in 1 .. m : y.queue[i] = x.queue[i]
            /\ y.queue[m + 1].call = Nobody /\ y.queue[m + 1].op = "releaseAll"
<1> DEFINE q == Question(Nobody, "releaseAll", {}, 0)
           v == x.queue
           w == Append(v, q)
           y == AskedToLeave(x)
           m == Len(v)
<1>1. q \in Questions /\ q.call = Nobody /\ q.op = "releaseAll"
  BY DEF Question, Questions
<1>2. v \in Seq(Questions) /\ y = [x EXCEPT !.queue = w]
  BY DEF RuntimeType, AskedToLeave
<1> HIDE DEF q, v, y
<1>3. /\ w \in Seq(Questions) /\ m \in Nat /\ Len(w) = m + 1 /\ w[m + 1] = q
      /\ \A i \in 1 .. m : w[i] = v[i]
  BY <1>1, <1>2
<1> HIDE DEF w
<1>4. y \in RuntimeType /\ y.profile = x.profile /\ y.since = x.since /\ y.state = x.state /\ y.queue = w
  BY <1>2, <1>3 DEF RuntimeType
<1>5. Leaving(y)
  <2>1. m + 1 \in 1 .. Len(w)
    BY <1>3
  <2> QED
    BY <1>1, <1>3, <1>4, <2>1 DEF Leaving
<1> QED
  BY <1>1, <1>3, <1>4, <1>5 DEF v, y, m

LEMMA CloseKeeps ==
  ASSUME EngineInv, Close
  PROVE  EngineInv'
<1> DEFINE up == {profiles[p].runtime : p \in Profile} \ {0}
<1>1. /\ DataTyped /\ CallsTyped /\ AskedOnce /\ OwnRuntimes /\ AllWanted /\ OpenRuntimes /\ EpochsCurrent
      /\ LeasesExact
  BY DEF EngineInv
<1>2. /\ phase = "open" /\ phase' = "closing"
      /\ runtimes' = [k \in 1 .. Len(runtimes) |-> IF k \in up THEN AskedToLeave(runtimes[k]) ELSE runtimes[k]]
      /\ profiles' = [p \in Profile |->
           [runtime |-> 0, runtimeEpoch |-> 0, starting |-> 0, epoch |-> profiles[p].epoch + 1]]
      /\ UNCHANGED <<placements, logical, shapes, calls>>
  BY <1>1, Lens DEF Close, AskedToLeave
<1>3. ASSUME NEW k \in 1 .. Len(runtimes), k \in up
      PROVE  runtimes[k].state = "up"
  BY <1>1, <1>3 DEF OpenRuntimes
<1>4. /\ Len(runtimes) \in Nat
      /\ \A k \in 1 .. Len(runtimes) :
           runtimes[k] \in RuntimeType /\ runtimes[k].profile \in Profile /\ runtimes[k].since \in Nat
  BY <1>1, Lens, QueueIs
<1>5. ASSUME NEW k \in 1 .. Len(runtimes)
      PROVE  /\ runtimes'[k] \in RuntimeType /\ runtimes'[k].profile = runtimes[k].profile
             /\ runtimes'[k].since = runtimes[k].since /\ runtimes'[k].state = runtimes[k].state
             /\ k \in up => runtimes'[k] = AskedToLeave(runtimes[k]) /\ Leaving(runtimes'[k])
             /\ k \notin up => runtimes'[k] = runtimes[k]
  <2>1. CASE k \in up
    BY <1>2, <1>4, <2>1, AskedToLeaveIs
  <2>2. CASE k \notin up
    BY <1>2, <1>4, <2>2
  <2> QED
    BY <2>1, <2>2
<1>6. RuntimesTyped' /\ Len(runtimes') = Len(runtimes)
  <2>1. \A k \in 1 .. Len(runtimes) : runtimes'[k] \in RuntimeType
    BY <1>5
  <2>2. runtimes' = [k \in 1 .. Len(runtimes) |-> runtimes'[k]]
    BY <1>2
  <2>3. runtimes' \in Seq(RuntimeType) /\ Len(runtimes') = Len(runtimes)
    BY ONLY <1>4, <2>1, <2>2
  <2> QED
    BY <2>3 DEF RuntimesTyped
<1>7. /\ profiles' \in [Profile -> ProfileType]
      /\ \A p \in Profile : /\ profiles'[p].runtime = 0 /\ profiles'[p].starting = 0
                            /\ profiles'[p].epoch = profiles[p].epoch + 1 /\ profiles[p].epoch \in Nat
  BY <1>1, <1>2 DEF DataTyped, ProfilesTyped, ProfileType
<1>8. DataTyped'
  <2>1. ProfilesTyped'
    BY <1>4, <1>6, <1>7 DEF ProfilesTyped
  <2> QED
    BY <1>1, <1>2, <1>6, <2>1 DEF DataTyped, PlacementsTyped, ShapesTyped
<1>9. CallsTyped'
  BY <1>1, <1>2, <1>6 DEF CallsTyped
<1>10. AskedOnce'
  <2>1. ASSUME NEW k \in 1 .. Len(runtimes)
        PROVE  /\ runtimes'[k].state # "up" => runtimes'[k].queue = <<>>
               /\ \A i \in 1 .. Len(runtimes'[k].queue) :
                    /\ AskedBy(k, runtimes'[k].queue[i])
                    /\ runtimes'[k].queue[i].call \in Call =>
                         \A j \in 1 .. Len(runtimes'[k].queue) :
                           j # i => runtimes'[k].queue[j].call # runtimes'[k].queue[i].call
    <3> DEFINE v == runtimes[k].queue
               w == runtimes'[k].queue
               m == Len(v)
    <3>1. /\ runtimes[k].state # "up" => v = <<>>
          /\ \A i \in 1 .. m :
               /\ AskedBy(k, v[i])
               /\ v[i].call \in Call => \A j \in 1 .. m : j # i => v[j].call # v[i].call
      BY <1>1 DEF AskedOnce
    <3>2. CASE k \notin up
      BY <1>5, <3>1, <3>2
    <3>3. CASE k \in up
      <4>1. /\ m \in Nat /\ Len(w) = m + 1 /\ \A i \in 1 .. m : w[i] = v[i]
            /\ w[m + 1].call = Nobody /\ w[m + 1].op = "releaseAll"
        <5> DEFINE x == runtimes[k]
        <5>1. runtimes'[k] = AskedToLeave(x) /\ x \in RuntimeType
          BY <1>4, <1>5, <3>3
        <5> HIDE DEF x
        <5>2. /\ Len(x.queue) \in Nat /\ Len(AskedToLeave(x).queue) = Len(x.queue) + 1
              /\ \A i \in 1 .. Len(x.queue) : AskedToLeave(x).queue[i] = x.queue[i]
              /\ AskedToLeave(x).queue[Len(x.queue) + 1].call = Nobody
              /\ AskedToLeave(x).queue[Len(x.queue) + 1].op = "releaseAll"
          BY ONLY <5>1, AskedToLeaveIs
        <5> QED
          BY ONLY <5>1, <5>2 DEF x
      <4>2. AskedBy(k, w[m + 1]) /\ w[m + 1].call \notin Call
        BY <4>1, NobodyAssumption DEF AskedBy
      <4>3. runtimes'[k].state = "up"
        BY <1>3, <1>5, <3>3
      <4> HIDE DEF v, w, m
      <4>4. \A i \in 1 .. m + 1 : i \in 1 .. m \/ i = m + 1
        BY <4>1
      <4>5. ASSUME NEW i \in 1 .. Len(w)
            PROVE  /\ AskedBy(k, w[i])
                   /\ w[i].call \in Call => \A j \in 1 .. Len(w) : j # i => w[j].call # w[i].call
        BY ONLY <3>1, <4>1, <4>2, <4>4, <4>5
      <4> QED
        BY <4>3, <4>5 DEF v, w, m
    <3> QED
      BY <3>2, <3>3
  <2>2. calls' = calls
    BY <1>2
  <2> QED
    BY ONLY <1>6, <2>1, <2>2 DEF AskedOnce, AskedBy
<1>11. OwnRuntimes'
  BY <1>7 DEF OwnRuntimes
<1>12. AllWanted'
  <2>1. ASSUME NEW k \in 1 .. Len(runtimes)
        PROVE  Wanted(k)'
    <3>1. Wanted(k) /\ runtimes[k].profile \in Profile /\ runtimes[k].since \in Nat /\ ~Leaving(runtimes[k])
      BY <1>1, <1>2, <1>4 DEF AllWanted, OpenRuntimes
    <3>2. runtimes'[k].since <= profiles'[runtimes'[k].profile].epoch
      <4>1. runtimes[k].since <= profiles[runtimes[k].profile].epoch
        BY <3>1 DEF Wanted
      <4>2. /\ runtimes'[k].since = runtimes[k].since
            /\ profiles'[runtimes'[k].profile].epoch = profiles[runtimes[k].profile].epoch + 1
            /\ profiles[runtimes[k].profile].epoch \in Nat
        BY <1>5, <1>7, <3>1
      <4> QED
        BY ONLY <3>1, <4>1, <4>2
    <3>3. runtimes'[k].state = "up" => Leaving(runtimes'[k])
      <4>1. ASSUME runtimes'[k].state = "up"
            PROVE  k \in up
        <5>1. profiles[runtimes[k].profile].runtime = k /\ k # 0
          BY <1>4, <1>5, <3>1, <4>1 DEF Wanted
        <5> QED
          BY <3>1, <5>1
      <4> QED
        BY <1>5, <4>1
    <3> QED
      BY <1>2, <3>2, <3>3 DEF Wanted
  <2> QED
    BY <1>6, <2>1 DEF AllWanted
<1>13. OpenRuntimes' /\ EpochsCurrent'
  BY <1>2, <1>7 DEF OpenRuntimes, EpochsCurrent
<1>14. LeasesExact'
  <2>1. \A n \in 1 .. Len(placements) :
           /\ placements'[n].leaseCount = placements[n].leaseCount
           /\ placements'[n].state = "transferring" => placements[n].state = "transferring"
           /\ phase' = "open" /\ Kept(n)' => Kept(n)
    BY <1>2
  <2>2. /\ placements' \in Seq(PlacementType) /\ Len(placements') = Len(placements)
        /\ \A c \in Call : calls'[c].held = calls[c].held /\ calls'[c].source = calls[c].source
        /\ phase' = "open" => phase = "open"
    BY <1>1, <1>2 DEF DataTyped, PlacementsTyped
  <2> QED
    BY <1>1, <2>1, <2>2, LeasesStay
<1> QED
  BY <1>8, <1>9, <1>10, <1>11, <1>12, <1>13, <1>14 DEF EngineInv

LEMMA CloseEndsKeeps ==
  ASSUME EngineInv, CloseEnds
  PROVE  EngineInv'
<1>1. /\ DataTyped /\ CallsTyped /\ AskedOnce /\ OwnRuntimes /\ AllWanted /\ OpenRuntimes /\ EpochsCurrent
      /\ LeasesExact
  BY DEF EngineInv
<1>2. /\ phase # "open" /\ phase' = "closed" /\ shapes' = {}
      /\ UNCHANGED <<runtimes, profiles, placements, logical, calls>>
  BY DEF CloseEnds
<1>3. DataTyped' /\ CallsTyped' /\ AskedOnce' /\ OwnRuntimes'
  BY <1>1, <1>2 DEF DataTyped, RuntimesTyped, ProfilesTyped, PlacementsTyped, ShapesTyped, CallsTyped,
                    AskedOnce, AskedBy, OwnRuntimes
<1>4. AllWanted' /\ OpenRuntimes' /\ EpochsCurrent'
  BY <1>1, <1>2 DEF AllWanted, Wanted, OpenRuntimes, EpochsCurrent
<1>5. LeasesExact'
  <2>1. \A n \in 1 .. Len(placements) :
           /\ placements'[n].leaseCount = placements[n].leaseCount
           /\ placements'[n].state = "transferring" => placements[n].state = "transferring"
           /\ phase' = "open" /\ Kept(n)' => Kept(n)
    BY <1>2
  <2>2. /\ placements' \in Seq(PlacementType) /\ Len(placements') = Len(placements)
        /\ \A c \in Call : calls'[c].held = calls[c].held /\ calls'[c].source = calls[c].source
        /\ phase' = "open" => phase = "open"
    BY <1>1, <1>2 DEF DataTyped, PlacementsTyped
  <2> QED
    BY <1>1, <2>1, <2>2, LeasesStay
<1> QED
  BY <1>3, <1>4, <1>5 DEF EngineInv

LEMMA StutterKeeps ==
  ASSUME EngineInv, UNCHANGED vars
  PROVE  EngineInv'
<1>1. /\ DataTyped /\ CallsTyped /\ AskedOnce /\ OwnRuntimes /\ AllWanted /\ OpenRuntimes /\ EpochsCurrent
      /\ LeasesExact
  BY DEF EngineInv
<1>2. UNCHANGED <<runtimes, profiles, placements, logical, shapes, phase, calls>>
  BY DEF vars
<1>3. DataTyped' /\ CallsTyped' /\ AskedOnce' /\ OwnRuntimes'
  BY <1>1, <1>2, SMTT(60) DEF DataTyped, RuntimesTyped, ProfilesTyped, PlacementsTyped, ShapesTyped, CallsTyped,
                    AskedOnce, AskedBy, OwnRuntimes
<1>4. AllWanted' /\ OpenRuntimes' /\ EpochsCurrent' /\ LeasesExact'
  BY <1>1, <1>2 DEF AllWanted, Wanted, OpenRuntimes, EpochsCurrent, LeasesExact, Leases, Kept
<1> QED
  BY <1>3, <1>4 DEF EngineInv

LEMMA InitEngine ==
  ASSUME Init
  PROVE  EngineInv
<1>1. /\ runtimes = <<>> /\ placements = <<>> /\ logical = <<>> /\ shapes = {} /\ phase = "open"
      /\ profiles = [p \in Profile |-> [runtime |-> 0, runtimeEpoch |-> 0, starting |-> 0, epoch |-> 1]]
      /\ calls = [c \in Call |-> Unbegun]
  BY DEF Init
<1>2. Len(runtimes) = 0 /\ Len(placements) = 0 /\ Len(logical) = 0 /\ DOMAIN placements = {} /\ 1 .. 0 = {}
  BY <1>1
<1>3. DataTyped
  BY <1>1, <1>2 DEF DataTyped, RuntimesTyped, ProfilesTyped, PlacementsTyped, ShapesTyped, ProfileType
<1>4. CallsTyped
  <2>1. Unbegun \in CallType
    BY UnbegunIs
  <2>2. CallOK(Unbegun) /\ Within(Unbegun, 0, 0, 0)
    <3>1. StageOK(Unbegun, Stage(Unbegun)) /\ ReplyOK(Unbegun)
      BY DEF Unbegun, StageOK, Stage, ReplyOK, Idle, Ops
    <3>2. Within(Unbegun, 0, 0, 0)
      <4>1. <<>> \in Seq(1 .. 0)
        OBVIOUS
      <4> QED
        BY <4>1 DEF Unbegun, Within, Points
    <3> QED
      BY <3>1, <3>2 DEF CallOK
  <2> QED
    BY <1>1, <1>2, <2>1, <2>2 DEF CallsTyped
<1>5. AskedOnce /\ OwnRuntimes /\ AllWanted /\ OpenRuntimes /\ EpochsCurrent /\ LeasesExact
  BY <1>1, <1>2 DEF AskedOnce, OwnRuntimes, AllWanted, OpenRuntimes, EpochsCurrent, LeasesExact
<1> QED
  BY <1>3, <1>4, <1>5 DEF EngineInv

-----------------------------------------------------------------------------
(* What a call has to release.                                             *)

\* The call c goes on as call: with what call has yet to release, of the same shape.
Shaped(call) == {"shape", "todo"} \subseteq DOMAIN call
Carries(c, call) ==
  /\ \A d \in Call : d # c => calls'[d] = calls[d]
  /\ calls'[c].shape = call.shape /\ calls'[c].todo = call.todo

LEMMA ShapesAre ==
  ASSUME EngineInv, NEW c \in Call
  PROVE  Shaped(calls[c]) /\ Shaped(Unbegun) /\ Unbegun.todo = {} /\ DOMAIN calls = Call
<1>1. calls[c] \in CallType /\ DOMAIN calls = Call
  BY CallIs
<1> QED
  BY <1>1 DEF Shaped, CallType, Unbegun

LEMMA AskCarries ==
  ASSUME DOMAIN calls = Call, NEW c \in Call, NEW call, Shaped(call), NEW r, NEW op, Ask(c, call, r, op)
  PROVE  Carries(c, call)
BY DEF Ask, Carries, Shaped

LEMMA ReachCarries ==
  ASSUME DOMAIN calls = Call, NEW c \in Call, NEW call, Shaped(call), NEW seen, NEW p, NEW op,
         Reach(c, call, seen, p, op)
  PROVE  Carries(c, call)
<1>1. CASE Ask(c, call, seen[p].runtime, op)
  BY <1>1, AskCarries
<1>2. CASE calls' = [calls EXCEPT ![c] = [call EXCEPT !.at = "start", !.next = op, !.reply = "none",
                       !.rt = IF seen[p].starting # 0 THEN seen[p].starting ELSE Len(runtimes) + 1]]
  BY <1>2 DEF Carries, Shaped
<1> QED
  BY <1>1, <1>2 DEF Reach

LEMMA EndCarries ==
  ASSUME DOMAIN calls = Call, NEW c \in Call, NEW outcome, calls' = [calls EXCEPT ![c] = Ended(outcome)]
  PROVE  Carries(c, Unbegun)
BY DEF Carries, Ended, Unbegun

LEMMA FinallyCarries ==
  ASSUME DOMAIN calls = Call, NEW c \in Call, NEW call, NEW P, NEW outcome, Finally(c, call, P, outcome)
  PROVE  Carries(c, Unbegun)
BY EndCarries DEF Finally

LEMMA CloneCarries ==
  ASSUME DOMAIN calls = Call, NEW c \in Call, NEW call, Shaped(call), NEW e, NEW n, Clone(c, call, e, n)
  PROVE  Carries(c, call)
<1>1. CASE calls' = [calls EXCEPT ![c] = [call EXCEPT !.at = "cloned", !.reply = "ok",
                         !.value = <<Min(Existing(e.placements, n, call.target))>>]]
  BY <1>1 DEF Carries, Shaped
<1>2. CASE Reach(c, [call EXCEPT !.source = n], e.profiles, placements[n].profile, "exportBREP")
  <2> DEFINE x == [call EXCEPT !.source = n]
  <2>1. Shaped(x) /\ x.shape = call.shape /\ x.todo = call.todo
    BY DEF Shaped
  <2>2. Reach(c, x, e.profiles, placements[n].profile, "exportBREP")
    BY <1>2
  <2> HIDE DEF x
  <2> QED
    BY <2>1, <2>2, ReachCarries DEF Carries
<1> QED
  BY <1>1, <1>2 DEF Clone

LEMMA InputsCarry ==
  ASSUME DOMAIN calls = Call, NEW c \in Call, NEW call, Shaped(call), NEW cloned, Inputs(c, call, cloned)
  PROVE  Carries(c, call) \/ Carries(c, Unbegun)
<1> DEFINE j == FirstForeign(call)
           near == cloned \o SubSeq(call.refs, call.i, j - 1)
           looked == Range(near) \cup IF j <= Len(call.refs) THEN {call.refs[j]} ELSE {}
           P == {placements[n].profile : n \in looked}
           toTarget == Seen(P \cup {call.target})
           e == Seen(P)
           e1 == [e EXCEPT !.placements = Leased(@, near, 1)]
           more == [call EXCEPT !.i = j + 1, !.held = @ \o near, !.value = <<>>]
           op == [more EXCEPT !.scope = placements[more.held[1]].scope]
           own == [more EXCEPT !.own = TRUE]
<1>1. \/ Finally(c, call, P, "failed")
      \/ Clone(c, more, e1, call.refs[j])
      \/ Reach(c, op, toTarget.profiles, call.target, "op")
      \/ Reach(c, own, toTarget.profiles, call.target, "beginScope")
  BY DEF Inputs
<1>2. Shaped(more) /\ more.shape = call.shape /\ more.todo = call.todo
  <2> HIDE DEF j, near
  <2> QED
    BY DEF Shaped
<1> HIDE DEF more
<1>3. Shaped(op) /\ op.shape = call.shape /\ op.todo = call.todo
  BY <1>2 DEF Shaped
<1>4. Shaped(own) /\ own.shape = call.shape /\ own.todo = call.todo
  BY <1>2 DEF Shaped
<1> HIDE DEF op, own, e1, e, toTarget, P, j
<1>5. ASSUME NEW x, Shaped(x), x.shape = call.shape, x.todo = call.todo, Carries(c, x)
      PROVE  Carries(c, call)
  BY <1>5 DEF Carries
<1> QED
  BY <1>1, <1>2, <1>3, <1>4, <1>5, FinallyCarries, CloneCarries, ReachCarries

LEMMA DroppedCarries ==
  ASSUME DOMAIN calls = Call, NEW c \in Call, NEW call, Shaped(call), NEW e, NEW n, NEW remaining,
         Dropped(c, call, e, n, remaining)
  PROVE  Carries(c, call)
<1> DEFINE x == [call EXCEPT !.scope = placements[n].scope]
           r == e.profiles[placements[n].profile].runtime
<1>1. CASE Ask(c, x, r, "endScope")
  <2>1. Shaped(x) /\ x.shape = call.shape /\ x.todo = call.todo
    BY DEF Shaped
  <2>2. Ask(c, x, r, "endScope")
    BY <1>1
  <2> HIDE DEF x
  <2> QED
    BY <2>1, <2>2, AskCarries DEF Carries
<1>2. CASE calls' = [calls EXCEPT ![c] = [call EXCEPT !.at = "endScope", !.reply = "ok"]]
  BY <1>2 DEF Carries, Shaped
<1> QED
  BY <1>1, <1>2 DEF Dropped

LEMMA ReleaseFirstCarries ==
  ASSUME DOMAIN calls = Call, NEW c \in Call, NEW call, Shaped(call), NEW remaining,
         ReleaseFirst(c, call, remaining)
  PROVE  Carries(c, call)
BY AskCarries, DroppedCarries DEF ReleaseFirst

\* A call that begins to release a shape, ends, or goes on with the shape it has.
Lets(c) ==
  \E call : /\ Carries(c, call)
            /\ call.shape = calls[c].shape \/ \A n \in call.todo : placements[n].leaseCount = 0

LEMMA EndLets ==
  ASSUME NEW c \in Call, Carries(c, Unbegun)
  PROVE  Lets(c)
BY DEF Lets, Unbegun

LEMMA ReleaseShapesLets ==
  ASSUME DOMAIN calls = Call, NEW c \in Call, NEW call, Shaped(call), call.rest \subseteq Nat, NEW remaining,
         ReleaseShapes(c, call, remaining)
  PROVE  Lets(c)
<1> DEFINE open == {s \in call.rest : phase = "open" /\ s \in remaining}
           next == {s \in open : logical[s] # {} /\ Unleased(logical[s])}
           Emptied(S) == {s \in S : logical[s] = {}}
<1>1. CASE /\ next # {}
           /\ LET s == Min(next) IN
              ReleaseFirst(c, [call EXCEPT !.shape = s, !.scope = 0, !.todo = logical[s],
                                 !.rest = {t \in @ : t > s}],
                           remaining \ Emptied({t \in open : t < s}))
  <2> DEFINE s == Min(next)
             rest == {t \in call.rest : t > s}
             x == [call EXCEPT !.shape = s, !.scope = 0, !.todo = logical[s], !.rest = rest]
             left == remaining \ Emptied({t \in open : t < s})
  <2>1. ReleaseFirst(c, x, left)
    BY <1>1
  <2>2. s \in next
    <3>1. next \in SUBSET Nat /\ next # {}
      BY <1>1
    <3> HIDE DEF next
    <3> QED
      BY <3>1, LeastExists
  <2>3. Unleased(logical[s])
    BY <2>2
  <2> HIDE DEF rest, s, left
  <2>4. Shaped(x) /\ x.todo = logical[s]
    BY DEF Shaped
  <2> HIDE DEF x
  <2>5. Carries(c, x)
    BY <2>1, <2>4, ReleaseFirstCarries
  <2> QED
    BY <2>3, <2>4, <2>5 DEF Lets, Unleased
<1>2. CASE calls' = [calls EXCEPT ![c] = Ended("done")]
  BY <1>2, EndCarries, EndLets
<1> QED
  BY <1>1, <1>2 DEF ReleaseShapes

LEMMA ReleaseOnLets ==
  ASSUME EngineInv, NEW c \in Call, NEW ok, ReleaseOn(c, calls[c], ok)
  PROVE  Lets(c)
<1>1. DOMAIN calls = Call /\ Shaped(calls[c]) /\ calls[c].rest \subseteq Nat
  BY ShapesAre, CallIs DEF CallType
<1> DEFINE todo == calls[c].todo \ {First(calls[c])}
           x == [calls[c] EXCEPT !.todo = todo, !.scope = 0]
<1>2. CASE ReleaseFirst(c, x, shapes)
  <2> HIDE DEF todo
  <2>1. Shaped(x) /\ x.shape = calls[c].shape
    BY <1>1 DEF Shaped
  <2> HIDE DEF x
  <2> QED
    BY <1>1, <1>2, <2>1, ReleaseFirstCarries DEF Lets
<1>3. CASE \E remaining : ReleaseShapes(c, calls[c], remaining)
  BY <1>1, <1>3, ReleaseShapesLets
<1> QED
  BY <1>2, <1>3 DEF ReleaseOn

\* A call begins, or goes on.
LEMMA BeginLets ==
  ASSUME EngineInv, NEW c \in Call, Begin(c)
  PROVE  Lets(c)
<1>1. DOMAIN calls = Call /\ Shaped(Unbegun) /\ Unbegun.todo = {}
  BY ShapesAre
<1> DEFINE Unladen(x) == Shaped(x) /\ x.todo = {}
<1>2. ASSUME NEW x, Unladen(x), Carries(c, x)
      PROVE  Lets(c)
  BY <1>2 DEF Lets
<1>3. ASSUME Create(c)
      PROVE  Lets(c)
  <2>1. PICK p \in Range(Eligible[c]) :
          Reach(c, [Unbegun EXCEPT !.kind = "create", !.target = p, !.own = TRUE],
                Seen({p}).profiles, p, "beginScope")
    BY <1>3 DEF Create
  <2> DEFINE x == [Unbegun EXCEPT !.kind = "create", !.target = p, !.own = TRUE]
  <2>2. Unladen(x) /\ Reach(c, x, Seen({p}).profiles, p, "beginScope")
    BY <1>1, <2>1 DEF Shaped
  <2> HIDE DEF x
  <2> QED
    BY <1>1, <1>2, <2>2, ReachCarries
<1>4. ASSUME Request(c)
      PROVE  Lets(c)
  <2>1. PICK refs, t : Inputs(c, [Unbegun EXCEPT !.kind = "request", !.refs = refs, !.target = t], <<>>)
    BY <1>4 DEF Request
  <2> DEFINE x == [Unbegun EXCEPT !.kind = "request", !.refs = refs, !.target = t]
  <2>2. Unladen(x) /\ Inputs(c, x, <<>>)
    BY <1>1, <2>1 DEF Shaped
  <2> HIDE DEF x
  <2> QED
    BY <1>1, <1>2, <2>2, InputsCarry, EndLets
<1>5. ASSUME CloneTo(c)
      PROVE  Lets(c)
  <2>1. PICK n, q, e : Clone(c, [Unbegun EXCEPT !.kind = "cloneTo", !.target = q], e, n)
    BY <1>5 DEF CloneTo
  <2> DEFINE x == [Unbegun EXCEPT !.kind = "cloneTo", !.target = q]
  <2>2. Unladen(x) /\ Clone(c, x, e, n)
    BY <1>1, <2>1 DEF Shaped
  <2> HIDE DEF x
  <2> QED
    BY <1>1, <1>2, <2>2, CloneCarries
<1>6. ASSUME ProbeProfile(c)
      PROVE  Lets(c)
  <2>1. PICK p, seen : Reach(c, [Unbegun EXCEPT !.kind = "probeProfile", !.target = p], seen, p, "capabilities")
    BY <1>6 DEF ProbeProfile
  <2> DEFINE x == [Unbegun EXCEPT !.kind = "probeProfile", !.target = p]
  <2>2. Unladen(x) /\ Reach(c, x, seen, p, "capabilities")
    BY <1>1, <2>1 DEF Shaped
  <2> HIDE DEF x
  <2> QED
    BY <1>1, <1>2, <2>2, ReachCarries
<1>7. ASSUME ReleasePlacement(c)
      PROVE  Lets(c)
  <2>1. PICK n : /\ Unleased({n})
                 /\ ReleaseFirst(c, [Unbegun EXCEPT !.kind = "releasePlacement",
                                       !.todo = {n}, !.shape = placements[n].shape], shapes)
    BY <1>7 DEF ReleasePlacement
  <2> DEFINE s == placements[n].shape
             one == {n}
             x == [Unbegun EXCEPT !.kind = "releasePlacement", !.todo = one, !.shape = s]
  <2>2. ReleaseFirst(c, x, shapes)
    BY <2>1
  <2>3. Shaped(x) /\ x.todo = {n}
    <3> HIDE DEF one, s
    <3>1. Shaped(x) /\ x.todo = one
      BY <1>1 DEF Shaped
    <3> QED
      BY <3>1 DEF one
  <2> HIDE DEF x
  <2> QED
    BY <1>1, <2>1, <2>2, <2>3, ReleaseFirstCarries DEF Lets, Unleased
<1>8. ASSUME NEW kind, NEW rest, rest \subseteq Nat,
             ReleaseShapes(c, [Unbegun EXCEPT !.kind = kind, !.rest = rest], shapes)
      PROVE  Lets(c)
  <2> DEFINE x == [Unbegun EXCEPT !.kind = kind, !.rest = rest]
  <2>1. Shaped(x) /\ x.rest = rest
    BY <1>1 DEF Shaped, Unbegun
  <2>2. ReleaseShapes(c, x, shapes)
    BY <1>8
  <2> HIDE DEF x
  <2> QED
    BY <1>1, <1>8, <2>1, <2>2, ReleaseShapesLets
<1>9. shapes \subseteq Nat
  <2>1. shapes \subseteq 1 .. Len(logical)
    BY DEF EngineInv, DataTyped, ShapesTyped
  <2> QED
    BY <2>1
<1>10. ASSUME ReleaseShape(c)
       PROVE  Lets(c)
  <2>1. PICK s \in shapes : ReleaseShapes(c, [Unbegun EXCEPT !.kind = "releaseShape", !.rest = {s}], shapes)
    BY <1>10 DEF ReleaseShape
  <2> DEFINE rest == {s}
  <2>2. rest \subseteq Nat /\ ReleaseShapes(c, [Unbegun EXCEPT !.kind = "releaseShape", !.rest = rest], shapes)
    BY <1>9, <2>1
  <2> HIDE DEF rest
  <2> QED
    BY <1>8, <2>2
<1>11. ASSUME ReleaseAll(c)
       PROVE  Lets(c)
  BY <1>8, <1>9, <1>11 DEF ReleaseAll
<1> QED
  BY <1>3, <1>4, <1>5, <1>6, <1>7, <1>10, <1>11 DEF Begin

LEMMA ContinueLets ==
  ASSUME EngineInv, NEW c \in Call, Continue(c)
  PROVE  Lets(c)
<1>1. DOMAIN calls = Call /\ Shaped(calls[c])
  BY ShapesAre
<1> DEFINE Same(x) == Shaped(x) /\ x.shape = calls[c].shape
<1>2. ASSUME NEW x, Same(x), Carries(c, x)
      PROVE  Lets(c)
  BY <1>2 DEF Lets
<1>3. ASSUME NEW call, NEW P, NEW outcome, Finally(c, call, P, outcome)
      PROVE  Lets(c)
  BY <1>1, <1>3, FinallyCarries, EndLets
<1>4. ASSUME NEW e, Cleanup(c, e)
      PROVE  Lets(c)
  BY <1>1, <1>2, <1>4, AskCarries DEF Cleanup
<1>5. ASSUME NEW x, Same(x), NEW r, NEW op, Ask(c, x, r, op)
      PROVE  Lets(c)
  BY <1>1, <1>2, <1>5, AskCarries
<1>6. ASSUME NEW x, Same(x), NEW seen, NEW p, NEW op, Reach(c, x, seen, p, op)
      PROVE  Lets(c)
  BY <1>1, <1>2, <1>6, ReachCarries
<1>7. ASSUME Start(c)
      PROVE  Lets(c)
  BY <1>1, <1>3, <1>5, <1>7 DEF Start
<1>8. ASSUME Opened(c)
      PROVE  Lets(c)
  <2> DEFINE s == TheValue(c)
             x == [calls[c] EXCEPT !.scope = s, !.value = <<>>]
             e == Seen({calls[c].target})
             epoch == e.profiles[calls[c].target].epoch
             y == [x EXCEPT !.epoch = epoch]
  <2>1. \/ Finally(c, calls[c], {}, "failed")
        \/ Ask(c, x, x.rt, "make")
        \/ Reach(c, x, e.profiles, calls[c].target, "op")
        \/ Ask(c, y, x.rt, "importBREP")
    BY <1>8 DEF Opened
  <2> HIDE DEF s, e
  <2>2. Same(x)
    BY <1>1 DEF Shaped
  <2> HIDE DEF x, epoch
  <2>3. Same(y)
    BY <2>2 DEF Shaped
  <2> HIDE DEF y, Same
  <2> QED
    BY <1>3, <1>5, <1>6, <2>1, <2>2, <2>3
<1>9. ASSUME Exported(c)
      PROVE  Lets(c)
  BY <1>1, <1>3, <1>6, <1>9 DEF Exported
<1>10. ASSUME Imported(c)
       PROVE  Lets(c)
  <2> DEFINE m == Len(placements) + 1
             x == [calls[c] EXCEPT !.at = "cloned", !.value = <<m>>, !.source = 0, !.epoch = 0]
  <2>1. (\E e : Cleanup(c, e)) \/ calls' = [calls EXCEPT ![c] = x]
    BY <1>10, Zenon DEF Imported
  <2> HIDE DEF m
  <2>2. Same(x)
    BY <1>1 DEF Shaped
  <2> HIDE DEF x
  <2>3. ASSUME calls' = [calls EXCEPT ![c] = x]
        PROVE  Carries(c, x)
    BY <1>1, <2>3 DEF Carries
  <2> QED
    BY <1>2, <1>4, <2>1, <2>2, <2>3
<1>11. ASSUME Cloned(c)
       PROVE  Lets(c)
  <2> DEFINE x == [calls[c] EXCEPT !.rt = 0, !.scope = 0, !.next = "none"]
             v == <<TheValue(c)>>
  <2>1. Finally(c, calls[c], {}, "done") \/ Inputs(c, x, v)
    BY <1>11 DEF Cloned
  <2>2. Same(x)
    BY <1>1 DEF Shaped
  <2> HIDE DEF x, v
  <2> QED
    BY <1>1, <1>2, <1>3, <2>1, <2>2, InputsCarry, EndLets
<1>12. ASSUME Result(c)
       PROVE  Lets(c)
  <2>1. \/ calls' = [calls EXCEPT ![c] = Ended("done")]
        \/ Cleanup(c, Seen({}))
        \/ \E outcome : Finally(c, calls[c], {}, outcome)
    BY <1>12, Zenon DEF Result, Attached
  <2> QED
    BY <1>1, <1>3, <1>4, <2>1, EndCarries, EndLets
<1>13. ASSUME Probed(c) \/ CleanedUp(c)
       PROVE  Lets(c)
  BY <1>3, <1>13 DEF Probed, CleanedUp
<1>14. ASSUME Released(c) \/ ScopeReleased(c)
       PROVE  Lets(c)
  <2>1. (\E e, n : Dropped(c, calls[c], e, n, shapes)) \/ \E ok : ReleaseOn(c, calls[c], ok)
    BY <1>14, Zenon DEF Released, ScopeReleased
  <2> QED
    BY <1>1, <1>2, <2>1, DroppedCarries, ReleaseOnLets
<1> QED
  BY <1>7, <1>8, <1>9, <1>10, <1>11, <1>12, <1>13, <1>14 DEF Continue

-----------------------------------------------------------------------------
(* Whose shapes a call names.                                              *)

\* A placement of the epoch its profile has was made by the kernel that the profile's runtime
\* had when it was last looked at.
OriginsTold ==
  \A n \in 1 .. Len(placements) :
    LET x == placements[n]
        own == profiles[x.profile]
    IN /\ x.epoch <= own.epoch
       /\ x.epoch = own.epoch => own.runtime # 0 /\ x.origin = <<own.runtime, own.runtimeEpoch>>

\* A profile waits for a runtime of its own.
StartsOwn == \A p \in Profile : profiles[p].starting # 0 => runtimes[profiles[p].starting].profile = p

\* A call that is at st: a scope of its own means no inputs, and the first input is leased
\* after the last await before the operation.
Poised(call, st) ==
  /\ call.own => call.held = <<>>
  /\ Len(call.refs) <= MaxInputs
  /\ Len(call.refs) <= 1 /\ st \in {"exportBREP", "beginScope", "importBREP", "cloned"}
       => call.held = <<>> /\ Len(call.refs) < call.i

\* Who makes a shape asks the runtime of its target, which is still up when its answer is
\* taken; a clone is in the target; and who waits for a runtime to start names no shape.
Makes == {"make", "op", "importBREP"}
Suits(call) ==
  /\ Poised(call, Stage(call))
  /\ Stage(call) \in Makes \cup {"beginScope"} => runtimes[call.rt].profile = call.target
  /\ call.at \in Makes /\ call.reply = "ok" => runtimes[call.rt].state = "up"
  /\ call.at = "cloned" =>
       /\ phase = "open"
       /\ call.kind = "request" => placements[Head(call.value)].profile = call.target
  /\ call.at = "start" =>
       call.next \notin {"exportBREP", "release"} /\ (call.next = "op" => call.held = <<>>)

\* The placement n was made by the kernel that r has.
Own(n, r) == placements[n].origin = <<r, runtimes[r].kernel.epoch>>

\* The shapes that a queued question names are shapes of the kernel that will be asked, if
\* they were looked at in one turn.
OneLook(call, op) == op = "op" => Len(call.refs) <= 1
OwnNamed ==
  \A r \in 1 .. Len(runtimes) : \A k \in 1 .. Len(runtimes[r].queue) :
    LET q == runtimes[r].queue[k] IN
    q.call \in Call /\ OneLook(calls[q.call], q.op)
      => \A n \in Names(calls[q.call], q.op) : Own(n, r)

OriginInv ==
  /\ OriginsTold /\ StartsOwn /\ OwnNamed
  /\ \A c \in Call : Suits(calls[c])

\* What is looked at and of the current epoch is of the kernel its runtime has.
LEMMA KnownOwn ==
  ASSUME EngineInv, OriginInv, NEW P, NEW n \in 1 .. Len(placements), placements[n].profile \in P,
         placements[n].epoch = Seen(P).profiles[placements[n].profile].epoch
  PROVE  LET r == profiles[placements[n].profile].runtime IN r \in 1 .. Len(runtimes) /\ Own(n, r)
<1> DEFINE x == placements[n]
           p == x.profile
<1>1. DataTyped /\ OriginsTold
  BY DEF EngineInv, OriginInv
<1>2. x \in PlacementType /\ p \in Profile /\ x.epoch \in Nat
  BY <1>1, Lens DEF PlacementType
<1>3. /\ profiles[p].epoch \in Nat
      /\ profiles[p].runtime # 0 => profiles[p].runtime \in 1 .. Len(runtimes)
  BY <1>1, <1>2, RuntimeIs DEF ProfileType
<1>4. Seen(P).profiles[p].epoch = IF Lost(p, P) THEN profiles[p].epoch + 1 ELSE profiles[p].epoch
  BY <1>1, <1>2, SeenIs
<1>5. /\ x.epoch <= profiles[p].epoch
      /\ x.epoch = profiles[p].epoch
           => profiles[p].runtime # 0 /\ x.origin = <<profiles[p].runtime, profiles[p].runtimeEpoch>>
  BY <1>1 DEF OriginsTold
<1>6. x.epoch = Seen(P).profiles[p].epoch /\ p \in P
  OBVIOUS
<1> HIDE DEF p
<1>7. ~Lost(p, P) /\ x.epoch = profiles[p].epoch
  BY ONLY <1>2, <1>3, <1>4, <1>5, <1>6
<1>8. runtimes[profiles[p].runtime].kernel.epoch = profiles[p].runtimeEpoch
  BY <1>5, <1>6, <1>7 DEF Lost, Rebuilds
<1> QED
  BY <1>3, <1>5, <1>7, <1>8 DEF Own, p

LEMMA LiveOwn ==
  ASSUME EngineInv, OriginInv, phase = "open", NEW P, NEW n \in 1 .. Len(placements), placements[n].profile \in P,
         IsLive(Seen(P).placements, n)
  PROVE  LET r == profiles[placements[n].profile].runtime IN r \in 1 .. Len(runtimes) /\ Own(n, r)
<1> DEFINE p == placements[n].profile
<1>1. DataTyped /\ EpochsCurrent
  BY DEF EngineInv
<1>2. placements[n] \in PlacementType /\ p \in Profile
  BY <1>1, Lens DEF PlacementType
<1>3. Kept(n) /\ Seen(P).placements[n].state = "live"
  BY DEF IsLive
<1>4. ~Lost(p, P) /\ placements[n].state = "live"
  BY <1>1, <1>3, SeenAlike
<1>5. placements[n].epoch = profiles[p].epoch
  BY <1>1, <1>3, <1>4 DEF EpochsCurrent
<1>6. placements[n].epoch = Seen(P).profiles[p].epoch
  BY <1>1, <1>2, <1>4, <1>5, SeenIs
<1> QED
  BY <1>6, KnownOwn

\* c goes on as a call that suits, and a question it asks names own shapes.
Aims(call, op, r) ==
  op \in {"exportBREP", "op", "release"} /\ OneLook(call, op)
    => \A n \in Names(call, op) : n \in 1 .. Len(placements) /\ Own(n, r)
Fits(c) ==
  /\ Suits(calls[c])'
  /\ calls'[c].reply = "none" /\ calls'[c].at \in Ops => Aims(calls'[c], calls'[c].at, calls'[c].rt)

\* The call is new but for what it waits for.
Same(call, new) ==
  /\ new.kind = call.kind /\ new.refs = call.refs /\ new.i = call.i /\ new.target = call.target
  /\ new.held = call.held /\ new.own = call.own /\ new.source = call.source /\ new.todo = call.todo

LEMMA SamePoised ==
  ASSUME NEW call, NEW new, Same(call, new), NEW st
  PROVE  /\ Poised(call, st) => Poised(new, st)
         /\ \A r : Aims(call, st, r) => Aims(new, st, r)
<1>1. Poised(call, st) => Poised(new, st)
  BY DEF Same, Poised
<1>2. Names(new, st) = Names(call, st)
  BY DEF Same, Names, First
<1>3. OneLook(new, st) <=> OneLook(call, st)
  BY DEF Same, OneLook
<1> QED
  BY <1>1, <1>2, <1>3 DEF Aims

LEMMA AskFits ==
  ASSUME EngineInv, NEW c \in Call, NEW call \in CallType, NEW op \in Ops, NEW r \in 1 .. Len(runtimes),
         Ask(c, call, r, op), Poised(call, op), Aims(call, op, r),
         op \in Makes \cup {"beginScope"} => runtimes[r].profile = call.target
  PROVE  Fits(c)
<1> DEFINE reply == IF runtimes[r].state = "up" THEN "none" ELSE "error"
           new == [call EXCEPT !.at = op, !.rt = r, !.reply = reply]
           q == Question(c, op, {placements[n].handle : n \in Names(call, op)}, call.scope)
           x == [runtimes[r] EXCEPT !.queue = Append(@, q)]
<1>1. calls \in [Call -> CallType] /\ runtimes[r] \in RuntimeType /\ DataTyped
  BY CallIs, QueueIs
<1>2. /\ calls' = [calls EXCEPT ![c] = new]
      /\ runtimes' = runtimes \/ runtimes' = [runtimes EXCEPT ![r] = x]
  BY DEF Ask
<1>3. reply \in {"none", "error"}
  OBVIOUS
<1>4. x.profile = runtimes[r].profile
  BY <1>1 DEF RuntimeType
<1>5. runtimes'[r].profile = runtimes[r].profile
  <2>1. r \in DOMAIN runtimes
    BY <1>1, Lens
  <2> HIDE DEF x
  <2> QED
    BY <1>2, <1>4, <2>1
<1> HIDE DEF reply, x
<1>6. Same(call, new) /\ new.at = op /\ new.rt = r /\ new.reply = reply
  BY DEF CallType, Same
<1> HIDE DEF new
<1>7. calls'[c] = new
  BY <1>1, <1>2
<1>8. op # "start" /\ op # "cloned" /\ Stage(new) = op
  BY <1>6 DEF Ops, Stage
<1>9. Poised(new, op) /\ Aims(new, op, r) /\ new.target = call.target
  BY <1>6, SamePoised DEF Same
<1>10. Suits(calls[c])'
  BY <1>3, <1>5, <1>6, <1>7, <1>8, <1>9 DEF Suits
<1> QED
  BY <1>6, <1>7, <1>9, <1>10 DEF Fits

LEMMA ReachFits ==
  ASSUME EngineInv, OriginInv, NEW c \in Call, NEW call \in CallType, NEW op \in Ops, NEW p \in Profile, NEW P,
         NEW s, s = Seen(P).profiles, Reach(c, call, s, p, op), Poised(call, op),
         profiles[p].runtime # 0 => Aims(call, op, profiles[p].runtime),
         profiles[p].runtime = 0 => op \notin {"exportBREP", "release"} /\ (op = "op" => call.held = <<>>),
         op \in Makes \cup {"beginScope"} => p = call.target
  PROVE  Fits(c)
<1>1. /\ DataTyped /\ OwnRuntimes /\ StartsOwn /\ calls \in [Call -> CallType]
      /\ s[p].runtime = profiles[p].runtime /\ s[p].starting = profiles[p].starting
      /\ profiles[p].starting \in 0 .. Len(runtimes) /\ runtimes \in Seq(RuntimeType) /\ Len(runtimes) \in Nat
  BY CallIs, SeenIs DEF EngineInv, OriginInv, DataTyped, RuntimesTyped, ProfilesTyped
<1>2. CASE s[p].runtime # 0
  <2> DEFINE r == profiles[p].runtime
  <2>1. r \in 1 .. Len(runtimes) /\ runtimes[r].profile = p
    BY <1>1, <1>2, RuntimeIs DEF OwnRuntimes
  <2>2. Ask(c, call, r, op)
    BY <1>1, <1>2 DEF Reach
  <2>3. Aims(call, op, r)
    BY <1>1, <1>2
  <2>4. op \in Makes \cup {"beginScope"} => runtimes[r].profile = call.target
    BY <2>1
  <2> HIDE DEF r
  <2> QED
    BY <2>1, <2>2, <2>3, <2>4, AskFits
<1>3. CASE s[p].runtime = 0
  <2> DEFINE r == IF s[p].starting # 0 THEN s[p].starting ELSE Len(runtimes) + 1
             new == [call EXCEPT !.at = "start", !.next = op, !.reply = "none", !.rt = r]
  <2>1. /\ calls' = [calls EXCEPT ![c] = new]
        /\ s[p].starting # 0 => runtimes' = runtimes
        /\ s[p].starting = 0 => runtimes' = Append(runtimes, NewRuntime(p, s[p].epoch))
    BY <1>3 DEF Reach
  <2>2. runtimes'[r].profile = p
    <3>1. CASE s[p].starting # 0
      BY <1>1, <2>1, <3>1 DEF StartsOwn
    <3>2. CASE s[p].starting = 0
      <4> DEFINE x == NewRuntime(p, s[p].epoch)
      <4>1. x.profile = p
        BY DEF NewRuntime
      <4>2. s[p].epoch \in Nat
        BY <1>1, SeenIs DEF ProfileType
      <4>3. x \in RuntimeType
        BY <4>2, NewRuntimeIs
      <4> HIDE DEF x
      <4>4. runtimes' = Append(runtimes, x)
        BY <2>1, <3>2 DEF x
      <4>5. runtimes'[Len(runtimes) + 1] = x
        BY ONLY <1>1, <4>3, <4>4
      <4> QED
        BY <3>2, <4>1, <4>5
    <3> QED
      BY <3>1, <3>2
  <2> HIDE DEF r
  <2>3. Same(call, new) /\ new.at = "start" /\ new.next = op /\ new.reply = "none" /\ new.rt = r
    BY DEF CallType, Same
  <2> HIDE DEF new
  <2>4. calls'[c] = new
    BY <1>1, <2>1
  <2>5. Stage(new) = op /\ "start" \notin Ops /\ "start" \notin Makes /\ op \in Ops
    BY <2>3 DEF Stage, Ops, Makes
  <2>6. Poised(new, op) /\ new.target = call.target /\ new.held = call.held
    BY <2>3, SamePoised DEF Same
  <2>7. profiles[p].runtime = 0
    BY <1>1, <1>3
  <2>8. Suits(calls[c])'
    BY <2>2, <2>3, <2>4, <2>5, <2>6, <2>7 DEF Suits
  <2> QED
    BY <2>3, <2>4, <2>5, <2>8 DEF Fits
<1> QED
  BY <1>2, <1>3

LEMMA EndFits ==
  ASSUME EngineInv, NEW c \in Call, NEW outcome \in {"done", "failed"}, calls' = [calls EXCEPT ![c] = Ended(outcome)]
  PROVE  Fits(c)
<1> DEFINE new == Ended(outcome)
<1>1. calls'[c] = new
  BY CallIs
<1>2. new.at = outcome /\ new.reply = "none" /\ new.own = FALSE /\ new.refs = <<>> /\ new.held = <<>> /\ new.i = 1
  BY DEF Ended, Unbegun
<1> HIDE DEF new
<1>3. Stage(new) = outcome /\ outcome \notin Ops /\ outcome \notin Makes /\ outcome # "cloned" /\ outcome # "start"
      /\ outcome # "beginScope"
  BY <1>2 DEF Stage, Ops, Makes
<1>4. Poised(new, outcome)
  BY <1>2, <1>3, EngineAssumption DEF Poised
<1>5. Suits(calls[c])'
  BY <1>1, <1>2, <1>3, <1>4 DEF Suits
<1> QED
  BY <1>1, <1>2, <1>3, <1>5 DEF Fits

LEMMA FinallyFits ==
  ASSUME EngineInv, NEW c \in Call, NEW call, NEW P, NEW outcome \in {"done", "failed"}, Finally(c, call, P, outcome)
  PROVE  Fits(c)
BY EndFits DEF Finally

\* Transfers.
LEMMA ExistingThere ==
  ASSUME DataTyped, NEW ps, NEW n \in 1 .. Len(placements), NEW q, Existing(ps, n, q) # {}
  PROVE  ps[Min(Existing(ps, n, q))].profile = q
<1> DEFINE T == Existing(ps, n, q)
<1>1. placements[n].shape \in 1 .. Len(logical)
  BY DEF DataTyped, PlacementsTyped
<1>2. T \subseteq logical[placements[n].shape] /\ logical[placements[n].shape] \subseteq Nat /\ T # {}
  BY <1>1, Lens DEF Existing
<1>3. \A m \in T : ps[m].profile = q
  BY DEF Existing
<1> HIDE DEF T
<1>4. Min(T) \in T
  BY <1>2, LeastExists
<1> QED
  BY <1>3, <1>4 DEF T

LEMMA CloneFits ==
  ASSUME EngineInv, OriginInv, phase = "open", NEW c \in Call, NEW call \in CallType, Poised(call, "cloned"),
         NEW P, NEW e, e.profiles = Seen(P).profiles, NEW n \in 1 .. Len(placements), placements[n].profile \in P,
         IsLive(Seen(P).placements, n), Clone(c, call, e, n)
  PROVE  Fits(c)
<1>1. DataTyped /\ calls \in [Call -> CallType] /\ phase' = "open"
  BY CallIs DEF Clone
<1>2. CASE Existing(e.placements, n, call.target) # {}
  <2> DEFINE m == Min(Existing(e.placements, n, call.target))
             value == <<m>>
             new == [call EXCEPT !.at = "cloned", !.reply = "ok", !.value = value]
  <2>1. placements' = e.placements /\ calls' = [calls EXCEPT ![c] = new]
    BY <1>2 DEF Clone
  <2>2. placements'[m].profile = call.target
    BY <1>1, <1>2, <2>1, ExistingThere
  <2> HIDE DEF m
  <2>3. Head(value) = m
    OBVIOUS
  <2> HIDE DEF value
  <2>4. Same(call, new) /\ new.at = "cloned" /\ new.reply = "ok" /\ new.value = value
    BY DEF CallType, Same
  <2> HIDE DEF new
  <2>5. calls'[c] = new
    BY <1>1, <2>1
  <2>6. Stage(new) = "cloned" /\ Poised(new, "cloned") /\ new.target = call.target
    BY <2>4, SamePoised DEF Stage, Same
  <2>7. Suits(calls[c])'
    BY <1>1, <2>2, <2>3, <2>4, <2>5, <2>6 DEF Suits, Makes
  <2> QED
    BY <2>4, <2>5, <2>7 DEF Fits
<1>3. CASE Existing(e.placements, n, call.target) = {}
  <2> DEFINE from == [call EXCEPT !.source = n]
             p == placements[n].profile
  <2>1. Reach(c, from, Seen(P).profiles, p, "exportBREP")
    BY <1>3 DEF Clone
  <2>2. n \in Nat /\ p \in Profile
    BY <1>1, Lens DEF PlacementType
  <2>3. /\ from \in CallType /\ from.source = n /\ from.own = call.own /\ from.refs = call.refs
        /\ from.held = call.held /\ from.i = call.i
    BY <2>2 DEF CallType
  <2> HIDE DEF from
  <2>4. Poised(from, "exportBREP")
    BY <2>3 DEF Poised
  <2>5. profiles[p].runtime \in 1 .. Len(runtimes) /\ Own(n, profiles[p].runtime)
    BY LiveOwn
  <2>6. profiles[p].runtime # 0
    BY <2>5
  <2>7. Names(from, "exportBREP") = {n}
    BY <2>3 DEF Names
  <2>8. Aims(from, "exportBREP", profiles[p].runtime)
    BY <2>5, <2>7 DEF Aims
  <2> HIDE DEF p
  <2> QED
    BY <2>1, <2>2, <2>3, <2>4, <2>6, <2>8, ReachFits DEF Ops, Makes
<1> QED
  BY <1>2, <1>3

\* The inputs up to the first that is somewhere else.
LEMMA NearIsHere ==
  ASSUME DataTyped, NEW call, Moving(call)
  PROVE  LET j == FirstForeign(call)
             here == SubSeq(call.refs, call.i, j - 1)
         IN /\ \A k \in 1 .. Len(here) : here[k] \in 1 .. Len(placements) /\ placements[here[k]].profile = call.target
            /\ j <= Len(call.refs) => call.i <= j /\ call.i \in Nat \ {0}
            /\ j <= Len(call.refs) /\ Len(call.refs) <= 1 => j = 1 /\ here = <<>>
<1> DEFINE F == {k \in call.i .. Len(call.refs) : placements[call.refs[k]].profile # call.target}
           T == F \cup {Len(call.refs) + 1}
           j == FirstForeign(call)
           here == SubSeq(call.refs, call.i, j - 1)
<1>1. /\ call.refs \in Seq(1 .. Len(placements)) /\ Len(call.refs) \in Nat /\ call.i \in Nat \ {0}
      /\ \A k \in 1 .. Len(call.refs) : call.refs[k] \in 1 .. Len(placements)
  BY SMTT(60) DEF Moving, Points, CallType
<1>2. T \in SUBSET Nat /\ T # {} /\ \A k \in T : k <= Len(call.refs) + 1
  BY <1>1
<1>3. j = Min(T)
  BY DEF FirstForeign
<1>4. \A k \in call.i .. Len(call.refs) : k \notin T => placements[call.refs[k]].profile = call.target
  OBVIOUS
<1>5. \A k \in T : k = Len(call.refs) + 1 \/ k >= call.i
  BY <1>1
<1> HIDE DEF T, j, F
<1>6. j \in T /\ j \in Nat /\ \A k \in T : j <= k
  BY <1>2, <1>3, LeastExists
<1>7. j <= Len(call.refs) + 1 /\ (j <= Len(call.refs) => call.i <= j)
  BY <1>1, <1>2, <1>5, <1>6
<1>8. \A k \in call.i .. j - 1 : call.refs[k] \in 1 .. Len(placements) /\ placements[call.refs[k]].profile = call.target
  BY <1>1, <1>4, <1>6, <1>7
<1>9. j - 1 \in Int /\ call.i \in Int
  BY <1>1, <1>6
<1>10. /\ Len(here) = IF call.i <= j - 1 THEN (j - 1) - call.i + 1 ELSE 0
       /\ \A k \in 1 .. (j - 1) - call.i + 1 : here[k] = call.refs[call.i + k - 1]
  <2>1. \A k \in call.i .. j - 1 : call.refs[k] \in 1 .. Len(placements)
    BY <1>8
  <2> QED
    BY ONLY <1>9, <2>1, SubSeqProperties
<1>11. ASSUME NEW k \in 1 .. Len(here)
       PROVE  here[k] \in 1 .. Len(placements) /\ placements[here[k]].profile = call.target
  <2> HIDE DEF here
  <2>1. k \in 1 .. (j - 1) - call.i + 1 /\ call.i + k - 1 \in call.i .. j - 1
    BY <1>9, <1>10
  <2> QED
    BY <1>8, <1>10, <2>1
<1>12. ASSUME j <= Len(call.refs), Len(call.refs) <= 1
       PROVE  j = 1 /\ here = <<>>
  <2>1. call.i = 1 /\ j = 1
    BY <1>1, <1>6, <1>7, <1>12
  <2> QED
    BY <1>9, <2>1, SubSeqEmpty
<1> HIDE DEF here
<1> QED
  BY <1>1, <1>7, <1>11, <1>12 DEF j, here

\* A call that suits before it looks at its inputs: the inputs it has were looked at before.
Readied(call, cloned) ==
  /\ call.held = <<>> \/ cloned # <<>>
  /\ Len(call.refs) <= MaxInputs
  /\ Len(call.refs) <= 1 => call.held = <<>> /\ (cloned # <<>> => Len(call.refs) < call.i)
  /\ \A k \in 1 .. Len(cloned) : placements[cloned[k]].profile = call.target

LEMMA JoinsNothing ==
  ASSUME NEW S, NEW a \in Seq(S), NEW b \in Seq(S)
  PROVE  /\ a \o b = <<>> => a = <<>> /\ b = <<>>
         /\ a = <<>> => a \o b = b
         /\ a # <<>> => 1 \in 1 .. Len(a)
<1>1. Len(a \o b) = Len(a) + Len(b) /\ Len(a) \in Nat /\ Len(b) \in Nat /\ a \o b \in Seq(S)
  OBVIOUS
<1>2. a \o b = <<>> => Len(a \o b) = 0
  OBVIOUS
<1>3. (Len(a) = 0 => a = <<>>) /\ (Len(b) = 0 => b = <<>>)
  BY EmptySeq
<1>4. a \o b = <<>> => a = <<>> /\ b = <<>>
  BY ONLY <1>1, <1>2, <1>3
<1>5. a # <<>> => 1 \in 1 .. Len(a)
  BY ONLY <1>1, <1>3
<1> QED
  BY <1>4, <1>5

LEMMA MoreHas ==
  ASSUME NEW call, Moving(call), NEW near \in Seq(1 .. Len(placements)), NEW j \in Nat
  PROVE  LET more == [call EXCEPT !.i = j + 1, !.held = @ \o near, !.value = <<>>] IN
         /\ more.refs = call.refs /\ more.i = j + 1 /\ more.own = FALSE /\ more.target = call.target
<1> DEFINE i == j + 1
           held == call.held \o near
           more == [call EXCEPT !.i = i, !.held = held, !.value = <<>>]
<1> HIDE DEF i, held
<1>1. more.refs = call.refs /\ more.i = i /\ more.own = call.own /\ more.target = call.target
  BY DEF Moving, CallType
<1> HIDE DEF more
<1>2. more.own = FALSE
  BY <1>1 DEF Moving, CallType
<1> QED
  BY <1>1, <1>2 DEF more, i, held

LEMMA InputsFits ==
  ASSUME EngineInv, OriginInv, phase = "open", NEW c \in Call, NEW call, Moving(call),
         NEW cloned \in Seq(1 .. Len(placements)), Readied(call, cloned), Inputs(c, call, cloned)
  PROVE  Fits(c)
<1> DEFINE j == FirstForeign(call)
           here == SubSeq(call.refs, call.i, j - 1)
           near == cloned \o here
           looked == Range(near) \cup IF j <= Len(call.refs) THEN {call.refs[j]} ELSE {}
           P == {placements[n].profile : n \in looked}
           Q == P \cup {call.target}
           more == [call EXCEPT !.i = j + 1, !.held = @ \o near, !.value = <<>>]
           e == [Seen(P) EXCEPT !.placements = Leased(@, near, 1)]
<1>1. \/ Finally(c, call, P, "failed")
      \/ /\ \A n \in looked : IsLive(Seen(P).placements, n)
         /\ j <= Len(call.refs)
         /\ Clone(c, more, e, call.refs[j])
      \/ /\ \A n \in looked : IsLive(Seen(P).placements, n)
         /\ j > Len(call.refs)
         /\ \/ /\ more.held # <<>>
               /\ Reach(c, [more EXCEPT !.scope = placements[more.held[1]].scope],
                        Seen(Q).profiles, call.target, "op")
            \/ /\ more.held = <<>>
               /\ Reach(c, [more EXCEPT !.own = TRUE], Seen(Q).profiles, call.target, "beginScope")
  BY Zenon DEF Inputs
<1>2. DataTyped
  BY CallIs
<1>3. /\ j \in Nat /\ (j <= Len(call.refs) => call.refs[j] \in looked /\ call.refs[j] \in 1 .. Len(placements))
      /\ near \in Seq(1 .. Len(placements)) /\ here \in Seq(1 .. Len(placements))
  <2>1. /\ j \in Nat /\ (j <= Len(call.refs) => j \in 1 .. Len(call.refs))
        /\ here \in Seq(1 .. Len(placements))
    BY <1>2, FirstForeignIs
  <2>2. call.refs \in Seq(1 .. Len(placements))
    BY DEF Moving, Points
  <2> HIDE DEF j, here
  <2> QED
    BY <2>1, <2>2
<1>4. /\ \A k \in 1 .. Len(here) : placements[here[k]].profile = call.target
      /\ j <= Len(call.refs) => call.i <= j /\ call.i \in Nat \ {0}
      /\ j <= Len(call.refs) /\ Len(call.refs) <= 1 => j = 1 /\ here = <<>>
  BY <1>2, NearIsHere
<1> HIDE DEF j, here
<1>5. ASSUME NEW k \in 1 .. Len(near)
      PROVE  /\ placements[near[k]].profile = call.target /\ near[k] \in 1 .. Len(placements)
             /\ near[k] \in looked /\ placements[near[k]].profile \in P
  <2>1. placements[near[k]].profile = call.target
    <3>1. /\ Len(near) = Len(cloned) + Len(here) /\ Len(cloned) \in Nat /\ Len(here) \in Nat
          /\ \A m \in 1 .. Len(near) : near[m] = IF m <= Len(cloned) THEN cloned[m] ELSE here[m - Len(cloned)]
      BY <1>3
    <3>2. CASE k <= Len(cloned)
      <4>1. k \in 1 .. Len(cloned) /\ near[k] = cloned[k]
        BY <3>1, <3>2
      <4> QED
        BY <4>1 DEF Readied
    <3>3. CASE k > Len(cloned)
      <4>1. k - Len(cloned) \in 1 .. Len(here) /\ near[k] = here[k - Len(cloned)]
        BY <3>1, <3>3
      <4> QED
        BY <1>4, <4>1
    <3> HIDE DEF near
    <3> QED
      BY <3>1, <3>2, <3>3
  <2>2. near[k] \in Range(near) /\ near[k] \in 1 .. Len(placements)
    BY <1>3 DEF Range
  <2>3. near[k] \in looked
    BY <2>2
  <2> HIDE DEF near, looked
  <2> QED
    BY <2>1, <2>2, <2>3
<1>6. Moving(more) /\ more.held = call.held \o near
  <2>1. j \in Nat /\ near \in Seq(1 .. Len(placements)) /\ Moving(call)
    BY <1>3
  <2> HIDE DEF near
  <2>2. Moving(more) /\ more.held = call.held \o near
    BY ONLY <2>1, MoreIs
  <2> HIDE DEF more
  <2> QED
    BY <2>2
<1>7. more.refs = call.refs /\ more.i = j + 1 /\ more.own = FALSE /\ more.target = call.target
  <2>1. j \in Nat /\ near \in Seq(1 .. Len(placements)) /\ Moving(call)
    BY <1>3
  <2> HIDE DEF near
  <2>2. more.refs = call.refs /\ more.i = j + 1 /\ more.own = FALSE /\ more.target = call.target
    BY ONLY <2>1, MoreHas
  <2> HIDE DEF more
  <2> QED
    BY <2>2
<1>8. /\ cloned = <<>> /\ here = <<>> => near = <<>>
      /\ near = <<>> => cloned = <<>> 
      /\ call.held = <<>> => call.held \o near = near
      /\ near # <<>> => 1 \in 1 .. Len(near)
  <2>1. /\ cloned \in Seq(Nat) /\ here \in Seq(Nat) /\ near \in Seq(Nat) /\ call.held \in Seq(Nat)
    BY <1>3 DEF Moving, CallType
  <2>2. /\ cloned \o here = <<>> => cloned = <<>> /\ here = <<>>
        /\ cloned = <<>> => cloned \o here = here
    BY ONLY <2>1, JoinsNothing
  <2>3. near = cloned \o here
    OBVIOUS
  <2> HIDE DEF near
  <2>4. /\ call.held = <<>> => call.held \o near = near
        /\ near # <<>> => 1 \in 1 .. Len(near)
    BY ONLY <2>1, JoinsNothing
  <2> QED
    BY ONLY <2>2, <2>3, <2>4
<1>9. /\ call.held \in Seq(Nat) /\ call.target \in Profile /\ Len(call.refs) \in Nat
  BY DEF Moving, CallType
<1>10. more.held = <<>> => near = <<>> /\ call.held = <<>>
  <2>1. near \in Seq(Nat) /\ call.held \in Seq(Nat)
    BY <1>3, <1>9
  <2> HIDE DEF near, more
  <2>2. call.held \o near = <<>> => near = <<>> /\ call.held = <<>>
    BY ONLY <2>1, JoinsNothing
  <2> QED
    BY <1>6, <2>2
<1> HIDE DEF near, more, looked
<1>11. CASE Finally(c, call, P, "failed")
  BY <1>11, FinallyFits
<1>12. CASE /\ \A n \in looked : IsLive(Seen(P).placements, n)
            /\ j <= Len(call.refs)
            /\ Clone(c, more, e, call.refs[j])
  <2>1. e.profiles = Seen(P).profiles
    BY DEF Seen
  <2>2. /\ call.refs[j] \in 1 .. Len(placements) /\ IsLive(Seen(P).placements, call.refs[j])
        /\ placements[call.refs[j]].profile \in P
    BY <1>3, <1>12
  <2>3. ASSUME Len(call.refs) <= 1
        PROVE  more.held = <<>> /\ Len(call.refs) < j + 1
    <3>1. cloned = <<>>
      BY <1>3, <1>4, <1>9, <1>12, <2>3 DEF Readied
    <3> QED
      BY <1>3, <1>4, <1>6, <1>8, <1>9, <1>12, <2>3, <3>1 DEF Readied
  <2>4. Poised(more, "cloned")
    BY <1>7, <2>3 DEF Poised, Readied
  <2>5. more \in CallType
    BY <1>6 DEF Moving
  <2> HIDE DEF e, P
  <2> QED
    BY <1>12, <2>1, <2>2, <2>4, <2>5, CloneFits
<1>13. CASE /\ \A n \in looked : IsLive(Seen(P).placements, n)
            /\ more.held # <<>>
            /\ Reach(c, [more EXCEPT !.scope = placements[more.held[1]].scope],
                     Seen(Q).profiles, call.target, "op")
  <2> DEFINE s == placements[more.held[1]].scope
             x == [more EXCEPT !.scope = s]
             r == profiles[call.target].runtime
  <2>1. s \in Nat
    <3>1. more.held[1] \in 1 .. Len(placements)
      <4>1. more.held \in Seq(1 .. Len(placements)) /\ more.held # <<>>
        BY <1>6, <1>13 DEF Moving, Points
      <4> QED
        BY ONLY <4>1
    <3> QED
      BY <1>2, <3>1, Lens DEF PlacementType
  <2>2. Reach(c, x, Seen(Q).profiles, call.target, "op")
    BY <1>13
  <2> HIDE DEF s
  <2>3. /\ x \in CallType /\ x.held = more.held
    BY <1>6, <2>1, ScopeOf
  <2>4. x.own = more.own /\ x.refs = more.refs /\ x.target = more.target
    BY <1>6 DEF Moving, CallType
  <2> HIDE DEF x
  <2>5. \A k \in 1 .. Len(near) : r \in 1 .. Len(runtimes) /\ Own(near[k], r)
    BY <1>5, <1>13, LiveOwn
  <2>6. near # <<>>
    BY <1>6, <1>8, <1>13 DEF Readied
  <2>7. r # 0
    BY <1>8, <2>5, <2>6
  <2>8. Poised(x, "op")
    BY <1>7, <2>3, <2>4 DEF Poised, Readied
  <2>9. ASSUME Len(call.refs) <= 1
        PROVE  x.held = near
    BY <1>6, <1>8, <2>3, <2>9 DEF Readied
  <2>10. Aims(x, "op", r)
    <3> SUFFICES ASSUME OneLook(x, "op"), NEW n \in Names(x, "op")
                 PROVE  n \in 1 .. Len(placements) /\ Own(n, r)
      BY DEF Aims
    <3>1. x.held = near
      BY <1>7, <2>4, <2>9 DEF OneLook
    <3>2. Names(x, "op") = {x.held[k] : k \in DOMAIN x.held}
      BY DEF Names
    <3>3. DOMAIN x.held = 1 .. Len(near)
      BY <1>3, <3>1
    <3>4. PICK k \in 1 .. Len(near) : n = near[k]
      BY <3>1, <3>2, <3>3
    <3> QED
      BY <1>5, <2>5, <3>4
  <2>11. r = profiles[call.target].runtime /\ x.target = call.target
    BY <1>7, <2>4
  <2> HIDE DEF r, Q
  <2> QED
    BY <1>9, <2>2, <2>3, <2>7, <2>8, <2>10, <2>11, ReachFits DEF Ops
<1>14. CASE /\ j > Len(call.refs)
            /\ more.held = <<>>
            /\ Reach(c, [more EXCEPT !.own = TRUE], Seen(Q).profiles, call.target, "beginScope")
  <2> DEFINE x == [more EXCEPT !.own = TRUE]
  <2>1. Reach(c, x, Seen(Q).profiles, call.target, "beginScope")
    BY <1>14
  <2>2. x \in CallType /\ x.held = more.held
    BY <1>6, OwnScope
  <2>3. x.refs = more.refs /\ x.i = more.i /\ x.target = more.target
    BY <1>6 DEF Moving, CallType
  <2> HIDE DEF x, Q
  <2>4. Poised(x, "beginScope")
    BY <1>3, <1>7, <1>9, <1>14, <2>2, <2>3 DEF Poised, Readied
  <2> QED
    BY <1>7, <1>9, <2>1, <2>2, <2>3, <2>4, ReachFits DEF Ops, Makes, Aims
<1> QED
  <2> HIDE DEF e, P, Q
  <2> QED
    BY <1>1, <1>11, <1>12, <1>13, <1>14

\* Releases.
LEMMA DroppedFits ==
  ASSUME EngineInv, NEW c \in Call, NEW call, Ready(c, call, "endScope"), Poised(call, "endScope"), NEW P,
         NEW n \in 1 .. Len(placements), NEW remaining, Dropped(c, call, Seen(P), n, remaining)
  PROVE  Fits(c)
<1> DEFINE x == placements[n]
           s == Seen(P).profiles[x.profile]
           bare == [call EXCEPT !.scope = x.scope]
           after == [call EXCEPT !.at = "endScope", !.reply = "ok"]
<1>1. DataTyped /\ x \in PlacementType /\ calls \in [Call -> CallType] /\ call \in CallType
  BY CallIs, Lens DEF Ready
<1>2. x.profile \in Profile /\ x.scope \in Nat
  BY <1>1 DEF PlacementType
<1>3. \/ s.runtime # 0 /\ Ask(c, bare, s.runtime, "endScope")
      \/ calls' = [calls EXCEPT ![c] = after]
  BY DEF Dropped
<1>4. CASE s.runtime # 0 /\ Ask(c, bare, s.runtime, "endScope")
  <2>1. s.runtime \in 1 .. Len(runtimes)
    BY <1>1, <1>2, <1>4, SeenIs, RuntimeIs
  <2>2. bare \in CallType /\ Same(call, bare)
    BY <1>1, <1>2 DEF CallType, Same
  <2> HIDE DEF s, bare
  <2>3. Poised(bare, "endScope") /\ Aims(bare, "endScope", s.runtime)
    BY <2>2, SamePoised DEF Aims
  <2> QED
    BY <1>4, <2>1, <2>2, <2>3, AskFits DEF Ops, Makes
<1>5. CASE calls' = [calls EXCEPT ![c] = after]
  <2>1. Same(call, after) /\ after.at = "endScope" /\ after.reply = "ok"
    BY <1>1 DEF CallType, Same
  <2> HIDE DEF after
  <2>2. calls'[c] = after /\ Stage(after) = "endScope" /\ Poised(after, "endScope")
    BY <1>1, <1>5, <2>1, SamePoised DEF Stage
  <2>3. Suits(calls[c])'
    BY <2>1, <2>2 DEF Suits, Makes
  <2> QED
    BY <2>1, <2>2, <2>3 DEF Fits
<1> QED
  BY <1>3, <1>4, <1>5

LEMMA ReleaseFirstFits ==
  ASSUME EngineInv, OriginInv, NEW c \in Call, NEW call, Ready(c, call, "release"), Poised(call, "release"),
         NEW remaining, ReleaseFirst(c, call, remaining)
  PROVE  Fits(c)
<1> DEFINE n == First(call)
           P == {placements[n].profile}
           s == Seen(P).profiles[placements[n].profile]
<1>1. DataTyped /\ call.todo # {} /\ Points(call, Len(placements), Len(runtimes), Len(logical)) /\ call \in CallType
  BY CallIs DEF Ready, StageOK
<1>2. n \in 1 .. Len(placements)
  BY <1>1, FirstIs
<1>3. \/ /\ placements[n].epoch = s.epoch
         /\ Ask(c, call, s.runtime, "release")
      \/ Dropped(c, call, Seen(P), n, remaining)
  BY DEF ReleaseFirst
<1>4. placements[n].profile \in Profile
  BY <1>1, <1>2, Lens DEF PlacementType
<1>5. s.runtime = profiles[placements[n].profile].runtime
  BY <1>1, <1>4, SeenIs
<1>6. CASE placements[n].epoch = s.epoch /\ Ask(c, call, s.runtime, "release")
  <2>1. s.runtime \in 1 .. Len(runtimes) /\ Own(n, s.runtime)
    BY <1>2, <1>5, <1>6, KnownOwn
  <2>2. Names(call, "release") = {n}
    BY DEF Names
  <2> HIDE DEF s, n
  <2>3. Aims(call, "release", s.runtime)
    BY <1>2, <2>1, <2>2 DEF Aims
  <2> QED
    BY <1>1, <1>6, <2>1, <2>3, AskFits DEF Ops, Makes
<1>7. CASE Dropped(c, call, Seen(P), n, remaining)
  <2>1. Poised(call, "endScope")
    BY DEF Poised
  <2> HIDE DEF n, P
  <2> QED
    BY <1>2, <1>7, <2>1, EndsScope, DroppedFits
<1> QED
  BY <1>3, <1>6, <1>7

\* A call that has no leases is poised to release.
LEMMA BarePoised ==
  ASSUME NEW call, Bare(call), Len(call.refs) <= MaxInputs, NEW shape, NEW todo, NEW rest
  PROVE  Poised([call EXCEPT !.shape = shape, !.scope = 0, !.todo = todo, !.rest = rest], "release")
<1> DEFINE y == [call EXCEPT !.shape = shape, !.scope = 0, !.todo = todo, !.rest = rest]
<1>1. call \in CallType /\ call.held = <<>>
  BY DEF Bare
<1>2. y.own = call.own /\ y.refs = call.refs /\ y.held = call.held
  BY <1>1 DEF CallType
<1> HIDE DEF y
<1> QED
  BY <1>1, <1>2 DEF Poised, y

LEMMA ReleaseShapesFits ==
  ASSUME EngineInv, OriginInv, NEW c \in Call, calls[c].held = <<>>, calls[c].source = 0, NEW call, Bare(call),
         Len(call.refs) <= MaxInputs, NEW remaining, ReleaseShapes(c, call, remaining)
  PROVE  Fits(c)
<1> DEFINE open == {s \in call.rest : phase = "open" /\ s \in remaining}
           next == {s \in open : logical[s] # {} /\ Unleased(logical[s])}
           Emptied(S) == {s \in S : logical[s] = {}}
           first == Min(next)
           rest == {t \in call.rest : t > first}
           then == [call EXCEPT !.shape = first, !.scope = 0, !.todo = logical[first], !.rest = rest]
           less == remaining \ Emptied({t \in open : t < first})
<1>1. DataTyped /\ call.rest \subseteq 1 .. Len(logical)
  BY CallIs DEF Bare, Points
<1>2. \/ next # {} /\ ReleaseFirst(c, then, less)
      \/ calls' = [calls EXCEPT ![c] = Ended("done")]
  BY DEF ReleaseShapes
<1>3. CASE next # {} /\ ReleaseFirst(c, then, less)
  <2>1. next \in SUBSET Nat /\ next \subseteq 1 .. Len(logical)
    BY <1>1
  <2> HIDE DEF open
  <2>2. first \in next
    <3> HIDE DEF next
    <3> QED
      BY <1>3, <2>1, LeastExists
  <2>3. first \in 1 .. Len(logical) /\ logical[first] # {}
    BY <2>1, <2>2
  <2>4. logical[first] \in SUBSET (1 .. Len(placements))
    BY <1>1, <2>3 DEF DataTyped, ShapesTyped
  <2>5. rest \subseteq call.rest /\ first \in 0 .. Len(logical) /\ Len(logical) \in Nat
    BY <1>1, <2>3, Lens
  <2> HIDE DEF next, first, rest, less
  <2>6. Ready(c, then, "release") /\ Poised(then, "release")
    BY <2>3, <2>4, <2>5, BareReady, BarePoised
  <2> HIDE DEF then
  <2> QED
    BY <1>3, <2>6, ReleaseFirstFits
<1>4. CASE calls' = [calls EXCEPT ![c] = Ended("done")]
  BY <1>4, EndFits
<1> QED
  BY <1>2, <1>3, <1>4

LEMMA ReleaseOnFits ==
  ASSUME EngineInv, OriginInv, NEW c \in Call, calls[c].at \in {"release", "endScope"}, calls[c].todo # {}, NEW ok,
         ReleaseOn(c, calls[c], ok)
  PROVE  Fits(c)
<1> DEFINE call == calls[c]
           n == First(call)
<1>1. DataTyped /\ call \in CallType /\ StageOK(call, call.at)
      /\ Points(call, Len(placements), Len(runtimes), Len(logical))
  BY CallIs DEF Stage
<1>2. call.source = 0 /\ call.held = <<>> /\ ~call.own
  BY <1>1 DEF StageOK
<1>3. Bare(call) /\ Len(call.refs) <= MaxInputs
  BY <1>1, <1>2 DEF Bare, OriginInv, Suits, Poised
<1>4. CASE /\ call.todo # {n}
           /\ ReleaseFirst(c, [call EXCEPT !.todo = @ \ {n}, !.scope = 0], shapes)
  <2> DEFINE todo == call.todo \ {n}
             then == [call EXCEPT !.shape = call.shape, !.scope = 0, !.todo = todo, !.rest = call.rest]
  <2>1. todo # {} /\ todo \in SUBSET (1 .. Len(placements)) /\ call.shape \in 0 .. Len(logical) /\ call.rest \subseteq call.rest
        /\ Len(logical) \in Nat
    BY <1>1, <1>4, Lens DEF Points
  <2> HIDE DEF n, todo
  <2>2. Ready(c, then, "release") /\ Poised(then, "release")
    BY <1>2, <1>3, <2>1, BareReady, BarePoised
  <2>3. then = [call EXCEPT !.todo = todo, !.scope = 0]
    BY <1>1 DEF CallType
  <2>4. ReleaseFirst(c, then, shapes)
    BY <1>4, <2>3 DEF todo
  <2> QED
    BY <2>2, <2>4, ReleaseFirstFits
<1>5. CASE \E remaining : ReleaseShapes(c, call, remaining)
  BY <1>2, <1>3, <1>5, ReleaseShapesFits
<1> QED
  BY <1>4, <1>5 DEF ReleaseOn

\* Calls begin.
LEMMA AloneFits ==
  ASSUME EngineInv, OriginInv, NEW c \in Call, NEW call, Alone(call), NEW op \in {"capabilities", "beginScope"},
         op = "capabilities" => call.own = FALSE, NEW P, Reach(c, call, Seen(P).profiles, call.target, op)
  PROVE  Fits(c)
<1>1. /\ call \in CallType /\ op \in Ops /\ call.target \in Profile /\ call.held = <<>> /\ call.refs = <<>> /\ call.i = 1
      /\ op # "op" /\ op # "exportBREP" /\ op # "release"
  BY DEF Alone, Ops
<1>2. Len(call.refs) <= MaxInputs /\ Len(call.refs) < call.i
  BY <1>1, EngineAssumption
<1>3. Poised(call, op)
  BY <1>1, <1>2 DEF Poised
<1>4. \A r : Aims(call, op, r)
  BY <1>1 DEF Aims
<1> DEFINE p == call.target
<1>5. /\ p \in Profile /\ p = call.target /\ Reach(c, call, Seen(P).profiles, p, op)
  BY <1>1
<1> HIDE DEF p
<1> QED
  BY <1>1, <1>3, <1>4, <1>5, ReachFits

LEMMA CreateFits ==
  ASSUME EngineInv, OriginInv, NEW c \in Call, Create(c)
  PROVE  Fits(c)
<1>1. PICK p \in Range(Eligible[c]) :
        Reach(c, [Unbegun EXCEPT !.kind = "create", !.target = p, !.own = TRUE], Seen({p}).profiles, p, "beginScope")
  BY DEF Create
<1>2. p \in Profile
  BY EligibleIs
<1> DEFINE call == [Unbegun EXCEPT !.kind = "create", !.target = p, !.own = TRUE]
<1>3. Alone(call) /\ call.target = p
  BY <1>2, UnbegunIs DEF CallType, Alone, AllKinds
<1>4. Reach(c, call, Seen({p}).profiles, call.target, "beginScope")
  BY <1>1, <1>3
<1> HIDE DEF call
<1> QED
  BY <1>3, <1>4, AloneFits

LEMMA ProbeProfileFits ==
  ASSUME EngineInv, OriginInv, NEW c \in Call, ProbeProfile(c)
  PROVE  Fits(c)
<1>1. PICK p \in Profile :
        Reach(c, [Unbegun EXCEPT !.kind = "probeProfile", !.target = p], Seen({p}).profiles, p, "capabilities")
  BY DEF ProbeProfile
<1> DEFINE call == [Unbegun EXCEPT !.kind = "probeProfile", !.target = p]
<1>2. Alone(call) /\ call.target = p /\ call.own = FALSE
  BY UnbegunIs DEF CallType, Alone, AllKinds
<1>3. Reach(c, call, Seen({p}).profiles, call.target, "capabilities")
  BY <1>1, <1>2
<1> HIDE DEF call
<1> QED
  BY <1>2, <1>3, AloneFits

LEMMA RequestFits ==
  ASSUME EngineInv, OriginInv, NEW c \in Call, Request(c)
  PROVE  Fits(c)
<1>1. DataTyped /\ phase = "open"
  BY NotBegun, CallIs DEF Request
<1>2. PICK refs \in UNION {[1 .. k -> Refs] : k \in 0 .. MaxInputs} :
        LET ps == Seen({placements[n].profile : n \in Range(refs)}).placements IN
        Inputs(c, [Unbegun EXCEPT !.kind = "request", !.refs = refs, !.target = Target(c, refs, ps)], <<>>)
  BY Zenon DEF Request
<1> DEFINE ps == Seen({placements[n].profile : n \in Range(refs)}).placements
           q == Target(c, refs, ps)
           call == [Unbegun EXCEPT !.kind = "request", !.refs = refs, !.target = q]
<1>3. refs \in Seq(1 .. Len(placements)) /\ Len(refs) <= MaxInputs
  <2>1. PICK k \in 0 .. MaxInputs : refs \in [1 .. k -> Refs]
    OBVIOUS
  <2>2. k \in Nat /\ Refs \subseteq 1 .. Len(placements)
    BY <1>1, EngineAssumption, RefsAre
  <2>3. refs \in [1 .. k -> 1 .. Len(placements)]
    BY ONLY <2>1, <2>2
  <2>4. refs \in Seq(1 .. Len(placements))
    BY ONLY <2>2, <2>3
  <2>5. Len(refs) = k
    BY ONLY <2>2, <2>3, <2>4
  <2> QED
    BY <2>1, <2>4, <2>5
<1>4. Inputs(c, call, <<>>)
  BY <1>2
<1> HIDE DEF ps
<1>5. q \in Profile
  BY <1>1, <1>3, TargetIs
<1> HIDE DEF q
<1>6. Moving(call) /\ call.held = <<>>
  BY <1>1, <1>3, <1>5, BeginsMoving
<1>7. call.refs = refs
  BY UnbegunIs DEF CallType
<1> HIDE DEF call
<1>8. <<>> \in Seq(1 .. Len(placements)) /\ Len(<<>>) = 0
  BY EmptySeq
<1>9. Readied(call, <<>>)
  BY <1>3, <1>6, <1>7, <1>8 DEF Readied
<1> QED
  BY <1>1, <1>4, <1>6, <1>8, <1>9, InputsFits

LEMMA CloneToFits ==
  ASSUME EngineInv, OriginInv, NEW c \in Call, CloneTo(c)
  PROVE  Fits(c)
<1>1. phase = "open" /\ DataTyped
  BY NotBegun, CallIs DEF CloneTo
<1>2. PICK n \in Refs, q \in Profile :
        /\ IsLive(Seen({placements[n].profile}).placements, n)
        /\ Clone(c, [Unbegun EXCEPT !.kind = "cloneTo", !.target = q], Seen({placements[n].profile}), n)
  BY DEF CloneTo
<1> DEFINE call == [Unbegun EXCEPT !.kind = "cloneTo", !.target = q]
           P == {placements[n].profile}
           e == Seen(P)
<1>3. n \in 1 .. Len(placements)
  BY <1>1, RefsAre
<1>4. call \in CallType /\ call.refs = <<>> /\ call.held = <<>> /\ call.i = 1
  BY UnbegunIs DEF CallType, AllKinds
<1>5. Clone(c, call, e, n) /\ e.profiles = Seen(P).profiles /\ IsLive(Seen(P).placements, n) /\ placements[n].profile \in P
  BY <1>2
<1> HIDE DEF call, P, e
<1>6. Poised(call, "cloned")
  BY <1>4, EngineAssumption DEF Poised
<1> QED
  BY <1>1, <1>3, <1>4, <1>5, <1>6, CloneFits

LEMMA ReleasePlacementFits ==
  ASSUME EngineInv, OriginInv, NEW c \in Call, ReleasePlacement(c)
  PROVE  Fits(c)
<1>1. Begins(c, "releasePlacement")
  BY DEF ReleasePlacement
<1>2. calls[c].held = <<>> /\ calls[c].source = 0 /\ DataTyped
  BY <1>1, NotBegun, CallIs
<1>3. PICK n \in Refs : ReleaseFirst(c, [Unbegun EXCEPT !.kind = "releasePlacement",
                                           !.todo = {n}, !.shape = placements[n].shape], shapes)
  BY DEF ReleasePlacement
<1>4. n \in 1 .. Len(placements) /\ placements[n].shape \in 1 .. Len(logical) /\ Len(logical) \in Nat
  BY <1>2, Lens DEF Refs, DataTyped, PlacementsTyped
<1> DEFINE bare == [Unbegun EXCEPT !.kind = "releasePlacement"]
           shape == placements[n].shape
           todo == {n}
           then == [bare EXCEPT !.shape = shape, !.scope = 0, !.todo = todo, !.rest = {}]
           call == [Unbegun EXCEPT !.kind = "releasePlacement", !.todo = {n}, !.shape = placements[n].shape]
<1>5. bare \in CallType /\ bare.rest = {} /\ bare.scope = 0 /\ bare.held = <<>> /\ bare.source = 0 /\ bare.own = FALSE
      /\ bare.refs = <<>> /\ bare.rt = 0 /\ bare.shape = 0 /\ bare.todo = {} /\ bare.i = 1
  BY UnbegunIs DEF CallType, AllKinds, Unbegun
<1>6. call = [bare EXCEPT !.shape = shape, !.todo = todo]
  BY DEF Unbegun
<1> HIDE DEF bare, shape, todo
<1>7. call = then
  <2>1. then = [bare EXCEPT !.shape = shape, !.todo = todo]
    BY <1>5 DEF CallType
  <2> HIDE DEF call, then
  <2> QED
    BY ONLY <1>6, <2>1
<1>8. Bare(bare) /\ Len(bare.refs) <= MaxInputs
  <2>1. Len(placements) \in Nat /\ Len(runtimes) \in Nat
    BY <1>2, Lens
  <2> QED
    BY <1>4, <1>5, <2>1, EngineAssumption DEF Bare, Points
<1>9. shape \in 0 .. Len(logical) /\ todo \in SUBSET (1 .. Len(placements)) /\ todo # {}
  BY <1>4 DEF shape, todo
<1>10. Ready(c, then, "release") /\ Poised(then, "release")
  BY <1>2, <1>4, <1>5, <1>8, <1>9, BareReady, BarePoised
<1>11. ReleaseFirst(c, then, shapes)
  BY <1>3, <1>7
<1> QED
  BY <1>10, <1>11, ReleaseFirstFits

LEMMA ShapesFit ==
  ASSUME EngineInv, OriginInv, NEW c \in Call, NEW kind \in {"releaseShape", "releaseAll"}, Begins(c, kind),
         NEW rest, rest \subseteq shapes, ReleaseShapes(c, [Unbegun EXCEPT !.kind = kind, !.rest = rest], shapes)
  PROVE  Fits(c)
<1> DEFINE bare == [Unbegun EXCEPT !.kind = kind, !.rest = rest]
<1>1. calls[c].held = <<>> /\ calls[c].source = 0 /\ DataTyped
  BY NotBegun, CallIs
<1>2. rest \subseteq 1 .. Len(logical) /\ rest \in SUBSET Nat /\ Len(logical) \in Nat /\ Len(placements) \in Nat
      /\ Len(runtimes) \in Nat
  BY <1>1, Lens DEF DataTyped, ShapesTyped
<1>3. bare \in CallType /\ bare.rest = rest /\ bare.held = <<>> /\ bare.source = 0 /\ bare.own = FALSE
      /\ bare.refs = <<>> /\ bare.rt = 0 /\ bare.shape = 0 /\ bare.todo = {} /\ bare.i = 1
  BY <1>2, UnbegunIs DEF CallType, AllKinds
<1>4. ReleaseShapes(c, bare, shapes)
  OBVIOUS
<1> HIDE DEF bare
<1>5. Bare(bare) /\ Len(bare.refs) <= MaxInputs
  BY <1>2, <1>3, EngineAssumption DEF Bare, Points
<1> QED
  BY <1>1, <1>4, <1>5, ReleaseShapesFits

LEMMA BeginFits ==
  ASSUME EngineInv, OriginInv, NEW c \in Call, Begin(c)
  PROVE  Fits(c)
<1>1. ASSUME ReleaseShape(c)
      PROVE  Fits(c)
  <2>1. PICK s \in shapes : ReleaseShapes(c, [Unbegun EXCEPT !.kind = "releaseShape", !.rest = {s}], shapes)
    BY <1>1 DEF ReleaseShape
  <2> DEFINE rest == {s}
  <2>2. rest \subseteq shapes /\ ReleaseShapes(c, [Unbegun EXCEPT !.kind = "releaseShape", !.rest = rest], shapes)
    BY <2>1
  <2>3. Begins(c, "releaseShape")
    BY <1>1 DEF ReleaseShape
  <2> HIDE DEF rest
  <2> QED
    BY <2>2, <2>3, ShapesFit
<1>2. ASSUME ReleaseAll(c)
      PROVE  Fits(c)
  BY <1>2, ShapesFit DEF ReleaseAll
<1> QED
  BY <1>1, <1>2, CreateFits, RequestFits, CloneToFits, ReleasePlacementFits, ProbeProfileFits DEF Begin

\* Calls go on.
LEMMA LastIs ==
  ASSUME NEW S, NEW s \in Seq(S), NEW x
  PROVE  Append(s, x)[Len(s) + 1] = x /\ Len(Append(s, x)) = Len(s) + 1
<1>1. s \in Seq(S \cup {x}) /\ x \in S \cup {x}
  OBVIOUS
<1> QED
  BY <1>1

LEMMA ImportedThere ==
  ASSUME EngineInv, NEW c \in Call, NEW P, NEW epoch, NEW h, NEW s, NEW shape, NEW r, NEW q,
         calls[c].source # 0 /\ placements[calls[c].source].state = "transferring"
           => placements[calls[c].source].profile \in P,
         placements' = Append(SourceBack(Seen(P), calls[c].source), Placement(q, epoch, h, s, shape, r))
  PROVE  placements'[Len(placements) + 1].profile = q
<1> DEFINE n == calls[c].source
           old == SourceBack(Seen(P), n)
           x == Placement(q, epoch, h, s, shape, r)
<1>1. DataTyped /\ EpochsCurrent /\ n \in 0 .. Len(placements)
  BY CallIs DEF EngineInv, Points
<1>2. n # 0 /\ placements[n].state = "transferring" => placements[n].profile \in P
  OBVIOUS
<1> HIDE DEF n
<1>3. old \in Seq(PlacementType) /\ Len(old) = Len(placements)
  BY <1>1, <1>2, SourceBackIs
<1>4. x.profile = q
  BY DEF Placement
<1>5. placements' = Append(old, x)
  BY DEF n
<1> HIDE DEF old, x
<1>6. placements'[Len(old) + 1] = x
  BY ONLY <1>3, <1>5, LastIs
<1> QED
  BY <1>3, <1>4, <1>6

LEMMA ContinueFits ==
  ASSUME EngineInv, OriginInv, NEW c \in Call, Continue(c)
  PROVE  Fits(c)
<1> DEFINE call == calls[c]
           p == call.target
<1>1. /\ DataTyped /\ call \in CallType /\ calls \in [Call -> CallType] /\ Suits(call) /\ ReplyOK(call)
      /\ Within(call, Len(placements), Len(runtimes), Len(logical)) /\ StageOK(call, Stage(call))
      /\ Points(call, Len(placements), Len(runtimes), Len(logical))
  BY CallIs DEF OriginInv
<1>2. ASSUME NEW P, NEW outcome \in {"done", "failed"}, NEW d, Finally(c, d, P, outcome)
      PROVE  Fits(c)
  BY <1>2, FinallyFits
<1>3. Poised(call, Stage(call)) /\ Same(call, call) /\ Poised(call, "endScope")
  BY <1>1 DEF Suits, Same, Poised
<1>4. ASSUME NEW at, Goes(c, at)
      PROVE  /\ call.at = at /\ (at # "start" => Stage(call) = at)
             /\ at \in {"start", "beginScope", "make", "op", "importBREP"} => call.rt \in 1 .. Len(runtimes)
  <2>1. call.at = at /\ (call.rt # 0 => call.rt \in 1 .. Len(runtimes))
    BY <1>4, GoesOn
  <2>2. call.at \in {"start", "beginScope", "make", "op", "importBREP"} => call.rt # 0
    BY <1>1 DEF ReplyOK, Ops
  <2> QED
    BY <2>1, <2>2 DEF Stage
<1>5. ASSUME NEW e, Cleanup(c, e), NEW at \in {"make", "op", "importBREP"}, Goes(c, at)
      PROVE  Fits(c)
  <2>1. Ask(c, call, call.rt, "endScope") /\ call.rt \in 1 .. Len(runtimes)
    BY <1>4, <1>5 DEF Cleanup
  <2>2. Aims(call, "endScope", call.rt)
    BY DEF Aims
  <2> QED
    BY <1>1, <1>3, <2>1, <2>2, AskFits DEF Ops, Makes
<1>6. ASSUME Start(c)
      PROVE  Fits(c)
  <2>1. Goes(c, "start") /\ (Ask(c, call, call.rt, call.next) \/ Finally(c, call, {}, "failed"))
    BY <1>6 DEF Start
  <2>2. CASE Ask(c, call, call.rt, call.next)
    <3>1. call.at = "start" /\ call.next \in Ops /\ call.rt \in 1 .. Len(runtimes) /\ Stage(call) = call.next
      BY <1>1, <1>4, <2>1 DEF ReplyOK, Stage
    <3>2. call.next \notin {"exportBREP", "release"} /\ (call.next = "op" => call.held = <<>>)
      BY <1>1, <3>1 DEF Suits
    <3>3. Aims(call, call.next, call.rt)
      BY <3>2 DEF Aims, Names
    <3>4. call.next \in Makes \cup {"beginScope"} => runtimes[call.rt].profile = call.target
      BY <1>1, <3>1 DEF Suits
    <3> HIDE DEF call
    <3> QED
      BY <1>1, <1>3, <2>2, <3>1, <3>3, <3>4, AskFits DEF call
  <2> QED
    BY <1>2, <2>1, <2>2
<1>7. ASSUME Opened(c)
      PROVE  Fits(c)
  <2> DEFINE s == TheValue(c)
             x == [call EXCEPT !.scope = s, !.value = <<>>]
             e == Seen({p})
             epoch == e.profiles[p].epoch
             y == [x EXCEPT !.epoch = epoch]
  <2>1. Goes(c, "beginScope")
    BY <1>7 DEF Opened
  <2>2. \/ Finally(c, call, {}, "failed")
        \/ Ok(c) /\ Ask(c, x, x.rt, "make")
        \/ Ok(c) /\ x.own /\ Reach(c, x, e.profiles, p, "op")
        \/ Ok(c) /\ Ask(c, y, x.rt, "importBREP")
    BY <1>7 DEF Opened
  <2>3. /\ call.at = "beginScope" /\ Stage(call) = "beginScope" /\ call.rt \in 1 .. Len(runtimes)
        /\ runtimes[call.rt].profile = p /\ p \in Profile
    BY <1>1, <1>4, <2>1 DEF Suits, StageOK, Idle
  <2>4. ASSUME Ok(c)
        PROVE  /\ x \in CallType /\ Same(call, x) /\ x.rt = call.rt
               /\ y \in CallType /\ Same(call, y)
    <3>1. s \in Nat /\ <<>> \in Seq(Nat)
      BY <2>1, <2>4, AnsweredScope
    <3>2. epoch \in Nat
      BY <1>1, <2>3, SeenIs DEF ProfileType
    <3> HIDE DEF call, s, epoch
    <3> QED
      BY <1>1, <3>1, <3>2 DEF CallType, Same
  <2> HIDE DEF x, y
  <2>5. ASSUME NEW z, Same(call, z), NEW op \in {"make", "op", "importBREP"}
        PROVE  Poised(z, op) /\ z.target = p
    <3>1. Poised(call, op)
      BY <1>3, <2>3 DEF Poised
    <3> QED
      BY <2>5, <3>1, SamePoised DEF Same
  <2>6. CASE Ok(c) /\ Ask(c, x, x.rt, "make")
    <3>1. Aims(x, "make", call.rt)
      BY DEF Aims
    <3> HIDE DEF call
    <3> QED
      BY <2>3, <2>4, <2>5, <2>6, <3>1, AskFits DEF Ops
  <2>7. CASE Ok(c) /\ Ask(c, y, x.rt, "importBREP")
    <3>1. Aims(y, "importBREP", call.rt)
      BY DEF Aims
    <3> HIDE DEF call
    <3> QED
      BY <2>3, <2>4, <2>5, <2>7, <3>1, AskFits DEF Ops
  <2>8. CASE Ok(c) /\ x.own /\ Reach(c, x, e.profiles, p, "op")
    <3>1. x.held = <<>>
      BY <1>3, <2>4, <2>8 DEF Same, Poised
    <3>2. \A r : Aims(x, "op", r)
      BY <3>1 DEF Aims, Names
    <3> HIDE DEF p
    <3> QED
      BY <2>3, <2>4, <2>5, <2>8, <3>1, <3>2, ReachFits DEF Ops
  <2> QED
    BY <1>2, <2>2, <2>6, <2>7, <2>8
<1>8. ASSUME Exported(c)
      PROVE  Fits(c)
  <2>1. Goes(c, "exportBREP")
    BY <1>8 DEF Exported
  <2>2. \/ \E Q : Finally(c, call, Q, "failed")
        \/ \E Q : Reach(c, call, Seen(Q).profiles, p, "beginScope")
    BY <1>8, Zenon DEF Exported
  <2>3. Stage(call) = "exportBREP" /\ p \in Profile
    BY <1>1, <1>4, <2>1 DEF StageOK, Idle
  <2>4. Poised(call, "beginScope") /\ \A r : Aims(call, "beginScope", r)
    BY <1>3, <2>3 DEF Poised, Aims
  <2>5. ASSUME NEW Q, Reach(c, call, Seen(Q).profiles, p, "beginScope")
        PROVE  Fits(c)
    <3> DEFINE q == p
    <3>1. q = call.target
      OBVIOUS
    <3> HIDE DEF q
    <3> QED
      BY <1>1, <2>3, <2>4, <2>5, <3>1, ReachFits DEF Ops
  <2> QED
    BY <1>2, <2>2, <2>5
<1>9. ASSUME Imported(c)
      PROVE  Fits(c)
  <2> DEFINE n == call.source
             P == {p} \cup IF placements[n].state = "transferring" THEN {placements[n].profile} ELSE {}
             m == Len(placements) + 1
             value == <<m>>
             x == [call EXCEPT !.at = "cloned", !.value = value, !.source = 0, !.epoch = 0]
  <2>1. Goes(c, "importBREP")
    BY <1>9 DEF Imported
  <2>2. \/ \E e : Cleanup(c, e)
        \/ /\ Ok(c) /\ phase = "open" /\ UNCHANGED <<runtimes, shapes, phase, awaited, losses>>
           /\ placements' = Append(SourceBack(Seen(P), n),
                Placement(p, Seen(P).profiles[p].epoch, TheValue(c), call.scope, placements[n].shape, call.rt))
           /\ calls' = [calls EXCEPT ![c] = x]
    BY <1>9, Zenon DEF Imported
  <2>3. CASE /\ Ok(c) /\ phase = "open" /\ UNCHANGED <<runtimes, shapes, phase, awaited, losses>>
             /\ placements' = Append(SourceBack(Seen(P), n),
                  Placement(p, Seen(P).profiles[p].epoch, TheValue(c), call.scope, placements[n].shape, call.rt))
             /\ calls' = [calls EXCEPT ![c] = x]
    <3>1. n # 0 /\ placements[n].state = "transferring" => placements[n].profile \in P
      OBVIOUS
    <3> HIDE DEF P
    <3>2. placements'[m].profile = p
      BY <2>3, <3>1, ImportedThere
    <3>3. Head(value) = m
      OBVIOUS
    <3> HIDE DEF value, m
    <3>4. /\ x.at = "cloned" /\ x.value = value /\ x.refs = call.refs /\ x.held = call.held /\ x.own = call.own
          /\ x.i = call.i /\ x.target = p
      <4> HIDE DEF call
      <4> QED
        BY <1>1 DEF CallType, p
    <3> HIDE DEF x
    <3>5. calls'[c] = x /\ Stage(x) = "cloned" /\ Stage(call) = "importBREP"
      BY <1>1, <1>4, <2>1, <2>3, <3>4 DEF Stage
    <3>6. Poised(x, "cloned")
      BY <1>3, <3>4, <3>5 DEF Poised
    <3> HIDE DEF call, p
    <3>7. Suits(calls[c])'
      BY <2>3, <3>2, <3>3, <3>4, <3>5, <3>6 DEF Suits, Makes
    <3>8. "cloned" \notin Ops
      BY DEF Ops
    <3> QED
      BY <3>4, <3>5, <3>7, <3>8 DEF Fits
  <2> QED
    BY <1>5, <2>1, <2>2, <2>3
<1>10. ASSUME Cloned(c)
       PROVE  Fits(c)
  <2> DEFINE then == [call EXCEPT !.rt = 0, !.scope = 0, !.next = "none"]
             m == TheValue(c)
             cloned == <<m>>
  <2>1. Goes(c, "cloned") /\ (Finally(c, call, {}, "done") \/ (call.kind = "request" /\ Inputs(c, then, cloned)))
    BY <1>10 DEF Cloned
  <2>2. CASE call.kind = "request" /\ Inputs(c, then, cloned)
    <3>1. call.at = "cloned" /\ Stage(call) = "cloned"
      BY <1>4, <2>1
    <3>2. StageOK(call, "cloned") /\ m = Head(call.value) /\ m \in 1 .. Len(placements)
      BY <1>1, <3>1 DEF Within, TheValue
    <3>3. phase = "open" /\ placements[m].profile = p
      BY <1>1, <2>2, <3>1, <3>2 DEF Suits
    <3>4. Len(runtimes) \in Nat
      BY <1>1, Lens
    <3> HIDE DEF call, m
    <3>5. /\ then \in CallType /\ then.kind = call.kind /\ then.refs = call.refs /\ then.i = call.i
          /\ then.target = call.target /\ then.rt = 0 /\ then.source = call.source /\ then.held = call.held
          /\ then.own = call.own /\ then.todo = call.todo /\ then.shape = call.shape /\ then.rest = call.rest
      BY <1>1 DEF CallType
    <3> HIDE DEF then
    <3>6. Points(then, Len(placements), Len(runtimes), Len(logical))
      BY <1>1, <3>4, <3>5 DEF Points
    <3>7. Moving(then)
      BY <1>1, <3>2, <3>5, <3>6 DEF Moving, StageOK, Idle
    <3>8. cloned \in Seq(1 .. Len(placements)) /\ cloned # <<>> /\ Len(cloned) = 1 /\ cloned[1] = m
      BY <3>2
    <3> HIDE DEF cloned
    <3>9. Poised(call, "cloned")
      BY <1>3, <3>1
    <3>10. Readied(then, cloned)
      BY <3>3, <3>5, <3>8, <3>9 DEF Readied, Poised
    <3> QED
      BY <2>2, <3>3, <3>7, <3>8, <3>10, InputsFits
  <2> QED
    BY <1>2, <2>1, <2>2
<1>11. ASSUME Result(c)
       PROVE  Fits(c)
  <2>1. \/ calls' = [calls EXCEPT ![c] = Ended("done")]
        \/ Cleanup(c, Seen({}))
        \/ \E outcome \in {"done", "failed"} : Finally(c, call, {}, outcome)
    BY <1>11 DEF Result, Attached
  <2>2. Goes(c, "make") \/ Goes(c, "op")
    BY <1>11 DEF Result
  <2> QED
    BY <1>2, <1>5, <2>1, <2>2, EndFits
<1>12. ASSUME Probed(c) \/ CleanedUp(c)
       PROVE  Fits(c)
  <2>1. \E outcome \in {"done", "failed"} : Finally(c, call, {}, outcome)
    BY <1>12 DEF Probed, CleanedUp
  <2> QED
    BY <1>2, <2>1
<1>13. ASSUME Released(c)
       PROVE  Fits(c)
  <2>1. Goes(c, "release") /\ (Dropped(c, call, Seen({}), First(call), shapes) \/ ReleaseOn(c, call, FALSE))
    BY <1>13 DEF Released
  <2>2. call.at = "release" /\ StageOK(call, "release")
    BY <2>1, GoesOn
  <2>3. call.todo # {}
    BY <2>2 DEF StageOK
  <2>4. First(call) \in 1 .. Len(placements)
    BY <1>1, <2>3, FirstIs
  <2>5. Ready(c, call, "endScope")
    BY <2>2, ReadyAsIs, EndsScope DEF Ops
  <2> QED
    BY <1>3, <2>1, <2>2, <2>3, <2>4, <2>5, DroppedFits, ReleaseOnFits
<1>14. ASSUME ScopeReleased(c)
       PROVE  Fits(c)
  <2>1. Goes(c, "endScope") /\ call.todo # {} /\ ReleaseOn(c, call, TRUE)
    BY <1>14 DEF ScopeReleased
  <2>2. call.at = "endScope"
    BY <2>1, GoesOn
  <2> QED
    BY <2>1, <2>2, ReleaseOnFits
<1> QED
  BY <1>6, <1>7, <1>8, <1>9, <1>10, <1>11, <1>12, <1>13, <1>14 DEF Continue

\* A turn keeps whose shapes the calls name.
LEMMA TurnSynced ==
  ASSUME DataTyped, NEW c, NEW new, NEW P, RunTurn(c, new, P), NEW p \in Profile
  PROVE  /\ ~Lost(p, P) => profiles'[p].runtimeEpoch = profiles[p].runtimeEpoch
         /\ p \in P /\ profiles[p].runtime # 0
              => profiles'[p].runtimeEpoch = runtimes[profiles[p].runtime].kernel.epoch
<1> DEFINE s == Seen(P).profiles
           k == runtimes[profiles[p].runtime].kernel.epoch
<1>1. s \in [Profile -> ProfileType] /\ profiles[p] \in ProfileType
  BY SeenIs, RuntimeIs
<1>2. ~Lost(p, P) => s[p].runtimeEpoch = profiles[p].runtimeEpoch
  BY SeenIs
<1>3. Lost(p, P) => s[p].runtimeEpoch = k
  <2>1. Lost(p, P) => s[p] = [profiles[p] EXCEPT !.epoch = @ + 1, !.runtimeEpoch = k]
    BY DEF Seen, Lost
  <2> HIDE DEF k, s
  <2> QED
    BY <1>1, <2>1 DEF ProfileType
<1>4. p \in P /\ profiles[p].runtime # 0 /\ ~Lost(p, P) => k = profiles[p].runtimeEpoch
  BY DEF Lost, Rebuilds
<1>5. profiles'[p].runtimeEpoch = s[p].runtimeEpoch
  <2>1. CASE StartsFor(P)
    <3>1. PICK t \in Profile : profiles' = [s EXCEPT ![t].starting = Len(runtimes) + 1]
      BY <2>1 DEF StartsFor
    <3> DEFINE y == [s[t] EXCEPT !.starting = Len(runtimes) + 1]
    <3>2. s[t] \in ProfileType
      BY <1>1
    <3>3. y.runtimeEpoch = s[t].runtimeEpoch
      BY <3>2 DEF ProfileType
    <3>4. profiles' = [s EXCEPT ![t] = y]
      BY <3>1
    <3> HIDE DEF s, y
    <3> QED
      BY <1>1, <3>3, <3>4
  <2>2. CASE profiles' = s
    BY <2>2
  <2> QED
    BY <2>1, <2>2 DEF RunTurn
<1> HIDE DEF s, k
<1>6. /\ ~Lost(p, P) => profiles'[p].runtimeEpoch = profiles[p].runtimeEpoch
      /\ p \in P /\ profiles[p].runtime # 0 => profiles'[p].runtimeEpoch = k
  BY ONLY <1>2, <1>3, <1>4, <1>5
<1> QED
  BY <1>6 DEF k

\* Who made a shape is the runtime its profile uses.
LEMMA MakerIs ==
  ASSUME EngineInv, OriginInv, NEW c \in Call, NEW x, NEW P, MadeBy(c, x, P)
  PROVE  /\ x.profile \in Profile /\ x.profile \in P /\ profiles[x.profile].runtime # 0
         /\ LET r == profiles[x.profile].runtime IN x.origin = <<r, runtimes[r].kernel.epoch>>
<1> DEFINE call == calls[c]
           r == call.rt
           q == call.target
<1>1. /\ call.at \in Makes /\ call.reply = "ok" /\ phase = "open" /\ x.profile = q /\ q \in P
      /\ x.origin = <<r, runtimes[r].kernel.epoch>>
  BY DEF MadeBy, Ok, Makes
<1>2. /\ DataTyped /\ ReplyOK(call) /\ StageOK(call, Stage(call)) /\ Suits(call)
      /\ Points(call, Len(placements), Len(runtimes), Len(logical)) /\ AllWanted /\ OpenRuntimes
  BY CallIs DEF OriginInv, EngineInv
<1>3. Stage(call) = call.at
  BY <1>1 DEF Stage, Makes
<1>4. r \in 1 .. Len(runtimes)
  <2>1. r # 0 /\ r \in 0 .. Len(runtimes) /\ Len(runtimes) \in Nat
    BY <1>1, <1>2, Lens DEF ReplyOK, Points, Makes, Ops
  <2> QED
    BY <2>1
<1>5. q \in Profile
  BY <1>1, <1>2, <1>3 DEF StageOK, Makes, Idle
<1>6. runtimes[r].profile = q /\ runtimes[r].state = "up"
  BY <1>1, <1>2, <1>3 DEF Suits
<1>7. profiles[q].runtime = r
  BY <1>1, <1>2, <1>4, <1>6 DEF AllWanted, Wanted, OpenRuntimes
<1>8. r # 0
  BY <1>4
<1> QED
  BY <1>1, <1>5, <1>7, <1>8

LEMMA SuitsStays ==
  ASSUME EngineInv, NEW d \in Call, Suits(calls[d]), calls'[d] = calls[d], phase' = phase,
         \A r \in 1 .. Len(runtimes) : runtimes'[r].profile = runtimes[r].profile
                                       /\ (runtimes[r].state = "up" => runtimes'[r].state = "up"),
         \A n \in 1 .. Len(placements) : placements'[n].profile = placements[n].profile
  PROVE  Suits(calls[d])'
<1> DEFINE call == calls[d]
<1>1. /\ ReplyOK(call) /\ Points(call, Len(placements), Len(runtimes), Len(logical)) /\ DataTyped
      /\ Within(call, Len(placements), Len(runtimes), Len(logical)) /\ StageOK(call, Stage(call))
  BY CallIs
<1>2. Stage(call) \in Makes \cup {"beginScope"} => call.rt \in 1 .. Len(runtimes)
  <2>1. call.rt \in 0 .. Len(runtimes) /\ Len(runtimes) \in Nat
    BY <1>1, Lens DEF Points
  <2>2. Stage(call) \in Makes \cup {"beginScope"} => call.rt # 0
    BY <1>1 DEF ReplyOK, Stage, Makes, Ops
  <2> QED
    BY <2>1, <2>2
<1>3. call.at \in Makes => call.rt \in 1 .. Len(runtimes)
  BY <1>2 DEF Stage, Makes
<1>4. call.at = "cloned" => Head(call.value) \in 1 .. Len(placements)
  BY <1>1 DEF Within
<1>5. calls'[d] = call
  OBVIOUS
<1>6. /\ Stage(call) \in Makes \cup {"beginScope"} => runtimes'[call.rt].profile = call.target
      /\ call.at \in Makes /\ call.reply = "ok" => runtimes'[call.rt].state = "up"
      /\ call.at = "cloned" =>
           /\ phase' = "open"
           /\ call.kind = "request" => placements'[Head(call.value)].profile = call.target
  <2>1. Suits(call)
    OBVIOUS
  <2> HIDE DEF call
  <2> QED
    BY <1>2, <1>3, <1>4, <2>1 DEF Suits
<1>7. /\ Poised(call, Stage(call))
      /\ call.at = "start" => call.next \notin {"exportBREP", "release"} /\ (call.next = "op" => call.held = <<>>)
  <2>1. Suits(call)
    OBVIOUS
  <2> HIDE DEF call
  <2> QED
    BY <2>1 DEF Suits
<1> HIDE DEF call
<1> QED
  BY <1>5, <1>6, <1>7 DEF Suits

\* A question names placements that are there.
LEMMA AskedNames ==
  ASSUME EngineInv, NEW r \in 1 .. Len(runtimes), NEW k \in 1 .. Len(runtimes[r].queue),
         runtimes[r].queue[k].call \in Call
  PROVE  LET q == runtimes[r].queue[k] IN Names(calls[q.call], q.op) \subseteq 1 .. Len(placements)
<1> DEFINE q == runtimes[r].queue[k]
<1>1. q.call # Nobody
  BY NobodyAssumption
<1>2. q.op \in Ops /\ calls[q.call].at = q.op
  BY <1>1, WaitingIs
<1>3. q.call \in Call
  OBVIOUS
<1> HIDE DEF q
<1>4. Stage(calls[q.call]) = q.op
  BY <1>2 DEF Stage, Ops
<1>5. /\ StageOK(calls[q.call], q.op)
      /\ Points(calls[q.call], Len(placements), Len(runtimes), Len(logical))
  BY <1>3, <1>4, CallIs
<1> QED
  BY <1>2, <1>5, NamesWithin DEF q

LEMMA TurnTold ==
  ASSUME EngineInv, OriginInv, NEW c \in Call, NEW new, NEW P, Turn(c, new, P)
  PROVE  OriginsTold'
<1>1. DataTyped /\ OriginsTold /\ RunTurn(c, new, P) /\ PlaceTurn(c, new, P)
  BY DEF EngineInv, OriginInv, Turn
<1>2. /\ \A p \in Profile :
           /\ profiles'[p].runtime = profiles[p].runtime
           /\ profiles'[p].epoch = IF Lost(p, P) THEN profiles[p].epoch + 1 ELSE profiles[p].epoch
           /\ ~Lost(p, P) => profiles'[p].runtimeEpoch = profiles[p].runtimeEpoch
           /\ p \in P /\ profiles[p].runtime # 0
                => profiles'[p].runtimeEpoch = runtimes[profiles[p].runtime].kernel.epoch
           /\ profiles[p].epoch \in Nat /\ profiles'[p].epoch \in Nat
  BY <1>1, TurnProfiles, TurnSynced, RuntimeIs DEF ProfileType
<1> SUFFICES ASSUME NEW n \in 1 .. Len(placements')
             PROVE  LET x == placements'[n]
                        own == profiles'[x.profile]
                    IN /\ x.epoch <= own.epoch
                       /\ x.epoch = own.epoch => own.runtime # 0 /\ x.origin = <<own.runtime, own.runtimeEpoch>>
  BY DEF OriginsTold
<1>3. CASE n \in 1 .. Len(placements)
  <2> DEFINE x == placements[n]
             p == x.profile
  <2>1. x \in PlacementType /\ x.epoch \in Nat /\ p \in Profile
    BY <1>1, <1>3, Lens DEF PlacementType
  <2>2. placements'[n].profile = p /\ placements'[n].epoch = x.epoch /\ placements'[n].origin = x.origin
    BY <1>1, <1>3 DEF PlaceTurn
  <2>3. /\ x.epoch <= profiles[p].epoch
        /\ x.epoch = profiles[p].epoch
             => profiles[p].runtime # 0 /\ x.origin = <<profiles[p].runtime, profiles[p].runtimeEpoch>>
    BY <1>1, <1>3 DEF OriginsTold
  <2> HIDE DEF x, p
  <2>4. profiles'[p].epoch >= profiles[p].epoch /\ x.epoch <= profiles'[p].epoch
    BY <1>2, <2>1, <2>3
  <2>5. x.epoch = profiles'[p].epoch => ~Lost(p, P) /\ x.epoch = profiles[p].epoch
    BY <1>2, <2>1, <2>3
  <2> QED
    BY <1>2, <2>1, <2>2, <2>3, <2>4, <2>5
<1>4. CASE n \notin 1 .. Len(placements)
  <2> DEFINE x == placements'[n]
             p == x.profile
  <2>1. n \in Len(placements) + 1 .. Len(placements')
    BY <1>1, <1>4 DEF PlaceTurn, DataTyped, PlacementsTyped
  <2>2. x.epoch = Seen(P).profiles[p].epoch /\ MadeBy(c, x, P)
    BY <1>1, <2>1 DEF PlaceTurn
  <2> HIDE DEF x
  <2>3. /\ p \in Profile /\ p \in P /\ profiles[p].runtime # 0
        /\ x.origin = <<profiles[p].runtime, runtimes[profiles[p].runtime].kernel.epoch>>
    BY <2>2, MakerIs
  <2>4. x.epoch = profiles'[p].epoch
    BY <1>1, <1>2, <2>2, <2>3, SeenIs
  <2> QED
    BY <1>2, <2>3, <2>4 DEF x
<1> QED
  BY <1>3, <1>4

LEMMA TurnStarts ==
  ASSUME DataTyped, StartsOwn, NEW c \in Call, NEW new, NEW P, RunTurn(c, new, P)
  PROVE  StartsOwn'
<1> DEFINE s == Seen(P).profiles
<1>1. /\ s \in [Profile -> ProfileType] /\ \A p \in Profile : s[p].starting = profiles[p].starting /\ s[p].epoch \in Nat
      /\ \A r \in 1 .. Len(runtimes) : runtimes'[r].profile = runtimes[r].profile
      /\ Len(runtimes) \in Nat /\ runtimes \in Seq(RuntimeType)
      /\ \A p \in Profile : profiles[p].starting \in 0 .. Len(runtimes)
  BY SeenIs, TurnRuntimes, Lens DEF DataTyped, ProfilesTyped, RuntimesTyped, ProfileType
<1>2. \A p \in Profile : profiles[p].starting # 0 => runtimes'[profiles[p].starting].profile = p
  BY <1>1 DEF StartsOwn
<1>3. CASE profiles' = s
  BY <1>1, <1>2, <1>3 DEF StartsOwn
<1>4. CASE StartsFor(P)
  <2>1. PICK t \in Profile : /\ runtimes' = Append(runtimes, NewRuntime(t, s[t].epoch))
                             /\ profiles' = [s EXCEPT ![t].starting = Len(runtimes) + 1]
    BY <1>4 DEF StartsFor
  <2> DEFINE k == Len(runtimes) + 1
             y == [s[t] EXCEPT !.starting = k]
             x == NewRuntime(t, s[t].epoch)
  <2>2. x.profile = t /\ x \in RuntimeType
    BY <1>1, NewRuntimeIs DEF NewRuntime
  <2>3. s[t] \in ProfileType
    BY <1>1
  <2> HIDE DEF k
  <2>4. y.starting = k
    BY <2>3 DEF ProfileType
  <2>5. profiles' = [s EXCEPT ![t] = y] /\ runtimes' = Append(runtimes, x)
    BY <2>1 DEF k
  <2> HIDE DEF s, x, y
  <2>6. profiles'[t].starting = k /\ \A p \in Profile : p # t => profiles'[p] = s[p]
    BY <1>1, <2>4, <2>5
  <2>7. runtimes'[k] = x
    BY ONLY <1>1, <2>2, <2>5, LastIs DEF k
  <2>8. ASSUME NEW p \in Profile, profiles'[p].starting # 0
        PROVE  runtimes'[profiles'[p].starting].profile = p
    <3>1. CASE p = t
      BY <2>2, <2>6, <2>7, <3>1
    <3>2. CASE p # t
      BY <1>1, <1>2, <2>6, <2>8, <3>2
    <3> QED
      BY <3>1, <3>2
  <2> QED
    BY <2>8 DEF StartsOwn
<1> QED
  BY <1>3, <1>4 DEF RunTurn

\* The questions after a turn: those that were asked, and the one of c.
LEMMA TurnAsked ==
  ASSUME EngineInv, NEW c \in Call, NEW new, NEW P, Turn(c, new, P), NEW r \in 1 .. Len(runtimes'),
         NEW k \in 1 .. Len(runtimes'[r].queue)
  PROVE  LET q == runtimes'[r].queue[k] IN
         /\ r \in 1 .. Len(runtimes)
         /\ \/ k \in 1 .. Len(runtimes[r].queue) /\ q = runtimes[r].queue[k]
            \/ /\ q.call = c /\ q.op = new.at /\ q.op # "releaseAll" /\ new.reply = "none" /\ new.rt = r
               /\ q.handles = {placements[n].handle : n \in Names(new, new.at)}
<1>1. DataTyped /\ runtimes \in Seq(RuntimeType) /\ RunTurn(c, new, P)
  BY DEF EngineInv, DataTyped, RuntimesTyped, Turn
<1>2. CASE runtimes' = runtimes
  BY <1>2
<1>3. CASE AsksFor(c, new)
  <2>1. PICK t \in 1 .. Len(runtimes), q \in Questions :
          /\ q.call = c /\ q.op = new.at /\ q.op # "releaseAll" /\ new.reply = "none" /\ new.rt = t
          /\ q.handles = {placements[n].handle : n \in Names(new, new.at)}
          /\ runtimes' = [runtimes EXCEPT ![t].queue = Append(@, q)]
    BY <1>3 DEF AsksFor
  <2> DEFINE v == runtimes[t].queue
             a == Append(v, q)
             x == [runtimes[t] EXCEPT !.queue = a]
  <2>2. runtimes[t] \in RuntimeType /\ v \in Seq(Questions)
    BY <1>1, QueueIs
  <2>3. runtimes' = [runtimes EXCEPT ![t] = x] /\ x.queue = a
    BY <2>1, <2>2 DEF RuntimeType
  <2> HIDE DEF x
  <2>4. Len(runtimes') = Len(runtimes) /\ runtimes'[t] = x /\ \A u \in 1 .. Len(runtimes) : u # t => runtimes'[u] = runtimes[u]
    BY <1>1, <2>3
  <2>5. CASE r = t
    <3> HIDE DEF v
    <3>1. Len(a) = Len(v) + 1 /\ Len(v) \in Nat /\ a[Len(v) + 1] = q /\ \A i \in 1 .. Len(v) : a[i] = v[i]
      BY ONLY <2>2, q \in Questions
    <3>2. k \in 1 .. Len(a) /\ runtimes'[r].queue[k] = a[k]
      BY <2>3, <2>4, <2>5
    <3> HIDE DEF a
    <3>3. CASE k \in 1 .. Len(v)
      BY <2>5, <3>1, <3>2, <3>3 DEF v
    <3>4. CASE k = Len(v) + 1
      BY <2>1, <2>5, <3>1, <3>2, <3>4
    <3> QED
      BY <3>1, <3>2, <3>3, <3>4
  <2>6. CASE r # t
    BY <2>4, <2>6
  <2> QED
    BY <2>5, <2>6
<1>4. CASE StartsFor(P)
  <2>1. PICK p \in Profile : runtimes' = Append(runtimes, NewRuntime(p, Seen(P).profiles[p].epoch))
    BY <1>4 DEF StartsFor
  <2> DEFINE x == NewRuntime(p, Seen(P).profiles[p].epoch)
  <2>2. Seen(P).profiles[p].epoch \in Nat
    BY <1>1, SeenIs DEF ProfileType
  <2>3. x \in RuntimeType /\ x.queue = <<>>
    BY <2>2, NewRuntimeIs DEF NewRuntime
  <2>4. runtimes' = Append(runtimes, x)
    BY <2>1
  <2> HIDE DEF x
  <2>5. /\ Len(runtimes') = Len(runtimes) + 1 /\ runtimes'[Len(runtimes) + 1] = x /\ Len(runtimes) \in Nat
        /\ \A u \in 1 .. Len(runtimes) : runtimes'[u] = runtimes[u]
    BY ONLY <1>1, <2>3, <2>4
  <2>6. r # Len(runtimes) + 1
    <3>1. ASSUME r = Len(runtimes) + 1
          PROVE  FALSE
      <4>1. runtimes'[r].queue = <<>>
        BY <2>3, <2>5, <3>1
      <4> QED
        BY <4>1
    <3> QED
      BY <3>1
  <2> QED
    BY <2>5, <2>6
<1> QED
  BY <1>1, <1>2, <1>3, <1>4 DEF RunTurn

LEMMA TurnNamed ==
  ASSUME EngineInv, OriginInv, NEW c \in Call, NEW new, NEW P, Turn(c, new, P), Fits(c)
  PROVE  OwnNamed'
<1>1. DataTyped /\ RunTurn(c, new, P) /\ PlaceTurn(c, new, P) /\ Free(c) /\ AskedOnce
      /\ calls' = [calls EXCEPT ![c] = new] /\ calls \in [Call -> CallType]
  BY CallIs DEF EngineInv, Turn
<1>2. /\ \A n \in 1 .. Len(placements) : placements'[n].origin = placements[n].origin
      /\ \A r \in 1 .. Len(runtimes) : runtimes'[r].kernel = runtimes[r].kernel
  BY <1>1, TurnRuntimes DEF PlaceTurn
<1> SUFFICES ASSUME NEW r \in 1 .. Len(runtimes'), NEW k \in 1 .. Len(runtimes'[r].queue),
                    runtimes'[r].queue[k].call \in Call,
                    OneLook(calls'[runtimes'[r].queue[k].call], runtimes'[r].queue[k].op),
                    NEW n \in Names(calls'[runtimes'[r].queue[k].call], runtimes'[r].queue[k].op)
             PROVE  placements'[n].origin = <<r, runtimes'[r].kernel.epoch>>
  BY DEF OwnNamed, Own, Names, First, OneLook
<1> DEFINE q == runtimes'[r].queue[k]
<1>3. /\ r \in 1 .. Len(runtimes)
      /\ \/ k \in 1 .. Len(runtimes[r].queue) /\ q = runtimes[r].queue[k]
         \/ q.call = c /\ q.op = new.at /\ q.op # "releaseAll" /\ new.reply = "none" /\ new.rt = r
  BY TurnAsked
<1>4. q.call \in Call /\ OneLook(calls'[q.call], q.op) /\ n \in Names(calls'[q.call], q.op)
  OBVIOUS
<1> HIDE DEF q
<1>5. n \in 1 .. Len(placements) /\ Own(n, r)
  <2>1. CASE k \in 1 .. Len(runtimes[r].queue) /\ q = runtimes[r].queue[k]
    <3>1. q.call # c
      BY <1>1, <1>3, <2>1, NotAsked
    <3>2. calls'[q.call] = calls[q.call]
      BY <1>1, <1>4, <3>1
    <3>3. Names(calls[q.call], q.op) \subseteq 1 .. Len(placements)
      BY <1>3, <1>4, <2>1, AskedNames
    <3> QED
      BY <1>3, <1>4, <2>1, <3>2, <3>3 DEF OriginInv, OwnNamed
  <2>2. CASE q.call = c /\ q.op = new.at /\ q.op # "releaseAll" /\ new.reply = "none" /\ new.rt = r
    <3>1. calls'[c] = new
      BY <1>1
    <3>2. q.op \in {"exportBREP", "op", "release"}
      BY <1>4 DEF Names
    <3>3. Aims(new, new.at, new.rt)
      BY <2>2, <3>1, <3>2 DEF Fits, Ops
    <3> QED
      BY <1>4, <2>2, <3>1, <3>2, <3>3 DEF Aims
  <2> QED
    BY <1>3, <2>1, <2>2
<1> QED
  BY <1>2, <1>3, <1>5 DEF Own

LEMMA TurnOrigins ==
  ASSUME EngineInv, OriginInv, NEW c \in Call, NEW new, NEW P, Turn(c, new, P), Fits(c)
  PROVE  OriginInv'
<1>1. DataTyped /\ StartsOwn /\ RunTurn(c, new, P) /\ PlaceTurn(c, new, P) /\ phase' = phase
      /\ calls' = [calls EXCEPT ![c] = new]
  BY DEF EngineInv, OriginInv, Turn
<1>2. OriginsTold' /\ StartsOwn' /\ OwnNamed'
  BY <1>1, TurnTold, TurnStarts, TurnNamed
<1>3. /\ \A n \in 1 .. Len(placements) : placements'[n].profile = placements[n].profile
      /\ \A r \in 1 .. Len(runtimes) : runtimes'[r].profile = runtimes[r].profile /\ runtimes'[r].state = runtimes[r].state
  BY <1>1, TurnRuntimes DEF PlaceTurn
<1>4. ASSUME NEW d \in Call
      PROVE  Suits(calls[d])'
  <2>1. CASE d = c
    BY <2>1 DEF Fits
  <2>2. CASE d # c
    <3>1. calls'[d] = calls[d] /\ Suits(calls[d])
      BY <1>1, <2>2 DEF OriginInv
    <3> QED
      BY <1>1, <1>3, <3>1, SuitsStays
  <2> QED
    BY <2>1, <2>2
<1> QED
  BY <1>2, <1>4 DEF OriginInv

LEMMA CallOrigins ==
  ASSUME EngineInv, OriginInv, NEW c \in Call, Begin(c) \/ Continue(c)
  PROVE  OriginInv'
<1>1. PICK new, P : Turn(c, new, P)
  BY CallTurn
<1>2. Fits(c)
  BY BeginFits, ContinueFits
<1> QED
  BY <1>1, <1>2, TurnOrigins

-----------------------------------------------------------------------------
(* Runtimes keep whose shapes the calls name.                              *)

\* y is what became of the runtime x: what waits for it waited for it, and its kernel is the
\* same, unless only close() waits.
NoNews(x, y) ==
  /\ y.profile = x.profile /\ Onward(x, y)
  /\ \A i \in 1 .. Len(y.queue) :
       \/ y.queue[i].call = Nobody
       \/ /\ y.kernel.epoch = x.kernel.epoch
          /\ \E j \in 1 .. Len(x.queue) : y.queue[i] = x.queue[j]

LEMMA ShrunkNews ==
  ASSUME NEW x, NEW y, NEW C, Shrunk(x, y, C), y.queue # <<>> => y.kernel.epoch = x.kernel.epoch,
         Onward(x, y)
  PROVE  NoNews(x, y)
<1>1. CASE y.queue = <<>>
  <2>1. \A i \in 1 .. Len(<<>>) : FALSE
    OBVIOUS
  <2> QED
    BY <1>1, <2>1 DEF NoNews, Shrunk
<1>2. CASE y.queue # <<>>
  BY <1>2 DEF NoNews, Shrunk
<1> QED
  BY <1>1, <1>2

LEMMA NewsNamed ==
  ASSUME EngineInv, OwnNamed, Len(runtimes') = Len(runtimes),
         \A r \in 1 .. Len(runtimes) : NoNews(runtimes[r], runtimes'[r]),
         \A n \in 1 .. Len(placements) : placements'[n].origin = placements[n].origin,
         \A c \in Call : Same(calls[c], calls'[c])
  PROVE  OwnNamed'
<1> SUFFICES ASSUME NEW r \in 1 .. Len(runtimes'), NEW k \in 1 .. Len(runtimes'[r].queue),
                    runtimes'[r].queue[k].call \in Call,
                    OneLook(calls'[runtimes'[r].queue[k].call], runtimes'[r].queue[k].op),
                    NEW n \in Names(calls'[runtimes'[r].queue[k].call], runtimes'[r].queue[k].op)
             PROVE  placements'[n].origin = <<r, runtimes'[r].kernel.epoch>>
  BY DEF OwnNamed, Own, Names, First, OneLook
<1> DEFINE q == runtimes'[r].queue[k]
<1>1. q.call \in Call /\ q.call # Nobody /\ OneLook(calls'[q.call], q.op) /\ n \in Names(calls'[q.call], q.op)
  BY NobodyAssumption
<1>2. r \in 1 .. Len(runtimes) /\ NoNews(runtimes[r], runtimes'[r])
  OBVIOUS
<1>3. PICK j \in 1 .. Len(runtimes[r].queue) : q = runtimes[r].queue[j]
  BY <1>1, <1>2 DEF NoNews
<1>4. runtimes'[r].kernel.epoch = runtimes[r].kernel.epoch
  BY <1>1, <1>2 DEF NoNews
<1> HIDE DEF q
<1>5. Names(calls'[q.call], q.op) = Names(calls[q.call], q.op) /\ OneLook(calls[q.call], q.op)
  <2>1. Same(calls[q.call], calls'[q.call])
    BY <1>1
  <2> QED
    BY <1>1, <2>1 DEF Same, Names, First, OneLook
<1>6. n \in 1 .. Len(placements)
  BY <1>1, <1>2, <1>3, <1>5, AskedNames
<1>7. Own(n, r)
  BY <1>1, <1>2, <1>3, <1>5 DEF OwnNamed
<1> QED
  BY <1>4, <1>6, <1>7 DEF Own

\* Whatever a call waits for, it suits once it was told.
LEMMA HeardSuits ==
  ASSUME EngineInv, NEW d \in Call, Suits(calls[d]), calls[d].at # "cloned", Same(calls[d], calls'[d]),
         calls'[d].at = calls[d].at, calls'[d].next = calls[d].next, calls'[d].rt = calls[d].rt,
         \A r \in 1 .. Len(runtimes) : runtimes'[r].profile = runtimes[r].profile,
         calls'[d].at \in Makes /\ calls'[d].reply = "ok" => runtimes'[calls'[d].rt].state = "up"
  PROVE  Suits(calls[d])'
<1> DEFINE x == calls[d]
           y == calls'[d]
<1>1. /\ ReplyOK(x) /\ Points(x, Len(placements), Len(runtimes), Len(logical)) /\ DataTyped
  BY CallIs
<1>2. Stage(x) \in Makes \cup {"beginScope"} => x.rt \in 1 .. Len(runtimes)
  <2>1. x.rt \in 0 .. Len(runtimes) /\ Len(runtimes) \in Nat
    BY <1>1, Lens DEF Points
  <2>2. Stage(x) \in Makes \cup {"beginScope"} => x.rt # 0
    BY <1>1 DEF ReplyOK, Stage, Makes, Ops
  <2> QED
    BY <2>1, <2>2
<1>3. /\ Suits(x) /\ Same(x, y) /\ x.at # "cloned" /\ y.at = x.at /\ y.next = x.next /\ y.rt = x.rt
      /\ y.at \in Makes /\ y.reply = "ok" => runtimes'[y.rt].state = "up"
  OBVIOUS
<1> HIDE DEF x, y
<1>4. Stage(y) = Stage(x) /\ y.target = x.target /\ y.held = x.held
  BY <1>3 DEF Stage, Same
<1>5. Poised(y, Stage(y))
  BY <1>3, <1>4, SamePoised DEF Suits
<1>6. Stage(y) \in Makes \cup {"beginScope"} => runtimes'[y.rt].profile = y.target
  BY <1>2, <1>3, <1>4 DEF Suits
<1>7. y.at = "start" => y.next \notin {"exportBREP", "release"} /\ (y.next = "op" => y.held = <<>>)
  BY <1>3, <1>4 DEF Suits
<1> QED
  BY <1>3, <1>5, <1>6, <1>7 DEF Suits, y

LEMMA NewsTold ==
  ASSUME DataTyped, OriginsTold, Len(placements') = Len(placements),
         \A n \in 1 .. Len(placements) :
           /\ placements'[n].profile = placements[n].profile /\ placements'[n].epoch = placements[n].epoch
           /\ placements'[n].origin = placements[n].origin,
         \A p \in Profile :
           \/ profiles'[p].epoch = profiles[p].epoch + 1
           \/ /\ profiles'[p].epoch = profiles[p].epoch
              /\ profiles[p].runtime # 0 => /\ profiles'[p].runtime = profiles[p].runtime
                                            /\ profiles'[p].runtimeEpoch = profiles[p].runtimeEpoch
  PROVE  OriginsTold'
<1> SUFFICES ASSUME NEW n \in 1 .. Len(placements')
             PROVE  LET x == placements'[n]
                        own == profiles'[x.profile]
                    IN /\ x.epoch <= own.epoch
                       /\ x.epoch = own.epoch => own.runtime # 0 /\ x.origin = <<own.runtime, own.runtimeEpoch>>
  BY DEF OriginsTold
<1> DEFINE x == placements[n]
           p == x.profile
           own == profiles[p]
           new == profiles'[p]
<1>1. n \in 1 .. Len(placements)
  OBVIOUS
<1>2. x \in PlacementType
  BY <1>1, Lens
<1>3. p \in Profile /\ x.epoch \in Nat
  BY ONLY <1>2 DEF PlacementType
<1>4. own.epoch \in Nat
  BY <1>3, RuntimeIs DEF ProfileType
<1>5. x.epoch <= own.epoch /\ (x.epoch = own.epoch => own.runtime # 0 /\ x.origin = <<own.runtime, own.runtimeEpoch>>)
  BY <1>1 DEF OriginsTold
<1>6. \/ new.epoch = own.epoch + 1
      \/ /\ new.epoch = own.epoch
         /\ own.runtime # 0 => new.runtime = own.runtime /\ new.runtimeEpoch = own.runtimeEpoch
  BY <1>3
<1>7. placements'[n].profile = p /\ placements'[n].epoch = x.epoch /\ placements'[n].origin = x.origin
  BY <1>1
<1>8. x.epoch <= new.epoch /\ (x.epoch = new.epoch => new.runtime # 0 /\ x.origin = <<new.runtime, new.runtimeEpoch>>)
  <2> HIDE DEF x, own, new
  <2> QED
    BY ONLY <1>3, <1>4, <1>5, <1>6
<1> QED
  BY <1>7, <1>8

LEMMA HeardIs ==
  ASSUME EngineInv, Quiet, NEW C, NEW reply, NEW value, calls' = Replied(C, reply, value), NEW d \in Call
  PROVE  /\ Same(calls[d], calls'[d]) /\ calls[d].at # "cloned" /\ calls'[d].at = calls[d].at
         /\ calls'[d].next = calls[d].next /\ calls'[d].rt = calls[d].rt
         /\ d \notin C => calls'[d].reply = "none"
         /\ d \in C => calls'[d].reply = reply
<1> DEFINE x == calls[d]
<1>1. x \in CallType /\ ReplyOK(x) /\ x.reply = "none"
  BY CallIs DEF Quiet
<1>2. calls'[d] = IF d \in C THEN [x EXCEPT !.reply = reply, !.value = value] ELSE x
  BY DEF Replied
<1>3. x.at # "cloned"
  BY <1>1 DEF ReplyOK
<1> HIDE DEF x
<1>4. CASE d \in C
  <2> DEFINE y == [x EXCEPT !.reply = reply, !.value = value]
  <2>1. /\ Same(x, y) /\ y.at = x.at /\ y.next = x.next /\ y.rt = x.rt /\ y.reply = reply
    BY ONLY <1>1 DEF CallType, Same
  <2> HIDE DEF y
  <2> QED
    BY <1>2, <1>3, <1>4, <2>1 DEF x, y
<1>5. CASE d \notin C
  BY <1>1, <1>2, <1>3, <1>5 DEF x, Same
<1> QED
  BY <1>4, <1>5

\* A step of the runtimes in which calls get a reply.  Who is told of shapes is told alone, of
\* those that were made now.
MadeNow(d, C, value) ==
  LET r == calls[d].rt IN
  /\ C = {d} /\ r \in 1 .. Len(runtimes) /\ runtimes[r].state = "up" /\ runtimes'[r].state = "up"
  /\ runtimes'[r].kernel.epoch = runtimes[r].kernel.epoch
  /\ \A i \in 1 .. Len(value) :
       value[i] = runtimes[r].kernel.issued + i /\ value[i] <= runtimes'[r].kernel.issued
News(C, reply, value) ==
  /\ Quiet /\ calls' = Replied(C, reply, value)
  /\ \A d \in C \cap Call : reply = "ok" /\ calls[d].at \in Makes => MadeNow(d, C, value)
  /\ Len(runtimes') = Len(runtimes) /\ Len(placements') = Len(placements)
  /\ \A r \in 1 .. Len(runtimes) : NoNews(runtimes[r], runtimes'[r])
  /\ \A n \in 1 .. Len(placements) :
       /\ placements'[n].profile = placements[n].profile /\ placements'[n].epoch = placements[n].epoch
       /\ placements'[n].origin = placements[n].origin /\ placements'[n].handle = placements[n].handle
  /\ \A p \in Profile :
       /\ \/ profiles'[p].epoch = profiles[p].epoch + 1
          \/ /\ profiles'[p].epoch = profiles[p].epoch
             /\ profiles[p].runtime # 0 => /\ profiles'[p].runtime = profiles[p].runtime
                                           /\ profiles'[p].runtimeEpoch = profiles[p].runtimeEpoch
       /\ profiles'[p].starting \in {0, profiles[p].starting}
SomeNews == \E C, reply, value : News(C, reply, value)

LEMMA NewsOrigins ==
  ASSUME EngineInv, OriginInv, NEW C, NEW reply, NEW value, News(C, reply, value)
  PROVE  OriginInv'
<1>0. /\ Quiet /\ calls' = Replied(C, reply, value)
      /\ \A d \in C \cap Call : reply = "ok" /\ calls[d].at \in Makes => runtimes'[calls[d].rt].state = "up"
      /\ Len(runtimes') = Len(runtimes) /\ Len(placements') = Len(placements)
      /\ \A r \in 1 .. Len(runtimes) : NoNews(runtimes[r], runtimes'[r])
      /\ \A n \in 1 .. Len(placements) :
           /\ placements'[n].profile = placements[n].profile /\ placements'[n].epoch = placements[n].epoch
           /\ placements'[n].origin = placements[n].origin
      /\ \A p \in Profile :
           /\ \/ profiles'[p].epoch = profiles[p].epoch + 1
              \/ /\ profiles'[p].epoch = profiles[p].epoch
                 /\ profiles[p].runtime # 0 => /\ profiles'[p].runtime = profiles[p].runtime
                                               /\ profiles'[p].runtimeEpoch = profiles[p].runtimeEpoch
           /\ profiles'[p].starting \in {0, profiles[p].starting}
  BY DEF News, MadeNow
<1>1. DataTyped /\ OriginsTold /\ StartsOwn /\ OwnNamed /\ \A d \in Call : Suits(calls[d])
  BY DEF EngineInv, OriginInv
<1>2. OriginsTold'
  BY <1>0, <1>1, NewsTold
<1>3. OwnNamed'
  <2>1. \A c \in Call : Same(calls[c], calls'[c])
    BY <1>0, HeardIs
  <2> QED
    BY <1>0, <1>1, <2>1, NewsNamed
<1>4. \A r \in 1 .. Len(runtimes) : runtimes'[r].profile = runtimes[r].profile
  BY <1>0 DEF NoNews
<1>5. StartsOwn'
  <2>1. \A p \in Profile : profiles[p].starting \in 0 .. Len(runtimes) /\ Len(runtimes) \in Nat
    BY <1>1, Lens DEF DataTyped, ProfilesTyped
  <2> QED
    BY <1>0, <1>1, <1>4, <2>1 DEF StartsOwn
<1>6. ASSUME NEW d \in Call
      PROVE  Suits(calls[d])'
  <2>1. /\ Same(calls[d], calls'[d]) /\ calls[d].at # "cloned" /\ calls'[d].at = calls[d].at
        /\ calls'[d].next = calls[d].next /\ calls'[d].rt = calls[d].rt
        /\ d \notin C => calls'[d].reply = "none"
        /\ d \in C => calls'[d].reply = reply
    BY <1>0, HeardIs
  <2>2. calls'[d].at \in Makes /\ calls'[d].reply = "ok" => runtimes'[calls'[d].rt].state = "up"
    BY <1>0, <2>1
  <2> QED
    BY <1>1, <1>4, <2>1, <2>2, HeardSuits
<1> QED
  BY <1>2, <1>3, <1>5, <1>6 DEF OriginInv

LEMMA SameNews ==
  ASSUME DataTyped, NEW k \in 1 .. Len(runtimes)
  PROVE  NoNews(runtimes[k], runtimes[k])
<1>1. runtimes[k].kernel.epoch \in Nat /\ runtimes[k].kernel.issued \in Nat
  BY QueueIs DEF Kernels
<1> QED
  BY <1>1 DEF NoNews, Onward

LEMMA OneNews ==
  ASSUME DataTyped, NEW r \in 1 .. Len(runtimes), NEW x \in RuntimeType, runtimes' = [runtimes EXCEPT ![r] = x],
         NoNews(runtimes[r], x)
  PROVE  /\ Len(runtimes') = Len(runtimes) /\ runtimes'[r] = x
         /\ \A k \in 1 .. Len(runtimes) : NoNews(runtimes[k], runtimes'[k])
<1>1. /\ Len(runtimes') = Len(runtimes) /\ runtimes'[r] = x
      /\ \A k \in 1 .. Len(runtimes) : k # r => runtimes'[k] = runtimes[k]
  BY ReplacedIs
<1>2. \A k \in 1 .. Len(runtimes) : NoNews(runtimes[k], runtimes[k])
  BY SameNews
<1> QED
  BY <1>1, <1>2

LEMMA GoneNews ==
  ASSUME DataTyped, NEW r, NEW x, Gone(r, x)
  PROVE  x \in RuntimeType /\ NoNews(runtimes[r], x)
<1>1. \A i \in 1 .. Len(<<>>) : FALSE
  OBVIOUS
<1> QED
  BY <1>1 DEF Gone, NoNews

\* What it makes has handles it never issued.
LEMMA OutcomeIssues ==
  ASSUME NEW k \in Kernels, NEW q \in Questions, NEW o \in Outcomes(k, q)
  PROVE  /\ o.kernel.epoch = k.epoch /\ k.issued <= o.kernel.issued
         /\ q.op \in Makes => \A i \in 1 .. Len(o.value) : o.value[i] = k.issued + i /\ o.value[i] <= o.kernel.issued
<1> DEFINE same(l) == l.epoch = k.epoch /\ l.issued = k.issued
<1>0. k.epoch \in Nat /\ k.issued \in Nat
  BY DEF Kernels
<1>2. same(k)
  OBVIOUS
<1>3. CASE q.op \in {"make", "importBREP", "op"}
  <2>1. PICK m \in IF q.op = "op" THEN 0 .. MaxOutputs ELSE {1} :
          o = [kernel |-> [k EXCEPT !.issued = @ + m, !.shapes = @ \cup (NewHandles(k, m) \X {q.scope})],
               value |-> [i \in 1 .. m |-> k.issued + i]]
    BY <1>3 DEF Outcomes
  <2>2. m \in Nat
    BY <2>1, EngineAssumption
  <2> DEFINE l == [k EXCEPT !.issued = k.issued + m, !.shapes = k.shapes \cup (NewHandles(k, m) \X {q.scope})]
             v == [i \in 1 .. m |-> k.issued + i]
  <2>3. o.kernel = l /\ o.value = v
    BY <2>1 DEF Kernels
  <2>4. l.epoch = k.epoch /\ l.issued = k.issued + m
    BY DEF Kernels
  <2>5. Len(v) = m /\ \A i \in 1 .. m : v[i] = k.issued + i
    BY <1>0, <2>2
  <2> HIDE DEF l, v
  <2> QED
    BY <1>0, <2>2, <2>3, <2>4, <2>5
<1>4. CASE q.op \notin {"make", "importBREP", "op"}
  <2> HIDE DEF same
  <2>1. ASSUME q.op = "beginScope"
        PROVE  same(o.kernel)
    <3>1. o.kernel = [k EXCEPT !.begun = k.begun + 1, !.scopes = k.scopes \cup {k.begun + 1}]
      BY <2>1 DEF Outcomes, Kernels
    <3> QED
      BY <3>1 DEF same, Kernels
  <2>2. ASSUME q.op = "release"
        PROVE  same(o.kernel)
    <3>1. o.kernel = [k EXCEPT !.shapes = {y \in k.shapes : y[1] \notin q.handles}]
      BY <2>2 DEF Outcomes, Kernels
    <3> QED
      BY <3>1 DEF same, Kernels
  <2>3. ASSUME q.op = "endScope"
        PROVE  same(o.kernel)
    <3>1. o.kernel = [k EXCEPT !.scopes = k.scopes \ {q.scope}, !.shapes = {y \in k.shapes : y[2] # q.scope}]
      BY <2>3 DEF Outcomes, Kernels
    <3> QED
      BY <3>1 DEF same, Kernels
  <2>4. ASSUME q.op \notin {"beginScope", "release", "endScope"}
        PROVE  same(o.kernel)
    <3>1. o = [kernel |-> k, value |-> <<>>]
      BY <1>4, <2>4 DEF Outcomes
    <3> QED
      BY <1>2, <3>1
  <2>5. same(o.kernel)
    BY <2>1, <2>2, <2>3, <2>4
  <2>6. o.kernel.epoch = k.epoch /\ o.kernel.issued = k.issued
    BY <2>5 DEF same
  <2>7. q.op \notin Makes
    BY <1>4 DEF Makes
  <2> QED
    BY <1>0, <2>6, <2>7
<1> QED
  BY <1>3, <1>4

LEMMA PoppedNews ==
  ASSUME EngineInv, Quiet, NEW r \in 1 .. Len(runtimes), runtimes[r].queue # <<>>,
         Head(runtimes[r].queue).op # "releaseAll", NEW k \in Kernels, k.epoch = runtimes[r].kernel.epoch,
         runtimes[r].kernel.issued <= k.issued, NEW reply, NEW value,
         reply = "ok" /\ Head(runtimes[r].queue).op \in Makes
           => \A i \in 1 .. Len(value) : value[i] = runtimes[r].kernel.issued + i /\ value[i] <= k.issued,
         runtimes' = [runtimes EXCEPT ![r] = Popped(r, k)],
         calls' = Replied({Head(runtimes[r].queue).call}, reply, value),
         UNCHANGED <<profiles, placements>>
  PROVE  SomeNews
<1> DEFINE x == Popped(r, k)
           q == Head(runtimes[r].queue)
           C == {q.call}
<1>1. q \in Questions /\ AskedBy(r, q) /\ q.op # "releaseAll" /\ DataTyped
  BY NobodyLeaves DEF EngineInv
<1> HIDE DEF q
<1>2. q.call # Nobody /\ q.call \in Call /\ calls[q.call].rt = r /\ calls[q.call].at = q.op
  BY <1>1 DEF Questions, AskedBy
<1>3. x.state = "up" /\ Shrunk(runtimes[r], x, C)
  BY <1>2, PoppedIs DEF q
<1>4. x.kernel = k /\ runtimes[r].state = "up" /\ runtimes[r].kernel.epoch \in Nat
  <2>1. runtimes[r] \in RuntimeType
    BY <1>1, QueueIs
  <2>2. x.kernel = k /\ x.state = runtimes[r].state
    BY <2>1 DEF Popped, RuntimeType
  <2> HIDE DEF x
  <2> QED
    BY <1>3, <2>1, <2>2 DEF RuntimeType, Kernels
<1>5. runtimes' = [runtimes EXCEPT ![r] = x] /\ calls' = Replied(C, reply, value)
  BY DEF q
<1> HIDE DEF x
<1>6. x \in RuntimeType /\ NoNews(runtimes[r], x)
  <2>1. Onward(runtimes[r], x)
    BY <1>3, <1>4 DEF Onward
  <2> QED
    BY <1>3, <1>4, <2>1, ShrunkNews DEF Shrunk
<1>7. /\ Len(runtimes') = Len(runtimes) /\ runtimes'[r] = x
      /\ \A i \in 1 .. Len(runtimes) : NoNews(runtimes[i], runtimes'[i])
  BY <1>1, <1>5, <1>6, OneNews
<1>8. \A d \in C \cap Call : reply = "ok" /\ calls[d].at \in Makes => MadeNow(d, C, value)
  <2>1. reply = "ok" /\ q.op \in Makes
          => \A i \in 1 .. Len(value) : value[i] = runtimes[r].kernel.issued + i /\ value[i] <= k.issued
    BY DEF q
  <2> QED
    BY <1>2, <1>3, <1>4, <1>7, <2>1 DEF MadeNow
<1>9. profiles' = profiles /\ placements' = placements
  OBVIOUS
<1> HIDE DEF C
<1> QED
  BY <1>5, <1>7, <1>8, <1>9 DEF News, SomeNews

\* A runtime whose queue is gone, with everyone who waited for it.
LEMMA LeaverNews ==
  ASSUME EngineInv, Quiet, NEW r \in 1 .. Len(runtimes), NEW x, Gone(r, x),
         runtimes' = [runtimes EXCEPT ![r] = x], NEW C, calls' = Replied(C, "error", <<>>),
         UNCHANGED <<profiles, placements>>
  PROVE  SomeNews
<1>1. DataTyped
  BY DEF EngineInv
<1>2. x \in RuntimeType /\ NoNews(runtimes[r], x)
  BY <1>1, GoneNews
<1>3. Len(runtimes') = Len(runtimes) /\ \A i \in 1 .. Len(runtimes) : NoNews(runtimes[i], runtimes'[i])
  BY <1>1, <1>2, OneNews
<1> QED
  BY <1>3 DEF News, SomeNews

LEMMA AnswerNews ==
  ASSUME EngineInv, NEW r \in DOMAIN runtimes, Answer(r)
  PROVE  SomeNews
<1> DEFINE q == Head(runtimes[r].queue)
           k == runtimes[r].kernel
<1>1. /\ runtimes[r].queue # <<>> /\ DataTyped /\ r \in 1 .. Len(runtimes) /\ Quiet
      /\ UNCHANGED <<profiles, placements>>
  <2>1. DataTyped
    BY DEF EngineInv
  <2> QED
    BY <2>1, Lens DEF Answer, engineVars
<1>2. q \in Questions /\ k \in Kernels /\ runtimes[r] \in RuntimeType
  BY <1>1, NobodyLeaves, QueueIs
<1>3. CASE /\ q.op = "releaseAll"
           /\ runtimes' = Closed(r)
           /\ calls' = Replied(Waiting(r) \cap Call, "error", <<>>)
  <2>1. PICK x : Gone(r, x) /\ x.state = "closed" /\ Closed(r) = [runtimes EXCEPT ![r] = x]
    BY <1>1, ClosedIs
  <2> QED
    BY <1>1, <1>3, <2>1, LeaverNews
<1>4. CASE /\ q.op # "releaseAll"
           /\ runtimes' = [runtimes EXCEPT ![r].queue = Tail(@)]
           /\ calls' = Replied({q.call}, "error", <<>>)
  <2>1. runtimes' = [runtimes EXCEPT ![r] = Popped(r, k)]
    BY <1>1, <1>2, <1>4 DEF Popped, RuntimeType
  <2>2. k.epoch = runtimes[r].kernel.epoch /\ runtimes[r].kernel.issued <= k.issued
    BY <1>2 DEF Kernels
  <2> HIDE DEF k
  <2> QED
    BY <1>1, <1>2, <1>4, <2>1, <2>2, PoppedNews
<1>5. CASE /\ q.op # "releaseAll"
           /\ \E o \in Outcomes(k, q) :
                /\ runtimes' = [[runtimes EXCEPT ![r].queue = Tail(@)] EXCEPT ![r].kernel = o.kernel]
                /\ calls' = Replied({q.call}, "ok", o.value)
  <2>1. PICK o \in Outcomes(k, q) :
          /\ runtimes' = [[runtimes EXCEPT ![r].queue = Tail(@)] EXCEPT ![r].kernel = o.kernel]
          /\ calls' = Replied({q.call}, "ok", o.value)
    BY <1>5
  <2>2. /\ o.kernel \in Kernels /\ o.kernel.epoch = k.epoch /\ k.issued <= o.kernel.issued
        /\ q.op \in Makes => \A i \in 1 .. Len(o.value) : o.value[i] = k.issued + i /\ o.value[i] <= o.kernel.issued
    BY <1>2, OutcomeIs, OutcomeIssues
  <2> DEFINE l == o.kernel
             v == o.value
  <2>3. /\ l \in Kernels /\ l.epoch = runtimes[r].kernel.epoch /\ calls' = Replied({q.call}, "ok", v)
        /\ runtimes[r].kernel.issued <= l.issued
        /\ q.op \in Makes => \A i \in 1 .. Len(v) : v[i] = runtimes[r].kernel.issued + i /\ v[i] <= l.issued
    BY <2>1, <2>2
  <2>4. runtimes' = [[runtimes EXCEPT ![r].queue = Tail(@)] EXCEPT ![r].kernel = l]
    BY <2>1
  <2> HIDE DEF l, v, k
  <2>5. runtimes' = [runtimes EXCEPT ![r] = Popped(r, l)]
    BY <1>1, <1>2, <2>4 DEF Popped, RuntimeType
  <2> QED
    BY <1>1, <1>2, <1>5, <2>3, <2>5, PoppedNews
<1> QED
  BY <1>3, <1>4, <1>5 DEF Answer

LEMMA RebuildNews ==
  ASSUME EngineInv, NEW r \in DOMAIN runtimes, Rebuild(r)
  PROVE  SomeNews
<1>1. /\ DataTyped /\ r \in 1 .. Len(runtimes) /\ Quiet
      /\ calls' = Replied(Waiting(r) \cap Call, "error", <<>>)
      /\ UNCHANGED <<profiles, placements>>
      /\ runtimes' \in {Closed(r), Rebuilt(r)}
  <2>1. DataTyped
    BY DEF EngineInv
  <2> QED
    BY <2>1, Lens DEF Rebuild
<1>2. \E x : Gone(r, x) /\ runtimes' = [runtimes EXCEPT ![r] = x]
  BY <1>1, ClosedIs, RebuiltIs
<1> QED
  BY <1>1, <1>2, LeaverNews

LEMMA NobodyHeard ==
  ASSUME EngineInv, calls' = calls
  PROVE  calls' = Replied({}, "error", <<>>)
BY CallIs DEF Replied, EngineInv, CallsTyped

LEMMA StartedNews ==
  ASSUME EngineInv, NEW r \in DOMAIN runtimes, Started(r)
  PROVE  SomeNews
<1> DEFINE p == runtimes[r].profile
           own == profiles[p]
           done == IF own.starting = r THEN [own EXCEPT !.starting = 0] ELSE own
           C == StartersOf(r)
<1>1. DataTyped /\ AllWanted /\ AskedOnce /\ Quiet /\ r \in 1 .. Len(runtimes)
  <2>1. DataTyped /\ AllWanted /\ AskedOnce
    BY DEF EngineInv
  <2> QED
    BY <2>1, Lens DEF Started
<1>2. /\ runtimes[r] \in RuntimeType /\ p \in Profile /\ own \in ProfileType /\ profiles \in [Profile -> ProfileType]
      /\ runtimes[r].state = "starting" /\ runtimes[r].queue = <<>> /\ placements' = placements
  BY <1>1, QueueIs, RuntimeIs DEF AskedOnce, Started, DataTyped, ProfilesTyped
<1>3. /\ done \in ProfileType /\ done.epoch = own.epoch /\ done.runtime = own.runtime
      /\ done.runtimeEpoch = own.runtimeEpoch /\ done.starting \in {0, own.starting}
  <2> HIDE DEF own
  <2> QED
    BY <1>2 DEF ProfileType
<1>4. PICK x, mine, reply :
        /\ Gone(r, x) /\ runtimes' = [runtimes EXCEPT ![r] = x] /\ calls' = Replied(C, reply, <<>>)
        /\ profiles' = [profiles EXCEPT ![p] = mine] /\ mine.epoch = own.epoch
        /\ mine.starting \in {0, own.starting}
        /\ own.runtime # 0 => mine.runtime = own.runtime /\ mine.runtimeEpoch = own.runtimeEpoch
  <2>1. CASE /\ StillWanted(r)
             /\ runtimes' = [runtimes EXCEPT ![r].state = "up"]
             /\ profiles' = [profiles EXCEPT ![p] =
                  [done EXCEPT !.runtime = r, !.runtimeEpoch = runtimes[r].kernel.epoch]]
             /\ calls' = Replied(C, "ok", <<>>)
    <3> DEFINE x == [runtimes[r] EXCEPT !.state = "up"]
               e == runtimes[r].kernel.epoch
               mine == [done EXCEPT !.runtime = r, !.runtimeEpoch = e]
    <3>1. Gone(r, x)
      <4>1. /\ x \in RuntimeType /\ x.profile = runtimes[r].profile /\ x.since = runtimes[r].since
            /\ x.queue = <<>> /\ x.kernel = runtimes[r].kernel /\ runtimes[r].kernel.epoch \in Nat
        BY <1>2 DEF RuntimeType, Kernels
      <4> HIDE DEF x
      <4> QED
        BY <1>2, <4>1 DEF Gone, Onward
    <3>2. own.runtime = 0
      BY <1>1, <1>2, <2>1 DEF AllWanted, Wanted, StillWanted
    <3>3. runtimes' = [runtimes EXCEPT ![r] = x] /\ profiles' = [profiles EXCEPT ![p] = mine]
      BY <2>1
    <3> HIDE DEF x, e, done
    <3>4. mine.epoch = done.epoch /\ mine.starting = done.starting
      BY <1>3 DEF ProfileType
    <3> HIDE DEF mine
    <3> QED
      BY <1>3, <2>1, <3>1, <3>2, <3>3, <3>4
  <2>2. CASE /\ runtimes' = Closed(r)
             /\ profiles' = [profiles EXCEPT ![p] = done]
             /\ calls' = Replied(C, "error", <<>>)
    <3>1. PICK x : Gone(r, x) /\ x.state = "closed" /\ Closed(r) = [runtimes EXCEPT ![r] = x]
      BY <1>1, ClosedIs
    <3> HIDE DEF done
    <3> QED
      BY <1>3, <2>2, <3>1
  <2> QED
    BY <2>1, <2>2 DEF Started, StartersOf
<1>5. x \in RuntimeType /\ NoNews(runtimes[r], x)
  BY <1>1, <1>4, GoneNews
<1>6. Len(runtimes') = Len(runtimes) /\ \A i \in 1 .. Len(runtimes) : NoNews(runtimes[i], runtimes'[i])
  BY <1>1, <1>4, <1>5, OneNews
<1>7. \A d \in C \cap Call : reply = "ok" /\ calls[d].at \in Makes => MadeNow(d, C, <<>>)
  BY DEF StartersOf, Makes
<1>8. \A t \in Profile :
        /\ \/ profiles'[t].epoch = profiles[t].epoch + 1
           \/ /\ profiles'[t].epoch = profiles[t].epoch
              /\ profiles[t].runtime # 0 => /\ profiles'[t].runtime = profiles[t].runtime
                                            /\ profiles'[t].runtimeEpoch = profiles[t].runtimeEpoch
        /\ profiles'[t].starting \in {0, profiles[t].starting}
  BY <1>2, <1>4
<1> HIDE DEF C, p, own
<1> QED
  BY ONLY <1>1, <1>2, <1>4, <1>6, <1>7, <1>8 DEF News, SomeNews

LEMMA InvalidateNews ==
  ASSUME EngineInv, NEW p \in Profile, InvalidateProfileEpoch(p)
  PROVE  SomeNews
<1> DEFINE r == profiles[p].runtime
           none == [runtime |-> 0, runtimeEpoch |-> 0, starting |-> 0, epoch |-> profiles[p].epoch + 1]
<1>1. DataTyped /\ Quiet
  BY DEF EngineInv, InvalidateProfileEpoch
<1>2. /\ profiles' = [profiles EXCEPT ![p] = none] /\ placements' = InvalidPlacements({p}, placements)
      /\ profiles \in [Profile -> ProfileType] /\ (r # 0 => r \in 1 .. Len(runtimes))
  BY <1>1, RuntimeIs DEF InvalidateProfileEpoch, DataTyped, ProfilesTyped
<1>3. /\ Len(placements') = Len(placements)
      /\ \A n \in 1 .. Len(placements) :
           /\ placements'[n].profile = placements[n].profile /\ placements'[n].epoch = placements[n].epoch
           /\ placements'[n].origin = placements[n].origin /\ placements'[n].handle = placements[n].handle
  <2>1. /\ placements \in Seq(PlacementType)
        /\ placements' = [n \in 1 .. Len(placements) |->
             IF placements[n].profile \in {p} /\ Kept(n) THEN [placements[n] EXCEPT !.state = "invalid"]
             ELSE placements[n]]
    BY <1>1, <1>2, Lens DEF InvalidPlacements, DataTyped, PlacementsTyped
  <2>2. ASSUME NEW n \in 1 .. Len(placements)
        PROVE  /\ placements'[n].profile = placements[n].profile /\ placements'[n].epoch = placements[n].epoch
               /\ placements'[n].origin = placements[n].origin /\ placements'[n].handle = placements[n].handle
    <3>1. placements[n] \in PlacementType
      BY <2>1
    <3>2. placements'[n] \in {placements[n], [placements[n] EXCEPT !.state = "invalid"]}
      BY <2>1
    <3> QED
      BY <3>1, <3>2 DEF PlacementType
  <2>3. Len(placements') = Len(placements)
    BY ONLY <2>1
  <2> QED
    BY <2>2, <2>3
<1>4. \A t \in Profile :
        /\ \/ profiles'[t].epoch = profiles[t].epoch + 1
           \/ /\ profiles'[t].epoch = profiles[t].epoch
              /\ profiles[t].runtime # 0 => /\ profiles'[t].runtime = profiles[t].runtime
                                            /\ profiles'[t].runtimeEpoch = profiles[t].runtimeEpoch
        /\ profiles'[t].starting \in {0, profiles[t].starting}
  BY <1>2
<1>5. PICK C : calls' = Replied(C, "error", <<>>)
  BY NobodyHeard, Zenon DEF InvalidateProfileEpoch
<1>6. Len(runtimes') = Len(runtimes) /\ \A i \in 1 .. Len(runtimes) : NoNews(runtimes[i], runtimes'[i])
  <2>1. CASE r # 0
    <3>1. PICK x : Gone(r, x) /\ x.state = "closed" /\ Closed(r) = [runtimes EXCEPT ![r] = x]
      BY <1>1, <1>2, <2>1, ClosedIs
    <3>2. runtimes' = [runtimes EXCEPT ![r] = x] /\ r \in 1 .. Len(runtimes)
      BY <1>2, <2>1, <3>1 DEF InvalidateProfileEpoch
    <3> HIDE DEF r
    <3>3. x \in RuntimeType /\ NoNews(runtimes[r], x)
      BY <1>1, <3>1, GoneNews
    <3> QED
      BY <1>1, <3>2, <3>3, OneNews
  <2>2. CASE r = 0
    <3>1. runtimes' = runtimes
      BY <2>2 DEF InvalidateProfileEpoch
    <3> QED
      BY <1>1, <3>1, SameNews
  <2> QED
    BY <2>1, <2>2
<1> QED
  BY ONLY <1>1, <1>3, <1>4, <1>5, <1>6 DEF News, SomeNews

LEMMA CloseNews ==
  ASSUME EngineInv, Close
  PROVE  SomeNews
<1> DEFINE up == {profiles[p].runtime : p \in Profile} \ {0}
<1>1. DataTyped /\ Quiet
  BY DEF EngineInv, Close
<1>2. /\ runtimes' = [k \in 1 .. Len(runtimes) |-> IF k \in up THEN AskedToLeave(runtimes[k]) ELSE runtimes[k]]
      /\ profiles' = [p \in Profile |->
           [runtime |-> 0, runtimeEpoch |-> 0, starting |-> 0, epoch |-> profiles[p].epoch + 1]]
      /\ placements' = placements /\ calls' = calls
  BY <1>1, Lens DEF Close, AskedToLeave
<1>3. ASSUME NEW k \in 1 .. Len(runtimes)
      PROVE  NoNews(runtimes[k], runtimes'[k])
  <2> DEFINE x == runtimes[k]
             y == AskedToLeave(x)
  <2>1. x \in RuntimeType /\ runtimes'[k] \in {x, y}
    BY <1>1, <1>2, QueueIs
  <2> HIDE DEF x
  <2>2. NoNews(x, x)
    BY <1>1, SameNews DEF x
  <2>3. NoNews(x, y)
    <3>1. /\ y.profile = x.profile /\ Len(x.queue) \in Nat /\ Len(y.queue) = Len(x.queue) + 1
          /\ \A i \in 1 .. Len(x.queue) : y.queue[i] = x.queue[i]
          /\ y.queue[Len(x.queue) + 1].call = Nobody
      BY <2>1, AskedToLeaveIs
    <3>2. y.kernel = x.kernel /\ y.state = x.state /\ x.kernel \in Kernels
      BY <2>1 DEF RuntimeType, AskedToLeave
    <3> HIDE DEF y
    <3>4. Onward(x, y)
      BY <3>2 DEF Onward, Kernels
    <3>3. ASSUME NEW i \in 1 .. Len(y.queue), i # Len(x.queue) + 1
          PROVE  i \in 1 .. Len(x.queue)
      BY <3>1, <3>3
    <3> QED
      BY <3>1, <3>2, <3>3, <3>4 DEF NoNews
  <2> QED
    BY <2>1, <2>2, <2>3 DEF x
<1>4. Len(runtimes') = Len(runtimes)
  BY <1>1, <1>2, Lens
<1>5. \A t \in Profile : profiles'[t].epoch = profiles[t].epoch + 1 /\ profiles'[t].starting = 0
  BY <1>2
<1>6. calls' = Replied({}, "error", <<>>)
  BY <1>2, NobodyHeard
<1>7. placements' = placements
  BY <1>2
<1> QED
  BY ONLY <1>1, <1>3, <1>4, <1>5, <1>6, <1>7 DEF News, SomeNews

LEMMA CloseEndsNews ==
  ASSUME EngineInv, CloseEnds
  PROVE  SomeNews
<1>1. Quiet /\ runtimes' = runtimes /\ profiles' = profiles /\ placements' = placements /\ calls' = calls
  BY DEF CloseEnds
<1>2. calls' = Replied({}, "error", <<>>)
  BY <1>1, NobodyHeard
<1>3. \A r \in 1 .. Len(runtimes) : NoNews(runtimes[r], runtimes'[r])
  BY <1>1, SameNews DEF EngineInv
<1> QED
  BY ONLY <1>1, <1>2, <1>3 DEF News, SomeNews

\* What is not a step of a call is news.
Else ==
  \/ \E r \in DOMAIN runtimes : Runtime(r) \/ Rebuild(r)
  \/ \E p \in Profile : InvalidateProfileEpoch(p)
  \/ Close \/ CloseEnds
LEMMA ElseNews ==
  ASSUME EngineInv, Else
  PROVE  SomeNews
<1>1. ASSUME NEW r \in DOMAIN runtimes, Runtime(r) \/ Rebuild(r)
      PROVE  SomeNews
  BY <1>1, StartedNews, AnswerNews, RebuildNews DEF Runtime
<1>2. ASSUME NEW p \in Profile, InvalidateProfileEpoch(p)
      PROVE  SomeNews
  BY <1>2, InvalidateNews
<1> QED
  BY <1>1, <1>2, CloseNews, CloseEndsNews DEF Else

LEMMA StutterOrigins ==
  ASSUME EngineInv, OriginInv, UNCHANGED vars
  PROVE  OriginInv'
<1>1. /\ UNCHANGED <<runtimes, profiles, placements, phase, calls>>
      /\ OriginsTold /\ StartsOwn /\ OwnNamed /\ \A c \in Call : Suits(calls[c])
  BY DEF vars, OriginInv
<1>2. OriginsTold' /\ StartsOwn'
  BY <1>1 DEF OriginsTold, StartsOwn
<1>3. OwnNamed'
  <2>1. \A r \in 1 .. Len(runtimes) : NoNews(runtimes[r], runtimes'[r])
    BY <1>1, SameNews DEF EngineInv
  <2>2. \A c \in Call : Same(calls[c], calls'[c])
    BY <1>1 DEF Same
  <2> QED
    BY <1>1, <2>1, <2>2, NewsNamed
<1>4. ASSUME NEW d \in Call
      PROVE  Suits(calls[d])'
  BY <1>1, SuitsStays
<1> QED
  BY <1>2, <1>3, <1>4 DEF OriginInv

LEMMA InitOrigins ==
  ASSUME Init
  PROVE  OriginInv
<1>1. /\ runtimes = <<>> /\ placements = <<>>
      /\ profiles = [p \in Profile |-> [runtime |-> 0, runtimeEpoch |-> 0, starting |-> 0, epoch |-> 1]]
      /\ calls = [c \in Call |-> Unbegun]
  BY DEF Init
<1>2. Len(runtimes) = 0 /\ Len(placements) = 0 /\ 1 .. 0 = {}
  BY <1>1
<1>3. OriginsTold /\ StartsOwn /\ OwnNamed
  BY <1>1, <1>2 DEF OriginsTold, StartsOwn, OwnNamed
<1>4. Suits(Unbegun)
  <2>1. Len(<<>>) = 0 /\ MaxInputs \in Nat
    BY EngineAssumption
  <2> QED
    BY <2>1 DEF Suits, Poised, Stage, Makes, Unbegun
<1> QED
  BY <1>1, <1>3, <1>4 DEF OriginInv

-----------------------------------------------------------------------------
(* No two shapes of a kernel have one handle.                              *)

HandlesApart ==
  \A n, m \in 1 .. Len(placements) :
    placements[n].origin = placements[m].origin /\ placements[n].handle = placements[m].handle => n = m

\* A placement's handle is one its kernel has issued.
MadeThere(n) ==
  \E r \in 1 .. Len(runtimes), e \in Nat :
    /\ placements[n].origin = <<r, e>>
    /\ runtimes[r].state # "starting" /\ e <= runtimes[r].kernel.epoch
    /\ Own(n, r) /\ runtimes[r].state = "up" => placements[n].handle <= runtimes[r].kernel.issued

\* One call at a time knows handles that no placement has yet.
Answered(call) == call.at \in Makes /\ call.reply = "ok"
Given(c) ==
  LET r == calls[c].rt
      v == calls[c].value
  IN /\ \A d \in Call : Answered(calls[d]) => d = c
     /\ \A i, j \in 1 .. Len(v) : v[i] = v[j] => i = j
     /\ \A i \in 1 .. Len(v) :
          /\ v[i] <= runtimes[r].kernel.issued
          /\ \A n \in 1 .. Len(placements) : Own(n, r) => placements[n].handle # v[i]

HandlesAsked ==
  \A r \in 1 .. Len(runtimes) : \A k \in 1 .. Len(runtimes[r].queue) :
    LET q == runtimes[r].queue[k] IN
    q.call \in Call => q.handles = {placements[n].handle : n \in Names(calls[q.call], q.op)}

HandleInv ==
  /\ HandlesApart /\ HandlesAsked
  /\ \A n \in 1 .. Len(placements) : MadeThere(n)
  /\ \A c \in Call : Answered(calls[c]) => Given(c)

\* Where an answered call was answered.
LEMMA AnsweredThere ==
  ASSUME EngineInv, OriginInv, NEW c \in Call, Answered(calls[c])
  PROVE  calls[c].rt \in 1 .. Len(runtimes) /\ runtimes[calls[c].rt].state = "up"
<1>1. /\ DataTyped /\ ReplyOK(calls[c]) /\ Points(calls[c], Len(placements), Len(runtimes), Len(logical))
      /\ Suits(calls[c])
  BY CallIs DEF OriginInv
<1>2. calls[c].rt # 0 /\ calls[c].rt \in 0 .. Len(runtimes) /\ Len(runtimes) \in Nat
  BY <1>1, Lens DEF Answered, ReplyOK, Points, Makes, Ops
<1> QED
  BY <1>1, <1>2 DEF Answered, Suits

\* What a placement is when a call's turn is over: one there was, or one c was answered with.
LEMMA PlacedBy ==
  ASSUME DataTyped, NEW c, NEW new, NEW P, PlaceTurn(c, new, P), NEW n \in 1 .. Len(placements')
  PROVE  \/ /\ n \in 1 .. Len(placements)
            /\ placements'[n].origin = placements[n].origin /\ placements'[n].handle = placements[n].handle
         \/ LET i == n - Len(placements) IN
            /\ n \notin 1 .. Len(placements)
            /\ Answered(calls[c]) /\ i \in 1 .. Len(calls[c].value)
            /\ placements'[n].origin = <<calls[c].rt, runtimes[calls[c].rt].kernel.epoch>>
            /\ placements'[n].handle = calls[c].value[i]
            /\ n \notin Range(new.held) \cup new.todo /\ new.source # n
<1>1. Len(placements) \in Nat /\ Len(placements') \in Nat
  BY Lens DEF PlaceTurn, PlacementsTyped
<1>2. CASE n \in 1 .. Len(placements)
  BY <1>2 DEF PlaceTurn
<1>3. CASE n \notin 1 .. Len(placements)
  <2>1. n \in Len(placements) + 1 .. Len(placements')
    BY <1>1, <1>3
  <2> QED
    BY <1>3, <2>1 DEF PlaceTurn, MadeBy, HandleOf, Answered, Ok, Makes
<1> QED
  BY <1>2, <1>3

LEMMA TurnApart ==
  ASSUME EngineInv, OriginInv, HandleInv, NEW c \in Call, NEW new, NEW P, Turn(c, new, P)
  PROVE  HandlesApart'
<1>1. DataTyped /\ PlaceTurn(c, new, P) /\ HandlesApart /\ (Answered(calls[c]) => Given(c))
  BY DEF EngineInv, HandleInv, Turn
<1> DEFINE r == calls[c].rt
           v == calls[c].value
           L == Len(placements)
<1>2. \A n \in 1 .. Len(placements') :
        \/ /\ n \in 1 .. L
           /\ placements'[n].origin = placements[n].origin /\ placements'[n].handle = placements[n].handle
        \/ /\ n \notin 1 .. L /\ Answered(calls[c]) /\ n - L \in 1 .. Len(v)
           /\ placements'[n].origin = <<r, runtimes[r].kernel.epoch>> /\ placements'[n].handle = v[n - L]
  BY <1>1, PlacedBy
<1>3. Answered(calls[c]) =>
        /\ \A i, j \in 1 .. Len(v) : v[i] = v[j] => i = j
        /\ \A i \in 1 .. Len(v) : \A n \in 1 .. L :
             placements[n].origin = <<r, runtimes[r].kernel.epoch>> => placements[n].handle # v[i]
  BY <1>1 DEF Given, Own
<1>4. L \in Nat /\ Len(placements') \in Nat
  BY <1>1, Lens DEF PlaceTurn, PlacementsTyped
<1> SUFFICES ASSUME NEW n \in 1 .. Len(placements'), NEW m \in 1 .. Len(placements'),
                    placements'[n].origin = placements'[m].origin, placements'[n].handle = placements'[m].handle
             PROVE  n = m
  BY DEF HandlesApart
<1> HIDE DEF r, v, L
<1>5. CASE n \in 1 .. L /\ m \in 1 .. L
  BY <1>1, <1>2, <1>5 DEF HandlesApart, L
<1>6. CASE n \notin 1 .. L /\ m \notin 1 .. L
  <2>1. n - L = m - L
    BY <1>2, <1>3, <1>6
  <2> QED
    BY <1>4, <2>1
<1>7. CASE n \in 1 .. L /\ m \notin 1 .. L
  BY <1>2, <1>3, <1>7
<1>8. CASE n \notin 1 .. L /\ m \in 1 .. L
  BY <1>2, <1>3, <1>8
<1> QED
  BY <1>5, <1>6, <1>7, <1>8

LEMMA TurnMade ==
  ASSUME EngineInv, OriginInv, HandleInv, NEW c \in Call, NEW new, NEW P, Turn(c, new, P),
         NEW n \in 1 .. Len(placements')
  PROVE  MadeThere(n)'
<1>1. /\ DataTyped /\ RunTurn(c, new, P) /\ PlaceTurn(c, new, P) /\ (Answered(calls[c]) => Given(c))
      /\ \A m \in 1 .. Len(placements) : MadeThere(m)
  BY DEF EngineInv, HandleInv, Turn
<1>2. /\ Len(runtimes) \in Nat /\ Len(runtimes') \in Nat /\ Len(runtimes) <= Len(runtimes')
      /\ \A r \in 1 .. Len(runtimes) : runtimes'[r].state = runtimes[r].state /\ runtimes'[r].kernel = runtimes[r].kernel
  BY <1>1, TurnRuntimes, Lens DEF RuntimesTyped
<1>3. \A r \in 1 .. Len(runtimes) : r \in 1 .. Len(runtimes')
  BY <1>2
<1>4. CASE /\ n \in 1 .. Len(placements)
           /\ placements'[n].origin = placements[n].origin /\ placements'[n].handle = placements[n].handle
  <2>1. PICK r \in 1 .. Len(runtimes), e \in Nat :
          /\ placements[n].origin = <<r, e>>
          /\ runtimes[r].state # "starting" /\ e <= runtimes[r].kernel.epoch
          /\ Own(n, r) /\ runtimes[r].state = "up" => placements[n].handle <= runtimes[r].kernel.issued
    BY <1>1, <1>4 DEF MadeThere
  <2> QED
    BY <1>2, <1>3, <1>4, <2>1 DEF MadeThere, Own
<1>5. CASE LET i == n - Len(placements) IN
           /\ n \notin 1 .. Len(placements)
           /\ Answered(calls[c]) /\ i \in 1 .. Len(calls[c].value)
           /\ placements'[n].origin = <<calls[c].rt, runtimes[calls[c].rt].kernel.epoch>>
           /\ placements'[n].handle = calls[c].value[i]
  <2> DEFINE r == calls[c].rt
             i == n - Len(placements)
             h == calls[c].value[i]
  <2>1. r \in 1 .. Len(runtimes) /\ runtimes[r].state = "up"
    BY <1>5, AnsweredThere
  <2>2. h <= runtimes[r].kernel.issued
    BY <1>1, <1>5 DEF Given
  <2>3. runtimes[r].kernel.epoch \in Nat
    BY <1>1, <2>1, QueueIs DEF Kernels
  <2>4. placements'[n].origin = <<r, runtimes[r].kernel.epoch>> /\ placements'[n].handle = h
    BY <1>5
  <2> HIDE DEF r, h
  <2> QED
    BY <1>2, <1>3, <2>1, <2>2, <2>3, <2>4 DEF MadeThere
<1> QED
  BY <1>1, <1>4, <1>5, PlacedBy

LEMMA TurnGiven ==
  ASSUME EngineInv, OriginInv, HandleInv, NEW c \in Call, NEW new, NEW P, Turn(c, new, P),
         NEW d \in Call, Answered(calls'[d])
  PROVE  Given(d)'
<1>1. /\ DataTyped /\ RunTurn(c, new, P) /\ PlaceTurn(c, new, P) /\ Unheard(new)
      /\ calls' = [calls EXCEPT ![c] = new] /\ calls \in [Call -> CallType]
      /\ \A a \in Call : Answered(calls[a]) => Given(a)
  BY CallIs DEF HandleInv, Turn
<1>2. \A a \in Call : Answered(calls'[a]) => a # c /\ calls'[a] = calls[a] /\ Answered(calls[a])
  BY <1>1 DEF Unheard, Answered, Makes
<1>3. Given(d) /\ calls'[d] = calls[d] /\ ~Answered(calls[c])
  <2>1. d # c /\ Given(d) /\ calls'[d] = calls[d]
    BY <1>1, <1>2
  <2> QED
    BY <2>1 DEF Given
<1>4. calls[d].rt \in 1 .. Len(runtimes)
  BY <1>2, AnsweredThere
<1>5. runtimes'[calls[d].rt].kernel = runtimes[calls[d].rt].kernel
  BY <1>1, <1>4, TurnRuntimes
<1>6. \A n \in 1 .. Len(placements') :
        /\ n \in 1 .. Len(placements)
        /\ placements'[n].origin = placements[n].origin /\ placements'[n].handle = placements[n].handle
  BY <1>1, <1>3, PlacedBy
<1>7. \A a \in Call : Answered(calls'[a]) => a = d
  BY <1>2, <1>3 DEF Given
<1> QED
  BY <1>3, <1>5, <1>6, <1>7 DEF Given, Own, Answered

LEMMA TurnHandlesAsked ==
  ASSUME EngineInv, HandleInv, NEW c \in Call, NEW new, NEW P, Turn(c, new, P)
  PROVE  HandlesAsked'
<1>1. /\ DataTyped /\ PlaceTurn(c, new, P) /\ Free(c) /\ AskedOnce /\ HandlesAsked
      /\ calls' = [calls EXCEPT ![c] = new] /\ calls \in [Call -> CallType]
      /\ CallOK(new) /\ Within(new, Len(placements'), Len(runtimes'), Len(logical'))
  BY CallIs DEF EngineInv, HandleInv, Turn
<1>2. \A n \in 1 .. Len(placements) : placements'[n].handle = placements[n].handle
  BY <1>1 DEF PlaceTurn
<1> SUFFICES ASSUME NEW r \in 1 .. Len(runtimes'), NEW k \in 1 .. Len(runtimes'[r].queue),
                    runtimes'[r].queue[k].call \in Call
             PROVE  LET q == runtimes'[r].queue[k] IN
                    q.handles = {placements'[n].handle : n \in Names(calls'[q.call], q.op)}
  BY DEF HandlesAsked, Names, First
<1> DEFINE q == runtimes'[r].queue[k]
<1>3. /\ r \in 1 .. Len(runtimes)
      /\ \/ k \in 1 .. Len(runtimes[r].queue) /\ q = runtimes[r].queue[k]
         \/ /\ q.call = c /\ q.op = new.at /\ q.op # "releaseAll" /\ new.reply = "none" /\ new.rt = r
            /\ q.handles = {placements[n].handle : n \in Names(new, new.at)}
  BY TurnAsked
<1>4. q.call \in Call
  OBVIOUS
<1> HIDE DEF q
<1>5. /\ q.handles = {placements[n].handle : n \in Names(calls'[q.call], q.op)}
      /\ Names(calls'[q.call], q.op) \subseteq 1 .. Len(placements)
  <2>1. CASE k \in 1 .. Len(runtimes[r].queue) /\ q = runtimes[r].queue[k]
    <3>1. q.call # c
      BY <1>1, <1>3, <2>1, NotAsked
    <3>2. calls'[q.call] = calls[q.call]
      BY <1>1, <1>4, <3>1
    <3>3. Names(calls[q.call], q.op) \subseteq 1 .. Len(placements)
      BY <1>3, <1>4, <2>1, AskedNames
    <3>4. q.handles = {placements[n].handle : n \in Names(calls[q.call], q.op)}
      BY <1>1, <1>3, <1>4, <2>1 DEF HandlesAsked
    <3> QED
      BY <3>2, <3>3, <3>4
  <2>2. CASE /\ q.call = c /\ q.op = new.at
             /\ q.handles = {placements[n].handle : n \in Names(new, new.at)}
    <3>1. calls'[c] = new
      BY <1>1
    <3>2. Names(new, new.at) \subseteq 1 .. Len(placements)
      <4>1. CASE new.at \in Ops
        <5>1. Stage(new) = new.at
          BY <4>1 DEF Stage, Ops
        <5>2. /\ StageOK(new, new.at)
              /\ Points(new, Len(placements'), Len(runtimes'), Len(logical'))
          BY <1>1, <5>1 DEF CallOK, Within
        <5>3. /\ Names(new, new.at) \subseteq 1 .. Len(placements')
              /\ Names(new, new.at) \subseteq Range(new.held) \cup new.todo \cup {new.source}
          BY <4>1, <5>2, NamesWithin
        <5>4. \A n \in 1 .. Len(placements') :
                n \in 1 .. Len(placements) \/ (n \notin Range(new.held) \cup new.todo /\ new.source # n)
          BY <1>1, PlacedBy
        <5> QED
          BY <5>3, <5>4
      <4>2. CASE new.at \notin Ops
        BY <4>2 DEF Names, Ops
      <4> QED
        BY <4>1, <4>2
    <3> QED
      BY <2>2, <3>1, <3>2
  <2> QED
    BY <1>3, <2>1, <2>2
<1>6. {placements'[n].handle : n \in Names(calls'[q.call], q.op)} = {placements[n].handle : n \in Names(calls'[q.call], q.op)}
  BY <1>2, <1>5
<1> QED
  BY <1>5, <1>6 DEF q

LEMMA TurnHandles ==
  ASSUME EngineInv, OriginInv, HandleInv, NEW c \in Call, NEW new, NEW P, Turn(c, new, P)
  PROVE  HandleInv'
<1>1. HandlesApart' /\ HandlesAsked'
  BY TurnApart, TurnHandlesAsked
<1>2. \A n \in 1 .. Len(placements') : MadeThere(n)'
  BY TurnMade
<1>3. \A d \in Call : Answered(calls'[d]) => Given(d)'
  BY TurnGiven
<1> QED
  BY <1>1, <1>2, <1>3 DEF HandleInv, Answered

\* What a runtime's news is to the handles.
LEMMA NewsHandles ==
  ASSUME EngineInv, EngineInv', HandleInv, SomeNews
  PROVE  HandleInv'
<1>1. PICK C, reply, value : News(C, reply, value)
  BY DEF SomeNews
<1>2. /\ Quiet /\ calls' = Replied(C, reply, value)
      /\ \A d \in C \cap Call : reply = "ok" /\ calls[d].at \in Makes => MadeNow(d, C, value)
      /\ Len(runtimes') = Len(runtimes) /\ Len(placements') = Len(placements)
      /\ \A r \in 1 .. Len(runtimes) : NoNews(runtimes[r], runtimes'[r])
      /\ \A n \in 1 .. Len(placements) :
           placements'[n].origin = placements[n].origin /\ placements'[n].handle = placements[n].handle
  BY <1>1 DEF News
<1>3. /\ DataTyped /\ HandlesApart /\ HandlesAsked /\ \A n \in 1 .. Len(placements) : MadeThere(n)
  BY DEF EngineInv, HandleInv
<1>4. \A r \in 1 .. Len(runtimes) :
        /\ Onward(runtimes[r], runtimes'[r])
        /\ runtimes[r].kernel.epoch \in Nat /\ runtimes[r].kernel.issued \in Nat
        /\ runtimes'[r].kernel.epoch \in Nat /\ runtimes'[r].kernel.issued \in Nat
  <2>1. \A r \in 1 .. Len(runtimes) : runtimes[r].kernel \in Kernels
    BY <1>3, QueueIs
  <2>2. \A r \in 1 .. Len(runtimes) : runtimes'[r].kernel \in Kernels
    <3>1. runtimes' \in Seq(RuntimeType)
      BY DEF EngineInv, DataTyped, RuntimesTyped
    <3>2. \A r \in 1 .. Len(runtimes) : runtimes'[r] \in RuntimeType
      BY <1>2, <3>1
    <3> QED
      BY <3>2 DEF RuntimeType
  <2> QED
    BY <1>2, <2>1, <2>2 DEF NoNews, Kernels
<1>5. HandlesApart'
  BY <1>2, <1>3 DEF HandlesApart
<1>6. ASSUME NEW n \in 1 .. Len(placements')
      PROVE  MadeThere(n)'
  <2>1. n \in 1 .. Len(placements) /\ placements[n] \in PlacementType
    BY <1>2, <1>3, Lens
  <2>2. PICK r \in 1 .. Len(runtimes), e \in Nat :
          /\ placements[n].origin = <<r, e>>
          /\ runtimes[r].state # "starting" /\ e <= runtimes[r].kernel.epoch
          /\ Own(n, r) /\ runtimes[r].state = "up" => placements[n].handle <= runtimes[r].kernel.issued
    BY <1>3, <2>1 DEF MadeThere
  <2>3. ASSUME runtimes'[r].kernel.epoch = e, runtimes'[r].state = "up"
        PROVE  placements[n].handle <= runtimes'[r].kernel.issued
    <3> DEFINE x == runtimes[r]
               y == runtimes'[r]
               h == placements[n].handle
    <3>1. x.kernel.epoch \in Nat /\ x.kernel.issued \in Nat /\ y.kernel.issued \in Nat /\ h \in Nat
      BY <1>2, <1>4, <2>1 DEF PlacementType
    <3>2. Onward(x, y) /\ e <= x.kernel.epoch /\ e \in Nat /\ x.state # "starting"
      BY <1>4, <2>2
    <3>3. Own(n, r) <=> x.kernel.epoch = e
      BY <2>2 DEF Own
    <3>4. Own(n, r) /\ x.state = "up" => h <= x.kernel.issued
      BY <2>2
    <3>5. y.kernel.epoch = e /\ y.state = "up"
      BY <2>3
    <3> HIDE DEF x, y, h
    <3>6. x.kernel.epoch = e /\ x.state = "up" /\ x.kernel.issued <= y.kernel.issued
      BY <3>1, <3>2, <3>5 DEF Onward
    <3> QED
      BY <3>1, <3>3, <3>4, <3>6 DEF h, y
  <2>4. runtimes'[r].state # "starting" /\ e <= runtimes'[r].kernel.epoch
    BY <1>4, <2>2 DEF Onward
  <2> QED
    BY <1>2, <2>1, <2>2, <2>3, <2>4 DEF MadeThere, Own
<1>7. ASSUME NEW d \in Call, Answered(calls'[d])
      PROVE  Given(d)'
  <2> DEFINE r == calls[d].rt
             x == runtimes[r]
             y == runtimes'[r]
  <2>1. \A a \in Call : /\ Answered(calls'[a]) => a \in C /\ reply = "ok" /\ calls[a].at \in Makes
                        /\ calls'[a].rt = calls[a].rt
    BY <1>2, HeardIs DEF Answered
  <2>2. C = {d} /\ MadeNow(d, C, value) /\ \A a \in Call : Answered(calls'[a]) => a = d
    <3>1. MadeNow(d, C, value)
      BY <1>2, <1>7, <2>1
    <3> QED
      BY <2>1, <3>1 DEF MadeNow
  <2>3. calls'[d].rt = r /\ calls'[d].value = value /\ value \in Seq(Nat)
    <3>1. calls[d] \in CallType /\ calls' = [a \in Call |-> IF a \in C THEN [calls[a] EXCEPT !.reply = reply, !.value = value] ELSE calls[a]]
      BY <1>2, CallIs DEF Replied
    <3>2. calls'[d] \in CallType
      BY DEF EngineInv, CallsTyped
    <3>3. calls'[d].value = value
      BY <2>2, <3>1 DEF CallType
    <3> QED
      BY <2>1, <3>2, <3>3 DEF CallType
  <2>4. /\ r \in 1 .. Len(runtimes) /\ x.state = "up" /\ y.kernel.epoch = x.kernel.epoch
        /\ \A i \in 1 .. Len(value) : value[i] = x.kernel.issued + i /\ value[i] <= y.kernel.issued
    BY <2>2 DEF MadeNow
  <2>5. x.kernel.issued \in Nat /\ Len(value) \in Nat
    BY <1>4, <2>3, <2>4
  <2>6. \A n \in 1 .. Len(placements) :
          placements[n].origin = <<r, x.kernel.epoch>> => placements[n].handle \in Nat /\ placements[n].handle <= x.kernel.issued
    <3> SUFFICES ASSUME NEW n \in 1 .. Len(placements), placements[n].origin = <<r, x.kernel.epoch>>
                 PROVE  placements[n].handle \in Nat /\ placements[n].handle <= x.kernel.issued
      OBVIOUS
    <3>1. placements[n] \in PlacementType
      BY <1>3, Lens
    <3>2. PICK s \in 1 .. Len(runtimes) :
            /\ placements[n].origin[1] = s
            /\ Own(n, s) /\ runtimes[s].state = "up" => placements[n].handle <= runtimes[s].kernel.issued
      BY <1>3 DEF MadeThere
    <3>3. s = r
      BY <3>2
    <3> QED
      BY <2>4, <3>1, <3>2, <3>3 DEF Own, PlacementType
  <2> HIDE DEF x, y, r
  <2>7. \A i, j \in 1 .. Len(value) : value[i] = value[j] => i = j
    BY <2>4, <2>5
  <2>8. \A i \in 1 .. Len(value) : \A n \in 1 .. Len(placements) :
          placements[n].origin = <<r, x.kernel.epoch>> => placements[n].handle # value[i]
    BY <2>4, <2>5, <2>6
  <2>9. \A n \in 1 .. Len(placements') :
          placements'[n].origin = <<r, runtimes'[r].kernel.epoch>> => placements[n].origin = <<r, x.kernel.epoch>>
    BY <1>2, <2>4 DEF x, y
  <2>10. \A i \in 1 .. Len(value) : \A n \in 1 .. Len(placements') :
           placements'[n].origin = <<r, runtimes'[r].kernel.epoch>> => placements'[n].handle # value[i]
    BY <1>2, <2>8, <2>9
  <2>11. /\ \A a \in Call : Answered(calls'[a]) => a = d
         /\ calls'[d].rt = r /\ calls'[d].value = value
         /\ \A i \in 1 .. Len(value) : value[i] <= runtimes'[r].kernel.issued
    BY <2>2, <2>3, <2>4 DEF y
  <2> QED
    BY <2>7, <2>10, <2>11 DEF Given, Own, Answered
<1>8. HandlesAsked'
  <2> SUFFICES ASSUME NEW r \in 1 .. Len(runtimes'), NEW k \in 1 .. Len(runtimes'[r].queue),
                      runtimes'[r].queue[k].call \in Call
               PROVE  LET q == runtimes'[r].queue[k] IN
                      q.handles = {placements'[n].handle : n \in Names(calls'[q.call], q.op)}
    BY DEF HandlesAsked, Names, First
  <2> DEFINE q == runtimes'[r].queue[k]
  <2>1. q.call \in Call /\ q.call # Nobody
    BY NobodyAssumption
  <2>2. r \in 1 .. Len(runtimes) /\ NoNews(runtimes[r], runtimes'[r])
    BY <1>2
  <2>3. PICK j \in 1 .. Len(runtimes[r].queue) : q = runtimes[r].queue[j]
    BY <2>1, <2>2 DEF NoNews
  <2> HIDE DEF q
  <2>4. Names(calls'[q.call], q.op) = Names(calls[q.call], q.op)
    <3>1. Same(calls[q.call], calls'[q.call])
      BY <1>2, <2>1, HeardIs
    <3> QED
      BY <3>1 DEF Same, Names, First
  <2>5. Names(calls[q.call], q.op) \subseteq 1 .. Len(placements)
    BY <2>1, <2>2, <2>3, AskedNames
  <2>6. q.handles = {placements[n].handle : n \in Names(calls[q.call], q.op)}
    BY <1>3, <2>1, <2>2, <2>3 DEF HandlesAsked
  <2>7. {placements'[n].handle : n \in Names(calls[q.call], q.op)} = {placements[n].handle : n \in Names(calls[q.call], q.op)}
    BY <1>2, <2>5
  <2> QED
    BY <2>4, <2>6, <2>7 DEF q
<1> QED
  BY <1>5, <1>6, <1>7, <1>8 DEF HandleInv, Answered

LEMMA StutterHandles ==
  ASSUME HandleInv, UNCHANGED vars
  PROVE  HandleInv'
<1>1. runtimes' = runtimes /\ placements' = placements /\ calls' = calls
  BY DEF vars
<1>2. HandlesApart'
  BY <1>1 DEF HandleInv, HandlesApart
<1>3. HandlesAsked'
  <2> SUFFICES ASSUME NEW r \in 1 .. Len(runtimes'), NEW k \in 1 .. Len(runtimes'[r].queue),
                      runtimes'[r].queue[k].call \in Call
               PROVE  LET q == runtimes'[r].queue[k] IN
                      q.handles = {placements'[n].handle : n \in Names(calls'[q.call], q.op)}
    BY DEF HandlesAsked, Names, First
  <2> QED
    BY <1>1 DEF HandleInv, HandlesAsked
<1>4. \A n \in 1 .. Len(placements') : MadeThere(n)'
  BY <1>1 DEF HandleInv, MadeThere, Own
<1>5. \A c \in Call : Answered(calls[c])' => Given(c)'
  BY <1>1 DEF HandleInv, Given, Answered, Own
<1> QED
  BY <1>2, <1>3, <1>4, <1>5 DEF HandleInv

LEMMA InitHandles ==
  ASSUME Init
  PROVE  HandleInv
<1>1. /\ runtimes = <<>> /\ placements = <<>> /\ calls = [c \in Call |-> Unbegun]
  BY DEF Init
<1>2. Len(runtimes) = 0 /\ Len(placements) = 0 /\ 1 .. 0 = {}
  BY <1>1
<1>3. \A c \in Call : ~Answered(calls[c])
  BY <1>1 DEF Answered, Unbegun
<1> QED
  BY <1>2, <1>3 DEF HandleInv, HandlesApart, HandlesAsked

-----------------------------------------------------------------------------
(* The theorems.                                                           *)

\* Whatever GeometryEngine does from one await to the next, and whatever becomes of its
\* runtimes meanwhile, its calls, queues, profiles, placements and leases fit together.
THEOREM EngineInvariant == Spec => []EngineInv
<1>1. Init => EngineInv
  BY InitEngine
<1>2. EngineInv /\ [Next]_vars => EngineInv'
  <2>1. ASSUME EngineInv, Next
        PROVE  EngineInv'
    <3>1. ASSUME NEW c \in Call, Begin(c) \/ Continue(c)
          PROVE  EngineInv'
      BY <2>1, <3>1, CallKeeps
    <3>2. ASSUME NEW r \in DOMAIN runtimes, Runtime(r) \/ Rebuild(r)
          PROVE  EngineInv'
      BY <2>1, <3>2, StartedKeeps, AnswerKeeps, RebuildKeeps DEF Runtime
    <3>3. ASSUME NEW p \in Profile, InvalidateProfileEpoch(p)
          PROVE  EngineInv'
      BY <2>1, <3>3, InvalidateKeeps
    <3> QED
      BY <2>1, <3>1, <3>2, <3>3, CloseKeeps, CloseEndsKeeps DEF Next
  <2> QED
    BY <2>1, StutterKeeps
<1> QED
  BY <1>1, <1>2, PTL DEF Spec

\* Leases (leaseCount of a placement) are exactly those of the requests and the transfers that
\* are under way, whatever calls interleave, fail or lose their kernels.
THEOREM LeasesAreExact == Spec => []LeasesExact
<1>1. EngineInv => LeasesExact
  BY DEF EngineInv
<1> QED
  BY <1>1, EngineInvariant, PTL

\* #runtimeFor, invalidateProfileEpoch and close() never forget a runtime: each that runs is
\* the one its profile uses, or close() has asked it to release all.
THEOREM NoRuntimeOrphaned == Spec => []NoOrphanRuntime
<1>1. EngineInv => NoOrphanRuntime
  <2> SUFFICES ASSUME EngineInv, NEW r \in DOMAIN runtimes, runtimes[r].state = "up"
               PROVE  profiles[runtimes[r].profile].runtime = r \/ Nobody \in Waiting(r)
    BY DEF NoOrphanRuntime
  <2>1. r \in 1 .. Len(runtimes)
    BY Lens DEF EngineInv
  <2> QED
    BY <2>1, NobodyLeaves DEF Wanted
<1> QED
  BY <1>1, EngineInvariant, PTL

\* releaseShape, releasePlacement and releaseAll look at the leases before they touch anything:
\* no placement a release is going to drop is an input of a request or the source of a transfer.
THEOREM ReleasesBeginUnleased == Spec => ReleaseBeginsUnleased
<1> DEFINE Begun == \A c \in Call :
             calls'[c].shape # calls[c].shape => \A n \in calls'[c].todo : placements[n].leaseCount = 0
<1>1. ASSUME EngineInv, Next
      PROVE  Begun
  <2>1. ASSUME NEW c \in Call, Begin(c) \/ Continue(c)
        PROVE  Begun
    <3>1. Lets(c)
      BY <1>1, <2>1, BeginLets, ContinueLets
    <3> QED
      BY <3>1 DEF Lets, Carries
  <2>2. calls \in [Call -> CallType]
    BY <1>1 DEF EngineInv, CallsTyped
  <2>3. ASSUME NEW C, NEW reply, NEW value, calls' = Replied(C, reply, value)
        PROVE  Begun
    <3>1. ASSUME NEW c \in Call
          PROVE  calls'[c].shape = calls[c].shape
      <4>1. calls'[c] = [calls[c] EXCEPT !.reply = reply, !.value = value] \/ calls'[c] = calls[c]
        BY <2>3 DEF Replied
      <4>2. calls[c] \in CallType
        BY <2>2
      <4> QED
        BY <4>1, <4>2 DEF CallType
    <3> QED
      BY <3>1
  <2>4. ASSUME calls' = calls
        PROVE  Begun
    BY <2>4
  <2>5. ASSUME NEW r \in DOMAIN runtimes, Runtime(r) \/ Rebuild(r)
        PROVE  Begun
    <3>1. \E C, reply, value : calls' = Replied(C, reply, value)
      BY <2>5, Zenon DEF Runtime, Started, Answer, Rebuild
    <3> QED
      BY <2>3, <3>1
  <2>6. ASSUME NEW p \in Profile, InvalidateProfileEpoch(p)
        PROVE  Begun
    <3>1. calls' = calls \/ \E C, reply, value : calls' = Replied(C, reply, value)
      BY <2>6, Zenon DEF InvalidateProfileEpoch
    <3> QED
      BY <2>3, <2>4, <3>1
  <2>7. ASSUME Close \/ CloseEnds
        PROVE  Begun
    BY <2>4, <2>7 DEF Close, CloseEnds
  <2> QED
    BY <1>1, <2>1, <2>5, <2>6, <2>7 DEF Next
<1>2. EngineInv /\ Next => Begun
  BY <1>1
<1>3. EngineInv /\ [Next]_vars => [Begun]_vars
  BY <1>2
<1> QED
  BY <1>3, EngineInvariant, PTL DEF Spec, ReleaseBeginsUnleased

\* #profileState keeps the epoch of a profile's placements with its runtime: a placement of the
\* profile's epoch was made by the kernel its runtime had when the engine looked at it last, and
\* whoever makes a shape has the profile's own runtime make it.
THEOREM OriginsFollow == Spec => []OriginInv
<1>1. Init => OriginInv
  BY InitOrigins
<1>2. EngineInv /\ OriginInv /\ [Next]_vars => OriginInv'
  <2>1. ASSUME EngineInv, OriginInv, Next
        PROVE  OriginInv'
    <3>1. ASSUME NEW c \in Call, Begin(c) \/ Continue(c)
          PROVE  OriginInv'
      BY <2>1, <3>1, CallOrigins
    <3>2. ASSUME Else
          PROVE  OriginInv'
      BY <2>1, <3>2, ElseNews, NewsOrigins DEF SomeNews
    <3> QED
      BY <2>1, <3>1, <3>2 DEF Next, Else
  <2> QED
    BY <2>1, StutterOrigins
<1> QED
  BY <1>1, <1>2, EngineInvariant, PTL DEF Spec

\* Whatever calls, rebuilds and invalidations interleave, a question that waits for a runtime
\* names shapes of the kernel that will be asked: every export and every release, and every
\* operation on at most one shape, which is looked at in the turn that asks.  (An operation on
\* two shapes leases them in two turns, and the first may be lost between them: finding 3 of the
\* README, which is why OneLook is needed.)
THEOREM OwnShapesNamed == Spec => []OwnNamed
<1>1. OriginInv => OwnNamed
  BY DEF OriginInv
<1> QED
  BY <1>1, OriginsFollow, PTL

\* An engine whose operations take at most one shape asks its runtimes only about shapes of
\* their present kernels: no handle of a lost kernel, which may be another shape's now.
THEOREM ShapesAreOwn ==
  ASSUME MaxInputs <= 1
  PROVE  Spec => []NamesOwnShapes
<1>1. EngineInv /\ OriginInv => NamesOwnShapes
  <2> SUFFICES ASSUME EngineInv, OriginInv, NEW r \in DOMAIN runtimes, NEW i \in DOMAIN runtimes[r].queue,
                      runtimes[r].queue[i].call \in Call,
                      NEW n \in Names(calls[runtimes[r].queue[i].call], runtimes[r].queue[i].op)
               PROVE  placements[n].origin = <<r, runtimes[r].kernel.epoch>>
    BY DEF NamesOwnShapes
  <2> DEFINE q == runtimes[r].queue[i]
  <2>1. r \in 1 .. Len(runtimes)
    BY Lens DEF EngineInv
  <2>2. i \in 1 .. Len(runtimes[r].queue)
    BY <2>1, QueueIs DEF EngineInv
  <2>3. q.call \in Call /\ n \in Names(calls[q.call], q.op)
    OBVIOUS
  <2> HIDE DEF q
  <2>4. OneLook(calls[q.call], q.op)
    <3> DEFINE l == Len(calls[q.call].refs)
    <3>1. l <= MaxInputs /\ l \in Nat /\ MaxInputs \in Nat
      BY <2>3, CallIs, EngineAssumption DEF OriginInv, Suits, Poised, Points
    <3> HIDE DEF l
    <3>2. l <= 1
      BY <3>1
    <3> QED
      BY <3>2 DEF OneLook, l
  <2> QED
    BY <2>1, <2>2, <2>3, <2>4 DEF OriginInv, OwnNamed, Own, q
<1> QED
  BY <1>1, EngineInvariant, OriginsFollow, PTL

\* No two shapes that one kernel made for the engine have the same handle, whatever their calls
\* did meanwhile and however often the runtime was rebuilt: what names a shape to its kernel
\* names no other.
THEOREM HandlesAreApart == Spec => []HandleInv
<1>1. Init => HandleInv
  BY InitHandles
<1>2. EngineInv /\ EngineInv' /\ OriginInv /\ HandleInv /\ [Next]_vars => HandleInv'
  <2>1. ASSUME EngineInv, EngineInv', OriginInv, HandleInv, Next
        PROVE  HandleInv'
    <3>1. ASSUME NEW c \in Call, Begin(c) \/ Continue(c)
          PROVE  HandleInv'
      <4>1. PICK new, P : Turn(c, new, P)
        BY <2>1, <3>1, CallTurn
      <4> QED
        BY <2>1, <4>1, TurnHandles
    <3>2. ASSUME Else
          PROVE  HandleInv'
      BY <2>1, <3>2, ElseNews, NewsHandles
    <3> QED
      BY <2>1, <3>1, <3>2 DEF Next, Else
  <2> QED
    BY <2>1, StutterHandles
<1> QED
  BY <1>1, <1>2, EngineInvariant, OriginsFollow, PTL DEF Spec

\* A question that waits for a runtime reaches no shape but those its call names: a release lets
\* one placement's shape go, an export reads one, an operation on at most one shape works on that
\* one, and no other placement of that kernel has the handle that is sent.
NamesNoOther ==
  \A r \in 1 .. Len(runtimes) : \A k \in 1 .. Len(runtimes[r].queue) :
    LET q == runtimes[r].queue[k] IN
    q.call \in Call /\ OneLook(calls[q.call], q.op) =>
      \A n \in 1 .. Len(placements) :
        Own(n, r) /\ placements[n].handle \in q.handles => n \in Names(calls[q.call], q.op)
THEOREM OthersUnnamed == Spec => []NamesNoOther
<1>1. EngineInv /\ OriginInv /\ HandleInv => NamesNoOther
  <2> SUFFICES ASSUME EngineInv, OriginInv, HandleInv,
                      NEW r \in 1 .. Len(runtimes), NEW k \in 1 .. Len(runtimes[r].queue),
                      runtimes[r].queue[k].call \in Call,
                      OneLook(calls[runtimes[r].queue[k].call], runtimes[r].queue[k].op),
                      NEW n \in 1 .. Len(placements), Own(n, r),
                      placements[n].handle \in runtimes[r].queue[k].handles
               PROVE  n \in Names(calls[runtimes[r].queue[k].call], runtimes[r].queue[k].op)
    BY DEF NamesNoOther
  <2> DEFINE q == runtimes[r].queue[k]
  <2>1. q.call \in Call /\ OneLook(calls[q.call], q.op) /\ placements[n].handle \in q.handles
    OBVIOUS
  <2>2. q.handles = {placements[m].handle : m \in Names(calls[q.call], q.op)}
    BY <2>1 DEF HandleInv, HandlesAsked
  <2>3. Names(calls[q.call], q.op) \subseteq 1 .. Len(placements)
    BY <2>1, AskedNames
  <2>4. \A m \in Names(calls[q.call], q.op) : Own(m, r)
    BY <2>1 DEF OriginInv, OwnNamed
  <2> HIDE DEF q
  <2>5. PICK m \in Names(calls[q.call], q.op) : placements[n].handle = placements[m].handle
    BY <2>1, <2>2
  <2>6. n = m
    BY <2>3, <2>4, <2>5 DEF HandleInv, HandlesApart, Own
  <2> QED
    BY <2>5, <2>6 DEF q
<1> QED
  BY <1>1, EngineInvariant, OriginsFollow, HandlesAreApart, PTL

=============================================================================
