-------------------------- MODULE WorkerClientProofs --------------------------
(***************************************************************************)
(* The client of a worker, for any number of calls and workers: where its  *)
(* calls are, which workers live, and which epoch a call runs in.          *)
(***************************************************************************)
EXTENDS WorkerClient, SequenceTheorems, TLAPS

-----------------------------------------------------------------------------
(* Sequences without repetition.                                           *)

LEMMA RangeIs ==
  ASSUME NEW S, NEW q \in Seq(S)
  PROVE  Range(q) = {q[n] : n \in 1 .. Len(q)} /\ DOMAIN q = 1 .. Len(q) /\ Len(q) \in Nat
BY DEF Range

LEMMA Shifted ==
  ASSUME NEW i \in Int, NEW n \in Int, NEW l \in Int, n >= 1, i >= n, i <= l - 1
  PROVE  i - (n - 1) \in 1 .. l - n /\ n + (i - (n - 1)) = i + 1 /\ i \in 1 .. (n - 1) + (l - n)
OBVIOUS

\* The element at n is taken out.
LEMMA TakenOut ==
  ASSUME NEW S, NEW q \in Seq(S), IsInjective(q), NEW n \in DOMAIN q
  PROVE  /\ RemoveAt(q, n) \in Seq(S) /\ IsInjective(RemoveAt(q, n))
         /\ Range(RemoveAt(q, n)) = Range(q) \ {q[n]}
<1>1. Len(q) \in Nat /\ n \in 1 .. Len(q) /\ n \in Int
  OBVIOUS
<1> DEFINE a == SubSeq(q, 1, n - 1)
           b == SubSeq(q, n + 1, Len(q))
           r == RemoveAt(q, n)
<1>2. a \in Seq(S) /\ Len(a) = n - 1 /\ \A i \in 1 .. n - 1 : a[i] = q[i]
  <2>1. \A i \in 1 .. n - 1 : q[i] \in S
    BY <1>1
  <2>2. /\ a \in Seq(S) /\ Len(a) = IF 1 <= n - 1 THEN n - 1 - 1 + 1 ELSE 0
        /\ \A i \in 1 .. n - 1 - 1 + 1 : a[i] = q[1 + i - 1]
    BY <1>1, <2>1, SubSeqProperties
  <2> HIDE DEF a
  <2>3. Len(a) = n - 1
    BY <1>1, <2>2
  <2>4. ASSUME NEW i \in 1 .. n - 1
        PROVE  a[i] = q[i]
    <3>1. i \in 1 .. n - 1 - 1 + 1 /\ 1 + i - 1 = i
      BY <1>1
    <3> QED
      BY <2>2, <3>1
  <2> QED
    BY <2>2, <2>3, <2>4
<1>3. b \in Seq(S) /\ Len(b) = Len(q) - n /\ \A i \in 1 .. Len(q) - n : b[i] = q[n + i]
  <2>1. \A i \in n + 1 .. Len(q) : q[i] \in S
    BY <1>1
  <2>2. /\ b \in Seq(S) /\ Len(b) = IF n + 1 <= Len(q) THEN Len(q) - (n + 1) + 1 ELSE 0
        /\ \A i \in 1 .. Len(q) - (n + 1) + 1 : b[i] = q[n + 1 + i - 1]
    BY <1>1, <2>1, SubSeqProperties
  <2> HIDE DEF b
  <2>3. Len(b) = Len(q) - n
    BY <1>1, <2>2
  <2>4. ASSUME NEW i \in 1 .. Len(q) - n
        PROVE  b[i] = q[n + i]
    <3>1. i \in 1 .. Len(q) - (n + 1) + 1 /\ n + 1 + i - 1 = n + i
      BY <1>1
    <3> QED
      BY <2>2, <3>1
  <2> QED
    BY <2>2, <2>3, <2>4
<1>4. r = a \o b
  BY DEF RemoveAt
<1> HIDE DEF a, b, r
<1>5. /\ r \in Seq(S) /\ Len(r) = Len(q) - 1
      /\ \A i \in 1 .. n - 1 : r[i] = q[i]
      /\ \A i \in n .. Len(q) - 1 : r[i] = q[i + 1]
  <2>1. r \in Seq(S) /\ Len(r) = Len(a) + Len(b)
    BY <1>2, <1>3, <1>4, ConcatProperties
  <2>2. \A i \in 1 .. Len(a) + Len(b) : r[i] = IF i <= Len(a) THEN a[i] ELSE b[i - Len(a)]
    BY <1>2, <1>3, <1>4, ConcatProperties
  <2>3. ASSUME NEW i \in n .. Len(q) - 1
        PROVE  r[i] = q[i + 1]
    <3>1. i - (n - 1) \in 1 .. Len(q) - n /\ n + (i - (n - 1)) = i + 1 /\ i \in 1 .. Len(a) + Len(b)
      <4>1. Len(q) \in Int /\ i \in Int /\ n >= 1 /\ i >= n /\ i <= Len(q) - 1
        BY <1>1
      <4> QED
        BY <1>1, <1>2, <1>3, <4>1, Shifted
    <3>2. r[i] = b[i - (n - 1)]
      BY <1>1, <1>2, <2>2, <3>1
    <3> QED
      BY <1>3, <3>1, <3>2
  <2> QED
    BY <1>1, <1>2, <1>3, <2>1, <2>2, <2>3
<1>6. \A i, j \in 1 .. Len(q) : q[i] = q[j] => i = j
  BY DEF IsInjective
<1>7. IsInjective(r)
  <2> SUFFICES ASSUME NEW i \in 1 .. Len(q) - 1, NEW j \in 1 .. Len(q) - 1, r[i] = r[j]
               PROVE  i = j
    BY <1>5 DEF IsInjective
  <2>1. r[i] = q[IF i < n THEN i ELSE i + 1] /\ r[j] = q[IF j < n THEN j ELSE j + 1]
    BY <1>1, <1>5
  <2>2. (IF i < n THEN i ELSE i + 1) \in 1 .. Len(q) /\ (IF j < n THEN j ELSE j + 1) \in 1 .. Len(q)
    BY <1>1
  <2>3. (IF i < n THEN i ELSE i + 1) = (IF j < n THEN j ELSE j + 1)
    BY <1>6, <2>1, <2>2
  <2> QED
    BY <1>1, <2>3
<1>8. Range(r) = Range(q) \ {q[n]}
  <2>1. ASSUME NEW i \in 1 .. Len(r)
        PROVE  r[i] \in Range(q) \ {q[n]}
    <3>1. r[i] = q[IF i < n THEN i ELSE i + 1]
      BY <1>1, <1>5
    <3> QED
      BY <1>1, <1>5, <1>6, <3>1 DEF Range
  <2>2. ASSUME NEW i \in 1 .. Len(q), i # n
        PROVE  q[i] \in Range(r)
    <3>1. CASE i < n
      BY <1>1, <1>5, <3>1 DEF Range
    <3>2. CASE i > n
      <4>1. i - 1 \in n .. Len(q) - 1 /\ i - 1 \in DOMAIN r
        BY <1>1, <1>5, <3>2
      <4>2. r[i - 1] = q[i - 1 + 1]
        BY <1>5, <4>1
      <4> QED
        BY <4>1, <4>2 DEF Range
    <3> QED
      BY <1>1, <2>2, <3>1, <3>2
  <2> QED
    BY <1>1, <1>5, <2>1, <2>2, RangeIs
<1> QED
  BY <1>5, <1>7, <1>8 DEF r
LEMMA Appended ==
  ASSUME NEW S, NEW q \in Seq(S), IsInjective(q), NEW c \in S, c \notin Range(q)
  PROVE  Append(q, c) \in Seq(S) /\ IsInjective(Append(q, c)) /\ Range(Append(q, c)) = Range(q) \cup {c}
<1> DEFINE r == Append(q, c)
<1>1. /\ r \in Seq(S) /\ Len(r) = Len(q) + 1 /\ Len(q) \in Nat
      /\ \A i \in 1 .. Len(q) : r[i] = q[i]
      /\ r[Len(q) + 1] = c
  BY AppendProperties
<1> HIDE DEF r
<1>2. Range(q) = {q[i] : i \in 1 .. Len(q)} /\ Range(r) = {r[i] : i \in 1 .. Len(r)}
  BY <1>1, RangeIs
<1>3. \A i, j \in 1 .. Len(q) : q[i] = q[j] => i = j
  BY DEF IsInjective
<1>4. 1 .. Len(r) = 1 .. Len(q) \cup {Len(q) + 1}
  BY <1>1
<1>5. Range(r) = Range(q) \cup {c}
  BY <1>1, <1>2, <1>4
<1>6. \A i \in 1 .. Len(q) : r[i] # c
  BY <1>1, <1>2
<1>7. IsInjective(r)
  <2> SUFFICES ASSUME NEW i \in 1 .. Len(r), NEW j \in 1 .. Len(r), r[i] = r[j]
               PROVE  i = j
    BY <1>1 DEF IsInjective
  <2> QED
    BY <1>1, <1>3, <1>4, <1>6
<1> QED
  BY <1>1, <1>5, <1>7 DEF r

\* What is left of a queue without its first k elements.
LEMMA LeftOver ==
  ASSUME NEW S, NEW q \in Seq(S), IsInjective(q), NEW k \in Nat, k >= 1, k <= Len(q) + 1
  PROVE  /\ SubSeq(q, k + 1, Len(q)) \in Seq(S) /\ IsInjective(SubSeq(q, k + 1, Len(q)))
         /\ Range(SubSeq(q, k + 1, Len(q))) = {q[i] : i \in k + 1 .. Len(q)}
<1> DEFINE r == SubSeq(q, k + 1, Len(q))
           l == Len(q)
<1>1. l \in Nat /\ \A i \in k + 1 .. l : q[i] \in S
  OBVIOUS
<1>2. /\ r \in Seq(S) /\ Len(r) = IF k + 1 <= l THEN l - (k + 1) + 1 ELSE 0
      /\ \A i \in 1 .. l - (k + 1) + 1 : r[i] = q[k + 1 + i - 1]
  BY <1>1, SubSeqProperties
<1>3. \A i, j \in 1 .. l : q[i] = q[j] => i = j
  BY DEF IsInjective
<1>4. Range(r) = {r[i] : i \in 1 .. Len(r)} /\ DOMAIN r = 1 .. Len(r)
  BY <1>2, RangeIs
<1> HIDE DEF r, l
<1>5. CASE k + 1 <= l
  <2>1. Len(r) = l - k /\ l - k \in Nat
    BY <1>1, <1>2, <1>5
  <2>2. ASSUME NEW i \in 1 .. l - k
        PROVE  r[i] = q[k + i] /\ k + i \in k + 1 .. l
    <3>1. i \in 1 .. l - (k + 1) + 1 /\ k + 1 + i - 1 = k + i /\ k + i \in k + 1 .. l
      BY <1>1
    <3> QED
      BY <1>2, <3>1
  <2>3. IsInjective(r)
    <3> SUFFICES ASSUME NEW i \in 1 .. l - k, NEW j \in 1 .. l - k, r[i] = r[j]
                 PROVE  i = j
      BY <1>4, <2>1 DEF IsInjective
    <3>1. k + i = k + j
      BY <1>1, <1>3, <2>2
    <3> QED
      BY <1>1, <3>1
  <2>4. ASSUME NEW i \in k + 1 .. l
        PROVE  q[i] \in Range(r)
    <3>1. i - k \in 1 .. l - k /\ k + (i - k) = i
      BY <1>1
    <3>2. r[i - k] = q[i]
      BY <2>2, <3>1
    <3> QED
      BY <1>4, <2>1, <3>1, <3>2
  <2>5. Range(r) \subseteq {q[i] : i \in k + 1 .. l}
    BY <1>4, <2>1, <2>2
  <2>6. Range(r) = {q[i] : i \in k + 1 .. l}
    BY <2>4, <2>5
  <2> QED
    BY <1>2, <2>3, <2>6 DEF r, l
<1>6. CASE ~(k + 1 <= l)
  <2>1. Len(r) = 0 /\ 1 .. Len(r) = {} /\ k + 1 .. l = {}
    BY <1>1, <1>2, <1>6
  <2>2. IsInjective(r)
    BY <1>4, <2>1 DEF IsInjective
  <2>3. Range(r) = {q[i] : i \in k + 1 .. l}
    BY <1>4, <2>1
  <2> QED
    BY <1>2, <2>2, <2>3 DEF r, l
<1> QED
  BY <1>5, <1>6

-----------------------------------------------------------------------------
(* The queue.                                                              *)

Statuses == {"unsent", "awaiting", "queued", "resolved", "rejected"}

\* dispatchNext moves the calls of q: one becomes active, some are rejected, the
\* others stay queued.
LEMMA Dispatching ==
  ASSUME NEW q \in Seq(Call), IsInjective(q), NEW base \in [Call -> Statuses],
         \A c \in Call : base[c] = "queued" <=> c \in Range(q),
         NoCall \notin Call, DispatchNext(q, base)
  PROVE  /\ queue' \in Seq(Call) /\ IsInjective(queue')
         /\ active' \in Call \cup {NoCall} /\ active' \notin Range(queue')
         /\ Range(queue') \cup ({active'} \ {NoCall}) \subseteq Range(q)
         /\ status' \in [Call -> Statuses]
         /\ \A c \in Call : status'[c] = "awaiting" <=> base[c] = "awaiting"
         /\ \A c \in Call : status'[c] = "queued" <=> c = active' \/ c \in Range(queue')
<1>1. PICK n \in 0 .. Len(q) :
        /\ status' = Rejected({q[m] : m \in 1 .. n}, base)
        /\ queue' = SubSeq(q, n + 2, Len(q))
        /\ active' = IF n < Len(q) THEN q[n + 1] ELSE NoCall
  BY DEF DispatchNext
<1> DEFINE l == Len(q)
<1>2. l \in Nat /\ n \in Nat /\ n <= l /\ Range(q) = {q[i] : i \in 1 .. l} /\ \A i \in 1 .. l : q[i] \in Call
  BY RangeIs
<1>3. \A i, j \in 1 .. l : q[i] = q[j] => i = j
  BY DEF IsInjective
<1>4. n + 1 \in Nat /\ n + 1 >= 1 /\ n + 1 <= l + 1 /\ n + 1 + 1 = n + 2
  BY <1>2
<1>5. queue' \in Seq(Call) /\ IsInjective(queue') /\ Range(queue') = {q[i] : i \in n + 2 .. l}
  BY <1>1, <1>4, LeftOver
<1>6. status' = [c \in Call |-> IF c \in {q[m] : m \in 1 .. n} THEN "rejected" ELSE base[c]]
  BY <1>1 DEF Rejected
<1>7. CASE n < l
  <2>1. active' = q[n + 1] /\ n + 1 \in 1 .. l
    BY <1>1, <1>2, <1>7
  <2>2. 1 .. l = 1 .. n \cup {n + 1} \cup n + 2 .. l
    BY <1>2, <1>7
  <2>3. \A i \in 1 .. n : i \in 1 .. l /\ i # n + 1 /\ i \notin n + 2 .. l
    BY <1>2, <1>7
  <2>4. \A i \in n + 2 .. l : i \in 1 .. l /\ i # n + 1 /\ i \notin 1 .. n
    BY <1>2, <1>7
  <2>5. active' \in Call /\ active' \notin Range(queue') /\ active' # NoCall
    BY <1>2, <1>3, <1>5, <2>1, <2>4
  <2>6. Range(queue') \cup {active'} \subseteq Range(q)
    BY <1>2, <1>5, <2>1, <2>4
  <2>7. \A c \in Call : c \in Range(q) <=> c \in {q[m] : m \in 1 .. n} \/ c = active' \/ c \in Range(queue')
    BY <1>2, <1>5, <2>1, <2>2
  <2>8. \A c \in {q[m] : m \in 1 .. n} : c # active' /\ c \notin Range(queue')
    BY <1>3, <1>5, <2>1, <2>2, <2>3
  <2> QED
    BY <1>5, <1>6, <2>5, <2>6, <2>7, <2>8 DEF Statuses
<1>8. CASE ~(n < l)
  <2>1. active' = NoCall /\ n = l /\ n + 2 .. l = {}
    BY <1>1, <1>2, <1>8
  <2>2. Range(queue') = {}
    BY <1>5, <2>1
  <2>3. \A c \in Call : c \in {q[m] : m \in 1 .. n} <=> c \in Range(q)
    BY <1>2, <2>1
  <2> QED
    BY <1>5, <1>6, <2>1, <2>2, <2>3 DEF Statuses
<1> QED
  BY <1>7, <1>8
-----------------------------------------------------------------------------
(* The invariant.                                                          *)

ClientTypes ==
  /\ generation \in Gen /\ worker \in {0, generation} /\ worker \in 0 .. MaxWorkers
  /\ ready \in [Gen -> {"pending", "resolved", "rejected"}]
  /\ active \in Call \cup {NoCall}
  /\ queue \in Seq(Call) /\ awaiting \in Seq(Call)
  /\ status \in [Call -> Statuses]
  /\ sentAt \in [Call -> Gen]
  /\ workers \in [Gen -> {"none", "starting", "serving", "broken", "terminated"}]

\* A response names its call.
Mailed == {m \in Message : m.type \in {"ok", "failed"} => m.call \in Call}
MailTyped == mail \in [Gen -> Seq(Mailed)]

\* Only a worker that is ready has an active call.
Attended == active # NoCall => worker # 0 /\ isReady

\* A call that goes on to the queue was sent in this epoch: those of earlier ones wait
\* for a worker that will never be ready, unless an abort came between.
Epochs ==
  /\ active # NoCall => sentAt[active] = generation
  /\ \A c \in Range(queue) : sentAt[c] = generation
  /\ \A c \in Range(awaiting) : sentAt[c] = generation \/ ready[sentAt[c]] # "resolved"

ClientInv ==
  ClientTypes /\ MailTyped /\ Attended /\ CallsPlaced /\ NoOrphans /\ (interrupted \/ Epochs)

LEMMA ClientInvInit == Init => ClientInv
<1> SUFFICES ASSUME Init
             PROVE  ClientInv
  OBVIOUS
<1>1. Range(<<>>) = {} /\ IsInjective(<<>>) /\ <<>> \in Seq(Call) /\ <<>> \in Seq(Mailed)
  BY DEF Range, IsInjective
<1>2. 1 \in Gen /\ MaxWorkers >= 1
  BY ClientAssumption DEF Gen
<1>3. ClientTypes
  BY <1>1, <1>2, ClientAssumption DEF Init, ClientTypes, Statuses
<1>4. CallsPlaced
  BY <1>1, ClientAssumption DEF Init, CallsPlaced
<1>5. MailTyped /\ Attended /\ NoOrphans /\ Epochs
  BY <1>1, <1>2 DEF Init, MailTyped, Attended, NoOrphans, Epochs
<1> QED
  BY <1>3, <1>4, <1>5 DEF ClientInv

\* Terminating the worker leaves the others as they are.
LEMMA Terminating ==
  ASSUME ClientTypes, NoOrphans
  PROVE  /\ Terminated(workers) \in [Gen -> {"none", "starting", "serving", "broken", "terminated"}]
         /\ \A g \in Gen : Terminated(workers)[g] \in {"none", "terminated"}
BY DEF ClientTypes, NoOrphans, Terminated

\* Failing the queue and the active call settles what was queued, and nothing else.
LEMMA Failing ==
  ASSUME ClientTypes, CallsPlaced
  PROVE  /\ FailedCalls \in [Call -> Statuses]
         /\ \A c \in Call : FailedCalls[c] # "queued"
         /\ \A c \in Call : FailedCalls[c] = "awaiting" <=> status[c] = "awaiting"
BY ClientAssumption DEF ClientTypes, CallsPlaced, FailedCalls, Rejected, Statuses

LEMMA NothingQueued ==
  ASSUME CallsPlaced, ClientTypes, status' = FailedCalls, active' = NoCall, queue' = <<>>, awaiting' = awaiting
  PROVE  CallsPlaced'
<1>1. Range(<<>>) = {} /\ IsInjective(<<>>)
  BY DEF Range, IsInjective
<1> QED
  BY <1>1, Failing, ClientAssumption DEF CallsPlaced

\* A replacement: nobody who waits was let through by the worker that goes.
LEMMA Restarting ==
  ASSUME ClientInv, Restart, worker # 0, MailTyped', TurnOver \/ interrupted', interrupted => interrupted'
  PROVE  ClientInv'
<1>0. ClientTypes /\ CallsPlaced /\ NoOrphans /\ (interrupted \/ Epochs) /\ MaxWorkers \in Nat
  BY ClientAssumption DEF ClientInv
<1>1. generation + 1 \in Gen /\ generation \in 1 .. MaxWorkers /\ Gen = 1 .. MaxWorkers + 1
  BY <1>0 DEF ClientTypes, Gen
<1>2. Range(<<>>) = {} /\ <<>> \in Seq(Call)
  BY DEF Range
<1>3. ClientTypes'
  <2>1. generation' \in Gen /\ worker' \in {0, generation'} /\ worker' \in 0 .. MaxWorkers
    BY <1>0, <1>1 DEF Restart
  <2>2. ready' \in [Gen -> {"pending", "resolved", "rejected"}]
    BY <1>0 DEF Restart, ClientTypes
  <2>3. workers' \in [Gen -> {"none", "starting", "serving", "broken", "terminated"}]
    BY <1>0, Terminating DEF Restart
  <2>4. active' \in Call \cup {NoCall} /\ queue' \in Seq(Call) /\ awaiting' \in Seq(Call)
    BY <1>0, <1>2 DEF Restart, ClientTypes
  <2>5. status' \in [Call -> Statuses] /\ sentAt' \in [Call -> Gen]
    BY <1>0, Failing DEF Restart, ClientTypes
  <2> QED
    BY <2>1, <2>2, <2>3, <2>4, <2>5 DEF ClientTypes
<1>4. Attended' /\ CallsPlaced'
  BY <1>0, NothingQueued DEF Restart, Attended
<1>5. NoOrphans'
  BY <1>0, <1>1, Terminating DEF Restart, NoOrphans
<1>6. interrupted' \/ Epochs'
  <2> SUFFICES ASSUME TurnOver
               PROVE  Epochs'
    OBVIOUS
  <2>1. \A c \in Range(awaiting) : c \in Call /\ ready[sentAt[c]] = "pending" /\ sentAt[c] \in Gen
    BY <1>0, RangeIs DEF TurnOver, Due, ClientTypes
  <2>2. ready' = ready \/ ready' = [ready EXCEPT ![generation + 1] = "rejected"]
    BY DEF Restart
  <2>3. \A c \in Range(awaiting) : ready'[sentAt[c]] # "resolved"
    BY <1>0, <2>1, <2>2 DEF ClientTypes
  <2> QED
    BY <1>2, <2>3 DEF Epochs, Restart
<1> QED
  BY <1>3, <1>4, <1>5, <1>6 DEF ClientInv

LEMMA Sending ==
  ASSUME ClientInv, NEW c \in Call, Send(c), interrupted' = interrupted
  PROVE  ClientInv'
<1>0. ClientTypes /\ CallsPlaced /\ (interrupted \/ Epochs)
  BY DEF ClientInv
<1>1. c \notin Range(awaiting) /\ c \notin Range(queue) /\ c # active
  BY <1>0 DEF Send, CallsPlaced
<1>2. /\ awaiting' \in Seq(Call) /\ IsInjective(awaiting')
      /\ Range(awaiting') = Range(awaiting) \cup {c}
  BY <1>0, <1>1, Appended DEF Send, ClientTypes, CallsPlaced
<1>3. ClientTypes'
  BY <1>0, <1>2 DEF Send, ClientTypes, Statuses, workerVars
<1>4. CallsPlaced'
  BY <1>0, <1>1, <1>2 DEF Send, CallsPlaced, ClientTypes
<1>5. Epochs => Epochs'
  BY <1>0, <1>1, <1>2, RangeIs DEF Send, Epochs, ClientTypes
<1> QED
  BY <1>0, <1>3, <1>4, <1>5
  DEF Send, ClientInv, MailTyped, Attended, NoOrphans, workerVars
\* dispatchNext on a queue q of calls that may run in this epoch.
LEMMA DispatchKeeps ==
  ASSUME ClientInv, NEW q \in Seq(Call), IsInjective(q), NEW base \in [Call -> Statuses],
         \A c \in Call : base[c] = "queued" <=> c \in Range(q),
         DispatchNext(q, base), worker # 0, isReady',
         UNCHANGED <<generation, worker, sentAt, workers, interrupted>>,
         MailTyped', ready' \in [Gen -> {"pending", "resolved", "rejected"}],
         awaiting' \in Seq(Call), IsInjective(awaiting'),
         \A c \in Call : base[c] = "awaiting" <=> c \in Range(awaiting'),
         interrupted \/ \A c \in Range(q) : sentAt[c] = generation,
         interrupted \/ \A c \in Range(awaiting') : sentAt[c] = generation \/ ready'[sentAt[c]] # "resolved"
  PROVE  ClientInv'
<1>0. ClientTypes /\ NoOrphans /\ NoCall \notin Call
  BY ClientAssumption DEF ClientInv
<1>1. /\ queue' \in Seq(Call) /\ IsInjective(queue')
      /\ active' \in Call \cup {NoCall} /\ active' \notin Range(queue')
      /\ Range(queue') \cup ({active'} \ {NoCall}) \subseteq Range(q)
      /\ status' \in [Call -> Statuses]
      /\ \A c \in Call : status'[c] = "awaiting" <=> base[c] = "awaiting"
      /\ \A c \in Call : status'[c] = "queued" <=> c = active' \/ c \in Range(queue')
  BY <1>0, Dispatching
<1>2. ClientTypes'
  BY <1>0, <1>1 DEF ClientTypes
<1>3. CallsPlaced'
  BY <1>1 DEF CallsPlaced
<1>4. interrupted \/ Epochs'
  BY <1>1 DEF Epochs
<1> QED
  BY <1>0, <1>2, <1>3, <1>4 DEF ClientInv, Attended, NoOrphans

LEMMA Continuing ==
  ASSUME ClientInv, Continue, interrupted' = interrupted
  PROVE  ClientInv'
<1>0. ClientTypes /\ CallsPlaced /\ (interrupted \/ Epochs) /\ NoCall \notin Call /\ MailTyped
  BY ClientAssumption DEF ClientInv
<1>1. PICK n \in DOMAIN awaiting :
        LET c == awaiting[n]
            fails == ready[sentAt[c]] = "rejected" \/ closed \/ c \in aborted
            free == isReady /\ active = NoCall /\ worker # 0
        IN /\ Due(c)
           /\ awaiting' = RemoveAt(awaiting, n)
           /\ \/ /\ fails
                 /\ status' = Rejected({c}, status)
                 /\ UNCHANGED <<queue, active, held>>
              \/ /\ ~fails /\ free
                 /\ DispatchNext(Append(queue, c), [status EXCEPT ![c] = "queued"])
              \/ /\ ~fails /\ ~free
                 /\ queue' = Append(queue, c)
                 /\ status' = [status EXCEPT ![c] = "queued"]
                 /\ UNCHANGED <<active, held>>
           /\ UNCHANGED <<generation, worker, ready, isReady, closed, sentAt,
                          aborted, cancelled, workers, mail>>
  BY DEF Continue
<1> DEFINE c == awaiting[n]
           base == [status EXCEPT ![c] = "queued"]
<1>2. c \in Call /\ c \in Range(awaiting) /\ status[c] = "awaiting" /\ c \notin Range(queue) /\ c # active
  <2>1. awaiting \in Seq(Call) /\ c \in Call
    BY <1>0 DEF ClientTypes
  <2>2. c \in Range(awaiting)
    BY <2>1, RangeIs
  <2>3. status[c] = "awaiting"
    BY <1>0, <2>1, <2>2 DEF CallsPlaced
  <2>4. status[c] # "queued"
    BY <2>3
  <2> HIDE DEF c
  <2> QED
    BY <1>0, <2>1, <2>2, <2>3, <2>4 DEF CallsPlaced
<1>3. /\ awaiting' \in Seq(Call) /\ IsInjective(awaiting')
      /\ Range(awaiting') = Range(awaiting) \ {c}
  BY <1>0, <1>1, TakenOut DEF ClientTypes, CallsPlaced
<1>4. /\ Append(queue, c) \in Seq(Call) /\ IsInjective(Append(queue, c))
      /\ Range(Append(queue, c)) = Range(queue) \cup {c}
  BY <1>0, <1>2, Appended DEF ClientTypes, CallsPlaced
<1>5. base \in [Call -> Statuses] /\ \A d \in Call : base[d] = IF d = c THEN "queued" ELSE status[d]
  BY <1>0, <1>2 DEF ClientTypes, Statuses
<1>6. UNCHANGED <<generation, worker, ready, isReady, sentAt, workers, mail, interrupted>>
  BY <1>1
<1>7. ready[sentAt[c]] # "rejected" => interrupted \/ sentAt[c] = generation
  <2>1. sentAt[c] \in Gen /\ ready[sentAt[c]] \in {"pending", "resolved", "rejected"}
    BY <1>0, <1>2 DEF ClientTypes
  <2>2. ready[sentAt[c]] # "pending"
    BY <1>1 DEF Due
  <2> QED
    BY <1>0, <1>2, <2>1, <2>2 DEF Epochs
<1> HIDE DEF c, base
<1>8. CASE status' = Rejected({c}, status) /\ UNCHANGED <<queue, active, held>>
  <2>1. status' = [d \in Call |-> IF d = c THEN "rejected" ELSE status[d]]
    BY <1>8 DEF Rejected
  <2>2. ClientTypes'
    BY <1>0, <1>3, <1>6, <1>8, <2>1 DEF ClientTypes, Statuses
  <2>3. CallsPlaced'
    BY <1>0, <1>2, <1>3, <1>8, <2>1 DEF CallsPlaced
  <2>4. interrupted \/ Epochs'
    BY <1>0, <1>3, <1>6, <1>8 DEF Epochs
  <2> QED
    BY <1>6, <1>8, <2>2, <2>3, <2>4 DEF ClientInv, MailTyped, Attended, NoOrphans
<1>9. CASE /\ ready[sentAt[c]] # "rejected" /\ isReady /\ active = NoCall /\ worker # 0
           /\ DispatchNext(Append(queue, c), base)
  <2>1. \A d \in Call : base[d] = "queued" <=> d \in Range(Append(queue, c))
    BY <1>0, <1>2, <1>4, <1>5, <1>9 DEF CallsPlaced
  <2>2. \A d \in Call : base[d] = "awaiting" <=> d \in Range(awaiting')
    BY <1>0, <1>3, <1>5 DEF CallsPlaced
  <2>3. interrupted \/ \A d \in Range(Append(queue, c)) : sentAt[d] = generation
    BY <1>0, <1>4, <1>7, <1>9 DEF Epochs
  <2>4. interrupted \/ \A d \in Range(awaiting') : sentAt[d] = generation \/ ready'[sentAt[d]] # "resolved"
    BY <1>0, <1>3, <1>6 DEF Epochs
  <2>5. MailTyped' /\ isReady' /\ ready' \in [Gen -> {"pending", "resolved", "rejected"}]
    BY <1>0, <1>6, <1>9 DEF MailTyped, ClientTypes
  <2> QED
    BY <1>3, <1>4, <1>5, <1>6, <1>9, <2>1, <2>2, <2>3, <2>4, <2>5, DispatchKeeps
<1>10. CASE /\ ready[sentAt[c]] # "rejected" /\ queue' = Append(queue, c)
            /\ status' = base /\ UNCHANGED <<active, held>>
  <2>1. ClientTypes'
    BY <1>0, <1>3, <1>4, <1>5, <1>6, <1>10 DEF ClientTypes
  <2>2. CallsPlaced'
    BY <1>0, <1>2, <1>3, <1>4, <1>5, <1>10 DEF CallsPlaced
  <2>3. interrupted \/ Epochs'
    BY <1>0, <1>3, <1>4, <1>6, <1>7, <1>10 DEF Epochs
  <2> QED
    BY <1>6, <1>10, <2>1, <2>2, <2>3 DEF ClientInv, MailTyped, Attended, NoOrphans
<1> QED
  BY <1>1, <1>8, <1>9, <1>10 DEF c, base

LEMMA Closing ==
  ASSUME ClientInv, Close, interrupted' = interrupted
  PROVE  ClientInv'
<1>0. ClientTypes /\ CallsPlaced /\ NoOrphans /\ (interrupted \/ Epochs) /\ MaxWorkers \in Nat
  BY ClientAssumption DEF ClientInv
<1>1. Range(<<>>) = {} /\ <<>> \in Seq(Call)
  BY DEF Range
<1>2. ClientTypes'
  BY <1>0, <1>1, Failing, Terminating DEF Close, ClientTypes
<1>3. Attended' /\ CallsPlaced'
  BY <1>0, NothingQueued DEF Close, Attended
<1>4. NoOrphans' /\ MailTyped'
  BY <1>0, Terminating DEF Close, NoOrphans, ClientInv, MailTyped
<1>5. Epochs => Epochs'
  <2>1. \A c \in Range(awaiting) : sentAt[c] \in Gen
    BY <1>0, RangeIs DEF ClientTypes
  <2> QED
    BY <1>0, <1>1, <2>1 DEF Close, Epochs, ClientTypes
<1> QED
  BY <1>0, <1>2, <1>3, <1>4, <1>5 DEF ClientInv

LEMMA Uninitialized ==
  ASSUME ClientInv, FailInitialization, worker # 0, ~isReady, MailTyped', interrupted' = interrupted
  PROVE  ClientInv'
<1>0. ClientTypes /\ CallsPlaced /\ NoOrphans /\ Attended /\ (interrupted \/ Epochs) /\ MaxWorkers \in Nat
  BY ClientAssumption DEF ClientInv
<1>1. ClientTypes'
  BY <1>0, Terminating DEF FailInitialization, ClientTypes
<1>2. Attended' /\ CallsPlaced'
  BY <1>0 DEF FailInitialization, Attended, CallsPlaced
<1>3. NoOrphans'
  BY <1>0, Terminating DEF FailInitialization, NoOrphans
<1>4. Epochs => Epochs'
  <2>1. \A c \in Range(awaiting) : sentAt[c] \in Gen
    BY <1>0, RangeIs DEF ClientTypes
  <2> QED
    BY <1>0, <2>1 DEF FailInitialization, Epochs, ClientTypes
<1> QED
  BY <1>0, <1>1, <1>2, <1>3, <1>4 DEF ClientInv

LEMMA Readied ==
  ASSUME ClientInv, OnReady(worker), worker # 0, MailTyped', interrupted' = interrupted
  PROVE  ClientInv'
<1>0. ClientTypes /\ CallsPlaced /\ NoOrphans /\ (interrupted \/ Epochs) /\ worker = generation
  BY DEF ClientInv, ClientTypes
<1>1. ready' = [ready EXCEPT ![worker] = "resolved"] /\ ready' \in [Gen -> {"pending", "resolved", "rejected"}]
  BY <1>0 DEF OnReady, ClientTypes
<1>2. interrupted \/ \A c \in Range(awaiting) : sentAt[c] = generation \/ ready'[sentAt[c]] # "resolved"
  <2>1. \A c \in Range(awaiting) : sentAt[c] \in Gen
    BY <1>0, RangeIs DEF ClientTypes
  <2> QED
    BY <1>0, <1>1, <2>1 DEF Epochs, ClientTypes
<1>3. isReady' /\ UNCHANGED <<generation, worker, sentAt, workers, awaiting>>
  BY DEF OnReady
<1>4. CASE active = NoCall /\ DispatchNext(queue, status)
  <2>1. \A c \in Call : status[c] = "queued" <=> c \in Range(queue)
    BY <1>0, <1>4, ClientAssumption DEF CallsPlaced
  <2>2. \A c \in Call : status[c] = "awaiting" <=> c \in Range(awaiting)
    BY <1>0 DEF CallsPlaced
  <2>3. queue \in Seq(Call) /\ awaiting \in Seq(Call) /\ status \in [Call -> Statuses]
    BY <1>0 DEF ClientTypes
  <2>4. IsInjective(queue) /\ IsInjective(awaiting)
    BY <1>0 DEF CallsPlaced
  <2>5. interrupted \/ \A c \in Range(queue) : sentAt[c] = generation
    BY <1>0 DEF Epochs
  <2> QED
    BY <1>1, <1>2, <1>3, <1>4, <2>1, <2>2, <2>3, <2>4, <2>5, DispatchKeeps
<1>5. CASE active # NoCall /\ UNCHANGED <<active, queue, status, held>>
  BY <1>0, <1>1, <1>2, <1>3, <1>5
  DEF ClientInv, ClientTypes, Attended, CallsPlaced, NoOrphans, Epochs
<1> QED
  BY <1>4, <1>5 DEF OnReady

LEMMA Responding ==
  ASSUME ClientInv, NEW m \in Message, m.type \in {"ok", "failed"}, m.call # NoCall, OnResponse(m),
         worker # 0, MailTyped', interrupted' = interrupted
  PROVE  ClientInv'
<1>0. /\ ClientTypes /\ CallsPlaced /\ NoOrphans /\ Attended /\ (interrupted \/ Epochs)
      /\ active = m.call /\ active # NoCall /\ active \in Call
  BY DEF ClientInv, OnResponse, ClientTypes
<1> DEFINE told == IF m.type = "failed" \/ active \in cancelled THEN "rejected" ELSE "resolved"
           base == [status EXCEPT ![active] = told]
<1>1. DispatchNext(queue, base)
  BY DEF OnResponse
<1>2. base \in [Call -> Statuses] /\ told \in {"resolved", "rejected"}
      /\ \A c \in Call : base[c] = IF c = active THEN told ELSE status[c]
  BY <1>0 DEF ClientTypes, Statuses
<1> HIDE DEF base, told
<1>3. \A c \in Call : base[c] = "queued" <=> c \in Range(queue)
  BY <1>0, <1>2 DEF CallsPlaced
<1>4. \A c \in Call : base[c] = "awaiting" <=> c \in Range(awaiting)
  BY <1>0, <1>2 DEF CallsPlaced
<1>5. queue \in Seq(Call) /\ awaiting \in Seq(Call) /\ IsInjective(queue) /\ IsInjective(awaiting)
  BY <1>0 DEF ClientTypes, CallsPlaced
<1>6. /\ UNCHANGED <<generation, worker, ready, isReady, sentAt, workers, awaiting>> /\ isReady'
      /\ ready \in [Gen -> {"pending", "resolved", "rejected"}]
  BY <1>0 DEF OnResponse, Attended, ClientTypes
<1>7. interrupted \/ \A c \in Range(queue) : sentAt[c] = generation
  BY <1>0 DEF Epochs
<1>8. interrupted \/ \A c \in Range(awaiting') : sentAt[c] = generation \/ ready'[sentAt[c]] # "resolved"
  BY <1>0, <1>6 DEF Epochs
<1> QED
  BY <1>1, <1>2, <1>3, <1>4, <1>5, <1>6, <1>7, <1>8, DispatchKeeps
\* Steps that change nothing of the client's but what it ignores.
LEMMA Unchanged ==
  ASSUME ClientInv, MailTyped', interrupted' = interrupted,
         UNCHANGED <<generation, worker, ready, isReady, active, queue, awaiting, status, sentAt, workers>>
  PROVE  ClientInv'
BY DEF ClientInv, ClientTypes, Attended, CallsPlaced, NoOrphans, Epochs

LEMMA Delivering ==
  ASSUME ClientInv, NEW g \in Gen, Deliver(g), interrupted' = interrupted
  PROVE  ClientInv'
<1>0. MailTyped /\ mail[g] # <<>> /\ g # 0
  BY DEF ClientInv, Deliver, Gen
<1> DEFINE m == Head(mail[g])
<1>1. m \in Mailed /\ Tail(mail[g]) \in Seq(Mailed)
  BY <1>0 DEF MailTyped
<1>2. MailTyped'
  BY <1>0, <1>1 DEF Deliver, MailTyped
<1>3. \/ Ignored
      \/ g = worker /\ OnReady(g)
      \/ g = worker /\ ~isReady /\ FailInitialization
      \/ g = worker /\ Restart
      \/ g = worker /\ m.type \in {"ok", "failed"} /\ OnResponse(m)
  BY DEF Deliver, Stale
<1>4. CASE Ignored
  BY <1>2, <1>4, Unchanged DEF Ignored
<1>5. CASE g = worker /\ OnReady(g)
  BY <1>0, <1>2, <1>5, Readied
<1>6. CASE g = worker /\ ~isReady /\ FailInitialization
  BY <1>0, <1>2, <1>6, Uninitialized
<1>7. CASE g = worker /\ Restart
  BY <1>0, <1>2, <1>7, Restarting DEF Deliver
<1>8. CASE g = worker /\ m.type \in {"ok", "failed"} /\ OnResponse(m)
  <2>1. m \in Message /\ m.call # NoCall
    BY <1>1, <1>8, ClientAssumption DEF Mailed
  <2> QED
    BY <1>0, <1>2, <1>8, <2>1, Responding
<1> QED
  BY <1>3, <1>4, <1>5, <1>6, <1>7, <1>8

LEMMA Aborting ==
  ASSUME ClientInv, NEW c \in Call, Abort(c), interrupted' = (interrupted \/ ~TurnOver)
  PROVE  ClientInv'
<1>0. /\ ClientTypes /\ CallsPlaced /\ NoOrphans /\ Attended /\ (interrupted \/ Epochs)
      /\ NoCall \notin Call /\ MailTyped'
  BY ClientAssumption DEF ClientInv, Abort, MailTyped
<1>1. CASE UNCHANGED <<generation, worker, ready, isReady, active, queue, awaiting, status, sentAt, workers>>
  BY <1>0, <1>1 DEF ClientInv, ClientTypes, Attended, CallsPlaced, NoOrphans, Epochs
<1>2. CASE c = active /\ Restart
  <2>1. worker # 0
    BY <1>0, <1>2 DEF Attended
  <2> QED
    BY <1>0, <1>2, <2>1, Restarting
<1>3. ASSUME NEW n \in DOMAIN queue, queue[n] = c, queue' = RemoveAt(queue, n), status' = Rejected({c}, status),
             UNCHANGED <<generation, worker, ready, isReady, active, awaiting, sentAt, workers>>, c # active
      PROVE  ClientInv'
  <2>1. queue \in Seq(Call) /\ IsInjective(queue) /\ c \in Range(queue)
    BY <1>0, <1>3, RangeIs DEF ClientTypes, CallsPlaced
  <2>2. queue' \in Seq(Call) /\ IsInjective(queue') /\ Range(queue') = Range(queue) \ {c}
    BY <1>3, <2>1, TakenOut
  <2>3. status' = [d \in Call |-> IF d = c THEN "rejected" ELSE status[d]] /\ status[c] = "queued"
    BY <1>0, <1>3, <2>1 DEF Rejected, CallsPlaced
  <2>4. ClientTypes'
    <3>1. status \in [Call -> Statuses]
      BY <1>0 DEF ClientTypes
    <3>2. status' \in [Call -> Statuses]
      BY <2>3, <3>1 DEF Statuses
    <3> QED
      BY <1>0, <1>3, <2>2, <3>2 DEF ClientTypes
  <2>5. CallsPlaced'
    BY <1>0, <1>3, <2>1, <2>2, <2>3 DEF CallsPlaced
  <2>6. Epochs => Epochs'
    BY <1>3, <2>2 DEF Epochs
  <2> QED
    BY <1>0, <1>3, <2>4, <2>5, <2>6 DEF ClientInv, Attended, NoOrphans
<1> QED
  BY <1>1, <1>2, <1>3 DEF Abort

\* What a worker does changes its own state and posts a message.
LEMMA Working ==
  ASSUME ClientInv, UNCHANGED clientVars, interrupted' = interrupted, MailTyped',
         workers' \in [Gen -> {"none", "starting", "serving", "broken", "terminated"}],
         \A g \in Gen : workers[g] \in {"none", "terminated"} => workers'[g] = workers[g]
  PROVE  ClientInv'
BY DEF ClientInv, ClientTypes, Attended, CallsPlaced, NoOrphans, Epochs, clientVars

LEMMA Posting ==
  ASSUME MailTyped, NEW g \in Gen, NEW m \in Mailed, Mail(g, m)
  PROVE  MailTyped'
<1>1. Append(mail[g], m) \in Seq(Mailed)
  BY DEF MailTyped
<1> QED
  BY <1>1 DEF MailTyped, Mail

LEMMA ClientInvStep == ClientInv /\ [Next]_vars => ClientInv'
<1> SUFFICES ASSUME ClientInv, [Next]_vars
             PROVE  ClientInv'
  OBVIOUS
<1>0. MailTyped /\ ClientTypes /\ Attended /\ NoCall \notin Call
  BY ClientAssumption DEF ClientInv
<1>1. CASE UNCHANGED vars
  BY <1>1 DEF vars, ClientInv, ClientTypes, MailTyped, Attended, CallsPlaced, NoOrphans, Epochs
<1>2. ASSUME NEW c \in Call, Abort(c), interrupted' = (interrupted \/ ~TurnOver)
      PROVE  ClientInv'
  BY <1>2, Aborting
<1>3. CASE Timeout /\ UNCHANGED interrupted
  <2>1. worker # 0 /\ TurnOver /\ Restart /\ MailTyped'
    BY <1>0, <1>3, ClientAssumption DEF Timeout, Attended, MailTyped
  <2> QED
    BY <1>3, <2>1, Restarting
<1>4. ASSUME NEW g \in Gen, Initialize(g), UNCHANGED interrupted
      PROVE  ClientInv'
  <2>1. Posts("ready", NoCall) \in Mailed /\ Posts("init-error", NoCall) \in Mailed
    BY DEF Posts, Mailed, Message
  <2>2. MailTyped' /\ UNCHANGED clientVars
    BY <1>0, <1>4, <2>1, Posting DEF Initialize, Mail
  <2> QED
    BY <1>0, <1>4, <2>2, Working DEF Initialize, ClientTypes
<1>5. ASSUME NEW g \in Gen, NEW c \in Call, Answer(g, c) \/ Trap(g, c), UNCHANGED interrupted
      PROVE  ClientInv'
  <2>1. \A type \in {"ok", "failed", "fatal"} : Posts(type, c) \in Mailed
    BY DEF Posts, Mailed, Message
  <2>2. MailTyped' /\ UNCHANGED clientVars
    BY <1>0, <1>5, <2>1, Posting DEF Answer, Trap, Mail
  <2> QED
    BY <1>0, <1>5, <2>2, Working DEF Answer, Trap, ClientTypes
<1>6. ASSUME NEW g \in Gen, Uncaught(g), UNCHANGED interrupted
      PROVE  ClientInv'
  <2>1. Posts("error", NoCall) \in Mailed
    BY DEF Posts, Mailed, Message
  <2>2. MailTyped' /\ UNCHANGED clientVars
    BY <1>0, <1>6, <2>1, Posting DEF Uncaught, Mail
  <2> QED
    BY <1>0, <1>6, <2>2, Working DEF Uncaught, ClientTypes
<1>7. CASE Continue /\ UNCHANGED interrupted
  BY <1>7, Continuing
<1>8. CASE Close /\ UNCHANGED interrupted
  BY <1>8, Closing
<1>9. ASSUME NEW c \in Call, Send(c), UNCHANGED interrupted
      PROVE  ClientInv'
  BY <1>9, Sending
<1>10. ASSUME NEW g \in Gen, Deliver(g), UNCHANGED interrupted
       PROVE  ClientInv'
  BY <1>10, Delivering
<1> QED
  BY <1>1, <1>2, <1>3, <1>4, <1>5, <1>6, <1>7, <1>8, <1>9, <1>10 DEF Next

-----------------------------------------------------------------------------
(* The theorems.                                                           *)

LEMMA ClientInvHolds == Spec => []ClientInv
BY ClientInvInit, ClientInvStep, PTL DEF Spec

\* Every open call waits in exactly one place, and a settled one in none
\* (send, #dispatchNext, #failCalls and #restart of worker-client.ts).
THEOREM CallsStayPlaced == Spec => []CallsPlaced
<1>1. ClientInv => CallsPlaced
  BY DEF ClientInv
<1> QED
  BY ClientInvHolds, <1>1, PTL

\* Workers that were replaced, failed or closed are terminated (worker-client.ts).
THEOREM WorkersTerminated == Spec => []NoOrphans
<1>1. ClientInv => NoOrphans
  BY DEF ClientInv
<1> QED
  BY ClientInvHolds, <1>1, PTL

\* A call goes to the kernel its handles belong to, unless an abort came between its
\* send and its continuation (worker-client.ts).
THEOREM EpochsRespected == Spec => []EpochRespectedByTurns
<1>1. ClientInv => EpochRespectedByTurns
  BY DEF ClientInv, Epochs, EpochRespectedByTurns, EpochRespected
<1> QED
  BY ClientInvHolds, <1>1, PTL

-----------------------------------------------------------------------------
(* Who serves the active call.                                             *)

\* Only a response or the news of a crash names a call.
Letter == {m \in Message : /\ m.type \in {"ok", "failed", "fatal"} => m.call \in Call
                           /\ m.type \in {"ready", "init-error", "error"} => m.call = NoCall}

\* The calls that messages in transit name, and that none is named twice.
Named(q) == {c \in Call : \E n \in DOMAIN q : q[n].call = c}
NamedOnce(q) ==
  \A i, j \in DOMAIN q : q[i].call # NoCall /\ q[i].call = q[j].call => i = j

\* A worker that is yet to be started knows nothing.
Unstarted == \A g \in Gen : g > generation => held[g] = {} /\ mail[g] = <<>>

ServedInv ==
  /\ held \in [Gen -> SUBSET Call] /\ mail \in [Gen -> Seq(Letter)]
  /\ Unstarted /\ (closed => worker = 0)
  /\ worker # 0 => /\ NamedOnce(mail[worker])
                   /\ held[worker] \cup Named(mail[worker]) = {active} \ {NoCall}
                   /\ held[worker] \cap Named(mail[worker]) = {}
  /\ WorkConserving

LEMMA ServedInvInit == Init => ServedInv
<1> SUFFICES ASSUME Init
             PROVE  ServedInv
  OBVIOUS
<1>1. <<>> \in Seq(Letter) /\ Named(<<>>) = {} /\ NamedOnce(<<>>)
  BY DEF Named, NamedOnce
<1>2. worker # 0 => worker \in Gen
  BY ClientAssumption DEF Init, Gen
<1> QED
  BY <1>1, <1>2 DEF Init, ServedInv, Unstarted, WorkConserving

\* The first message is taken out.
LEMMA Received ==
  ASSUME NEW q \in Seq(Letter), q # <<>>, NamedOnce(q)
  PROVE  /\ Head(q) \in Letter /\ Tail(q) \in Seq(Letter) /\ NamedOnce(Tail(q))
         /\ Named(Tail(q)) = Named(q) \ {Head(q).call}
         /\ Head(q).call \in Call => Head(q).call \in Named(q)
<1> DEFINE t == Tail(q)
           l == Len(q)
<1>1. /\ Head(q) = q[1] /\ Head(q) \in Letter /\ t \in Seq(Letter) /\ Len(t) = l - 1
      /\ l \in Nat /\ l >= 1 /\ DOMAIN q = 1 .. l /\ DOMAIN t = 1 .. Len(t)
      /\ \A i \in 1 .. Len(t) : t[i] = q[i + 1]
  BY HeadTailProperties
<1> HIDE DEF t, l
<1>2. NamedOnce(t)
  <2> SUFFICES ASSUME NEW i \in 1 .. l - 1, NEW j \in 1 .. l - 1,
                      t[i].call # NoCall, t[i].call = t[j].call
               PROVE  i = j
    BY <1>1 DEF NamedOnce
  <2>1. t[i] = q[i + 1] /\ t[j] = q[j + 1] /\ i + 1 \in 1 .. l /\ j + 1 \in 1 .. l
    BY <1>1
  <2>2. i + 1 = j + 1
    BY <1>1, <2>1 DEF NamedOnce
  <2> QED
    BY <2>2
<1>3. ASSUME NEW c \in Call
      PROVE  c \in Named(t) <=> c \in Named(q) /\ c # q[1].call
  <2>1. ASSUME NEW i \in 1 .. l - 1, t[i].call = c
        PROVE  c \in Named(q) /\ c # q[1].call
    <3>1. t[i] = q[i + 1] /\ i + 1 \in 1 .. l /\ 1 \in 1 .. l /\ i + 1 # 1
      BY <1>1
    <3>2. c # NoCall
      BY ClientAssumption
    <3>3. c # q[1].call
      BY <1>1, <2>1, <3>1, <3>2 DEF NamedOnce
    <3> QED
      BY <1>1, <2>1, <3>1, <3>3 DEF Named
  <2>2. ASSUME NEW i \in 1 .. l, q[i].call = c, c # q[1].call
        PROVE  c \in Named(t)
    <3>1. i - 1 \in 1 .. l - 1 /\ i - 1 + 1 = i
      BY <1>1, <2>2
    <3>2. t[i - 1] = q[i]
      BY <1>1, <3>1
    <3> QED
      BY <1>1, <2>2, <3>1, <3>2 DEF Named
  <2> QED
    BY <1>1, <2>1, <2>2 DEF Named
<1>4. Named(t) = Named(q) \ {q[1].call}
  BY <1>3 DEF Named
<1>5. q[1].call \in Call => q[1].call \in Named(q)
  BY <1>1 DEF Named
<1> QED
  BY <1>1, <1>2, <1>4, <1>5 DEF t

\* A message is posted.
LEMMA Sent ==
  ASSUME NEW q \in Seq(Letter), NamedOnce(q), NEW m \in Letter, m.call \notin Named(q)
  PROVE  /\ Append(q, m) \in Seq(Letter) /\ NamedOnce(Append(q, m))
         /\ Named(Append(q, m)) = Named(q) \cup ({m.call} \ {NoCall})
<1> DEFINE r == Append(q, m)
           l == Len(q)
<1>1. /\ r \in Seq(Letter) /\ Len(r) = l + 1 /\ l \in Nat /\ DOMAIN q = 1 .. l /\ DOMAIN r = 1 .. l + 1
      /\ \A i \in 1 .. l : r[i] = q[i]
      /\ r[l + 1] = m
  BY AppendProperties
<1> HIDE DEF r, l
<1>2. 1 .. l + 1 = 1 .. l \cup {l + 1} /\ m.call \in Call \cup {NoCall} /\ NoCall \notin Call
  BY <1>1, ClientAssumption DEF Letter, Message
<1>3. \A i \in 1 .. l : q[i].call \in Call \cup {NoCall}
  BY <1>1 DEF Letter, Message
<1>4. \A i \in 1 .. l : q[i].call # NoCall => q[i].call \in Named(q)
  BY <1>1, <1>3 DEF Named
<1>5. NamedOnce(r)
  <2> SUFFICES ASSUME NEW i \in 1 .. l + 1, NEW j \in 1 .. l + 1,
                      r[i].call # NoCall, r[i].call = r[j].call
               PROVE  i = j
    BY <1>1 DEF NamedOnce
  <2>1. CASE i \in 1 .. l /\ j \in 1 .. l
    BY <1>1, <2>1 DEF NamedOnce
  <2>2. CASE i = l + 1 /\ j \in 1 .. l
    BY <1>1, <1>4, <2>2
  <2>3. CASE j = l + 1 /\ i \in 1 .. l
    BY <1>1, <1>4, <2>3
  <2> QED
    BY <1>2, <2>1, <2>2, <2>3
<1>6. \A c \in Call : c \in Named(r) <=> c \in Named(q) \/ c = m.call
  BY <1>1, <1>2 DEF Named
<1>7. Named(r) = Named(q) \cup ({m.call} \ {NoCall})
  BY <1>2, <1>6 DEF Named
<1> QED
  BY <1>1, <1>5, <1>7 DEF r

\* The next call goes to the worker, and only an empty queue leaves it idle.
LEMMA Dispatched ==
  ASSUME NEW q \in Seq(Call), NEW base, DispatchNext(q, base), NoCall \notin Call
  PROVE  /\ active' = NoCall => queue' = <<>> /\ held' = held
         /\ active' # NoCall => active' \in Call /\ held' = [held EXCEPT ![worker] = @ \cup {active'}]
<1>1. PICK n \in 0 .. Len(q) :
        /\ queue' = SubSeq(q, n + 2, Len(q))
        /\ active' = IF n < Len(q) THEN q[n + 1] ELSE NoCall
        /\ held' = IF n < Len(q) THEN [held EXCEPT ![worker] = @ \cup {q[n + 1]}] ELSE held
  BY DEF DispatchNext
<1>2. n < Len(q) => q[n + 1] \in Call /\ q[n + 1] # NoCall
  BY <1>1
<1>3. n >= Len(q) => queue' = <<>>
  <2> SUFFICES ASSUME n >= Len(q)
               PROVE  queue' = <<>>
    OBVIOUS
  <2>1. n + 2 \in Int /\ Len(q) \in Int /\ Len(q) < n + 2
    OBVIOUS
  <2> QED
    BY <1>1, <2>1, SubSeqEmpty
<1> QED
  BY <1>1, <1>2, <1>3

\* A message of worker g is taken out.
LEMMA Fetched ==
  ASSUME ServedInv, NEW g \in Gen, mail[g] # <<>>, mail' = [mail EXCEPT ![g] = Tail(@)]
  PROVE  /\ mail' \in [Gen -> Seq(Letter)] /\ Head(mail[g]) \in Letter
         /\ \A h \in Gen : h > generation => mail'[h] = <<>>
         /\ \A h \in Gen : h # g => mail'[h] = mail[h]
         /\ g = worker => /\ NamedOnce(mail'[g])
                          /\ Named(mail'[g]) = Named(mail[g]) \ {Head(mail[g]).call}
                          /\ Head(mail[g]).call \in Call => Head(mail[g]).call = active
<1>1. /\ mail \in [Gen -> Seq(Letter)] /\ mail[g] \in Seq(Letter) /\ Head(mail[g]) \in Letter
      /\ Tail(mail[g]) \in Seq(Letter)
  BY HeadTailProperties DEF ServedInv
<1>2. mail' \in [Gen -> Seq(Letter)] /\ \A h \in Gen : mail'[h] = IF h = g THEN Tail(mail[g]) ELSE mail[h]
  BY <1>1
<1>3. g \in Int /\ ~(g > generation)
  BY DEF ServedInv, Unstarted, Gen
<1>4. \A h \in Gen : h > generation => mail'[h] = <<>>
  BY <1>2, <1>3 DEF ServedInv, Unstarted
<1>5. g = worker => /\ NamedOnce(mail'[g])
                    /\ Named(mail'[g]) = Named(mail[g]) \ {Head(mail[g]).call}
                    /\ Head(mail[g]).call \in Call => Head(mail[g]).call = active
  <2> SUFFICES ASSUME g = worker
               PROVE  /\ NamedOnce(mail'[g])
                      /\ Named(mail'[g]) = Named(mail[g]) \ {Head(mail[g]).call}
                      /\ Head(mail[g]).call \in Call => Head(mail[g]).call = active
    OBVIOUS
  <2>1. worker # 0
    BY DEF Gen
  <2>2. NamedOnce(mail[g]) /\ Named(mail[g]) \subseteq {active}
    BY <2>1 DEF ServedInv
  <2> QED
    BY <1>1, <1>2, <2>2, Received
<1> QED
  BY <1>1, <1>2, <1>4, <1>5

\* A restart: the replacement has been told nothing.
LEMMA RestartServed ==
  ASSUME ServedInv, ClientTypes, Restart, worker # 0,
         mail' = mail \/ \E g \in Gen : mail[g] # <<>> /\ mail' = [mail EXCEPT ![g] = Tail(@)]
  PROVE  ServedInv'
<1>1. generation' = generation + 1 /\ generation \in Int /\ MaxWorkers \in Nat
  BY ClientAssumption DEF Restart, ClientTypes, Gen
<1>2. mail' \in [Gen -> Seq(Letter)] /\ \A h \in Gen : h > generation => mail'[h] = <<>>
  <2>1. CASE mail' = mail
    BY <2>1 DEF ServedInv, Unstarted
  <2>2. ASSUME NEW g \in Gen, mail[g] # <<>>, mail' = [mail EXCEPT ![g] = Tail(@)]
        PROVE  mail' \in [Gen -> Seq(Letter)] /\ \A h \in Gen : h > generation => mail'[h] = <<>>
    <3>1. mail' \in [Gen -> Seq(Letter)] /\ \A h \in Gen : h # g => mail'[h] = mail[h]
      BY <2>2, Fetched
    <3>2. ~(g > generation)
      BY <2>2 DEF ServedInv, Unstarted
    <3> QED
      BY <3>1, <3>2 DEF ServedInv, Unstarted
  <2> QED
    BY <2>1, <2>2
<1>3. held' = held /\ active' = NoCall /\ queue' = <<>>
  BY DEF Restart
<1>4. worker' # 0 => worker' = generation + 1 /\ worker' \in Gen
  BY <1>1 DEF Restart, ClientTypes, Gen
<1>5. Unstarted'
  BY <1>1, <1>2, <1>3 DEF Unstarted, ServedInv, Gen
<1>6. Named(<<>>) = {} /\ NamedOnce(<<>>)
  BY DEF Named, NamedOnce
<1>7. worker' # 0 => held'[worker'] = {} /\ mail'[worker'] = <<>>
  BY <1>1, <1>2, <1>3, <1>4 DEF ServedInv, Unstarted
<1>8. closed' => worker' = 0
  BY DEF Restart, ServedInv
<1> QED
  BY <1>2, <1>3, <1>5, <1>6, <1>7, <1>8 DEF ServedInv, WorkConserving

\* A dispatch while nobody is served.
LEMMA DispatchServed ==
  ASSUME ServedInv, ClientTypes, NEW q \in Seq(Call), NEW base, DispatchNext(q, base),
         worker # 0, UNCHANGED <<generation, worker, closed>>,
         mail' \in [Gen -> Seq(Letter)], \A h \in Gen : h > generation => mail'[h] = <<>>,
         NamedOnce(mail'[worker]), held[worker] = {}, Named(mail'[worker]) = {}
  PROVE  ServedInv'
<1>1. worker \in Gen /\ generation \in Int /\ worker = generation /\ NoCall \notin Call
  BY ClientAssumption DEF ClientTypes, Gen
<1>2. /\ active' = NoCall => queue' = <<>> /\ held' = held
      /\ active' # NoCall => active' \in Call /\ held' = [held EXCEPT ![worker] = @ \cup {active'}]
  BY <1>1, Dispatched
<1>3. held' \in [Gen -> SUBSET Call] /\ held'[worker] = {active'} \ {NoCall}
      /\ \A h \in Gen : h # worker => held'[h] = held[h]
  BY <1>1, <1>2 DEF ServedInv
<1>4. Unstarted'
  BY <1>1, <1>3 DEF Unstarted, ServedInv, Gen
<1> QED
  BY <1>2, <1>3, <1>4 DEF ServedInv, WorkConserving

\* Steps that serve nobody and free nobody.
LEMMA StillServed ==
  ASSUME ServedInv, ClientTypes, UNCHANGED <<generation, active, held>>, worker' \in {0, worker}, closed' => worker' = 0,
         mail' \in [Gen -> Seq(Letter)], \A h \in Gen : h > generation => mail'[h] = <<>>,
         worker' # 0 => NamedOnce(mail'[worker]) /\ Named(mail'[worker]) = Named(mail[worker]),
         WorkConserving'
  PROVE  ServedInv'
BY DEF ServedInv, Unstarted

LEMMA ContinueServed ==
  ASSUME ServedInv, ClientTypes, Continue
  PROVE  ServedInv'
<1>1. PICK n \in DOMAIN awaiting :
        LET c == awaiting[n]
        IN /\ \/ UNCHANGED <<queue, active, held>>
              \/ /\ isReady /\ active = NoCall /\ worker # 0
                 /\ DispatchNext(Append(queue, c), [status EXCEPT ![c] = "queued"])
              \/ /\ ~(isReady /\ active = NoCall /\ worker # 0)
                 /\ UNCHANGED <<active, held>>
           /\ UNCHANGED <<generation, worker, isReady, closed, mail>>
  BY DEF Continue
<1> DEFINE c == awaiting[n]
<1>2. c \in Call /\ Append(queue, c) \in Seq(Call) /\ NoCall \notin Call
  BY ClientAssumption DEF ClientTypes
<1>3. mail' \in [Gen -> Seq(Letter)] /\ \A h \in Gen : h > generation => mail'[h] = <<>>
  BY <1>1 DEF ServedInv, Unstarted
<1>4. CASE UNCHANGED <<queue, active, held>>
  BY <1>1, <1>3, <1>4, StillServed DEF ServedInv, WorkConserving
<1>5. CASE /\ isReady /\ active = NoCall /\ worker # 0
           /\ DispatchNext(Append(queue, c), [status EXCEPT ![c] = "queued"])
  <2>1. NamedOnce(mail'[worker]) /\ held[worker] = {} /\ Named(mail'[worker]) = {}
    BY <1>1, <1>5 DEF ServedInv
  <2> QED
    BY <1>1, <1>2, <1>3, <1>5, <2>1, DispatchServed
<1>6. CASE ~(isReady /\ active = NoCall /\ worker # 0) /\ UNCHANGED <<active, held>>
  BY <1>1, <1>3, <1>6, StillServed DEF ServedInv, WorkConserving
<1> QED
  BY <1>1, <1>4, <1>5, <1>6

LEMMA DeliverServed ==
  ASSUME ServedInv, ClientTypes, Attended, NEW g \in Gen, Deliver(g)
  PROVE  ServedInv'
<1>0. g # 0 /\ generation \in Int /\ NoCall \notin Call /\ mail[g] # <<>> /\ mail' = [mail EXCEPT ![g] = Tail(@)]
  BY ClientAssumption DEF Deliver, ClientTypes, Gen
<1> DEFINE m == Head(mail[g])
<1>1. CASE Restart /\ g = worker
  BY <1>0, <1>1, RestartServed
<1>2. CASE UNCHANGED generation
  <2>1. /\ mail' \in [Gen -> Seq(Letter)] /\ m \in Letter
        /\ \A h \in Gen : h > generation => mail'[h] = <<>>
        /\ \A h \in Gen : h # g => mail'[h] = mail[h]
        /\ g = worker => /\ NamedOnce(mail'[g]) /\ Named(mail'[g]) = Named(mail[g]) \ {m.call}
                         /\ m.call \in Call => m.call = active
    BY <1>0, Fetched
  <2>2. Named(mail[g]) \subseteq Call
    BY DEF Named
  <2>3. \A h \in Gen : h = worker /\ h # g => NamedOnce(mail'[h]) /\ Named(mail'[h]) = Named(mail[h])
    BY <2>1 DEF ServedInv, Gen
  <2>4. worker # 0 => worker \in Gen
    BY DEF ClientTypes
  <2> HIDE DEF m
  <2>5. m.type \in {"ready", "init-error", "error"} => m.call \notin Call
    BY <1>0, <2>1 DEF Letter
  <2>7. CASE Ignored /\ (g # worker \/ m.call \notin Call)
    <3>1. worker # 0 => NamedOnce(mail'[worker]) /\ Named(mail'[worker]) = Named(mail[worker])
      BY <2>1, <2>2, <2>3, <2>4, <2>7
    <3> QED
      BY <2>1, <2>7, <3>1, StillServed DEF Ignored, ServedInv, WorkConserving
  <2>8. CASE g = worker /\ ~closed /\ FailInitialization
    BY <2>1, <2>8, StillServed DEF FailInitialization, ServedInv, WorkConserving
  <2>9. CASE g = worker /\ ~closed /\ m.type = "ready" /\ OnReady(g)
    <3>1. NamedOnce(mail'[worker]) /\ Named(mail'[worker]) = Named(mail[worker])
      BY <2>1, <2>2, <2>5, <2>9
    <3>2. CASE active = NoCall /\ DispatchNext(queue, status)
      <4>1. held[worker] = {} /\ Named(mail'[worker]) = {} /\ queue \in Seq(Call)
        BY <1>0, <2>9, <3>1, <3>2 DEF ServedInv, ClientTypes
      <4> QED
        BY <1>0, <2>1, <2>9, <3>1, <3>2, <4>1, DispatchServed DEF OnReady
    <3>3. CASE active # NoCall /\ UNCHANGED <<active, queue, status, held>>
      BY <2>1, <2>9, <3>1, <3>3, StillServed DEF OnReady, ServedInv, WorkConserving
    <3> QED
      BY <2>9, <3>2, <3>3 DEF OnReady
  <2>10. CASE g = worker /\ ~closed /\ m.type \in {"ok", "failed"} /\ OnResponse(m)
    <3>1. active = m.call /\ active \in Call /\ active \in Named(mail[worker]) /\ queue \in Seq(Call)
      BY <1>0, <2>1, <2>10, Received DEF Letter, OnResponse, ServedInv, ClientTypes, m
    <3>2. held[worker] = {} /\ Named(mail'[worker]) = {} /\ NamedOnce(mail'[worker])
      BY <1>0, <2>1, <2>10, <3>1 DEF ServedInv
    <3> QED
      BY <1>0, <2>1, <2>10, <3>1, <3>2, DispatchServed DEF OnResponse
  <2>11. \/ Ignored /\ (g # worker \/ m.call \notin Call)
         \/ g = worker /\ ~closed /\ FailInitialization
         \/ g = worker /\ ~closed /\ m.type = "ready" /\ OnReady(g)
         \/ g = worker /\ ~closed /\ m.type \in {"ok", "failed"} /\ OnResponse(m)
         \/ Restart
    <3>1. closed => g # worker
      BY <1>0 DEF ServedInv
    <3>2. g = worker /\ m.call # active => m.call \notin Call
      BY <2>1
    <3> QED
      BY <2>5, <3>1, <3>2 DEF Deliver, Stale, m
  <2>12. ~Restart
    BY <1>0, <1>2 DEF Restart
  <2> QED
    BY <2>7, <2>8, <2>9, <2>10, <2>11, <2>12
<1> QED
  BY <1>0, <1>1, <1>2
  DEF Deliver, Stale, ServedInv, Ignored, OnReady, OnResponse, FailInitialization

LEMMA AnswerServed ==
  ASSUME ServedInv, ClientTypes, NEW g \in Gen, NEW c \in Call, Answer(g, c) \/ Trap(g, c),
         NoOrphans
  PROVE  ServedInv'
<1>1. PICK m \in {Posts("ok", c), Posts("failed", c), Posts("fatal", c)} : Mail(g, m)
  BY DEF Answer, Trap
<1>2. m \in Letter /\ m.call = c /\ c # NoCall
  BY ClientAssumption DEF Posts, Letter, Message
<1>3. g = worker /\ c \in held[g] /\ held' = [held EXCEPT ![g] = @ \ {c}] /\ g # 0
  BY DEF Answer, Trap, NoOrphans, Gen
<1>4. mail' = [mail EXCEPT ![g] = Append(@, m)] /\ UNCHANGED clientVars
  BY <1>1 DEF Mail
<1> HIDE DEF Letter
<1>5. c \notin Named(mail[g]) /\ NamedOnce(mail[g]) /\ mail[g] \in Seq(Letter)
  BY <1>3 DEF ServedInv
<1>6. /\ Append(mail[g], m) \in Seq(Letter) /\ NamedOnce(Append(mail[g], m))
      /\ Named(Append(mail[g], m)) = Named(mail[g]) \cup {c}
  BY <1>2, <1>5, Sent
<1>7. ~(g > generation) /\ UNCHANGED <<generation, worker, active, closed, queue, isReady>>
  BY <1>3, <1>4 DEF ServedInv, Unstarted, clientVars
<1>8. held' \in [Gen -> SUBSET Call] /\ mail' \in [Gen -> Seq(Letter)]
      /\ held'[g] = held[g] \ {c} /\ mail'[g] = Append(mail[g], m)
      /\ \A h \in Gen : h # g => held'[h] = held[h] /\ mail'[h] = mail[h]
  BY <1>3, <1>4, <1>6 DEF ServedInv
<1>9. Unstarted'
  BY <1>7, <1>8 DEF Unstarted, ServedInv
<1>10. held[g] \cup Named(mail[g]) = {active} \ {NoCall} /\ held[g] \cap Named(mail[g]) = {}
  BY <1>3 DEF ServedInv
<1>11. held'[g] \cup Named(mail'[g]) = {active} \ {NoCall} /\ held'[g] \cap Named(mail'[g]) = {}
  BY <1>3, <1>6, <1>8, <1>10
<1> QED
  BY <1>3, <1>6, <1>7, <1>8, <1>9, <1>11 DEF ServedInv, WorkConserving

\* A message that names no call.
LEMMA NewsServed ==
  ASSUME ServedInv, ClientTypes, NoOrphans, NEW g \in Gen,
         NEW m \in Letter, m.call = NoCall, Mail(g, m), held' = held,
         workers[g] \notin {"none", "terminated"}
  PROVE  ServedInv'
<1>1. mail' = [mail EXCEPT ![g] = Append(@, m)] /\ UNCHANGED clientVars
  BY DEF Mail
<1>2. g = worker /\ g # 0 /\ ~(g > generation)
  BY DEF NoOrphans, Gen, ClientTypes
<1>3. NoCall \notin Named(mail[g]) /\ NamedOnce(mail[g]) /\ mail[g] \in Seq(Letter)
  BY <1>2, ClientAssumption DEF ServedInv, Named
<1>4. /\ Append(mail[g], m) \in Seq(Letter) /\ NamedOnce(Append(mail[g], m))
      /\ Named(Append(mail[g], m)) = Named(mail[g])
  <2>1. m.call \notin Named(mail[g])
    BY <1>3
  <2> HIDE DEF Letter
  <2>2. /\ Append(mail[g], m) \in Seq(Letter) /\ NamedOnce(Append(mail[g], m))
        /\ Named(Append(mail[g], m)) = Named(mail[g]) \cup ({m.call} \ {NoCall})
    BY <1>3, <2>1, Sent
  <2> QED
    BY <2>2
<1>5. mail' \in [Gen -> Seq(Letter)] /\ mail'[g] = Append(mail[g], m) /\ \A h \in Gen : h # g => mail'[h] = mail[h]
  BY <1>1, <1>4 DEF ServedInv
<1>6. /\ UNCHANGED <<generation, active, held, worker, closed, queue, isReady>>
      /\ \A h \in Gen : h > generation => mail'[h] = <<>>
  BY <1>1, <1>2, <1>5 DEF clientVars, ServedInv, Unstarted
<1> QED
  BY <1>2, <1>4, <1>5, <1>6, StillServed DEF ServedInv, WorkConserving

LEMMA AbortServed ==
  ASSUME ServedInv, ClientTypes, Attended, NoOrphans, NEW c \in Call, Abort(c)
  PROVE  ServedInv'
<1>1. mail' = mail /\ NoCall \notin Call
  BY ClientAssumption DEF Abort
<1>2. CASE c = active /\ Restart
  BY <1>1, <1>2, RestartServed DEF Attended
<1>3. CASE UNCHANGED <<generation, worker, isReady, closed, active, queue, held>>
  BY <1>1, <1>3, StillServed DEF ServedInv, Unstarted, WorkConserving
<1>4. ASSUME NEW n \in DOMAIN queue, queue' = RemoveAt(queue, n), UNCHANGED <<generation, worker, isReady, closed, active, held>>
      PROVE  ServedInv'
  <2>1. WorkConserving'
    BY <1>4 DEF ServedInv, WorkConserving
  <2> QED
    BY <1>1, <1>4, <2>1, StillServed DEF ServedInv, Unstarted
<1> QED
  BY <1>2, <1>3, <1>4 DEF Abort

LEMMA ServedInvStep == ClientInv /\ ServedInv /\ [Next]_vars => ServedInv'
<1> SUFFICES ASSUME ClientInv, ServedInv, [Next]_vars
             PROVE  ServedInv'
  OBVIOUS
<1>0. ClientTypes /\ Attended /\ NoOrphans /\ NoCall \notin Call
  BY ClientAssumption DEF ClientInv
<1>1. CASE UNCHANGED vars
  BY <1>1 DEF vars, ServedInv, Unstarted, WorkConserving
<1>2. ASSUME NEW c \in Call, Abort(c)
      PROVE  ServedInv'
  BY <1>0, <1>2, AbortServed
<1>3. ASSUME NEW c \in Call, Send(c)
      PROVE  ServedInv'
  BY <1>0, <1>3, StillServed DEF Send, workerVars, ServedInv, Unstarted, WorkConserving
<1>4. CASE Continue
  BY <1>0, <1>4, ContinueServed
<1>5. CASE Close
  BY <1>5 DEF Close, ServedInv, Unstarted, WorkConserving
<1>6. CASE Timeout
  <2>1. worker # 0 /\ Restart /\ mail' = mail
    BY <1>0, <1>6, ClientAssumption DEF Timeout, Attended
  <2> QED
    BY <1>0, <2>1, RestartServed
<1>7. ASSUME NEW g \in Gen, Deliver(g)
      PROVE  ServedInv'
  BY <1>0, <1>7, DeliverServed
<1>8. ASSUME NEW g \in Gen, Initialize(g) \/ Uncaught(g)
      PROVE  ServedInv'
  <2>1. PICK m \in {Posts("ready", NoCall), Posts("init-error", NoCall), Posts("error", NoCall)} : Mail(g, m)
    BY <1>8 DEF Initialize, Uncaught
  <2>2. m \in Letter /\ m.call = NoCall
    BY <1>0 DEF Posts, Letter, Message
  <2>3. held' = held /\ workers[g] \notin {"none", "terminated"}
    BY <1>8 DEF Initialize, Uncaught
  <2> QED
    BY <1>0, <2>1, <2>2, <2>3, NewsServed
<1>9. ASSUME NEW g \in Gen, NEW c \in Call, Answer(g, c) \/ Trap(g, c)
      PROVE  ServedInv'
  BY <1>0, <1>9, AnswerServed
<1> QED
  BY <1>1, <1>2, <1>3, <1>4, <1>5, <1>6, <1>7, <1>8, <1>9 DEF Next

LEMMA ServedInvHolds == Spec => []ServedInv
BY ServedInvInit, ServedInvStep, ClientInvHolds, PTL DEF Spec

-----------------------------------------------------------------------------
(* What a suspended send waits for.                                        *)

\* A promise is left pending only while its worker may still settle it, and
\* nothing is queued once the client is closed.
PromiseInv ==
  /\ \A c \in Call : sentAt[c] <= generation
  /\ \A g \in Gen : g < generation => ready[g] # "pending"
  /\ \A g \in Gen : g > generation => ready[g] = "pending"
  /\ worker = 0 => ready[generation] # "pending"
  /\ isReady <=> ready[generation] = "resolved"
  /\ closed => queue = <<>>

\* A suspended send is due, or waits for the worker the client has: it never
\* waits for one that was terminated.  A closed client has settled what it held
\* and lets go of the rest.
NobodyForsaken ==
  /\ \A c \in Range(awaiting) : Due(c) \/ (worker # 0 /\ sentAt[c] = worker)
  /\ closed => active = NoCall /\ queue = <<>> /\ \A c \in Range(awaiting) : Due(c)

LEMMA PromiseInvInit == Init => PromiseInv
BY ClientAssumption DEF Init, PromiseInv, Gen

\* A worker is replaced once it was ready.
LEMMA RestartPromised ==
  ASSUME PromiseInv, ClientTypes, Restart, isReady, worker # 0
  PROVE  PromiseInv'
<1>1. /\ generation \in Gen /\ generation + 1 \in Gen /\ generation' = generation + 1
      /\ \A g \in Gen : g \in Int
  BY ClientAssumption DEF ClientTypes, Restart, Gen
<1>2. /\ ready[generation] = "resolved" /\ ready[generation + 1] = "pending"
      /\ \A g \in Gen : ready'[g] = IF g = generation + 1 /\ worker' = 0 THEN "rejected" ELSE ready[g]
      /\ worker' # 0 => ready' = ready
  BY <1>1 DEF PromiseInv, ClientTypes, Restart
<1>3. isReady' = FALSE /\ queue' = <<>> /\ sentAt' = sentAt
  BY DEF Restart
<1>4. \A c \in Call : sentAt'[c] <= generation'
  BY <1>1, <1>3 DEF PromiseInv, ClientTypes
<1>5. \A g \in Gen : /\ g < generation' => ready'[g] # "pending"
                     /\ g > generation' => ready'[g] = "pending"
  BY <1>1, <1>2 DEF PromiseInv
<1>6. ready'[generation'] # "resolved" /\ (worker' = 0 => ready'[generation'] # "pending")
  BY <1>1, <1>2
<1> QED
  BY <1>3, <1>4, <1>5, <1>6 DEF PromiseInv

\* The promise of the current worker is settled, by a message or by close().
LEMMA PromiseSettled ==
  ASSUME PromiseInv, ClientTypes, UNCHANGED <<generation, sentAt>>,
         NEW s \in {"resolved", "rejected"}, ready' = [ready EXCEPT ![generation] = s],
         isReady' <=> s = "resolved", closed' => queue' = <<>>
  PROVE  PromiseInv'
<1>1. generation \in Gen /\ \A g \in Gen : g \in Int
  BY DEF ClientTypes, Gen
<1> QED
  BY <1>1 DEF PromiseInv, ClientTypes

LEMMA DeliverPromised ==
  ASSUME PromiseInv, ServedInv, ClientTypes, Attended, NEW g \in Gen, Deliver(g)
  PROVE  PromiseInv'
<1> DEFINE m == Head(mail[g])
<1>0. g # 0 /\ mail[g] # <<>> /\ NoCall \notin Call
  BY ClientAssumption DEF Deliver, Gen
<1>1. m \in Letter /\ (g = worker /\ m.call \in Call => m.call = active)
  <2>1. mail' = [mail EXCEPT ![g] = Tail(@)]
    BY DEF Deliver
  <2> QED
    BY <1>0, <2>1, Fetched
<1>2. m.type = "fatal" => m.call \in Call
  BY <1>1 DEF Letter
<1> HIDE DEF m
<1>3. g = worker => worker = generation /\ ~closed
  BY <1>0 DEF ClientTypes, ServedInv
<1>4. CASE Ignored
  BY <1>4 DEF Ignored, PromiseInv
<1>5. CASE g = worker /\ OnReady(g)
  <2>1. closed' = closed /\ UNCHANGED <<generation, sentAt>> /\ isReady' = TRUE
        /\ ready' = [ready EXCEPT ![generation] = "resolved"]
    BY <1>3, <1>5 DEF OnReady
  <2> QED
    BY <1>3, <1>5, <2>1, PromiseSettled
<1>6. CASE g = worker /\ ~isReady /\ FailInitialization
  <2>1. closed' = closed /\ UNCHANGED <<generation, sentAt>> /\ isReady' = isReady
        /\ ready' = [ready EXCEPT ![generation] = "rejected"]
    BY <1>3, <1>6 DEF FailInitialization
  <2>2. "rejected" # "resolved" /\ "rejected" \in {"resolved", "rejected"}
    OBVIOUS
  <2> QED
    BY <1>3, <1>6, <2>1, <2>2, PromiseSettled
<1>7. CASE g = worker /\ Restart /\ isReady
  BY <1>0, <1>7, RestartPromised
<1>8. CASE g = worker /\ OnResponse(m)
  BY <1>3, <1>8 DEF OnResponse, PromiseInv
<1>9. g = worker /\ m.type = "fatal" => isReady
  BY <1>0, <1>1, <1>2 DEF Attended
<1> QED
  BY <1>4, <1>5, <1>6, <1>7, <1>8, <1>9 DEF Deliver, Stale, m

LEMMA PromiseInvStep == ClientInv /\ ServedInv /\ PromiseInv /\ [Next]_vars => PromiseInv'
<1> SUFFICES ASSUME ClientInv, ServedInv, PromiseInv, [Next]_vars
             PROVE  PromiseInv'
  OBVIOUS
<1>0. ClientTypes /\ Attended /\ NoOrphans /\ NoCall \notin Call
  BY ClientAssumption DEF ClientInv
<1>1. CASE UNCHANGED vars
  BY <1>1 DEF vars, PromiseInv
<1>2. ASSUME NEW c \in Call, Abort(c)
      PROVE  PromiseInv'
  <2>1. CASE c = active /\ Restart
    BY <1>0, <1>2, <2>1, RestartPromised DEF Attended
  <2>2. CASE UNCHANGED <<generation, worker, ready, isReady, closed, sentAt>> /\ queue' = queue
    BY <2>2 DEF PromiseInv
  <2>3. ASSUME NEW n \in DOMAIN queue, UNCHANGED <<generation, worker, ready, isReady, closed, sentAt>>
        PROVE  PromiseInv'
    BY <2>3 DEF PromiseInv
  <2> QED
    BY <1>2, <2>1, <2>2, <2>3 DEF Abort
<1>3. ASSUME NEW c \in Call, Send(c)
      PROVE  PromiseInv'
  <2>1. generation \in Int /\ \A d \in Call : sentAt'[d] = IF d = c THEN generation ELSE sentAt[d]
    BY <1>0, <1>3 DEF Send, ClientTypes, Gen
  <2>2. UNCHANGED <<generation, worker, ready, isReady, closed, queue>>
    BY <1>3 DEF Send
  <2> QED
    BY <2>1, <2>2 DEF PromiseInv
<1>4. CASE Continue
  <2>1. UNCHANGED <<generation, worker, ready, isReady, closed, sentAt>> /\ (closed => queue' = queue)
    BY <1>4 DEF Continue
  <2> QED
    BY <2>1 DEF PromiseInv
<1>5. CASE Close
  <2>1. UNCHANGED <<generation, sentAt, isReady>> /\ closed' /\ queue' = <<>>
    BY <1>5 DEF Close
  <2>2. CASE ready[generation] = "pending"
    <3>1. ready' = [ready EXCEPT ![generation] = "rejected"] /\ ~isReady
      BY <1>5, <2>2 DEF Close, PromiseInv
    <3>2. "rejected" # "resolved" /\ "rejected" \in {"resolved", "rejected"}
      OBVIOUS
    <3> QED
      BY <1>0, <2>1, <3>1, <3>2, PromiseSettled
  <2>3. CASE ready[generation] # "pending"
    BY <1>5, <2>1, <2>3 DEF Close, PromiseInv
  <2> QED
    BY <2>2, <2>3
<1>6. CASE Timeout
  BY <1>0, <1>6, RestartPromised, ClientAssumption DEF Timeout, Attended
<1>7. ASSUME NEW g \in Gen, Deliver(g)
      PROVE  PromiseInv'
  BY <1>0, <1>7, DeliverPromised
<1>8. ASSUME UNCHANGED clientVars
      PROVE  PromiseInv'
  BY <1>8 DEF clientVars, PromiseInv
<1> QED
  BY <1>1, <1>2, <1>3, <1>4, <1>5, <1>6, <1>7, <1>8
  DEF Next, Initialize, Uncaught, Answer, Trap, Mail

LEMMA PromiseInvHolds == Spec => []PromiseInv
BY PromiseInvInit, PromiseInvStep, ClientInvHolds, ServedInvHolds, PTL DEF Spec

-----------------------------------------------------------------------------
(* The theorems on service.                                                *)

\* The client never sits on a queue with a free worker, whatever wakes it
\* (send, #dispatchNext and the message handler of worker-client.ts).
THEOREM QueueNeverStalls == Spec => []WorkConserving
<1>1. ServedInv => WorkConserving
  BY DEF ServedInv
<1> QED
  BY ServedInvHolds, <1>1, PTL

\* The active call is with the worker, or its answer or the news of a crash is
\* on the way, and a worker holds no other call (worker-client.ts, worker-entry.ts).
THEOREM ActiveStaysServed == Spec => []ActiveIsServed
<1>1. ServedInv => ActiveIsServed
  BY DEF ServedInv, ActiveIsServed, Named
<1> QED
  BY ServedInvHolds, <1>1, PTL

\* No send waits for a worker that is gone, and a closed client holds no call:
\* what CloseSettles needs besides fairness (#restart, #failInitialization and
\* close of worker-client.ts).
THEOREM NobodyIsForsaken == Spec => []NobodyForsaken
<1>1. ClientInv /\ ServedInv /\ PromiseInv => NobodyForsaken
  <2> SUFFICES ASSUME ClientInv, ServedInv, PromiseInv
               PROVE  NobodyForsaken
    OBVIOUS
  <2>0. ClientTypes /\ Attended
    BY DEF ClientInv
  <2>1. ASSUME NEW c \in Range(awaiting)
        PROVE  Due(c) \/ (worker # 0 /\ sentAt[c] = worker)
    <3>1. c \in Call /\ sentAt[c] \in Gen
      BY <2>0, <2>1, RangeIs DEF ClientTypes
    <3>2. sentAt[c] = generation \/ sentAt[c] < generation
      BY <2>0, <3>1 DEF PromiseInv, ClientTypes, Gen
    <3>3. CASE sentAt[c] = generation
      <4>1. worker = 0 => ready[generation] # "pending"
        BY DEF PromiseInv
      <4> QED
        BY <2>0, <3>3, <4>1 DEF Due, ClientTypes
    <3>4. CASE sentAt[c] < generation
      BY <3>1, <3>4 DEF PromiseInv, Due
    <3> QED
      BY <3>2, <3>3, <3>4
  <2> QED
    BY <2>0, <2>1 DEF NobodyForsaken, PromiseInv, ServedInv, Attended
<1> QED
  BY ClientInvHolds, ServedInvHolds, PromiseInvHolds, <1>1, PTL
=============================================================================
