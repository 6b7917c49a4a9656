-------------------------- MODULE OperationsProofs --------------------------
(***************************************************************************)
(* The handlers never read a dangling reference, and a cancellation is     *)
(* answered as such, whatever is requested, however large the arena's      *)
(* vector is and whatever the range of handles, provided that the courses  *)
(* of the handlers have their steps in order (ServedReadFirst,             *)
(* ServedPollFirst, which MCOperations evaluates).                         *)
(***************************************************************************)
EXTENDS Operations, TLAPS

-----------------------------------------------------------------------------
(* References.                                                             *)

\* The handler at work is one whose courses read first.
CourseOf(S) == course = <<>> \/ \E o \in S : course \in Handlers[o]

\* Where the reference was taken, and for a stale one where a shape was stored
\* since.
Explained(shape) ==
  /\ shape.stale => shape.by = "reference"
  /\ shape.by = "reference" =>
       \E i \in 1 .. pc - 1 :
         /\ i \in DOMAIN course /\ course[i].do = "get" /\ course[i].by = "reference"
         /\ shape.stale =>
              \E j \in i + 1 .. pc - 1 : j \in DOMAIN course /\ course[j].do = "add"

ReadInv ==
  /\ pc \in Nat \ {0}
  /\ CourseOf(ReadersFirst)
  /\ \A shape \in held : Explained(shape)

\* What is explained stays explained when the handler goes on.
LEMMA ExplainedStays ==
  ASSUME ReadInv, course' = course, pc' = pc + 1,
         NEW shape \in held, NEW later, later.by = shape.by,
         later.stale => shape.stale \/ (Doing("add") /\ shape.by = "reference")
  PROVE  Explained(later)'
<1>1. Explained(shape) /\ pc \in Nat \ {0} BY DEF ReadInv
<1>2. later.stale => later.by = "reference" BY <1>1 DEF Explained
<1>3. ASSUME later.by = "reference"
      PROVE  \E i \in 1 .. pc' - 1 :
               /\ i \in DOMAIN course /\ course[i].do = "get" /\ course[i].by = "reference"
               /\ later.stale =>
                    \E j \in i + 1 .. pc' - 1 : j \in DOMAIN course /\ course[j].do = "add"
  <2>1. PICK i \in 1 .. pc - 1 :
          /\ i \in DOMAIN course /\ course[i].do = "get" /\ course[i].by = "reference"
          /\ shape.stale =>
               \E j \in i + 1 .. pc - 1 : j \in DOMAIN course /\ course[j].do = "add"
    BY <1>1, <1>3 DEF Explained
  <2>2. i \in 1 .. pc' - 1 BY <1>1
  <2>3. ASSUME later.stale
        PROVE  \E j \in i + 1 .. pc' - 1 : j \in DOMAIN course /\ course[j].do = "add"
    <3>1. CASE shape.stale BY <1>1, <2>1, <3>1
    <3>2. CASE Doing("add")
      <4>1. pc \in DOMAIN course /\ course[pc].do = "add" BY <3>2 DEF Doing, step
      <4> QED BY <1>1, <4>1
    <3> QED BY <2>3, <3>1, <3>2
  <2> QED BY <2>1, <2>2, <2>3
<1> QED BY <1>2, <1>3 DEF Explained

\* Init has no handler at work.
LEMMA ReadInit == Init => ReadInv
BY DEF Init, ReadInv, CourseOf

LEMMA ReadStep ==
  ASSUME ServedReadFirst, ReadInv, [Next]_vars
  PROVE  ReadInv'
<1> USE DEF ReadInv
<1>1. ASSUME UNCHANGED <<pc, course, held>> PROVE ReadInv'
  BY <1>1 DEF CourseOf, Explained
<1>2. ASSUME NEW o, NEW history, dispatchOperation(o, history),
             o \in DOMAIN Handlers => o \in ReadersFirst
      PROVE  ReadInv'
  BY <1>2 DEF dispatchOperation, CourseOf
<1>3. ASSUME Advance, held' = held PROVE ReadInv'
  <2>1. pc' \in Nat \ {0} /\ CourseOf(ReadersFirst)' BY <1>3 DEF Advance, CourseOf
  <2>2. \A shape \in held' : Explained(shape)' BY <1>3, ExplainedStays DEF Advance
  <2> QED BY <2>1, <2>2
<1>4. ASSUME NEW o \in Served, NEW history \in BOOLEAN, Serve(o, history) PROVE ReadInv'
  BY <1>2, <1>4 DEF Serve, ServedReadFirst
<1>5. CASE Cancel BY <1>1, <1>5 DEF Cancel, handler
<1>6. CASE Exhaust BY <1>1, <1>6 DEF Exhaust, Throw, handler
<1>7. CASE Finish BY <1>1, <1>7 DEF Finish, handler
<1>8. CASE Forget BY <1>8 DEF Forget, CourseOf
<1>9. CASE Checked BY <1>1, <1>3, <1>9 DEF Checked, Throw, handler
<1>10. CASE Verified BY <1>1, <1>3, <1>10 DEF Verified, Throw, handler
<1>11. CASE Got
  <2>1. ASSUME NEW number \in {1, 1 + HandleRange}, Doing("get"), Advance,
               held' = held \cup {[by |-> step.by, stale |-> FALSE, named |-> number,
                                   handle |-> HandleRead(number, step.wraps)]}
        PROVE  ReadInv'
    <3>1. pc' \in Nat \ {0} /\ CourseOf(ReadersFirst)' BY <2>1 DEF Advance, CourseOf
    <3>2. ASSUME NEW shape \in held' PROVE Explained(shape)'
      <4>1. CASE shape \in held BY <2>1, <4>1, ExplainedStays DEF Advance
      <4>2. CASE shape = [by |-> step.by, stale |-> FALSE, named |-> number,
                          handle |-> HandleRead(number, step.wraps)]
        <5>1. pc \in DOMAIN course /\ course[pc].do = "get" /\ shape.by = course[pc].by
              /\ ~shape.stale
          BY <2>1, <4>2 DEF Doing, step
        <5>2. pc \in 1 .. pc' - 1 /\ course' = course BY <2>1 DEF Advance
        <5> QED BY <5>1, <5>2 DEF Explained
      <4> QED BY <2>1, <3>2, <4>1, <4>2
    <3> QED BY <3>1, <3>2
  <2> QED BY <1>1, <1>11, <2>1 DEF Got, Throw, handler
<1>12. CASE Computed BY <1>1, <1>3, <1>12 DEF Computed, Fail, Throw, handler
<1>13. CASE Called BY <1>1, <1>3, <1>13 DEF Called, Fail, Throw, handler
<1>14. CASE Transferred BY <1>1, <1>3, <1>14 DEF Transferred, Fail, Throw, handler
<1>15. CASE Duplicated BY <1>1, <1>3, <1>15 DEF Duplicated, Fail, Throw, handler
<1>16. CASE Edited BY <1>1, <1>3, <1>16 DEF Edited, handler
<1>17. CASE Stored
  <2>1. ASSUME Doing("add"), Advance, held' = {AfterAdd(shape) : shape \in held}
        PROVE  ReadInv'
    <3>1. pc' \in Nat \ {0} /\ CourseOf(ReadersFirst)' BY <2>1 DEF Advance, CourseOf
    <3>2. ASSUME NEW later \in held' PROVE Explained(later)'
      <4>1. PICK shape \in held : later = AfterAdd(shape) BY <2>1, <3>2
      <4>2. /\ later.by = shape.by
            /\ later.stale => shape.stale \/ shape.by = "reference"
        BY <4>1 DEF AfterAdd
      <4> QED BY <2>1, <4>1, <4>2, ExplainedStays DEF Advance
    <3> QED BY <3>1, <3>2
  <2> QED BY <1>1, <1>17, <2>1 DEF Stored, Throw, handler
<1>18. CASE Copied BY <1>3, <1>18 DEF Copied
<1>19. CASE Polled BY <1>1, <1>3, <1>19 DEF Polled, Throw, handler
<1>20. CASE Recorded BY <1>1, <1>3, <1>20 DEF Recorded, Fail, Throw, handler
<1>21. CASE Redispatched
  <2>1. pc \in DOMAIN course /\ course[pc].do = "dispatch" BY <1>21 DEF Redispatched, Doing, step
  <2>2. course # <<>> BY <2>1
  <2>3. PICK o \in ReadersFirst : course \in Handlers[o] BY <2>2 DEF CourseOf
  <2>4. step.op \in DOMAIN Handlers => step.op \in ReadersFirst
    BY <2>1, <2>3 DEF ServedReadFirst, Closed, step
  <2> QED BY <1>2, <1>21, <2>4 DEF Redispatched
<1>22. CASE UNCHANGED vars BY <1>1, <1>22 DEF vars
<1> QED
  BY <1>4, <1>5, <1>6, <1>7, <1>8, <1>9, <1>10, <1>11, <1>12, <1>13, <1>14, <1>15, <1>16,
     <1>17, <1>18, <1>19, <1>20, <1>21, <1>22
  DEF Next

LEMMA ReadInvFresh == ServedReadFirst /\ ReadInv => NoStaleRead
<1> SUFFICES ASSUME ServedReadFirst, ReadInv, Running, pc \in DOMAIN course,
                    step.do \in Reading, NEW shape \in held, shape.stale
             PROVE  FALSE
  BY DEF NoStaleRead
<1>1. PICK i \in 1 .. pc - 1 :
        /\ i \in DOMAIN course /\ course[i].do = "get" /\ course[i].by = "reference"
        /\ \E j \in i + 1 .. pc - 1 : j \in DOMAIN course /\ course[j].do = "add"
  BY DEF ReadInv, Explained
<1>2. PICK j \in i + 1 .. pc - 1 : j \in DOMAIN course /\ course[j].do = "add"
  BY <1>1
<1>3. i < j /\ j < pc BY <1>1, <1>2 DEF ReadInv
<1>4. course # <<>> BY <1>1
<1>5. PICK o \in ReadersFirst : course \in Handlers[o] BY <1>4 DEF ReadInv, CourseOf
<1>6. ReadsFirst(course) BY <1>5 DEF ReadersFirst
<1>7. course[pc].do \notin Reading BY <1>1, <1>2, <1>3, <1>6 DEF ReadsFirst
<1> QED BY <1>7 DEF step

\* No handler uses a reference into the arena's vector after it stored a shape
\* that may have moved the vector.
THEOREM ReadsAreFresh ==
  ASSUME ServedReadFirst
  PROVE  Spec => []NoStaleRead
<1>1. Init => ReadInv BY ReadInit
<1>2. ReadInv /\ [Next]_vars => ReadInv' BY ReadStep
<1>3. ReadInv => NoStaleRead BY ReadInvFresh
<1> QED BY <1>1, <1>2, <1>3, PTL DEF Spec

-----------------------------------------------------------------------------
(* Cancellation.                                                           *)

\* A call that broke off has not been polled about yet.
PollInv ==
  /\ pc \in Nat \ {0}
  /\ op \in TestsFirst \/ CourseOf(PollersFirst)
  /\ broken => cancelled /\ ~Idle
  /\ op \notin TestsFirst /\ Running /\ broken =>
       \E i \in 1 .. pc - 1 :
         /\ i \in DOMAIN course /\ course[i].do = "transfer"
         /\ \A j \in i + 1 .. pc - 1 : course[j].do # "poll"
  /\ CancelledIsCancelled

LEMMA PollInit == Init => PollInv
BY DEF Init, PollInv, CourseOf, CancelledIsCancelled, NoAnswer

\* A handler that is at a test, or hands over, has no call broken off behind it.
LEMMA TestedUnbroken ==
  ASSUME PollInv, op \notin TestsFirst, Doing("occt") \/ Doing("dispatch")
  PROVE  ~broken
<1> SUFFICES ASSUME broken PROVE FALSE OBVIOUS
<1>1. pc \in DOMAIN course /\ course[pc].do \in {"occt", "dispatch"} /\ Running
  BY DEF Doing, step
<1>2. PICK i \in 1 .. pc - 1 :
        /\ i \in DOMAIN course /\ course[i].do = "transfer"
        /\ \A j \in i + 1 .. pc - 1 : course[j].do # "poll"
  BY <1>1 DEF PollInv
<1>3. i < pc BY <1>2 DEF PollInv
<1>4. course # <<>> BY <1>1
<1>5. PICK o \in PollersFirst : course \in Handlers[o] BY <1>4 DEF PollInv, CourseOf
<1>6. PollsFirst(course) BY <1>5 DEF PollersFirst
<1> QED BY <1>1, <1>2, <1>3, <1>6 DEF PollsFirst

LEMMA PollStep ==
  ASSUME ServedPollFirst, PollInv, [Next]_vars
  PROVE  PollInv'
<1> USE DEF PollInv
<1>1. ASSUME UNCHANGED <<op, pc, course, broken, cancelled, answer>> PROVE PollInv'
  BY <1>1 DEF CourseOf, Idle, Running, CancelledIsCancelled
\* A handler is left: it can only answer Cancelled for a cancellation.
<1>2. ASSUME NEW code, NEW cause, Throw(code, cause), Running,
             op \in TestsFirst \/ cause # "cancellation" \/ code = "Cancelled",
             cause # "none"
      PROVE  PollInv'
  <2>1. UNCHANGED <<op, pc, course, broken, cancelled>>
        /\ answer' = [code |-> code, cause |-> cause]
    BY <1>2 DEF Throw, request, handler, Answer
  <2>2. answer' # NoAnswer BY <1>2, <2>1 DEF NoAnswer
  <2> QED BY <1>2, <2>1, <2>2 DEF CourseOf, Idle, Running, CancelledIsCancelled
\* The handler goes on after a step that is no poll, unless no call broke off.
<1>3. ASSUME NEW kind, Doing(kind), Advance, broken' = broken, kind # "poll" \/ ~broken
      PROVE  PollInv'
  <2>1. UNCHANGED <<op, course, cancelled, answer>> /\ pc' = pc + 1
    BY <1>3 DEF Advance
  <2>2. course[pc].do = kind /\ Running BY <1>3 DEF Doing, step
  <2>3. ASSUME op \notin TestsFirst, broken
        PROVE  \E i \in 1 .. pc' - 1 :
                 /\ i \in DOMAIN course /\ course[i].do = "transfer"
                 /\ \A j \in i + 1 .. pc' - 1 : course[j].do # "poll"
    <3>1. PICK i \in 1 .. pc - 1 :
            /\ i \in DOMAIN course /\ course[i].do = "transfer"
            /\ \A j \in i + 1 .. pc - 1 : course[j].do # "poll"
      BY <2>2, <2>3
    <3>2. i \in 1 .. pc' - 1 BY <2>1
    <3>3. ASSUME NEW j \in i + 1 .. pc' - 1 PROVE course[j].do # "poll"
      <4>1. CASE j = pc BY <1>3, <2>2, <2>3, <4>1
      <4>2. CASE j # pc BY <2>1, <3>1, <3>3, <4>2
      <4> QED BY <4>1, <4>2
    <3> QED BY <3>1, <3>2, <3>3
  <2>4. pc' \in Nat \ {0} BY <2>1
  <2>5. (op \in TestsFirst \/ CourseOf(PollersFirst))' BY <2>1 DEF CourseOf
  <2>6. (broken => cancelled /\ ~Idle)' BY <1>3, <2>1 DEF Idle
  <2>7. CancelledIsCancelled' BY <2>1 DEF CancelledIsCancelled
  <2> QED BY <1>3, <2>1, <2>3, <2>4, <2>5, <2>6, <2>7
<1>4. ASSUME NEW o, NEW history, dispatchOperation(o, history), ~broken, broken' = broken,
             answer = NoAnswer,
             op' \in TestsFirst \/ (o \in DOMAIN Handlers => o \in PollersFirst)
      PROVE  PollInv'
  BY <1>4 DEF dispatchOperation, CourseOf, CancelledIsCancelled, Answer, NoAnswer
<1>5. ASSUME NEW o \in Served, NEW history \in BOOLEAN, Serve(o, history) PROVE PollInv'
  <2>1. Idle /\ broken' = broken /\ op' = o BY <1>5 DEF Serve
  <2>8. ~broken BY <2>1
  <2>2. op' \in TestsFirst \/ (o \in DOMAIN Handlers => o \in PollersFirst)
    BY <2>1 DEF ServedPollFirst
  <2>3. (broken => cancelled /\ ~Idle)' BY <2>1, <2>8
  <2>4. dispatchOperation(o, history) BY <1>5 DEF Serve
  <2>9. op \notin TestsFirst BY <2>1 DEF Idle, TestsFirst
  <2>5. CancelledIsCancelled'
    BY <2>4, <2>9 DEF dispatchOperation, CancelledIsCancelled, Answer
  <2>6. pc' \in Nat \ {0} BY <2>4 DEF dispatchOperation
  <2>7. (op \in TestsFirst \/ CourseOf(PollersFirst))'
    BY <2>2, <2>4 DEF dispatchOperation, CourseOf
  <2> QED BY <2>1, <2>3, <2>5, <2>6, <2>7, <2>8
<1>6. CASE Cancel
  BY <1>6 DEF Cancel, request, handler, CourseOf, Idle, Running, CancelledIsCancelled
<1>7. CASE Exhaust BY <1>2, <1>7 DEF Exhaust
<1>8. CASE Finish
  <2>1. UNCHANGED <<op, pc, course, broken, cancelled>>
        /\ answer' = [code |-> "ok", cause |-> "none"]
    BY <1>8 DEF Finish, request, handler, Answer
  <2> QED BY <2>1 DEF CourseOf, Idle, Running, NoAnswer, CancelledIsCancelled
<1>9. CASE Forget
  BY <1>9 DEF Forget, CourseOf, Idle, NoAnswer, CancelledIsCancelled
<1>10. CASE Checked BY <1>2, <1>3, <1>10 DEF Checked, Doing
<1>11. CASE Verified BY <1>2, <1>3, <1>11 DEF Verified, Doing
<1>12. CASE Got BY <1>2, <1>3, <1>12 DEF Got, Doing
<1>13. CASE Computed
  <2>1. op \notin TestsFirst => ~broken BY <1>13, TestedUnbroken DEF Computed
  <2> QED BY <1>2, <1>3, <1>13, <2>1 DEF Computed, Fail, Doing
<1>14. CASE Called BY <1>2, <1>3, <1>14 DEF Called, Fail, Doing
<1>15. CASE Transferred
  <2>1. ASSUME Advance, Doing("transfer"),
               broken' \in IF cancelled THEN BOOLEAN ELSE {FALSE}
        PROVE  PollInv'
    <3>1. UNCHANGED <<op, course, cancelled, answer>> /\ pc' = pc + 1 /\ ~Idle
      BY <2>1 DEF Advance, Doing, Running
    <3>2. pc \in DOMAIN course /\ course[pc].do = "transfer" BY <2>1 DEF Doing, step
    <3>3. pc \in 1 .. pc' - 1 /\ \A j \in pc + 1 .. pc' - 1 : FALSE BY <3>1
    <3>4. pc' \in Nat \ {0} BY <3>1
    <3>5. (op \in TestsFirst \/ CourseOf(PollersFirst))' BY <3>1 DEF CourseOf
    <3>6. (broken => cancelled /\ ~Idle)' BY <2>1, <3>1 DEF Idle
    <3>7. CancelledIsCancelled' BY <3>1 DEF CancelledIsCancelled
    <3> QED BY <3>1, <3>2, <3>3, <3>4, <3>5, <3>6, <3>7
  <2> QED BY <1>2, <1>15, <2>1 DEF Transferred, Fail, Doing
<1>16. CASE Duplicated BY <1>2, <1>3, <1>16 DEF Duplicated, Fail, Doing
<1>17. CASE Edited
  <2>1. CASE Advance /\ UNCHANGED broken BY <1>3, <1>17, <2>1 DEF Edited
  <2>2. CASE Answer(operationFailureCode(at), "algorithm") /\ UNCHANGED <<request, handler, cancelled>>
    <3>1. UNCHANGED <<op, pc, course, broken, cancelled>>
          /\ answer' = [code |-> operationFailureCode(at), cause |-> "algorithm"]
      BY <2>2 DEF request, handler, Answer
    <3>2. answer' # NoAnswer BY <3>1 DEF NoAnswer
    <3> QED BY <3>1, <3>2 DEF CourseOf, Idle, Running, CancelledIsCancelled
  <2> QED BY <1>17, <2>1, <2>2 DEF Edited
<1>18. CASE Stored BY <1>2, <1>3, <1>18 DEF Stored, Doing
<1>19. CASE Copied BY <1>3, <1>19 DEF Copied
<1>20. CASE Polled
  <2>1. CASE cancelled BY <1>2, <1>20, <2>1 DEF Polled, Doing
  <2>2. CASE ~cancelled BY <1>3, <1>20, <2>2 DEF Polled
  <2> QED BY <2>1, <2>2
<1>21. CASE Recorded BY <1>2, <1>3, <1>21 DEF Recorded, Fail, Doing
<1>22. CASE Redispatched
  <2>1. op \notin TestsFirst => ~broken BY <1>22, TestedUnbroken DEF Redispatched
  <2>2. pc \in DOMAIN course /\ course[pc].do = "dispatch" /\ Running
    BY <1>22 DEF Redispatched, Doing, step
  <2>3. course # <<>> /\ op' = op /\ broken' = broken /\ cancelled' = cancelled
    BY <1>22, <2>2 DEF Redispatched, request
  <2>4. op \in TestsFirst \/ (step.op \in DOMAIN Handlers => step.op \in PollersFirst)
    <3>1. SUFFICES ASSUME op \notin TestsFirst
                   PROVE  step.op \in DOMAIN Handlers => step.op \in PollersFirst
      OBVIOUS
    <3>2. PICK o \in PollersFirst : course \in Handlers[o] BY <2>3, <3>1 DEF CourseOf
    <3> QED BY <2>2, <3>2 DEF ServedPollFirst, Closed, step
  <2>5. dispatchOperation(step.op, asked) BY <1>22 DEF Redispatched
  <2>6. pc' \in Nat \ {0} /\ (op \in TestsFirst \/ CourseOf(PollersFirst))'
    BY <2>3, <2>4, <2>5 DEF dispatchOperation, CourseOf
  <2>7. CancelledIsCancelled'
    BY <2>2, <2>5 DEF dispatchOperation, Answer, Running, NoAnswer, CancelledIsCancelled
  <2>8. (broken => cancelled /\ ~Idle)' BY <2>3 DEF Idle
  <2> QED BY <2>1, <2>3, <2>6, <2>7, <2>8
<1>23. CASE UNCHANGED vars BY <1>1, <1>23 DEF vars
<1> QED
  BY <1>5, <1>6, <1>7, <1>8, <1>9, <1>10, <1>11, <1>12, <1>13, <1>14, <1>15, <1>16,
     <1>17, <1>18, <1>19, <1>20, <1>21, <1>22, <1>23
  DEF Next

\* A cancelled request is answered Cancelled by whoever notices first, and never
\* as a failure of the operation.
THEOREM CancellationsAnswered ==
  ASSUME ServedPollFirst
  PROVE  Spec => []CancelledIsCancelled
<1>1. Init => PollInv BY PollInit
<1>2. PollInv /\ [Next]_vars => PollInv' BY PollStep
<1>3. PollInv => CancelledIsCancelled BY DEF PollInv
<1> QED BY <1>1, <1>2, <1>3, PTL DEF Spec

-----------------------------------------------------------------------------
(* The steps, as the other theorems see them.                              *)

\* The handler takes its step and goes on.
GoesOn ==
  /\ Running /\ pc \in DOMAIN course /\ step.do # "dispatch" /\ pc' = pc + 1
  /\ UNCHANGED <<op, asked, at, course, answer>>
  /\ \A shape \in held' :
       \/ shape.named = shape.handle /\ step.do = "get"
       \/ step.do = "get" /\ step.wraps
       \/ \E old \in held : shape.named = old.named /\ shape.handle = old.handle
  /\ step.do = "duplicate" => duplicated' = TRUE
  /\ step.do # "get" /\ duplicated = TRUE => duplicated' = TRUE
  /\ altered' => altered \/ (step.do = "edit" /\ duplicated # TRUE)
  /\ recorded' = IF step.do = "history" THEN asked ELSE recorded

\* The handler throws, which answers the request with an error.
GivesUp ==
  /\ Running /\ UNCHANGED <<op, asked, at, course, pc, held, duplicated, recorded>>
  /\ altered' => altered \/ (pc \in DOMAIN course /\ step.do = "edit" /\ duplicated # TRUE)
  /\ answer'.cause # "none"
  /\ \/ answer'.code \in ErrorCode
     \/ pc \in DOMAIN course /\ step.do \in {"occt", "verify"} /\ answer'.code = step.code
  /\ answer'.cause = "algorithm" =>
       /\ pc \in DOMAIN course
       /\ \/ answer'.code = operationFailureCode(at)
          \/ step.do = "occt" /\ answer'.code = step.code

Stays == UNCHANGED <<op, asked, at, course, pc, held, duplicated, altered, recorded, answer>>

LEMMA FailureCodes == \A o : operationFailureCode(o) \in ErrorCode
BY DEF operationFailureCode, ErrorCode, BF, FF, TF, HF, XF, CF, KE

LEMMA EveryStep ==
  ASSUME [Next]_vars
  PROVE  \/ \E o \in Served, history \in BOOLEAN : Serve(o, history)
         \/ Redispatched \/ Forget \/ Finish \/ GoesOn \/ GivesUp \/ Stays
<1> USE DEF GoesOn, GivesUp
<1>1. ASSUME NEW code, NEW cause, Running, Throw(code, cause), cause # "none",
             \/ code \in ErrorCode
             \/ pc \in DOMAIN course /\ step.do \in {"occt", "verify"} /\ code = step.code,
             cause = "algorithm" =>
               /\ pc \in DOMAIN course
               /\ \/ code = operationFailureCode(at)
                  \/ step.do = "occt" /\ code = step.code
      PROVE  GivesUp
  <2>1. /\ answer' = [code |-> code, cause |-> cause]
        /\ UNCHANGED <<op, asked, at, course, pc, held, duplicated, altered, recorded>>
    BY <1>1 DEF Throw, Answer, request, handler
  <2>2. answer'.code = code /\ answer'.cause = cause
    BY <2>1
  <2> HIDE DEF ErrorCode
  <2> QED
    BY <1>1, <2>1, <2>2
<1>2. ASSUME NEW code \in ErrorCode, NEW cause \in {"arguments", "memory", "format", "cancellation"},
             Running, Throw(code, cause)
      PROVE  GivesUp
  BY <1>1, <1>2
<1>3. ASSUME NEW kind, Doing(kind), Fail
      PROVE  GivesUp
  <2>1. Throw(operationFailureCode(at), "algorithm") /\ Running /\ pc \in DOMAIN course
    BY <1>3 DEF Fail, Doing
  <2> QED
    BY <1>1, <2>1, FailureCodes
<1>4. {"InvalidArgs", "InvalidHandle", "OutOfMemory", "Cancelled"} \subseteq ErrorCode
  BY DEF ErrorCode
<1>5. ASSUME NEW kind, Doing(kind), kind \notin {"get", "duplicate", "edit", "history", "dispatch"},
             Advance, UNCHANGED <<held, duplicated, altered, recorded>>
      PROVE  GoesOn
  BY <1>5 DEF Doing, Advance
<1>6. CASE Cancel
  BY <1>6 DEF Cancel, Stays, request, handler
<1>7. CASE Exhaust
  BY <1>2, <1>4, <1>7 DEF Exhaust
<1>8. CASE Checked
  BY <1>2, <1>4, <1>5, <1>8 DEF Checked, Doing
<1>9. CASE Verified
  <2>1. ASSUME Throw(step.code, "format")
        PROVE  GivesUp
    BY <1>1, <1>9, <2>1 DEF Verified, Doing
  <2> QED
    BY <1>5, <1>9, <2>1 DEF Verified
<1>10. CASE Got
  <2>1. ASSUME NEW number \in {1, 1 + HandleRange}, Doing("get"), Advance,
               held' = held \cup {[by |-> step.by, stale |-> FALSE, named |-> number,
                                   handle |-> HandleRead(number, step.wraps)]},
               UNCHANGED <<altered, recorded>>
        PROVE  GoesOn
    <3>1. ASSUME NEW shape \in held'
          PROVE  \/ shape.named = shape.handle /\ step.do = "get"
                 \/ step.do = "get" /\ step.wraps
                 \/ \E old \in held : shape.named = old.named /\ shape.handle = old.handle
      BY <2>1, <3>1 DEF HandleRead, Doing
    <3> QED
      BY <2>1, <3>1 DEF Doing, Advance
  <2> QED
    BY <1>2, <1>4, <1>10, <2>1 DEF Got, Doing
<1>11. CASE Computed
  <2>1. ASSUME Throw(step.code, IF broken THEN "cancellation" ELSE "algorithm")
        PROVE  GivesUp
    BY <1>1, <1>11, <2>1 DEF Computed, Doing
  <2> QED
    BY <1>3, <1>5, <1>11, <2>1 DEF Computed
<1>12. CASE Called
  BY <1>3, <1>5, <1>12 DEF Called
<1>13. CASE Transferred
  BY <1>3, <1>5, <1>13 DEF Transferred
<1>14. CASE Duplicated
  <2>1. ASSUME Advance, duplicated' = TRUE, UNCHANGED <<held, altered, recorded>>
        PROVE  GoesOn
    BY <1>14, <2>1 DEF Duplicated, Doing, Advance
  <2> QED
    BY <1>3, <1>14, <2>1 DEF Duplicated
<1>15. CASE Edited
  <2>1. Doing("edit") /\ (altered' => altered \/ duplicated # TRUE)
    BY <1>15 DEF Edited
  <2>2. ASSUME Advance, UNCHANGED <<held, duplicated, recorded>>
        PROVE  GoesOn
    BY <2>1, <2>2 DEF Doing, Advance
  <2>3. ASSUME Answer(operationFailureCode(at), "algorithm"), UNCHANGED <<request, handler>>
        PROVE  GivesUp
    <3>1. answer'.code = operationFailureCode(at) /\ answer'.cause = "algorithm"
      BY <2>3 DEF Answer
    <3> QED
      BY <2>1, <2>3, <3>1, FailureCodes DEF Doing, request, handler
  <2> QED
    BY <1>15, <2>2, <2>3 DEF Edited
<1>16. CASE Stored
  <2>1. ASSUME held' = {AfterAdd(shape) : shape \in held}, Advance, Doing("add"),
               UNCHANGED <<duplicated, altered, recorded>>
        PROVE  GoesOn
    <3>1. \A shape \in held' : \E old \in held : shape.named = old.named /\ shape.handle = old.handle
      BY <2>1 DEF AfterAdd
    <3> QED
      BY <2>1, <3>1 DEF Doing, Advance
  <2> QED
    BY <1>2, <1>4, <1>16, <2>1 DEF Stored, Doing
<1>17. CASE Copied
  BY <1>5, <1>17 DEF Copied
<1>18. CASE Polled
  BY <1>2, <1>4, <1>5, <1>18 DEF Polled, Doing
<1>19. CASE Recorded
  <2>1. ASSUME Advance, recorded' = asked, UNCHANGED <<held, duplicated, altered>>
        PROVE  GoesOn
    BY <1>19, <2>1 DEF Recorded, Doing, Advance
  <2> QED
    BY <1>3, <1>19, <2>1 DEF Recorded
<1>20. CASE UNCHANGED vars
  BY <1>20 DEF vars, Stays
<1> QED
  BY <1>6, <1>7, <1>8, <1>9, <1>10, <1>11, <1>12, <1>13, <1>14, <1>15, <1>16, <1>17, <1>18,
     <1>19, <1>20
  DEF Next

-----------------------------------------------------------------------------
(* History.                                                                *)

\* The steps taken are steps of a course that records, and if one of them
\* recorded, the history is there.
RecordInv ==
  /\ pc \in Nat \ {0} /\ asked \in BOOLEAN
  /\ Idle => answer = NoAnswer /\ recorded = FALSE
  /\ ~asked => recorded = FALSE
  /\ Running /\ asked =>
       /\ \E o \in HistorySupport \cap DOMAIN Handlers : course \in Handlers[o]
       /\ 1 .. pc - 1 \subseteq DOMAIN course
       /\ \A i \in 1 .. pc - 1 :
            course[i].do # "dispatch" /\ (course[i].do = "history" => recorded = TRUE)
  /\ HistoryAsAsked

\* The history is refused, or the handler is one that records.
LEMMA RecordDispatch ==
  ASSUME NEW o, NEW history \in BOOLEAN, dispatchOperation(o, history), answer = NoAnswer,
         asked' = history, recorded' = recorded, ~history => recorded = FALSE, op' # "none"
  PROVE  RecordInv'
<1>1. pc' = 1 /\ 1 .. pc' - 1 = {}
  BY DEF dispatchOperation
<1>2. answer'.code # "ok"
  BY DEF dispatchOperation, Answer, NoAnswer
<1>3. answer' = NoAnswer /\ history => o \in HistorySupport \cap DOMAIN Handlers /\ course' \in Handlers[o]
  BY DEF dispatchOperation, Answer, NoAnswer
<1> QED
  BY <1>1, <1>2, <1>3 DEF RecordInv, HistoryAsAsked, Idle, Running

LEMMA RecordStep ==
  ASSUME HandlersRecord, RecordInv, [Next]_vars
  PROVE  RecordInv'
<1>1. ASSUME NEW o \in Served, NEW history \in BOOLEAN, Serve(o, history)
      PROVE  RecordInv'
  <2>1. answer = NoAnswer /\ recorded = FALSE /\ asked' = history /\ recorded' = recorded
    BY <1>1 DEF Serve, RecordInv
  <2>2. dispatchOperation(o, history) /\ op' = o /\ op' # "none"
    BY <1>1, OperationsAssumption DEF Serve
  <2> QED
    BY <2>1, <2>2, RecordDispatch
<1>2. CASE Redispatched
  <2>1. Running /\ dispatchOperation(step.op, asked) /\ asked' = asked /\ op' = op /\ recorded' = recorded
    BY <1>2 DEF Redispatched, Doing, request
  <2>2. answer = NoAnswer /\ op' # "none"
    BY <2>1 DEF Running, Idle
  <2> QED
    BY <2>1, <2>2, RecordDispatch DEF RecordInv
<1>3. CASE Forget
  <2>1. op' = "none" /\ asked' = FALSE /\ pc' = 1 /\ recorded' = FALSE /\ answer' = NoAnswer
    BY <1>3 DEF Forget
  <2>2. answer'.code # "ok" /\ pc' \in Nat \ {0} /\ Idle' /\ ~Running'
    BY <2>1 DEF NoAnswer, Idle, Running
  <2> QED
    BY <2>1, <2>2, Zenon DEF RecordInv, HistoryAsAsked
<1>4. CASE Finish
  <2>1. Running /\ pc \notin DOMAIN course /\ UNCHANGED <<op, asked, pc, course, recorded>>
        /\ answer' = [code |-> "ok", cause |-> "none"]
    BY <1>4 DEF Finish, Answer, request, handler
  <2>2. recorded = asked
    <3>1. CASE asked
      <4>1. PICK o \in HistorySupport \cap DOMAIN Handlers : course \in Handlers[o]
        BY <2>1, <3>1 DEF RecordInv
      <4>2. Records(course)
        BY <4>1 DEF HandlersRecord
      <4>3. PICK i \in 1 .. Len(course) :
               1 .. i \subseteq DOMAIN course /\ course[i].do \in {"history", "dispatch"}
        BY <4>2 DEF Records
      <4>4. i \in 1 .. pc - 1
        \* otherwise the next step would be one of the course
        BY <2>1, <4>3 DEF RecordInv
      <4> QED
        BY <2>1, <3>1, <4>3, <4>4 DEF RecordInv
    <3>2. CASE ~asked
      BY <3>2 DEF RecordInv
    <3> QED
      BY <3>1, <3>2
  <2> QED
    BY <2>1, <2>2 DEF RecordInv, HistoryAsAsked, Idle, Running, NoAnswer
<1>5. CASE GoesOn
  <2>1. Running /\ pc \in DOMAIN course /\ step.do # "dispatch" /\ pc' = pc + 1
        /\ UNCHANGED <<op, asked, course, answer>>
        /\ recorded' = IF step.do = "history" THEN asked ELSE recorded
    BY <1>5 DEF GoesOn
  <2>2. pc' \in Nat \ {0} /\ 1 .. pc' - 1 = 1 .. pc - 1 \cup {pc}
    BY <2>1 DEF RecordInv
  <2>3. ASSUME asked
        PROVE  /\ 1 .. pc' - 1 \subseteq DOMAIN course
               /\ \A i \in 1 .. pc' - 1 :
                    course[i].do # "dispatch" /\ (course[i].do = "history" => recorded' = TRUE)
    BY <2>1, <2>2, <2>3 DEF RecordInv, step
  <2>4. ~asked => recorded' = FALSE
    BY <2>1 DEF RecordInv
  <2>5. answer'.code # "ok" /\ ~Idle /\ ~Idle'
    BY <2>1 DEF Running, NoAnswer, Idle
  <2> QED
    BY <2>1, <2>2, <2>3, <2>4, <2>5 DEF RecordInv, HistoryAsAsked, Running
<1>6. CASE GivesUp
  <2>1. Running /\ UNCHANGED <<op, asked, course, pc, recorded>> /\ answer'.cause # "none"
    BY <1>6 DEF GivesUp
  <2>2. answer'.code = "ok" => ~asked
    <3> SUFFICES ASSUME asked, answer'.code = "ok"
                 PROVE  FALSE
      OBVIOUS
    <3>1. "ok" \notin ErrorCode
      BY DEF ErrorCode, CF, BF, FF, TF, HF, XF, KE
    <3>2. pc \in DOMAIN course /\ course[pc].do \in {"occt", "verify"} /\ answer'.code = course[pc].code
      BY <1>6, <3>1 DEF GivesUp, step
    <3>3. PICK o \in HistorySupport \cap DOMAIN Handlers : course \in Handlers[o]
      BY <2>1 DEF RecordInv
    <3>4. Records(course)
      BY <3>3 DEF HandlersRecord
    <3> QED
      BY <3>1, <3>2, <3>4 DEF Records
  <2>3. ~Running' /\ ~Idle'
    BY <2>1 DEF Running, NoAnswer, Idle
  <2> QED
    BY <2>1, <2>2, <2>3 DEF RecordInv, HistoryAsAsked
<1>7. CASE Stays
  BY <1>7 DEF Stays, RecordInv, HistoryAsAsked, Idle, Running
<1> QED
  BY <1>1, <1>2, <1>3, <1>4, <1>5, <1>6, <1>7, EveryStep

\* A result has the history if and only if it was asked for, also when the
\* operation hands over to another (kHistorySupport and the handlers).
THEOREM HistoriesAsAsked ==
  ASSUME HandlersRecord
  PROVE  Spec => []HistoryAsAsked
<1>1. Init => RecordInv
  <2> SUFFICES ASSUME Init
               PROVE  RecordInv
    OBVIOUS
  <2>1. op = "none" /\ asked = FALSE /\ pc = 1 /\ recorded = FALSE /\ answer = NoAnswer
    BY DEF Init
  <2>2. answer.code # "ok" /\ pc \in Nat \ {0} /\ Idle /\ ~Running
    BY <2>1 DEF NoAnswer, Idle, Running
  <2> QED
    BY <2>1, <2>2, Zenon DEF RecordInv, HistoryAsAsked
<1>2. RecordInv /\ [Next]_vars => RecordInv'
  BY RecordStep
<1>3. RecordInv => HistoryAsAsked
  BY DEF RecordInv
<1> QED
  BY <1>1, <1>2, <1>3, PTL DEF Spec

-----------------------------------------------------------------------------
(* Failure codes.                                                          *)

\* The handler at work throws the code of the operation requested.
CodeInv ==
  /\ Idle => answer = NoAnswer
  /\ op \notin TwoCodes /\ Running =>
       at \in OneCoders /\ course \in Handlers[at]
         /\ operationFailureCode(at) = operationFailureCode(op)
  /\ OneFailureCode

LEMMA CodeDispatch ==
  ASSUME NEW o, NEW history, dispatchOperation(o, history), answer = NoAnswer, op' # "none",
         op' \notin TwoCodes =>
           /\ o \in DOMAIN Handlers => o \in OneCoders
           /\ operationFailureCode(o) = operationFailureCode(op')
  PROVE  CodeInv'
<1>1. at' = o /\ answer'.cause # "algorithm"
  BY DEF dispatchOperation, Answer, NoAnswer
<1>2. answer' = NoAnswer => o \in DOMAIN Handlers /\ course' \in Handlers[o]
  BY DEF dispatchOperation, Answer, NoAnswer
<1> QED
  BY <1>1, <1>2 DEF CodeInv, OneFailureCode, Idle, Running

LEMMA CodeStep ==
  ASSUME HandlersThrowOneCode, CodeInv, [Next]_vars
  PROVE  CodeInv'
<1>1. ASSUME NEW o \in Served, NEW history \in BOOLEAN, Serve(o, history)
      PROVE  CodeInv'
  <2>1. dispatchOperation(o, history) /\ op' = o /\ op' # "none" /\ answer = NoAnswer
    BY <1>1, OperationsAssumption DEF Serve, CodeInv
  <2>2. o \notin TwoCodes /\ o \in DOMAIN Handlers => o \in OneCoders
    BY DEF HandlersThrowOneCode
  <2> QED
    BY <2>1, <2>2, CodeDispatch
<1>2. CASE Redispatched
  <2>1. /\ Running /\ pc \in DOMAIN course /\ course[pc].do = "dispatch"
        /\ dispatchOperation(step.op, asked) /\ op' = op
    BY <1>2 DEF Redispatched, Doing, request, step
  <2>2. answer = NoAnswer /\ op' # "none"
    BY <2>1 DEF Running, Idle
  <2>3. ASSUME op \notin TwoCodes
        PROVE  /\ step.op \in DOMAIN Handlers => step.op \in OneCoders
               /\ operationFailureCode(step.op) = operationFailureCode(op)
    <3>1. at \in OneCoders /\ course \in Handlers[at] /\ operationFailureCode(at) = operationFailureCode(op)
      BY <2>1, <2>3 DEF CodeInv
    <3>2. ThrowsCode(course, operationFailureCode(at))
      BY <3>1 DEF OneCoders
    <3> QED
      BY <2>1, <3>1, <3>2 DEF ThrowsCode, HandlersThrowOneCode, Closed, step
  <2> QED
    BY <2>1, <2>2, <2>3, CodeDispatch
<1>3. CASE Forget
  <2>1. op' = "none" /\ answer' = NoAnswer
    BY <1>3 DEF Forget
  <2> QED
    BY <2>1 DEF CodeInv, OneFailureCode, Idle, Running, NoAnswer
<1>4. CASE Finish
  <2>1. Running /\ op' = op /\ answer' = [code |-> "ok", cause |-> "none"]
    BY <1>4 DEF Finish, Answer, request
  <2> QED
    BY <2>1 DEF CodeInv, OneFailureCode, Idle, Running, NoAnswer
<1>5. CASE GoesOn
  BY <1>5 DEF GoesOn, CodeInv, OneFailureCode, Idle, Running
<1>6. CASE GivesUp
  <2>1. Running /\ UNCHANGED <<op, at, course>> /\ answer' # NoAnswer
    BY <1>6 DEF GivesUp, NoAnswer
  <2>2. ASSUME answer'.cause = "algorithm", op \notin TwoCodes
        PROVE  answer'.code = operationFailureCode(op)
    <3>1. at \in OneCoders /\ course \in Handlers[at] /\ operationFailureCode(at) = operationFailureCode(op)
      BY <2>1, <2>2 DEF CodeInv
    <3>2. ThrowsCode(course, operationFailureCode(at))
      BY <3>1 DEF OneCoders
    <3>3. /\ pc \in DOMAIN course
          /\ \/ answer'.code = operationFailureCode(at)
             \/ course[pc].do = "occt" /\ answer'.code = course[pc].code
      BY <1>6, <2>2 DEF GivesUp, step
    <3> QED
      BY <3>1, <3>2, <3>3 DEF ThrowsCode
  <2>3. ~Running' /\ ~Idle'
    BY <2>1 DEF Running, Idle
  <2> QED
    BY <2>1, <2>2, <2>3 DEF CodeInv, OneFailureCode
<1>7. CASE Stays
  BY <1>7 DEF Stays, CodeInv, OneFailureCode, Idle, Running
<1> QED
  BY <1>1, <1>2, <1>3, <1>4, <1>5, <1>6, <1>7, EveryStep

\* A failure of OCCT has one code per operation, whether OCCT reports it or
\* throws (kOperationFailurePolicies, Kernel::dispatch and the handlers).
THEOREM OneCodePerOperation ==
  ASSUME HandlersThrowOneCode
  PROVE  Spec => []OneFailureCode
<1>1. Init => CodeInv
  BY DEF Init, CodeInv, OneFailureCode, NoAnswer, Idle, Running
<1>2. CodeInv /\ [Next]_vars => CodeInv'
  BY CodeStep
<1>3. CodeInv => OneFailureCode
  BY DEF CodeInv
<1> QED
  BY <1>1, <1>2, <1>3, PTL DEF Spec

-----------------------------------------------------------------------------
(* Inputs.                                                                 *)

\* The shape at hand is a duplicate if one was made after the latest get.
EditInv ==
  /\ pc \in Nat \ {0}
  /\ op \in Meshing \/ CourseOf(DuplicatorsFirst)
  /\ \A j \in 1 .. pc - 1 :
       /\ j \in DOMAIN course /\ course[j].do = "duplicate"
       /\ \A i \in j + 1 .. pc - 1 : course[i].do # "get"
       => duplicated = TRUE
  /\ InputsUnchanged

\* An edit changes a duplicate.
LEMMA EditedDuplicate ==
  ASSUME EditInv, op \notin Meshing, pc \in DOMAIN course, step.do = "edit"
  PROVE  duplicated = TRUE
<1>1. PICK o \in DuplicatorsFirst : course \in Handlers[o]
  BY DEF EditInv, CourseOf
<1>2. DuplicatesFirst(course)
  BY <1>1 DEF DuplicatorsFirst
<1>3. PICK j \in 1 .. pc - 1 : /\ j \in DOMAIN course /\ course[j].do = "duplicate"
                               /\ \A i \in j + 1 .. pc - 1 : course[i].do # "get"
  BY <1>2 DEF DuplicatesFirst, step
<1> QED
  BY <1>3 DEF EditInv

LEMMA EditStep ==
  ASSUME HandlersDuplicateFirst, EditInv, [Next]_vars
  PROVE  EditInv'
<1>0. "none" \notin Meshing
  BY DEF Meshing
<1>1. ASSUME NEW o, NEW history, dispatchOperation(o, history), altered' = altered,
             altered => op' \in Meshing,
             op' \in Meshing \/ (o \in DOMAIN Handlers => o \in DuplicatorsFirst)
      PROVE  EditInv'
  <2>1. pc' = 1 /\ (course' = <<>> \/ (o \in DOMAIN Handlers /\ course' \in Handlers[o]))
    BY <1>1 DEF dispatchOperation
  <2>2. 1 .. pc' - 1 = {} /\ pc' \in Nat \ {0}
    BY <2>1
  <2> QED
    BY <1>1, <2>1, <2>2 DEF EditInv, CourseOf, InputsUnchanged
<1>2. ASSUME NEW o \in Served, NEW history \in BOOLEAN, Serve(o, history)
      PROVE  EditInv'
  <2>1. dispatchOperation(o, history) /\ op = "none" /\ op' = o /\ altered' = altered
    BY <1>2 DEF Serve, Idle
  <2>2. ~altered
    BY <1>0, <2>1 DEF EditInv, InputsUnchanged
  <2>3. op' \in Meshing \/ (o \in DOMAIN Handlers => o \in DuplicatorsFirst)
    BY <2>1 DEF HandlersDuplicateFirst
  <2> QED
    BY <1>1, <2>1, <2>2, <2>3
<1>3. CASE Redispatched
  <2>1. /\ pc \in DOMAIN course /\ course[pc].do = "dispatch"
        /\ dispatchOperation(step.op, asked) /\ op' = op /\ altered' = altered
    BY <1>3 DEF Redispatched, Doing, request, step
  <2>2. op' \in Meshing \/ (step.op \in DOMAIN Handlers => step.op \in DuplicatorsFirst)
    <3> SUFFICES ASSUME op \notin Meshing
                 PROVE  step.op \in DOMAIN Handlers => step.op \in DuplicatorsFirst
      BY <2>1
    <3>1. PICK o \in DuplicatorsFirst : course \in Handlers[o]
      BY <2>1 DEF EditInv, CourseOf
    <3> QED
      BY <2>1, <3>1 DEF HandlersDuplicateFirst, Closed, step
  <2>3. altered => op' \in Meshing
    BY <2>1 DEF EditInv, InputsUnchanged
  <2> QED
    BY <1>1, <2>1, <2>2, <2>3
<1>4. CASE Forget
  <2>1. pc' = 1 /\ course' = <<>> /\ altered' = FALSE
    BY <1>4 DEF Forget
  <2>2. 1 .. pc' - 1 = {} /\ pc' \in Nat \ {0}
    BY <2>1
  <2> QED
    BY <2>1, <2>2 DEF EditInv, CourseOf, InputsUnchanged
<1>5. CASE Finish
  BY <1>5 DEF Finish, request, handler, EditInv, CourseOf, InputsUnchanged
<1>6. CASE GoesOn
  <2>1. /\ pc \in DOMAIN course /\ pc' = pc + 1 /\ UNCHANGED <<op, course>>
        /\ step.do = "duplicate" => duplicated' = TRUE
        /\ step.do # "get" /\ duplicated = TRUE => duplicated' = TRUE
        /\ altered' => altered \/ (step.do = "edit" /\ duplicated # TRUE)
    BY <1>6 DEF GoesOn
  <2>2. pc \in Nat \ {0} /\ pc' \in Nat \ {0}
    BY <2>1 DEF EditInv
  <2>3. ASSUME NEW j \in 1 .. pc' - 1, j \in DOMAIN course, course[j].do = "duplicate",
               \A i \in j + 1 .. pc' - 1 : course[i].do # "get"
        PROVE  duplicated' = TRUE
    <3>1. CASE j = pc
      BY <2>1, <2>3, <3>1 DEF step
    <3>2. CASE j # pc
      <4>1. j \in 1 .. pc - 1 /\ pc \in j + 1 .. pc' - 1 /\ j + 1 .. pc - 1 \subseteq j + 1 .. pc' - 1
        BY <2>1, <2>2, <3>2
      <4>2. duplicated = TRUE
        BY <2>3, <4>1 DEF EditInv
      <4> QED
        BY <2>1, <2>3, <4>1, <4>2 DEF step
    <3> QED
      BY <3>1, <3>2
  <2>4. altered' => op \in Meshing
    BY <2>1, EditedDuplicate DEF EditInv, InputsUnchanged
  <2> QED
    BY <2>1, <2>2, <2>3, <2>4 DEF EditInv, CourseOf, InputsUnchanged
<1>7. CASE GivesUp
  <2>1. /\ UNCHANGED <<op, course, pc, duplicated>>
        /\ altered' => altered \/ (pc \in DOMAIN course /\ step.do = "edit" /\ duplicated # TRUE)
    BY <1>7 DEF GivesUp
  <2>2. altered' => op \in Meshing
    BY <2>1, EditedDuplicate DEF EditInv, InputsUnchanged
  <2> QED
    BY <2>1, <2>2 DEF EditInv, CourseOf, InputsUnchanged
<1>8. CASE Stays
  BY <1>8 DEF Stays, EditInv, CourseOf, InputsUnchanged
<1> QED
  BY <1>2, <1>3, <1>4, <1>5, <1>6, <1>7, <1>8, EveryStep

\* No operation but those that remake a mesh changes the geometry of a shape it
\* was given, also when it fails or is cancelled half-way (the handlers).
THEOREM InputsStayUnchanged ==
  ASSUME HandlersDuplicateFirst
  PROVE  Spec => []InputsUnchanged
<1>1. Init => EditInv
  BY DEF Init, EditInv, CourseOf, InputsUnchanged
<1>2. EditInv /\ [Next]_vars => EditInv'
  BY EditStep
<1>3. EditInv => InputsUnchanged
  BY DEF EditInv
<1> QED
  BY <1>1, <1>2, <1>3, PTL DEF Spec

-----------------------------------------------------------------------------
(* Handles.                                                                *)

WholeInv == (op \in Unchecked \/ CourseOf(WholeReaders)) /\ NamedIsRead

LEMMA WholeStep ==
  ASSUME HandlersReadWhole, WholeInv, [Next]_vars
  PROVE  WholeInv'
<1>1. ASSUME NEW o, NEW history, dispatchOperation(o, history),
             op' \in Unchecked \/ (o \in DOMAIN Handlers => o \in WholeReaders)
      PROVE  WholeInv'
  <2>1. held' = {} /\ (course' = <<>> \/ (o \in DOMAIN Handlers /\ course' \in Handlers[o]))
    BY <1>1 DEF dispatchOperation
  <2> QED
    BY <1>1, <2>1 DEF WholeInv, CourseOf, NamedIsRead
<1>2. ASSUME NEW o \in Served, NEW history \in BOOLEAN, Serve(o, history)
      PROVE  WholeInv'
  BY <1>1, <1>2 DEF Serve, HandlersReadWhole
<1>3. CASE Redispatched
  <2>1. /\ pc \in DOMAIN course /\ course[pc].do = "dispatch"
        /\ dispatchOperation(step.op, asked) /\ op' = op
    BY <1>3 DEF Redispatched, Doing, request, step
  <2>2. op' \in Unchecked \/ (step.op \in DOMAIN Handlers => step.op \in WholeReaders)
    <3> SUFFICES ASSUME op \notin Unchecked
                 PROVE  step.op \in DOMAIN Handlers => step.op \in WholeReaders
      BY <2>1
    <3>1. PICK o \in WholeReaders : course \in Handlers[o]
      BY <2>1 DEF WholeInv, CourseOf
    <3> QED
      BY <2>1, <3>1 DEF HandlersReadWhole, Closed, step
  <2> QED
    BY <1>1, <2>1, <2>2
<1>4. CASE Forget
  BY <1>4 DEF Forget, WholeInv, CourseOf, NamedIsRead
<1>5. CASE Finish
  BY <1>5 DEF Finish, request, handler, WholeInv, CourseOf, NamedIsRead
<1>6. CASE GoesOn
  <2>1. /\ pc \in DOMAIN course /\ UNCHANGED <<op, course>>
        /\ \A shape \in held' :
             \/ shape.named = shape.handle
             \/ step.do = "get" /\ step.wraps
             \/ \E old \in held : shape.named = old.named /\ shape.handle = old.handle
    BY <1>6 DEF GoesOn
  <2>2. ASSUME op \notin Unchecked, step.do = "get", step.wraps
        PROVE  FALSE
    <3>1. PICK o \in WholeReaders : course \in Handlers[o]
      BY <2>1, <2>2 DEF WholeInv, CourseOf
    <3>2. ReadsWhole(course)
      BY <3>1 DEF WholeReaders
    <3> QED
      BY <2>1, <2>2, <3>2 DEF ReadsWhole, step
  <2> QED
    BY <2>1, <2>2 DEF WholeInv, CourseOf, NamedIsRead
<1>7. CASE GivesUp
  BY <1>7 DEF GivesUp, WholeInv, CourseOf, NamedIsRead
<1>8. CASE Stays
  BY <1>8 DEF Stays, WholeInv, CourseOf, NamedIsRead
<1> QED
  BY <1>2, <1>3, <1>4, <1>5, <1>6, <1>7, <1>8, EveryStep

\* The shape read is the one the client named, for every range of handles, but
\* in the operations that take unchecked lists (requiredU32 and the handlers).
THEOREM NamedShapesAreRead ==
  ASSUME HandlersReadWhole
  PROVE  Spec => []NamedIsRead
<1>1. Init => WholeInv
  BY DEF Init, WholeInv, CourseOf, NamedIsRead
<1>2. WholeInv /\ [Next]_vars => WholeInv'
  BY WholeStep
<1>3. WholeInv => NamedIsRead
  BY DEF WholeInv
<1> QED
  BY <1>1, <1>2, <1>3, PTL DEF Spec
=============================================================================
