-------------------------- MODULE ToolBatchProofs --------------------------
(***************************************************************************)
(* Proofs about ToolBatch, for any number of calls and threads and any     *)
(* batch size: no call gets another's verdict, none is lost between the    *)
(* threads and the worker, and a turn hears what ToolService promises.     *)
(*                                                                         *)
(* The promise to the turns rests on what a thread leaves behind being     *)
(* final: a call is in the pool once, then with a thread, and only the     *)
(* thread's end writes got.                                                *)
(***************************************************************************)
EXTENDS ToolBatch, SequenceTheorems, TLAPS

-----------------------------------------------------------------------------
(* Lemmas about queues *)

Distinct(q) == \A i, j \in 1 .. Len(q) : q[i] = q[j] => i = j

\* Joining a queue.
LEMMA Joined ==
  ASSUME NEW S, NEW q \in Seq(S), NEW x \in S
  PROVE  LET r == Append(q, x)
         IN  /\ r \in Seq(S) /\ Len(r) = Len(q) + 1
             /\ Range(r) = Range(q) \cup {x}
             /\ Distinct(q) /\ x \notin Range(q) => Distinct(r)
<1> DEFINE r == Append(q, x)
<1>1. /\ r \in Seq(S) /\ Len(r) = Len(q) + 1
      /\ \A i \in 1 .. Len(q) : r[i] = q[i]
      /\ r[Len(q) + 1] = x
      /\ DOMAIN r = 1 .. Len(q) + 1 /\ DOMAIN q = 1 .. Len(q) /\ Len(q) \in Nat
  BY AppendProperties
<1> HIDE DEF r
<1>2. Range(r) = Range(q) \cup {x}
  BY <1>1 DEF Range
<1>3. Distinct(q) /\ x \notin Range(q) => Distinct(r)
  BY <1>1 DEF Range, Distinct
<1>. QED  BY <1>1, <1>2, <1>3 DEF r

\* Leaving a queue from its head.
LEMMA Left ==
  ASSUME NEW S, NEW q \in Seq(S), q # <<>>
  PROVE  LET r == Tail(q)
         IN  /\ Len(q) \in Nat \ {0} /\ 1 \in 1 .. Len(q)
             /\ Head(q) = q[1] /\ Head(q) \in S /\ Head(q) \in Range(q)
             /\ r \in Seq(S) /\ Len(r) = Len(q) - 1
             /\ \A i \in 1 .. Len(r) : r[i] = q[i + 1] /\ i + 1 \in 1 .. Len(q)
             /\ Range(q) = Range(r) \cup {Head(q)}
             /\ Distinct(q) => Distinct(r) /\ Head(q) \notin Range(r)
<1> DEFINE r == Tail(q)
<1>1. Len(q) \in Nat \ {0} /\ 1 \in 1 .. Len(q) /\ DOMAIN q = 1 .. Len(q) /\ Head(q) = q[1]
  BY EmptySeq
<1>2. /\ r \in Seq(S) /\ Len(r) = Len(q) - 1 /\ DOMAIN r = 1 .. Len(r)
      /\ \A i \in 1 .. Len(r) : r[i] = q[i + 1] /\ i + 1 \in 1 .. Len(q)
  BY <1>1, HeadTailProperties
<1> HIDE DEF r
<1>3. Head(q) \in S /\ Head(q) \in Range(q)
  BY <1>1 DEF Range
<1>4. Range(q) = Range(r) \cup {Head(q)}
  <2>1. ASSUME NEW i \in 1 .. Len(q), i # 1
        PROVE  i - 1 \in 1 .. Len(r) /\ r[i - 1] = q[i]
    BY <1>1, <1>2, <2>1
  <2>2. Range(q) \subseteq Range(r) \cup {Head(q)}
    BY <1>1, <1>2, <2>1 DEF Range
  <2>3. Range(r) \subseteq Range(q)
    BY <1>1, <1>2 DEF Range
  <2>. QED  BY <1>3, <2>2, <2>3
<1>5. Distinct(q) => Distinct(r) /\ Head(q) \notin Range(r)
  BY <1>1, <1>2 DEF Distinct, Range
<1>. QED  BY <1>1, <1>2, <1>3, <1>4, <1>5 DEF r

-----------------------------------------------------------------------------
(* The inductive invariant *)

\* The batch is empty while the worker waits for a first request, and only then; what is
\* being delivered is, for each request, its own verdict or the exception.
WorkerInv ==
  /\ worker = "getting" <=> batch = <<>>
  /\ worker = "delivering" =>
       /\ Len(results) = Len(batch)
       /\ \A i \in 1 .. Len(batch) : results[i] \in {batch[i], Failed}

\* A call is submitted once and has one thread, which is the first to say how it ended.
CallsInv ==
  /\ Distinct(pool)
  /\ \A c \in Range(pool) \cup busy : got[c] = Nothing /\ turn[c] # "idle"
  /\ \A c \in Range(pool) : c \notin busy
  /\ \A c \in Calls :
       /\ got[c] \in {c, Failed, TimedOut, Nothing}
       /\ turn[c] = "answered" => got[c] = c
       /\ turn[c] = "idle" => got[c] = Nothing

IInv == TypeOK /\ WorkerInv /\ CallsInv /\ OwnAnswer /\ NoneIsLost

\* Nothing is asked for yet, and the worker waits.
LEMMA InitInvariant == Init => IInv
<1> SUFFICES ASSUME Init PROVE IInv
  OBVIOUS
<1> USE DEF Init
<1>1. Range(<<>>) = {} /\ Len(<<>>) = 0
  BY DEF Range
<1>2. TypeOK
  BY <1>1, BatchConstants, EmptySeq DEF TypeOK, Verdicts
<1>3. WorkerInv /\ CallsInv /\ OwnAnswer /\ NoneIsLost
  BY <1>1 DEF WorkerInv, CallsInv, Distinct, OwnAnswer, NoneIsLost
<1>. QED  BY <1>2, <1>3 DEF IInv

-----------------------------------------------------------------------------
(* One lemma per action that moves a call *)

\* A new call joins the pool.
LEMMA AskKeeps ==
  ASSUME IInv, NEW c \in Calls, Ask(c)
  PROVE  IInv'
<1> USE DEF IInv, Ask, turnVars, workerVars
<1>1. /\ pool' \in Seq(Calls) /\ Range(pool') = Range(pool) \cup {c}
      /\ c \notin Range(pool) /\ Distinct(pool')
  <2>1. pool \in Seq(Calls) /\ Distinct(pool) /\ c \notin Range(pool)
    BY DEF TypeOK, CallsInv
  <2>. QED  BY <2>1, Joined
<1>2. TypeOK'
  BY <1>1 DEF TypeOK
<1>3. WorkerInv' /\ OwnAnswer' /\ NoneIsLost'
  BY DEF WorkerInv, OwnAnswer, NoneIsLost
<1>4. CallsInv'
  <2>1. /\ \A d \in Calls : d # c => turn'[d] = turn[d]
        /\ turn'[c] = "awaiting" /\ c \notin busy /\ got[c] = Nothing
    BY DEF TypeOK, CallsInv
  <2>2. Distinct(pool)'
    BY <1>1 DEF Distinct
  <2>3. Range(pool) \cup busy \subseteq Calls
    BY DEF TypeOK, Range
  <2>. QED  BY <1>1, <2>1, <2>2, <2>3 DEF CallsInv
<1>. QED  BY <1>2, <1>3, <1>4

\* A turn hears the end of its call, or gives up.
LEMMA HearKeeps ==
  ASSUME IInv, NEW c \in Calls, Hear(c) \/ GiveUp(c)
  PROVE  IInv'
<1> USE DEF IInv, turnVars, workerVars
<1>1. /\ UNCHANGED <<pool, busy, got, queue, worker, batch, results, answer>>
      /\ turn[c] = "awaiting"
      /\ \E t \in {"answered", "failed", "gaveup"} :
           turn' = [turn EXCEPT ![c] = t] /\ (t = "answered" => got[c] = c)
  BY DEF Hear, GiveUp, CallsInv
<1>2. TypeOK'
  BY <1>1 DEF TypeOK
<1>3. WorkerInv' /\ OwnAnswer' /\ NoneIsLost'
  BY <1>1 DEF WorkerInv, OwnAnswer, NoneIsLost
<1>4. CallsInv'
  <2>1. Distinct(pool)' /\ Range(pool) \cup busy \subseteq Calls
    BY <1>1 DEF Distinct, TypeOK, Range, CallsInv
  <2>. QED  BY <1>1, <2>1 DEF CallsInv, TypeOK
<1>. QED  BY <1>2, <1>3, <1>4

\* The name of a call that is over becomes free.
LEMMA ForgetKeeps ==
  ASSUME IInv, NEW c \in Calls, Forget(c)
  PROVE  IInv'
<1> USE DEF IInv, Forget, turnVars, workerVars
<1>1. TypeOK'
  BY DEF TypeOK
<1>2. WorkerInv' /\ OwnAnswer' /\ NoneIsLost'
  BY DEF WorkerInv, OwnAnswer, NoneIsLost, TypeOK
<1>3. CallsInv'
  <2>1. Distinct(pool)' /\ Range(pool) \cup busy \subseteq Calls
    BY DEF Distinct, TypeOK, Range, CallsInv
  <2>. QED  BY <2>1 DEF CallsInv, TypeOK
<1>. QED  BY <1>1, <1>2, <1>3

\* A thread takes up a call, and puts its request in the queue, or drops it.
LEMMA TakeUpKeeps ==
  ASSUME IInv, TakeUp
  PROVE  IInv'
<1> USE DEF IInv, turnVars, workerVars
<1> DEFINE c == Head(pool)
<1>1. /\ c \in Calls /\ c \in Range(pool)
      /\ pool' \in Seq(Calls) /\ Distinct(pool')
      /\ Range(pool) = Range(pool') \cup {c} /\ c \notin Range(pool')
  <2>1. pool \in Seq(Calls) /\ pool # <<>> /\ Distinct(pool) /\ pool' = Tail(pool)
    BY DEF TakeUp, TypeOK, CallsInv
  <2>. QED  BY <2>1, Left
<1>2. /\ UNCHANGED <<turn, got, worker, batch, results, answer>>
      /\ \/ UNCHANGED <<busy, queue>>
         \/ busy' = busy \cup {c} /\ queue' = Append(queue, c)
  BY DEF TakeUp
<1> HIDE DEF c
<1>3. queue' \in Seq(Calls) /\ Range(queue) \subseteq Range(queue')
  <2>1. CASE queue' = queue
    BY <2>1 DEF TypeOK
  <2>2. CASE queue' = Append(queue, c)
    BY <1>1, <2>2, Joined DEF TypeOK
  <2>. QED  BY <1>2, <2>1, <2>2
<1>4. busy' \subseteq busy \cup {c} /\ (c \in busy' => c \in busy \/ c \in Range(queue'))
  <2>1. CASE busy' = busy
    BY <2>1
  <2>2. CASE busy' = busy \cup {c} /\ queue' = Append(queue, c)
    BY <1>1, <2>2, Joined DEF TypeOK
  <2>. QED  BY <1>2, <2>1, <2>2
<1>5. TypeOK'
  BY <1>1, <1>2, <1>3, <1>4 DEF TypeOK
<1>6. WorkerInv' /\ OwnAnswer'
  BY <1>2 DEF WorkerInv, OwnAnswer
<1>7. NoneIsLost'
  BY <1>2, <1>3, <1>4 DEF NoneIsLost
<1>8. CallsInv'
  <2>1. Distinct(pool)'
    BY <1>1 DEF Distinct
  <2>. QED  BY <1>1, <1>2, <1>4, <2>1 DEF CallsInv
<1>. QED  BY <1>5, <1>6, <1>7, <1>8

\* A thread ends, with what the future holds or with a timeout.
LEMMA ThreadEndsKeeps ==
  ASSUME IInv, NEW c \in Calls, Classified(c) \/ ClassifyTimesOut(c)
  PROVE  IInv'
<1> USE DEF IInv, turnVars, workerVars
<1>1. /\ UNCHANGED <<turn, pool, queue, worker, batch, results, answer>>
      /\ c \in busy /\ busy' = busy \ {c}
      /\ \E g \in {c, Failed, TimedOut} : got' = [got EXCEPT ![c] = g]
  BY DEF Classified, ClassifyTimesOut, OwnAnswer
<1>2. TypeOK'
  BY <1>1 DEF TypeOK, Verdicts
<1>3. WorkerInv' /\ OwnAnswer' /\ NoneIsLost'
  BY <1>1 DEF WorkerInv, OwnAnswer, NoneIsLost
<1>4. CallsInv'
  <2>1. Distinct(pool)' /\ Range(pool) \cup busy \subseteq Calls
    BY <1>1 DEF Distinct, TypeOK, Range, CallsInv
  <2>2. turn[c] \notin {"idle", "answered"} /\ c \notin Range(pool)
    BY <1>1, BatchConstants DEF CallsInv
  <2>. QED  BY <1>1, <2>1, <2>2 DEF CallsInv, TypeOK
<1>. QED  BY <1>2, <1>3, <1>4

\* A step of the worker leaves the calls where they are.
LEMMA CallsUntouched ==
  ASSUME CallsInv, UNCHANGED turnVars
  PROVE  CallsInv'
BY DEF CallsInv, turnVars, Distinct

\* The worker takes the first request of the queue.
LEMMA CollectKeeps ==
  ASSUME IInv, CollectFirst \/ CollectMore
  PROVE  IInv'
<1> USE DEF IInv
<1>1. /\ queue \in Seq(Calls) /\ queue # <<>> /\ queue' = Tail(queue)
      /\ batch \in Seq(Calls) /\ batch' = Append(batch, Head(queue))
      /\ worker' = "collecting" /\ UNCHANGED <<turnVars, results, answer>>
  <2>1. CASE CollectFirst
    <3>1. batch = <<>> /\ Append(<<>>, Head(queue)) = <<Head(queue)>>
      BY <2>1 DEF CollectFirst, WorkerInv
    <3>. QED  BY <2>1, <3>1 DEF CollectFirst, TypeOK
  <2>2. CASE CollectMore
    BY <2>2 DEF CollectMore, TypeOK
  <2>. QED  BY <2>1, <2>2
<1>2. Len(batch) < MaxBatch
  <2>1. CASE CollectFirst
    BY <2>1, BatchConstants, EmptySeq DEF CollectFirst, WorkerInv
  <2>2. CASE CollectMore
    BY <2>2 DEF CollectMore
  <2>. QED  BY <2>1, <2>2
<1>3. /\ queue' \in Seq(Calls) /\ Head(queue) \in Calls
      /\ Range(queue) = Range(queue') \cup {Head(queue)}
  BY <1>1, Left
<1>4. /\ batch' \in Seq(Calls) /\ Len(batch') = Len(batch) + 1
      /\ Range(batch') = Range(batch) \cup {Head(queue)}
  BY <1>1, <1>3, Joined
<1>5. Len(batch) \in Nat /\ Len(batch') <= MaxBatch /\ batch' # <<>>
  <2>1. Len(batch) \in Nat
    BY <1>1
  <2>. QED  BY <1>2, <1>4, <2>1, BatchConstants, EmptySeq
<1>6. TypeOK'
  BY <1>1, <1>3, <1>4, <1>5 DEF TypeOK, turnVars
<1>7. WorkerInv' /\ OwnAnswer' /\ CallsInv'
  BY <1>1, <1>5, CallsUntouched DEF WorkerInv, OwnAnswer
<1>8. NoneIsLost'
  BY <1>1, <1>3, <1>4 DEF NoneIsLost, turnVars
<1>. QED  BY <1>6, <1>7, <1>8

\* From the full batch to its results.
LEMMA InferKeeps ==
  ASSUME IInv, CollectEnds \/ Infer \/ InferFails
  PROVE  IInv'
<1> USE DEF IInv
<1>1. /\ UNCHANGED <<turnVars, queue, batch, answer>>
      /\ worker # "getting" /\ worker' # "getting"
      /\ batch \in Seq(Calls)
  BY DEF CollectEnds, Infer, InferFails, TypeOK
<1>2. /\ results' \in Seq(Verdicts)
      /\ worker' \in {"inferring", "delivering"}
      /\ worker' = "delivering" =>
           /\ Len(results') = Len(batch)
           /\ \A i \in 1 .. Len(batch) : results'[i] \in {batch[i], Failed}
  <2>1. CASE CollectEnds
    BY <2>1 DEF CollectEnds, TypeOK
  <2>2. CASE Infer
    BY <1>1, <2>2 DEF Infer, Verdicts
  <2>3. CASE InferFails
    <3>1. Len(batch) \in Nat
      BY <1>1
    <3>. QED  BY <2>3, <3>1 DEF InferFails, Verdicts
  <2>. QED  BY <2>1, <2>2, <2>3
<1>3. TypeOK'
  BY <1>1, <1>2 DEF TypeOK, turnVars
<1>4. WorkerInv'
  BY <1>1, <1>2 DEF WorkerInv
<1>5. CallsInv' /\ OwnAnswer' /\ NoneIsLost'
  BY <1>1, CallsUntouched DEF OwnAnswer, NoneIsLost, turnVars
<1>. QED  BY <1>3, <1>4, <1>5

\* The first request of the batch gets the first of the results.
LEMMA DeliverKeeps ==
  ASSUME IInv, Deliver
  PROVE  IInv'
<1> USE DEF IInv
<1> DEFINE c == Head(batch)
           v == Head(results)
<1>1. /\ batch \in Seq(Calls) /\ batch # <<>> /\ batch' = Tail(batch)
      /\ results \in Seq(Verdicts) /\ results' = Tail(results)
      /\ Len(results) = Len(batch)
      /\ \A i \in 1 .. Len(batch) : results[i] \in {batch[i], Failed}
      /\ UNCHANGED <<turnVars, queue>>
      /\ answer' = [answer EXCEPT ![c] = v]
      /\ worker' = IF Len(batch) = 1 THEN "getting" ELSE "delivering"
  BY DEF Deliver, WorkerInv, TypeOK
<1>2. /\ Len(batch) \in Nat \ {0} /\ 1 \in 1 .. Len(batch) /\ c = batch[1] /\ c \in Calls
      /\ batch' \in Seq(Calls) /\ Len(batch') = Len(batch) - 1
      /\ Range(batch) = Range(batch') \cup {c}
      /\ \A i \in 1 .. Len(batch') : batch'[i] = batch[i + 1] /\ i + 1 \in 1 .. Len(batch)
  BY <1>1, Left
<1>3. results # <<>>
  BY <1>1, <1>2, EmptySeq
<1>4. /\ v = results[1] /\ v \in Verdicts
      /\ results' \in Seq(Verdicts) /\ Len(results') = Len(results) - 1
      /\ \A i \in 1 .. Len(results') : results'[i] = results[i + 1]
  BY <1>1, <1>3, Left
<1>5. v \in {c, Failed} /\ v # Nothing
  BY <1>1, <1>2, <1>4, BatchConstants DEF Verdicts
<1> HIDE DEF c, v
<1>6. batch' = <<>> <=> Len(batch) = 1
  BY <1>2, EmptySeq
<1>7. WorkerInv'
  BY <1>1, <1>2, <1>4, <1>6 DEF WorkerInv
<1>8. TypeOK'
  BY <1>1, <1>2, <1>4, BatchConstants DEF TypeOK, turnVars
<1>9. OwnAnswer' /\ CallsInv'
  BY <1>1, <1>2, <1>5, CallsUntouched DEF OwnAnswer, TypeOK
<1>10. NoneIsLost'
  BY <1>1, <1>2, <1>5 DEF NoneIsLost, turnVars, TypeOK
<1>. QED  BY <1>7, <1>8, <1>9, <1>10

\* Every step keeps the invariant.
LEMMA NextInvariant == IInv /\ [Next]_vars => IInv'
<1> SUFFICES ASSUME IInv, [Next]_vars PROVE IInv'
  OBVIOUS
<1>1. CASE \E c \in Calls : \/ Ask(c) \/ Hear(c) \/ GiveUp(c) \/ Forget(c)
                            \/ Classified(c) \/ ClassifyTimesOut(c)
  BY <1>1, AskKeeps, HearKeeps, ForgetKeeps, ThreadEndsKeeps
<1>2. CASE TakeUp
  BY <1>2, TakeUpKeeps
<1>3. CASE WorkerStep \/ CollectMore
  BY <1>3, CollectKeeps, InferKeeps, DeliverKeeps DEF WorkerStep
<1>4. CASE UNCHANGED vars
  BY <1>4 DEF vars, workerVars, IInv, TypeOK, WorkerInv, CallsInv, Distinct, OwnAnswer, NoneIsLost
<1>. QED  BY <1>1, <1>2, <1>3, <1>4 DEF Next

\* The invariant holds in every state of every behaviour.
LEMMA Invariance == Spec => []IInv
BY InitInvariant, NextInvariant, PTL DEF Spec

-----------------------------------------------------------------------------
(* The theorems *)

\* Type correctness, with the bound on the size of a batch.
THEOREM TypeCorrect == Spec => []TypeOK
<1>1. IInv => TypeOK
  BY DEF IInv
<1>. QED  BY <1>1, Invariance, PTL

\* Whatever calls share a batch, whoever times out or gives up, and however inference fails:
\* a future holds the verdict on its own call's text, an exception, or nothing yet.
THEOREM AnswersAreOnesOwn == Spec => []OwnAnswer
<1>1. IInv => OwnAnswer
  BY DEF IInv
<1>. QED  BY <1>1, Invariance, PTL

\* A thread that waits has its request in the queue or in the batch, until it is answered.
THEOREM RequestsAreKept == Spec => []NoneIsLost
<1>1. IInv => NoneIsLost
  BY DEF IInv
<1>. QED  BY <1>1, Invariance, PTL

\* What the turns hear is a behaviour of ToolService: one end for each call, its own answer
\* if an answer, and nothing once a turn has given up.
THEOREM TurnsAreServed == Spec => ImplementsService
<1> DEFINE heard == [c \in Calls |-> IF turn[c] = "answered" /\ got[c] # c THEN "wrong" ELSE turn[c]]
<1>1. ASSUME IInv PROVE heard = turn
  BY <1>1 DEF IInv, TypeOK, CallsInv
<1>2. Init => Service!Init
  BY DEF Init, Service!Init
<1>3. IInv /\ IInv' /\ [Next]_vars => [Service!Next]_heard
  <2> SUFFICES ASSUME IInv, IInv', [Next]_vars PROVE [Service!Next]_heard
    OBVIOUS
  <2>1. heard = turn /\ heard' = turn'
    BY <1>1 DEF IInv, TypeOK, CallsInv
  <2>2. CASE UNCHANGED turn
    BY <2>1, <2>2
  <2>3. CASE \E c \in Calls : Ask(c) \/ Hear(c) \/ GiveUp(c) \/ Forget(c)
    <3>1. PICK c \in Calls : Ask(c) \/ Hear(c) \/ GiveUp(c) \/ Forget(c)
      BY <2>3
    <3>2. \/ turn[c] = "idle" /\ turn' = [turn EXCEPT ![c] = "awaiting"]
          \/ /\ turn[c] = "awaiting"
             /\ \E end \in {"answered", "failed", "gaveup"} : turn' = [turn EXCEPT ![c] = end]
          \/ /\ turn[c] \in {"answered", "failed", "gaveup"}
             /\ turn' = [turn EXCEPT ![c] = "idle"]
      BY <3>1 DEF Ask, Hear, GiveUp, Forget
    <3>3. Service!Next
      BY <2>1, <3>2 DEF Service!Next, Service!Becomes, Service!Over
    <3>. QED  BY <3>3
  <2>. QED
    BY <2>2, <2>3 DEF Next, vars, turnVars, WorkerStep, TakeUp, Classified, ClassifyTimesOut,
       CollectFirst, CollectMore, CollectEnds, Infer, InferFails, Deliver
<1>. QED
  BY <1>2, <1>3, Invariance, PTL DEF Spec, ImplementsService, Service!Spec

=============================================================================
