----------------------------- MODULE ToolBatch -----------------------------
(***************************************************************************)
(* The classification of utterances: turns that ask (src/execution/tool/   *)
(* runner.py, src/execution/executor.py), the threads of asyncio's default *)
(* executor that wait for an answer each, and the worker thread of         *)
(* BatchExecutor (src/tool/batch.py, src/tool/future.py), which collects   *)
(* requests into batches and delivers their results.                       *)
(*                                                                         *)
(* A call stands for its text: the model's verdict on the text of call c   *)
(* is written c.                                                           *)
(***************************************************************************)
EXTENDS Naturals, Sequences, FiniteSets, Functions

CONSTANTS
  Calls,     \* names of classifications: one that is over may be used again
  PoolSize,  \* threads of the default executor
  MaxBatch,  \* batch_max_size
  Nothing, Failed, TimedOut  \* no result yet, an exception, a TimeoutError

ASSUME BatchConstants ==
  /\ IsFiniteSet(Calls)
  /\ PoolSize \in Nat \ {0} /\ MaxBatch \in Nat \ {0}
  /\ Nothing \notin Calls /\ Failed \notin Calls /\ TimedOut \notin Calls
  /\ Nothing # Failed /\ Nothing # TimedOut /\ Failed # TimedOut

VARIABLES
  turn,     \* what the turn behind each call knows: see ToolService
  pool,     \* calls submitted to the executor that no thread has taken
  busy,     \* calls whose thread is in classify
  got,      \* what each call's thread ended with
  queue,    \* BatchExecutor._queue
  worker,   \* where the worker is: "getting", "collecting", "inferring", "delivering"
  batch,    \* the requests it has collected and not yet answered
  results,  \* what it will answer them
  answer    \* each call's BatchFuture

vars == <<turn, pool, busy, got, queue, worker, batch, results, answer>>
turnVars == <<turn, pool, busy, got>>
workerVars == <<worker, batch, results>>

Verdicts == Calls \cup {Failed}

TypeOK ==
  /\ turn \in [Calls -> {"idle", "awaiting", "answered", "failed", "gaveup"}]
  /\ pool \in Seq(Calls)
  /\ busy \subseteq Calls
  /\ got \in [Calls -> Verdicts \cup {Nothing, TimedOut}]
  /\ queue \in Seq(Calls)
  /\ worker \in {"getting", "collecting", "inferring", "delivering"}
  /\ batch \in Seq(Calls) /\ Len(batch) <= MaxBatch
  /\ results \in Seq(Verdicts)
  /\ answer \in [Calls -> Verdicts \cup {Nothing}]

Init ==
  /\ turn = [c \in Calls |-> "idle"]
  /\ pool = <<>>
  /\ busy = {}
  /\ got = [c \in Calls |-> Nothing]
  /\ queue = <<>>
  /\ worker = "getting"
  /\ batch = <<>>
  /\ results = <<>>
  /\ answer = [c \in Calls |-> Nothing]

-----------------------------------------------------------------------------
(* The turns, on the event loop *)

\* The tool task of a turn submits the classification.
Ask(c) ==
  /\ turn[c] = "idle"
  /\ turn' = [turn EXCEPT ![c] = "awaiting"]
  /\ pool' = Append(pool, c)
  /\ UNCHANGED <<busy, got, queue, workerVars, answer>>

\* Mutant of Hear: what the thread returned reaches a turn that has given up.
HearLate(c) ==
  /\ turn[c] \in {"awaiting", "gaveup"} /\ got[c] # Nothing
  /\ turn' = [turn EXCEPT ![c] = IF got[c] \in {Failed, TimedOut} THEN "failed" ELSE "answered"]
  /\ UNCHANGED <<pool, busy, got, queue, workerVars, answer>>

\* The turn resumes with what the thread returned or raised.
Hear(c) ==
  /\ turn[c] = "awaiting" /\ got[c] # Nothing
  /\ turn' = [turn EXCEPT ![c] = CASE got[c] = Failed -> "failed"
                                   [] got[c] = TimedOut -> "gaveup"
                                   [] OTHER -> "answered"]
  /\ UNCHANGED <<pool, busy, got, queue, workerVars, answer>>

\* The turn is cancelled, or its wait_for times out, at its await.
GiveUp(c) ==
  /\ turn[c] = "awaiting"
  /\ turn' = [turn EXCEPT ![c] = "gaveup"]
  /\ UNCHANGED <<pool, busy, got, queue, workerVars, answer>>

\* Nobody refers to the call any more: its name is free for another.
Forget(c) ==
  /\ turn[c] \in {"answered", "failed", "gaveup"}
  /\ c \notin busy \cup Range(pool) \cup Range(queue) \cup Range(batch)
  /\ turn' = [turn EXCEPT ![c] = "idle"]
  /\ got' = [got EXCEPT ![c] = Nothing]
  /\ answer' = [answer EXCEPT ![c] = Nothing]
  /\ UNCHANGED <<pool, busy, queue, workerVars>>

-----------------------------------------------------------------------------
(* The threads of the executor *)

\* Mutant of TakeUp: a thread takes the last submission.
TakeUpNewest ==
  /\ pool # <<>> /\ Cardinality(busy) < PoolSize
  /\ pool' = SubSeq(pool, 1, Len(pool) - 1)
  /\ LET c == pool[Len(pool)]
     IN  IF turn[c] = "awaiting"
         THEN busy' = busy \cup {c} /\ queue' = Append(queue, c)
         ELSE UNCHANGED <<busy, queue>>
  /\ UNCHANGED <<turn, got, workerVars, answer>>

\* A free thread takes the first submission; one whose turn gave up before is dropped.
TakeUp ==
  /\ pool # <<>> /\ Cardinality(busy) < PoolSize
  /\ pool' = Tail(pool)
  /\ LET c == Head(pool)
     IN  IF turn[c] = "awaiting"
         THEN busy' = busy \cup {c} /\ queue' = Append(queue, c)
         ELSE UNCHANGED <<busy, queue>>
  /\ UNCHANGED <<turn, got, workerVars, answer>>

\* BatchFuture.result finds the event set.
Classified(c) ==
  /\ c \in busy /\ answer[c] # Nothing
  /\ busy' = busy \ {c}
  /\ got' = [got EXCEPT ![c] = answer[c]]
  /\ UNCHANGED <<turn, pool, queue, workerVars, answer>>

\* BatchFuture.result times out, which it may do although the event has just been set.
ClassifyTimesOut(c) ==
  /\ c \in busy
  /\ busy' = busy \ {c}
  /\ got' = [got EXCEPT ![c] = TimedOut]
  /\ UNCHANGED <<turn, pool, queue, workerVars, answer>>

-----------------------------------------------------------------------------
(* The worker thread *)

\* _collect_batch: the first request, for which the worker waits.
CollectFirst ==
  /\ worker = "getting" /\ queue # <<>>
  /\ batch' = <<Head(queue)>>
  /\ queue' = Tail(queue)
  /\ worker' = "collecting"
  /\ UNCHANGED <<turnVars, results, answer>>

\* Mutant of CollectMore: the batch may grow by one too many.
CollectOneTooMany ==
  /\ worker = "collecting" /\ Len(batch) <= MaxBatch /\ queue # <<>>
  /\ batch' = Append(batch, Head(queue))
  /\ queue' = Tail(queue)
  /\ UNCHANGED <<turnVars, worker, results, answer>>

\* One more before the deadline.
CollectMore ==
  /\ worker = "collecting" /\ Len(batch) < MaxBatch /\ queue # <<>>
  /\ batch' = Append(batch, Head(queue))
  /\ queue' = Tail(queue)
  /\ UNCHANGED <<turnVars, worker, results, answer>>

\* Mutant of CollectEnds: the deadline passes inside queue.get, and what it returned is lost.
CollectEndsLosing ==
  /\ worker = "collecting"
  /\ worker' = "inferring"
  /\ queue' = IF Len(batch) < MaxBatch /\ queue # <<>> THEN Tail(queue) ELSE queue
  /\ UNCHANGED <<turnVars, batch, results, answer>>

\* The batch is full, or max_delay has passed.
CollectEnds ==
  /\ worker = "collecting"
  /\ worker' = "inferring"
  /\ UNCHANGED <<turnVars, queue, batch, results, answer>>

\* _dispatch_batch: inference over the texts of the batch.
Infer ==
  /\ worker = "inferring"
  /\ results' = batch
  /\ worker' = "delivering"
  /\ UNCHANGED <<turnVars, queue, batch, answer>>

\* Mutant of InferFails: the worker tries again instead.
InferRetries ==
  /\ worker = "inferring"
  /\ worker' = "collecting"
  /\ UNCHANGED <<turnVars, queue, batch, results, answer>>

\* Inference raises, or returns a wrong number of results: everyone gets the exception.
InferFails ==
  /\ worker = "inferring"
  /\ results' = [i \in 1 .. Len(batch) |-> Failed]
  /\ worker' = "delivering"
  /\ UNCHANGED <<turnVars, queue, batch, answer>>

\* Mutant of Deliver: the results are handed out from the last one.
DeliverReversed ==
  /\ worker = "delivering"
  /\ answer' = [answer EXCEPT ![Head(batch)] = results[Len(results)]]
  /\ batch' = Tail(batch)
  /\ results' = SubSeq(results, 1, Len(results) - 1)
  /\ worker' = IF Len(batch) = 1 THEN "getting" ELSE "delivering"
  /\ UNCHANGED <<turnVars, queue>>

\* The next request of the batch gets its result: set_result or set_exception.
Deliver ==
  /\ worker = "delivering"
  /\ answer' = [answer EXCEPT ![Head(batch)] = Head(results)]
  /\ batch' = Tail(batch)
  /\ results' = Tail(results)
  /\ worker' = IF Len(batch) = 1 THEN "getting" ELSE "delivering"
  /\ UNCHANGED <<turnVars, queue>>

WorkerStep == CollectFirst \/ CollectEnds \/ Infer \/ InferFails \/ Deliver

Next ==
  \/ \E c \in Calls :
       Ask(c) \/ Hear(c) \/ GiveUp(c) \/ Forget(c) \/ Classified(c) \/ ClassifyTimesOut(c)
  \/ TakeUp \/ WorkerStep \/ CollectMore

Spec == Init /\ [][Next]_vars

\* The threads run, the timeouts pass, inference ends.
FairSpec ==
  /\ Spec
  /\ WF_vars(TakeUp) /\ WF_vars(WorkerStep)
  /\ \A c \in Calls : WF_vars(Classified(c) \/ ClassifyTimesOut(c)) /\ WF_vars(Hear(c))

-----------------------------------------------------------------------------
(* Correctness *)

\* An answer is the verdict on the call's own text, whoever shared the batch and whoever gave
\* up meanwhile.
OwnAnswer == \A c \in Calls : answer[c] \in {c, Failed, Nothing}

\* A request nobody has answered is with the worker: no thread waits for what will not come.
NoneIsLost == \A c \in busy : answer[c] = Nothing => c \in Range(queue) \cup Range(batch)

\* What a turn hears is what it may rely on.
Service == INSTANCE ToolService WITH
  heard <- [c \in Calls |-> IF turn[c] = "answered" /\ got[c] # c THEN "wrong" ELSE turn[c]]
ImplementsService == Service!Spec

\* Every request is answered though its thread and its turn may be gone: failed inference
\* and timeouts never stop the worker.
EveryRequestAnswered == \A c \in Calls : c \in Range(queue) ~> c \notin Range(queue) \cup Range(batch)

\* A turn that does not give up hears the end of its call, however many calls the pool is
\* short of threads for.
EveryCallEnds == \A c \in Calls : turn[c] = "awaiting" ~> turn[c] # "awaiting"

\* ADVANCED.md:536, of a cancel: "The server immediately aborts both chat and tool engines".
\* So the worker takes up no request whose turn has given up.
CancelAbortsTool ==
  [][\A c \in Range(queue) : turn[c] = "gaveup" => c \notin Range(batch')]_vars

=============================================================================
