------------------------------ MODULE Session ------------------------------
(***************************************************************************)
(* One WebSocket connection from its admission to its teardown: the        *)
(* message loop (src/handlers/websocket/message_loop.py), the idle         *)
(* watchdog and the finalizer of src/handlers/websocket/manager.py, run    *)
(* concurrently with the turn tasks of TurnTasks.                          *)
(*                                                                         *)
(* loop names the await at which the connection's own task is suspended:   *)
(*   "receive"        ws.receive_text()                                    *)
(*   "replying"       the send of a reply frame                            *)
(*   "closing_end", "closing_error"  the send before its ws.close()        *)
(*   "abort_message", "abort_cancel", "abort_close"  chat_engine.abort,    *)
(*                    for a new message, a cancel, the teardown            *)
(*   "returned", "raised"  run_message_loop returned the session state, or *)
(*                    raised; the watchdog is being stopped                *)
(*   "closed"         the finalizer is done                                *)
(***************************************************************************)
EXTENDS TurnTasks

CONSTANT
  UnclassifiedErrors  \* receive_text may raise an exception that
                      \* is_expected_ws_disconnect does not name (a binary frame)

ASSUME SessionConstants == UnclassifiedErrors \in BOOLEAN

VARIABLES
  loop,         \* where the connection's task is suspended
  started,      \* the local flag of run_message_loop
  initialised   \* initialize_session has filled the session state

loopVars == <<loop, started, initialised>>
vars == <<turnVars, loopVars>>

LoopPhases ==
  {"receive", "replying", "closing_end", "closing_error", "abort_message",
   "abort_cancel", "abort_close", "returned", "raised", "closed"}

TypeOK ==
  /\ TurnTypeOK
  /\ loop \in LoopPhases
  /\ started \in BOOLEAN
  /\ initialised \in BOOLEAN

Init ==
  /\ TurnInit
  /\ loop = "receive"
  /\ started = FALSE
  /\ initialised = FALSE

\* Task t is at an await that really suspends, so that another task can run: a stream
\* whose engine is no longer running goes on to its final frame, and a send suspends only
\* when the transport's buffer is full.
AtAwait(t) ==
  /\ pc[t] = "stream" => gen[t].engine = "running" \/ cancel[t] = "pending"
  /\ pc[t] \in SendPhases => SendsSuspend

Yielded == \A t \in Turns : AtAwait(t)

-----------------------------------------------------------------------------
(* Request tracking as the connection's task drives it *)

HasRunningTask == req.task # NULL /\ pc[req.task] # "done"

\* abort_session_requests up to its await of chat_engine.abort.
AbortRequests ==
  /\ req' = CancelRequests(req)
  /\ cancel' = IF HasRunningTask THEN [cancel EXCEPT ![req.task] = "pending"] ELSE cancel
  /\ gen' = IF req.active # NULL /\ DeployChat
            THEN [gen EXCEPT ![req.active] = EngineAborted(@)] ELSE gen
  /\ UNCHANGED <<pc, stored, followup, applies, sock, wire, asked>>

\* spawn_session_task for a planned turn.
SpawnTurn(r, t) ==
  /\ pc[t] = "unborn"
  /\ req' = AttachTask(BeginRequest(r, t), t)
  /\ pc' = [pc EXCEPT ![t] = "created"]
  /\ applies' = [applies EXCEPT ![t] = followup]
  /\ loop' = IF sock = "down" THEN "returned" ELSE "receive"
  /\ UNCHANGED <<cancel, gen, stored, followup, sock, wire, asked>>

\* The connection's task sends a frame; an exception of the send leaves run_message_loop.
Reply(next) ==
  \E o \in SendOutcomes :
    /\ sock' = SockAfter(o)
    /\ loop' = IF o = "raised" THEN "raised" ELSE next

RejectMessage(r, next) ==
  /\ Reply(next)
  /\ req' = r
  /\ UNCHANGED <<pc, cancel, gen, stored, followup, applies, wire, asked>>

\* handle_turn_message for a message: a valid one becomes a turn, a missing utterance is
\* answered, invalid sampling parameters are answered and close the socket.
TakeMessage(r) ==
  \/ \E t \in Turns : SpawnTurn(r, t)
  \/ RejectMessage(r, "replying")
  \/ DeployChat /\ RejectMessage(r, "closing_error")

-----------------------------------------------------------------------------
(* The message loop *)

Receiving == loop = "receive" /\ Yielded

\* Messages with one reply and no other effect: ping, a parse error, a rate-limited or
\* unsupported message, a second start, a message before start.
RecvControl ==
  /\ Receiving
  /\ Reply("replying")
  /\ UNCHANGED <<req, pc, cancel, gen, stored, followup, applies, wire, asked>>
  /\ UNCHANGED <<started, initialised>>

\* bootstrap_start_turn: an accepted start is answered with done, a rejected one closes.
RecvStart ==
  /\ Receiving /\ ~started
  /\ initialised' = TRUE
  /\ followup' = FALSE
  /\ \/ Reply("replying") /\ started' = (loop' # "raised")
     \/ Reply("closing_error") /\ UNCHANGED started
  /\ UNCHANGED <<req, pc, cancel, gen, stored, applies, wire, asked>>

RecvEnd ==
  /\ Receiving
  /\ Reply("closing_end")
  /\ UNCHANGED <<req, pc, cancel, gen, stored, followup, applies, wire, asked>>
  /\ UNCHANGED <<started, initialised>>

RecvCancel ==
  /\ Receiving
  /\ AbortRequests
  /\ loop' = "abort_cancel"
  /\ UNCHANGED <<started, initialised>>

\* The rest of handle_cancel_message, after which the loop takes the session as started.
CancelAborted ==
  /\ loop = "abort_cancel" /\ Yielded
  /\ req' = ForceCleanup(req)
  /\ Reply("replying")
  /\ started' = (started \/ loop' # "raised")
  /\ UNCHANGED <<pc, cancel, gen, stored, followup, applies, wire, asked, initialised>>

\* Mutant of RecvMessage: the running turn is not aborted.
RecvMessageWithoutBargeIn ==
  /\ Receiving /\ started
  /\ TakeMessage(req)
  /\ UNCHANGED <<started, initialised>>

\* A message while a turn is running aborts that turn first (barge-in).
RecvMessage ==
  /\ Receiving /\ started
  /\ IF HasRunningTask THEN AbortRequests /\ loop' = "abort_message"
                       ELSE TakeMessage(req)
  /\ UNCHANGED <<started, initialised>>

MessageAborted ==
  /\ loop = "abort_message" /\ Yielded
  /\ TakeMessage(ForceCleanup(req))
  /\ UNCHANGED <<started, initialised>>

ReplySent ==
  /\ loop = "replying" /\ Yielded
  /\ loop' = IF sock = "down" THEN "returned" ELSE "receive"
  /\ UNCHANGED <<turnVars, started, initialised>>

\* ws.close raises on a socket that is closed already; only `end` suppresses that.
CloseSocket ==
  /\ loop \in {"closing_end", "closing_error"} /\ Yielded
  /\ sock' = "down"
  /\ loop' = IF loop = "closing_error" /\ sock = "down" THEN "raised" ELSE "returned"
  /\ UNCHANGED <<req, pc, cancel, gen, stored, followup, applies, wire, asked>>
  /\ UNCHANGED <<started, initialised>>

\* Mutant of ReceiveEnds: the receive does not see the close of the watchdog.
ReceiveEndsOnDisconnect ==
  /\ Receiving /\ sock = "gone"
  /\ sock' = "down"
  /\ loop' = "returned"
  /\ UNCHANGED <<req, pc, cancel, gen, stored, followup, applies, wire, asked>>
  /\ UNCHANGED <<started, initialised>>

\* receive_text reports the disconnect; from then on the server refuses to send.
ReceiveEnds ==
  /\ Receiving /\ sock # "open"
  /\ sock' = "down"
  /\ loop' = "returned"
  /\ UNCHANGED <<req, pc, cancel, gen, stored, followup, applies, wire, asked>>
  /\ UNCHANGED <<started, initialised>>

ReceiveFails ==
  /\ UnclassifiedErrors
  /\ Receiving
  /\ loop' = "raised"
  /\ UNCHANGED <<turnVars, started, initialised>>

-----------------------------------------------------------------------------
(* Disconnects and teardown *)

ClientLeaves ==
  /\ sock = "open" /\ loop # "closed"
  /\ sock' = "gone"
  /\ UNCHANGED <<req, pc, cancel, gen, stored, followup, applies, wire, asked, loopVars>>

\* The idle watchdog closes the socket; it runs until the finalizer stops it.
WatchdogFires ==
  /\ sock # "down" /\ Yielded
  /\ loop \notin {"returned", "raised", "abort_close", "closed"}
  /\ sock' = "down"
  /\ UNCHANGED <<req, pc, cancel, gen, stored, followup, applies, wire, asked, loopVars>>

\* _cleanup_session, with the state that run_message_loop returned.
Teardown ==
  /\ loop = "returned" /\ Yielded
  /\ AbortRequests
  /\ loop' = "abort_close"
  /\ UNCHANGED <<started, initialised>>

SessionClosed ==
  /\ loop = "abort_close" /\ Yielded
  /\ req' = CloseRequests(ForceCleanup(req))
  /\ sock' = "down"
  /\ loop' = "closed"
  /\ UNCHANGED <<pc, cancel, gen, stored, followup, applies, wire, asked>>
  /\ UNCHANGED <<started, initialised>>

\* When run_message_loop raises, the finalizer has no state to clean up.
FailedTeardown ==
  /\ loop = "raised" /\ Yielded
  /\ sock' = "down"
  /\ loop' = "closed"
  /\ UNCHANGED <<req, pc, cancel, gen, stored, followup, applies, wire, asked>>
  /\ UNCHANGED <<started, initialised>>

-----------------------------------------------------------------------------
ClientMessage == RecvControl \/ RecvStart \/ RecvEnd \/ RecvCancel \/ RecvMessage

\* What the connection's task does next without waiting for its client.
LoopContinues ==
  \/ CancelAborted \/ MessageAborted \/ ReplySent \/ CloseSocket \/ ReceiveEnds
  \/ Teardown \/ SessionClosed \/ FailedTeardown

\* One task runs at a time: t takes a step while every other task is at an await.
TaskTurn(t) ==
  /\ \A u \in Turns \ {t} : AtAwait(u)
  /\ TurnStep(t)
  /\ UNCHANGED loopVars

Next ==
  \/ ClientMessage \/ LoopContinues \/ ReceiveFails
  \/ ClientLeaves \/ WatchdogFires
  \/ \E t \in Turns : TaskTurn(t)

Spec == Init /\ [][Next]_vars

\* asyncio resumes every task whose await is over, and every await is over at some time:
\* the engine's by CHAT_TIMEOUT_S, the tool's by TOOL_TIMEOUT_S, a send's by the
\* WebSocket's own ping timeout.  The client owes nothing, but what it sent before it left
\* is finite, so the disconnect is received in the end.
Fairness ==
  /\ \A t \in Turns : WF_vars(TaskTurn(t))
  /\ WF_vars(LoopContinues)
  /\ SF_vars(ReceiveEnds)

FairSpec == Spec /\ Fairness

-----------------------------------------------------------------------------
(* Correctness *)

\* A turn that runs and was not cancelled is the one the session tracks: aborting the
\* tracked request aborts all there is, so two live turns never share the socket, and no
\* finishing task clears the request of its successor (requests.py:109-111).
LiveIsTracked ==
  \A t \in Turns :
    Alive(t) /\ cancel[t] = "none" =>
      /\ req.active = t /\ req.task = t
      /\ req.lifecycle = "running" /\ ~req.cancelRequested

\* No frame of a turn follows its cancellation, be it by cancel, by the next message or by
\* the teardown, although the cancelled task has yet to run when the abort returns.
SilentAfterAbort ==
  [][\A t \in Turns : cancel[t] # "none" => wire'[t] = wire[t]]_vars

\* On vLLM an engine never generates for a turn that was cancelled or whose last frame the
\* client has had, whichever way the turn left its stream; so a client that was answered, or
\* that cancelled, shares the engine with nothing of its own.  It generates for the turn that
\* waits for it, whose request an abort finds, or for one that was cut off at the send of a
\* token and whose generators the event loop has yet to close (helpers.py:70-72).
EngineIsOwned ==
  \A t \in Turns :
    gen[t].engine = "running" =>
      /\ cancel[t] = "none" /\ wire[t].last \notin {"final", "done", "error"}
      /\ \/ pc[t] \in {"stream", "tokensend"} /\ req.active = t
         \/ pc[t] = "done" /\ gen[t].inflight

\* However a turn ends, chat history has what the client saw of it, but for the one chunk
\* whose send was cut off, and, while the client is there, nothing it did not see.
HistoryMatchesWire ==
  \A t \in Turns :
    pc[t] = "done" =>
      /\ wire[t].shown <= stored[t] + 1
      /\ wire[t].last = "done" => wire[t].shown <= stored[t]
      /\ sock = "open" => stored[t] <= wire[t].shown

\* A turn that nobody cancelled ends with done or with an error, as long as the client is
\* there to receive it.
TurnsAreAnswered ==
  \A t \in Turns :
    pc[t] = "done" /\ cancel[t] = "none" /\ sock = "open" =>
      wire[t].last \in {"done", "error"}

\* The screen-checked prefix goes to the turn planned right after the client was asked for
\* a screenshot, and to no other (session.py:56), whatever is cancelled in between.
FollowupMatches ==
  [][\A t \in Turns :
       pc[t] = "unborn" /\ pc'[t] = "created" /\ sock = "open" =>
         applies'[t] = asked]_vars

\* A turn is started only on a connection whose start was processed (ADVANCED.md, "Requires
\* a prior `start` on this connection"; message_loop.py:109).
TurnsFollowStart == \A t \in Turns : pc[t] # "unborn" => initialised

\* A generation whose turn is over is not left running, its timeout included
\* (controller.py:19, "Automatic request abortion on timeout").
NoStrayGeneration ==
  \A t \in Turns : pc[t] = "done" /\ sock = "open" => gen[t].engine # "running"

\* The finalizer leaves no live turn behind (requests.py:17, "clean cancellation of
\* in-flight generation and proper cleanup when connections close").
ClosedLeavesNoLiveTurn ==
  loop = "closed" => \A t \in Turns : Alive(t) => cancel[t] # "none"

\* Every turn ends: under a slow or silent engine, client and tool model.
EveryTurnEnds == \A t \in Turns : Alive(t) ~> pc[t] = "done"

\* A client that is gone, or a socket closed by the watchdog, leads to the finalizer, which
\* gives the connection's slot back.
LostClientIsFinalized == sock # "open" ~> loop = "closed"

-----------------------------------------------------------------------------
(* The connection implements the protocol its client relies on. *)

status ==
  [t \in Turns |->
     IF pc[t] = "unborn" THEN "waiting"
     ELSE IF cancel[t] # "none" THEN "dead"
     ELSE IF pc[t] = "done" THEN "over" ELSE "live"]

Protocol == INSTANCE TurnProtocol WITH frames <- wire, connected <- (sock = "open")

\* Every step of the connection is a step of TurnProtocol or invisible to the client.
ImplementsProtocol == Protocol!Spec
=============================================================================
