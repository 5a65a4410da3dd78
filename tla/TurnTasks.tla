----------------------------- MODULE TurnTasks -----------------------------
(***************************************************************************)
(* The background tasks of one WebSocket connection: each message turn     *)
(* runs dispatch_execution (src/messages/dispatch.py) as an asyncio task   *)
(* under _run_with_supervision (src/handlers/websocket/supervision.py).    *)
(*                                                                         *)
(* asyncio runs one task at a time and switches only at an await that      *)
(* suspends, so a step of this module is the code between two such awaits. *)
(* pc[t] names the await at which task t is suspended:                     *)
(*   "created"       the task has not had its first step                   *)
(*   "tool"          wait_for on the tool classification                   *)
(*   "toolsend_yes", "toolsend_no"  the send of the tool frame             *)
(*   "stream"        the next output of the chat engine                    *)
(*   "tokensend"     the send of a token frame                             *)
(*   "tailsend_cancel", "tailsend_fail"  the send of the buffered tail,    *)
(*                   yielded while a CancelledError or an exception        *)
(*                   unwinds iter_text                                     *)
(*   "finalsend", "donesend", "errsend"  the send of that frame            *)
(* A send writes its frame before it suspends in the transport's drain.    *)
(***************************************************************************)
EXTENDS SessionRequests, Naturals

CONSTANTS
  MaxChunks,       \* bound: token frames of one turn
  DeployChat,      \* a chat engine is deployed
  DeployTool,      \* a tool model is deployed
  Vllm,            \* the chat engine: TRUE vLLM, FALSE TensorRT-LLM
  FlushBuffering,  \* STREAM_FLUSH_MS > 0
  SendsSuspend,    \* a send may suspend (a client slower than the transport's buffer)
  LegacyAsyncio    \* the event loop is Python 3.10's (the TensorRT-LLM image)

ASSUME TurnConstants ==
  /\ MaxChunks \in Nat \ {0}
  /\ DeployChat \in BOOLEAN /\ DeployTool \in BOOLEAN
  /\ DeployChat \/ DeployTool
  /\ Vllm \in BOOLEAN /\ FlushBuffering \in BOOLEAN
  /\ SendsSuspend \in BOOLEAN /\ LegacyAsyncio \in BOOLEAN

VARIABLES
  req,       \* the request fields of SessionState
  pc,        \* where each task is suspended
  cancel,    \* task.cancel(): "none", "pending", "delivered", or "swallowed" by wait_for
  gen,       \* each turn's generation: the engine's side, whether the engine's generator
             \* holds the request (TRTEngine._inflight), and the stream's buffers
  stored,    \* chunks of each turn's reply that chat history holds (0: no entry)
  followup,  \* state.screen_followup_pending
  applies,   \* TurnPlan.apply_screen_checked_prefix of each turn
  sock,      \* "open"; "gone": the client left unnoticed; "down": a send raises
  wire,      \* what the client received of each turn: last frame kind, token frames
  asked      \* the last tool frame the client received asked for a screenshot

turnVars == <<req, pc, cancel, gen, stored, followup, applies, sock, wire, asked>>

SendPhases ==
  {"toolsend_yes", "toolsend_no", "tokensend", "tailsend_cancel", "tailsend_fail",
   "finalsend", "donesend", "errsend"}
Phases == {"unborn", "created", "tool", "stream", "done"} \cup SendPhases
FrameKinds == {"none", "tool", "token", "final", "done", "error"}

Generation ==
  [engine : {"none", "running", "finished", "aborted"}, inflight : BOOLEAN,
   held : BOOLEAN, text : 0 .. MaxChunks]

TurnTypeOK ==
  /\ req \in Requests
  /\ pc \in [Turns -> Phases]
  /\ cancel \in [Turns -> {"none", "pending", "delivered", "swallowed"}]
  /\ gen \in [Turns -> Generation]
  /\ stored \in [Turns -> 0 .. MaxChunks]
  /\ followup \in BOOLEAN
  /\ applies \in [Turns -> BOOLEAN]
  /\ sock \in {"open", "gone", "down"}
  /\ wire \in [Turns -> [last : FrameKinds, shown : 0 .. MaxChunks]]
  /\ asked \in BOOLEAN

TurnInit ==
  /\ req = FreshRequests
  /\ pc = [t \in Turns |-> "unborn"]
  /\ cancel = [t \in Turns |-> "none"]
  /\ gen = [t \in Turns |->
              [engine |-> "none", inflight |-> FALSE, held |-> FALSE, text |-> 0]]
  /\ stored = [t \in Turns |-> 0]
  /\ followup = FALSE
  /\ applies = [t \in Turns |-> FALSE]
  /\ sock = "open"
  /\ wire = [t \in Turns |-> [last |-> "none", shown |-> 0]]
  /\ asked = FALSE

Alive(t) == pc[t] \notin {"unborn", "done"}

\* A task with a cancellation pending gets CancelledError at its next step instead.
Runs(t) == Alive(t) /\ cancel[t] # "pending"

-----------------------------------------------------------------------------
(* Sends and the engine *)

\* safe_send_text: "sent" reaches the client; "lost" is accepted for a client that has
\* left; "dropped" returns FALSE (WebSocketDisconnect); "raised" is the RuntimeError of a
\* socket that already sent its close frame, which safe_send_text does not catch.
SendOutcomes ==
  CASE sock = "open" -> {"sent"}
    [] sock = "gone" -> {"lost", "dropped"}
    [] sock = "down" -> {"raised"}

Through(o) == o \in {"sent", "lost"}

SockAfter(o) == IF o = "dropped" THEN "down" ELSE sock

\* Task t sends a frame with outcome o.
Frame(t, kind, o) ==
  /\ sock' = SockAfter(o)
  /\ wire' = IF o # "sent" THEN wire
             ELSE [wire EXCEPT ![t] =
                     [last |-> kind,
                      shown |-> IF kind = "token" THEN @.shown + 1 ELSE @.shown]]

\* engine.abort(request_id): vLLM aborts by id; TRTEngine.abort aborts only what its
\* _inflight map still holds.
EngineAborted(g) ==
  [g EXCEPT !.engine = IF @ = "running" /\ (Vllm \/ g.inflight) THEN "aborted" ELSE @,
            !.inflight = FALSE]

\* Mutant of Unwound: vLLM's generator, too, only forgets the request.
UnwoundSilently(g) == [g EXCEPT !.inflight = FALSE, !.held = FALSE]

\* The engine's generator is unwound, by an exception at its own await or by aclose():
\* vLLM's aborts its request; TRTEngine's only forgets it.
Unwound(g) ==
  [g EXCEPT !.engine = IF @ = "running" /\ Vllm THEN "aborted" ELSE @,
            !.inflight = FALSE, !.held = FALSE]

-----------------------------------------------------------------------------
(* Ways a step of a task ends *)

Suspend(t, phase) == pc' = [pc EXCEPT ![t] = phase] /\ UNCHANGED req

\* The task is over: the finally of _run_with_supervision completes the request.
Finish(t) == pc' = [pc EXCEPT ![t] = "done"] /\ req' = CompleteRequest(req, t)

\* Mutant of Commit: a reply is recorded only when its turn ended with `done`.
CommitComplete(t, n) ==
  stored' = [stored EXCEPT ![t] = IF n > 0 /\ pc[t] = "donesend" THEN n ELSE @]

\* _commit_history_once of stream_chat_response with n chunks in final_text.
Commit(t, n) == stored' = [stored EXCEPT ![t] = IF n > 0 THEN n ELSE @]

\* A task sends one frame and, unless the socket refuses it, suspends there.
SendThenSuspend(t, kind, phase) ==
  \E o \in SendOutcomes :
    /\ Frame(t, kind, o)
    /\ IF Through(o) THEN Suspend(t, phase) ELSE Finish(t)

\* Mutant of Crash: supervision logs the exception and answers nothing.
CrashSilently(t) == Finish(t) /\ UNCHANGED <<sock, wire>>

\* An exception reaches _run_with_supervision, which answers it with an error frame.
Crash(t) == SendThenSuspend(t, "error", "errsend")

\* fit_chat_prompt_to_budget, then the first step of the chat stream.
StartChat(t) ==
  \/ /\ gen' = [gen EXCEPT ![t] = [@ EXCEPT !.engine = "running", !.inflight = TRUE]]
     /\ Suspend(t, "stream")
     /\ UNCHANGED <<sock, wire>>
  \/ /\ SendThenSuspend(t, "error", "errsend")  \* text_too_long
     /\ UNCHANGED gen

-----------------------------------------------------------------------------
(* The tool phase: run_execution up to the chat stream, _run_tool_only *)

BeginTurn(t) ==
  /\ pc[t] = "created" /\ Runs(t)
  /\ IF DeployTool THEN Suspend(t, "tool") /\ UNCHANGED <<gen, sock, wire>>
                   ELSE StartChat(t)
  /\ UNCHANGED <<cancel, stored, followup, applies, asked>>

\* send_toolcall ignores the result of its send.
SendTool(t, isTool) ==
  \E o \in SendOutcomes :
    /\ Frame(t, "tool", o)
    /\ asked' = IF o = "sent" THEN isTool ELSE asked
    /\ IF o = "raised" THEN Finish(t)
       ELSE Suspend(t, IF isTool THEN "toolsend_yes" ELSE "toolsend_no")

ToolAnswers(t) ==
  /\ pc[t] = "tool" /\ Runs(t)
  /\ \E isTool \in BOOLEAN : SendTool(t, isTool)
  /\ UNCHANGED <<cancel, gen, stored, followup, applies>>

\* TOOL_TIMEOUT_S: no tool call.  The TimeoutError of Python 3.10's wait_for is not the
\* builtin one that the except clause names, so there the turn may fail instead.
ToolTimesOut(t) ==
  /\ pc[t] = "tool" /\ Runs(t)
  /\ \/ SendTool(t, FALSE)
     \/ LegacyAsyncio /\ Crash(t) /\ UNCHANGED asked
  /\ UNCHANGED <<cancel, gen, stored, followup, applies>>

ToolFails(t) ==
  /\ pc[t] = "tool" /\ Runs(t)
  /\ Crash(t)
  /\ UNCHANGED <<cancel, gen, stored, followup, applies, asked>>

\* Mutant of FollowupAfter: the flag is never cleared.
FollowupKept(t) == IF pc[t] = "toolsend_yes" THEN TRUE ELSE followup

\* _resolve_user_utterance_for_chat: the flag for the turn after this one.
FollowupAfter(t) ==
  IF pc[t] = "toolsend_yes" THEN TRUE
  ELSE IF applies[t] THEN FALSE ELSE followup

\* Mutant of ToolSent: a turn that asked for a screenshot waits for it.
ToolSentUnlessAsked(t) ==
  /\ pc[t] = "toolsend_no" /\ Runs(t)
  /\ IF DeployChat
     THEN followup' = FollowupAfter(t) /\ StartChat(t)
     ELSE /\ \E o \in SendOutcomes :
               /\ Frame(t, "final", o)
               /\ IF o = "raised" THEN Finish(t) ELSE Suspend(t, "finalsend")
          /\ UNCHANGED <<followup, gen>>
  /\ UNCHANGED <<cancel, stored, applies, asked>>

ToolSent(t) ==
  /\ pc[t] \in {"toolsend_yes", "toolsend_no"} /\ Runs(t)
  /\ IF DeployChat
     THEN followup' = FollowupAfter(t) /\ StartChat(t)
     ELSE /\ \E o \in SendOutcomes :
               /\ Frame(t, "final", o)
               /\ IF o = "raised" THEN Finish(t) ELSE Suspend(t, "finalsend")
          /\ UNCHANGED <<followup, gen>>
  /\ UNCHANGED <<cancel, stored, applies, asked>>

-----------------------------------------------------------------------------
(* The chat stream: ChatStreamController under stream_chat_response *)

\* An output of the engine, a flushed buffer, or the tail of the buffer or the sanitizer
\* after the engine's last output, becomes a token frame.  A dropped frame ends the turn
\* as interrupted, a raised one as failed; both record the text sent before, and neither
\* closes the generators of the stream: see GeneratorFinalized.
EmitToken(t) ==
  /\ pc[t] = "stream" /\ Runs(t) /\ gen[t].text < MaxChunks
  /\ gen[t].engine = "running" => ~IsRequestCancelled(req, t)
  /\ gen' = [gen EXCEPT ![t].held = FALSE]
  /\ \E o \in SendOutcomes :
       /\ Frame(t, "token", o)
       /\ IF Through(o) THEN Suspend(t, "tokensend") /\ UNCHANGED stored
                        ELSE Finish(t) /\ Commit(t, gen[t].text)
  /\ UNCHANGED <<cancel, followup, applies, asked>>

\* With STREAM_FLUSH_MS > 0 an output may stay in the buffer.
BufferDelta(t) ==
  /\ FlushBuffering
  /\ pc[t] = "stream" /\ Runs(t) /\ gen[t].text < MaxChunks
  /\ gen[t].engine = "running" /\ ~IsRequestCancelled(req, t)
  /\ gen' = [gen EXCEPT ![t].held = TRUE]
  /\ UNCHANGED <<req, pc, cancel, stored, followup, applies, sock, wire, asked>>

\* Mutant of TokenSent: the chunk is added to final_text twice.
TokenCountedTwice(t) ==
  /\ pc[t] = "tokensend" /\ Runs(t)
  /\ gen' = [gen EXCEPT ![t].text = @ + 2]
  /\ Suspend(t, "stream")
  /\ UNCHANGED <<cancel, stored, followup, applies, sock, wire, asked>>

TokenSent(t) ==
  /\ pc[t] = "tokensend" /\ Runs(t)
  /\ gen' = [gen EXCEPT ![t].text = @ + 1]
  /\ Suspend(t, "stream")
  /\ UNCHANGED <<cancel, stored, followup, applies, sock, wire, asked>>

EngineEnds(t) ==
  /\ pc[t] = "stream" /\ Runs(t) /\ gen[t].engine = "running"
  /\ gen' = [gen EXCEPT ![t] = [@ EXCEPT !.engine = "finished", !.inflight = FALSE]]
  /\ UNCHANGED <<req, pc, cancel, stored, followup, applies, sock, wire, asked>>

\* An output of the engine finds the request cancelled or superseded: the engine is
\* aborted and StreamCancelledError ends iter_text as if the stream were complete.
CooperativeCancel(t) ==
  /\ pc[t] = "stream" /\ Runs(t) /\ gen[t].engine = "running"
  /\ IsRequestCancelled(req, t)
  /\ gen' = [gen EXCEPT ![t] = [EngineAborted(@) EXCEPT !.held = FALSE]]
  /\ UNCHANGED <<req, pc, cancel, stored, followup, applies, sock, wire, asked>>

\* The stream is exhausted: "Model produced no output", or the final frame.
FinishStream(t) ==
  /\ pc[t] = "stream" /\ Runs(t) /\ gen[t].engine # "running" /\ ~gen[t].held
  /\ IF gen[t].text = 0
     THEN SendThenSuspend(t, "error", "errsend") /\ UNCHANGED stored
     ELSE \E o \in SendOutcomes :
            /\ Frame(t, "final", o)
            /\ IF Through(o) THEN Suspend(t, "finalsend") /\ UNCHANGED stored
                             ELSE Finish(t) /\ Commit(t, gen[t].text)
  /\ UNCHANGED <<cancel, gen, followup, applies, asked>>

\* For a tool-only turn gen[t].text = 0 and Commit records nothing.
FinalSent(t) ==
  /\ pc[t] = "finalsend" /\ Runs(t)
  /\ \E o \in SendOutcomes :
       /\ Frame(t, "done", o)
       /\ IF Through(o) THEN Suspend(t, "donesend") /\ UNCHANGED stored
                        ELSE Finish(t) /\ Commit(t, gen[t].text)
  /\ UNCHANGED <<cancel, gen, followup, applies, asked>>

DoneSent(t) ==
  /\ pc[t] = "donesend" /\ Runs(t)
  /\ Finish(t) /\ Commit(t, gen[t].text)
  /\ UNCHANGED <<cancel, gen, followup, applies, sock, wire, asked>>

ErrorSent(t) ==
  /\ pc[t] = "errsend" /\ Runs(t)
  /\ Finish(t)
  /\ UNCHANGED <<cancel, gen, stored, followup, applies, sock, wire, asked>>

-----------------------------------------------------------------------------
(* Failures and timeouts of the stream *)

\* An exception unwinds iter_text with the engine side left as g: its finally yields a
\* held tail first; stream_chat_response records the text, supervision answers.
StreamRaises(t, g) ==
  /\ gen' = [gen EXCEPT ![t] = [g EXCEPT !.held = FALSE]]
  /\ IF gen[t].held
     THEN \E o \in SendOutcomes :
            /\ Frame(t, "token", o)
            /\ IF Through(o) THEN Suspend(t, "tailsend_fail") /\ UNCHANGED stored
                             ELSE Finish(t) /\ Commit(t, gen[t].text)
     ELSE Commit(t, gen[t].text) /\ Crash(t)

EngineFails(t) ==
  /\ pc[t] = "stream" /\ Runs(t) /\ gen[t].engine = "running"
  /\ StreamRaises(t, [gen[t] EXCEPT !.engine = "finished", !.inflight = FALSE])
  /\ UNCHANGED <<cancel, followup, applies, asked>>

\* CHAT_TIMEOUT_S while waiting for the engine: the timeout unwinds the engine's
\* generator first, and only then does _stream_with_timeout call engine.abort.
ChatTimesOut(t) ==
  /\ pc[t] = "stream" /\ Runs(t) /\ gen[t].engine = "running"
  /\ StreamRaises(t, EngineAborted(Unwound(gen[t])))
  /\ UNCHANGED <<cancel, followup, applies, asked>>

\* CHAT_TIMEOUT_S while a token send is suspended: the timer cancels the task outside the
\* generator that holds the `async with`, so nothing turns the CancelledError into a
\* TimeoutError.  No abort, no frame; the text sent before is recorded.  The generators
\* stay suspended where they yielded.
ChatTimesOutInSend(t) ==
  /\ SendsSuspend
  /\ pc[t] = "tokensend" /\ Runs(t) /\ gen[t].engine = "running"
  /\ Finish(t) /\ Commit(t, gen[t].text)
  /\ UNCHANGED <<cancel, gen, followup, applies, sock, wire, asked>>

FailTailSent(t) ==
  /\ pc[t] = "tailsend_fail" /\ Runs(t)
  /\ gen' = [gen EXCEPT ![t].text = @ + 1]
  /\ Commit(t, gen[t].text + 1) /\ Crash(t)
  /\ UNCHANGED <<cancel, followup, applies, asked>>

\* A turn that left its stream at a send drops the generators of the stream unclosed.  Only
\* the event loop's finalizer closes them, in tasks of their own, one generator after the
\* other from run_chat_generation's down to the engine's, once the turn's task is over.
GeneratorFinalized(t) ==
  /\ pc[t] = "done" /\ gen[t].inflight
  /\ gen' = [gen EXCEPT ![t] = Unwound(@)]
  /\ UNCHANGED <<req, pc, cancel, stored, followup, applies, sock, wire, asked>>

\* An engine carries on with a request nobody aborted until it is complete.
StrayGenerationEnds(t) ==
  /\ pc[t] = "done" /\ gen[t].engine = "running"
  /\ gen' = [gen EXCEPT ![t].engine = "finished"]
  /\ UNCHANGED <<req, pc, cancel, stored, followup, applies, sock, wire, asked>>

-----------------------------------------------------------------------------
(* Cancellation *)

\* A task cancelled before its first step never runs, not even its finally.
CancelUnstarted(t) ==
  /\ pc[t] = "created"
  /\ pc' = [pc EXCEPT ![t] = "done"]
  /\ UNCHANGED <<req, gen, stored, sock, wire>>

\* CancelledError reaches the engine's await with text in the micro-buffer: the finally of
\* iter_text yields that tail, which is sent.
CancelWithTail(t) ==
  /\ pc[t] = "stream" /\ gen[t].held
  /\ gen' = [gen EXCEPT ![t] = Unwound(@)]
  /\ \E o \in SendOutcomes :
       /\ Frame(t, "token", o)
       /\ IF Through(o) THEN Suspend(t, "tailsend_cancel") /\ UNCHANGED stored
                        ELSE Finish(t) /\ Commit(t, gen[t].text)

\* Mutant of CancelAtAwait: supervision answers a CancelledError like any exception.
CancelAnswered(t) ==
  /\ pc[t] # "created" /\ ~(pc[t] = "stream" /\ gen[t].held)
  /\ gen' = IF pc[t] = "stream" THEN [gen EXCEPT ![t] = Unwound(@)] ELSE gen
  /\ Commit(t, gen[t].text) /\ Crash(t)

\* CancelledError unwinds the engine's generator only where that is what the task awaits.
CancelAtAwait(t) ==
  /\ pc[t] # "created" /\ ~(pc[t] = "stream" /\ gen[t].held)
  /\ gen' = IF pc[t] = "stream" THEN [gen EXCEPT ![t] = Unwound(@)] ELSE gen
  /\ Finish(t) /\ Commit(t, gen[t].text)
  /\ UNCHANGED <<sock, wire>>

DeliverCancel(t) ==
  /\ Alive(t) /\ cancel[t] = "pending"
  /\ cancel' = [cancel EXCEPT ![t] = "delivered"]
  /\ CancelUnstarted(t) \/ CancelWithTail(t) \/ CancelAtAwait(t)
  /\ UNCHANGED <<followup, applies, asked>>

CancelTailSent(t) ==
  /\ pc[t] = "tailsend_cancel" /\ Runs(t)
  /\ gen' = [gen EXCEPT ![t].text = @ + 1]
  /\ Finish(t) /\ Commit(t, gen[t].text + 1)
  /\ UNCHANGED <<cancel, followup, applies, sock, wire, asked>>

\* Before Python 3.12, wait_for returns the result of a future that is already done and
\* drops the CancelledError: the cancelled turn carries on.
SwallowCancel(t) ==
  /\ LegacyAsyncio
  /\ pc[t] = "tool" /\ cancel[t] = "pending"
  /\ cancel' = [cancel EXCEPT ![t] = "swallowed"]
  /\ \E isTool \in BOOLEAN : SendTool(t, isTool)
  /\ UNCHANGED <<gen, stored, followup, applies>>

-----------------------------------------------------------------------------
TaskStep(t) ==
  \/ BeginTurn(t) \/ ToolAnswers(t) \/ ToolTimesOut(t) \/ ToolFails(t) \/ ToolSent(t)
  \/ EmitToken(t) \/ BufferDelta(t) \/ TokenSent(t) \/ EngineEnds(t)
  \/ CooperativeCancel(t) \/ FinishStream(t) \/ FinalSent(t) \/ DoneSent(t)
  \/ ErrorSent(t) \/ EngineFails(t) \/ ChatTimesOut(t) \/ ChatTimesOutInSend(t)
  \/ FailTailSent(t) \/ DeliverCancel(t) \/ CancelTailSent(t) \/ SwallowCancel(t)

TurnStep(t) == TaskStep(t) \/ GeneratorFinalized(t) \/ StrayGenerationEnds(t)

=============================================================================
