# Verification of the Yap text inference server

A FastAPI process serves chat over WebSockets. Each connection is one session:
a client sends `start`, then `message` after `message`; each message is a
*turn*, classified by a tool model (does it call for a screenshot?) and answered
by a streaming chat engine, vLLM or TensorRT-LLM. A client may `cancel` a turn or
interrupt it with the next message (barge-in), leave at any moment, or fall
silent. Most of what is hard here is asyncio: who is suspended where when a
cancellation, a timeout, a lost client or a second turn arrives.

This directory holds TLA+ modules translated from `src/src/`, TLC configurations
that check them on small instances, and TLAPS proofs. Paths below are relative to
`src/src/`.

## The system

| Component | State | Operations | Hard behaviour | Correct when |
|---|---|---|---|---|
| Request tracking (`handlers/session/requests.py`) | `active_request_id`, `active_request_task`, `lifecycle_state`, `cancel_requested` | begin, attach task, cancel, complete, force-clean, close | a turn that was aborted finishes after its successor began | the tracked request is the live one (`LiveIsTracked`) |
| Message loop, lifecycle, finalizer (`handlers/websocket/`, `messages/`) | the loop's own position, `started`, the socket, the idle watchdog | one handler per message, barge-in, cancel, watchdog, teardown | an abort awaits the engine while the turn it cancelled goes on; errors leave the loop on two paths, with and without the session's state | one live turn, silence after an abort, no turn left behind, the finalizer reached |
| Turn execution (`execution/`, `handlers/websocket/helpers.py`) | one asyncio task per turn: its await, its pending cancellation, the text sent and held back | tool phase, follow-up flag, stream, final frames, history commit | cancellation, timeout, dropped or raising send at each await; code in `finally` blocks that yields | each turn is answered, history holds what was shown, the flag goes to the next turn |
| Chat engines (`engines/vllm/engine.py`, `engines/trt/engine.py`) | requests running in the engine, TensorRT-LLM's `_inflight` map | `generate_stream`, `abort` | unwinding a generator and aborting it are two things | nothing generates for a turn that is over |
| Connection admission (`handlers/connections.py`) | a semaphore, `active_connections` | `connect`, `disconnect` | `wait_for` times out as the permit is handed over; failing handshakes | slots are conserved, no wake-up is lost |
| Cache resets (`engines/vllm/cache.py`) | a lock, an event, `last_reset`, the daemon | `try_reset`, the daemon's loop, resets by finalizers | timer, event and lock race | the daemon's deadline is right; handlers never hang |
| Tool batching (`tool/batch.py`, `tool/future.py`, `tool/adapter.py`, `execution/tool/runner.py`) | the queue, the batch, a future per request, threads of the default executor | `classify`, collect, dispatch, `result` | four kinds of threads of control; turns that give up on requests already queued | each turn hears its own verdict or none |
| Session settings and memory (`handlers/session/`, `messages/`) | `meta`, the chat store, the tool store, the follow-up flag | start, plan of a turn, append, trim, render, import | a plan copies what an aborted turn still writes; two stores, trimmed differently; prefixes put on and taken off | stores bounded and in order, the newest kept, no prefix remembered, prompts fit |
| Token budgets (`tokens/`, `execution/*/prompt_budget.py`) | none: pure | count, cut, fit | boundaries of an estimate and of three binary searches | what is returned fits (`PromptsAreSound`) |
| The way in (`handlers/websocket/auth.py`, `limits.py`, `handlers/limits.py`, parser, validators, sampling) | failures per host, two deques of times per connection | authenticate, parse, count, validate | window edges; two buckets; the many forms of a number | throttled exactly, limits hold in every window, an override means what was sent |
| Stream sanitizer (`text/`) | raw tail, emitted parts, held tail | `push`, `flush` | later chunks change earlier text | only the final answer is sent, bounded delay |
| Runtime start and shutdown (`server.py`, `runtime/`, `telemetry/`) | parts under construction, exporters, the first failure | check, build side by side, serve, shut down | one of several parts fails while the others are being built | failures are told, shutdown is complete |
| Configuration and engine arguments (`config/`, `engines/*/`, `quantization/vllm/core/detection.py`) | none after the import | derive and validate, size, fall back | little memory, a profile that asks for more | the profile holds (`ServedKeepsItsProfile`) |
| Log filters (`scripts/filters/`) | a chain of wrappers with partial lines, the descriptor window | write, flush, suppress | three layers of buffers, moved descriptors | one filter in effect, an exact window |
| Quantization and hub (`quantization/`, `hf/`, the launch scripts) | the output directory, the running job, what was uploaded | launch, fetch, calibrate, save, push | kills between files, relaunches over what is left | the marker means a whole directory |
| TensorRT-LLM engine pipeline (`scripts/lib/trt/`, `quantization/trt/`, `hf/trt/`) | engine directories, checkpoint, repository | look, download, build, record, push | a volume that moves, metadata that is lost | a downloaded engine fits its machine |

Left alone, with the reason in `PROJECT.json`: the tool result parser (a pure
function whose outcome is a choice in the models), installation and process
scripts, images, linting, tests.

How they interact: the connection's task (message loop) spawns turn tasks and
aborts them through the request fields; a turn task drives its engine's generator
and the tool batcher; its finalizer gives back the slot and resets the caches; all
but the threads of the batcher run on one event loop.

Before the server there is a deployment: a quantization or the engine pipeline
leaves a directory, from which a process is started, whose parts then serve.

## Modules

| Module | Models | Uses |
|---|---|---|
| `SessionRequests` | `requests.py`, one value-to-value operator per function | |
| `TurnTasks` | the turn tasks: executor, stream controller, engines, sends | `SessionRequests` |
| `Session` | one connection: message loop, watchdog, finalizer, next to its turns | `TurnTasks` |
| `TurnProtocol` | abstract: what a client may rely on | |
| `MCSession` | symmetry and a bound for TLC | `Session` |
| `SessionProofs` | proofs about turns, then about the connection; refinement included | `Session`, TLAPS |
| `Admission` | slots: semaphore, active set, handlers' paths around them | |
| `CacheReset` | the reset manager and its daemon | |
| `Server` | all connections: admission with the cache resets of the finalizers | `Admission`, `CacheReset` |
| `ServerProofs` | proofs | `Server`, TLAPS |
| `ToolBatch` | turns, threads and the worker around `BatchExecutor` | |
| `ToolService` | abstract: what a turn may rely on | |
| `ToolBatchProofs` | proofs, refinement included | `ToolBatch`, TLAPS |
| `Tokens` | counting, cutting, the binary search, the tool model's lines | |
| `ChatHistory` | messages, turns, trimming, imports, prompts and the two fits | `Tokens` |
| `Conversation` | a session's settings, stores and turns, late writes included | `ChatHistory` |
| `MCConversation` | start messages, prefixes, utterances | `Conversation` |
| `ConversationProofs` | proofs: the operators of `Tokens` and `ChatHistory`, then the session's stores and prompts | `Conversation`, TLAPS |
| `RateLimit` | the sliding window | |
| `Payloads` | what a frame means: schemas, fields of a start, sampling overrides | |
| `Gateway` | authentication and the frames of a connection | `Payloads`, instances of `RateLimit` |
| `MCGateway` | the frames of a small client | `Gateway` |
| `RateLimitProofs`, `GatewayProofs` | proofs; the gateway's limiters implement `RateLimit` | TLAPS |
| `Regex` | the few forms of regular expressions on characters | |
| `Sanitizer` | the patterns, `sanitize_llm_text`, what is held back | `Regex` |
| `Outbound` | one answer in chunks: `push` and `flush` | `Sanitizer` |
| `MCOutbound` | the texts | `Outbound` |
| `Settings` | what is derived from the environment, and its validation | |
| `EngineArgs` | the arguments of a vLLM engine, the checks of a TensorRT-LLM one | `Settings` |
| `OneFilter` | abstract: one filter between writers and output | |
| `LogFilters` | the chain of wrappers and the descriptor window | instance of `OneFilter` |
| `Startup` | the process from its import to its end | `EngineArgs`, instance of `LogFilters` |
| `Artifact` | a quantized directory: launches, files, pushes, kills | `EngineArgs` |
| `EngineHub` | the TensorRT-LLM pipeline with its repository | |
| `Deployment` | source, quantization or pipeline, process | instances of `Artifact`, `EngineHub`, `Startup` |
| `MCDeployment` | models, environments, hosts | `Deployment` |
| `EngineHubProofs`, `DeploymentProofs` | proofs about the pipeline, on its own and in the deployment | TLAPS |

### Awaits are the program points

asyncio runs one task at a time and switches only at an await that really
suspends. So an action is the code between two such awaits, and a `pc` (in
`TurnTasks`), `loop` (in `Session`), `at` and `fin` (in `Admission` and `Server`)
names the await where a task is suspended. What does not suspend is not a program
point: the session's request lock and the connection handler's lock are never held
across an await, and every section under them is one step. `AtAwait` says which
awaits suspend: a send only when `SendsSuspend` (the transport's buffer is full), a
stream only while its engine is running. Another task may step only while all
others are at such an await (`TaskTurn`, `Yielded`).

`task.cancel()` sets a mark (`cancel[t] = "pending"`); the `CancelledError` arrives
at the task's next step (`DeliverCancel`), at its first one not at all
(`CancelUnstarted`: not even its `finally` runs). Before Python 3.12 `wait_for` may
swallow it (`SwallowCancel`, with `LegacyAsyncio`: the TensorRT-LLM image has 3.10).

A timeout inside `async with asyncio.timeout` unwinds what is inside first: the
engine's generator (`Unwound`), and only then the abort (`EngineAborted`). A turn that leaves
its stream from outside does not: when a send is dropped or raises, or a cancel or
the timeout reaches the task at a send, nobody calls `aclose()`. The turn is over and its request completed
while the generators stay suspended where they yielded (`gen[t].inflight`); the event loop's finalizer for
asynchronous generators closes them later, in tasks of its own (`GeneratorFinalized`), and until then the
engine generates on, next to a successor if there is one.

### State

`TurnTasks`: `req` is the record of the request fields. `gen[t]` holds the engine's
side of a generation (`engine`, `inflight`) and the stream's (`held`: text in the
micro-buffer of `STREAM_FLUSH_MS`; `text`: chunks in `final_text`); `inflight` means that the engine's
generator still holds the request. `stored[t]` is
what chat history got. `wire[t]` is what the client received: the kind of the last
frame and the number of tokens. `asked` remembers whether the last tool frame asked
for a screenshot. Texts are counted in chunks and never spelt.

`sock` has three values: `"open"`; `"gone"`, the client left and the server has not
noticed, so that a send is lost or raises `WebSocketDisconnect`, which
`safe_send_text` turns into FALSE; `"down"`, after which a send raises a
`RuntimeError` that it does not catch.

`Admission`: `granted` is the set of waiters whose future of the semaphore is set
and which have not run yet, the state in which the timeout of `wait_for` races the
grant. A connection's name is reused once it is over (`Server`'s `Arrive`), so that
three names are an unbounded number of clients.

`CacheReset`: `resets` is the queue of the manager's lock, whose head awaits the
engine. Every caller passes `force=True`, so the interval test in `try_reset` never
refuses, and a reset always counts as done: `_reset_vllm_caches` suppresses what the
engine raises. Time passes in ticks of a `Tick` action; `age` is capped at `Interval`,
beyond which the code does not tell ages apart.

`ToolBatch`: `turn` on the event loop, `pool`/`busy`/`got` in the default
executor's threads, `queue`/`worker`/`batch`/`results` in the worker, `answer` the
futures. A call's verdict is written as the call's own name, so that a verdict
delivered to another request shows. A batch's texts are those of its requests.

`Conversation` takes the turns of `Session` again, from their data: a turn is the
points at which it reads or writes the session (`PlanMessage`, `BeginWithTool`,
`Decide`, `CommitTurn`), cancelled turns go on in any order, and `said` is the
history of everything ever imported or committed. A text is the sequence of its
tokens and every word has its own number, so that a word which is lost,
repeated or in the wrong place shows. That is the word counter the code falls back
to, exactly, and any tokenizer for which a cut text has the tokens that were kept.

`Gateway`: `messages`/`cancels` are the deques, `messageLog`/`cancelLog` all events
ever counted; `failures` the deques of failed logins, `failed` all failures since a
host's last success. A frame is a record, a text one of the kinds that the
validators tell apart, a number a kind (integer, float, boolean, text) and a value
in hundredths. `Tick` is the clock.

`Outbound` is the one module that spells texts, since its subject is where a text is
cut: `raw`, `emitted`, `held` are the fields of `StreamingSanitizer`, `sent` is what
the client received. `Sanitizer` has one operator per pattern, in the order in
which they are applied.

`Artifact`: `disk` maps a file to its payload, NULL when it was cut off; `build.at` is
the place in the job, and a kill may come at each. `EngineHub`: a machine stands for
its label (compute capability, TensorRT-LLM and CUDA version; the patch
digits that `hf.sh` ignores are not part of it); a directory is the machine its rank files were
built on and the one `build_metadata.json` names; an upload happens as a whole.
`LogFilters`: a text is a sequence of atoms that remember who wrote them and
whether the window was open; the stdout pair is modelled, stderr is its copy.
`Startup`: `parts` are the things built side by side, `fault` the first failure,
`told` where its message went; `captured` the classes of error Sentry has heard of, `heard` those
whose rate-limit window is open. The windows are shared by all reports of the process, those of turns,
connections and cache resets (`ServingError`) with the shutdown's own. No clock is kept: a window may pass at any moment
(`WindowPasses`), and it is open for every class when the machine has just booted.

## Runs

| Run | Instance | Shows |
|---|---|---|
| `session_vllm` | 3 turns of 1 token, tool and chat, vLLM | the safety of a connection, silence after an abort, the follow-up's way from turn to turn, and that it implements `TurnProtocol` |
| `session_slow` | 2 turns of 2 tokens, chat only, micro-buffer on, sends suspend | tails yielded by an unwinding stream, timeouts and cancels in the middle of a send |
| `session_tool` | 2 turns, tool only, sends suspend, asyncio of Python 3.10 | the tool-only executor, swallowed cancellations |
| `session_liveness` | 2 turns of 1 token, tool and chat, TensorRT-LLM | every turn ends; a lost client leads to the finalizer |
| `server` | 3 connections, 2 slots, interval of 2 ticks | slots, daemon deadline, waiters and finalizers end, resets keep coming |
| `tool_batch` | 3 calls, 2 threads, batches of 2 | own answers, nothing lost, refinement of `ToolService`, every call ends |
| `conversation` | 3 messages, every deployment, context of 18 tokens, stores that fill after one or two turns | what is remembered, whatever was imported, trimmed, aborted and written late |
| `gateway` | 2 hosts, 2 failures, 2 messages, 1 cancel, window of 2 ticks, clock to 3, 45 frames | throttling, both limiters, what an override means to either engine |
| `outbound` | 18 texts of up to 23 characters, every way to cut them | what a client gets of an answer, and when |
| `deployment` | 2 launches, 3 pipeline runs on 2 machines, 6 environments, 2 hosts, 2 log writes | from a source model to a process that fails, serves and stops |
| `orphaned_turn` | 1 turn, unclassified receive errors | violation: see Findings |
| `chunk_boundary` | as `outbound` | violation |

Deadlock is checked in `server` and `tool_batch`, which never stop. The others do
stop and say `CHECK_DEADLOCK FALSE`: a connection once it is closed, a conversation
and a gateway at the bound of their messages and their clock, an answer at its end, a
process when it is down.

**Bounds.** Two turns are what a barge-in needs: the request fields know one
request, so a third turn meets only what the second met; a third is there where a
flag travels from a turn to the next over one that was cancelled
(`session_vllm`, where a client that leaves does so during its first two turns: `Explored` in `MCSession`). Two tokens give a first, a last and, with a stream cut between
them, a partial reply. Three connections for two slots give a waiter, a
holder and one that times out or is overtaken, and name reuse makes the runs
unbounded. An interval of two ticks distinguishes fresh, ageing and due. Three
calls over two threads and batches of two give a full batch, a partial one, a
request queued behind a batch and one without a thread. `MaxChunks` is the one
bound on a counter of the sessions (`EmitToken`, `BufferDelta`).

`MaxTurns` = 3 in `conversation`: one turn fills a store, the second trims it, the third is
planned while the second may still commit. The numbers of tokens are chosen so that
each branch of the trimming and of the fits is taken: a seed longer than the
target, one of which nothing fits, a text that is cut, a text that is refused. In
`gateway`, `MaxTime` is one tick more than the window, which gives an event inside, at and outside
its edge; a limit of one and one of two give a full and a partly filled bucket. The texts of
`outbound` are one for each construct a cut may fall into; `MaxTail` = 16 is shorter than
the longest of them, so that the cap of the tail is reached. In `deployment`, two launches are a
killed one and the one after it, over the same directory; three runs of the pipeline
are one that builds, one that publishes and one that downloads, with a move
between them. `Explored` in `MCDeployment` keeps the three parts from being multiplied with each other: a
behaviour that logs is one with a roomy host, no launch and no pipeline run, up to
the moment it serves; one that starts a server from a built engine ran the pipeline once and
pushed nothing. Errors are reported, and their windows pass, in a process that was started on its own; two classes of
error are enough for one whose window is open and one that is not. Each part is explored alone within its bounds, and the handovers between them are.

The symmetry of turns is used in runs without liveness only. The session runs differ in the flags
that select code (`DeployChat`, `DeployTool`, `Vllm`, `FlushBuffering`,
`SendsSuspend`, `LegacyAsyncio`); the proofs cover all of their combinations.

### Properties

*Session.*
- `LiveIsTracked`: a turn that runs and was not cancelled is the tracked one, with
  its task, in state running. An untracked live turn could never be aborted.
- `SilentAfterAbort`: no frame of a turn follows its abort, although
  the task only learns of it at its next step.
- `EngineIsOwned`: an engine generates only for a request that something will stop: the turn is
  uncancelled, has had no last frame, and either reads the stream or left it at a send, in which case its
  generator still holds the request for the finalizer to close. A generation nobody holds would run to its end.
- `HistoryMatchesWire`: when a turn is over, history has what the client saw of
  it, except for one chunk whose send was cut off.
- `TurnsAreAnswered`: a turn nobody cancelled ends with `done` or `error` while the
  client is there.
- `FollowupMatches`: the screen-checked prefix is applied exactly to the turn after
  a request for a screenshot.
- `ImplementsProtocol`: refinement of `TurnProtocol` under
  `status`/`frames`/`connected`.
- `EveryTurnEnds`, `LostClientIsFinalized`.

*Server.*
- `SlotsConserved`: permits, permits under way and active connections add up.
- `NoIdleSlot`: nobody waits next to a free slot without a wake-up under way.
- `ActiveIsServed`: membership is exactly the span from admission to teardown.
- `DaemonTracksLastReset`: the sleeping daemon's deadline.
- `HandlersEnd`, `CachesAreReset`.

*ToolBatch.*
- `OwnAnswer`, `NoneIsLost`: positions in a batch and requests at the deadline.
- `ImplementsService`: refinement of `ToolService`, an answer that is not one's own
  being mapped to a state that module does not have.
- `EveryRequestAnswered`: also for requests nobody waits for.
- `EveryCallEnds`: also while abandoned calls keep the threads.

*Conversation.*
- `StoresAreBounded`: below the trigger and the budget after any step, or one turn alone exceeds it.
- `ChatIsRecent`: the chat store is the end of everything that was ever said.
- `ToolTurnsInOrder`: each text once, in the order of the messages.
- `NoPrefixRemembered`: neither the client's screen prefix nor the server's reaches a store.
- `PromptsAreSound`: within the context, roles alternate, the user comes last.

*Gateway.*
- `ThrottleMatchesFailures`: a host is turned away exactly while enough of its failures are
  younger than a window; stated over all failures, not over the pruned deques.
- `LimitsHold`: no window holds more messages, or cancels, that went through than the limit, and a
  refused client is told exactly when the next may come; stated over all events, not over the deques.
- `CancelsAreNotStarved`: a refused cancel is owed to cancels alone.
- `OverridesMeanWhatWasSent`: from a frame to the arguments of either engine.

*Outbound.*
- `OnlyTheAnswerIsSent`: at every cut what was sent belongs to the final answer, for
  texts whose constructs the guards know (`Steady`).
- `RecordIsOneChunk`: `full_text`, and so the history, does not depend on the cuts.
- `DelayIsBounded`: at most `_MAX_TAIL` characters behind.

*Deployment.*
- `MarkerMeansWhole`: what the launch script takes for finished is.
- `ServedKeepsItsProfile`: the profile goes from the source's name through the metadata of the
  directory to the arguments of the engine, past scaling and overrides.
- `PrebuiltEngineFits`: a downloaded engine was built for this machine.
- `EngineFailureIsSeen`: when one of several parts fails.
- `ShutdownIsComplete`: no exporter is left, and of an engine that would not stop Sentry has heard, by the
  report of the shutdown or, when the rate limit drops it, by an earlier one of the same class.
- `WindowIsExact`: nothing of the application lost, nothing of the library shown.
- `ImplementsOneFilter`: refinement of `OneFilter` by any chain of wrappers.

Each has a mutant in its module, an operator that changes one definition the way a
plausible bug would and makes TLC find the property violated.

### Fairness

`Session`, `Server` and `ToolBatch` have liveness; the others state safety and assume no
fairness.

- `Session`: weak fairness of each turn's task and of the connection's own steps:
  asyncio resumes what is ready, and every await ends, the engine's by
  `CHAT_TIMEOUT_S`, the tool's by `TOOL_TIMEOUT_S`, a send's by the WebSocket
  server's ping timeout. Strong fairness of `ReceiveEnds`: a client that has left
  has sent finitely many messages, so the disconnect comes up in the end. Client
  messages, the watchdog and departures are owed by nobody.
- `Server`: weak fairness of a waiter's outcomes (grant or `acquire_timeout`), of the
  handshake, of the finalizer, of the engine's reset, of the daemon and of time.
  The message loop's end is not fair: a session may last for ever.
- `ToolBatch`: weak fairness of the pool, of the worker, of each waiting thread and
  of a turn whose answer is there. Collecting more is not fair; the deadline is what
  ends a batch. That turns give up is not fair either.

## Findings

Each is a violation run, quoted in `PROJECT.json`.

1. `orphaned_turn`: an exception of the receive that is not classified as a
   disconnect skips the session's clean-up (`handlers/websocket/message_loop.py:188`); the
   running turn survives its connection.
2. `chunk_boundary`: what the client receives depends on where the engine cuts the
   text, although a test asserts that it does not
   (`tests/suites/integration/test_sanitizer.py:82`). When a held part changes what was
   emitted, the sanitizer cuts back its own record only (`text/stream.py:99`).

### Disagreements without a run

These were found with a property of the modules that TLC refutes; the property is
there, a run of its own is not:

- `TurnsFollowStart` (`Session`): a `cancel` makes the loop take the session as started
  (`message_loop.py:155`), so that messages are served without the `start` of ADVANCED.md:496.
- `NoStrayGeneration` (`Session`): after a chat timeout on TensorRT-LLM the abort finds nothing in
  `_inflight`, whose entry the unwinding generator removed (`engines/trt/engine.py:92`); the engine
  generates on. With either engine a turn that left its stream at a send is over before its generator is closed
  (`handlers/websocket/helpers.py:70-72`), and its successor may share the engine with it until then.
- `TurnsAreAnswered` with `SendsSuspend` and a chat model: a timeout that expires while a token's send is
  suspended cancels the task outside the generator (`execution/chat/controller.py:308`); the turn ends
  without any frame.
- `CancelAbortsTool` (`ToolBatch`): a cancelled turn's request is still batched and inferred
  (`execution/tool/runner.py:38` against ADVANCED.md:536).
- `SessionSamplingApplies` (`Conversation`, with `MCSamplings`): the sampling of a start message is stored
  (`messages/start.py:212`) and never read (ADVANCED.md:406, 497).
- `TrimsNoMoreThanNeeded` (`Conversation`, with `LongOpening`): the estimate of `history/ops.py:32` drops turns that
  would have fitted, against its docstring (`ops.py:24`).
- `RerunRegeneratesTokenizer` (`Artifact`): `tokens/validation.py:32-33` advises to run the quantization again, which
  takes the directory for finished (`quantizer.py:52`, `model.py:12-32`).
- `OnlyToolModelsAreRefused` (`Artifact`): `is_tool_model` accepts every local path, so a local float model cannot
  be quantized although `quantize.py:22` offers it.

Seen while modelling, without a property:

- *Turns.* With `STREAM_FLUSH_MS > 0` a cancelled turn flushes its buffer by a yield in a
  `finally`, so a token may follow the `cancelled` frame; with Python 3.10 a cancellation may be
  swallowed. `SilentAfterAbort` is checked and proved without both. When sends suspend, a turn
  planned between a tool frame and the write of the follow-up flag reads the old flag.
- *Server.* `remaining` (`handlers/websocket/manager.py:142`) is read before an await and used
  after it; a reset by the timer that waited for another's lock resets once more; a failed
  handshake of the last connection skips the clearing of the caches.
- *Sessions.* An utterance that is only a prefix drops its exchange from the history, and its prompt
  has no user message. A start's `user_utterance` is ignored; a refused start leaves an initialised state. Cached prefix
  token counts and `get_effective_user_utt_max_tokens` have no reader.
- *Frames.* An integer too large for a float raises an `OverflowError` that sampling does not catch.
  `min_p` (ADVANCED.md:407) and `logit_bias` are dropped on TensorRT-LLM (`engines/sampling.py:65-101`). The branch
  "Message type not supported" cannot be reached; `get_api_key` has no caller. `MaxFailures = 0` throttles
  everybody (ADVANCED.md:554 lets it disable).
- *Engines of the hub.* An engine without metadata is labelled with the environment of whoever pushes it
  (`label.py:38-50`); a local engine is reused after an upgrade (`pipeline.sh:161`); failures to upload or to create the
  repository are logged, and the push ends with "Push complete".
- *Quantization.* A failed write of the metadata loses the profile without an error; a stale `.awq_ok` survives
  a forced requantization; with only `CHAT_MAX_OUT` set the calibration length is its floor.
- *Configuration.* `CHAT_QUANTIZATION` is validated lower-cased and used as written (`engines/vllm/args.py:77`, 237);
  `BATCH_SCALE`, the sum of the GPU fractions and `CONTEXT_BUFFER` are not validated; an unknown `DEPLOY_MODE` deploys
  nothing and serves; the safeguard for `KV_DTYPE` comes too late (`setup.py:83-85` against `args.py:210`); the tokenizer's regex
  patch never applies to a local path; `CHAT_MAX_OUT` is not reserved in the context.
- *Process.* A failed start shuts down neither telemetry nor a vLLM engine that is built; the
  failure of a part during the window of a TensorRT-LLM engine is told to nobody; `RuntimeDeps.shutdown` stops the chat
  engine only; on a host that has just booted the first error of a kind is not sent (`telemetry/sentry.py:85`).
- *Filters.* The application's log format never matches the noise patterns of its own start; tool patterns that begin with
  white space never match a stripped line (`filters.py:138-142`); a partial line of `sys.__stdout__` is not flushed by
  the window; the buffers are shared by threads without a lock.

## Proofs

| Theorem | Property |
|---|---|
| `SessionProofs!TypeCorrect` | `TypeOK` |
| `SessionProofs!RunningTurnIsTracked` | `LiveIsTracked` |
| `SessionProofs!SilenceAfterAbort` | `SilentAfterAbort`, given `~LegacyAsyncio` and `~FlushBuffering` |
| `SessionProofs!HistoryHasWhatWasSeen` | `HistoryMatchesWire` |
| `SessionProofs!NoOrphanedGeneration` | `EngineIsOwned`, given `Vllm` and `~LegacyAsyncio` |
| `SessionProofs!EveryTurnIsAnswered` | `TurnsAreAnswered`, given `~(SendsSuspend /\ DeployChat)` |
| `SessionProofs!ProtocolImplemented` | `ImplementsProtocol`, given that, `~LegacyAsyncio` and `~FlushBuffering` |
| `SessionProofs!PrefixFollowsRequest` | `FollowupMatches`, given `DeployChat`, `~SendsSuspend` and `~LegacyAsyncio` |
| `ServerProofs!TypeCorrect` | `TypeOK` |
| `ServerProofs!SlotsAreConserved` | `SlotsConserved` |
| `ServerProofs!NoWakeUpIsLost` | `NoIdleSlot` |
| `ServerProofs!SlotsAreHeldByTheServed` | `ActiveIsServed` |
| `ServerProofs!DaemonDeadlineIsRight` | `DaemonTracksLastReset` |
| `ToolBatchProofs!TypeCorrect` | `TypeOK` |
| `ToolBatchProofs!AnswersAreOnesOwn` | `OwnAnswer` |
| `ToolBatchProofs!RequestsAreKept` | `NoneIsLost` |
| `ToolBatchProofs!TurnsAreServed` | `ImplementsService` |
| `ConversationProofs!ConversationTypeOK` | `TypeOK` |
| `ConversationProofs!StoresStayBounded` | `StoresAreBounded` |
| `ConversationProofs!ChatStaysRecent` | `ChatIsRecent` |
| `ConversationProofs!ToolTurnsStayInOrder` | `ToolTurnsInOrder` |
| `ConversationProofs!PromptsStaySound` | `PromptsAreSound` |
| `ConversationProofs!PrefixesStayOut` | `NoPrefixRemembered`, given `PrefixesAreRecognisable` |
| `RateLimitProofs!LimitHolds` | `WindowNeverExceeded` |
| `RateLimitProofs!RetryHolds` | `RefusalIsExact` |
| `GatewayProofs!QuotasHold` | `LimitsHold` |
| `GatewayProofs!ThrottleIsExact` | `ThrottleMatchesFailures` |
| `GatewayProofs!CancelsHaveTheirOwnQuota` | `CancelsAreNotStarved` |
| `GatewayProofs!OverridesAreMeant` | `OverridesMeanWhatWasSent` |
| `EngineHubProofs!DownloadedEngineFits` | `PrebuiltEngineFits` of `EngineHub` |
| `DeploymentProofs!ServedEngineFits` | `PrebuiltEngineFits` of `Deployment` |
| `DeploymentProofs!FailureIsTold` | `EngineFailureIsSeen` |
| `DeploymentProofs!NothingIsLeftRunning` | `ShutdownIsComplete` |
| `DeploymentProofs!MarkedIsComplete` | `MarkerMeansWhole`, given `NullIsNoPayload` |
| `DeploymentProofs!ProfileIsKept` | `ServedKeepsItsProfile`, given `NullIsNoPayload` |
| `DeploymentProofs!WindowSwallowsItsOwn` | `WindowIsExact` |
| `DeploymentProofs!WrappersAreOneFilter` | `ImplementsOneFilter` |

They hold for every value of the constants that satisfies the named assumptions:
sets of any size, any number of slots, threads, chunks, any interval.

**Session.** `IInv` is `TypeOK`, `Counts` (how the frames shown, the text counted
and the buffer stand to each other at each await, without which `TokenSent` could
leave the type), `LiveIsTracked` and
`AbortedWhileAborting`: while the connection's task awaits an abort, every
live turn is cancelled. The last is what makes `LiveIsTracked` inductive: the
clean-up after the await clears the request whatever is tracked by then.
The first half of `SessionProofs` shows what any step of a task does to the data and to the request
(`TaskEffect`), one lemma per action; the second combines it with the steps
of the loop. `SilenceAfterAbort` is an action property from the same invariant: a
cancelled task has no step but the delivery of its cancellation, which with the
buffer off sends nothing.

What is said of a finished turn needs to know how far an unfinished one is. `Stage(t)` says it at each await: what the
record has and whether its tail is still owed (`Recorded`), whether an engine generates for it (`Owned`), which frames the
client has had (`Ordered`). `StageInv` adds `Spawned` (who has not been taken from the socket has no state at all), and
is inductive with `IInv` in every configuration: the parts that a configuration breaks are stated under its
constant. `HistoryHasWhatWasSeen`, `NoOrphanedGeneration` and `EveryTurnIsAnswered` are read off it at `over`.
The hypotheses are those of the code: on Python 3.10 a swallowed cancellation leaves the loop of an engine that nobody
reads, with TensorRT-LLM a generation that is unwound by a timeout goes on, and where a send may suspend under a chat
model a timeout ends a turn without a frame (the disagreements above); for each of them TLC has the counterexample.
`NoOrphanedGeneration` rests on two facts about a turn that is over: its generation runs only while its generator holds the request
(`AfterTurn`), and one that had its last frame, or was cancelled with vLLM, holds none. That the finalizer does come is asyncio's part and not a property here.

`ProtocolImplemented` maps each step of a task (`TaskStepImplements`) and of the loop (`LoopStepImplements`) to
a step of `TurnProtocol` or a stutter, from `StageInv` and from lemmas on what a frame changes in
the client's view (`StatusUpdate`, `FrameFollows`). A late cancellation, a duplicate cancel, a turn that is
aborted before its first step and a socket that breaks under a send are cases of the same two lemmas.
`PrefixFollowsRequest` is an action property from `FlagInv`: the flag in the metadata agrees with the last tool frame,
except between that frame and its write. It is lost where sends suspend, because
the next message may be planned in between.

**Server.** `IInv` has two halves. `SlotsInv` adds `QueueIsSound` to the three slot
properties: the queue has no duplicates, nobody is both in it and granted, and both
wait; without it a grant could reach a connection twice and the sum would not
hold. `NoIdleSlot` needs the asyncio detail that a waiter that gives up passes its
permit on. The other half adds `ResetsAreAwaited` (who is in the lock's queue and
what it awaits) and `FinalizersHaveLeft`, which ties a finalizer's await to the slot it
has given back, so that a connection's name is free when it is reused.
`DaemonTracksLastReset` is inductive with the types: whatever sets `age` back also
sets the event or restarts the timer, and a tick moves both.

**ToolBatch.** `IInv` adds `WorkerInv` (the batch is empty exactly while the worker
waits for a first request, and the results to deliver are aligned with it, each the
request's own verdict or a failure) and `CallsInv` (a call is submitted once and has
one thread, which is the first to say how it ended, and says its own verdict or
none). `TurnsAreServed` maps each action to a step
of `ToolService` or a stutter, under that invariant.

**Conversation.** The stores are folds over messages, so the proof starts there. No installed prover takes an operator as a
parameter, and the library's induction theorems have one: induction is done here by the least counterexample (`LeastOf`, then `Induct` over an
interval and `SeqInduct` over sequences, with the property as a set), and the folds are cases of one operator `Step` that is named by its first
argument. `FoldExists` builds the function a fold chooses, `FoldLaw` says that the fold goes over one more element last; from it follow
`GroupLaw`, `TranscriptLaw`, `FlattenLaw` and the laws of appending and of prompts. `FoundFits` does the same for the binary search, whose intervals get
shorter. The fact the trimming rests on is `KeptTurns`: dropping whole turns of a history leaves its latest part, which groups into exactly
the turns that were not dropped, so that what is trimmed once can be trimmed again; `GroupOfFlatten` shows it from the shape that turns
have (only a first message is the user's; `Shaped`).

`IInv` then says of a session: all that was said is some history followed by the chat store, and nothing was said if the store is
empty (`ChatIs`; otherwise the user messages that a commit merges into the last one could not be found in both); the tool
store is in its order and has entries of begun turns only (`StoreIs`); every turn but the last is cancelled, and each one's prompt is sound
(`TurnsAre`). The last makes `ToolTurnsInOrder` inductive: a turn that still writes a *new* entry is the latest, and an
aborted one that commits late finds its own entry last or writes nothing. `ConversationIsSound` has one lemma per action
(`PlanMessageSound`, `DecideSound`, `CommitTurnSound`, ...); TLC had checked `IInv` on the configuration of the run before.

`PrefixesStayOut` needs more than the code checks. A prefix is put in front of an utterance, the whole is cut to a limit, and
the prefix is taken off again by comparing beginnings, when the turn is planned and when it commits. A prefix that
is longer than the limit, or of which a user types a part, is not recognised any more. `PrefixesAreRecognisable` says what the
code takes for granted: no two prefixes share a token, a user says one as a whole and at the beginning, nothing else that is
said or imported has its tokens, and each fits where a text is cut. TLC evaluates it on the run. The invariant `PlainInv`, on top of
`IInv`, follows a text by where its turn is: what the tool is asked is plain at once, what the chat model is asked is
plain once one prefix (planned) or two (streaming: the server's before the client's) are taken off; and a fresh session has stored nothing, so that a change of its
prefixes cannot make old texts unclean. It rests on what trimming keeps: the binary search keeps at least as much as fits by itself (`FitKeepsStart`,
`FoundIsMost`), so that a cut falls behind the prefix (`CutBehindPrefix`) and `StripTakesOff` applies.

The assumptions are `ConversationConstants`: texts are sequences of token numbers, `CHAT_HISTORY_MAX_TOKENS` exceeds the length it is trimmed to (which
`helpers/validation.py:134` demands), `NULL` is no history.

**RateLimit.** For any limit, window and clock (`RateLimitConstants`). `IInv` adds to the two
properties `Ordered` (the log does not decrease and is not in the future) and `DequeInv`: the deque
is the end of the log, what left it is at least a window old, and it never exceeds the limit. `FreshSplits` shows
that the number of pops exists, by the least element of a set of indices; `PrunedDeque` what pruning keeps.
`WindowNeverExceeded` then follows at `Accept`: the event `Limit` places back has left the pruned deque.

**Gateway.** The gateway takes the limiters' own steps, so that each of its steps is one of a limiter or leaves it
alone (`StepsOfLimiters`, `LimitersImplemented`: lemmas that hold by the shape of the model). What is worth having is `QuotasHold`, the
bound itself: it takes the theorems of `RateLimitProofs` over to both limiters through two instances of that module, disabled limits included: `Enabled` is false there, and nothing is refused.
`CancelsHaveTheirOwnQuota` uses the same invariant of the second instance at a refused cancel: the deque that refuses it
holds as many cancels as the limit, each younger than a window.
`ThrottleIsExact` is about all failures of a host, of which the code keeps a pruned deque. `ThrottleInv`: the deque is the end of
the history, in order, and what was dropped from it is a window old. It survives the pruning at an attempt (`PrunedFailures`),
a new failure (`FailureJoins`), the ageing of everybody else's (`FailuresAge`), and the removal of an empty deque.
`OverridesAreMeant` holds of every frame by itself: the value the extraction reads is the one the client wrote (`RawIsSent`: a block that is
there but empty is as good as none), it is accepted exactly when it denotes a number within its bounds (`TakenIsMeant`: bools,
NaN, fractions and texts), the extraction ends without an error or at a wrong value (`ExtractionEnds`), and TensorRT-LLM,
which is not told its own defaults, runs with the same numbers (`EnginesAreTold`). It assumes of frames what the schemas and JSON leave of
them (`FieldsAreTyped`), and that `None` and `NaN` are no numbers.

**EngineHub.** Assumes that NULL is no machine. `IInv` is `TypeOK`, `PipeInv` (what the script holds at each of its
places), `LocalInv` (metadata is written only where there is an engine) and, while no record
was lost, `FitInv`: every engine in the repository or downloaded is labelled with the machine it was
built on. The last is needed because the property is about a download that may come any number of runs and moves after the
build; that a record once lost stays lost (`LosslessBack`) lets it be assumed of the present state only. 

**Deployment.** That the steps of the deployment are steps of the pipeline or leave it alone takes the theorem
of `EngineHubProofs` over. `ProcessInv` says of each phase of a server who has failed, whose window is open and which
exporters are left; with it `FailureIsTold` and `NothingIsLeftRunning` hold, because `fault` is only the *first*
failure and a part that fails closes its own window before. For the report of an engine that would not stop, `ProcessInv` says that
a window is open only for a class Sentry has heard of, whoever reported it (`SentryHears`), unless the machine had just booted. `DirectoryInv` follows a quantization file by file:
until the library's three files are whole nothing marks the directory, and what precedes the file being written is whole.
`OriginInv` ties a server to the directory it was started from: it finds there the same files as at its start, up to what
its own sanitizing rewrote, and the metadata as it was. Both are inductive together (`NextKeepsDirectory`); without
`OriginInv` a server's rewriting could not be told from a change of the files it does not touch. `ProfileIsKept` adds the arithmetic of
the memory: `FloorIsKept` for every environment and host, `SmallerOf` for the cap. `NullIsNoPayload` says
that `NULL`, a file that cannot be read, is no payload; it holds for any choice of `NULL` that is not a record, and ranges over all values,
so that it is a hypothesis and not an assumption TLC could evaluate. `DeploymentConstants` says that an environment's numbers
are integers, a host's memory natural, that a text is a sequence of words, that only the launch script names the directory of the quantizer, and that the classes of errors are none of the parts of a deployment.

`WindowSwallowsItsOwn` is about atoms on their way through any chain of wrappers. `WindowInv`: what waits in a wrapper of `sys.stdout`,
in the stream or in the C library bears the window of now, and what drained went where its own window says. The window moves only in a
step that has emptied all three (`FlushAllKeeps`); a write or flush sends and keeps no atom that it was not given (`WrittenIsGiven`,
`DescentIsGiven`). These two are about recursive functions: `RoundsExist` builds a function that satisfies the recursion by counting up
(`CountUp`), since the prover knows of a recursive function only that it is a `CHOOSE`. The wrappers of `sys.__stdout__` are not flushed
at the window, which is why the property and the invariant leave its writer out.

`WrappersAreOneFilter` shows that the log implements `OneFilter`. What makes it true is that only the outermost wrapper ever waits for the end of
a line (`ChainInv`): every other one gets whole lines only, and so holds nothing between two writes. One wrapper is one filter with its
patterns (`WrapperIsFilter`), a wrapper behind a filter is one filter with the patterns of both (`WrapperBehindFilter`), and
counting down the chain, so are all of them (`ChainIsFilter`, `ChainFlushes`). The recursive functions in it (`WriteThrough`, `Split`, `Python`,
`FlattenSeq`) each follow a `Path`: a path exists through every sequence (`PathExists`), and one more element is gone through last (`PathGoesOn`), which gives
for each its law of one more atom (`WriteNext`, `SplitNext`, `PythonLaw`, `JoinedNext`). Induction over a text is a statement about
sets: one that has the empty sequence, and with a sequence also every one that is longer by one, has them all (`AtomByAtom`). `PythonDrains` says that what leaves the process, in
the window or not, comes out in order, with the native output left out. Then `Configure`, `Write`, `Flush` and the flush at the window's
ends are steps of the filter, and every drain is none (`LogSeen`, `WindowSeen`).

The proofs changed the model in these places. The `CASE` of `Session`'s `status` had guards that overlap, where TLA+
leaves the choice open; it is a chain of IFs now. `RefusalIsExact` holds for disabled limits too, which
needed a conjunct in the invariant. `ServedKeepsItsProfile` speaks of a floor only where a
profile has one: an environment may set the default to a negative number, which nothing validates
(`config/engine.py:70`). `ToolTurnsInOrder` had accepted two imported entries in reversed order; its first case now is about turns only. `ConversationConstants` says what
texts and payloads are. `Selected` is `SelectSeq` as a fold and `LargestFit` searches intervals as pairs, because the prover
knows neither the recursion of `SelectSeq` nor functions of two arguments. `Artifact`'s writes (`With`) and the profiles of `EngineArgs` are functions where they
were TLC's `:>` and `@@`, of which the prover knows nothing. The loops over atoms of `LogFilters` are recursive functions
where they were folds, and `Configure` puts the chain together without `SelectSeq`.

Only model-checked: liveness and what depends on ENABLED (out of the prover's reach); the properties of `Outbound`, which rest on the regular
expressions of the sanitizer, recursive operators that the prover loses its SMT backend over.

## Not modelled

Inside the modelled components: the wording of frames; the cancellation of connection
handlers by the server's shutdown; the unforced branch of `try_reset`, which has no caller; the
deadline of `max_delay` as a duration (the batch may end at any time, or go on as long as requests
are there); GPU work and real tokenizers; the session's timestamp and the rendering of a prompt template;
the sanitizer's patterns for an ellipsis sign, a degree sign, emojis, typographic dashes, a drawn-out exclamation and
rare emoticons (its other definitions were compared with the Python functions on more than 3,000
random texts); environment variables that only libraries read; licences, model cards and README texts.

Not at all: installation, environment and process scripts, images, linting, tests, the warm-up and
version detection, patches of site-packages. They hold no state that a modelled part reads.

## Plan

What is left to model next to the present modules is the cancellation of handlers by the server's
shutdown, at `Startup`'s end.
