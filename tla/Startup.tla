------------------------------- MODULE Startup -------------------------------
(* The server process from its import to its end (server.py, runtime/):       *)
(* the filters go around its streams, the environment is checked, telemetry   *)
(* starts, the parts of the deployment are built next to each other, and a    *)
(* failure of one of them, or the shutdown, takes the process down.  While a  *)
(* chat engine is built the descriptors are in the window of LogFilters.      *)
EXTENDS EngineArgs

CONSTANTS
  LogTexts, MaxLogWrites, \* of LogFilters
  Envs,                   \* the environments a process may start in
  Hosts,                  \* what it may find on the machine
  ErrorClasses            \* the classes of the exceptions that are reported

VARIABLES
  phase,      \* "down", "checking", "building", "raised", "serving", "stopping", "stopped", "refused"
  env,        \* the environment, read once
  host,
  parts,      \* part of the deployment -> "off", "waiting", "building", "built", "failed", "shut"
  fault,      \* what failed first: a part of the deployment, or its shutdown, with the error's class
  args,       \* what the engine and the tool model were asked for
  telemetry,  \* the running exporters
  captured,   \* classes of error Sentry has heard of
  heard,      \* those it heard of too recently to be sent another
  told,       \* where the error of a failed start went
  daemon,     \* the cache reset daemon runs
  configured, quiet, chain, buffers, io, libc, window, drained, writes

processVars == <<phase, env, host, parts, fault, args, telemetry, captured, heard, told, daemon>>
logVars == <<configured, quiet, chain, buffers, io, libc, window, drained, writes>>

Log == INSTANCE LogFilters WITH ShowFlags <- {e.show : e \in Envs}

Parts == {"engine", "chat_tokenizer", "tool_tokenizer", "tool_adapter"}

Deployed(part) == IF part \in {"engine", "chat_tokenizer"} THEN DeployChat(env) ELSE DeployTool(env)

Init ==
  /\ phase = "down"
  /\ env = NULL
  /\ host = NULL
  /\ parts = [part \in Parts |-> "off"]
  /\ fault = NULL
  /\ args = [chat |-> NULL, tool |-> NULL]
  /\ telemetry = {}
  /\ captured = {}
  /\ heard = {}
  /\ told = NULL
  /\ daemon = FALSE
  /\ Log!Init

-----------------------------------------------------------------------------
(* The tool model (tool/factory.py): what is known of it by name.            *)

BatchOf(model) == IF model.batch # NULL THEN model.batch ELSE [size |-> 3, delay |-> 10, length |-> NULL]

\* The tokenizer's limit and the history's, each at least one token.
ToolArgs ==
  LET batch == BatchOf(env.toolModel)
      length == IF batch.length = NULL THEN 512 ELSE Max({1, batch.length})
      input == IF host.toolLimit \in {NULL, 0} THEN length ELSE Min({length, host.toolLimit})
      history == IF "TOOL_HISTORY_TOKENS" \in DOMAIN env.numbers
                 THEN Max({1, Min({env.numbers["TOOL_HISTORY_TOKENS"], length})}) ELSE length
  IN [input |-> input, history |-> Min({history, input}), size |-> batch.size, delay |-> batch.delay,
      timeout |-> Max({10, Number(env, "TOOL_TIMEOUT_S")}),
      gpu |-> Max({1, Min({90, GpuFraction(env, "TOOL_GPU_FRAC")})})]

-----------------------------------------------------------------------------
(* Reports to Sentry (telemetry/sentry.py): an error is dropped when one of   *)
(* its class was sent less than SENTRY_RATE_LIMIT_S ago, whoever sent it.  No *)
(* clock is kept: the window of a class may pass at any moment.               *)

\* Mutant of CaptureError: one window for all classes.
CaptureErrorOnce(class) ==
  IF "sentry" \in telemetry /\ heard = {}
  THEN captured' = captured \cup {class} /\ heard' = heard \cup {class}
  ELSE UNCHANGED <<captured, heard>>

CaptureError(class) ==
  IF "sentry" \in telemetry /\ class \notin heard
  THEN captured' = captured \cup {class} /\ heard' = heard \cup {class}
  ELSE UNCHANGED <<captured, heard>>

WindowPasses(class) ==
  /\ phase \in {"building", "serving", "stopping"}
  /\ class \in heard
  /\ heard' = heard \ {class}
  /\ UNCHANGED <<phase, env, host, parts, fault, args, telemetry, captured, told, daemon, logVars>>

\* A turn, a connection or a cache reset fails while the server serves or stops.
ServingError(class) ==
  /\ phase \in {"serving", "stopping"}
  /\ CaptureError(class)
  /\ UNCHANGED <<phase, env, host, parts, fault, args, telemetry, told, daemon, logVars>>

-----------------------------------------------------------------------------

\* The clock of the windows starts with the machine, so that on one that has just
\* booted every class counts as heard of.
Boot(e, h) ==
  /\ phase = "down"
  /\ phase' = "checking"
  /\ env' = e
  /\ host' = h
  /\ heard' = IF h.justBooted THEN ErrorClasses ELSE {}
  /\ Log!Configure(e.show)
  /\ UNCHANGED <<parts, fault, args, telemetry, captured, told, daemon>>

Validate ==
  /\ phase = "checking"
  /\ IF EnvErrors(env) = {}
     THEN /\ phase' = "building"
          /\ telemetry' = env.telemetry
          /\ parts' = [part \in Parts |-> IF Deployed(part) THEN "waiting" ELSE "off"]
     ELSE /\ phase' = "refused"
          /\ UNCHANGED <<telemetry, parts>>
  /\ UNCHANGED <<env, host, fault, args, captured, heard, told, daemon, logVars>>

Settles(part, ok) ==
  /\ parts' = [parts EXCEPT ![part] = IF ok THEN "built" ELSE "failed"]
  /\ fault' = IF ok \/ fault # NULL THEN fault ELSE part

\* The construction of a vLLM engine holds the event loop: nothing else of the
\* process happens inside its window.
BuildVllm(ok) ==
  LET refused == ArgsRefused(env, host) IN
  /\ phase = "building"
  /\ parts["engine"] = "waiting"
  /\ Engine(env) = "vllm"
  /\ Settles("engine", ok /\ ~refused)
  /\ args' = IF refused THEN args ELSE [args EXCEPT !.chat = MakeEngineArgs(env, host)]
  /\ IF refused \/ "vllm" \in env.show THEN UNCHANGED logVars ELSE Log!FlushAll /\ UNCHANGED window
  /\ UNCHANGED <<phase, env, host, telemetry, captured, heard, told, daemon>>

\* A TensorRT-LLM engine is loaded on a thread, with the window open.
StartTrt ==
  LET refused == EngineRefused(env, host.trt) IN
  /\ phase = "building"
  /\ parts["engine"] = "waiting"
  /\ Engine(env) = "trt"
  /\ IF refused THEN Settles("engine", FALSE) ELSE parts' = [parts EXCEPT !["engine"] = "building"] /\ UNCHANGED fault
  /\ args' = IF refused THEN args ELSE [args EXCEPT !.chat = [kv |-> KvFraction(env)]]
  /\ IF refused \/ "trt" \in env.show THEN UNCHANGED logVars ELSE Log!EnterWindow
  /\ UNCHANGED <<phase, env, host, telemetry, captured, heard, told, daemon>>

\* The other parts go to threads once the engine's task has had its first turn,
\* whatever came of it.
StartOthers ==
  /\ phase = "building"
  /\ parts["engine"] # "waiting"
  /\ \E part \in Parts: parts[part] = "waiting"
  /\ parts' = [part \in Parts |-> IF parts[part] = "waiting" THEN "building" ELSE parts[part]]
  /\ UNCHANGED <<phase, env, host, fault, args, telemetry, captured, heard, told, daemon, logVars>>

\* Mutant of Finish: a failure leaves the window open.
FinishInWindow(part, ok) ==
  /\ phase = "building"
  /\ parts[part] = "building"
  /\ Settles(part, ok)
  /\ args' = IF part = "tool_adapter" /\ ok THEN [args EXCEPT !.tool = ToolArgs] ELSE args
  /\ IF part = "engine" /\ window /\ ok THEN Log!LeaveWindow ELSE UNCHANGED logVars
  /\ UNCHANGED <<phase, env, host, telemetry, captured, heard, told, daemon>>

\* The window closes with the engine's construction, however it ends.
Finish(part, ok) ==
  /\ phase = "building"
  /\ parts[part] = "building"
  /\ Settles(part, ok)
  /\ args' = IF part = "tool_adapter" /\ ok THEN [args EXCEPT !.tool = ToolArgs] ELSE args
  /\ IF part = "engine" /\ window THEN Log!LeaveWindow ELSE UNCHANGED logVars
  /\ UNCHANGED <<phase, env, host, telemetry, captured, heard, told, daemon>>

\* gather raises the first failure and leaves the other parts to themselves.
Raise(class) ==
  /\ phase = "building"
  /\ fault # NULL
  /\ \A part \in Parts: parts[part] # "waiting"
  /\ phase' = "raised"
  /\ CaptureError(class)
  /\ told' = IF window THEN "null" ELSE "terminal"
  /\ UNCHANGED <<env, host, parts, fault, args, telemetry, daemon, logVars>>

\* The end of the event loop cancels the task that holds the window.
Abandon ==
  /\ phase = "raised"
  /\ phase' = "stopped"
  /\ IF window THEN Log!LeaveWindow ELSE UNCHANGED logVars
  /\ UNCHANGED <<env, host, parts, fault, args, telemetry, captured, heard, told, daemon>>

Serve ==
  /\ phase = "building"
  /\ \A part \in Parts: parts[part] \in {"off", "built"}
  /\ phase' = "serving"
  /\ daemon' = (Engine(env) = "vllm")
  /\ UNCHANGED <<env, host, parts, fault, args, telemetry, captured, heard, told, logVars>>

\* A TensorRT-LLM engine is only marked; a vLLM engine may refuse to stop, with an
\* error of some class, or a second signal may interrupt it.
ShutEngine(outcome) ==
  /\ phase = "serving"
  /\ Engine(env) # "vllm" => outcome = "done"
  /\ phase' = "stopping"
  /\ parts' = [parts EXCEPT !["engine"] = IF @ = "built" /\ outcome = "done" THEN "shut" ELSE @]
  /\ IF outcome \in ErrorClasses
     THEN fault' = outcome /\ CaptureError(outcome)
     ELSE UNCHANGED <<fault, captured, heard>>
  /\ UNCHANGED <<env, host, args, telemetry, told, daemon, logVars>>

ShutTelemetry ==
  /\ phase = "stopping"
  /\ phase' = "stopped"
  /\ telemetry' = {}
  /\ UNCHANGED <<env, host, parts, fault, args, captured, heard, told, daemon, logVars>>

\* The libraries and the application log all the while.
Logging ==
  /\ phase \notin {"down", "refused", "stopped"}
  /\ \/ \E words \in LogTexts: Log!NativeWrite(words) \/ \E w \in Log!Writers: Log!Write(w, words)
     \/ \E w \in Log!Writers: Log!Flush(w)
     \/ Log!Drain \/ Log!NativeDrain
  /\ UNCHANGED processVars

Runs ==
  \/ Validate \/ StartTrt \/ StartOthers \/ Abandon \/ Serve \/ ShutTelemetry \/ Logging
  \/ \E ok \in BOOLEAN, part \in Parts: Finish(part, ok)
  \/ \E class \in ErrorClasses: Raise(class) \/ ServingError(class) \/ WindowPasses(class)
  \/ \E outcome \in {"done", "interrupted"} \cup ErrorClasses: ShutEngine(outcome)

-----------------------------------------------------------------------------

\* The failure of an engine is told where somebody can read it: its own window
\* is closed by then (fd.py:40-55 around trt/factory.py:34, vllm/factory.py:26).
EngineFailureIsSeen == phase = "raised" /\ fault = "engine" => told = "terminal"

\* A server that served leaves no exporter running, and when its engine would not
\* stop, Sentry has heard of an error of that class from this process, if not of
\* this one (server.py:111-119, vllm/engine.py:79-86, telemetry/sentry.py:83-88).
ShutdownIsComplete ==
  phase = "stopped" /\ fault \in {NULL} \cup ErrorClasses =>
    /\ telemetry = {}
    /\ fault \in ErrorClasses /\ "sentry" \in env.telemetry /\ ~host.justBooted => fault \in captured
=============================================================================
