----------------------------- MODULE MCDeployment ----------------------------
(* Deployment for TLC.  The sources are a mixture of experts with a profile,  *)
(* a model that must be kept from filling the memory, one whose runtime may   *)
(* be missing, one that is refused by its format, a tool model and a          *)
(* directory; the environments are every kind of deployment, on a roomy host  *)
(* and on one that is short of everything.                                    *)
EXTENDS Deployment, TLC

Repo(name, config) == [name |-> name, kind |-> "repo", listed |-> {"base"}, files |-> <<>>, config |-> config]

MCNameMarks ==
  ("org/qwen3.5-a3b" :> {"/", "qwen3.5", "-a3b"}) @@ ("org/gemma-3" :> {"/", "gemma-3", "gemma"})
    @@ ("org/kimi-linear" :> {"/", "kimi-linear", "kimi"}) @@ ("org/GPTQ" :> {"/", "gptq", "GPTQ"})
    @@ ("yap/tool" :> {"/"}) @@ ("float" :> {}) @@ ("org/trt-awq" :> {"/", "trt", "awq"}) @@ ("chat_awq" :> {"awq"})

ToolModel == [name |-> "yap/tool", kind |-> "repo", listed |-> {"tool"}, files |-> <<>>, config |-> NULL,
              batch |-> [size |-> 10, delay |-> 25, length |-> 512]]

LocalTool == [ToolModel EXCEPT !.name = "float", !.kind = "dir", !.listed = {}, !.batch = NULL,
                               !.files = ("tokenizer.json" :> NULL)]

MCSources ==
  {Repo("org/qwen3.5-a3b", [experts |-> 1, moe |-> TRUE, positions |-> 4096]), Repo("org/gemma-3", NULL),
   Repo("org/kimi-linear", NULL), Repo("org/GPTQ", NULL), ToolModel, LocalTool}

MCJobs ==
  {[samples |-> 64, length |-> 2048, lengths |-> ("CHAT_MAX_OUT" :> 150), total |-> 5175, dataset |-> "pileval", push |-> TRUE],
   [samples |-> 16, length |-> 2048, lengths |-> <<>>, total |-> 5175, dataset |-> "", push |-> FALSE]}

Base ==
  [deploy |-> "both", engine |-> NULL, quantization |-> NULL, chatModel |-> Repo("org/trt-awq", NULL), toolModel |-> ToolModel,
   apiKey |-> TRUE, connections |-> 8, numbers |-> <<>>, cidrs |-> {"private"}, kvDtype |-> "", attention |-> NULL,
   telemetry |-> {"otel", "sentry"}, show |-> {}]

MCEnvs ==
  {[Base EXCEPT !.numbers = ("TRT_BATCH_SIZE" :> 16)],
   [Base EXCEPT !.deploy = "tool", !.toolModel = LocalTool, !.numbers = ("TOOL_HISTORY_TOKENS" :> 1024)],
   [Base EXCEPT !.deploy = "chat", !.engine = "vllm", !.quantization = "awq", !.kvDtype = "fp8",
                !.numbers = ("MAX_NUM_BATCHED_TOKENS_CHAT" :> 64) @@ ("CHAT_GPU_FRAC" :> 90)],
   [Base EXCEPT !.deploy = "chat", !.engine = "tensorrt", !.telemetry = {}],
   [Base EXCEPT !.deploy = "chat", !.engine = "vllm", !.quantization = "gptq", !.show = {"vllm", "hf"}],
   [Base EXCEPT !.apiKey = FALSE, !.numbers = ("HISTORY_RETENTION_PCT" :> 100)]}

Roomy == [total |-> 80, free |-> 78, flashinfer |-> TRUE, fla |-> TRUE, v1 |-> TRUE, tokenizerArgument |-> TRUE,
          trt |-> [metadata |-> 16, config |-> NULL], toolLimit |-> NULL, justBooted |-> FALSE]

Short == [total |-> 48, free |-> 8, flashinfer |-> FALSE, fla |-> FALSE, v1 |-> FALSE, tokenizerArgument |-> FALSE,
          trt |-> [metadata |-> NULL, config |-> 8], toolLimit |-> 256, justBooted |-> TRUE]

MCHosts == {Roomy, Short}

MCTexts == {<<"hello", "NL", "Collecting">>, <<"Tokenizing:">>, <<"10%", "NL", " ">>}

\* Bounds: a behaviour that logs is one of a chat deployment that finds its
\* model, up to the moment it serves; one that serves an engine ran the pipeline
\* once and pushed nothing; and errors are reported, or their windows pass, in a
\* process that was started on its own.
Explored ==
  /\ writes = 0 \/ (/\ launches = 0 /\ runs = 0 /\ host = Roomy /\ env.deploy = "chat"
                     /\ phase \notin {"serving", "stopping", "stopped"})
  /\ phase = "down" \/ (runs <= 1 /\ ~repo.exists)
  /\ launches + runs > 0 => captured = {} /\ heard \in {{}, ErrorClasses}
=============================================================================
