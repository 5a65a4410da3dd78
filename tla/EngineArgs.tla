----------------------------- MODULE EngineArgs ------------------------------
(* How the chat engine is asked for: the arguments of a vLLM engine           *)
(* (engines/vllm/args.py and what it calls) and the checks before a           *)
(* TensorRT-LLM engine is loaded (engines/trt).  A host is what the process   *)
(* finds on the machine; memory is in GiB.                                    *)
EXTENDS Settings, FiniteSetsExt

-----------------------------------------------------------------------------
(* Model profiles: the first whose marker is in the model's name.            *)

NoTraits == [bfloat16 |-> FALSE, fla |-> FALSE, mla |-> FALSE, memory |-> FALSE, tokens |-> 0, regex |-> FALSE]

\* A profile says what is not as usual.
Profile(markers, traits) ==
  [markers |-> markers,
   traits |-> [key \in DOMAIN NoTraits |-> IF key \in DOMAIN traits THEN traits[key] ELSE NoTraits[key]]]

ModelProfiles ==
  <<Profile({"gemma-3", "gemma3"}, [bfloat16 |-> TRUE, memory |-> TRUE]),
    Profile({"gemma-2", "gemma2", "gemma-27b", "gemma-9b"}, [bfloat16 |-> TRUE, memory |-> TRUE]),
    Profile({"gemma"}, [memory |-> TRUE]),
    Profile({"kimi-linear", "kimi_linear"}, [bfloat16 |-> TRUE, fla |-> TRUE]),
    Profile({"kimi"}, [fla |-> TRUE]),
    Profile({"deepseek-v2", "deepseek_v2", "deepseekcoder-v2", "deepseek-v3", "deepseek_v3"}, [mla |-> TRUE]),
    Profile({"moonlight"}, [bfloat16 |-> TRUE, mla |-> TRUE]),
    Profile({"qwen3.5"}, [bfloat16 |-> TRUE, tokens |-> 1280, regex |-> TRUE]),
    Profile({"qwen3-next", "qwen3_next"}, [bfloat16 |-> TRUE, regex |-> TRUE]),
    Profile({"qwen3"}, [regex |-> TRUE]),
    Profile({"mistral-small-3"}, [regex |-> TRUE])>>

Traits(name) ==
  LET i == SelectInSeq(ModelProfiles, LAMBDA p : p.markers \cap NameMarks[name] # {})
  IN IF i = 0 THEN NoTraits ELSE ModelProfiles[i].traits

\* A quantized directory says which model it was made from.
ModelOrigin(model) ==
  LET metadata == IF IsLocal(model) THEN Field(model.files, "awq_metadata.json") ELSE NULL
      source == IF metadata = NULL THEN NULL ELSE Field(metadata.text, "source_model")
  IN IF source = NULL THEN model.name ELSE source

-----------------------------------------------------------------------------
(* The quantization a vLLM engine is asked for.                              *)

UnsupportedFields == {"scale_dtype", "zp_dtype"}

StrippedFields(f) == [key \in DOMAIN f \ UnsupportedFields |-> f[key]]

StrippedObject(data) ==
  [text |-> StrippedFields(data.text),
   nested |-> [key \in DOMAIN data.nested |-> [data.nested[key] EXCEPT !.text = StrippedFields(@)]]]

\* The configuration files are rewritten without the fields vLLM refuses, even
\* where they are read-only; a file that cannot be read is left alone.
Sanitized(model) ==
  [model EXCEPT !.files =
     [name \in DOMAIN @ |->
        IF name \in ToSet(QuantConfigFilenames) /\ @[name] # NULL THEN StrippedObject(@[name]) ELSE @[name]]]

QuantName(text) ==
  IF text \in {"awq", "awq-marlin", "awq_marlin"} THEN "awq_marlin"
  ELSE IF text \in {"compressed-tensors", "compressedtensors", "compressed_tensors", "compressed-tensor", "autoround"}
       THEN "compressed-tensors" ELSE NULL

BackendIn(data) ==
  FirstFound(<<QuantName(Field(data.text, "quantization_method")), QuantName(Field(data.text, "quant_method")),
               QuantName(Field(data.text, "quantization"))>>)

\* A nested configuration with no known method is taken for compressed-tensors.
BackendOfPayload(payload) ==
  LET nested == Field(payload.nested, "quantization_config") IN
  IF BackendIn(payload) # NULL THEN BackendIn(payload)
  ELSE IF nested = NULL THEN NULL
  ELSE IF BackendIn(nested) # NULL THEN BackendIn(nested) ELSE "compressed-tensors"

\* The files of a directory, or those a repository lets the process download.
DetectBackend(model) ==
  LET In(name) == IF Field(Sanitized(model).files, name) = NULL THEN NULL
                  ELSE BackendOfPayload(Sanitized(model).files[name])
  IN FirstFound([i \in DOMAIN QuantConfigFilenames |-> In(QuantConfigFilenames[i])])

ResolveQuantization(model, quantization) ==
  IF quantization # "awq" THEN quantization
  ELSE IF DetectBackend(model) = NULL THEN "awq_marlin" ELSE DetectBackend(model)

Dtype(traits, quantization) ==
  IF traits.bfloat16 THEN "bfloat16"
  ELSE IF quantization \in {"awq", "awq_marlin", "compressed-tensors", "fp8"} THEN "float16" ELSE "auto"

-----------------------------------------------------------------------------
(* Memory.  A host without a device tells nothing: its total is 0.           *)

MaxBatchedTokens(env, traits) ==
  IF "MAX_NUM_BATCHED_TOKENS_CHAT" \in DOMAIN env.numbers
  THEN Max({env.numbers["MAX_NUM_BATCHED_TOKENS_CHAT"], traits.tokens})
  ELSE IF traits.tokens # 0 THEN traits.tokens ELSE Number(env, "DEFAULT_MAX_BATCHED_TOKENS")

MemoryOptCap == 85

GpuUtilization(env, traits) ==
  LET fraction == GpuFraction(env, "CHAT_GPU_FRAC")
  IN IF traits.memory THEN Min({fraction, MemoryOptCap}) ELSE fraction

BaselineForGpu(total, baseline) ==
  Min({baseline, IF total < 36 THEN 48 ELSE IF total < 48 THEN 56 ELSE IF total < 72 THEN 72 ELSE 112})

AutoMaxSeqs(fraction, memory, host) ==
  LET usual == IF memory THEN 64 ELSE 96
      baseline == IF host.total = 0 THEN usual ELSE BaselineForGpu(host.total, usual)
      resolved == (baseline * Max({40, Min({fraction, 95})})) \div 85
  IN Max({32, Min({resolved, 128})})

\* Too little free memory scales the batch down, to a tenth at the least.
Scaled(n, free, target) == Max({(n * free) \div target, n \div 10})

\* The memory is compared in hundredths of a GiB.
TargetMemory(env, fraction, host) == Max({host.total * Min({fraction, BatchScaleCap(env)}), 1})

IsShort(env, fraction, host) ==
  host.total # 0 /\ fraction > 0 /\ host.free * 100 < TargetMemory(env, fraction, host)

\* Mutant of ScaleTokens: the profile's floor is not passed on.
ScaleTokensWithoutFloor(env, tokens, floor, fraction, host) ==
  IF IsShort(env, fraction, host)
  THEN Max({64, Scaled(tokens, host.free * 100, TargetMemory(env, fraction, host))}) ELSE tokens

ScaleTokens(env, tokens, floor, fraction, host) ==
  IF IsShort(env, fraction, host)
  THEN Max({64, floor, Scaled(tokens, host.free * 100, TargetMemory(env, fraction, host))}) ELSE tokens

ScaleSeqs(env, seqs, fraction, host) ==
  IF IsShort(env, fraction, host) THEN Max({4, Scaled(seqs, host.free * 100, TargetMemory(env, fraction, host))})
  ELSE seqs

\* The names of 8-bit floats begin with fp8.
Fp8Types == {"fp8", "fp8_e4m3", "fp8_e5m2"}

\* The V1 engine takes an 8-bit KV cache from the environment, V0 as an argument.
KvCache(env, host) ==
  IF env.kvDtype \in {"", "auto"} THEN [argument |-> NULL, fp8 |-> FALSE]
  ELSE IF host.v1 THEN [argument |-> NULL, fp8 |-> env.kvDtype \in Fp8Types]
  ELSE [argument |-> env.kvDtype, fp8 |-> FALSE]

\* The backend is a hint of the environment or what is installed, and models
\* with an attention of their own are left to choose.
AttentionBackend(env, traits, host) ==
  IF traits.mla \/ traits.fla THEN NULL
  ELSE IF env.attention # NULL THEN env.attention
  ELSE IF host.flashinfer THEN "FLASHINFER" ELSE "XFORMERS"

\* Where the tokenizer flag of a profile goes: an argument of the engine if it
\* has one, else a patch of the tokenizer loader for the names it knows.
TokenizerFix(traits, host) ==
  IF ~traits.regex THEN NULL ELSE IF host.tokenizerArgument THEN "argument" ELSE "patch"

\* A patched loader sets the flag for a name that contains a marker of the
\* profile or the name of the origin.
PatchedLoaderFixes(origin, loaded) ==
  LET i == SelectInSeq(ModelProfiles, LAMBDA p : p.markers \cap NameMarks[origin] # {})
  IN loaded = origin \/ (i # 0 /\ ModelProfiles[i].markers \cap NameMarks[loaded] # {})

MakeEngineArgs(env, host) ==
  LET model == env.chatModel
      traits == Traits(ModelOrigin(model))
      fraction == GpuUtilization(env, traits)
      quantization == ResolveQuantization(model, ChatQuantization(env))
      local == ChatQuantization(env) = "awq" /\ IsLocal(model)
  IN [model |-> model.name,
      maxLen |-> ChatMaxLen(env),
      utilization |-> fraction,
      quantization |-> quantization,
      dtype |-> Dtype(traits, quantization),
      tokens |-> ScaleTokens(env, MaxBatchedTokens(env, traits), traits.tokens, fraction, host),
      seqs |-> ScaleSeqs(env, AutoMaxSeqs(fraction, traits.memory, host), fraction, host),
      kv |-> KvCache(env, host),
      attention |-> AttentionBackend(env, traits, host),
      tokenizer |-> TokenizerFix(traits, host),
      offline |-> local]

\* A model that needs a runtime that is not installed is refused.
ArgsRefused(env, host) == Traits(ModelOrigin(env.chatModel)).fla /\ ~host.fla

-----------------------------------------------------------------------------
(* A TensorRT-LLM engine: NULL, or the batch size in its build metadata and   *)
(* in its configuration, each NULL when it is not there.                      *)

EngineMaxBatch(engine) == IF engine.metadata # NULL THEN engine.metadata ELSE engine.config

EngineRefused(env, engine) ==
  \/ engine = NULL
  \/ /\ EngineMaxBatch(engine) # NULL
     /\ "TRT_BATCH_SIZE" \in DOMAIN env.numbers
     /\ EngineMaxBatch(engine) < env.numbers["TRT_BATCH_SIZE"]

\* The share of the free memory its KV cache takes.
KvFraction(env) ==
  IF "TRT_KV_FREE_GPU_FRAC" \in DOMAIN env.numbers THEN env.numbers["TRT_KV_FREE_GPU_FRAC"]
  ELSE GpuFraction(env, "CHAT_GPU_FRAC")
=============================================================================
