------------------------------ MODULE Settings -------------------------------
(* What a process derives from its environment before it serves: what is      *)
(* deployed, with which engine, how the chat model is quantized, the limits   *)
(* that follow from each other, and the check of the whole (config/,          *)
(* helpers/validation.py).  Fractions are in hundredths; a number that is not *)
(* set is not in the environment's "numbers".                                 *)
EXTENDS Integers, Sequences, SequencesExt, FiniteSets

CONSTANTS
  NULL,
  NameMarks  \* model name -> the fragments its lower-cased text contains

\* The keys are looked up in their order, and the first value there is counts.
FirstFound(values) ==
  LET i == SelectInSeq(values, LAMBDA value : value # NULL)
  IN IF i = 0 THEN NULL ELSE values[i]

Field(data, key) == IF key \in DOMAIN data THEN data[key] ELSE NULL

-----------------------------------------------------------------------------
(* Names and files of a model: [name, kind, listed, files], where kind is     *)
(* "repo", "dir" or "missing", listed are the allow-lists it is on, and a     *)
(* file's payload is NULL when it cannot be read, else its text fields and    *)
(* its nested objects.                                                        *)

Marks(model) == IF model = NULL THEN {} ELSE NameMarks[model.name]

IsLocal(model) == model # NULL /\ model.kind = "dir"

IsAwqName(model) == {"awq", "/"} \subseteq Marks(model)
IsGptqName(model) == {"gptq", "/"} \subseteq Marks(model)
HasW4a16Mark(model) == Marks(model) \cap {"w4a16", "compressed-tensors", "autoround"} # {}

ClassifyPrequantized(model) ==
  IF IsAwqName(model) \/ HasW4a16Mark(model) THEN "awq" ELSE IF IsGptqName(model) THEN "gptq" ELSE NULL

ClassifyTrtPrequantized(model) ==
  LET marks == Marks(model) IN
  IF ~({"trt", "/"} \subseteq marks) THEN NULL
  ELSE IF "awq" \in marks THEN "trt_awq"
  ELSE IF "fp8" \in marks THEN "trt_fp8"
  ELSE IF marks \cap {"int8", "int-8"} # {} THEN "trt_int8"
  ELSE IF marks \cap {"8bit", "8-bit"} # {} THEN "trt_8bit" ELSE NULL

QuantConfigFilenames == <<"config.json", "quantization_config.json", "quant_config.json", "awq_config.json">>

QuantMethodKeys == <<"quant_method", "quantization_method", "quant_algo", "quantization">>
QuantParentKeys == <<"quantization_config", "pretrained_config", "quantization", "quant_config">>

QuantConfigMethod(text) ==
  IF text \in {"awq", "compressed-tensors", "autoround", "w4a16_awq", "w4a16", "int4_awq"} THEN "awq"
  ELSE IF text \in {"gptq", "gptq_marlin"} THEN "gptq"
  ELSE IF text = "fp8" THEN "fp8"
  ELSE IF text \in {"int8", "int8_sq", "w8a8_sq_per_channel", "w8a8_sq_per_tensor_per_token"} THEN "int8"
  ELSE NULL

MethodIn(data) ==
  FirstFound([i \in DOMAIN QuantMethodKeys |-> QuantConfigMethod(Field(data.text, QuantMethodKeys[i]))])

\* An object is searched itself and then one level down.
MethodBelow(data) ==
  IF data = NULL THEN NULL
  ELSE IF MethodIn(data) # NULL THEN MethodIn(data)
  ELSE LET Below(key) == IF key \in DOMAIN data.nested THEN MethodIn(data.nested[key]) ELSE NULL
       IN FirstFound([i \in DOMAIN QuantParentKeys |-> Below(QuantParentKeys[i])])

MethodOfPayload(payload) ==
  LET nested == FirstFound([i \in DOMAIN QuantParentKeys |-> MethodBelow(Field(payload.nested, QuantParentKeys[i]))])
  IN IF nested # NULL THEN nested ELSE MethodIn(payload)

DetectFromFiles(model) ==
  IF ~IsLocal(model) THEN NULL
  ELSE LET In(name) == IF Field(model.files, name) = NULL THEN NULL ELSE MethodOfPayload(model.files[name])
       IN FirstFound([i \in DOMAIN QuantConfigFilenames |-> In(QuantConfigFilenames[i])])

\* A name that tells the format wins over the files.
DetectChatQuantization(model, engine) ==
  LET trt == ClassifyTrtPrequantized(model) IN
  IF engine = "trt" /\ trt = "trt_awq" THEN "awq"
  ELSE IF engine = "trt" /\ trt = "trt_fp8" THEN "fp8"
  ELSE IF engine = "trt" /\ trt \in {"trt_int8", "trt_8bit"} THEN "int8"
  ELSE IF ClassifyPrequantized(model) # NULL THEN ClassifyPrequantized(model)
  ELSE DetectFromFiles(model)

-----------------------------------------------------------------------------
(* Settings of an environment.                                               *)

DeployChat(env) == env.deploy \in {"both", "chat"}
DeployTool(env) == env.deploy \in {"both", "tool"}

\* An unknown name is vllm; an unset one is trt.
Engine(env) ==
  IF ~DeployChat(env) THEN NULL
  ELSE IF env.engine \in {NULL, "trt", "tensorrt", "trtllm", "tensorrt-llm"} THEN "trt" ELSE "vllm"

ChatQuantization(env) ==
  IF env.quantization # NULL THEN env.quantization ELSE DetectChatQuantization(env.chatModel, Engine(env))

Lowered(method) == IF method = "AWQ" THEN "awq" ELSE method

DefaultNumbers ==
  [CHAT_PROMPT_MAX_TOKENS |-> 1500, CHAT_HISTORY_MAX_TOKENS |-> 3000, USER_UTT_MAX_TOKENS |-> 500,
   HISTORY_RETENTION_PCT |-> 66, CONTEXT_BUFFER |-> 25, CHAT_MAX_OUT |-> 150,
   CHAT_TEMPERATURE |-> 80, CHAT_TOP_P |-> 95, CHAT_TOP_K |-> 30, CHAT_MIN_P |-> 0, CHAT_REPETITION_PENALTY |-> 100,
   CHAT_PRESENCE_PENALTY |-> 0, CHAT_FREQUENCY_PENALTY |-> 0, TOOL_DECISION_THRESHOLD |-> 66,
   WS_IDLE_TIMEOUT_S |-> 15000, CHAT_TIMEOUT_S |-> 6000, TOOL_TIMEOUT_S |-> 300,
   DEFAULT_MAX_BATCHED_TOKENS |-> 256]

\* The two models share the device when both are deployed.
GpuFraction(env, name) ==
  IF name \in DOMAIN env.numbers THEN env.numbers[name]
  ELSE IF ~(DeployChat(env) /\ DeployTool(env)) THEN 90
  ELSE IF name = "CHAT_GPU_FRAC" THEN 70 ELSE 20

Number(env, name) ==
  IF name \in {"CHAT_GPU_FRAC", "TOOL_GPU_FRAC"} THEN GpuFraction(env, name)
  ELSE IF name \in DOMAIN env.numbers THEN env.numbers[name] ELSE DefaultNumbers[name]

BatchScaleCap(env) ==
  IF "BATCH_SCALE_GPU_FRAC_CAP" \in DOMAIN env.numbers THEN env.numbers["BATCH_SCALE_GPU_FRAC_CAP"]
  ELSE GpuFraction(env, "CHAT_GPU_FRAC")

ChatMaxLen(env) ==
  Number(env, "CHAT_PROMPT_MAX_TOKENS") + Number(env, "CHAT_HISTORY_MAX_TOKENS")
    + Number(env, "USER_UTT_MAX_TOKENS") + Number(env, "CONTEXT_BUFFER")

TrimmedHistory(env) == (Number(env, "CHAT_HISTORY_MAX_TOKENS") * Number(env, "HISTORY_RETENTION_PCT")) \div 100

-----------------------------------------------------------------------------
(* The check at startup: every error is collected.                           *)

ValidFormats == {"awq", "gptq", "gptq_marlin", "int4_awq", "fp8", "int8_sq", "int8"}

Bounds ==
  [HISTORY_RETENTION_PCT |-> <<30, 90>>, CHAT_TEMPERATURE |-> <<0, 120>>, CHAT_TOP_P |-> <<60, 100>>,
   CHAT_TOP_K |-> <<0, 60>>, CHAT_MIN_P |-> <<0, 20>>, CHAT_REPETITION_PENALTY |-> <<100, 130>>,
   CHAT_PRESENCE_PENALTY |-> <<0, 50>>, CHAT_FREQUENCY_PENALTY |-> <<0, 50>>,
   TOOL_DECISION_THRESHOLD |-> <<0, 100>>, WS_IDLE_TIMEOUT_S |-> <<100, 8640000>>,
   CHAT_TIMEOUT_S |-> <<100, 60000>>, TOOL_TIMEOUT_S |-> <<10, 12000>>,
   CHAT_GPU_FRAC |-> <<1, 100>>, TOOL_GPU_FRAC |-> <<1, 100>>]

PositiveNumbers == {"CHAT_PROMPT_MAX_TOKENS", "CHAT_HISTORY_MAX_TOKENS", "USER_UTT_MAX_TOKENS", "CHAT_MAX_OUT"}

NumericErrors(env) ==
  {name \in DOMAIN Bounds : ~(Bounds[name][1] <= Number(env, name) /\ Number(env, name) <= Bounds[name][2])}
  \cup {name \in PositiveNumbers : Number(env, name) <= 0}
  \cup {name \in {"CHAT_MAX_LEN"} : ChatMaxLen(env) <= 0}

\* A directory needs a tokenizer; a repository is taken at its word.
TokenizerExists(model) ==
  \/ model.kind = "repo"
  \/ IsLocal(model) /\ {"tokenizer.json", "tokenizer_config.json"} \cap DOMAIN model.files # {}

IsToolModel(model) == "tool" \in model.listed \/ IsLocal(model)

EnvErrors(env) ==
  {e \in {"TEXT_API_KEY"} : ~env.apiKey}
  \cup {e \in {"MAX_CONCURRENT_CONNECTIONS"} : env.connections = NULL \/ env.connections <= 0}
  \cup {e \in {"TRIMMED_HISTORY_LENGTH"} : TrimmedHistory(env) >= Number(env, "CHAT_HISTORY_MAX_TOKENS")}
  \cup {e \in {"CHAT_MODEL"} : DeployChat(env) /\ env.chatModel = NULL}
  \cup {e \in {"TOOL_MODEL"} : DeployTool(env) /\ (env.toolModel = NULL \/ ~IsToolModel(env.toolModel))}
  \cup {e \in {"INFERENCE_ENGINE"} : DeployChat(env) /\ Engine(env) \notin {"vllm", "trt"}}
  \cup {e \in {"CHAT_QUANTIZATION"} : DeployChat(env) /\ Lowered(ChatQuantization(env)) \notin ValidFormats}
  \cup {e \in {"chat_tokenizer"} : DeployChat(env) /\ env.chatModel # NULL /\ ~TokenizerExists(env.chatModel)}
  \cup {e \in {"tool_tokenizer"} : DeployTool(env) /\ env.toolModel # NULL /\ ~TokenizerExists(env.toolModel)}
  \cup NumericErrors(env)
  \cup {e \in {"HEALTH_ALLOWED_CIDRS"} : env.cidrs = {}}

\* The check the launch scripts make first, on the allow-lists.
PreflightErrors(env) ==
  {e \in {"DEPLOY_MODE"} : env.deploy \notin {"both", "chat", "tool"}}
  \cup {e \in {"INFERENCE_ENGINE"} : DeployChat(env) /\ env.engine \notin {"trt", "vllm"}}
  \cup {e \in {"CHAT_MODEL"} :
          /\ DeployChat(env)
          /\ env.engine \in {"trt", "vllm"}
          /\ \/ env.chatModel = NULL
             \/ /\ ~IsLocal(env.chatModel)
                /\ env.chatModel.listed \cap {"base", "moe", env.engine} = {}}
  \cup {e \in {"TOOL_MODEL"} :
          /\ DeployTool(env)
          /\ DeployChat(env) => env.engine \in {"trt", "vllm"}
          /\ env.toolModel = NULL \/ ~IsToolModel(env.toolModel)}
  \cup {e \in {"CHAT_QUANTIZATION"} :
          /\ DeployChat(env)
          /\ env.engine \in {"trt", "vllm"}
          /\ env.quantization = "awq"
          /\ env.chatModel # NULL
          /\ "GPTQ" \in Marks(env.chatModel)
          /\ ~IsAwqName(env.chatModel)}
=============================================================================
