------------------------------ MODULE Payloads ------------------------------
(***************************************************************************)
(* What one client frame means: parse_client_message and its schemas       *)
(* (src/handlers/websocket/parser.py), the sampling overrides              *)
(* (src/messages/sampling.py) and the other fields of a start message      *)
(* (src/messages/validators.py, src/text/prompt.py, src/messages/start.py).*)
(*                                                                         *)
(* A frame is a record. A text is one of a few kinds: what it is once      *)
(* stripped and sanitized. A JSON value where a number is expected is a    *)
(* record of its kind and the number it denotes, in hundredths.            *)
(***************************************************************************)
EXTENDS Integers, Sequences, FiniteSets

CONSTANTS
  None,        \* a JSON null or a field that is not there
  NaN,         \* float("nan"), which a client may also send as a number
  ProtocolVersion,
  DeployChat   \* a chat model is deployed

Refused(code) == [ok |-> FALSE, code |-> code]

-----------------------------------------------------------------------------
(* The schemas *)

SamplingOrder ==
  <<"temperature", "top_p", "top_k", "min_p", "repetition_penalty", "presence_penalty",
    "frequency_penalty">>

SamplingNames == {SamplingOrder[n] : n \in DOMAIN SamplingOrder}

SamplingKeys == SamplingNames \cup {"sampling", "sampling_params", "sanitize_output"}

StartOnlyKeys ==
  {"gender", "personality", "history", "chat_prompt", "check_screen_prefix",
   "screen_checked_prefix"}

Schema(type) ==
  CASE type = "start" -> StartOnlyKeys \cup SamplingKeys
    [] type = "message" -> {"user_utterance"} \cup SamplingKeys
    [] type \in {"cancel", "ping", "pong", "end"} -> {}

Types == {"start", "message", "cancel", "ping", "pong", "end"}

\* str(type).strip().lower(): a frame may write its type with blanks and capitals.
Normalized(type) == IF type = " START " THEN "start" ELSE type

\* _HistoryItem: roles are normalized before they are checked.
HistoryIsValid(history) == \A n \in DOMAIN history : history[n] \in {"user", "assistant", " User "}

(* parse_client_message. fields is a function from the names a frame has to  *)
(* values; fields that are null are as good as absent, but for the history,  *)
(* which may be left out and not be null.                                    *)
Parse(frame) ==
  LET type == Normalized(frame.type)
      present == {f \in DOMAIN frame.fields : frame.fields[f] # None}
  IN IF \/ frame.size = "oversize"
        \/ frame.form # "object"
        \/ type \notin Types
        \/ frame.version # ProtocolVersion
        \/ ~(DOMAIN frame.fields \subseteq Schema(type))
        \/ /\ "history" \in DOMAIN frame.fields
           /\ frame.fields["history"] = None \/ ~HistoryIsValid(frame.fields["history"])
     THEN Refused("invalid_message")
     ELSE [ok |-> TRUE, type |-> type, fields |-> [f \in present |-> frame.fields[f]]]

Get(fields, name) == IF name \in DOMAIN fields THEN fields[name] ELSE None

-----------------------------------------------------------------------------
(* Sampling overrides *)

Number(kind, n) == [kind |-> kind, num |-> n]

\* An integer is a whole number of hundreds; only a float may be a NaN.
IsValue(v) ==
  /\ v.kind \in {"int", "int text"} => v.num \in Int /\ v.num % 100 = 0
  /\ v.kind \in {"float", "float text"} => v.num \in Int \cup {NaN}

AreValues(f) == \A name \in SamplingNames \cap DOMAIN f : f[name] = None \/ IsValue(f[name])

\* What the schemas leave of the sampling fields of a frame.
FieldsAreTyped(fields) ==
  /\ AreValues(fields)
  /\ \A name \in {"sampling", "sampling_params"} \cap DOMAIN fields :
       LET block == fields[name]
       IN block = None \/ (AreValues(block) /\ block = [f \in DOMAIN block |-> block[f]])

Bounds ==
  [temperature |-> <<0, 120>>, top_p |-> <<60, 100>>, top_k |-> <<0, 6000>>,
   min_p |-> <<0, 20>>, repetition_penalty |-> <<100, 130>>,
   presence_penalty |-> <<0, 50>>, frequency_penalty |-> <<0, 50>>]

\* Mutant of CoerceFloat: a bool is an int in Python.
CoerceFloatOrBool(v) ==
  IF v.kind \in {"bool", "int", "float", "int text", "float text"} THEN v.num ELSE None

CoerceFloat(v) ==
  IF v.kind \in {"int", "float", "int text", "float text"} THEN v.num ELSE None

IsWhole(n) == n # NaN /\ n % 100 = 0

CoerceInt(v) ==
  IF v.kind \in {"int", "int text"} \/ (v.kind = "float" /\ IsWhole(v.num)) THEN v.num ELSE None

Coerced(name, v) == IF name = "top_k" THEN CoerceInt(v) ELSE CoerceFloat(v)

\* Every comparison with a NaN is false.
InBounds(name, n) == n # NaN /\ Bounds[name][1] <= n /\ n <= Bounds[name][2]

(* An empty block is as good as none. A value in the block comes before the *)
(* one next to it.                                                          *)
SamplingBlock(fields) ==
  LET first == Get(fields, "sampling")
      second == Get(fields, "sampling_params")
      NoFields == [f \in {} |-> None]
  IN IF first \notin {None, NoFields} THEN first
     ELSE IF second # None THEN second ELSE NoFields

\* Mutant of RawValue: the value next to the block wins.
RawValueOutside(fields, name) ==
  LET outer == Get(fields, name)
  IN IF outer # None THEN outer ELSE Get(SamplingBlock(fields), name)

RawValue(fields, name) ==
  LET inner == Get(SamplingBlock(fields), name)
  IN IF inner # None THEN inner ELSE Get(fields, name)

(* extract_sampling_overrides: the error of the first wrong field, or the   *)
(* overrides; sanitize_output comes last and must be a bool.                *)
SamplingOverrides(fields) ==
  LET Raw(name) == RawValue(fields, name)
      given == {name \in SamplingNames : Raw(name) # None}
      Wrong(name) == Coerced(name, Raw(name)) = None \/ ~InBounds(name, Coerced(name, Raw(name)))
      wrong == {n \in DOMAIN SamplingOrder : SamplingOrder[n] \in given /\ Wrong(SamplingOrder[n])}
      first == SamplingOrder[CHOOSE n \in wrong : \A k \in wrong : n <= k]
      sanitize == Raw("sanitize_output")
  IN IF ~DeployChat THEN [ok |-> TRUE, overrides |-> [f \in {} |-> None]]
     ELSE IF wrong # {}
       THEN [ok |-> FALSE, field |-> first,
             code |-> IF Coerced(first, Raw(first)) = None THEN "invalid" ELSE "out_of_range"]
     ELSE IF sanitize # None /\ sanitize.kind # "bool"
       THEN [ok |-> FALSE, field |-> "sanitize_output", code |-> "invalid"]
     ELSE [ok |-> TRUE,
           overrides |-> [f \in given \cup (IF sanitize = None THEN {} ELSE {"sanitize_output"}) |->
                            IF f = "sanitize_output" THEN sanitize.num ELSE Coerced(f, Raw(f))]]

-----------------------------------------------------------------------------
(* From the overrides to the engine: chat/runner.py and engines/sampling.py.  *)

DefaultSampling ==
  [temperature |-> 80, top_p |-> 95, top_k |-> 3000, min_p |-> 0, repetition_penalty |-> 100,
   presence_penalty |-> 0, frequency_penalty |-> 0, sanitize_output |-> TRUE]

\* What is not overridden is the server's own.
ResolvedSampling(overrides) ==
  [name \in DOMAIN DefaultSampling |->
     IF name \in DOMAIN overrides THEN overrides[name] ELSE DefaultSampling[name]]

VllmParams(sampling) == [name \in SamplingNames |-> sampling[name]]

TrtPenalties == [repetition_penalty |-> 100, presence_penalty |-> 0, frequency_penalty |-> 0]

\* TensorRT-LLM is not told its own defaults, nor of min_p.
TrtParams(sampling) ==
  LET penalties == {name \in DOMAIN TrtPenalties : sampling[name] # TrtPenalties[name]}
      topK == {name \in {"top_k"} : sampling[name] > 0}
  IN [name \in {"temperature", "top_p"} \cup topK \cup penalties |-> sampling[name]]

\* create_sampling_params
EngineParams(engine, overrides) ==
  LET sampling == ResolvedSampling(overrides)
  IN IF engine = "vllm" THEN VllmParams(sampling) ELSE TrtParams(sampling)

-----------------------------------------------------------------------------
(* Start fields. A text is one of: "blank"; "controls", which only sanitizing *)
(* makes empty; "long", more than any limit; or what it says.                *)

SanitizePrompt(text, limited) ==
  IF text \in {"blank", "empty", "controls"} \/ (limited /\ text = "long") THEN None ELSE text

NormalizeGender(text) ==
  CASE text \in {"female", " Female "} -> "female"
    [] text = "male" -> "male"
    [] OTHER -> None

\* Letters only, of limited length.
NormalizePersonality(text) ==
  CASE text = " Savage " -> "savage"
    [] text \in {None, "blank", "empty", "long", "two words"} -> None
    [] OTHER -> text

RequiredText(text, normal, name) ==
  IF text \in {None, "blank", "empty"} THEN Refused("missing_" \o name)
  ELSE IF normal = None THEN Refused("invalid_" \o name)
  ELSE [ok |-> TRUE, is |-> normal]

Persona(fields) ==
  LET gender == RequiredText(Get(fields, "gender"), NormalizeGender(Get(fields, "gender")), "gender")
      personality == RequiredText(Get(fields, "personality"),
                       NormalizePersonality(Get(fields, "personality")), "personality")
  IN IF ~DeployChat THEN [ok |-> TRUE] ELSE IF ~gender.ok THEN gender ELSE personality

\* "empty" is the text without a character: require_prompt sees only that one.
ChatPrompt(fields) ==
  LET text == Get(fields, "chat_prompt")
  IN IF ~DeployChat THEN [ok |-> TRUE]
     ELSE IF text \in {None, "empty"} THEN Refused("missing_chat_prompt")
     ELSE IF SanitizePrompt(text, FALSE) = None THEN Refused("invalid_chat_prompt")
     ELSE IF text = "long" THEN Refused("chat_prompt_too_long")
     ELSE [ok |-> TRUE]

\* validate_optional_prefix: a blank prefix is none; one that sanitizing empties is wrong.
ScreenPrefix(fields, name) ==
  LET text == Get(fields, name)
  IN IF text \in {None, "blank", "empty"} THEN [ok |-> TRUE]
     ELSE IF SanitizePrompt(text, TRUE) = None THEN Refused("invalid_" \o name)
     ELSE [ok |-> TRUE]

ChatOnlyStartKeys == {"gender", "personality", "chat_prompt"} \cup SamplingKeys

ToolOnlyFields(fields) ==
  IF ~DeployChat /\ DOMAIN fields \cap ChatOnlyStartKeys # {}
  THEN Refused("tool_only_forbids_chat_settings") ELSE [ok |-> TRUE]

\* _resolve_start_inputs: the first check that fails decides.
StartInputs(fields) ==
  LET checks == <<ToolOnlyFields(fields), Persona(fields), ChatPrompt(fields),
                  SamplingOverrides(fields), ScreenPrefix(fields, "check_screen_prefix"),
                  ScreenPrefix(fields, "screen_checked_prefix")>>
      failed == {n \in DOMAIN checks : ~checks[n].ok}
  IN IF failed = {} THEN checks[4] ELSE checks[CHOOSE n \in failed : \A k \in failed : n <= k]

SettingsErrors ==
  {"missing_chat_prompt", "invalid_chat_prompt", "chat_prompt_too_long",
   "invalid_check_screen_prefix", "invalid_screen_checked_prefix",
   "tool_only_forbids_chat_settings"}

\* _close_with_validation_error: the code the client sees.
StartErrorCode(code) == IF code \in SettingsErrors THEN "invalid_settings" ELSE "invalid_payload"
=============================================================================
