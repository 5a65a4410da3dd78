------------------------------- MODULE Gateway -------------------------------
(***************************************************************************)
(* The way into the server: the authentication of a client, throttled by   *)
(* its past failures (src/handlers/websocket/auth.py), and then what       *)
(* run_message_loop does with each frame before a turn comes of it         *)
(* (message_loop.py): parse it, count it against one of two rate limiters  *)
(* (handlers/websocket/limits.py), validate its settings. What turns do is *)
(* in Session; what a session remembers is in Conversation.                *)
(***************************************************************************)
EXTENDS Payloads

CONSTANTS
  Hosts,         \* client hosts
  MaxFailures,   \* WS_MAX_AUTH_FAILURES_PER_WINDOW
  MessageLimit,  \* WS_MAX_MESSAGES_PER_WINDOW
  CancelLimit,   \* WS_MAX_CANCELS_PER_WINDOW
  Window,        \* WS_RATE_LIMIT_WINDOW, in ticks
  KeyIsSet,      \* TEXT_API_KEY is configured
  OriginsListed, \* WS_ALLOWED_ORIGINS is not empty
  Frames,        \* what a client may send
  MaxTime        \* bound on the clock

ASSUME GatewayConstants ==
  /\ MaxFailures \in Nat /\ MessageLimit \in Nat /\ CancelLimit \in Nat /\ Window \in Nat
  /\ MaxTime \in Nat
  /\ None # "rate_limited"  \* no error is not an error
  /\ None # NaN /\ None \notin Int /\ NaN \notin Int  \* neither is a number
  /\ \A f \in Frames : FieldsAreTyped(f.fields)

VARIABLES
  now,       \* time.monotonic(), in ticks
  failures,  \* _AUTH_FAILURES: the deque of each host
  failed,    \* ghost: each host's failures since it last succeeded
  conn,      \* "none", "open", "closed" by an error
  started,   \* the loop's flag
  messages, messageLog, messageRefusal,  \* the limiter of messages, as in RateLimit
  cancels, cancelLog, cancelRefusal,     \* the limiter of cancels
  inbox,     \* the frame under way
  reply      \* the last error code, None when a frame went through

authVars == <<failures, failed>>
messageVars == <<messages, messageLog, messageRefusal>>
cancelVars == <<cancels, cancelLog, cancelRefusal>>
frameVars == <<inbox, reply>>
vars == <<now, authVars, conn, started, messageVars, cancelVars, frameVars>>

Messages == INSTANCE RateLimit WITH
  Limit <- MessageLimit, events <- messages, log <- messageLog, refusal <- messageRefusal

Cancels == INSTANCE RateLimit WITH
  Limit <- CancelLimit, events <- cancels, log <- cancelLog, refusal <- cancelRefusal

Init ==
  /\ now = 0
  /\ failures = [h \in Hosts |-> <<>>] /\ failed = [h \in Hosts |-> <<>>]
  /\ conn = "none" /\ started = FALSE
  /\ messages = <<>> /\ messageLog = <<>> /\ messageRefusal = 0
  /\ cancels = <<>> /\ cancelLog = <<>> /\ cancelRefusal = 0
  /\ inbox = None /\ reply = None

-----------------------------------------------------------------------------
(* Authentication *)

Origins == {"none", "listed", "foreign"}
Keys == {"absent", "good", "bad"}

\* _prune_failures
Failures(h) == Messages!Pruned(failures[h], now, Window)

Throttled(h) == Len(Failures(h)) >= MaxFailures

OriginAllowed(origin) == origin = "none" \/ ~OriginsListed \/ origin = "listed"

\* The header comes before the bearer token.
ProvidedKey(header, bearer) == IF header # "absent" THEN header ELSE bearer

KeyIsValid(key) == key = "good" /\ KeyIsSet

\* _is_auth_throttled prunes the deque of a client it turns away.
TurnAway(h) ==
  /\ Throttled(h)
  /\ failures' = [failures EXCEPT ![h] = Failures(h)]
  /\ UNCHANGED failed

RecordFailure(h) ==
  /\ failures' = [failures EXCEPT ![h] = Append(Failures(h), now)]
  /\ failed' = [failed EXCEPT ![h] = Append(@, now)]

ClearFailures(h) ==
  /\ failures' = [failures EXCEPT ![h] = <<>>]
  /\ failed' = [failed EXCEPT ![h] = <<>>]

Unconnected == UNCHANGED <<now, conn, started, messageVars, cancelVars, frameVars>>

(* authenticate_websocket. The origin is checked before the key.            *)
Connect(h, origin, key) ==
  LET valid == OriginAllowed(origin) /\ KeyIsValid(key)
  IN /\ conn = "none"
     /\ \/ TurnAway(h) /\ Unconnected
        \/ ~Throttled(h) /\ ~valid /\ RecordFailure(h) /\ Unconnected
        \/ /\ ~Throttled(h) /\ valid /\ ClearFailures(h)
           /\ conn' = "open"
           /\ UNCHANGED <<now, started, messageVars, cancelVars, frameVars>>

\* get_api_key, for plain HTTP: the same failures, no origin.
Request(h, key) ==
  /\ conn = "none"
  /\ \/ TurnAway(h)
     \/ ~Throttled(h) /\ ~KeyIsValid(key) /\ RecordFailure(h)
     \/ ~Throttled(h) /\ KeyIsValid(key) /\ ClearFailures(h)
  /\ Unconnected

Attempt ==
  \E h \in Hosts, header \in Keys, bearer \in Keys :
    \/ \E origin \in Origins : Connect(h, origin, ProvidedKey(header, bearer))
    \/ Request(h, ProvidedKey(header, bearer))

-----------------------------------------------------------------------------
(* Frames *)

Receive ==
  /\ conn = "open" /\ inbox = None
  /\ \E f \in Frames : inbox' = f
  /\ reply' = None
  /\ UNCHANGED <<now, authVars, conn, started, messageVars, cancelVars>>

\* Mutant of SelectLimiter: cancels count as messages.
SelectOneLimiter(type) ==
  IF type \in {"ping", "pong", "end"} THEN "none" ELSE "messages"

SelectLimiter(type) ==
  CASE type = "cancel" -> "cancels"
    [] type \in {"ping", "pong", "end"} -> "none"
    [] OTHER -> "messages"

(* consume_limiter, for a frame that is let through. *)
Counted(type) ==
  \/ SelectLimiter(type) = "messages" /\ Messages!Accept /\ UNCHANGED cancelVars
  \/ SelectLimiter(type) = "cancels" /\ Cancels!Accept /\ UNCHANGED messageVars
  \/ SelectLimiter(type) = "none" /\ UNCHANGED <<now, messageVars, cancelVars>>

\* The error is sent and the frame skipped; the connection stays.
Limited ==
  LET parsed == Parse(inbox)
  IN /\ inbox # None /\ parsed.ok
     /\ \/ SelectLimiter(parsed.type) = "messages" /\ Messages!Refuse /\ UNCHANGED cancelVars
        \/ SelectLimiter(parsed.type) = "cancels" /\ Cancels!Refuse /\ UNCHANGED messageVars
     /\ inbox' = None /\ reply' = "rate_limited"
     /\ UNCHANGED <<authVars, conn, started>>

\* _parse_incoming answers before any limiter is asked.
Malformed ==
  /\ inbox # None /\ ~Parse(inbox).ok
  /\ inbox' = None /\ reply' = Parse(inbox).code
  /\ UNCHANGED <<now, authVars, conn, started, messageVars, cancelVars>>

\* bootstrap_start_turn: wrong settings close the connection.
Starting(fields) ==
  LET inputs == StartInputs(fields)
  IN IF started THEN reply' = "invalid_message" /\ UNCHANGED <<conn, started>>
     ELSE IF inputs.ok
       THEN started' = TRUE /\ reply' = None /\ UNCHANGED conn
     ELSE conn' = "closed" /\ reply' = StartErrorCode(inputs.code) /\ UNCHANGED started

\* plan_message_turn: without a text the message is refused, wrong overrides also close.
Turning(fields) ==
  LET sampling == SamplingOverrides(fields)
      text == Get(fields, "user_utterance")
  IN IF ~started THEN reply' = "invalid_message" /\ UNCHANGED conn
     ELSE IF text \in {None, "empty", "blank"} THEN reply' = "invalid_payload" /\ UNCHANGED conn
     ELSE IF ~sampling.ok THEN conn' = "closed" /\ reply' = "invalid_payload"
     ELSE reply' = None /\ UNCHANGED conn

\* A cancel starts the connection, whatever came before.
Handle(type, fields) ==
  CASE type = "start" -> Starting(fields)
    [] type = "message" -> Turning(fields) /\ UNCHANGED started
    [] type = "cancel" -> started' = TRUE /\ reply' = None /\ UNCHANGED conn
    [] type \in {"ping", "pong"} -> reply' = None /\ UNCHANGED <<conn, started>>
    [] type = "end" -> conn' = "closed" /\ reply' = None /\ UNCHANGED started

Dispatch ==
  LET parsed == Parse(inbox)
  IN /\ inbox # None /\ parsed.ok
     /\ Counted(parsed.type)
     /\ Handle(parsed.type, parsed.fields)
     /\ inbox' = None
     /\ UNCHANGED authVars

Tick ==
  /\ now < MaxTime /\ inbox = None /\ now' = now + 1
  /\ messageRefusal' = 0 /\ cancelRefusal' = 0
  /\ UNCHANGED <<authVars, conn, started, messages, messageLog, cancels, cancelLog, frameVars>>

Next == Attempt \/ Receive \/ Limited \/ Malformed \/ Dispatch \/ Tick

Spec == Init /\ [][Next]_vars

-----------------------------------------------------------------------------
(* Properties *)

TypeOK ==
  /\ now \in 0..MaxTime /\ conn \in {"none", "open", "closed"} /\ started \in BOOLEAN
  /\ \A h \in Hosts : Len(failures[h]) <= Len(failed[h])
  /\ Messages!RateTypeOK /\ Cancels!RateTypeOK
  /\ conn = "none" => inbox = None

(* "Failed auth attempts are throttled per client host using the same shared *)
(* window" (ADVANCED.md, line 413): a host is turned away exactly while       *)
(* MaxFailures of its own failures since its last success are younger than a  *)
(* window, whatever the pruned deques hold.                                  *)
ThrottleMatchesFailures ==
  \A h \in Hosts :
    Throttled(h) <=> Cardinality({n \in DOMAIN failed[h] : failed[h][n] + Window > now}) >= MaxFailures

(* "Rolling-window quotas" for messages and for cancels (ADVANCED.md, line   *)
(* 412): whatever a client sends and when, no window holds more frames that   *)
(* went through than the limit, and the time a refused one is told to wait is *)
(* exactly when the next may come (handlers/limits.py:47-71).                 *)
LimitsHold ==
  /\ Messages!WindowNeverExceeded /\ Cancels!WindowNeverExceeded
  /\ Messages!RefusalIsExact /\ Cancels!RefusalIsExact

(* "Separate bucket to prevent cancel bursts starving messages"              *)
(* (handlers/websocket/limits.py, line 7), and the other way round: a cancel  *)
(* is limited only by cancels that went through within the window.            *)
CancelsAreNotStarved ==
  [][reply' = "rate_limited" /\ reply # "rate_limited" /\ inbox.type = "cancel" =>
       /\ Len(cancelLog) >= CancelLimit
       /\ cancelLog[Len(cancelLog) - CancelLimit + 1] + Window > now]_vars

\* A number a client may write for a parameter.
Means(name, v) ==
  /\ v.kind \in {"int", "float", "int text", "float text"}
  /\ v.num # NaN
  /\ v.num \in Bounds[name][1]..Bounds[name][2]
  /\ name = "top_k" => v.num % 100 = 0 /\ v.kind # "float text"

\* What an engine generates with: what TensorRT-LLM is not told it has disabled.
Used(params, name) ==
  IF name \in DOMAIN params THEN params[name] ELSE IF name = "repetition_penalty" THEN 100 ELSE 0

(* Either engine generates with the numbers the client wrote, within the     *)
(* bounds of their parameters and an integer where one is asked for, a value *)
(* in the block before one next to it, and with the server's own numbers     *)
(* otherwise; min_p is lost on TensorRT-LLM. Nothing is taken from a frame   *)
(* with a wrong value (messages/sampling.py, engines/sampling.py).           *)
OverridesMeanWhatWasSent ==
  inbox # None /\ Parse(inbox).ok /\ DeployChat =>
    LET fields == Parse(inbox).fields
        overrides == SamplingOverrides(fields)
        Written(name) == {b \in {"sampling", "sampling_params"} :
                            Get(fields, b) # None /\ name \in DOMAIN fields[b] /\ fields[b][name] # None}
        Sent(name) ==
          IF "sampling" \in Written(name) THEN fields["sampling"][name]
          ELSE IF "sampling_params" \in Written(name) /\ (Get(fields, "sampling") = None \/ DOMAIN fields["sampling"] = {})
            THEN fields["sampling_params"][name]
          ELSE Get(fields, name)
    IN /\ overrides.ok =>
            \A name \in SamplingNames :
              /\ Sent(name) # None => Means(name, Sent(name))
              /\ \A engine \in {"vllm", "trt"} :
                   ~(name = "min_p" /\ engine = "trt") =>
                     Used(EngineParams(engine, overrides.overrides), name) =
                       IF Sent(name) = None THEN DefaultSampling[name] ELSE Sent(name).num
       /\ ~overrides.ok =>
            \E name \in SamplingNames \cup {"sanitize_output"} :
              Sent(name) # None /\ (name = "sanitize_output" \/ ~Means(name, Sent(name)))
=============================================================================
