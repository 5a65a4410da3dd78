------------------------------ MODULE MCGateway ------------------------------
(* Gateway for TLC: the frames of a small client. *)
EXTENDS Gateway, TLC

\* A frame with the given fields, otherwise well-formed.
FrameOf(type, fields) ==
  [size |-> "small", form |-> "object", type |-> type, version |-> ProtocolVersion,
   fields |-> fields]

Good == [gender |-> " Female ", personality |-> " Savage ", chat_prompt |-> "be kind"]
Text == [user_utterance |-> "hello"]

MalformedFrames ==
  {[FrameOf("ping", None :> None) EXCEPT !.size = "oversize"],
   [FrameOf("ping", None :> None) EXCEPT !.form = "array"],
   FrameOf("start", Good @@ ("history" :> <<"user", "system">>)), FrameOf("start", "history" :> None),
   FrameOf("cancel", "user_utterance" :> "hello"),
   [FrameOf("message", Text) EXCEPT !.version = 2]}

Values ==
  {Number("int", 100), Number("int", 7000), Number("bool", 100), Number("float", 70), Number("float", NaN),
   Number("int text", 100), Number("float text", 110), Number("word", None)}

Empty == [f \in {} |-> None]

SamplingFrames ==
  {FrameOf("message", Text @@ ("sampling" :> (name :> v))) : name \in {"temperature", "top_k"}, v \in Values}
  \cup {FrameOf("message", Text @@ ("top_p" :> Number("float", 90)) @@ (block :> ("top_p" :> v))) :
          block \in {"sampling", "sampling_params"}, v \in {Number("int", 100), Number("float", 50), None}}
  \cup {FrameOf("message", Text @@ ("sampling" :> (penalty :> Number("float", n)))) :
          penalty \in {"presence_penalty", "repetition_penalty"}, n \in {0, 100}}
  \cup {FrameOf("message", Text @@ ("sampling" :> Empty) @@ ("sampling_params" :> ("min_p" :> Number("int", 0)))),
         FrameOf("message", Text @@ ("sanitize_output" :> Number("bool", TRUE))),
         FrameOf("message", Text @@ ("sanitize_output" :> Number("int", 1)))}

StartFrames ==
  {FrameOf(" START ", Good), FrameOf("start", [Good EXCEPT !.gender = "other"]),
   FrameOf("start", [Good EXCEPT !.personality = "two words"]),
   FrameOf("start", [Good EXCEPT !.chat_prompt = "controls"]),
   FrameOf("start", Good @@ ("check_screen_prefix" :> "long"))}

ClientFrames ==
  MalformedFrames \cup SamplingFrames \cup StartFrames
  \cup {FrameOf(type, Empty) : type \in {"cancel", "ping", "pong", "end", "message"}}
=============================================================================
