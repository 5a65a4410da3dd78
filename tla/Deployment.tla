------------------------------ MODULE Deployment -----------------------------
(* From a source model to a server: the quantization of Artifact, launched    *)
(* as often as it takes, or the TensorRT-LLM engines of EngineHub, and the    *)
(* process of Startup, which may be started from the directory the            *)
(* quantization left, from the engine that was found, or from another model.  *)
EXTENDS EngineArgs

CONSTANTS Sources, Jobs, MaxLaunches, LogTexts, MaxLogWrites, Envs, Hosts, ErrorClasses, Machines, MaxRuns, EngineBatch

VARIABLES
  disk, build, hub, launches,
  machine, runs, local, checkpoint, fetched, repo, pipe,
  phase, env, host, parts, fault, args, telemetry, captured, heard, told, daemon,
  configured, quiet, chain, buffers, io, libc, window, drained, writes

Quantizer == INSTANCE Artifact
Engines == INSTANCE EngineHub
Server == INSTANCE Startup

\* Only the launch script names the directory of the quantizer; texts are sequences of words.
ASSUME DeploymentConstants ==
  /\ NULL \notin Machines \cup Server!Parts \cup ErrorClasses
  /\ \A part \in Server!Parts : part \notin ErrorClasses
  /\ \A source \in Sources : source.name # NULL
  /\ \A e \in Envs :
       /\ {"deploy", "engine", "chatModel", "numbers"} \subseteq DOMAIN e
       /\ e.chatModel = NULL \/ e.chatModel.name # Quantizer!OutDir
       /\ \A name \in DOMAIN e.numbers : e.numbers[name] \in Int
  /\ \A h \in Hosts :
       {"total", "free"} \subseteq DOMAIN h /\ h.total \in Nat /\ h.free \in Nat
  /\ \A words \in LogTexts : words \in Seq(STRING)

artifactVars == <<disk, build, hub, launches>>
hubVars == <<machine, runs, local, checkpoint, fetched, repo, pipe>>
serverVars == <<phase, env, host, parts, fault, args, telemetry, captured, heard, told, daemon,
                configured, quiet, chain, buffers, io, libc, window, drained, writes>>
vars == <<artifactVars, hubVars, serverVars>>

Init == Quantizer!Init /\ Engines!Init /\ Server!Init

Quantize ==
  /\ phase = "down" /\ runs = 0
  /\ Quantizer!Next
  /\ UNCHANGED <<hubVars, serverVars>>

PrepareEngines ==
  /\ phase = "down" /\ launches = 0
  /\ Engines!Next
  /\ UNCHANGED <<artifactVars, serverVars>>

BootAny ==
  /\ launches = 0 /\ runs = 0
  /\ \E e \in Envs, h \in Hosts: Server!Boot(e, h)
  /\ UNCHANGED <<artifactVars, hubVars>>

\* After a quantization the launch script exports its directory and its method.
BootQuantized ==
  /\ build.at = "ready"
  /\ \E e \in Envs, h \in Hosts:
       /\ DeployChat(e) /\ Engine(e) = "vllm"
       /\ Server!Boot([e EXCEPT !.chatModel = Quantizer!Artifact, !.quantization = "awq"], h)
  /\ UNCHANGED <<artifactVars, hubVars>>

\* After the engine pipeline it exports the engine it found or built, with the
\* batch size of the build, if that was recorded, and always in the engine itself.
BootEngine ==
  /\ pipe.at = "ready"
  /\ \E e \in Envs, h \in Hosts:
       /\ DeployChat(e) /\ Engine(e) = "trt"
       /\ Server!Boot(e, [h EXCEPT !.trt = [metadata |-> IF pipe.engine.metadata = NULL THEN NULL ELSE EngineBatch,
                                            config |-> EngineBatch]])
  /\ UNCHANGED <<artifactVars, hubVars>>

\* Reading the configuration of an AWQ directory rewrites it.
BuildVllm(ok) ==
  /\ Server!BuildVllm(ok)
  /\ disk' = IF env.chatModel # NULL /\ env.chatModel.name = Quantizer!OutDir THEN Sanitized(env.chatModel).files ELSE disk
  /\ UNCHANGED <<build, hub, launches, hubVars>>

ServerRuns == Server!Runs /\ UNCHANGED <<artifactVars, hubVars>>

Next == Quantize \/ PrepareEngines \/ BootAny \/ BootQuantized \/ BootEngine \/ ServerRuns \/ \E ok \in BOOLEAN: BuildVllm(ok)

Spec == Init /\ [][Next]_vars

-----------------------------------------------------------------------------

MarkerMeansWhole == Quantizer!MarkerMeansWhole
RerunRegeneratesTokenizer == Quantizer!RerunRegeneratesTokenizer
OnlyToolModelsAreRefused == Quantizer!OnlyToolModelsAreRefused
PrebuiltEngineFits == Engines!PrebuiltEngineFits
EngineFailureIsSeen == Server!EngineFailureIsSeen
ShutdownIsComplete == Server!ShutdownIsComplete
ImplementsOneFilter == Server!Log!ImplementsOneFilter
WindowIsExact == Server!Log!WindowIsExact

\* A quantized directory is served as the model it was made from, as long as its
\* metadata can be read: whatever the environment asks for and however little
\* memory is free, the profile's floor, type and memory cap hold (metadata.py:42,
\* args.py:87-104 and 246-254, memory.py).
ServedKeepsItsProfile ==
  args.chat # NULL /\ env.chatModel.name = Quantizer!OutDir /\ Quantizer!Whole("awq_metadata.json") =>
    LET source == disk["awq_metadata.json"].text.source_model
        traits == Traits(source) IN
    /\ traits.tokens # 0 => args.chat.tokens >= traits.tokens
    /\ traits.bfloat16 => args.chat.dtype = "bfloat16"
    /\ traits.mla \/ traits.fla => args.chat.attention = NULL
    /\ traits.memory => args.chat.utilization <= MemoryOptCap
=============================================================================
