------------------------------ MODULE Artifact -------------------------------
(* A quantized chat model comes to be: the launch script looks at its         *)
(* directory, the quantizer fetches and compresses the source and writes the  *)
(* directory file by file, the result is uploaded, and any of it may fail or  *)
(* be killed and be launched again over what is left on the disk              *)
(* (quantization/vllm, hf/vllm).  A file that is being written, or was cut    *)
(* off, is there and cannot be read: its payload is NULL.                     *)
EXTENDS EngineArgs

CONSTANTS
  Sources,     \* the models a launch may name
  Jobs,        \* the settings a launch may have
  MaxLaunches  \* bound: launches in a behaviour

VARIABLES
  disk,      \* file of the output directory -> payload
  build,     \* the running job
  hub,       \* was what was uploaded last "whole" or "cut", NULL before
  launches   \* launches so far, for the bound

artifactVars == <<disk, build, hub, launches>>

OutDir == "chat_awq"

\* The output directory as a model.
Artifact == [name |-> OutDir, kind |-> "dir", listed |-> {}, files |-> disk]

-----------------------------------------------------------------------------
(* Calibration.                                                              *)

DefaultDataset == "open_platypus"

CanonicalDataset(name) ==
  IF name \in {"", "openplatypus"} THEN DefaultDataset
  ELSE IF name \in {"wikitext2", "wiki_text"} THEN "wikitext" ELSE name

DatasetFallback(name) == IF name \in {"pileval", "pile_val", "pile"} THEN DefaultDataset ELSE NULL

MoeSamplesLimit == 32

\* The configuration counts first, then the name.
IsMoe(source) ==
  \/ source.config # NULL /\ (source.config.experts > 1 \/ source.config.moe)
  \/ {"moe", "mixtral", "-a3b"} \cap Marks(source) # {}

Samples(source, job) == IF IsMoe(source) THEN Min({job.samples, MoeSamplesLimit}) ELSE job.samples

\* The lengths the environment gives replace the default, also one without the other.
TotalLength(job) ==
  LET given == {name \in {"CHAT_MAX_LEN", "CHAT_MAX_OUT"} : name \in DOMAIN job.lengths}
      total == MapThenSumSet(LAMBDA name : Max({job.lengths[name], 0}), given)
  IN IF total > 0 THEN total ELSE job.total

SequenceLength(source, job) ==
  LET requested == Max({job.length, 1, TotalLength(job)}) IN
  IF source.config = NULL \/ source.config.positions = NULL THEN requested
  ELSE Min({requested, source.config.positions})

-----------------------------------------------------------------------------
(* The files, in the order in which they are written: compressed-tensors      *)
(* saves the model and then the tokenizer, the quantizer adds the rest.       *)

\* Mutant of FileOrder: the metadata is written before the model is saved.
FileOrderMetadataFirst == <<"awq_metadata.json", "config.json", "model.safetensors", "tokenizer.json", ".awq_ok">>

FileOrder == <<"config.json", "model.safetensors", "tokenizer.json", "awq_metadata.json", ".awq_ok">>

SavedByLibrary == {"config.json", "model.safetensors", "tokenizer.json"}

Payload(text) == [text |-> text, nested |-> <<>>]

Content(file) ==
  IF file = "config.json"
  THEN [text |-> [model_type |-> "chat"],
        nested |-> [quantization_config |-> Payload([quant_method |-> "compressed-tensors", scale_dtype |-> "fp16"])]]
  ELSE IF file = "awq_metadata.json"
  THEN Payload([source_model |-> build.source.name, dataset |-> build.dataset,
                num_calibration_samples |-> Samples(build.source, build.job),
                max_seq_length |-> SequenceLength(build.source, build.job)])
  ELSE Payload([body |-> "text"])

\* The directory with one file written or rewritten.
With(file, payload) == [f \in DOMAIN disk \cup {file} |-> IF f = file THEN payload ELSE disk[f]]

Has(file) == file \in DOMAIN disk
Whole(file) == Has(file) /\ disk[file] # NULL

\* awq_chat_cache_ready
CacheReady == Has(".awq_ok") \/ Has("awq_metadata.json") \/ Has("awq_config.json")

\* is_awq_dir
IsAwqDir == Has("config.json") /\ Has("model.safetensors")

-----------------------------------------------------------------------------

NoBuild == [at |-> "idle", source |-> NULL, job |-> NULL, tries |-> 0, dataset |-> NULL, fellBack |-> FALSE, file |-> 0]

Init ==
  /\ disk = <<>>
  /\ build = NoBuild
  /\ hub = NULL
  /\ launches = 0

Goes(to) == build' = [build EXCEPT !.at = to]
Ends(to) == build' = [NoBuild EXCEPT !.at = to]

DownloadMaxRetries == 3

\* No job is running.
Idle == {"idle", "ready", "failed", "refused"}

\* AWQQuantizer.quantize_model, up to its first step that can fail.
QuantizeModel(source) ==
  IF IsToolModel(source) THEN "refused"
  ELSE IF IsAwqDir THEN "found"
  ELSE IF "/" \in Marks(source) THEN "fetching" ELSE "loading"

\* A source that is quantized already is served as it is.  A tool model is
\* refused, and every local path counts as one.
Launch(source, job) ==
  /\ build.at \in Idle
  /\ launches < MaxLaunches
  /\ ClassifyPrequantized(source) # "awq"
  /\ launches' = launches + 1
  /\ build' = [NoBuild EXCEPT !.source = source, !.job = job, !.dataset = CanonicalDataset(job.dataset),
                 !.at = IF IsGptqName(source) THEN "failed"
                        ELSE IF CacheReady THEN "found" ELSE QuantizeModel(source)]
  /\ UNCHANGED <<disk, hub>>

Fetch(ok) ==
  /\ build.at = "fetching"
  /\ IF ok THEN Goes("loading")
     ELSE IF build.tries + 1 = DownloadMaxRetries THEN Ends("failed")
     ELSE build' = [build EXCEPT !.tries = @ + 1]
  /\ UNCHANGED <<disk, hub, launches>>

Load(ok) ==
  /\ build.at = "loading"
  /\ IF ok THEN Goes("calibrating") ELSE Ends("failed")
  /\ UNCHANGED <<disk, hub, launches>>

\* A dataset the library does not know is replaced once.
Calibrate(outcome) ==
  LET fallback == DatasetFallback(build.dataset)
      again == outcome = "unregistered" /\ fallback # NULL /\ fallback # build.dataset /\ ~build.fellBack
  IN
  /\ build.at = "calibrating"
  /\ IF outcome = "done" THEN build' = [build EXCEPT !.at = "saving", !.file = 1]
     ELSE IF again THEN build' = [build EXCEPT !.dataset = fallback, !.fellBack = TRUE]
     ELSE Ends("failed")
  /\ UNCHANGED <<disk, hub, launches>>

File == FileOrder[build.file]

\* A failure of the library fails the job; the quantizer's own files may be lost.
NextFile(ok) ==
  IF ~ok /\ File \in SavedByLibrary THEN Ends("failed")
  ELSE IF build.file = Len(FileOrder) THEN Goes("found")
  ELSE build' = [build EXCEPT !.at = "saving", !.file = @ + 1]

OpenFile(ok) ==
  /\ build.at = "saving"
  /\ disk' = IF ok THEN With(File, NULL) ELSE disk
  /\ IF ok THEN Goes("writing") ELSE NextFile(FALSE)
  /\ UNCHANGED <<hub, launches>>

CloseFile(ok) ==
  /\ build.at = "writing"
  /\ disk' = IF ok THEN With(File, Content(File)) ELSE disk
  /\ NextFile(ok)
  /\ UNCHANGED <<hub, launches>>

\* classify_prequantized_source of the source the metadata names.
PushRefused ==
  /\ Whole("awq_metadata.json")
  /\ LET marks == NameMarks[disk["awq_metadata.json"].text.source_model] IN
     "/" \in marks /\ {"awq", "w4a16", "compressed-tensors", "autoround", "gptq"} \cap marks # {}

\* The upload is optional and its failure is not the job's.
Push(ok) ==
  /\ build.at = "found"
  /\ IF build.job.push /\ ~PushRefused
     THEN hub' = IF ~ok THEN hub ELSE IF \A file \in SavedByLibrary : Whole(file) THEN "whole" ELSE "cut"
     ELSE UNCHANGED hub
  /\ Ends("ready")
  /\ UNCHANGED <<disk, launches>>

Crash ==
  /\ build.at \notin Idle
  /\ build' = NoBuild
  /\ UNCHANGED <<disk, hub, launches>>

Next ==
  \/ \E source \in Sources, job \in Jobs: Launch(source, job)
  \/ \E ok \in BOOLEAN: Fetch(ok) \/ Load(ok) \/ OpenFile(ok) \/ CloseFile(ok) \/ Push(ok)
  \/ \E outcome \in {"done", "unregistered", "error"}: Calibrate(outcome)
  \/ Crash

-----------------------------------------------------------------------------

\* A directory that the launch script takes for finished holds the model, its
\* configuration and its tokenizer, each whole, whatever was killed before
\* (awq.sh:7-14 against the order of quantizer, llmcompressor.py:241 and
\* metadata.py:61-84).
MarkerMeansWhole == CacheReady => \A file \in SavedByLibrary : Whole(file)

\* tokens/validation.py:32-33 tells whoever has a quantized directory without a
\* tokenizer: "Re-run quantization to regenerate the tokenizer files."
RerunRegeneratesTokenizer == build.at = "ready" => Whole("tokenizer.json")

\* quantize.py:22 takes the "HF repo id or local path of the float model to
\* quantize": only a tool model is refused as one.
OnlyToolModelsAreRefused == build.at = "refused" => "tool" \in build.source.listed
=============================================================================
