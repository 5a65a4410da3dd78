------------------------------- MODULE EngineHub -------------------------------
(* A TensorRT-LLM engine comes to be: the launch script looks in the model's  *)
(* repository for an engine of this machine's label, downloads it or builds   *)
(* one, records what it was built for, and publishes it for other machines    *)
(* (scripts/lib/trt/pipeline.sh, scripts/trt, hf/trt, quantization/trt).  The *)
(* disk is a volume that moves from machine to machine, the repository is     *)
(* shared, every request to it may fail, and the script may be killed.        *)
EXTENDS Naturals

CONSTANTS
  Machines,  \* a machine stands for its label: architecture, TensorRT-LLM and CUDA
  MaxRuns,   \* bound: runs of the pipeline in a behaviour
  NULL

VARIABLES
  machine,    \* the machine the volume is on
  runs,       \* runs so far, for the bound
  local,      \* model -> the engine directory built for it
  checkpoint, \* is there a checkpoint of the float model
  fetched,    \* machine -> the directory its engine was downloaded to
  repo,       \* the repository
  pipe        \* the running script

hubVars == <<machine, runs, local, checkpoint, fetched, repo, pipe>>

\* The source to quantize, and the repository whose checkpoint is quantized.
Models == {"float", "prequant"}
Pushes == {"no", "engine", "full"}

\* An engine directory: the machine the rank files were built on and the one
\* build_metadata.json names.
NoDir == [rank |-> NULL, metadata |-> NULL]

\* What a copy of one directory onto another leaves: nothing is deleted.
Onto(new, old) ==
  [rank |-> IF new.rank = NULL THEN old.rank ELSE new.rank,
   metadata |-> IF new.metadata = NULL THEN old.metadata ELSE new.metadata]

NoRepo == [exists |-> FALSE, readme |-> NULL, checkpoint |-> FALSE, engines |-> [m \in Machines |-> NoDir], tokenizer |-> FALSE]

NoPipe == [at |-> "idle", model |-> NULL, push |-> "no", found |-> FALSE, engine |-> NoDir]

Init ==
  /\ machine \in Machines
  /\ runs = 0
  /\ local = [model \in Models |-> NoDir]
  /\ checkpoint = FALSE
  /\ fetched = [m \in Machines |-> NoDir]
  /\ repo = NoRepo
  /\ pipe = NoPipe

At(step) == pipe.at = step
Goes(step) == pipe' = [pipe EXCEPT !.at = step]
Ends(step) == pipe' = [NoPipe EXCEPT !.at = step, !.found = pipe.found, !.engine = pipe.engine]
Waiting == pipe.at \in {"idle", "ready", "failed"}

-----------------------------------------------------------------------------
(* Looking for an engine, and building one.                                  *)

Start(model, push) ==
  /\ Waiting
  /\ runs < MaxRuns
  /\ runs' = runs + 1
  /\ pipe' = [NoPipe EXCEPT !.model = model, !.push = push, !.at = IF model = "prequant" THEN "looking" ELSE "checkpoint"]
  /\ UNCHANGED <<machine, local, checkpoint, fetched, repo>>

\* list_remote_engines: the labels, and none when the listing fails.
RemoteEngines(ok) == IF ok THEN {m \in Machines : repo.engines[m] # NoDir} ELSE {}

\* Mutant of Compatible: any engine will do.
AnyEngine(labels) == labels

\* engine_matches_system
Compatible(labels) == labels \cap {machine}

Look(ok) ==
  /\ At("looking")
  /\ IF Compatible(RemoteEngines(ok)) # {} THEN Goes("downloading") ELSE Goes("checkpoint")
  /\ UNCHANGED <<machine, runs, local, checkpoint, fetched, repo>>

\* download_prebuilt_engine; what it does not bring is built.
Download(label, ok) ==
  LET dir == Onto(repo.engines[label], fetched[label]) IN
  /\ At("downloading")
  /\ label \in Compatible(RemoteEngines(TRUE))
  /\ fetched' = IF ok THEN [fetched EXCEPT ![label] = dir] ELSE fetched
  /\ pipe' = [pipe EXCEPT !.at = "checkpoint", !.found = ok /\ dir.rank # NULL,
                          !.engine = IF ok /\ dir.rank # NULL THEN dir ELSE NoDir]
  /\ UNCHANGED <<machine, runs, local, checkpoint, repo>>

\* A repository's checkpoint is downloaded, a local one is used again.
PrepareCheckpoint(ok) ==
  /\ At("checkpoint")
  /\ IF pipe.model = "prequant"
     THEN /\ IF ok /\ repo.checkpoint THEN Goes("engine") ELSE Ends("failed")
          /\ UNCHANGED checkpoint
     ELSE /\ IF checkpoint \/ ok THEN Goes("engine") ELSE Ends("failed")
          /\ checkpoint' = (checkpoint \/ ok)
  /\ UNCHANGED <<machine, runs, local, fetched, repo>>

\* A downloaded engine is used; a local one is used whatever it was built for.
PrepareEngine(ok) ==
  LET dir == local[pipe.model] IN
  /\ At("engine")
  /\ IF pipe.found
     THEN Goes("pushing") /\ UNCHANGED local
     ELSE IF dir.rank # NULL
     THEN pipe' = [pipe EXCEPT !.at = "pushing", !.engine = dir] /\ UNCHANGED local
     ELSE IF ok
     THEN Goes("recording") /\ local' = [local EXCEPT ![pipe.model].rank = machine]
     ELSE Ends("failed") /\ UNCHANGED local
  /\ UNCHANGED <<machine, runs, checkpoint, fetched, repo>>

\* record_build_metadata; the build goes on without what it could not find out.
Record(ok) ==
  LET dir == [local[pipe.model] EXCEPT !.metadata = IF ok THEN machine ELSE @] IN
  /\ At("recording")
  /\ local' = [local EXCEPT ![pipe.model] = dir]
  /\ pipe' = [pipe EXCEPT !.at = "pushing", !.engine = dir]
  /\ UNCHANGED <<machine, runs, checkpoint, fetched, repo>>

-----------------------------------------------------------------------------
(* Publishing.  known: does the environment tell the machine's versions.      *)

\* EnvironmentInfo.from_env and make_label; NULL is the error it raises.
EnvLabel(known) == IF known THEN machine ELSE NULL

\* Mutant of EngineLabel: the environment counts first.
EngineLabelOfMachine(dir, known) == IF known THEN machine ELSE dir.metadata

\* get_engine_label: what the build recorded counts first.
EngineLabel(dir, known) == IF dir.metadata # NULL THEN dir.metadata ELSE EnvLabel(known)

\* The model card: what the environment tells, replaced by what the build recorded.
EnvCard(known) == [label |-> EnvLabel(known), sm |-> EnvLabel(known)]
WithBuild(card, dir) == IF dir.metadata = NULL THEN card ELSE [card EXCEPT !.sm = dir.metadata]
CardOf(dir, known) == WithBuild([EnvCard(known) EXCEPT !.label = EngineLabel(dir, known)], dir)

Published(dir, label) == [repo EXCEPT !.engines[label] = Onto(dir, @)]

There(created) == repo.exists \/ created

\* push-engine: to a repository that is there, and only what was built here.
PushEngine(known, ok) ==
  LET label == EngineLabel(pipe.engine, known) IN
  /\ At("pushing")
  /\ pipe.push = "engine"
  /\ IF pipe.found \/ pipe.model = "float"
     THEN Ends("ready") /\ UNCHANGED repo
     ELSE IF label = NULL \/ ~repo.exists \/ ~ok
     THEN Ends("failed") /\ UNCHANGED repo
     ELSE Ends("ready") /\ repo' = Published(pipe.engine, label)
  /\ UNCHANGED <<machine, runs, local, checkpoint, fetched>>

PushNothing ==
  /\ At("pushing")
  /\ pipe.push = "no"
  /\ Ends("ready")
  /\ UNCHANGED <<machine, runs, local, checkpoint, fetched, repo>>

\* TRTPushJob.run begins: what cannot be labelled is not pushed, a repository
\* that cannot be created is noticed later.
PushCard(known, created, ok) ==
  LET there == There(created) IN
  /\ At("pushing")
  /\ pipe.push = "full"
  /\ IF ~known
     THEN Ends("failed") /\ UNCHANGED repo
     ELSE /\ Goes("pushing checkpoint")
          /\ repo' = [repo EXCEPT !.exists = there, !.readme = IF there /\ ok THEN CardOf(pipe.engine, known) ELSE @]
  /\ UNCHANGED <<machine, runs, local, checkpoint, fetched>>

\* Only the checkpoint's failure is an error.
PushCheckpoint(ok) ==
  /\ At("pushing checkpoint")
  /\ IF ok /\ repo.exists
     THEN Goes("pushing engine") /\ repo' = [repo EXCEPT !.checkpoint = TRUE]
     ELSE Ends("failed") /\ UNCHANGED repo
  /\ UNCHANGED <<machine, runs, local, checkpoint, fetched>>

\* An engine that is not uploaded is reported, and the push goes on.
UploadEngine(ok) ==
  /\ At("pushing engine")
  /\ Goes("pushing tokenizer")
  /\ repo' = IF ok THEN Published(pipe.engine, EngineLabel(pipe.engine, TRUE)) ELSE repo
  /\ UNCHANGED <<machine, runs, local, checkpoint, fetched>>

\* The tokenizer is looked for beside the checkpoint, then at the base model.
TokenizerDir(beside, reached) == IF beside THEN "beside" ELSE IF reached THEN "base" ELSE NULL

\* Each of its files and of the chat template's may be missed.
UploadTokenizer(beside, reached, ok) ==
  /\ At("pushing tokenizer")
  /\ Ends("ready")
  /\ repo' = [repo EXCEPT !.tokenizer = @ \/ (ok /\ TokenizerDir(beside, reached) # NULL)]
  /\ UNCHANGED <<machine, runs, local, checkpoint, fetched>>

Crash ==
  /\ ~Waiting
  /\ pipe' = NoPipe
  /\ UNCHANGED <<machine, runs, local, checkpoint, fetched, repo>>

\* The volume is attached to another machine, or this one is upgraded.  Bound:
\* only between two runs.
Move(to) ==
  /\ Waiting
  /\ runs \in 1..(MaxRuns - 1)
  /\ to # machine
  /\ machine' = to
  /\ pipe' = NoPipe
  /\ UNCHANGED <<runs, local, checkpoint, fetched, repo>>

Next ==
  \/ \E model \in Models, push \in Pushes: Start(model, push)
  \/ \E ok \in BOOLEAN:
       \/ Look(ok) \/ PrepareCheckpoint(ok) \/ PrepareEngine(ok) \/ Record(ok)
       \/ PushCheckpoint(ok) \/ UploadEngine(ok)
       \/ \E label \in Machines: Download(label, ok)
       \/ \E known \in BOOLEAN: PushEngine(known, ok) \/ \E created \in BOOLEAN: PushCard(known, created, ok)
       \/ \E beside, reached \in BOOLEAN: UploadTokenizer(beside, reached, ok)
  \/ PushNothing
  \/ Crash
  \/ \E to \in Machines: Move(to)

Spec == Init /\ [][Next]_hubVars

-----------------------------------------------------------------------------

Dirs == [rank: Machines \cup {NULL}, metadata: Machines \cup {NULL}]

Steps == {"looking", "downloading", "checkpoint", "engine", "recording", "pushing", "pushing checkpoint",
          "pushing engine", "pushing tokenizer"}

Ats == Steps \cup {"idle", "ready", "failed"}
Cards == [label: Machines \cup {NULL}, sm: Machines \cup {NULL}]
Repos == [exists: BOOLEAN, readme: {NULL} \cup Cards, checkpoint: BOOLEAN, engines: [Machines -> Dirs], tokenizer: BOOLEAN]
Pipes == [at: Ats, model: Models \cup {NULL}, push: Pushes, found: BOOLEAN, engine: Dirs]

TypeOK ==
  /\ machine \in Machines
  /\ runs \in Nat
  /\ local \in [Models -> Dirs]
  /\ checkpoint \in BOOLEAN
  /\ fetched \in [Machines -> Dirs]
  /\ repo \in Repos
  /\ pipe \in Pipes

\* No build lost its record.
EveryBuildIsRecorded == \A model \in Models : local[model].metadata = local[model].rank

\* An engine that was downloaded runs on the machine it was downloaded to, as
\* long as no build lost its record: whoever built and published it, on
\* whichever machine the volume was by then (label.py:38-50 against hf.sh:103).
PrebuiltEngineFits == EveryBuildIsRecorded /\ pipe.found => pipe.engine.rank = machine
=============================================================================
