---------------------------- MODULE EngineHubProofs ---------------------------
(* What is downloaded was built for this machine, for any set of machines and *)
(* any number of runs of the pipeline.                                        *)
EXTENDS EngineHub, TLAPS

-----------------------------------------------------------------------------

\* A build whose record may still be written.
Building(model) == pipe.at = "recording" /\ pipe.model = model

Alike(dir) == dir.metadata = dir.rank

Lossless == \A model \in Models : Alike(local[model]) \/ Building(model)

\* What stands at a label was built on it.
Honest(engines) == \A m \in Machines : Alike(engines[m]) /\ engines[m].rank \in {NULL, m}

Pushing == {"pushing", "pushing checkpoint", "pushing engine", "pushing tokenizer"}

\* Where the script is says which engine it has.
PipeInv ==
  /\ pipe.at \in Steps => pipe.model \in Models
  /\ pipe.at = "recording" => local[pipe.model].rank = machine
  /\ pipe.found \/ pipe.at \in Pushing => pipe.engine.rank # NULL

\* A record is written where there is an engine.
LocalInv == \A model \in Models : local[model].rank = NULL => local[model].metadata = NULL

FitInv ==
  /\ Honest(repo.engines)
  /\ Honest(fetched)
  /\ Alike(pipe.engine)
  /\ pipe.found => pipe.engine.rank = machine

IInv == TypeOK /\ PipeInv /\ LocalInv /\ (Lossless => FitInv)

-----------------------------------------------------------------------------
(* Types.                                                                    *)

LEMMA OntoType ==
  ASSUME NEW new \in Dirs, NEW old \in Dirs
  PROVE Onto(new, old) \in Dirs
BY DEF Dirs, Onto

LEMMA LabelType ==
  ASSUME TypeOK, NEW known \in BOOLEAN
  PROVE EngineLabel(pipe.engine, known) \in Machines \cup {NULL}
BY DEF TypeOK, Pipes, Dirs, EngineLabel, EnvLabel

LEMMA NoDirType == NoDir \in Dirs
BY DEF NoDir, Dirs

LEMMA NoPipeType == NoPipe \in Pipes
BY NoDirType DEF NoPipe, Pipes, Pushes, Ats

\* A script that goes on or ends stays a script.
LEMMA PipeType ==
  ASSUME pipe \in Pipes, NEW step \in Ats
  PROVE /\ [pipe EXCEPT !.at = step] \in Pipes
        /\ [NoPipe EXCEPT !.at = step, !.found = pipe.found, !.engine = pipe.engine] \in Pipes
        /\ \A dir \in Dirs : [pipe EXCEPT !.at = step, !.engine = dir] \in Pipes
        /\ \A dir \in Dirs, found \in BOOLEAN : [pipe EXCEPT !.at = step, !.found = found, !.engine = dir] \in Pipes
BY NoPipeType DEF Pipes

LEMMA AtsHold == {"idle", "ready", "failed"} \subseteq Ats /\ Steps \subseteq Ats
BY DEF Ats

LEMMA InitType == Init => TypeOK
<1> SUFFICES ASSUME Init PROVE TypeOK
  OBVIOUS
<1>1. NoRepo \in Repos
  BY NoDirType DEF NoRepo, Repos
<1> QED BY <1>1, NoDirType, NoPipeType DEF Init, TypeOK

\* Looking, building and recording.
LEMMA StartType ==
  ASSUME TypeOK, NEW model \in Models, NEW push \in Pushes, Start(model, push)
  PROVE TypeOK'
<1>1. pipe' \in Pipes
  BY NoPipeType DEF Start, Pipes, Steps, Ats
<1> QED BY <1>1 DEF TypeOK, Start

LEMMA LookType ==
  ASSUME TypeOK, NEW ok \in BOOLEAN, Look(ok)
  PROVE TypeOK'
BY PipeType DEF TypeOK, Look, Goes, Steps, Ats

LEMMA DownloadType ==
  ASSUME TypeOK, NEW label \in Machines, NEW ok \in BOOLEAN, Download(label, ok)
  PROVE TypeOK'
<1> DEFINE dir == Onto(repo.engines[label], fetched[label])
<1>1. dir \in Dirs
  BY OntoType DEF TypeOK, Repos
<1>2. fetched' \in [Machines -> Dirs]
  BY <1>1 DEF TypeOK, Download
<1>3. pipe' \in Pipes
  <2>1. "checkpoint" \in Ats
    BY DEF Ats, Steps
  <2>2. (ok /\ dir.rank # NULL) \in BOOLEAN /\ (IF ok /\ dir.rank # NULL THEN dir ELSE NoDir) \in Dirs
    BY <1>1, NoDirType
  <2> QED BY <2>1, <2>2, PipeType DEF TypeOK, Download
<1> QED BY <1>2, <1>3 DEF TypeOK, Download

LEMMA PrepareCheckpointType ==
  ASSUME TypeOK, NEW ok \in BOOLEAN, PrepareCheckpoint(ok)
  PROVE TypeOK'
BY PipeType DEF TypeOK, PrepareCheckpoint, Goes, Ends, Steps, Ats

LEMMA PrepareEngineType ==
  ASSUME TypeOK, PipeInv, NEW ok \in BOOLEAN, PrepareEngine(ok)
  PROVE TypeOK'
<1>1. pipe.model \in Models
  BY DEF PipeInv, PrepareEngine, At, Steps
<1>2. local' \in [Models -> Dirs]
  <2>1. [local EXCEPT ![pipe.model].rank = machine] \in [Models -> Dirs]
    BY <1>1 DEF TypeOK, Dirs
  <2> QED BY <2>1 DEF TypeOK, PrepareEngine
<1>3. pipe' \in Pipes
  <2>1. local[pipe.model] \in Dirs /\ {"pushing", "recording", "failed"} \subseteq Ats
    BY <1>1 DEF TypeOK, Ats, Steps
  <2>2. \/ Goes("pushing") \/ Goes("recording") \/ Ends("failed")
        \/ pipe' = [pipe EXCEPT !.at = "pushing", !.engine = local[pipe.model]]
    BY DEF PrepareEngine
  <2>3. CASE Goes("pushing") \/ Goes("recording")
    BY <2>1, <2>3, PipeType DEF TypeOK, Goes
  <2>4. CASE Ends("failed")
    BY <2>1, <2>4, PipeType DEF TypeOK, Ends
  <2>5. CASE pipe' = [pipe EXCEPT !.at = "pushing", !.engine = local[pipe.model]]
    BY <2>1, <2>5, PipeType DEF TypeOK
  <2> QED BY <2>2, <2>3, <2>4, <2>5
<1> QED BY <1>2, <1>3 DEF TypeOK, PrepareEngine

LEMMA RecordType ==
  ASSUME TypeOK, PipeInv, NEW ok \in BOOLEAN, Record(ok)
  PROVE TypeOK'
<1> DEFINE dir == [local[pipe.model] EXCEPT !.metadata = IF ok THEN machine ELSE @]
<1>1. pipe.model \in Models
  BY DEF PipeInv, Record, At, Steps
<1>2. dir \in Dirs
  BY <1>1 DEF TypeOK, Dirs
<1>3. "pushing" \in Ats
  BY DEF Ats, Steps
<1> QED BY <1>1, <1>2, <1>3, PipeType DEF TypeOK, Record

\* Publishing.
LEMMA PublishedType ==
  ASSUME TypeOK, NEW label \in Machines
  PROVE Published(pipe.engine, label) \in Repos
<1>1. Onto(pipe.engine, repo.engines[label]) \in Dirs
  BY OntoType DEF TypeOK, Repos, Pipes
<1> QED BY <1>1 DEF TypeOK, Repos, Published

LEMMA PushEngineType ==
  ASSUME TypeOK, NEW known \in BOOLEAN, NEW ok \in BOOLEAN, PushEngine(known, ok)
  PROVE TypeOK'
<1>1. pipe' \in Pipes
  BY PipeType, AtsHold DEF TypeOK, PushEngine, Ends
<1>2. repo' \in Repos
  BY LabelType, PublishedType DEF TypeOK, PushEngine
<1> QED BY <1>1, <1>2 DEF TypeOK, PushEngine

LEMMA PushNothingType ==
  ASSUME TypeOK, PushNothing
  PROVE TypeOK'
BY PipeType, AtsHold DEF TypeOK, PushNothing, Ends

LEMMA PushCardType ==
  ASSUME TypeOK, NEW known \in BOOLEAN, NEW created \in BOOLEAN, NEW ok \in BOOLEAN, PushCard(known, created, ok)
  PROVE TypeOK'
<1>1. pipe' \in Pipes
  <2>1. "pushing checkpoint" \in Ats
    BY DEF Ats, Steps
  <2> QED BY <2>1, PipeType, AtsHold DEF TypeOK, PushCard, Goes, Ends
<1>2. CardOf(pipe.engine, known) \in Cards
  BY LabelType DEF TypeOK, Pipes, Dirs, CardOf, WithBuild, EnvCard, EnvLabel, Cards
<1>3. There(created) \in BOOLEAN
  BY DEF There, TypeOK, Repos
<1>4. repo' \in Repos
  BY <1>2, <1>3 DEF TypeOK, Repos, PushCard
<1> QED BY <1>1, <1>4 DEF TypeOK, PushCard

LEMMA PushCheckpointType ==
  ASSUME TypeOK, NEW ok \in BOOLEAN, PushCheckpoint(ok)
  PROVE TypeOK'
<1>1. "pushing engine" \in Ats
  BY DEF Ats, Steps
<1>2. repo' \in Repos
  BY DEF TypeOK, Repos, PushCheckpoint
<1> QED BY <1>1, <1>2, PipeType, AtsHold DEF TypeOK, PushCheckpoint, Goes, Ends

LEMMA UploadEngineType ==
  ASSUME TypeOK, NEW ok \in BOOLEAN, UploadEngine(ok)
  PROVE TypeOK'
<1>1. "pushing tokenizer" \in Ats
  BY DEF Ats, Steps
<1>2. EngineLabel(pipe.engine, TRUE) \in Machines
  BY DEF TypeOK, Pipes, Dirs, EngineLabel, EnvLabel
<1> QED BY <1>1, <1>2, PipeType, PublishedType DEF TypeOK, UploadEngine, Goes

LEMMA UploadTokenizerType ==
  ASSUME TypeOK, NEW beside \in BOOLEAN, NEW reached \in BOOLEAN, NEW ok \in BOOLEAN, UploadTokenizer(beside, reached, ok)
  PROVE TypeOK'
<1>1. repo' \in Repos
  BY DEF TypeOK, Repos, UploadTokenizer
<1> QED BY <1>1, PipeType, AtsHold DEF TypeOK, UploadTokenizer, Ends

LEMMA StopType ==
  ASSUME TypeOK, Crash \/ \E to \in Machines: Move(to)
  PROVE TypeOK'
BY NoPipeType DEF TypeOK, Crash, Move

LEMMA TypeStep ==
  ASSUME TypeOK, PipeInv, Next
  PROVE TypeOK'
BY StartType, LookType, DownloadType, PrepareCheckpointType, PrepareEngineType, RecordType, PushEngineType,
   PushNothingType, PushCardType, PushCheckpointType, UploadEngineType, UploadTokenizerType, StopType DEF Next

-----------------------------------------------------------------------------
(* The script's position, and the engine it has.                             *)

LEMMA InitInv == Init => PipeInv /\ LocalInv /\ FitInv
BY DEF Init, PipeInv, LocalInv, FitInv, Honest, Alike, NoPipe, NoDir, NoRepo, Pushing, Steps

\* What a step does to the script's record.
LEMMA GoesEffect ==
  ASSUME pipe \in Pipes, NEW step, Goes(step)
  PROVE pipe'.at = step /\ pipe'.model = pipe.model /\ pipe'.engine = pipe.engine /\ pipe'.found = pipe.found
BY DEF Goes, Pipes

LEMMA EndsEffect ==
  ASSUME NEW step, Ends(step)
  PROVE pipe'.at = step /\ pipe'.engine = pipe.engine /\ pipe'.found = pipe.found
BY DEF Ends, NoPipe

LEMMA StopEffect ==
  ASSUME pipe' = NoPipe
  PROVE pipe'.at = "idle" /\ pipe'.engine = NoDir /\ ~pipe'.found
BY DEF NoPipe

\* An ended script has no model, and its engine is as it was.
LEMMA EndedPipe ==
  ASSUME PipeInv, NEW step \in {"ready", "failed"}, Ends(step)
  PROVE PipeInv'
BY EndsEffect DEF PipeInv, Pushing, Steps

LEMMA StoppedPipe ==
  ASSUME pipe' = NoPipe
  PROVE PipeInv'
BY StopEffect DEF PipeInv, Pushing, Steps

\* A script that goes on to a point that asks no more of it.
LEMMA OngoingPipe ==
  ASSUME PipeInv, pipe \in Pipes, NEW step \in Steps \ {"recording"}, Goes(step), pipe.at \in Steps,
         step \in Pushing => pipe.found \/ pipe.at \in Pushing
  PROVE PipeInv'
BY GoesEffect DEF PipeInv

LEMMA PipeStep ==
  ASSUME NULL \notin Machines, TypeOK, TypeOK', PipeInv, Next
  PROVE PipeInv'
<1>1. ASSUME NEW model \in Models, NEW push \in Pushes, Start(model, push) PROVE PipeInv'
  BY <1>1 DEF TypeOK, Start, NoPipe, PipeInv, Pushing
<1>2. ASSUME NEW ok \in BOOLEAN, Look(ok) PROVE PipeInv'
  BY <1>2, OngoingPipe DEF TypeOK, Look, At, Pushing, Steps
<1>3. ASSUME NEW label \in Machines, NEW ok \in BOOLEAN, Download(label, ok) PROVE PipeInv'
  BY <1>3 DEF TypeOK, Pipes, Download, At, PipeInv, Pushing, Steps
<1>4. ASSUME NEW ok \in BOOLEAN, PrepareCheckpoint(ok) PROVE PipeInv'
  <2>1. CASE Goes("engine")
    BY <1>4, <2>1, OngoingPipe DEF TypeOK, PrepareCheckpoint, At, Pushing, Steps
  <2>2. CASE Ends("failed")
    BY <2>2, EndedPipe
  <2> QED BY <1>4, <2>1, <2>2 DEF PrepareCheckpoint
<1>5. ASSUME NEW ok \in BOOLEAN, PrepareEngine(ok) PROVE PipeInv'
  <2>1. pipe.at = "engine" /\ pipe.model \in Models /\ machine' = machine
    BY <1>5 DEF PipeInv, PrepareEngine, At, Steps
  <2>2. CASE pipe.found
    <3>1. Goes("pushing")
      BY <1>5, <2>2 DEF PrepareEngine
    <3> QED BY <2>1, <2>2, <3>1, OngoingPipe DEF TypeOK, Pushing, Steps
  <2>3. CASE ~pipe.found /\ local[pipe.model].rank # NULL
    <3>1. pipe' = [pipe EXCEPT !.at = "pushing", !.engine = local[pipe.model]]
      BY <1>5, <2>3 DEF PrepareEngine
    <3>2. pipe'.at = "pushing" /\ pipe'.model = pipe.model /\ pipe'.engine = local[pipe.model]
      BY <3>1 DEF TypeOK, Pipes
    <3> QED BY <2>1, <2>3, <3>2 DEF PipeInv, Pushing, Steps
  <2>4. CASE ~pipe.found /\ local[pipe.model].rank = NULL /\ ok
    <3>1. Goes("recording") /\ local' = [local EXCEPT ![pipe.model].rank = machine]
      BY <1>5, <2>4 DEF PrepareEngine
    <3>2. pipe'.at = "recording" /\ pipe'.model = pipe.model /\ ~pipe'.found
      BY <2>4, <3>1, GoesEffect DEF TypeOK
    <3>3. local'[pipe.model].rank = machine
      BY <2>1, <3>1 DEF TypeOK, Dirs
    <3> QED BY <2>1, <3>2, <3>3 DEF PipeInv, Pushing, Steps
  <2>5. CASE ~pipe.found /\ local[pipe.model].rank = NULL /\ ~ok
    BY <1>5, <2>5, EndedPipe DEF PrepareEngine
  <2> QED BY <2>2, <2>3, <2>4, <2>5
<1>6. ASSUME NEW ok \in BOOLEAN, Record(ok) PROVE PipeInv'
  <2>1. pipe.at = "recording" /\ pipe.model \in Models /\ local[pipe.model].rank = machine
    BY <1>6 DEF Record, At, PipeInv, Steps
  <2>2. /\ pipe'.at = "pushing" /\ pipe'.model = pipe.model
        /\ pipe'.engine.rank = local[pipe.model].rank
    BY <1>6, <2>1 DEF Record, TypeOK, Pipes, Dirs
  <2> QED BY <2>1, <2>2 DEF TypeOK, PipeInv, Pushing, Steps
<1>7. ASSUME NEW known \in BOOLEAN, NEW ok \in BOOLEAN, PushEngine(known, ok) PROVE PipeInv'
  BY <1>7, EndedPipe DEF PushEngine
<1>8. CASE PushNothing
  BY <1>8, EndedPipe DEF PushNothing
<1>9. ASSUME NEW known \in BOOLEAN, NEW created \in BOOLEAN, NEW ok \in BOOLEAN, PushCard(known, created, ok) PROVE PipeInv'
  <2>1. CASE Goes("pushing checkpoint")
    BY <1>9, <2>1, OngoingPipe DEF TypeOK, PushCard, At, Pushing, Steps
  <2>2. CASE Ends("failed")
    BY <2>2, EndedPipe
  <2> QED BY <1>9, <2>1, <2>2 DEF PushCard
<1>10. ASSUME NEW ok \in BOOLEAN, PushCheckpoint(ok) PROVE PipeInv'
  <2>1. CASE Goes("pushing engine")
    BY <1>10, <2>1, OngoingPipe DEF TypeOK, PushCheckpoint, At, Pushing, Steps
  <2>2. CASE Ends("failed")
    BY <2>2, EndedPipe
  <2> QED BY <1>10, <2>1, <2>2 DEF PushCheckpoint
<1>11. ASSUME NEW ok \in BOOLEAN, UploadEngine(ok) PROVE PipeInv'
  BY <1>11, OngoingPipe DEF TypeOK, UploadEngine, At, Pushing, Steps
<1>12. ASSUME NEW beside \in BOOLEAN, NEW reached \in BOOLEAN, NEW ok \in BOOLEAN, UploadTokenizer(beside, reached, ok) PROVE PipeInv'
  BY <1>12, EndedPipe DEF UploadTokenizer
<1>13. ASSUME Crash \/ \E to \in Machines: Move(to) PROVE PipeInv'
  BY <1>13, StoppedPipe DEF Crash, Move
<1> QED BY <1>1, <1>2, <1>3, <1>4, <1>5, <1>6, <1>7, <1>8, <1>9, <1>10, <1>11, <1>12, <1>13 DEF Next

\* The steps that leave the engine directories alone.
LEMMA OtherSteps ==
  ASSUME TypeOK, Next, ~(\E ok \in BOOLEAN: PrepareEngine(ok) \/ Record(ok))
  PROVE UNCHANGED local /\ pipe'.at # "recording"
<1>1. ASSUME NEW model \in Models, NEW push \in Pushes, Start(model, push) PROVE UNCHANGED local /\ pipe'.at # "recording"
  BY <1>1 DEF Start, NoPipe
<1>2. ASSUME NEW ok \in BOOLEAN, Look(ok) \/ PrepareCheckpoint(ok) \/ PushCheckpoint(ok) \/ UploadEngine(ok)
      PROVE UNCHANGED local /\ pipe'.at # "recording"
  <2>1. /\ UNCHANGED local
        /\ \E step \in {"downloading", "checkpoint", "engine", "pushing engine", "pushing tokenizer", "failed"} : Goes(step) \/ Ends(step)
    BY <1>2 DEF Look, PrepareCheckpoint, PushCheckpoint, UploadEngine
  <2> QED BY <2>1, GoesEffect, EndsEffect DEF TypeOK
<1>3. ASSUME NEW label \in Machines, NEW ok \in BOOLEAN, Download(label, ok) PROVE UNCHANGED local /\ pipe'.at # "recording"
  BY <1>3 DEF TypeOK, Pipes, Download
<1>4. ASSUME NEW known \in BOOLEAN, NEW ok \in BOOLEAN, PushEngine(known, ok) PROVE UNCHANGED local /\ pipe'.at # "recording"
  BY <1>4, EndsEffect DEF PushEngine
<1>5. ASSUME NEW known \in BOOLEAN, NEW created \in BOOLEAN, NEW ok \in BOOLEAN, PushCard(known, created, ok)
      PROVE UNCHANGED local /\ pipe'.at # "recording"
  <2>1. UNCHANGED local /\ (Goes("pushing checkpoint") \/ Ends("failed"))
    BY <1>5 DEF PushCard
  <2>2. pipe'.at \in {"pushing checkpoint", "failed"}
    <3>1. CASE Goes("pushing checkpoint")
      BY <3>1, GoesEffect DEF TypeOK
    <3>2. CASE Ends("failed")
      BY <3>2, EndsEffect
    <3> QED BY <2>1, <3>1, <3>2
  <2> QED BY <2>1, <2>2
<1>6. ASSUME NEW beside \in BOOLEAN, NEW reached \in BOOLEAN, NEW ok \in BOOLEAN, UploadTokenizer(beside, reached, ok)
      PROVE UNCHANGED local /\ pipe'.at # "recording"
  <2>1. UNCHANGED local /\ Ends("ready")
    BY <1>6 DEF UploadTokenizer
  <2> QED BY <2>1, EndsEffect
<1>7. ASSUME PushNothing \/ Crash \/ \E to \in Machines: Move(to) PROVE UNCHANGED local /\ pipe'.at # "recording"
  BY <1>7, EndsEffect, StopEffect DEF PushNothing, Crash, Move
<1> QED BY <1>1, <1>2, <1>3, <1>4, <1>5, <1>6, <1>7 DEF Next

\* PrepareEngine builds where nothing is, or leaves the directories alone too.
LEMMA EngineStep ==
  ASSUME TypeOK, PipeInv, NEW ok \in BOOLEAN, PrepareEngine(ok)
  PROVE \/ UNCHANGED local /\ pipe'.at # "recording"
        \/ /\ pipe.model \in Models /\ local[pipe.model].rank = NULL
           /\ local' = [local EXCEPT ![pipe.model].rank = machine]
           /\ pipe'.at = "recording" /\ pipe'.model = pipe.model
<1>1. pipe.model \in Models
  BY DEF PipeInv, PrepareEngine, At, Steps
<1>2. CASE UNCHANGED local /\ (Goes("pushing") \/ Ends("failed"))
  BY <1>2, GoesEffect, EndsEffect DEF TypeOK
<1>3. CASE UNCHANGED local /\ pipe' = [pipe EXCEPT !.at = "pushing", !.engine = local[pipe.model]]
  BY <1>3 DEF TypeOK, Pipes
<1>4. CASE Goes("recording") /\ local[pipe.model].rank = NULL /\ local' = [local EXCEPT ![pipe.model].rank = machine]
  BY <1>1, <1>4, GoesEffect DEF TypeOK
<1> QED BY <1>2, <1>3, <1>4 DEF PrepareEngine

LEMMA RecordStep ==
  ASSUME TypeOK, PipeInv, NEW ok \in BOOLEAN, Record(ok)
  PROVE /\ Building(pipe.model) /\ pipe.model \in Models /\ local'[pipe.model].rank = machine
        /\ local'[pipe.model] = pipe'.engine /\ ~pipe'.found = ~pipe.found
        /\ pipe'.at = "pushing"
        /\ \A model \in Models \ {pipe.model} : local'[model] = local[model]
BY DEF TypeOK, Pipes, PipeInv, Record, At, Building, Steps, Dirs

LEMMA LocalStep ==
  ASSUME NULL \notin Machines, TypeOK, PipeInv, LocalInv, Next
  PROVE LocalInv'
<1>1. CASE UNCHANGED local
  BY <1>1 DEF LocalInv
<1>2. ASSUME NEW ok \in BOOLEAN, PrepareEngine(ok) PROVE LocalInv'
  BY <1>2, EngineStep DEF TypeOK, Dirs, LocalInv
<1>3. ASSUME NEW ok \in BOOLEAN, Record(ok) PROVE LocalInv'
  BY <1>3, RecordStep DEF TypeOK, LocalInv
<1> QED BY <1>1, <1>2, <1>3, OtherSteps

-----------------------------------------------------------------------------
(* What is published and fetched.                                            *)

\* A record that is lost stays lost: only a build under way is recorded.
LEMMA LosslessBack ==
  ASSUME TypeOK, PipeInv, LocalInv, Next, Lossless'
  PROVE Lossless
<1>1. CASE UNCHANGED local /\ pipe'.at # "recording"
  BY <1>1 DEF Lossless, Alike, Building
<1>2. ASSUME NEW ok \in BOOLEAN, PrepareEngine(ok) PROVE Lossless
  BY <1>1, <1>2, EngineStep DEF TypeOK, Dirs, LocalInv, Lossless, Alike, Building
<1>3. ASSUME NEW ok \in BOOLEAN, Record(ok) PROVE Lossless
  BY <1>3, RecordStep DEF Lossless, Alike, Building
<1> QED BY <1>1, <1>2, <1>3, OtherSteps

\* A copy of an engine onto the directory of its own label.
LEMMA OntoOwn ==
  ASSUME NULL \notin Machines, NEW new \in Dirs, NEW old \in Dirs, Alike(new), new.rank # NULL
  PROVE Onto(new, old) = new
BY DEF Dirs, Alike, Onto

\* It is published at the label of the machine it was built on.
LEMMA PublishedHonest ==
  ASSUME NULL \notin Machines, TypeOK, Honest(repo.engines), Alike(pipe.engine), pipe.engine.rank # NULL, NEW known \in BOOLEAN
  PROVE Honest(Published(pipe.engine, EngineLabel(pipe.engine, known)).engines)
<1>1. pipe.engine \in Dirs /\ pipe.engine.rank \in Machines
  BY DEF TypeOK, Pipes, Dirs
<1>2. EngineLabel(pipe.engine, known) = pipe.engine.rank
  BY DEF EngineLabel, Alike
<1>3. Onto(pipe.engine, repo.engines[pipe.engine.rank]) = pipe.engine
  BY <1>1, OntoOwn DEF TypeOK, Repos
<1>4. Published(pipe.engine, pipe.engine.rank).engines = [repo.engines EXCEPT ![pipe.engine.rank] = pipe.engine]
  BY <1>3 DEF Published, TypeOK, Repos
<1> QED BY <1>1, <1>2, <1>4 DEF Honest, TypeOK, Repos

LEMMA FitStep ==
  ASSUME NULL \notin Machines, TypeOK, PipeInv, LocalInv, FitInv, Lossless, Lossless', Next
  PROVE FitInv'
<1>1. ASSUME NEW model \in Models, NEW push \in Pushes, Start(model, push) PROVE FitInv'
  BY <1>1 DEF FitInv, Alike, Honest, Start, NoPipe, NoDir
<1>2. ASSUME NEW ok \in BOOLEAN, Look(ok) \/ PrepareCheckpoint(ok) PROVE FitInv'
  <2>1. /\ UNCHANGED <<machine, fetched, repo>>
        /\ \E step \in {"downloading", "checkpoint", "engine", "failed"} : Goes(step) \/ Ends(step)
    BY <1>2 DEF Look, PrepareCheckpoint
  <2> QED BY <2>1, GoesEffect, EndsEffect DEF TypeOK, FitInv, Alike, Honest
<1>3. ASSUME NEW label \in Machines, NEW ok \in BOOLEAN, Download(label, ok) PROVE FitInv'
  <2> DEFINE new == repo.engines[label]
             dir == Onto(new, fetched[label])
  <2>1. label = machine /\ new # NoDir /\ UNCHANGED <<machine, repo>>
    BY <1>3 DEF Download, Compatible, RemoteEngines
  <2>2. new \in Dirs /\ fetched[label] \in Dirs /\ Alike(new) /\ new.rank \in {NULL, label}
    BY DEF TypeOK, Repos, FitInv, Honest
  <2>3. new.rank = label
    BY <2>1, <2>2 DEF Dirs, NoDir, Alike
  <2>4. dir = new
    BY <2>2, <2>3, OntoOwn
  <2>5. Honest(fetched')
    BY <1>3, <2>2, <2>4 DEF TypeOK, Download, FitInv, Honest
  <2>6. pipe'.engine \in {new, NoDir} /\ (pipe'.found => pipe'.engine = new)
    BY <1>3, <2>4 DEF TypeOK, Pipes, Download
  <2> QED BY <2>1, <2>2, <2>3, <2>5, <2>6 DEF FitInv, Alike, NoDir
<1>4. ASSUME NEW ok \in BOOLEAN, PrepareEngine(ok) PROVE FitInv'
  <2>1. UNCHANGED <<machine, fetched, repo>> /\ pipe.model \in Models /\ pipe.at = "engine"
    BY <1>4 DEF PipeInv, PrepareEngine, At, Steps
  <2>2. CASE Goes("pushing") \/ Goes("recording") \/ Ends("failed")
    BY <2>1, <2>2, GoesEffect, EndsEffect DEF TypeOK, FitInv, Alike, Honest
  <2>3. CASE ~pipe.found /\ pipe' = [pipe EXCEPT !.at = "pushing", !.engine = local[pipe.model]]
    <3>1. pipe'.engine = local[pipe.model] /\ ~pipe'.found
      BY <2>3 DEF TypeOK, Pipes
    <3>2. Alike(local[pipe.model])
      BY <2>1 DEF Lossless, Building
    <3> QED BY <2>1, <3>1, <3>2 DEF FitInv, Alike, Honest
  <2> QED BY <1>4, <2>2, <2>3 DEF PrepareEngine
<1>5. ASSUME NEW ok \in BOOLEAN, Record(ok) PROVE FitInv'
  <2>1. Alike(local'[pipe.model]) /\ local'[pipe.model] = pipe'.engine
    BY <1>5, RecordStep DEF Lossless, Building
  <2>2. UNCHANGED <<machine, fetched, repo>>
    BY <1>5 DEF Record
  <2>3. pipe'.engine.rank = machine
    BY <1>5, RecordStep
  <2> QED BY <2>1, <2>2, <2>3 DEF FitInv, Alike, Honest
<1>6. ASSUME NEW known \in BOOLEAN, NEW ok \in BOOLEAN, PushEngine(known, ok) PROVE FitInv'
  <2>1. UNCHANGED <<machine, fetched>> /\ pipe'.engine = pipe.engine /\ pipe'.found = pipe.found
    BY <1>6, EndsEffect DEF PushEngine
  <2>2. repo' = repo \/ repo' = Published(pipe.engine, EngineLabel(pipe.engine, known))
    BY <1>6 DEF PushEngine
  <2>3. pipe.engine.rank # NULL
    BY <1>6 DEF PushEngine, At, PipeInv, Pushing
  <2>4. Honest(repo'.engines)
    BY <2>2, <2>3, PublishedHonest DEF FitInv
  <2> QED BY <2>1, <2>4 DEF FitInv, Alike
<1>7. ASSUME NEW known \in BOOLEAN, NEW created \in BOOLEAN, NEW ok \in BOOLEAN, PushCard(known, created, ok) PROVE FitInv'
  <2>1. UNCHANGED <<machine, fetched>> /\ (Goes("pushing checkpoint") \/ Ends("failed"))
    BY <1>7 DEF PushCard
  <2>2. repo'.engines = repo.engines
    BY <1>7 DEF PushCard, TypeOK, Repos
  <2> QED BY <2>1, <2>2, GoesEffect, EndsEffect DEF TypeOK, FitInv, Alike
<1>8. ASSUME NEW ok \in BOOLEAN, PushCheckpoint(ok) PROVE FitInv'
  <2>1. UNCHANGED <<machine, fetched>> /\ (Goes("pushing engine") \/ Ends("failed"))
    BY <1>8 DEF PushCheckpoint
  <2>2. repo'.engines = repo.engines
    BY <1>8 DEF PushCheckpoint, TypeOK, Repos
  <2> QED BY <2>1, <2>2, GoesEffect, EndsEffect DEF TypeOK, FitInv, Alike
<1>9. ASSUME NEW ok \in BOOLEAN, UploadEngine(ok) PROVE FitInv'
  <2>1. UNCHANGED <<machine, fetched>> /\ Goes("pushing tokenizer") /\ pipe.engine.rank # NULL
    BY <1>9 DEF UploadEngine, At, PipeInv, Pushing
  <2>2. repo' = repo \/ repo' = Published(pipe.engine, EngineLabel(pipe.engine, TRUE))
    BY <1>9 DEF UploadEngine
  <2>3. Honest(repo'.engines)
    BY <2>1, <2>2, PublishedHonest DEF FitInv
  <2> QED BY <2>1, <2>3, GoesEffect DEF TypeOK, FitInv, Alike
<1>10. ASSUME NEW beside \in BOOLEAN, NEW reached \in BOOLEAN, NEW ok \in BOOLEAN, UploadTokenizer(beside, reached, ok) PROVE FitInv'
  <2>1. UNCHANGED <<machine, fetched>> /\ Ends("ready")
    BY <1>10 DEF UploadTokenizer
  <2>2. repo'.engines = repo.engines
    BY <1>10 DEF UploadTokenizer, TypeOK, Repos
  <2> QED BY <2>1, <2>2, EndsEffect DEF FitInv, Alike
<1>11. CASE PushNothing
  BY <1>11, EndsEffect DEF PushNothing, FitInv, Alike
<1>12. ASSUME Crash \/ \E to \in Machines: Move(to) PROVE FitInv'
  <2>1. pipe' = NoPipe /\ UNCHANGED <<fetched, repo>>
    BY <1>12 DEF Crash, Move
  <2> QED BY <2>1, StopEffect DEF FitInv, Alike, Honest, NoDir
<1> QED BY <1>1, <1>2, <1>3, <1>4, <1>5, <1>6, <1>7, <1>8, <1>9, <1>10, <1>11, <1>12 DEF Next

-----------------------------------------------------------------------------

\* The named parts hold in every state.
THEOREM Inductive ==
  ASSUME NULL \notin Machines
  PROVE Spec => []IInv
<1>1. Init => IInv
  BY InitType, InitInv DEF IInv
<1>2. IInv /\ [Next]_hubVars => IInv'
  <2> SUFFICES ASSUME IInv, [Next]_hubVars PROVE IInv'
    OBVIOUS
  <2>1. CASE Next
    <3>1. TypeOK' /\ PipeInv' /\ LocalInv'
      BY <2>1, TypeStep, PipeStep, LocalStep DEF IInv
    <3>2. ASSUME Lossless' PROVE FitInv'
      BY <2>1, <3>2, LosslessBack, FitStep DEF IInv
    <3> QED BY <3>1, <3>2 DEF IInv
  <2>2. CASE UNCHANGED hubVars
    BY <2>2 DEF hubVars, IInv, TypeOK, PipeInv, LocalInv, Lossless, FitInv, Building, Honest, Alike
  <2> QED BY <2>1, <2>2
<1> QED BY <1>1, <1>2, PTL DEF Spec

\* While no build lost its record, an engine that the pipeline found in the
\* repository was built on the machine it was downloaded to (label.py:24,
\* hf.sh:74, push.py:98), for any set of machines and any number of runs.
THEOREM DownloadedEngineFits ==
  ASSUME NULL \notin Machines
  PROVE Spec => []PrebuiltEngineFits
<1>1. IInv => PrebuiltEngineFits
  BY DEF IInv, FitInv, Lossless, Alike, EveryBuildIsRecorded, PrebuiltEngineFits
<1> QED BY <1>1, Inductive, PTL
=============================================================================
