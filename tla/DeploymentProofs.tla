--------------------------- MODULE DeploymentProofs --------------------------
(* Proofs about Deployment: what is shown of the engine pipeline on its own   *)
(* holds of the pipeline next to quantizations and servers; what a server     *)
(* process tells and stops; where the output of its log goes, and that its    *)
(* wrappers are one filter; what a quantization leaves on the disk, and what  *)
(* a server that is started from it asks its engine for.                      *)
EXTENDS Deployment, WellFoundedInduction, SequenceTheorems, TLAPS

EngineFacts == INSTANCE EngineHubProofs

(* Every step of the deployment is one of the pipeline or leaves it alone.    *)
LEMMA StepsOfPipeline == ASSUME [Next]_vars PROVE [Engines!Next]_(Engines!hubVars)
<1> USE DEF Engines!hubVars, hubVars
<1>1. CASE Quantize
  BY <1>1 DEF Quantize
<1>2. CASE PrepareEngines
  BY <1>2 DEF PrepareEngines
<1>3. CASE BootAny \/ BootQuantized \/ BootEngine
  BY <1>3 DEF BootAny, BootQuantized, BootEngine
<1>4. CASE ServerRuns
  BY <1>4 DEF ServerRuns
<1>5. ASSUME NEW ok \in BOOLEAN, BuildVllm(ok) PROVE UNCHANGED hubVars
  BY <1>5 DEF BuildVllm
<1>6. CASE UNCHANGED vars
  BY <1>6 DEF vars
<1> QED BY <1>1, <1>2, <1>3, <1>4, <1>5, <1>6 DEF Next

(* EngineFacts is Engines under another name, with the theorems of            *)
(* EngineHubProofs: definition for definition, and action for action.         *)
LEMMA PipelineIsFacts ==
  /\ Engines!Init => EngineFacts!Init
  /\ [Engines!Next]_(Engines!hubVars) => [EngineFacts!Next]_(EngineFacts!hubVars)
  /\ EngineFacts!PrebuiltEngineFits <=> Engines!PrebuiltEngineFits
<1> USE DEF Engines!Models, EngineFacts!Models, Engines!Pushes, EngineFacts!Pushes, Engines!NoDir,
      EngineFacts!NoDir, Engines!NoPipe, EngineFacts!NoPipe, Engines!At, EngineFacts!At,
      Engines!Goes, EngineFacts!Goes, Engines!Ends, EngineFacts!Ends, Engines!Waiting,
      EngineFacts!Waiting, Engines!Onto, EngineFacts!Onto
<1>1. Engines!Init => EngineFacts!Init
  BY DEF Engines!Init, EngineFacts!Init, Engines!NoRepo, EngineFacts!NoRepo
<1>2. EngineFacts!PrebuiltEngineFits <=> Engines!PrebuiltEngineFits
  BY DEF Engines!PrebuiltEngineFits, EngineFacts!PrebuiltEngineFits, Engines!EveryBuildIsRecorded,
      EngineFacts!EveryBuildIsRecorded
<1>3. ASSUME NEW model \in Engines!Models, NEW push \in Engines!Pushes, Engines!Start(model, push)
      PROVE  EngineFacts!Start(model, push)
  BY <1>3 DEF Engines!Start, EngineFacts!Start
<1>4. ASSUME NEW ok \in BOOLEAN, Engines!Look(ok) PROVE EngineFacts!Look(ok)
  BY <1>4 DEF Engines!Look, EngineFacts!Look, Engines!Compatible, EngineFacts!Compatible,
      Engines!RemoteEngines, EngineFacts!RemoteEngines
<1>5. ASSUME NEW label \in Machines, NEW ok \in BOOLEAN, Engines!Download(label, ok)
      PROVE  EngineFacts!Download(label, ok)
  BY <1>5 DEF Engines!Download, EngineFacts!Download, Engines!Compatible, EngineFacts!Compatible,
      Engines!RemoteEngines, EngineFacts!RemoteEngines
<1>6. ASSUME NEW ok \in BOOLEAN, Engines!PrepareCheckpoint(ok)
      PROVE  EngineFacts!PrepareCheckpoint(ok)
  BY <1>6 DEF Engines!PrepareCheckpoint, EngineFacts!PrepareCheckpoint
<1>7. ASSUME NEW ok \in BOOLEAN, Engines!PrepareEngine(ok) PROVE EngineFacts!PrepareEngine(ok)
  BY <1>7 DEF Engines!PrepareEngine, EngineFacts!PrepareEngine
<1>8. ASSUME NEW ok \in BOOLEAN, Engines!Record(ok) PROVE EngineFacts!Record(ok)
  BY <1>8 DEF Engines!Record, EngineFacts!Record
<1>9. ASSUME NEW known \in BOOLEAN, NEW ok \in BOOLEAN, Engines!PushEngine(known, ok)
      PROVE  EngineFacts!PushEngine(known, ok)
  BY <1>9 DEF Engines!PushEngine, EngineFacts!PushEngine, Engines!EngineLabel,
         EngineFacts!EngineLabel,
      Engines!EnvLabel, EngineFacts!EnvLabel, Engines!Published, EngineFacts!Published
<1>10. ASSUME NEW known \in BOOLEAN, NEW created \in BOOLEAN, NEW ok \in BOOLEAN,
              Engines!PushCard(known, created, ok)
       PROVE  EngineFacts!PushCard(known, created, ok)
  BY <1>10 DEF Engines!PushCard, EngineFacts!PushCard, Engines!There, EngineFacts!There,
         Engines!CardOf,
      EngineFacts!CardOf, Engines!WithBuild, EngineFacts!WithBuild, Engines!EnvCard,
      EngineFacts!EnvCard, Engines!EnvLabel, EngineFacts!EnvLabel, Engines!EngineLabel,
      EngineFacts!EngineLabel
<1>11. ASSUME NEW ok \in BOOLEAN, Engines!PushCheckpoint(ok) PROVE EngineFacts!PushCheckpoint(ok)
  BY <1>11 DEF Engines!PushCheckpoint, EngineFacts!PushCheckpoint
<1>12. ASSUME NEW ok \in BOOLEAN, Engines!UploadEngine(ok) PROVE EngineFacts!UploadEngine(ok)
  BY <1>12 DEF Engines!UploadEngine, EngineFacts!UploadEngine, Engines!Published,
         EngineFacts!Published,
      Engines!EngineLabel, EngineFacts!EngineLabel, Engines!EnvLabel, EngineFacts!EnvLabel
<1>13. ASSUME NEW beside \in BOOLEAN, NEW reached \in BOOLEAN, NEW ok \in BOOLEAN,
              Engines!UploadTokenizer(beside, reached, ok)
       PROVE  EngineFacts!UploadTokenizer(beside, reached, ok)
  BY <1>13 DEF Engines!UploadTokenizer, EngineFacts!UploadTokenizer, Engines!TokenizerDir,
      EngineFacts!TokenizerDir
<1>14. ASSUME Engines!PushNothing PROVE EngineFacts!PushNothing
  BY <1>14 DEF Engines!PushNothing, EngineFacts!PushNothing
<1>15. ASSUME Engines!Crash PROVE EngineFacts!Crash
  BY <1>15 DEF Engines!Crash, EngineFacts!Crash
<1>16. ASSUME NEW to \in Machines, Engines!Move(to) PROVE EngineFacts!Move(to)
  BY <1>16 DEF Engines!Move, EngineFacts!Move
<1>17. Engines!Next => EngineFacts!Next
  BY <1>3, <1>4, <1>5, <1>6, <1>7, <1>8, <1>9, <1>10, <1>11, <1>12, <1>13, <1>14, <1>15, <1>16
     DEF Engines!Next, EngineFacts!Next
<1> QED BY <1>1, <1>2, <1>17 DEF Engines!hubVars, EngineFacts!hubVars

(* The engine a server is started from after a download was built for its     *)
(* machine, unless a build lost its record, for any machines, any number of   *)
(* runs and whatever else was quantized or served (label.py, hf.sh, push.py). *)
THEOREM ServedEngineFits == Spec => []PrebuiltEngineFits
<1>1. Init => Engines!Init
  BY DEF Init
<1>2. Spec => EngineFacts!Spec
  BY <1>1, StepsOfPipeline, PipelineIsFacts, PTL DEF Spec, EngineFacts!Spec
<1>3. EngineFacts!Spec => []EngineFacts!PrebuiltEngineFits
  BY DeploymentConstants, EngineFacts!DownloadedEngineFits
<1>4. EngineFacts!PrebuiltEngineFits <=> Engines!PrebuiltEngineFits
  BY PipelineIsFacts
<1> QED BY <1>2, <1>3, <1>4, PTL DEF PrebuiltEngineFits

-----------------------------------------------------------------------------
(* The server process, whatever it was started from *)

PartStates == {"off", "waiting", "building", "built", "failed", "shut"}

SentryListens == "sentry" \in env.telemetry /\ ~host.justBooted

\* The window is open only while the engine is being built; what failed first stays
\* failed; who came to serve exports what the environment asks for until it is stopped;
\* a window is open only for an error Sentry has heard of.
ProcessInv ==
  /\ parts \in [Server!Parts -> PartStates] /\ fault \in Server!Parts \cup {NULL} \cup ErrorClasses
  /\ window \in BOOLEAN /\ (window => parts["engine"] = "building")
  /\ phase \in {"down", "checking"} => ~window /\ fault = NULL
  /\ fault = "engine" => parts["engine"] = "failed"
  /\ ~host.justBooted => heard \subseteq captured
  /\ fault \in ErrorClasses => /\ phase \in {"stopping", "stopped"}
                               /\ SentryListens => fault \in captured
  /\ phase = "raised" => fault \in Server!Parts
  /\ phase = "raised" /\ fault = "engine" => told = "terminal"
  /\ phase \in {"building", "serving"} => telemetry = env.telemetry
  /\ phase = "stopped" /\ fault \in {NULL} \cup ErrorClasses => telemetry = {}

\* A step of the deployment is one of the process or leaves it alone.
ProcessStep ==
  \/ \E e, h : Server!Boot(e, h)
  \/ Server!Runs
  \/ \E ok \in BOOLEAN : Server!BuildVllm(ok)
  \/ UNCHANGED serverVars

\* Whatever the deployment does, the process takes one of its own steps or none.
LEMMA StepsOfProcess == [Next]_vars => ProcessStep
<1> SUFFICES ASSUME [Next]_vars PROVE ProcessStep
  OBVIOUS
<1> USE DEF ProcessStep
<1>1. CASE Quantize \/ PrepareEngines
  BY <1>1 DEF Quantize, PrepareEngines
<1>2. CASE BootAny
  BY <1>2 DEF BootAny
<1>3. CASE BootQuantized
  BY <1>3 DEF BootQuantized
<1>4. CASE BootEngine
  BY <1>4 DEF BootEngine
<1>5. CASE ServerRuns
  BY <1>5 DEF ServerRuns
<1>6. ASSUME NEW ok \in BOOLEAN, BuildVllm(ok) PROVE ProcessStep
  BY <1>6 DEF BuildVllm
<1>7. CASE UNCHANGED vars
  BY <1>7 DEF vars
<1> QED BY <1>1, <1>2, <1>3, <1>4, <1>5, <1>6, <1>7 DEF Next

\* A report reaches Sentry or finds it has heard of its class; nothing it heard of is lost.
Reported ==
  /\ captured \subseteq captured'
  /\ ~host.justBooted => heard' \subseteq captured'

LEMMA SentryHears ==
  ASSUME ProcessInv, NEW class, Server!CaptureError(class)
  PROVE  /\ Reported
         /\ SentryListens /\ telemetry = env.telemetry => class \in captured'
BY DEF ProcessInv, Reported, SentryListens, Server!CaptureError

\* Every step of the process.
LEMMA ProcessStepHolds ==
  ASSUME ProcessInv, ProcessStep
  PROVE  ProcessInv'
<1> USE DeploymentConstants DEF ProcessInv, PartStates, Server!Parts
<1>0. UNCHANGED <<env, host>> => (SentryListens' <=> SentryListens)
  BY DEF SentryListens
<1>1. ASSUME NEW e, NEW h, Server!Boot(e, h) PROVE ProcessInv'
  <2>1. /\ phase = "down" /\ phase' = "checking" /\ window' = window
        /\ host' = h /\ heard' = IF h.justBooted THEN ErrorClasses ELSE {}
        /\ UNCHANGED <<parts, fault, telemetry, captured, told>>
    BY <1>1 DEF Server!Boot, Server!Log!Configure
  <2> QED BY <2>1
<1>2. CASE Server!Validate
  <2>1. /\ phase = "checking" /\ phase' \in {"building", "refused"}
        /\ phase' = "building" => telemetry' = env.telemetry
        /\ UNCHANGED <<env, host, fault, captured, heard, told, window>>
    BY <1>2 DEF Server!Validate, Server!logVars
  <2>2. parts' = parts \/ parts' = [part \in Server!Parts |-> IF Server!Deployed(part) THEN "waiting" ELSE "off"]
    BY <1>2 DEF Server!Validate
  <2>3. ~window
    BY <2>1
  <2> QED BY <2>1, <2>2, <2>3
<1>3. ASSUME NEW ok \in BOOLEAN, Server!BuildVllm(ok) PROVE ProcessInv'
  <2>1. window' = window
    BY <1>3 DEF Server!BuildVllm, Server!logVars
  <2>2. UNCHANGED <<phase, env, host, telemetry, captured, heard, told>> /\ parts["engine"] = "waiting"
        /\ phase = "building"
    BY <1>3 DEF Server!BuildVllm
  <2>3. PICK done \in BOOLEAN : Server!Settles("engine", done)
    BY <1>3 DEF Server!BuildVllm
  <2> QED BY <1>0, <2>1, <2>2, <2>3 DEF Server!Settles
<1>4. CASE Server!StartTrt
  <2>1. /\ UNCHANGED <<phase, env, host, telemetry, captured, heard, told>>
        /\ parts["engine"] = "waiting" /\ phase = "building"
    BY <1>4 DEF Server!StartTrt
  <2>2. \/ Server!Settles("engine", FALSE) /\ window' = window
        \/ parts' = [parts EXCEPT !["engine"] = "building"] /\ UNCHANGED fault /\ window' \in BOOLEAN
    BY <1>4 DEF Server!StartTrt, Server!Log!EnterWindow, Server!logVars
  <2>3. CASE Server!Settles("engine", FALSE) /\ window' = window
    BY <1>0, <2>1, <2>3 DEF Server!Settles
  <2>4. CASE parts' = [parts EXCEPT !["engine"] = "building"] /\ UNCHANGED fault /\ window' \in BOOLEAN
    BY <1>0, <2>1, <2>4
  <2> QED BY <2>2, <2>3, <2>4
<1>5. CASE Server!StartOthers
  BY <1>0, <1>5 DEF Server!StartOthers, Server!logVars
<1>6. ASSUME NEW ok \in BOOLEAN, NEW part \in Server!Parts, Server!Finish(part, ok)
      PROVE  ProcessInv'
  <2>1. /\ UNCHANGED <<phase, env, host, telemetry, captured, heard, told>>
        /\ parts[part] = "building" /\ phase = "building" /\ Server!Settles(part, ok)
    BY <1>6 DEF Server!Finish
  <2>2. window' = IF part = "engine" THEN FALSE ELSE window
    BY <1>6 DEF Server!Finish, Server!Log!LeaveWindow, Server!logVars
  <2> QED BY <1>0, <2>1, <2>2 DEF Server!Settles
<1>7. ASSUME NEW class \in ErrorClasses, Server!Raise(class)
      PROVE  ProcessInv'
  <2>1. Reported
    BY <1>7, SentryHears DEF Server!Raise
  <2> QED BY <1>0, <1>7, <2>1 DEF Server!Raise, Server!logVars, Reported
<1>8. CASE Server!Abandon
  <2>1. /\ phase = "raised" /\ phase' = "stopped" /\ window' = FALSE
        /\ UNCHANGED <<env, host, parts, fault, telemetry, captured, heard, told>>
    BY <1>8 DEF Server!Abandon, Server!Log!LeaveWindow, Server!logVars
  <2> QED BY <1>0, <2>1
<1>9. CASE Server!Serve
  BY <1>0, <1>9 DEF Server!Serve, Server!logVars
<1>10. ASSUME NEW outcome, Server!ShutEngine(outcome)
       PROVE  ProcessInv'
  <2>1. /\ phase = "serving" /\ phase' = "stopping" /\ UNCHANGED <<env, host, telemetry, told, window>>
        /\ parts' = [parts EXCEPT !["engine"] = IF @ = "built" /\ outcome = "done" THEN "shut" ELSE @]
    BY <1>10 DEF Server!ShutEngine, Server!logVars
  <2>2. CASE outcome \in ErrorClasses
    <3>1. fault' = outcome /\ Server!CaptureError(outcome)
      BY <1>10, <2>2 DEF Server!ShutEngine
    <3>2. Reported /\ (SentryListens => outcome \in captured')
      BY <2>1, <3>1, SentryHears
    <3> QED BY <1>0, <2>1, <2>2, <3>1, <3>2 DEF Reported
  <2>3. CASE outcome \notin ErrorClasses
    <3>1. UNCHANGED <<fault, captured, heard>>
      BY <1>10, <2>3 DEF Server!ShutEngine
    <3> QED BY <1>0, <2>1, <3>1
  <2> QED BY <2>2, <2>3
<1>11. CASE Server!ShutTelemetry
  BY <1>0, <1>11 DEF Server!ShutTelemetry, Server!logVars
<1>12. CASE Server!Logging
  <2>1. UNCHANGED <<phase, env, host, parts, fault, telemetry, captured, heard, told>>
    BY <1>12 DEF Server!Logging, Server!processVars
  <2>2. window' = window
    BY <1>12 DEF Server!Logging, Server!Log!NativeWrite, Server!Log!Write, Server!Log!Flush,
           Server!Log!Drain,
                 Server!Log!NativeDrain
  <2> QED BY <1>0, <2>1, <2>2
<1>13. CASE UNCHANGED serverVars
  BY <1>0, <1>13 DEF serverVars
<1>14. ASSUME NEW class \in ErrorClasses, Server!ServingError(class)
       PROVE  ProcessInv'
  <2>1. Reported
    BY <1>14, SentryHears DEF Server!ServingError
  <2> QED BY <1>0, <1>14, <2>1 DEF Server!ServingError, Server!logVars, Reported
<1>15. ASSUME NEW class \in ErrorClasses, Server!WindowPasses(class)
       PROVE  ProcessInv'
  BY <1>0, <1>15 DEF Server!WindowPasses, Server!logVars
<1> QED BY <1>1, <1>2, <1>3, <1>4, <1>5, <1>6, <1>7, <1>8, <1>9, <1>10, <1>11, <1>12, <1>13,
           <1>14, <1>15
        DEF ProcessStep, Server!Runs

\* What is said of the process holds whenever the deployment runs.
LEMMA ProcessHolds == Spec => []ProcessInv
<1>1. Init => ProcessInv
  BY DeploymentConstants DEF Init, Server!Init, Server!Log!Init, ProcessInv, PartStates,
         Server!Parts
<1>2. ProcessInv /\ [Next]_vars => ProcessInv'
  BY StepsOfProcess, ProcessStepHolds
<1> QED BY <1>1, <1>2, PTL DEF Spec

(* Where the failure of an engine is told, its own window is closed: whoever *)
(* else fails, in whatever order the parts come to their ends (fd.py:40-55   *)
(* around trt/factory.py:34 and vllm/factory.py:26).                         *)
THEOREM FailureIsTold == Spec => []EngineFailureIsSeen
<1>1. ProcessInv => EngineFailureIsSeen
  BY DEF ProcessInv, EngineFailureIsSeen, Server!EngineFailureIsSeen
<1> QED BY <1>1, ProcessHolds, PTL

(* A server that served stops its exporters last: none of them is left, and  *)
(* of an engine that would not stop Sentry had heard, or of an error of its  *)
(* class within the window they share (server.py:111-119, sentry.py:83-88).  *)
THEOREM NothingIsLeftRunning == Spec => []ShutdownIsComplete
<1>1. ProcessInv => ShutdownIsComplete
  BY DEF ProcessInv, ShutdownIsComplete, Server!ShutdownIsComplete, SentryListens
<1> QED BY <1>1, ProcessHolds, PTL

-----------------------------------------------------------------------------
(* The log of the process *)

\* Counting up from 0 reaches every number of an interval.
LEMMA CountUp ==
  ASSUME NEW n \in Nat, NEW P, 0 \in P, \A k \in 0 .. n - 1 : k \in P => k + 1 \in P
  PROVE  \A k \in 0 .. n : k \in P
<1> SUFFICES ASSUME NEW j \in 0 .. n, j \notin P
             PROVE  FALSE
  OBVIOUS
<1> DEFINE Out == {k \in 0 .. n : k \notin P}
<1>1. Out \in SUBSET Nat /\ Out # {}
  OBVIOUS
<1>2. PICK m \in Out : \A k \in Out : ~(<<k, m>> \in OpToRel(<, Nat))
  BY <1>1, NatLessThanWellFounded, WFMin
<1>3. ASSUME NEW k \in Out, k < m PROVE FALSE
  <2>1. <<k, m>> \in OpToRel(<, Nat)
    BY <1>3 DEF OpToRel
  <2> QED BY <1>2, <2>1, Zenon
<1>4. m # 0 /\ m - 1 \in 0 .. n - 1
  <2>1. m \in 0 .. n /\ m \notin P
    OBVIOUS
  <2> HIDE DEF Out
  <2> QED BY <2>1
<1>5. m - 1 \in P
  BY <1>3, <1>4
<1> QED BY <1>4, <1>5

\* A loop of n rounds: what it has after each of them.
Rounds(g, n, base, Op) == g = [k \in 0 .. n |-> IF k = 0 THEN base ELSE Op[<<g[k - 1], k>>]]

\* There are such values.
LEMMA RoundsExist ==
  ASSUME NEW V, NEW n \in Nat, NEW base \in V, NEW Op \in [V \X (1 .. n) -> V]
  PROVE  \E g \in [0 .. n -> V] : Rounds(g, n, base, Op)
<1> DEFINE P == {k \in 0 .. n : \E g \in [0 .. k -> V] : Rounds(g, k, base, Op)}
<1>1. 0 \in P
  <2> DEFINE g == [k \in 0 .. 0 |-> base]
  <2>1. g \in [0 .. 0 -> V] /\ Rounds(g, 0, base, Op)
    BY DEF Rounds
  <2> QED BY <2>1
<1>2. ASSUME NEW k \in 0 .. n - 1, k \in P
      PROVE  k + 1 \in P
  <2>1. PICK g \in [0 .. k -> V] : Rounds(g, k, base, Op)
    BY <1>2
  <2> DEFINE h == [j \in 0 .. k + 1 |-> IF j = k + 1 THEN Op[<<g[k], k + 1>>] ELSE g[j]]
  <2>2. g[k] \in V /\ Op[<<g[k], k + 1>>] \in V
    OBVIOUS
  <2>3. h \in [0 .. k + 1 -> V]
    BY <2>2
  <2>4. \A j \in 0 .. k : h[j] = g[j]
    OBVIOUS
  <2>5. h[k + 1] = Op[<<h[k], k + 1>>]
    <3>1. k + 1 \in 0 .. k + 1 /\ k \in 0 .. k
      OBVIOUS
    <3>2. h[k + 1] = Op[<<g[k], k + 1>>]
      BY <3>1
    <3> QED BY <3>1, <3>2, <2>4
  <2>6. \A j \in 0 .. k : g[j] = IF j = 0 THEN base ELSE Op[<<g[j - 1], j>>]
    BY <2>1 DEF Rounds
  <2>7. \A j \in 0 .. k + 1 : h[j] = IF j = 0 THEN base ELSE Op[<<h[j - 1], j>>]
    <3> SUFFICES ASSUME NEW j \in 0 .. k + 1 PROVE h[j] = IF j = 0 THEN base ELSE Op[<<h[j - 1], j>>]
      OBVIOUS
    <3> HIDE DEF h
    <3>1. CASE j = k + 1
      BY <2>5, <3>1
    <3>2. CASE j # k + 1
      <4>1. j \in 0 .. k /\ (j # 0 => j - 1 \in 0 .. k)
        BY <3>2
      <4> QED BY <4>1, <2>4, <2>6
    <3> QED BY <3>1, <3>2
  <2>8. Rounds(h, k + 1, base, Op)
    <3>1. DOMAIN h = 0 .. k + 1
      OBVIOUS
    <3>2. h = [j \in 0 .. k + 1 |-> h[j]]
      OBVIOUS
    <3> HIDE DEF h
    <3> QED BY <2>7, <3>1, <3>2 DEF Rounds
  <2>9. k + 1 \in 0 .. n
    OBVIOUS
  <2> HIDE DEF h
  <2> QED BY <2>3, <2>8, <2>9
<1> HIDE DEF P
<1>3. n \in P
  BY <1>1, <1>2, CountUp
<1> QED BY <1>3 DEF P

\* Going through a sequence from the front: what there is after each element.
Path(f, base, Op, s) == f[0] = base /\ \A i \in 1 .. Len(s) : f[i] = Op[<<f[i - 1], s[i]>>]

\* There is such a path through every sequence.
LEMMA PathExists ==
  ASSUME NEW V, NEW A, NEW base \in V, NEW Op \in [V \X A -> V], NEW s \in Seq(A)
  PROVE  \E f \in [0 .. Len(s) -> V] : Path(f, base, Op, s)
<1> DEFINE n == Len(s)
           Round == [x \in V \X (1 .. n) |-> Op[<<x[1], s[x[2]]>>]]
<1>1. n \in Nat /\ \A i \in 1 .. n : s[i] \in A
  OBVIOUS
<1>2. Round \in [V \X (1 .. n) -> V]
  <2> HIDE DEF n
  <2>1. \A v \in V, i \in 1 .. n : Op[<<v, s[i]>>] \in V
    BY <1>1
  <2> QED BY <2>1
<1>3. PICK f \in [0 .. n -> V] : Rounds(f, n, base, Round)
  <2> HIDE DEF n, Round
  <2> QED BY <1>1, <1>2, RoundsExist
<1>4. f[0] = base
  <2> HIDE DEF n, Round
  <2> QED BY <1>1, <1>3 DEF Rounds
<1>5. ASSUME NEW i \in 1 .. n PROVE f[i] = Op[<<f[i - 1], s[i]>>]
  <2> HIDE DEF n
  <2>1. i \in 0 .. n /\ i # 0 /\ i - 1 \in 0 .. n
    BY <1>1
  <2>2. f[i] = Round[<<f[i - 1], i>>]
    <3> HIDE DEF Round
    <3> QED BY <1>3, <2>1 DEF Rounds
  <2>3. f[i - 1] \in V
    BY <2>1
  <2> QED BY <2>2, <2>3
<1> QED BY <1>4, <1>5 DEF Path

\* A sequence and one more element, and two sequences one after the other.
Longer(s, c) == Append(s, c)

Join(s, t) == s \o t

\* Where a path ends, and one step of it.
Ends(f, s) == f[Len(s)]

After(Op, v, c) == Op[<<v, c>>]

\* One more element is gone through last.
LEMMA PathGoesOn ==
  ASSUME NEW A, NEW s \in Seq(A), NEW c \in A, NEW base, NEW Op, NEW f, NEW g,
         Path(f, base, Op, s), Path(g, base, Op, Longer(s, c))
  PROVE  Ends(g, Longer(s, c)) = After(Op, Ends(f, s), c)
<1> DEFINE n == Len(s)
           t == Longer(s, c)
           P == {k \in 0 .. n : f[k] = g[k]}
<1>1. n \in Nat /\ Len(t) = n + 1 /\ t[n + 1] = c /\ \A i \in 1 .. n : t[i] = s[i]
  BY AppendProperties DEF Longer
<1> HIDE DEF t, n
<1>2. /\ f[0] = base /\ \A i \in 1 .. n : f[i] = Op[<<f[i - 1], s[i]>>]
      /\ g[0] = base /\ \A i \in 1 .. n + 1 : g[i] = Op[<<g[i - 1], t[i]>>]
  BY <1>1 DEF Path, t, n
<1>3. 0 \in P
  BY <1>1, <1>2
<1>4. ASSUME NEW k \in 0 .. n - 1, k \in P PROVE k + 1 \in P
  <2>1. k + 1 \in 1 .. n /\ k + 1 \in 1 .. n + 1 /\ (k + 1) - 1 = k /\ k + 1 \in 0 .. n
    BY <1>1
  <2>2. f[k + 1] = Op[<<f[k], s[k + 1]>>] /\ g[k + 1] = Op[<<g[k], s[k + 1]>>]
    BY <1>1, <1>2, <2>1
  <2> QED BY <1>4, <2>1, <2>2
<1> HIDE DEF P
<1>5. n \in P
  <2>1. \A k \in 0 .. n : k \in P
    BY <1>1, <1>3, <1>4, CountUp
  <2> QED BY <1>1, <2>1
<1>6. f[n] = g[n]
  BY <1>5 DEF P
<1>7. n + 1 \in 1 .. n + 1 /\ (n + 1) - 1 = n
  BY <1>1
<1>8. g[n + 1] = Op[<<g[n], t[n + 1]>>]
  BY <1>2, <1>7
<1> QED BY <1>1, <1>6, <1>8 DEF t, n, Ends, After

\* Joining goes on with one more element.
LEMMA LongerLaw ==
  ASSUME NEW A, NEW s \in Seq(A), NEW c \in A, NEW x \in Seq(A)
  PROVE  /\ Longer(s, c) \in Seq(A) /\ Join(x, s) \in Seq(A)
         /\ Join(x, Longer(s, c)) = Longer(Join(x, s), c)
<1>1. Append(s, c) \in Seq(A) /\ x \o s \in Seq(A)
  BY AppendProperties, ConcatProperties
<1>2. x \o Append(s, c) = Append(x \o s, c)
  BY <1>1
<1> QED BY <1>1, <1>2 DEF Longer, Join

\* Joining is associative.
LEMMA JoinLaw ==
  ASSUME NEW A, NEW s \in Seq(A), NEW t \in Seq(A), NEW u \in Seq(A)
  PROVE  Join(s, t) \in Seq(A) /\ Join(s, Join(t, u)) = Join(Join(s, t), u)
BY ConcatProperties, ConcatAssociative DEF Join

\* Nothing is joined without a change.
LEMMA JoinEmpty ==
  ASSUME NEW A, NEW s \in Seq(A)
  PROVE  Join(s, <<>>) = s /\ Join(<<>>, s) = s /\ <<>> \in Seq(A)
BY ConcatEmptySeq, EmptySeq DEF Join

\* What holds of the empty sequence and of one more element holds of every sequence.
LEMMA AtomByAtom ==
  ASSUME NEW A, NEW P, <<>> \in P,
         \A s \in Seq(A), c \in A : s \in P => Longer(s, c) \in P
  PROVE  Seq(A) \subseteq P
<1> DEFINE N == {n \in Nat : \A s \in Seq(A) : Len(s) = n => s \in P}
<1> SUFFICES ASSUME NEW s \in Seq(A) PROVE s \in P
  OBVIOUS
<1>1. 0 \in N
  BY EmptySeq
<1>2. ASSUME NEW k \in Nat, k \in N PROVE k + 1 \in N
  <2> SUFFICES ASSUME NEW t \in Seq(A), Len(t) = k + 1 PROVE t \in P
    OBVIOUS
  <2>1. t # <<>>
    BY EmptySeq
  <2>2. PICK r \in Seq(A), c \in A : t = Append(r, c)
    BY <2>1, SequenceEmptyOrAppend
  <2>3. Len(r) = k
    BY <2>2, AppendProperties
  <2>4. r \in P
    BY <1>2, <2>3
  <2> QED BY <2>2, <2>4 DEF Longer
<1> DEFINE n == Len(s)
<1>3. n \in Nat
  OBVIOUS
<1> HIDE DEF N, n
<1>4. \A k \in 0 .. n : k \in N
  BY <1>1, <1>2, <1>3, CountUp
<1>5. n \in N
  BY <1>3, <1>4
<1> QED BY <1>5 DEF N, n

\* One wrapper, atom by atom.
Sends(A) == [sent : Seq(A), held : Seq(A)]

WriteOp(A, name) ==
  [x \in Sends(A) \X A |->
     LET line == Append(x[1].held, x[2])
     IN IF x[2].word = "NL"
        THEN [sent |-> x[1].sent \o Server!Log!Emitted(line, Server!Log!NoisePatterns[name]), held |-> <<>>]
        ELSE [sent |-> x[1].sent, held |-> line]]

NoneSent == [sent |-> <<>>, held |-> <<>>]

\* WriteThrough goes through what was held and what is written along a path.
LEMMA WritePath ==
  ASSUME NEW A, NEW name, NEW held \in Seq(A), NEW text \in Seq(A)
  PROVE  /\ WriteOp(A, name) \in [Sends(A) \X A -> Sends(A)]
         /\ \E f \in [0 .. Len(held \o text) -> Sends(A)] :
              /\ Path(f, NoneSent, WriteOp(A, name), held \o text)
              /\ Server!Log!WriteThrough(name, held, text) = f[Len(held \o text)]
<1> DEFINE buffer == held \o text
           n == Len(buffer)
           V == Sends(A)
           Op == WriteOp(A, name)
           Go(before, a) ==
             LET line == Append(before.held, a)
             IN IF a.word = "NL"
                THEN [sent |-> before.sent \o Server!Log!Emitted(line, Server!Log!NoisePatterns[name]), held |-> <<>>]
                ELSE [sent |-> before.sent, held |-> line]
           at == CHOOSE g : g = [i \in 0 .. n |-> IF i = 0 THEN NoneSent ELSE Go(g[i - 1], buffer[i])]
<1>1. buffer \in Seq(A)
  BY ConcatProperties
<1>2. n \in Nat /\ \A i \in 1 .. n : buffer[i] \in A
  <2> HIDE DEF buffer
  <2> QED BY <1>1
<1>3. NoneSent \in V
  BY EmptySeq DEF NoneSent, Sends
<1> HIDE DEF buffer
<1>4. ASSUME NEW v \in V, NEW a \in A PROVE Go(v, a) \in V
  <2> DEFINE line == Append(v.held, a)
             sent == Server!Log!Emitted(line, Server!Log!NoisePatterns[name])
  <2>1. v.held \in Seq(A) /\ v.sent \in Seq(A)
    BY DEF Sends
  <2>2. line \in Seq(A)
    BY <2>1, AppendProperties
  <2> HIDE DEF line
  <2>3. sent \in Seq(A)
    BY <2>2, EmptySeq DEF Server!Log!Emitted
  <2> HIDE DEF sent
  <2>4. v.sent \o sent \in Seq(A) /\ <<>> \in Seq(A)
    BY <2>1, <2>3, ConcatProperties, EmptySeq
  <2> QED BY <2>1, <2>2, <2>4 DEF line, sent, Sends
<1>5. Op = [x \in V \X A |-> Go(x[1], x[2])]
  BY DEF WriteOp
<1>6. Op \in [V \X A -> V]
  <2> HIDE DEF V, Go, Op
  <2> QED BY <1>4, <1>5
<1>7. \A v \in V, a \in A : Op[<<v, a>>] = Go(v, a)
  <2> HIDE DEF V, Go, Op
  <2> QED BY <1>5
<1>8. PICK f \in [0 .. n -> V] : Path(f, NoneSent, Op, buffer)
  <2> HIDE DEF V, Op
  <2> QED BY <1>1, <1>3, <1>6, PathExists
<1> HIDE DEF V, Op, Go
<1>9. f = [i \in 0 .. n |-> IF i = 0 THEN NoneSent ELSE Go(f[i - 1], buffer[i])]
  <2>1. f[0] = NoneSent /\ \A i \in 1 .. n : f[i] = Op[<<f[i - 1], buffer[i]>>]
    BY <1>8 DEF Path
  <2> HIDE DEF n
  <2>2. \A i \in 1 .. n : f[i - 1] \in V
    BY <1>2, <1>8
  <2>3. \A i \in 1 .. n : f[i] = Go(f[i - 1], buffer[i])
    BY <1>2, <1>7, <2>1, <2>2
  <2>4. \A i \in 0 .. n : i # 0 => i \in 1 .. n
    BY <1>2
  <2> QED BY <1>8, <2>1, <2>3, <2>4
<1>10. at = [i \in 0 .. n |-> IF i = 0 THEN NoneSent ELSE Go(at[i - 1], buffer[i])]
  <2> HIDE DEF n
  <2> QED BY <1>9
<1> DEFINE P == {k \in 0 .. n : at[k] \in V}
<1>11. \A k \in 0 .. n : k \in P
  <2>1. 0 \in P
    <3> HIDE DEF at, n
    <3> QED BY <1>2, <1>3, <1>10
  <2>2. ASSUME NEW k \in 0 .. n - 1, k \in P PROVE k + 1 \in P
    <3> HIDE DEF at, n
    <3>1. k + 1 \in 1 .. n /\ k + 1 \in 0 .. n /\ k + 1 # 0 /\ (k + 1) - 1 = k
      BY <1>2
    <3>2. at[k + 1] = Go(at[k], buffer[k + 1]) /\ buffer[k + 1] \in A
      BY <1>2, <3>1, <1>10
    <3> QED BY <3>1, <3>2, <2>2, <1>4
  <2> HIDE DEF P, n
  <2> QED BY <1>2, <2>1, <2>2, CountUp
<1>12. at \in [0 .. n -> V] /\ Path(at, NoneSent, Op, buffer)
  <2> HIDE DEF at
  <2>1. \A i \in 1 .. n : i - 1 \in 0 .. n /\ i # 0 /\ i \in 0 .. n
    <3> HIDE DEF n
    <3> QED BY <1>2
  <2>2. \A i \in 1 .. n : at[i] = Op[<<at[i - 1], buffer[i]>>]
    <3> HIDE DEF n
    <3> QED BY <1>2, <1>7, <1>10, <1>11, <2>1
  <2>3. at[0] = NoneSent
    <3> HIDE DEF n
    <3> QED BY <1>2, <1>10
  <2>4. at \in [0 .. n -> V]
    <3> HIDE DEF n
    <3> QED BY <1>10, <1>11
  <2> QED BY <2>2, <2>3, <2>4 DEF Path
<1>13. Server!Log!WriteThrough(name, held, text) = at[n]
  BY DEF Server!Log!WriteThrough, buffer, Go, NoneSent
<1> HIDE DEF at
<1> QED BY <1>6, <1>12, <1>13 DEF V, Op, buffer

\* A wrapper sends on and keeps what it was given, and nothing else.
LEMMA WrittenIsGiven ==
  ASSUME NEW A, NEW name, NEW held \in Seq(A), NEW text \in Seq(A)
  PROVE  Server!Log!WriteThrough(name, held, text) \in [sent : Seq(A), held : Seq(A)]
<1> DEFINE buffer == held \o text
           n == Len(buffer)
           V == Sends(A)
           Op == WriteOp(A, name)
<1>1. \E f \in [0 .. n -> V] : Path(f, NoneSent, Op, buffer) /\ Server!Log!WriteThrough(name, held, text) = f[n]
  BY WritePath
<1>2. buffer \in Seq(A)
  BY ConcatProperties
<1> HIDE DEF buffer, V, Op
<1>3. n \in Nat
  BY <1>2
<1> HIDE DEF n
<1>4. n \in 0 .. n
  BY <1>3
<1>5. Server!Log!WriteThrough(name, held, text) \in V
  BY <1>1, <1>4
<1> QED BY <1>5 DEF V, Sends

\* So does one that is flushed, and it is empty afterwards.
LEMMA FlushedIsGiven ==
  ASSUME NEW A, NEW name, NEW held \in Seq(A), NEW text \in Seq(A)
  PROVE  Server!Log!FlushThrough(name, held, text) \in [sent : Seq(A), held : {<<>>}]
<1> DEFINE through == Server!Log!WriteThrough(name, held, text)
           rest == Server!Log!Emitted(through.held, Server!Log!NoisePatterns[name])
<1>1. through.sent \in Seq(A) /\ through.held \in Seq(A)
  BY WrittenIsGiven, Zenon
<1> HIDE DEF through
<1>2. rest \in Seq(A)
  BY <1>1, EmptySeq DEF Server!Log!Emitted
<1> HIDE DEF rest
<1>3. through.sent \o rest \in Seq(A)
  BY <1>1, <1>2, ConcatProperties
<1>4. Server!Log!FlushThrough(name, held, text) = [sent |-> through.sent \o rest, held |-> <<>>]
  BY DEF Server!Log!FlushThrough, through, rest
<1> QED BY <1>3, <1>4

\* What one wrapper of the chain makes of what reaches it.
Through(flushed, k, held, sent) ==
  IF flushed THEN Server!Log!FlushThrough(chain[k], held[k], sent) ELSE Server!Log!WriteThrough(chain[k], held[k], sent)

\* A descent, wrapper by wrapper.
DescentOf(at, flushed, A, n, held, text) ==
  /\ at[0].sent = text /\ at[0].held = <<>>
  /\ \A k \in 0 .. n : at[k].sent \in Seq(A) /\ at[k].held \in Seq(IF flushed THEN {<<>>} ELSE Seq(A))
                       /\ Len(at[k].held) = k
  /\ \A k \in 1 .. n : /\ at[k].sent = Through(flushed, k, held, at[k - 1].sent).sent
                       /\ at[k].held = Longer(at[k - 1].held, Through(flushed, k, held, at[k - 1].sent).held)

\* Descend goes down the chain like that.
LEMMA DescentPath ==
  ASSUME NEW A, NEW flushed \in BOOLEAN, NEW n \in Nat, n = Len(chain),
         NEW held \in Seq(Seq(A)), Len(held) = n, NEW text \in Seq(A)
  PROVE  \E at : Server!Log!Descend(flushed, held, text) = at[n] /\ DescentOf(at, flushed, A, n, held, text)
<1> DEFINE H == IF flushed THEN {<<>>} ELSE Seq(A)
           V == [sent : Seq(A), held : Seq(H)]
           base == [sent |-> text, held |-> <<>>]
           Go(before, k) ==
             LET through == IF flushed THEN Server!Log!FlushThrough(chain[k], held[k], before.sent)
                            ELSE Server!Log!WriteThrough(chain[k], held[k], before.sent)
             IN [sent |-> through.sent, held |-> Append(before.held, through.held)]
           Op == [x \in V \X (1 .. n) |-> Go(x[1], x[2])]
           at == CHOOSE g : g = [k \in 0 .. n |-> IF k = 0 THEN base ELSE Go(g[k - 1], k)]
<1>1. n \in Nat
  OBVIOUS
<1>2. \A k \in 1 .. n : held[k] \in Seq(A)
  BY ElementOfSeq
<1>3. base \in V
  BY EmptySeq
<1>4. ASSUME NEW v \in V, NEW k \in 1 .. n
      PROVE  Go(v, k) \in V /\ Len(Go(v, k).held) = Len(v.held) + 1
  <2> DEFINE through == IF flushed THEN Server!Log!FlushThrough(chain[k], held[k], v.sent)
                        ELSE Server!Log!WriteThrough(chain[k], held[k], v.sent)
  <2>1. held[k] \in Seq(A) /\ v.sent \in Seq(A) /\ v.held \in Seq(H)
    BY <1>2
  <2>2. through.sent \in Seq(A) /\ through.held \in H
    <3>1. CASE flushed
      <4>1. Server!Log!FlushThrough(chain[k], held[k], v.sent) \in [sent : Seq(A), held : {<<>>}]
        BY <2>1, FlushedIsGiven
      <4> QED BY <3>1, <4>1
    <3>2. CASE ~flushed
      <4>1. Server!Log!WriteThrough(chain[k], held[k], v.sent) \in [sent : Seq(A), held : Seq(A)]
        BY <2>1, WrittenIsGiven
      <4> QED BY <3>2, <4>1
    <3> QED BY <3>1, <3>2
  <2> HIDE DEF through, H
  <2>3. Append(v.held, through.held) \in Seq(H) /\ Len(Append(v.held, through.held)) = Len(v.held) + 1
    BY <2>1, <2>2, AppendProperties
  <2>4. Go(v, k) = [sent |-> through.sent, held |-> Append(v.held, through.held)]
    BY DEF through
  <2> HIDE DEF Go
  <2> QED BY <2>2, <2>3, <2>4
<1>5. Op \in [V \X (1 .. n) -> V]
  <2> HIDE DEF V, Go
  <2> QED BY <1>4
<1>6. PICK g \in [0 .. n -> V] : Rounds(g, n, base, Op)
  <2> HIDE DEF V, base, Op
  <2> QED BY <1>1, <1>3, <1>5, RoundsExist
<1>7. g = [k \in 0 .. n |-> IF k = 0 THEN base ELSE Go(g[k - 1], k)]
  <2> HIDE DEF V, Go, base
  <2>1. \A k \in 1 .. n : g[k - 1] \in V
    <3> HIDE DEF Op, at
    <3>1. \A k \in 1 .. n : k - 1 \in 0 .. n
      BY <1>1
    <3> QED BY <1>6, <3>1
  <2>2. \A k \in 1 .. n : Op[<<g[k - 1], k>>] = Go(g[k - 1], k)
    BY <2>1
  <2> HIDE DEF Op
  <2>3. \A k \in 0 .. n : k # 0 => k \in 1 .. n
    BY <1>1
  <2> QED BY <1>6, <2>2, <2>3 DEF Rounds
<1>8. at = [k \in 0 .. n |-> IF k = 0 THEN base ELSE Go(at[k - 1], k)]
  <2> HIDE DEF Go, base
  <2> QED BY <1>7
<1> DEFINE P == {k \in 0 .. n : at[k] \in V /\ Len(at[k].held) = k}
<1>9. \A k \in 0 .. n : k \in P
  <2>1. 0 \in P
    <3>1. Len(base.held) = 0
      BY EmptySeq
    <3> HIDE DEF base, Go, at, V
    <3> QED BY <1>1, <1>3, <1>8, <3>1
  <2>2. ASSUME NEW k \in 0 .. n - 1, k \in P PROVE k + 1 \in P
    <3> HIDE DEF at, V, base, Go
    <3>1. k + 1 \in 1 .. n /\ k + 1 \in 0 .. n /\ k + 1 # 0 /\ (k + 1) - 1 = k
      BY <1>1
    <3>2. at[k + 1] = Go(at[k], k + 1)
      BY <3>1, <1>8
    <3> QED BY <3>1, <3>2, <2>2, <1>4
  <2> HIDE DEF P
  <2> QED BY <1>1, <2>1, <2>2, CountUp
<1>10. Server!Log!Descend(flushed, held, text) = at[n]
  BY DEF Server!Log!Descend
<1> HIDE DEF at
<1>11. at[0] = base
  <2> HIDE DEF Go, base
  <2> QED BY <1>1, <1>8
<1>12. ASSUME NEW k \in 1 .. n
       PROVE  /\ at[k].sent = Through(flushed, k, held, at[k - 1].sent).sent
              /\ at[k].held = Longer(at[k - 1].held, Through(flushed, k, held, at[k - 1].sent).held)
  <2>1. k \in 0 .. n /\ k # 0
    BY <1>1
  <2>2. at[k] = Go(at[k - 1], k)
    <3> HIDE DEF Go, base
    <3> QED BY <1>8, <2>1
  <2> DEFINE through == Through(flushed, k, held, at[k - 1].sent)
  <2>3. at[k] = [sent |-> through.sent, held |-> Append(at[k - 1].held, through.held)]
    BY <2>2 DEF Through
  <2> HIDE DEF through
  <2>4. at[k].sent = through.sent /\ at[k].held = Append(at[k - 1].held, through.held)
    BY <2>3
  <2> QED BY <2>4 DEF through, Longer
<1>13. at[0].sent = text /\ at[0].held = <<>>
  BY <1>11
<1>14. \A k \in 0 .. n : at[k].sent \in Seq(A) /\ at[k].held \in Seq(H) /\ Len(at[k].held) = k
  BY <1>9
<1> HIDE DEF H
<1>15. DescentOf(at, flushed, A, n, held, text)
  BY <1>12, <1>13, <1>14 DEF DescentOf, H
<1> QED BY <1>10, <1>15

\* What goes down the chain comes out of it or waits in one of its wrappers, and
\* after a flush in none.
LEMMA DescentIsGiven ==
  ASSUME NEW A, NEW flushed \in BOOLEAN, Len(chain) \in Nat,
         NEW held \in Seq(Seq(A)), Len(held) = Len(chain), NEW text \in Seq(A)
  PROVE  LET through == Server!Log!Descend(flushed, held, text)
         IN /\ through.sent \in Seq(A) /\ through.held \in Seq(Seq(A))
            /\ Len(through.held) = Len(chain)
            /\ flushed => through.held \in Seq({<<>>})
<1> DEFINE n == Len(chain)
<1>1. n \in Nat /\ n = Len(chain) /\ Len(held) = n
  OBVIOUS
<1> HIDE DEF n
<1>2. PICK at : Server!Log!Descend(flushed, held, text) = at[n] /\ DescentOf(at, flushed, A, n, held, text)
  BY <1>1, DescentPath
<1>3. at[n].sent \in Seq(A) /\ at[n].held \in Seq(IF flushed THEN {<<>>} ELSE Seq(A)) /\ Len(at[n].held) = n
  BY <1>1, <1>2 DEF DescentOf
<1>4. Seq({<<>>}) \subseteq Seq(Seq(A))
  <2> DEFINE none == {<<>>}
             all == Seq(A)
  <2>1. none \subseteq all
    BY EmptySeq
  <2> HIDE DEF none, all
  <2>2. Seq(none) \subseteq Seq(all)
    BY <2>1, SeqMonotonic
  <2> QED BY <2>2 DEF none, all
<1> QED BY <1>1, <1>2, <1>3, <1>4

\* An atom of the application is marked with the window it was written in, as long
\* as it has not left the process; one written past the wrappers' stream with any.
Mine == [word : STRING, writer : {"stdout"}, inside : {window}]
Native == [word : STRING, writer : {"native"}, inside : {window}]
Other == [word : STRING, writer : {"__stdout__"}, inside : BOOLEAN]
AtomsOf(w) == IF w = "stdout" THEN Mine ELSE Other

AllWriters == {"stdout", "__stdout__", "native"}

\* What has left goes where its writer's window says.
Placed == {d \in [atom : [word : STRING, writer : AllWriters, inside : BOOLEAN], to : {"null", "terminal"}] :
             d.atom.writer # "__stdout__" => (d.to = "null" <=> d.atom.inside)}

WindowInv ==
  /\ window \in BOOLEAN /\ Len(chain) \in Nat
  /\ buffers = [w \in Server!Log!Writers |-> buffers[w]]
  /\ \A w \in Server!Log!Writers : buffers[w] \in Seq(Seq(AtomsOf(w))) /\ Len(buffers[w]) = Len(chain)
  /\ io \in Seq(Mine \cup Other) /\ libc \in Seq(Native)
  /\ drained \in Seq(Placed)

\* What drains is placed.
LEMMA DrainsArePlaced ==
  ASSUME window \in BOOLEAN, NEW text \in Seq(Mine \cup Other \cup Native)
  PROVE  Server!Log!Drains(text) \in Seq(Placed)
<1> DEFINE D(i) == [atom |-> text[i], to |-> IF window THEN "null" ELSE "terminal"]
           n == Len(text)
<1>1. n \in Nat /\ DOMAIN text = 1 .. n /\ \A i \in 1 .. n : text[i] \in Mine \cup Other \cup Native
  <2> DEFINE A == Mine \cup Other \cup Native
  <2>1. text \in Seq(A)
    OBVIOUS
  <2> HIDE DEF A
  <2>2. n \in Nat /\ DOMAIN text = 1 .. n /\ \A i \in 1 .. n : text[i] \in A
    BY <2>1
  <2> QED BY <2>2 DEF A
<1> HIDE DEF n
<1>2. ASSUME NEW i \in 1 .. n PROVE D(i) \in Placed
  <2> DEFINE a == text[i]
  <2>1. a \in Mine \/ a \in Other \/ a \in Native
    BY <1>1
  <2> HIDE DEF a
  <2>2. /\ a \in [word : STRING, writer : AllWriters, inside : BOOLEAN]
        /\ a.writer # "__stdout__" => a.inside = window
    <3>1. CASE a \in Mine
      BY <3>1 DEF Mine, AllWriters
    <3>2. CASE a \in Other
      BY <3>2 DEF Other, AllWriters
    <3>3. CASE a \in Native
      BY <3>3 DEF Native, AllWriters
    <3> QED BY <2>1, <3>1, <3>2, <3>3
  <2>3. [atom |-> a, to |-> IF window THEN "null" ELSE "terminal"] \in Placed
    BY <2>2 DEF Placed
  <2> QED BY <2>3 DEF a
<1>3. Server!Log!Drains(text) = [i \in 1 .. n |-> D(i)]
  BY <1>1 DEF Server!Log!Drains
<1> HIDE DEF D
<1> QED BY <1>1, <1>2, <1>3

\* What a writer writes is its own, and marked with the window of now.
LEMMA MarkedIsOnesOwn ==
  ASSUME window \in BOOLEAN, NEW words \in Seq(STRING)
  PROVE  /\ \A w \in Server!Log!Writers : Server!Log!Marked(w, words) \in Seq(AtomsOf(w))
         /\ Server!Log!Marked("native", words) \in Seq(Native)
<1>1. Len(words) \in Nat /\ DOMAIN words = 1 .. Len(words) /\ \A i \in 1 .. Len(words) : words[i] \in STRING
  OBVIOUS
<1>2. ASSUME NEW w \in Server!Log!Writers, NEW i \in 1 .. Len(words)
      PROVE  [word |-> words[i], writer |-> w, inside |-> window] \in AtomsOf(w)
  BY <1>1 DEF AtomsOf, Mine, Other, Server!Log!Writers
<1>3. ASSUME NEW i \in 1 .. Len(words)
      PROVE  [word |-> words[i], writer |-> "native", inside |-> window] \in Native
  BY <1>1 DEF Native
<1> QED BY <1>1, <1>2, <1>3 DEF Server!Log!Marked

\* The atoms under way are a writer's own, or native.
LEMMA AtomsUnderWay ==
  /\ \A w \in Server!Log!Writers : Seq(AtomsOf(w)) \subseteq Seq(Mine \cup Other)
  /\ Seq(Mine \cup Other) \subseteq Seq(Mine \cup Other \cup Native)
  /\ Seq(Native) \subseteq Seq(Mine \cup Other \cup Native)
<1> DEFINE All == Mine \cup Other \cup Native
           Both == Mine \cup Other
<1>1. ASSUME NEW w \in Server!Log!Writers PROVE AtomsOf(w) \subseteq Both
  BY DEF AtomsOf
<1>2. Both \subseteq All /\ Native \subseteq All
  OBVIOUS
<1> HIDE DEF All, Both
<1>3. /\ \A w \in Server!Log!Writers : Seq(AtomsOf(w)) \subseteq Seq(Both)
      /\ Seq(Both) \subseteq Seq(All) /\ Seq(Native) \subseteq Seq(All)
  BY <1>1, <1>2, SeqMonotonic
<1> QED BY <1>3 DEF All, Both

\* A descent through the wrappers of one writer.
LEMMA DescentOfWriter ==
  ASSUME WindowInv, NEW w \in Server!Log!Writers, NEW flushed \in BOOLEAN, NEW text \in Seq(AtomsOf(w))
  PROVE  LET through == Server!Log!Descend(flushed, buffers[w], text)
         IN /\ through.held \in Seq(Seq(AtomsOf(w))) /\ Len(through.held) = Len(chain)
            /\ flushed => through.held \in Seq({<<>>})
            /\ io \o through.sent \in Seq(Mine \cup Other)
<1> DEFINE through == Server!Log!Descend(flushed, buffers[w], text)
           A == AtomsOf(w)
           Both == Mine \cup Other
<1>1. Len(chain) \in Nat /\ buffers[w] \in Seq(Seq(A)) /\ Len(buffers[w]) = Len(chain) /\ io \in Seq(Both)
  BY DEF WindowInv
<1>2. Seq(A) \subseteq Seq(Both)
  BY AtomsUnderWay
<1> HIDE DEF A
<1>3. /\ through.sent \in Seq(A) /\ through.held \in Seq(Seq(A)) /\ Len(through.held) = Len(chain)
      /\ flushed => through.held \in Seq({<<>>})
  BY <1>1, DescentIsGiven DEF A
<1> HIDE DEF through, Both
<1>4. io \o through.sent \in Seq(Both)
  BY <1>1, <1>2, <1>3, ConcatProperties
<1> QED BY <1>3, <1>4 DEF through, A, Both

\* What is written on joins what was placed before.
LEMMA PlacedStays ==
  ASSUME WindowInv, NEW text \in Seq(Mine \cup Other \cup Native)
  PROVE  drained \o Server!Log!Drains(text) \in Seq(Placed)
<1>1. drained \in Seq(Placed) /\ Server!Log!Drains(text) \in Seq(Placed)
  BY DrainsArePlaced DEF WindowInv
<1> HIDE DEF Placed
<1> QED BY <1>1, ConcatProperties

\* The buffers of one writer change.
LEMMA BuffersStay ==
  ASSUME WindowInv, window' = window, chain' = chain, NEW w \in Server!Log!Writers,
         NEW held \in Seq(Seq(AtomsOf(w))), Len(held) = Len(chain),
         buffers' = [buffers EXCEPT ![w] = held]
  PROVE  /\ buffers' = [v \in Server!Log!Writers |-> buffers'[v]]
         /\ \A v \in Server!Log!Writers : buffers'[v] \in Seq(Seq(AtomsOf(v)')) /\ Len(buffers'[v]) = Len(chain')
<1>1. \A v : AtomsOf(v)' = AtomsOf(v)
  BY DEF AtomsOf, Mine, Other
<1>2. DOMAIN buffers = Server!Log!Writers
  BY DEF WindowInv
<1>3. \A v \in Server!Log!Writers : buffers'[v] = IF v = w THEN held ELSE buffers[v]
  BY <1>2
<1>4. buffers' = [v \in Server!Log!Writers |-> buffers'[v]]
  BY <1>2
<1> QED BY <1>1, <1>3, <1>4 DEF WindowInv

\* One text of the log, or one flush, while the window stays as it is.
LogStep ==
  \/ \E shown : Server!Log!Configure(shown)
  \/ \E words \in LogTexts : Server!Log!NativeWrite(words) \/ \E w \in Server!Log!Writers : Server!Log!Write(w, words)
  \/ \E w \in Server!Log!Writers : Server!Log!Flush(w)
  \/ Server!Log!Drain \/ Server!Log!NativeDrain

\* It keeps atoms in their place.
LEMMA LogStepsKeep == ASSUME WindowInv, LogStep PROVE WindowInv'
<1>1. window \in BOOLEAN /\ Len(chain) \in Nat
  BY DEF WindowInv
<1>2. window' = window
  BY DEF LogStep, Server!Log!Configure, Server!Log!NativeWrite, Server!Log!Write, Server!Log!Flush,
         Server!Log!Drain, Server!Log!NativeDrain
<1>3. Mine' = Mine /\ Native' = Native /\ Other' = Other /\ Placed' = Placed /\ \A w : AtomsOf(w)' = AtomsOf(w)
  BY <1>2 DEF Mine, Native, Other, Placed, AtomsOf
<1>4. ASSUME NEW shown, Server!Log!Configure(shown) PROVE WindowInv'
  <2>1. ASSUME NEW name PROVE Server!Log!Around(name, shown) \in Seq({name})
    BY EmptySeq DEF Server!Log!Around
  <2>2. chain' \in Seq({"tool", "llmcompressor", "vllm", "trt"})
    <3> DEFINE N == {"tool", "llmcompressor", "vllm", "trt"}
               a == Server!Log!Around("tool", shown)
               b == Server!Log!Around("llmcompressor", shown)
               c == Server!Log!Around("vllm", shown)
               d == Server!Log!Around("trt", shown)
    <3>1. {"tool"} \subseteq N /\ {"llmcompressor"} \subseteq N /\ {"vllm"} \subseteq N /\ {"trt"} \subseteq N
      OBVIOUS
    <3>2. chain' = a \o b \o c \o d
      BY <1>4 DEF Server!Log!Configure
    <3>3. a \in Seq({"tool"}) /\ b \in Seq({"llmcompressor"}) /\ c \in Seq({"vllm"}) /\ d \in Seq({"trt"})
      BY <2>1
    <3> HIDE DEF N, a, b, c, d
    <3>4. a \in Seq(N) /\ b \in Seq(N) /\ c \in Seq(N) /\ d \in Seq(N)
      BY <3>1, <3>3, SeqMonotonic
    <3>5. a \o b \in Seq(N)
      BY <3>4, ConcatProperties
    <3>6. a \o b \o c \in Seq(N)
      BY <3>4, <3>5, ConcatProperties
    <3>7. a \o b \o c \o d \in Seq(N)
      BY <3>4, <3>6, ConcatProperties
    <3> QED BY <3>2, <3>7 DEF N
  <2>3. Len(chain') \in Nat /\ DOMAIN chain' = 1 .. Len(chain')
    BY <2>2
  <2> DEFINE none == [k \in 1 .. Len(chain') |-> <<>>]
  <2>4. ASSUME NEW A PROVE none \in Seq(Seq(A)) /\ Len(none) = Len(chain')
    <3>1. <<>> \in Seq(A)
      BY EmptySeq
    <3> DEFINE S == Seq(A)
               n == Len(chain')
    <3> HIDE DEF S, n
    <3>2. [k \in 1 .. n |-> <<>>] \in Seq(S) /\ Len([k \in 1 .. n |-> <<>>]) = n
      BY <2>3, <3>1 DEF S, n
    <3> QED BY <3>2 DEF S, n
  <2>5. buffers' = [w \in Server!Log!Writers |-> none]
    BY <1>4, <2>3 DEF Server!Log!Configure
  <2>6. /\ buffers' = [w \in Server!Log!Writers |-> buffers'[w]]
        /\ \A w \in Server!Log!Writers : buffers'[w] = none
    BY <2>5
  <2> HIDE DEF none
  <2>7. UNCHANGED <<io, libc, window, drained>>
    BY <1>4 DEF Server!Log!Configure
  <2> QED BY <1>3, <2>3, <2>4, <2>6, <2>7 DEF WindowInv
<1>5. ASSUME NEW words \in LogTexts, Server!Log!NativeWrite(words) PROVE WindowInv'
  <2>1. UNCHANGED <<chain, buffers, io, window, drained>> /\ libc' = libc \o Server!Log!Marked("native", words)
    BY <1>5 DEF Server!Log!NativeWrite
  <2>2. words \in Seq(STRING)
    BY DeploymentConstants
  <2>3. Server!Log!Marked("native", words) \in Seq(Native) /\ libc \in Seq(Native)
    BY <1>1, <2>2, MarkedIsOnesOwn DEF WindowInv
  <2>4. libc' \in Seq(Native)
    <3> HIDE DEF Native
    <3> QED BY <2>1, <2>3, ConcatProperties
  <2> QED BY <1>3, <2>1, <2>4 DEF WindowInv
<1>6. ASSUME NEW words \in LogTexts, NEW w \in Server!Log!Writers, Server!Log!Write(w, words) PROVE WindowInv'
  <2> DEFINE text == Server!Log!Marked(w, words)
             through == Server!Log!Descend(FALSE, buffers[w], text)
  <2>1. /\ UNCHANGED <<chain, libc, window, drained>>
        /\ io' = io \o through.sent /\ buffers' = [buffers EXCEPT ![w] = through.held]
    BY <1>6 DEF Server!Log!Write
  <2>2. words \in Seq(STRING)
    BY DeploymentConstants
  <2>3. text \in Seq(AtomsOf(w))
    BY <1>1, <2>2, MarkedIsOnesOwn
  <2> HIDE DEF text
  <2>4. /\ through.held \in Seq(Seq(AtomsOf(w))) /\ Len(through.held) = Len(chain)
        /\ io \o through.sent \in Seq(Mine \cup Other)
    BY <2>3, DescentOfWriter
  <2> HIDE DEF through
  <2>5. /\ buffers' = [v \in Server!Log!Writers |-> buffers'[v]]
        /\ \A v \in Server!Log!Writers : buffers'[v] \in Seq(Seq(AtomsOf(v)')) /\ Len(buffers'[v]) = Len(chain')
    BY <2>1, <2>4, BuffersStay
  <2> QED BY <1>3, <2>1, <2>4, <2>5 DEF WindowInv
<1>7. ASSUME NEW w \in Server!Log!Writers, Server!Log!Flush(w) PROVE WindowInv'
  <2> DEFINE through == Server!Log!Descend(TRUE, buffers[w], <<>>)
  <2>1. /\ UNCHANGED <<chain, libc, window>> /\ io' = <<>>
        /\ drained' = drained \o Server!Log!Drains(io \o through.sent)
        /\ buffers' = [buffers EXCEPT ![w] = through.held]
    BY <1>7 DEF Server!Log!Flush
  <2>2. <<>> \in Seq(AtomsOf(w)) /\ io' \in Seq(Mine \cup Other)
    BY <2>1, EmptySeq
  <2>3. /\ through.held \in Seq(Seq(AtomsOf(w))) /\ Len(through.held) = Len(chain)
        /\ io \o through.sent \in Seq(Mine \cup Other)
    BY <2>2, DescentOfWriter
  <2> HIDE DEF through
  <2>4. /\ buffers' = [v \in Server!Log!Writers |-> buffers'[v]]
        /\ \A v \in Server!Log!Writers : buffers'[v] \in Seq(Seq(AtomsOf(v)')) /\ Len(buffers'[v]) = Len(chain')
    BY <2>1, <2>3, BuffersStay
  <2>5. drained' \in Seq(Placed)
    BY <2>1, <2>3, AtomsUnderWay, PlacedStays
  <2> QED BY <1>3, <2>1, <2>2, <2>4, <2>5 DEF WindowInv
<1>8. CASE Server!Log!Drain
  <2>1. UNCHANGED <<chain, buffers, libc, window>> /\ io' = <<>> /\ drained' = drained \o Server!Log!Drains(io)
    BY <1>8 DEF Server!Log!Drain
  <2>2. io' \in Seq(Mine \cup Other) /\ io \in Seq(Mine \cup Other)
    BY <2>1, EmptySeq DEF WindowInv
  <2>3. drained' \in Seq(Placed)
    BY <2>1, <2>2, AtomsUnderWay, PlacedStays
  <2> QED BY <1>3, <2>1, <2>2, <2>3 DEF WindowInv
<1>9. CASE Server!Log!NativeDrain
  <2>1. UNCHANGED <<chain, buffers, io, window>> /\ libc' = <<>> /\ drained' = drained \o Server!Log!Drains(libc)
    BY <1>9 DEF Server!Log!NativeDrain
  <2>2. libc' \in Seq(Native) /\ libc \in Seq(Native)
    BY <2>1, EmptySeq DEF WindowInv
  <2>3. drained' \in Seq(Placed)
    BY <2>1, <2>2, AtomsUnderWay, PlacedStays
  <2> QED BY <1>3, <2>1, <2>2, <2>3 DEF WindowInv
<1> QED BY <1>4, <1>5, <1>6, <1>7, <1>8, <1>9 DEF LogStep

\* The window opens or closes when nothing is under way any more but what goes past it.
LEMMA FlushAllKeeps ==
  ASSUME WindowInv, Server!Log!FlushAll, window' \in BOOLEAN
  PROVE  WindowInv'
<1> DEFINE through == Server!Log!Descend(TRUE, buffers["stdout"], <<>>)
           text == io \o through.sent
           D(t) == Server!Log!Drains(t)
<1>1. /\ UNCHANGED chain /\ io' = <<>> /\ libc' = <<>>
      /\ buffers' = [buffers EXCEPT !["stdout"] = through.held]
      /\ \/ drained' = drained \o (D(libc) \o D(text))
         \/ drained' = drained \o (D(text) \o D(libc))
  BY DEF Server!Log!FlushAll
<1>2. "stdout" \in Server!Log!Writers /\ <<>> \in Seq(AtomsOf("stdout"))
  BY EmptySeq DEF Server!Log!Writers
<1>3. through.held \in Seq({<<>>}) /\ Len(through.held) = Len(chain) /\ text \in Seq(Mine \cup Other)
  BY <1>2, DescentOfWriter
<1>4. Other' = Other /\ Placed' = Placed
  BY DEF Other, Placed
<1>5. drained' \in Seq(Placed)
  <2>1. libc \in Seq(Native) /\ drained \in Seq(Placed) /\ window \in BOOLEAN
    BY DEF WindowInv
  <2>2. D(libc) \in Seq(Placed) /\ D(text) \in Seq(Placed)
    BY <1>3, <2>1, AtomsUnderWay, DrainsArePlaced
  <2> HIDE DEF D, text, Placed
  <2>3. D(libc) \o D(text) \in Seq(Placed) /\ D(text) \o D(libc) \in Seq(Placed)
    BY <2>2, ConcatProperties
  <2> QED BY <1>1, <2>1, <2>3, ConcatProperties
<1> HIDE DEF through, text, D
<1>6. ASSUME NEW A PROVE through.held \in Seq(Seq(A))
  <2>1. {<<>>} \subseteq Seq(A)
    BY EmptySeq
  <2> QED BY <1>3, <2>1, SeqMonotonic
<1>7. DOMAIN buffers = Server!Log!Writers
  BY DEF WindowInv
<1>8. /\ buffers' = [w \in Server!Log!Writers |-> buffers'[w]]
      /\ \A w \in Server!Log!Writers : buffers'[w] = IF w = "stdout" THEN through.held ELSE buffers[w]
  BY <1>1, <1>7
<1>9. ASSUME NEW w \in Server!Log!Writers
      PROVE  buffers'[w] \in Seq(Seq(AtomsOf(w)')) /\ Len(buffers'[w]) = Len(chain')
  <2>1. CASE w = "stdout"
    BY <1>1, <1>3, <1>6, <1>8, <2>1
  <2>2. CASE w # "stdout"
    <3>1. AtomsOf(w)' = AtomsOf(w)
      BY <1>4, <2>2 DEF AtomsOf
    <3> QED BY <1>1, <1>8, <2>2, <3>1 DEF WindowInv
  <2> QED BY <2>1, <2>2
<1>10. io' \in Seq(Mine' \cup Other') /\ libc' \in Seq(Native')
  BY <1>1, EmptySeq
<1> QED BY <1>1, <1>4, <1>5, <1>8, <1>9, <1>10 DEF WindowInv

\* What a step of the process does to the log.
LEMMA LogOfProcess ==
  ASSUME ProcessStep
  PROVE  \/ LogStep
         \/ Server!Log!FlushAll /\ (window' = window \/ window' \in BOOLEAN)
         \/ UNCHANGED <<configured, chain, buffers, io, libc, window, drained>>
<1> USE DEF Server!logVars
<1>1. ASSUME NEW e, NEW h, Server!Boot(e, h) PROVE LogStep
  BY <1>1 DEF Server!Boot, LogStep
<1>2. ASSUME NEW ok \in BOOLEAN, Server!BuildVllm(ok)
      PROVE  (Server!Log!FlushAll /\ window' = window) \/ UNCHANGED <<configured, chain, buffers, io, libc, window, drained>>
  BY <1>2 DEF Server!BuildVllm
<1>3. CASE Server!StartTrt
  BY <1>3 DEF Server!StartTrt, Server!Log!EnterWindow
<1>4. ASSUME NEW ok \in BOOLEAN, NEW part \in Server!Parts, Server!Finish(part, ok)
      PROVE  (Server!Log!FlushAll /\ window' \in BOOLEAN) \/ UNCHANGED <<configured, chain, buffers, io, libc, window, drained>>
  BY <1>4 DEF Server!Finish, Server!Log!LeaveWindow
<1>5. CASE Server!Abandon
  BY <1>5 DEF Server!Abandon, Server!Log!LeaveWindow
<1>6. CASE Server!Logging
  BY <1>6 DEF Server!Logging, LogStep
<1>7. CASE Server!Validate \/ Server!StartOthers \/ Server!Serve \/ Server!ShutTelemetry
  BY <1>7 DEF Server!Validate, Server!StartOthers, Server!Serve, Server!ShutTelemetry
<1>8. ASSUME NEW outcome, Server!ShutEngine(outcome) PROVE UNCHANGED <<configured, chain, buffers, io, libc, window, drained>>
  BY <1>8 DEF Server!ShutEngine
<1>9. CASE UNCHANGED serverVars
  BY <1>9 DEF serverVars
<1>10. ASSUME NEW class, Server!Raise(class) \/ Server!ServingError(class) \/ Server!WindowPasses(class)
       PROVE  UNCHANGED <<configured, chain, buffers, io, libc, window, drained>>
  BY <1>10 DEF Server!Raise, Server!ServingError, Server!WindowPasses
<1> QED BY <1>1, <1>2, <1>3, <1>4, <1>5, <1>6, <1>7, <1>8, <1>9, <1>10 DEF ProcessStep, Server!Runs

\* What is under way is in its place at every moment.
LEMMA WindowAlways == Spec => []WindowInv
<1>1. Init => WindowInv
  <2> SUFFICES ASSUME Init PROVE WindowInv
    OBVIOUS
  <2>1. /\ chain = <<>> /\ io = <<>> /\ libc = <<>> /\ window = FALSE /\ drained = <<>>
        /\ buffers = [w \in Server!Log!Writers |-> <<>>]
    BY DEF Init, Server!Init, Server!Log!Init
  <2>2. /\ buffers = [w \in Server!Log!Writers |-> buffers[w]]
        /\ \A w \in Server!Log!Writers : buffers[w] = <<>>
    BY <2>1
  <2> QED BY <2>1, <2>2, EmptySeq DEF WindowInv
<1>2. WindowInv /\ [Next]_vars => WindowInv'
  <2> SUFFICES ASSUME WindowInv, [Next]_vars PROVE WindowInv'
    OBVIOUS
  <2>1. CASE LogStep
    BY <2>1, LogStepsKeep
  <2>2. CASE Server!Log!FlushAll /\ (window' = window \/ window' \in BOOLEAN)
    BY <2>2, FlushAllKeeps DEF WindowInv
  <2>3. CASE UNCHANGED <<configured, chain, buffers, io, libc, window, drained>>
    BY <2>3 DEF WindowInv, Mine, Native, Other, Placed, AtomsOf
  <2> QED BY <2>1, <2>2, <2>3, StepsOfProcess, LogOfProcess
<1> QED BY <1>1, <1>2, PTL DEF Spec

(* The window over the descriptors swallows what was written to sys.stdout    *)
(* and by native code while it was open, and nothing else, for any texts,     *)
(* wrappers, flushes and any order of the parts of a start (fd.py:21-55).     *)
THEOREM WindowSwallowsItsOwn == Spec => []WindowIsExact
<1>1. WindowInv => WindowIsExact
  <2> SUFFICES ASSUME drained \in Seq(Placed), NEW i \in DOMAIN drained
               PROVE  drained[i] \in Placed
    BY DEF WindowInv, WindowIsExact, Server!Log!WindowIsExact, Placed
  <2> HIDE DEF Placed
  <2> QED OBVIOUS
<1> QED BY <1>1, WindowAlways, PTL

-----------------------------------------------------------------------------
(* The wrappers are one filter *)

\* The lines of a text, atom by atom.
Splits(A) == [lines : Seq(Seq(A)), rest : Seq(A)]

SplitOp(A) ==
  [x \in Splits(A) \X A |->
     LET line == Append(x[1].rest, x[2])
     IN IF x[2].word = "NL" THEN [lines |-> Append(x[1].lines, line), rest |-> <<>>]
        ELSE [lines |-> x[1].lines, rest |-> line]]

NoLines == [lines |-> <<>>, rest |-> <<>>]

\* Split goes through the text along a path.
LEMMA SplitPath ==
  ASSUME NEW A, NEW text \in Seq(A)
  PROVE  /\ SplitOp(A) \in [Splits(A) \X A -> Splits(A)]
         /\ \E f \in [0 .. Len(text) -> Splits(A)] :
              Path(f, NoLines, SplitOp(A), text) /\ Server!Log!Split(text) = f[Len(text)]
<1> DEFINE n == Len(text)
           V == Splits(A)
           Op == SplitOp(A)
           Go(before, a) ==
             LET line == Append(before.rest, a)
             IN IF a.word = "NL" THEN [lines |-> Append(before.lines, line), rest |-> <<>>]
                ELSE [lines |-> before.lines, rest |-> line]
           at == CHOOSE g : g = [i \in 0 .. n |-> IF i = 0 THEN NoLines ELSE Go(g[i - 1], text[i])]
<1>1. n \in Nat /\ \A i \in 1 .. n : text[i] \in A
  OBVIOUS
<1>2. NoLines \in V
  BY EmptySeq DEF NoLines, Splits
<1>3. ASSUME NEW v \in V, NEW a \in A PROVE Go(v, a) \in V
  <2> DEFINE line == Append(v.rest, a)
             L == Seq(A)
  <2>1. v.rest \in Seq(A) /\ v.lines \in Seq(L)
    BY DEF Splits
  <2>2. line \in L
    BY <2>1, AppendProperties
  <2> HIDE DEF line
  <2>3. <<>> \in L
    BY EmptySeq
  <2> HIDE DEF L
  <2>4. Append(v.lines, line) \in Seq(L)
    BY <2>1, <2>2, AppendProperties
  <2> QED BY <2>1, <2>2, <2>3, <2>4 DEF line, L, Splits
<1>4. Op = [x \in V \X A |-> Go(x[1], x[2])]
  BY DEF SplitOp
<1>5. Op \in [V \X A -> V]
  <2> HIDE DEF V, Go, Op
  <2> QED BY <1>3, <1>4
<1>6. \A v \in V, a \in A : Op[<<v, a>>] = Go(v, a)
  <2> HIDE DEF V, Go, Op
  <2> QED BY <1>4
<1>7. PICK f \in [0 .. n -> V] : Path(f, NoLines, Op, text)
  <2> HIDE DEF V, Op
  <2> QED BY <1>2, <1>5, PathExists
<1> HIDE DEF V, Op, Go
<1>8. f = [i \in 0 .. n |-> IF i = 0 THEN NoLines ELSE Go(f[i - 1], text[i])]
  <2>1. f[0] = NoLines /\ \A i \in 1 .. n : f[i] = Op[<<f[i - 1], text[i]>>]
    BY <1>7 DEF Path
  <2> HIDE DEF n
  <2>2. \A i \in 1 .. n : f[i - 1] \in V
    BY <1>1, <1>7
  <2>3. \A i \in 1 .. n : f[i] = Go(f[i - 1], text[i])
    BY <1>1, <1>6, <2>1, <2>2
  <2>4. \A i \in 0 .. n : i # 0 => i \in 1 .. n
    BY <1>1
  <2> QED BY <1>7, <2>1, <2>3, <2>4
<1>9. at = [i \in 0 .. n |-> IF i = 0 THEN NoLines ELSE Go(at[i - 1], text[i])]
  <2> HIDE DEF n
  <2> QED BY <1>8
<1> DEFINE P == {k \in 0 .. n : at[k] \in V}
<1>10. \A k \in 0 .. n : k \in P
  <2>1. 0 \in P
    <3> HIDE DEF at, n
    <3> QED BY <1>1, <1>2, <1>9
  <2>2. ASSUME NEW k \in 0 .. n - 1, k \in P PROVE k + 1 \in P
    <3> HIDE DEF at, n
    <3>1. k + 1 \in 1 .. n /\ k + 1 \in 0 .. n /\ k + 1 # 0 /\ (k + 1) - 1 = k
      BY <1>1
    <3>2. at[k + 1] = Go(at[k], text[k + 1]) /\ text[k + 1] \in A
      BY <1>1, <3>1, <1>9
    <3> QED BY <3>1, <3>2, <2>2, <1>3
  <2> HIDE DEF P, n
  <2> QED BY <1>1, <2>1, <2>2, CountUp
<1>11. at \in [0 .. n -> V] /\ Path(at, NoLines, Op, text)
  <2> HIDE DEF at
  <2>1. \A i \in 1 .. n : i - 1 \in 0 .. n /\ i # 0 /\ i \in 0 .. n
    <3> HIDE DEF n
    <3> QED BY <1>1
  <2>2. \A i \in 1 .. n : at[i] = Op[<<at[i - 1], text[i]>>]
    <3> HIDE DEF n
    <3> QED BY <1>1, <1>6, <1>9, <1>10, <2>1
  <2>3. at[0] = NoLines
    <3> HIDE DEF n
    <3> QED BY <1>1, <1>9
  <2>4. at \in [0 .. n -> V]
    <3> HIDE DEF n
    <3> QED BY <1>9, <1>10
  <2> QED BY <2>2, <2>3, <2>4 DEF Path
<1>12. Server!Log!Split(text) = at[n]
  BY DEF Server!Log!Split, Go, NoLines
<1> HIDE DEF at
<1> QED BY <1>5, <1>11, <1>12 DEF V, Op

\* What the Python writers wrote, entry by entry.
PythonOp(D, E) ==
  [x \in Seq(E) \X D |-> IF x[2].atom.writer = "native" THEN x[1] ELSE Append(x[1], x[2].atom)]

\* Python goes through what left the process along a path.
LEMMA PythonPath ==
  ASSUME NEW D, NEW E, \A d \in D : d.atom \in E, NEW out \in Seq(D)
  PROVE  /\ PythonOp(D, E) \in [Seq(E) \X D -> Seq(E)]
         /\ \E f \in [0 .. Len(out) -> Seq(E)] :
              Path(f, <<>>, PythonOp(D, E), out) /\ Server!Log!Python(out) = f[Len(out)]
<1> DEFINE n == Len(out)
           V == Seq(E)
           Op == PythonOp(D, E)
           Go(before, d) == IF d.atom.writer = "native" THEN before ELSE Append(before, d.atom)
           at == CHOOSE g : g = [i \in 0 .. n |-> IF i = 0 THEN <<>> ELSE Go(g[i - 1], out[i])]
<1>1. n \in Nat /\ \A i \in 1 .. n : out[i] \in D
  OBVIOUS
<1>2. <<>> \in V
  BY EmptySeq
<1>3. ASSUME NEW v \in V, NEW a \in D PROVE Go(v, a) \in V
  BY AppendProperties
<1>4. Op = [x \in V \X D |-> Go(x[1], x[2])]
  BY DEF PythonOp
<1>5. Op \in [V \X D -> V]
  <2> HIDE DEF V, Go, Op
  <2> QED BY <1>3, <1>4
<1>6. \A v \in V, a \in D : Op[<<v, a>>] = Go(v, a)
  <2> HIDE DEF V, Go, Op
  <2> QED BY <1>4
<1>7. PICK f \in [0 .. n -> V] : Path(f, <<>>, Op, out)
  <2> HIDE DEF V, Op
  <2> QED BY <1>2, <1>5, PathExists
<1> HIDE DEF V, Op, Go
<1>8. f = [i \in 0 .. n |-> IF i = 0 THEN <<>> ELSE Go(f[i - 1], out[i])]
  <2>1. f[0] = <<>> /\ \A i \in 1 .. n : f[i] = Op[<<f[i - 1], out[i]>>]
    BY <1>7 DEF Path
  <2> HIDE DEF n
  <2>2. \A i \in 1 .. n : f[i - 1] \in V
    BY <1>1, <1>7
  <2>3. \A i \in 1 .. n : f[i] = Go(f[i - 1], out[i])
    BY <1>1, <1>6, <2>1, <2>2
  <2>4. \A i \in 0 .. n : i # 0 => i \in 1 .. n
    BY <1>1
  <2> QED BY <1>7, <2>1, <2>3, <2>4
<1>9. at = [i \in 0 .. n |-> IF i = 0 THEN <<>> ELSE Go(at[i - 1], out[i])]
  <2> HIDE DEF n
  <2> QED BY <1>8
<1> DEFINE P == {k \in 0 .. n : at[k] \in V}
<1>10. \A k \in 0 .. n : k \in P
  <2>1. 0 \in P
    <3> HIDE DEF at, n
    <3> QED BY <1>1, <1>2, <1>9
  <2>2. ASSUME NEW k \in 0 .. n - 1, k \in P PROVE k + 1 \in P
    <3> HIDE DEF at, n
    <3>1. k + 1 \in 1 .. n /\ k + 1 \in 0 .. n /\ k + 1 # 0 /\ (k + 1) - 1 = k
      BY <1>1
    <3>2. at[k + 1] = Go(at[k], out[k + 1]) /\ out[k + 1] \in D
      BY <1>1, <3>1, <1>9
    <3> QED BY <3>1, <3>2, <2>2, <1>3
  <2> HIDE DEF P, n
  <2> QED BY <1>1, <2>1, <2>2, CountUp
<1>11. at \in [0 .. n -> V] /\ Path(at, <<>>, Op, out)
  <2> HIDE DEF at
  <2>1. \A i \in 1 .. n : i - 1 \in 0 .. n /\ i # 0 /\ i \in 0 .. n
    <3> HIDE DEF n
    <3> QED BY <1>1
  <2>2. \A i \in 1 .. n : at[i] = Op[<<at[i - 1], out[i]>>]
    <3> HIDE DEF n
    <3> QED BY <1>1, <1>6, <1>9, <1>10, <2>1
  <2>3. at[0] = <<>>
    <3> HIDE DEF n
    <3> QED BY <1>1, <1>9
  <2>4. at \in [0 .. n -> V]
    <3> HIDE DEF n
    <3> QED BY <1>9, <1>10
  <2> QED BY <2>2, <2>3, <2>4 DEF Path
<1>12. Server!Log!Python(out) = at[n]
  BY DEF Server!Log!Python, Go
<1> HIDE DEF at
<1> QED BY <1>5, <1>11, <1>12 DEF V, Op

\* A wrapper goes through what it holds and what it gets as through one text.
LEMMA WriteJoins ==
  ASSUME NEW A, NEW name, NEW held \in Seq(A), NEW text \in Seq(A)
  PROVE  Server!Log!WriteThrough(name, held, text) = Server!Log!WriteThrough(name, <<>>, Join(held, text))
<1> DEFINE s == held \o text
<1>1. <<>> \o s = s
  <2>1. s \in Seq(A)
    BY ConcatProperties
  <2> HIDE DEF s
  <2> QED BY <2>1, ConcatEmptySeq
<1> HIDE DEF s
<1> QED BY <1>1 DEF s, Join, Server!Log!WriteThrough

\* A wrapper that held nothing.
LEMMA WriteAlone ==
  ASSUME NEW A, NEW name
  PROVE  /\ \A s \in Seq(A) :
              \E f \in [0 .. Len(s) -> Sends(A)] :
                Path(f, NoneSent, WriteOp(A, name), s) /\ Server!Log!WriteThrough(name, <<>>, s) = f[Len(s)]
         /\ Server!Log!WriteThrough(name, <<>>, <<>>) = NoneSent
<1> DEFINE W(held, text) == Server!Log!WriteThrough(name, held, text)
<1>1. <<>> \in Seq(A) /\ \A s \in Seq(A) : <<>> \o s = s
  BY EmptySeq, ConcatEmptySeq
<1>2. ASSUME NEW s \in Seq(A)
      PROVE  \E f \in [0 .. Len(s) -> Sends(A)] : Path(f, NoneSent, WriteOp(A, name), s) /\ W(<<>>, s) = f[Len(s)]
  <2>1. \E f \in [0 .. Len(<<>> \o s) -> Sends(A)] :
           /\ Path(f, NoneSent, WriteOp(A, name), <<>> \o s)
           /\ W(<<>>, s) = f[Len(<<>> \o s)]
    <3> DEFINE e == <<>>
    <3>1. e \in Seq(A)
      BY <1>1
    <3> HIDE DEF e
    <3>2. \E f \in [0 .. Len(e \o s) -> Sends(A)] :
            /\ Path(f, NoneSent, WriteOp(A, name), e \o s)
            /\ Server!Log!WriteThrough(name, e, s) = f[Len(e \o s)]
      BY <3>1, WritePath
    <3> QED BY <3>2 DEF e
  <2> QED BY <1>1, <2>1
<1> HIDE DEF W
<1>3. W(<<>>, <<>>) = NoneSent
  <2>1. PICK f \in [0 .. Len(<<>>) -> Sends(A)] : Path(f, NoneSent, WriteOp(A, name), <<>>) /\ W(<<>>, <<>>) = f[Len(<<>>)]
    BY <1>1, <1>2
  <2>2. Len(<<>>) = 0
    BY EmptySeq
  <2> QED BY <2>1, <2>2 DEF Path
<1> QED BY <1>2, <1>3 DEF W

\* How a filter goes on with one more atom: a line goes on as soon as it is complete.
GoesOn(A, v, w, c, ps) ==
  LET line == Longer(v.held, c) IN
  /\ v.sent \in Seq(A) /\ v.held \in Seq(A)
  /\ c.word = "NL" => w.sent = Join(v.sent, Server!Log!Emitted(line, ps)) /\ w.held = <<>>
  /\ c.word # "NL" => w.sent = v.sent /\ w.held = line

\* A wrapper that held nothing goes on like that.
LEMMA WriteNext ==
  ASSUME NEW A, NEW name, NEW s \in Seq(A), NEW c \in A
  PROVE  GoesOn(A, Server!Log!WriteThrough(name, <<>>, s), Server!Log!WriteThrough(name, <<>>, Longer(s, c)), c,
                Server!Log!NoisePatterns[name])
<1> DEFINE ps == Server!Log!NoisePatterns[name]
           v == Server!Log!WriteThrough(name, <<>>, s)
           w == Server!Log!WriteThrough(name, <<>>, Longer(s, c))
           line == Longer(v.held, c)
<1> SUFFICES /\ v.sent \in Seq(A) /\ v.held \in Seq(A)
             /\ c.word = "NL" => w.sent = Join(v.sent, Server!Log!Emitted(line, ps)) /\ w.held = <<>>
             /\ c.word # "NL" => w.sent = v.sent /\ w.held = line
  BY DEF GoesOn
<1> DEFINE t == Longer(s, c)
           Op == WriteOp(A, name)
           base == NoneSent
<1>1. t \in Seq(A)
  BY AppendProperties DEF Longer
<1>2. v = Server!Log!WriteThrough(name, <<>>, s) /\ w = Server!Log!WriteThrough(name, <<>>, Longer(s, c))
  OBVIOUS
<1> HIDE DEF base, Op, v, w
<1>3. PICK f \in [0 .. Len(s) -> Sends(A)] : Path(f, base, Op, s) /\ v = f[Len(s)]
  BY <1>2, WriteAlone DEF base, Op
<1>4. PICK g : Path(g, base, Op, t) /\ w = g[Len(t)]
  <2> HIDE DEF t
  <2>1. w = Server!Log!WriteThrough(name, <<>>, t)
    BY <1>2 DEF t
  <2> QED BY <1>1, <2>1, WriteAlone DEF base, Op
<1>5. Ends(g, t) = After(Op, Ends(f, s), c)
  <2> HIDE DEF t
  <2>1. Path(g, base, Op, Longer(s, c))
    BY <1>4 DEF t
  <2>2. Ends(g, Longer(s, c)) = After(Op, Ends(f, s), c)
    BY <1>3, <2>1, PathGoesOn
  <2> QED BY <2>2 DEF t
<1>6. Len(s) \in 0 .. Len(s)
  OBVIOUS
<1>7. v \in Sends(A)
  BY <1>3, <1>6
<1>8. w = Op[<<v, c>>]
  BY <1>3, <1>4, <1>5 DEF Ends, After
<1> DEFINE l == Append(v.held, c)
           j == v.sent \o Server!Log!Emitted(l, ps)
<1>9. w = IF c.word = "NL" THEN [sent |-> j, held |-> <<>>] ELSE [sent |-> v.sent, held |-> l]
  BY <1>7, <1>8 DEF WriteOp, Op, ps
<1>10. l = line /\ j = Join(v.sent, Server!Log!Emitted(line, ps))
  BY DEF Longer, Join, line
<1>11. v.sent \in Seq(A) /\ v.held \in Seq(A)
  BY <1>7 DEF Sends
<1> HIDE DEF l, j
<1> QED BY <1>9, <1>10, <1>11

\* Nothing has no lines.
LEMMA SplitNone == Server!Log!Split(<<>>) = NoLines
<1>1. PICK f \in [0 .. Len(<<>>) -> Splits({})] :
        Path(f, NoLines, SplitOp({}), <<>>) /\ Server!Log!Split(<<>>) = f[Len(<<>>)]
  BY EmptySeq, SplitPath
<1>2. Len(<<>>) = 0
  BY EmptySeq
<1> QED BY <1>1, <1>2 DEF Path

\* The lines of a text, and of one more atom.
LEMMA SplitNext ==
  ASSUME NEW A, NEW s \in Seq(A), NEW c \in A,
         NEW v, v = Server!Log!Split(s), NEW w, w = Server!Log!Split(Longer(s, c)),
         NEW line, line = Longer(v.rest, c)
  PROVE  /\ v.lines \in Seq(Seq(A)) /\ v.rest \in Seq(A)
         /\ c.word = "NL" => w.lines = Longer(v.lines, line) /\ w.rest = <<>>
         /\ c.word # "NL" => w.lines = v.lines /\ w.rest = line
<1> DEFINE t == Longer(s, c)
           Op == SplitOp(A)
           base == NoLines
<1>1. t \in Seq(A)
  BY AppendProperties DEF Longer
<1> HIDE DEF base, Op
<1>2. PICK f \in [0 .. Len(s) -> Splits(A)] : Path(f, base, Op, s) /\ v = f[Len(s)]
  BY SplitPath DEF base, Op
<1>3. PICK g : Path(g, base, Op, t) /\ w = g[Len(t)]
  <2> HIDE DEF t
  <2>1. w = Server!Log!Split(t)
    BY DEF t
  <2> QED BY <1>1, <2>1, SplitPath DEF base, Op
<1>4. Ends(g, t) = After(Op, Ends(f, s), c)
  <2> HIDE DEF t
  <2>1. Path(g, base, Op, Longer(s, c))
    BY <1>3 DEF t
  <2>2. Ends(g, Longer(s, c)) = After(Op, Ends(f, s), c)
    BY <1>2, <2>1, PathGoesOn
  <2> QED BY <2>2 DEF t
<1>5. Len(s) \in 0 .. Len(s)
  OBVIOUS
<1>6. v \in Splits(A)
  BY <1>2, <1>5
<1>7. w = Op[<<v, c>>]
  BY <1>2, <1>3, <1>4 DEF Ends, After
<1> DEFINE l == Append(v.rest, c)
           j == Append(v.lines, l)
<1>8. w = IF c.word = "NL" THEN [lines |-> j, rest |-> <<>>] ELSE [lines |-> v.lines, rest |-> l]
  BY <1>6, <1>7 DEF SplitOp, Op
<1>9. l = line /\ j = Longer(v.lines, line)
  BY DEF Longer
<1>10. v.lines \in Seq(Seq(A)) /\ v.rest \in Seq(A)
  BY <1>6 DEF Splits
<1> HIDE DEF l, j
<1> QED BY <1>8, <1>9, <1>10

\* What the Python writers wrote, and one more entry.
LEMMA PythonLaw ==
  ASSUME NEW D, NEW E, \A d \in D : d.atom \in E
  PROVE  /\ Server!Log!Python(<<>>) = <<>>
         /\ \A s \in Seq(D) : Server!Log!Python(s) \in Seq(E)
         /\ \A s \in Seq(D), d \in D :
              /\ d.atom.writer = "native" => Server!Log!Python(Longer(s, d)) = Server!Log!Python(s)
              /\ d.atom.writer # "native" => Server!Log!Python(Longer(s, d)) = Longer(Server!Log!Python(s), d.atom)
<1> DEFINE W(s) == Server!Log!Python(s)
           V == Seq(E)
<1>1. ASSUME NEW s \in Seq(D)
      PROVE  \E f \in [0 .. Len(s) -> V] : Path(f, <<>>, PythonOp(D, E), s) /\ W(s) = f[Len(s)]
  BY PythonPath
<1> HIDE DEF W, V
<1>2. W(<<>>) = <<>>
  <2>1. PICK f \in [0 .. Len(<<>>) -> V] : Path(f, <<>>, PythonOp(D, E), <<>>) /\ W(<<>>) = f[Len(<<>>)]
    BY EmptySeq, <1>1
  <2>2. Len(<<>>) = 0
    BY EmptySeq
  <2> QED BY <2>1, <2>2 DEF Path
<1>3. ASSUME NEW s \in Seq(D) PROVE W(s) \in V
  <2>1. PICK f \in [0 .. Len(s) -> V] : Path(f, <<>>, PythonOp(D, E), s) /\ W(s) = f[Len(s)]
    BY <1>1
  <2>2. Len(s) \in 0 .. Len(s)
    OBVIOUS
  <2> QED BY <2>1, <2>2
<1>4. ASSUME NEW s \in Seq(D), NEW d \in D
      PROVE  /\ d.atom.writer = "native" => W(Longer(s, d)) = W(s)
             /\ d.atom.writer # "native" => W(Longer(s, d)) = Longer(W(s), d.atom)
  <2> DEFINE t == Longer(s, d)
  <2>1. t \in Seq(D)
    BY AppendProperties DEF Longer
  <2>2. PICK f \in [0 .. Len(s) -> V] : Path(f, <<>>, PythonOp(D, E), s) /\ W(s) = f[Len(s)]
    BY <1>1
  <2> HIDE DEF t
  <2>3. PICK g : Path(g, <<>>, PythonOp(D, E), t) /\ W(t) = g[Len(t)]
    BY <1>1, <2>1
  <2>4. g[Len(t)] = PythonOp(D, E)[<<f[Len(s)], d>>]
    <3> DEFINE Op == PythonOp(D, E)
               base == <<>>
    <3>1. Path(f, base, Op, s) /\ Path(g, base, Op, Longer(s, d))
      BY <2>2, <2>3 DEF t
    <3> HIDE DEF Op, base
    <3>2. Ends(g, Longer(s, d)) = After(Op, Ends(f, s), d)
      BY <3>1, PathGoesOn
    <3> QED BY <3>2 DEF Op, t, Ends, After
  <2>5. W(t) = PythonOp(D, E)[<<W(s), d>>]
    BY <2>2, <2>3, <2>4
  <2> QED BY <1>3, <2>5 DEF t, PythonOp, V, Longer
<1> QED BY <1>2, <1>4, <1>3 DEF W, V

\* What the filter sends of its lines: one after the other.
Joined(ss) == Server!Log!Filter!FlattenSeq(ss)

JoinOp(E) == [x \in Seq(E) \X Seq(E) |-> x[1] \o x[2]]

\* They are joined along a path.
LEMMA JoinedPath ==
  ASSUME NEW E, NEW ss \in Seq(Seq(E))
  PROVE  \E h \in [0 .. Len(ss) -> Seq(E)] : Path(h, <<>>, JoinOp(E), ss) /\ Joined(ss) = h[Len(ss)]
<1> DEFINE n == Len(ss)
           V == Seq(E)
           g == CHOOSE g : g = [i \in 1 .. n |-> IF i = 1 THEN ss[i] ELSE g[i - 1] \o ss[i]]
<1>1. n \in Nat /\ \A i \in 1 .. n : ss[i] \in V
  OBVIOUS
<1>2. <<>> \in V /\ \A s \in V : <<>> \o s = s
  BY EmptySeq, ConcatEmptySeq
<1>3. JoinOp(E) \in [V \X V -> V]
  BY ConcatProperties DEF JoinOp
<1>4. \A v \in V, s \in V : JoinOp(E)[<<v, s>>] = v \o s
  BY DEF JoinOp
<1>5. PICK h \in [0 .. n -> V] : Path(h, <<>>, JoinOp(E), ss)
  <2> DEFINE e == <<>>
             Op == JoinOp(E)
  <2>1. e \in V /\ Op \in [V \X V -> V] /\ ss \in Seq(V)
    BY <1>2, <1>3
  <2> HIDE DEF e, V, Op
  <2>2. \E h \in [0 .. Len(ss) -> V] : Path(h, e, Op, ss)
    BY <2>1, PathExists
  <2> QED BY <2>2 DEF e, Op
<1> HIDE DEF V
<1>6. /\ h[0] = <<>>
      /\ \A i \in 1 .. n : h[i] = h[i - 1] \o ss[i]
  <2>1. h[0] = <<>> /\ \A i \in 1 .. n : h[i] = JoinOp(E)[<<h[i - 1], ss[i]>>]
    BY <1>5 DEF Path
  <2> HIDE DEF n
  <2>2. \A i \in 1 .. n : h[i - 1] \in V
    BY <1>1, <1>5
  <2> QED BY <1>1, <1>4, <2>1, <2>2
<1>7. g = [i \in 1 .. n |-> IF i = 1 THEN ss[i] ELSE g[i - 1] \o ss[i]]
  <2> DEFINE f == [i \in 1 .. n |-> h[i]]
  <2>1. ASSUME NEW i \in 1 .. n PROVE f[i] = IF i = 1 THEN ss[i] ELSE f[i - 1] \o ss[i]
    <3>1. CASE i = 1
      <4>1. 1 \in 1 .. n /\ 1 - 1 = 0
        BY <3>1
      <4>2. h[1] = h[0] \o ss[1] /\ h[0] = <<>> /\ ss[1] \in V
        <5> HIDE DEF n
        <5> QED BY <1>1, <1>6, <4>1
      <4>3. h[1] = ss[1]
        BY <1>2, <4>2
      <4> QED BY <3>1, <4>3
    <3>2. CASE i # 1
      <4> HIDE DEF n
      <4>1. i - 1 \in 1 .. n
        BY <1>1, <3>2
      <4> QED BY <1>6, <3>2, <4>1
    <3> QED BY <3>1, <3>2
  <2>2. f = [i \in 1 .. n |-> IF i = 1 THEN ss[i] ELSE f[i - 1] \o ss[i]]
    <3>1. f = [i \in 1 .. n |-> f[i]]
      OBVIOUS
    <3> HIDE DEF f, n
    <3> QED BY <2>1, <3>1
  <2> HIDE DEF f, n
  <2> QED BY <2>2
<1> HIDE DEF g
<1>8. \A k \in 0 .. n : k # 0 => g[k] = h[k]
  <2> DEFINE P == {k \in 0 .. n : k # 0 => g[k] = h[k]}
  <2> HIDE DEF n
  <2>1. 0 \in P
    BY <1>1
  <2>2. ASSUME NEW k \in 0 .. n - 1, k \in P PROVE k + 1 \in P
    <3>1. k + 1 \in 1 .. n /\ (k + 1) - 1 = k /\ k + 1 \in 0 .. n /\ k \in Nat
      BY <1>1
    <3>2. g[k + 1] = IF k + 1 = 1 THEN ss[k + 1] ELSE g[k] \o ss[k + 1]
      BY <1>7, <3>1
    <3>3. h[k + 1] = h[k] \o ss[k + 1]
      BY <1>6, <3>1
    <3>4. CASE k = 0
      <4>1. ss[1] \in V /\ h[0] = <<>> /\ <<>> \o ss[1] = ss[1]
        BY <1>1, <1>2, <1>6, <3>1, <3>4
      <4> QED BY <3>1, <3>2, <3>3, <3>4, <4>1
    <3>5. CASE k # 0
      <4>1. g[k] = h[k]
        BY <2>2, <3>5
      <4>2. k + 1 # 1
        BY <3>1, <3>5
      <4>3. g[k + 1] = h[k + 1]
        BY <3>2, <3>3, <4>1, <4>2
      <4> QED BY <3>1, <4>3
    <3> QED BY <3>4, <3>5
  <2> HIDE DEF P
  <2>3. \A k \in 0 .. n : k \in P
    BY <1>1, <2>1, <2>2, CountUp
  <2> QED BY <2>3 DEF P
<1>9. Joined(ss) = h[n]
  <2>1. CASE n = 0
    <3>1. ss = <<>>
      BY <2>1, EmptySeq
    <3>2. Joined(ss) = ss
      BY <2>1 DEF Joined, Server!Log!Filter!FlattenSeq
    <3> QED BY <1>6, <2>1, <3>1, <3>2
  <2>2. CASE n # 0
    <3>1. Joined(ss) = g[n]
      BY <2>2 DEF Joined, Server!Log!Filter!FlattenSeq, g
    <3>2. n \in 0 .. n
      BY <1>1
    <3> QED BY <1>8, <2>2, <3>1, <3>2
  <2> QED BY <2>1, <2>2
<1> QED BY <1>5, <1>9 DEF V

\* The sequences joined are a sequence, of none nothing.
LEMMA JoinedNone ==
  ASSUME NEW E, NEW ss \in Seq(Seq(E))
  PROVE  Joined(ss) \in Seq(E) /\ Joined(<<>>) = <<>>
<1>1. PICK h \in [0 .. Len(ss) -> Seq(E)] : Joined(ss) = h[Len(ss)]
  BY JoinedPath
<1>2. Len(ss) \in 0 .. Len(ss) /\ Len(<<>>) = 0
  BY EmptySeq
<1>3. Joined(<<>>) = <<>>
  BY <1>2 DEF Joined, Server!Log!Filter!FlattenSeq
<1> QED BY <1>1, <1>2, <1>3

\* One more sequence is joined at the end.
LEMMA JoinedNext ==
  ASSUME NEW E, NEW ss \in Seq(Seq(E)), NEW s \in Seq(E)
  PROVE  Joined(Longer(ss, s)) = Join(Joined(ss), s)
<1> DEFINE V == Seq(E)
           Op == JoinOp(E)
           e == <<>>
           t == Longer(ss, s)
<1>1. ASSUME NEW rr \in Seq(V)
      PROVE  \E h \in [0 .. Len(rr) -> V] : Path(h, e, Op, rr) /\ Joined(rr) = h[Len(rr)]
  BY JoinedPath
<1>2. Joined(ss) \in V
  BY JoinedNone
<1> HIDE DEF V, Op, e
<1>3. t \in Seq(V)
  BY AppendProperties DEF Longer, V
<1>4. PICK f \in [0 .. Len(ss) -> V] : Path(f, e, Op, ss) /\ Joined(ss) = f[Len(ss)]
  BY <1>1 DEF V
<1>5. PICK g : Path(g, e, Op, t) /\ Joined(t) = g[Len(t)]
  <2> HIDE DEF t
  <2> QED BY <1>1, <1>3
<1>6. Ends(g, t) = After(Op, Ends(f, ss), s)
  <2> HIDE DEF t
  <2>1. Path(g, e, Op, Longer(ss, s)) /\ ss \in Seq(V) /\ s \in V
    BY <1>5 DEF t, V
  <2>2. Ends(g, Longer(ss, s)) = After(Op, Ends(f, ss), s)
    BY <1>4, <2>1, PathGoesOn
  <2> QED BY <2>2 DEF t
<1>7. Joined(t) = Op[<<Joined(ss), s>>]
  BY <1>4, <1>5, <1>6 DEF Ends, After
<1>8. Op[<<Joined(ss), s>>] = Joined(ss) \o s
  BY <1>2 DEF Op, JoinOp, V
<1> QED BY <1>7, <1>8 DEF Join

\* What is done to each element of a sequence.
Each(F, s) == [i \in DOMAIN s |-> F[s[i]]]

\* It is done to one more element at the end.
LEMMA EachNext ==
  ASSUME NEW A, NEW B, NEW F \in [A -> B], NEW s \in Seq(A), NEW c \in A
  PROVE  Each(F, s) \in Seq(B) /\ Each(F, Longer(s, c)) = Longer(Each(F, s), F[c]) /\ Each(F, <<>>) = <<>>
<1> DEFINE n == Len(s)
           t == Append(s, c)
           e == Each(F, s)
           m == F[c]
           u == Append(e, m)
<1>1. n \in Nat /\ DOMAIN s = 1 .. n /\ \A i \in 1 .. n : s[i] \in A
  OBVIOUS
<1>2. t \in Seq(A) /\ Len(t) = n + 1 /\ t[n + 1] = c /\ \A i \in 1 .. n : t[i] = s[i]
  BY AppendProperties
<1>3. e = [i \in 1 .. n |-> F[s[i]]]
  BY <1>1 DEF Each
<1>4. e \in Seq(B) /\ Len(e) = n /\ \A i \in 1 .. n : e[i] = F[s[i]]
  <2> HIDE DEF n
  <2>1. \A i \in 1 .. n : F[s[i]] \in B
    BY <1>1
  <2> QED BY <1>1, <1>3, <2>1
<1>5. m \in B
  OBVIOUS
<1> HIDE DEF e, m, n
<1>6. u \in Seq(B) /\ Len(u) = n + 1 /\ u[n + 1] = m /\ \A i \in 1 .. n : u[i] = e[i]
  BY <1>4, <1>5, AppendProperties
<1> HIDE DEF u, t
<1>7. DOMAIN t = 1 .. n + 1 /\ DOMAIN u = 1 .. n + 1 /\ u = [i \in DOMAIN u |-> u[i]]
  BY <1>2, <1>6
<1>8. Each(F, t) = [i \in 1 .. n + 1 |-> F[t[i]]]
  BY <1>7 DEF Each
<1>9. \A i \in 1 .. n + 1 : F[t[i]] = u[i]
  <2> SUFFICES ASSUME NEW i \in 1 .. n + 1 PROVE F[t[i]] = u[i]
    OBVIOUS
  <2>1. i \in 1 .. n \/ i = n + 1
    BY <1>1
  <2> QED BY <1>2, <1>4, <1>6, <2>1 DEF m
<1>10. Each(F, t) = u
  BY <1>7, <1>8, <1>9
<1>11. Each(F, <<>>) = <<>>
  BY DEF Each
<1> QED BY <1>4, <1>10, <1>11 DEF e, u, t, m, Longer

\* What goes on of each line.
EmitAll(ls, ps) == [i \in DOMAIN ls |-> Server!Log!Emitted(ls[i], ps)]

\* One more line adds what goes on of it.
LEMMA EmitAllNext ==
  ASSUME NEW A, NEW ps, NEW ls \in Seq(Seq(A)), NEW l \in Seq(A)
  PROVE  /\ Server!Log!Emitted(l, ps) \in Seq(A)
         /\ EmitAll(ls, ps) \in Seq(Seq(A))
         /\ EmitAll(Longer(ls, l), ps) = Longer(EmitAll(ls, ps), Server!Log!Emitted(l, ps))
<1> DEFINE L == Seq(A)
           F == [x \in L |-> Server!Log!Emitted(x, ps)]
<1>1. ASSUME NEW x \in L PROVE Server!Log!Emitted(x, ps) \in L
  BY EmptySeq DEF Server!Log!Emitted
<1> HIDE DEF L
<1>2. F \in [L -> L]
  BY <1>1
<1>3. ASSUME NEW xs \in Seq(L) PROVE Each(F, xs) = EmitAll(xs, ps)
  <2>1. \A i \in DOMAIN xs : xs[i] \in L
    OBVIOUS
  <2> QED BY <2>1 DEF Each, EmitAll
<1>4. l \in L /\ ls \in Seq(L) /\ F[l] = Server!Log!Emitted(l, ps)
  BY DEF L
<1> HIDE DEF F
<1>5. Each(F, ls) \in Seq(L) /\ Each(F, Longer(ls, l)) = Longer(Each(F, ls), F[l])
  BY <1>2, <1>4, EachNext
<1>6. Longer(ls, l) \in Seq(L)
  BY <1>4, AppendProperties DEF Longer
<1> QED BY <1>1, <1>3, <1>4, <1>5, <1>6 DEF L

\* What one filter sends of a text, and holds.
One(ps, s) == [sent |-> Joined(EmitAll(Server!Log!Lines(s), ps)), held |-> Server!Log!Rest(s)]

\* Of nothing it sends and holds nothing.
LEMMA OneNone ==
  ASSUME NEW ps
  PROVE  One(ps, <<>>) = NoneSent
<1>1. Server!Log!Split(<<>>) = NoLines
  BY SplitNone
<1>2. Server!Log!Lines(<<>>) = <<>> /\ Server!Log!Rest(<<>>) = <<>>
  BY <1>1 DEF Server!Log!Lines, Server!Log!Rest, NoLines
<1>3. EmitAll(<<>>, ps) = <<>>
  BY DEF EmitAll
<1>4. Joined(<<>>) = <<>>
  BY JoinedNone, EmptySeq
<1> QED BY <1>2, <1>3, <1>4 DEF One, NoneSent

\* The same of one more atom.
LEMMA OneNext ==
  ASSUME NEW A, NEW ps, NEW s \in Seq(A), NEW c \in A
  PROVE  GoesOn(A, One(ps, s), One(ps, Longer(s, c)), c, ps)
<1> DEFINE v == One(ps, s)
           w == One(ps, Longer(s, c))
           line == Longer(v.held, c)
<1> SUFFICES /\ v.sent \in Seq(A) /\ v.held \in Seq(A)
             /\ c.word = "NL" => w.sent = Join(v.sent, Server!Log!Emitted(line, ps)) /\ w.held = <<>>
             /\ c.word # "NL" => w.sent = v.sent /\ w.held = line
  BY DEF GoesOn
<1> DEFINE b == Server!Log!Split(s)
           t == Server!Log!Split(Longer(s, c))
           m == Server!Log!Emitted(line, ps)
           L == Seq(A)
<1>1. v.sent = Joined(EmitAll(b.lines, ps)) /\ v.held = b.rest
  BY DEF One, Server!Log!Lines, Server!Log!Rest
<1>2. w.sent = Joined(EmitAll(t.lines, ps)) /\ w.held = t.rest
  BY DEF One, Server!Log!Lines, Server!Log!Rest
<1> HIDE DEF v, w
<1>3. /\ b.lines \in Seq(L) /\ b.rest \in L
      /\ c.word = "NL" => t.lines = Longer(b.lines, line) /\ t.rest = <<>>
      /\ c.word # "NL" => t.lines = b.lines /\ t.rest = line
  <2>1. line = Longer(b.rest, c)
    BY <1>1
  <2> QED BY <2>1, SplitNext
<1> HIDE DEF b, t
<1>4. line \in L
  <2>1. b.rest \in Seq(A)
    BY <1>3
  <2>2. line = Append(b.rest, c)
    BY <1>1 DEF Longer
  <2> QED BY <2>1, <2>2, AppendProperties
<1>5. /\ m \in L /\ EmitAll(b.lines, ps) \in Seq(L)
      /\ EmitAll(Longer(b.lines, line), ps) = Longer(EmitAll(b.lines, ps), m)
  BY <1>3, <1>4, EmitAllNext
<1> HIDE DEF m
<1>6. Joined(EmitAll(b.lines, ps)) \in L
  BY <1>5, JoinedNone
<1>7. Joined(Longer(EmitAll(b.lines, ps), m)) = Join(Joined(EmitAll(b.lines, ps)), m)
  BY <1>5, JoinedNext
<1>8. CASE c.word = "NL"
  <2>1. w.sent = Join(v.sent, m) /\ w.held = <<>>
    BY <1>1, <1>2, <1>3, <1>5, <1>7, <1>8
  <2> QED BY <1>1, <1>3, <1>6, <1>8, <2>1 DEF m, L
<1>9. CASE c.word # "NL"
  BY <1>1, <1>2, <1>3, <1>6, <1>9 DEF L
<1> QED BY <1>8, <1>9

\* Noise for two filters is noise for one of them.
LEMMA NoiseOfBoth ==
  ASSUME NEW text, NEW ps, NEW qs
  PROVE  /\ Server!Log!IsNoise(text, ps \cup qs) <=> Server!Log!IsNoise(text, ps) \/ Server!Log!IsNoise(text, qs)
         /\ ~Server!Log!IsNoise(text, {})
BY DEF Server!Log!IsNoise

\* What does not end a line.
Unended(A) == {a \in A : a.word # "NL"}

\* What has no end of a line waits in a wrapper that held nothing.
LEMMA RestWaits ==
  ASSUME NEW A, NEW name, NEW s \in Seq(A), Server!Log!WriteThrough(name, <<>>, s).held = <<>>
  PROVE  \A r \in Seq(Unended(A)) :
           /\ Server!Log!WriteThrough(name, <<>>, Join(s, r)).sent = Server!Log!WriteThrough(name, <<>>, s).sent
           /\ Server!Log!WriteThrough(name, <<>>, Join(s, r)).held = r
<1> DEFINE Q == Unended(A)
           W(t) == Server!Log!WriteThrough(name, <<>>, t)
           P == {r \in Seq(Q) : W(Join(s, r)).sent = W(s).sent /\ W(Join(s, r)).held = r}
<1>1. Seq(Q) \subseteq Seq(A) /\ \A c \in Q : c \in A /\ c.word # "NL"
  BY SeqMonotonic DEF Unended
<1> HIDE DEF Q
<1>2. <<>> \in P
  <2>1. Join(s, <<>>) = s /\ <<>> \in Seq(Q) /\ W(s).held = <<>>
    BY EmptySeq, JoinEmpty
  <2> HIDE DEF W
  <2> QED BY <2>1
<1>3. ASSUME NEW r \in Seq(Q), NEW c \in Q, r \in P PROVE Longer(r, c) \in P
  <2> DEFINE t == Join(s, r)
             u == Longer(t, c)
             v == W(t)
             w == W(u)
             line == Longer(v.held, c)
             ps == Server!Log!NoisePatterns[name]
  <2>1. c \in A /\ c.word # "NL" /\ r \in Seq(A)
    BY <1>1
  <2>2. t \in Seq(A) /\ Join(s, Longer(r, c)) = u
    BY <2>1, LongerLaw
  <2>3. Longer(r, c) \in Seq(Q)
    BY LongerLaw
  <2>4. v.sent = W(s).sent /\ v.held = r
    BY <1>3
  <2>5. GoesOn(A, v, w, c, ps)
    <3> HIDE DEF t
    <3> QED BY <2>1, <2>2, WriteNext
  <2> HIDE DEF t, v, w
  <2>6. c.word # "NL" => w.sent = v.sent /\ w.held = line
    BY <2>5 DEF GoesOn
  <2>7. w = W(Join(s, Longer(r, c)))
    BY <2>2 DEF w
  <2> HIDE DEF W, u
  <2> QED BY <2>1, <2>3, <2>4, <2>6, <2>7
<1> HIDE DEF P
<1>4. Seq(Q) \subseteq P
  BY <1>2, <1>3, AtomByAtom
<1> QED BY <1>4 DEF P, Q

\* One wrapper is one filter.
LEMMA WrapperIsFilter ==
  ASSUME NEW A, NEW name, NEW s \in Seq(A), NEW ps, ps = Server!Log!NoisePatterns[name]
  PROVE  /\ Server!Log!WriteThrough(name, <<>>, s).sent = One(ps, s).sent
         /\ Server!Log!WriteThrough(name, <<>>, s).held = One(ps, s).held
<1> DEFINE W(t) == Server!Log!WriteThrough(name, <<>>, t)
           O(t) == One(ps, t)
           P == {t \in Seq(A) : W(t).sent = O(t).sent /\ W(t).held = O(t).held}
<1>1. <<>> \in P
  <2>1. W(<<>>) = NoneSent /\ O(<<>>) = NoneSent
    BY WriteAlone, OneNone
  <2> HIDE DEF W, O
  <2> QED BY <2>1, EmptySeq
<1>2. ASSUME NEW t \in Seq(A), NEW c \in A, t \in P PROVE Longer(t, c) \in P
  <2> DEFINE u == Longer(t, c)
             v == W(t)
             w == W(u)
             x == O(t)
             y == O(u)
             line == Longer(v.held, c)
  <2>1. u \in Seq(A)
    BY LongerLaw
  <2>2. v.sent = x.sent /\ v.held = x.held
    BY <1>2
  <2>3. GoesOn(A, v, w, c, ps) /\ GoesOn(A, x, y, c, ps)
    BY WriteNext, OneNext
  <2>4. u \in P <=> w.sent = y.sent /\ w.held = y.held
    BY <2>1
  <2> HIDE DEF v, w, x, y, P, line
  <2>5. /\ c.word = "NL" => w.sent = Join(v.sent, Server!Log!Emitted(line, ps)) /\ w.held = <<>>
        /\ c.word # "NL" => w.sent = v.sent /\ w.held = line
    BY <2>3 DEF GoesOn, line
  <2>6. line = Longer(x.held, c)
    BY <2>2 DEF line
  <2>7. /\ c.word = "NL" => y.sent = Join(x.sent, Server!Log!Emitted(line, ps)) /\ y.held = <<>>
        /\ c.word # "NL" => y.sent = x.sent /\ y.held = line
    BY <2>3, <2>6 DEF GoesOn
  <2>8. u \in P
    BY <2>2, <2>4, <2>5, <2>7
  <2> QED BY <2>8
<1> HIDE DEF P
<1>3. Seq(A) \subseteq P
  BY <1>1, <1>2, AtomByAtom
<1> QED BY <1>3 DEF P

\* A wrapper behind a filter sends what one filter with the patterns of both sends,
\* and holds nothing: it only ever gets whole lines.
Merges(A, name, ps, s) ==
  LET through == Server!Log!WriteThrough(name, <<>>, One(ps, s).sent) IN
  /\ One(ps, s).held \in Seq(Unended(A))
  /\ through.sent = One(ps \cup Server!Log!NoisePatterns[name], s).sent
  /\ through.held = <<>>

\* That is so for every text and all patterns.
LEMMA WrapperBehindFilter ==
  ASSUME NEW A, NEW name, NEW ps, NEW s \in Seq(A)
  PROVE  Merges(A, name, ps, s)
<1> DEFINE qs == Server!Log!NoisePatterns[name]
           us == ps \cup qs
           Q == Unended(A)
           W(t) == Server!Log!WriteThrough(name, <<>>, t)
           O(t) == One(ps, t)
           U(t) == One(us, t)
           P == {t \in Seq(A) : O(t).held \in Seq(Q) /\ W(O(t).sent).sent = U(t).sent /\ W(O(t).sent).held = <<>>}
<1>1. <<>> \in P
  <2>1. O(<<>>) = NoneSent /\ U(<<>>) = NoneSent /\ W(<<>>) = NoneSent
    BY OneNone, WriteAlone
  <2>2. NoneSent.sent = <<>> /\ NoneSent.held = <<>>
    BY DEF NoneSent
  <2> HIDE DEF W, O, U
  <2> QED BY <2>1, <2>2, EmptySeq
<1>2. ASSUME NEW t \in Seq(A), NEW c \in A, t \in P PROVE Longer(t, c) \in P
  <2> DEFINE n == Longer(t, c)
             o == O(t)
             p == O(n)
             u == U(t)
             q == U(n)
             x == o.sent
             r == o.held
             line == Longer(r, c)
             e == Server!Log!Emitted(line, ps)
             f == Server!Log!Emitted(line, us)
  <2>1. n \in Seq(A)
    BY LongerLaw
  <2>2. r \in Seq(Q) /\ W(x).sent = u.sent /\ W(x).held = <<>>
    BY <1>2
  <2>3. u.held = o.held
    BY DEF One
  <2>4. GoesOn(A, o, p, c, ps) /\ GoesOn(A, u, q, c, us) /\ line = Longer(o.held, c) /\ line = Longer(u.held, c)
    BY <2>3, OneNext
  <2>5. n \in P <=> p.held \in Seq(Q) /\ W(p.sent).sent = q.sent /\ W(p.sent).held = <<>>
    BY <2>1
  <2> HIDE DEF o, p, u, q, line, P
  <2>6. /\ x \in Seq(A) /\ r \in Seq(A)
        /\ c.word = "NL" => p.sent = Join(x, e) /\ p.held = <<>>
        /\ c.word # "NL" => p.sent = x /\ p.held = line
    BY <2>4 DEF GoesOn
  <2>7. /\ u.sent \in Seq(A)
        /\ c.word = "NL" => q.sent = Join(u.sent, f)
        /\ c.word # "NL" => q.sent = u.sent
    BY <2>4 DEF GoesOn
  <2> SUFFICES n \in P
    OBVIOUS
  <2>8. CASE c.word # "NL"
    <3>1. line \in Seq(Q)
      <4>1. c \in Q
        BY <2>8 DEF Unended
      <4> HIDE DEF r, Q
      <4>2. line = Longer(r, c)
        BY DEF line
      <4> QED BY <2>2, <4>1, <4>2, LongerLaw
    <3> HIDE DEF W, x, n
    <3> QED BY <2>2, <2>5, <2>6, <2>7, <2>8, <3>1
  <2>9. CASE c.word = "NL"
    <3>1. Server!Log!IsNoise(line, us) <=> Server!Log!IsNoise(line, ps) \/ Server!Log!IsNoise(line, qs)
      BY NoiseOfBoth
    <3>2. <<>> \in Seq(Q)
      BY EmptySeq
    <3>3. CASE Server!Log!IsNoise(line, ps)
      <4>1. e = <<>> /\ f = <<>>
        BY <3>1, <3>3 DEF Server!Log!Emitted
      <4>2. Join(x, <<>>) = x /\ Join(u.sent, <<>>) = u.sent
        <5> HIDE DEF x
        <5> QED BY <2>6, <2>7, JoinEmpty
      <4>3. p.sent = x /\ q.sent = u.sent /\ p.held = <<>>
        <5> HIDE DEF x, e, f
        <5> QED BY <2>6, <2>7, <2>9, <4>1, <4>2
      <4> HIDE DEF W, x, n
      <4> QED BY <2>2, <2>5, <3>2, <4>3
    <3>4. CASE ~Server!Log!IsNoise(line, ps)
      <4>1. e = line /\ f = Server!Log!Emitted(line, qs)
        BY <3>1, <3>4 DEF Server!Log!Emitted
      <4> DEFINE y == Join(x, r)
                 v == W(y)
                 w == W(Longer(y, c))
      <4>2. y \in Seq(A) /\ Join(x, line) = Longer(y, c)
        <5>1. line = Longer(r, c)
          BY DEF line
        <5> HIDE DEF x, r
        <5> QED BY <2>6, <5>1, LongerLaw
      <4>3. v.sent = W(x).sent /\ v.held = r
        <5> HIDE DEF x, r
        <5> QED BY <2>2, <2>6, RestWaits
      <4>4. GoesOn(A, v, w, c, qs) /\ w = W(Longer(y, c))
        <5> HIDE DEF y
        <5> QED BY <4>2, WriteNext
      <4>5. line = Longer(v.held, c)
        <5> HIDE DEF v, r
        <5>1. line = Longer(r, c)
          BY DEF line, r
        <5> QED BY <4>3, <5>1
      <4> HIDE DEF y, v, w
      <4>6. w.sent = Join(v.sent, Server!Log!Emitted(line, qs)) /\ w.held = <<>>
        BY <2>9, <4>4, <4>5 DEF GoesOn
      <4> HIDE DEF x, e, f
      <4>7. p.sent = Longer(y, c) /\ p.held = <<>> /\ q.sent = Join(u.sent, Server!Log!Emitted(line, qs))
        BY <2>6, <2>7, <2>9, <4>1, <4>2
      <4>8. W(p.sent) = w
        BY <4>4, <4>7
      <4> HIDE DEF W, n
      <4> QED BY <2>2, <2>5, <3>2, <4>3, <4>6, <4>7, <4>8
    <3> QED BY <3>3, <3>4
  <2> QED BY <2>8, <2>9
<1> HIDE DEF P
<1>3. Seq(A) \subseteq P
  BY <1>1, <1>2, AtomByAtom
<1> QED BY <1>3 DEF P, Merges

\* The patterns of the first wrappers of the chain.
UpTo(k) == UNION {Server!Log!NoisePatterns[chain[j]] : j \in 1 .. k}

\* One wrapper more adds its patterns.
LEMMA UpToNext ==
  ASSUME NEW k \in Nat
  PROVE  UpTo(k + 1) = UpTo(k) \cup Server!Log!NoisePatterns[chain[k + 1]] /\ UpTo(0) = {}
<1> DEFINE N(j) == Server!Log!NoisePatterns[chain[j]]
<1>1. UpTo(k + 1) = UNION {N(j) : j \in 1 .. k + 1} /\ UpTo(k) = UNION {N(j) : j \in 1 .. k}
  BY DEF UpTo
<1> HIDE DEF N
<1>2. 1 .. k + 1 = 1 .. k \cup {k + 1} /\ 1 .. 0 = {}
  OBVIOUS
<1>3. UNION {N(j) : j \in 1 .. k + 1} = (UNION {N(j) : j \in 1 .. k}) \cup N(k + 1)
  BY <1>2
<1>4. UpTo(0) = {}
  BY <1>2 DEF UpTo
<1> QED BY <1>1, <1>3, <1>4 DEF N

\* Only the outermost wrapper waits for the end of a line.
OnlyFirstWaits(held, n) == Len(held) = n /\ \A k \in 2 .. n : held[k] = <<>>

\* A text that goes down the chain: one filter with the patterns of all wrappers
\* lets the same through, and the first wrapper holds what it holds.
WritesAsOne(A, n, held, text) ==
  LET through == Server!Log!Descend(FALSE, held, text)
      one == One(UpTo(n), Join(held[1], text))
  IN /\ through.sent = one.sent
     /\ through.held[1] = one.held
     /\ one.held \in Seq(Unended(A))
     /\ \A k \in 2 .. n : through.held[k] = <<>>

\* That is so of every text, by counting the wrappers down the chain.
LEMMA ChainIsFilter ==
  ASSUME NEW A, NEW n \in Nat \ {0}, n = Len(chain),
         NEW held \in Seq(Seq(A)), OnlyFirstWaits(held, n), NEW text \in Seq(A)
  PROVE  WritesAsOne(A, n, held, text)
<1> DEFINE all == Join(held[1], text)
           through == Server!Log!Descend(FALSE, held, text)
<1> SUFFICES /\ through.sent = One(UpTo(n), all).sent
             /\ through.held[1] = One(UpTo(n), all).held
             /\ One(UpTo(n), all).held \in Seq(Unended(A))
             /\ \A k \in 2 .. n : through.held[k] = <<>>
  BY DEF WritesAsOne
<1>1. Len(held) = n /\ \A k \in 2 .. n : held[k] = <<>>
  BY DEF OnlyFirstWaits
<1>2. through = Server!Log!Descend(FALSE, held, text)
  OBVIOUS
<1> HIDE DEF through
<1> DEFINE Q == Unended(A)
           first == held[1]
           O(k) == One(UpTo(k), all)
           h == O(1).held
<1>3. PICK at :
        /\ through = at[n]
        /\ at[0].sent = text /\ at[0].held = <<>>
        /\ \A k \in 0 .. n : at[k].sent \in Seq(A) /\ at[k].held \in Seq(Seq(A)) /\ Len(at[k].held) = k
        /\ \A k \in 1 .. n : /\ at[k].sent = Through(FALSE, k, held, at[k - 1].sent).sent
                             /\ at[k].held = Longer(at[k - 1].held, Through(FALSE, k, held, at[k - 1].sent).held)
  <2>1. FALSE \in BOOLEAN /\ n \in Nat
    OBVIOUS
  <2>2. PICK at : through = at[n] /\ DescentOf(at, FALSE, A, n, held, text)
    BY <1>1, <1>2, <2>1, DescentPath
  <2>3. Seq(IF FALSE THEN {<<>>} ELSE Seq(A)) = Seq(Seq(A))
    OBVIOUS
  <2> QED BY <2>2, <2>3 DEF DescentOf
<1>4. first \in Seq(A) /\ all \in Seq(A)
  <2>1. first \in Seq(A)
    <3>1. 1 \in 1 .. Len(held)
      BY <1>1
    <3> QED BY <3>1, ElementOfSeq
  <2> QED BY <2>1, ConcatProperties DEF Join, all
<1>5. all = Join(first, text)
  OBVIOUS
<1> HIDE DEF all
<1>6. \A k : O(k).held = h
  BY DEF One
<1> DEFINE P == {k \in 0 .. n : k # 0 => /\ at[k].sent = O(k).sent /\ at[k].held[1] = h /\ h \in Seq(Q)
                                        /\ \A j \in 2 .. k : at[k].held[j] = <<>>}
<1>7. 0 \in P
  OBVIOUS
<1>8. ASSUME NEW k \in 0 .. n - 1, k \in P PROVE k + 1 \in P
  <2> DEFINE t == Through(FALSE, k + 1, held, at[k].sent)
             v == at[k].held
             w == at[k + 1].held
  <2>1. k \in Nat /\ k + 1 \in 1 .. n /\ k + 1 \in 0 .. n /\ (k + 1) - 1 = k /\ k \in 0 .. n
    OBVIOUS
  <2>2. at[k + 1].sent = t.sent /\ w = Longer(v, t.held)
    BY <1>3, <2>1
  <2>3. v \in Seq(Seq(A)) /\ Len(v) = k /\ w \in Seq(Seq(A)) /\ Len(w) = k + 1
    BY <1>3, <2>1
  <2>4. t = Server!Log!WriteThrough(chain[k + 1], held[k + 1], at[k].sent)
    BY DEF Through
  <2> DEFINE N == Server!Log!NoisePatterns[chain[k + 1]]
  <2>5. UpTo(k + 1) = UpTo(k) \cup N /\ UpTo(0) = {}
    BY <2>1, UpToNext
  <2> HIDE DEF v, w, t
  <2>6. w[k + 1] = t.held /\ \A j \in 1 .. k : w[j] = v[j]
    <3> DEFINE e == t.held
    <3> HIDE DEF e
    <3>1. w = Append(v, e)
      BY <2>2 DEF Longer, e
    <3>2. Append(v, e)[k + 1] = e /\ \A j \in 1 .. k : Append(v, e)[j] = v[j]
      BY <2>3
    <3> QED BY <3>1, <3>2 DEF e
  <2>7. CASE k = 0
    <3>1. t = Server!Log!WriteThrough(chain[1], <<>>, all)
      <4> DEFINE name == chain[1]
      <4>1. t = Server!Log!WriteThrough(name, first, text)
        BY <1>3, <2>4, <2>7
      <4> HIDE DEF t, first, name
      <4>2. Server!Log!WriteThrough(name, first, text) = Server!Log!WriteThrough(name, <<>>, Join(first, text))
        BY <1>4, WriteJoins
      <4> QED BY <1>5, <4>1, <4>2 DEF name
    <3>2. UpTo(1) = Server!Log!NoisePatterns[chain[1]]
      <4>1. k + 1 = 1 /\ UpTo(k) = {}
        BY <2>5, <2>7
      <4>2. UpTo(k + 1) = N
        BY <2>5, <4>1
      <4> QED BY <4>1, <4>2
    <3>3. t.sent = O(1).sent /\ t.held = O(1).held
      <4> DEFINE us == UpTo(1)
                 name == chain[1]
      <4>1. us = Server!Log!NoisePatterns[name] /\ t = Server!Log!WriteThrough(name, <<>>, all)
        BY <3>1, <3>2
      <4> HIDE DEF us, name
      <4>2. /\ Server!Log!WriteThrough(name, <<>>, all).sent = One(us, all).sent
            /\ Server!Log!WriteThrough(name, <<>>, all).held = One(us, all).held
        BY <1>4, <4>1, WrapperIsFilter
      <4> QED BY <4>1, <4>2 DEF us
    <3>4. h \in Seq(Q)
      BY <1>4, WrapperBehindFilter DEF Merges
    <3> HIDE DEF O, h
    <3>5. w[1] = h /\ at[1].sent = O(1).sent
      BY <2>2, <2>6, <2>7, <3>3 DEF h
    <3>6. \A j \in 2 .. 1 : w[j] = <<>>
      OBVIOUS
    <3> QED BY <2>1, <2>7, <3>4, <3>5, <3>6 DEF w
  <2>8. CASE k # 0
    <3>1. at[k].sent = O(k).sent /\ v[1] = h /\ h \in Seq(Q) /\ \A j \in 2 .. k : v[j] = <<>>
      BY <1>8, <2>8 DEF v
    <3>2. k + 1 \in 2 .. n /\ held[k + 1] = <<>>
      BY <1>1, <2>1, <2>8
    <3>3. t = Server!Log!WriteThrough(chain[k + 1], <<>>, One(UpTo(k), all).sent)
      BY <2>4, <3>1, <3>2
    <3>4. t.sent = O(k + 1).sent /\ t.held = <<>>
      <4> DEFINE us == UpTo(k + 1)
                 ps == UpTo(k)
                 name == chain[k + 1]
      <4>1. us = ps \cup Server!Log!NoisePatterns[name]
        BY <2>5
      <4> HIDE DEF us, ps, name
      <4>2. /\ Server!Log!WriteThrough(name, <<>>, One(ps, all).sent).sent = One(us, all).sent
            /\ Server!Log!WriteThrough(name, <<>>, One(ps, all).sent).held = <<>>
        <5>1. Merges(A, name, ps, all)
          BY <1>4, WrapperBehindFilter
        <5> QED BY <4>1, <5>1 DEF Merges
      <4> QED BY <3>3, <4>2 DEF us, ps, name
    <3> HIDE DEF O, h
    <3>5. w[1] = h
      <4>1. 1 \in 1 .. k
        BY <2>1, <2>8
      <4> QED BY <2>6, <3>1, <4>1
    <3>6. \A j \in 2 .. k + 1 : w[j] = <<>>
      <4>1. \A j \in 2 .. k + 1 : j = k + 1 \/ (j \in 2 .. k /\ j \in 1 .. k)
        BY <2>1
      <4> QED BY <2>6, <3>1, <3>4, <4>1
    <3>7. at[k + 1].sent = O(k + 1).sent
      BY <2>2, <3>4
    <3> QED BY <2>1, <3>1, <3>5, <3>6, <3>7 DEF w
  <2> QED BY <2>7, <2>8
<1> HIDE DEF P
<1>9. \A k \in 0 .. n : k \in P
  <2>1. n \in Nat
    OBVIOUS
  <2> QED BY <1>7, <1>8, <2>1, CountUp
<1>10. n \in P /\ n # 0
  BY <1>9
<1>11. at[n].sent = O(n).sent /\ at[n].held[1] = h /\ h \in Seq(Q) /\ \A j \in 2 .. n : at[n].held[j] = <<>>
  BY <1>10 DEF P
<1> HIDE DEF h
<1> QED BY <1>3, <1>6, <1>11

\* The flush of one wrapper: what waits in it or is flushed into it goes on unless it is noise.
FlushesOn(name, r) ==
  /\ Server!Log!FlushThrough(name, r, <<>>).sent = Server!Log!Emitted(r, Server!Log!NoisePatterns[name])
  /\ Server!Log!FlushThrough(name, <<>>, r).sent = Server!Log!Emitted(r, Server!Log!NoisePatterns[name])

\* That is so of every rest of a line.
LEMMA FlushRest ==
  ASSUME NEW A, NEW name, NEW r \in Seq(Unended(A))
  PROVE  FlushesOn(name, r)
<1> DEFINE ps == Server!Log!NoisePatterns[name]
           W == Server!Log!WriteThrough(name, <<>>, r)
           none == <<>>
<1>1. r \in Seq(A) /\ Server!Log!Emitted(r, ps) \in Seq(A)
  <2>1. Seq(Unended(A)) \subseteq Seq(A)
    BY SeqMonotonic DEF Unended
  <2> QED BY <2>1, EmptySeq DEF Server!Log!Emitted
<1>2. Join(none, r) = r /\ Join(r, none) = r /\ none \in Seq(A)
  BY <1>1, JoinEmpty
<1>3. Server!Log!WriteThrough(name, <<>>, none) = NoneSent
  BY <1>2, WriteAlone
<1>4. W.sent = <<>> /\ W.held = r
  <2>1. Server!Log!WriteThrough(name, <<>>, none).held = <<>> /\ Server!Log!WriteThrough(name, <<>>, none).sent = <<>>
    BY <1>3 DEF NoneSent
  <2> HIDE DEF none
  <2>2. /\ Server!Log!WriteThrough(name, <<>>, Join(none, r)).sent = Server!Log!WriteThrough(name, <<>>, none).sent
        /\ Server!Log!WriteThrough(name, <<>>, Join(none, r)).held = r
    BY <1>2, <2>1, RestWaits
  <2> QED BY <1>2, <2>1, <2>2
<1>5. Server!Log!WriteThrough(name, r, <<>>) = W
  <2> HIDE DEF none
  <2>1. Server!Log!WriteThrough(name, r, none) = Server!Log!WriteThrough(name, <<>>, Join(r, none))
    BY <1>1, <1>2, WriteJoins
  <2> QED BY <1>2, <2>1 DEF none
<1>6. <<>> \o Server!Log!Emitted(r, ps) = Server!Log!Emitted(r, ps)
  BY <1>1, ConcatEmptySeq
<1> HIDE DEF W
<1>7. /\ Server!Log!FlushThrough(name, r, <<>>).sent = W.sent \o Server!Log!Emitted(W.held, ps)
      /\ Server!Log!FlushThrough(name, <<>>, r).sent = W.sent \o Server!Log!Emitted(W.held, ps)
  BY <1>5 DEF Server!Log!FlushThrough, W
<1> QED BY <1>4, <1>6, <1>7 DEF FlushesOn

\* What two filters let through is what one with the patterns of both does.
LEMMA EmittedTwice ==
  ASSUME NEW Q, NEW r \in Seq(Q), NEW ps, NEW qs
  PROVE  /\ Server!Log!Emitted(r, ps) \in Seq(Q)
         /\ Server!Log!Emitted(Server!Log!Emitted(r, ps), qs) = Server!Log!Emitted(r, ps \cup qs)
BY NoiseOfBoth, EmptySeq DEF Server!Log!Emitted

\* A flush that goes down the chain lets go on what is noise for no wrapper.
FlushesAsOne(n, held) == Server!Log!Descend(TRUE, held, <<>>).sent = Server!Log!Emitted(held[1], UpTo(n))

\* That is so when only the outermost wrapper waits.
LEMMA ChainFlushes ==
  ASSUME NEW A, NEW n \in Nat \ {0}, n = Len(chain),
         NEW held \in Seq(Seq(A)), OnlyFirstWaits(held, n), held[1] \in Seq(Unended(A))
  PROVE  FlushesAsOne(n, held)
<1> DEFINE first == held[1]
           through == Server!Log!Descend(TRUE, held, <<>>)
<1> SUFFICES through.sent = Server!Log!Emitted(first, UpTo(n))
  BY DEF FlushesAsOne
<1>1. Len(held) = n /\ (\A k \in 2 .. n : held[k] = <<>>) /\ first \in Seq(Unended(A)) /\ first = held[1]
  BY DEF OnlyFirstWaits
<1>2. through = Server!Log!Descend(TRUE, held, <<>>)
  OBVIOUS
<1> HIDE DEF through, first
<1> DEFINE E(k) == Server!Log!Emitted(first, UpTo(k))
           none == <<>>
<1>3. PICK at :
        /\ through = at[n] /\ at[0].sent = <<>>
        /\ \A k \in 1 .. n : at[k].sent = Through(TRUE, k, held, at[k - 1].sent).sent
  <2>1. TRUE \in BOOLEAN /\ n \in Nat /\ none \in Seq(A) /\ through = Server!Log!Descend(TRUE, held, none)
    BY <1>2, EmptySeq
  <2> HIDE DEF none
  <2>2. PICK at : through = at[n] /\ DescentOf(at, TRUE, A, n, held, none)
    BY <1>1, <2>1, DescentPath
  <2> QED BY <2>2 DEF DescentOf, none
<1> DEFINE P == {k \in 0 .. n : k # 0 => at[k].sent = E(k)}
<1>4. 0 \in P
  OBVIOUS
<1>5. ASSUME NEW k \in 0 .. n - 1, k \in P PROVE k + 1 \in P
  <2> DEFINE name == chain[k + 1]
             N == Server!Log!NoisePatterns[name]
             x == at[k].sent
  <2>1. k \in Nat /\ k + 1 \in 1 .. n /\ k + 1 \in 0 .. n /\ (k + 1) - 1 = k
    OBVIOUS
  <2>2. at[k + 1].sent = Server!Log!FlushThrough(name, held[k + 1], x).sent
    BY <1>3, <2>1 DEF Through
  <2>3. UpTo(k + 1) = UpTo(k) \cup N /\ UpTo(0) = {}
    BY <2>1, UpToNext
  <2>4. CASE k = 0
    <3>1. k + 1 = 1 /\ held[k + 1] = first /\ x = <<>>
      BY <1>1, <1>3, <2>4
    <3>2. UpTo(k + 1) = N
      BY <2>3, <2>4
    <3> HIDE DEF name, x
    <3>3. Server!Log!FlushThrough(name, first, <<>>).sent = Server!Log!Emitted(first, N)
      <4>1. FlushesOn(name, first)
        BY <1>1, FlushRest
      <4> QED BY <4>1 DEF FlushesOn
    <3> HIDE DEF N
    <3> QED BY <2>1, <2>2, <3>1, <3>2, <3>3
  <2>5. CASE k # 0
    <3>1. x = E(k)
      BY <1>5, <2>5
    <3>2. k + 1 \in 2 .. n
      BY <2>1, <2>5
    <3>3. held[k + 1] = <<>>
      BY <1>1, <3>2
    <3> DEFINE ps == UpTo(k)
    <3> HIDE DEF name, ps
    <3>4. /\ Server!Log!Emitted(first, ps) \in Seq(Unended(A))
          /\ Server!Log!Emitted(Server!Log!Emitted(first, ps), N) = Server!Log!Emitted(first, ps \cup N)
      <4> DEFINE Q == Unended(A)
      <4>1. first \in Seq(Q)
        BY <1>1
      <4> HIDE DEF N, Q
      <4>2. /\ Server!Log!Emitted(first, ps) \in Seq(Q)
            /\ Server!Log!Emitted(Server!Log!Emitted(first, ps), N) = Server!Log!Emitted(first, ps \cup N)
        BY <4>1, EmittedTwice
      <4> QED BY <4>2 DEF Q
    <3>5. Server!Log!FlushThrough(name, <<>>, Server!Log!Emitted(first, ps)).sent
            = Server!Log!Emitted(Server!Log!Emitted(first, ps), N)
      <4> DEFINE e == Server!Log!Emitted(first, ps)
      <4>1. e \in Seq(Unended(A)) /\ N = Server!Log!NoisePatterns[name]
        BY <3>4
      <4>2. FlushesOn(name, e)
        <5> HIDE DEF e
        <5> QED BY <4>1, FlushRest
      <4> QED BY <4>2 DEF FlushesOn
    <3>6. x = Server!Log!Emitted(first, ps)
      BY <3>1 DEF ps
    <3>7. UpTo(k + 1) = ps \cup N
      BY <2>3 DEF ps
    <3> HIDE DEF x, N
    <3>8. at[k + 1].sent = E(k + 1)
      BY <2>2, <3>3, <3>4, <3>5, <3>6, <3>7
    <3> QED BY <2>1, <3>8
  <2> QED BY <2>4, <2>5
<1> HIDE DEF P
<1>6. \A k \in 0 .. n : k \in P
  <2>1. n \in Nat
    OBVIOUS
  <2> QED BY <1>4, <1>5, <2>1, CountUp
<1>7. n \in P /\ n # 0
  BY <1>6
<1>8. at[n].sent = E(n)
  BY <1>7 DEF P
<1> QED BY <1>3, <1>8

\* What is written on, atom by atom.
DrainedAs(a) == [atom |-> a, to |-> IF window THEN "null" ELSE "terminal"]

\* One more atom is written on at the end.
LEMMA DrainsNext ==
  ASSUME NEW A, NEW s \in Seq(A), NEW c \in A
  PROVE  Server!Log!Drains(Longer(s, c)) = Longer(Server!Log!Drains(s), DrainedAs(c)) /\ Server!Log!Drains(<<>>) = <<>>
<1> DEFINE F == [a \in A |-> DrainedAs(a)]
           B == {DrainedAs(a) : a \in A}
<1>1. F \in [A -> B] /\ F[c] = DrainedAs(c)
  OBVIOUS
<1>2. ASSUME NEW t \in Seq(A) PROVE Each(F, t) = Server!Log!Drains(t)
  <2>1. \A i \in DOMAIN t : t[i] \in A
    OBVIOUS
  <2> QED BY <2>1 DEF Each, Server!Log!Drains, DrainedAs
<1> HIDE DEF F, B
<1>3. Each(F, s) \in Seq(B) /\ Each(F, Longer(s, c)) = Longer(Each(F, s), F[c]) /\ Each(F, <<>>) = <<>>
  BY <1>1, EachNext
<1>4. Longer(s, c) \in Seq(A)
  BY AppendProperties DEF Longer
<1>5. Server!Log!Drains(<<>>) = <<>>
  BY DEF Server!Log!Drains
<1> QED BY <1>1, <1>2, <1>3, <1>4, <1>5

\* Every atom, whoever wrote it.
Atoms == [word : STRING, writer : AllWriters, inside : BOOLEAN]

\* What left the process is such an atom.
LEMMA PlacedAtoms == \A d \in Placed : d.atom \in Atoms
BY DEF Placed, Atoms

\* What the Python writers wrote comes out in its order, what native code wrote not at all.
LEMMA PythonDrains ==
  ASSUME window \in BOOLEAN, NEW out \in Seq(Placed)
  PROVE  /\ \A text \in Seq(Mine \cup Other) :
              Server!Log!Python(Join(out, Server!Log!Drains(text))) = Join(Server!Log!Python(out), text)
         /\ \A text \in Seq(Native) :
              Server!Log!Python(Join(out, Server!Log!Drains(text))) = Server!Log!Python(out)
<1> DEFINE Both == Mine \cup Other
           Y(t) == Server!Log!Python(t)
           D(t) == Server!Log!Drains(t)
           V == Seq(Atoms)
<1>1. Seq(Both) \subseteq Seq(Mine \cup Other \cup Native) /\ Seq(Native) \subseteq Seq(Mine \cup Other \cup Native)
  BY AtomsUnderWay
<1>2. \A t \in Seq(Both) : D(t) \in Seq(Placed)
  BY <1>1, DrainsArePlaced
<1>3. \A t \in Seq(Native) : D(t) \in Seq(Placed)
  BY <1>1, DrainsArePlaced
<1>4. \A a \in Both : a.writer # "native" /\ DrainedAs(a) \in Placed /\ DrainedAs(a).atom = a
  BY DEF Mine, Other, AllWriters, Placed, DrainedAs
<1>5. \A a \in Native : a.writer = "native" /\ DrainedAs(a) \in Placed /\ DrainedAs(a).atom = a
  BY DEF Native, AllWriters, Placed, DrainedAs
<1>6. /\ \A s \in Seq(Placed) : Y(s) \in V
      /\ \A s \in Seq(Placed), d \in Placed :
           /\ d.atom.writer = "native" => Y(Longer(s, d)) = Y(s)
           /\ d.atom.writer # "native" => Y(Longer(s, d)) = Longer(Y(s), d.atom)
  BY PlacedAtoms, PythonLaw
<1> HIDE DEF Y, D, Both, V
<1>7. ASSUME NEW A, NEW t \in Seq(A), NEW c \in A, D(t) \in Seq(Placed), DrainedAs(c) \in Placed
      PROVE  Join(out, D(Longer(t, c))) = Longer(Join(out, D(t)), DrainedAs(c)) /\ Join(out, D(t)) \in Seq(Placed)
  <2>1. D(Longer(t, c)) = Longer(D(t), DrainedAs(c))
    BY DrainsNext DEF D
  <2> DEFINE d == D(t)
             e == DrainedAs(c)
  <2>2. d \in Seq(Placed) /\ e \in Placed
    BY <1>7
  <2> HIDE DEF d, e
  <2>3. Join(out, Longer(d, e)) = Longer(Join(out, d), e) /\ Join(out, d) \in Seq(Placed)
    <3> HIDE DEF Placed
    <3> QED BY <2>2, LongerLaw
  <2> QED BY <2>1, <2>3 DEF d, e
<1>8. ASSUME NEW A PROVE D(<<>>) = <<>> /\ Join(out, <<>>) = out /\ Join(Y(out), <<>>) = Y(out)
  <2>1. D(<<>>) = <<>>
    BY DEF D, Server!Log!Drains
  <2>2. out \in Seq(Placed) /\ Y(out) \in V
    BY <1>6
  <2> HIDE DEF Placed
  <2>3. Join(out, <<>>) = out
    BY JoinEmpty
  <2>4. Join(Y(out), <<>>) = Y(out)
    BY <2>2, JoinEmpty DEF V
  <2> QED BY <2>1, <2>3, <2>4
<1> DEFINE P == {t \in Seq(Both) : Y(Join(out, D(t))) = Join(Y(out), t)}
           R == {t \in Seq(Native) : Y(Join(out, D(t))) = Y(out)}
<1>9. <<>> \in P /\ <<>> \in R
  BY <1>8, EmptySeq
<1>10. ASSUME NEW t \in Seq(Both), NEW c \in Both, t \in P PROVE Longer(t, c) \in P
  <2> DEFINE j == Join(out, D(t))
             d == DrainedAs(c)
  <2>1. D(t) \in Seq(Placed) /\ d \in Placed /\ d.atom = c /\ c.writer # "native"
    BY <1>2, <1>4
  <2>2. Join(out, D(Longer(t, c))) = Longer(j, d) /\ j \in Seq(Placed)
    BY <1>7, <2>1
  <2>3. Y(j) = Join(Y(out), t)
    BY <1>10
  <2> HIDE DEF j, d
  <2>4. Y(Longer(j, d)) = Longer(Y(j), c)
    BY <1>6, <2>1, <2>2
  <2>5. Longer(Join(Y(out), t), c) = Join(Y(out), Longer(t, c))
    <3>1. Seq(Both) \subseteq Seq(Atoms) /\ c \in Atoms
      <4>1. Both \subseteq Atoms
        BY DEF Both, Mine, Other, Atoms, AllWriters
      <4> QED BY <4>1, SeqMonotonic
    <3>2. t \in Seq(Atoms) /\ Y(out) \in Seq(Atoms)
      BY <1>6, <3>1 DEF V
    <3> HIDE DEF Atoms
    <3> QED BY <3>1, <3>2, LongerLaw
  <2>6. Longer(t, c) \in Seq(Both)
    BY AppendProperties DEF Longer
  <2> QED BY <2>2, <2>3, <2>4, <2>5, <2>6
<1>11. ASSUME NEW t \in Seq(Native), NEW c \in Native, t \in R PROVE Longer(t, c) \in R
  <2> DEFINE j == Join(out, D(t))
             d == DrainedAs(c)
  <2>1. D(t) \in Seq(Placed) /\ d \in Placed /\ d.atom.writer = "native"
    BY <1>3, <1>5
  <2>2. Join(out, D(Longer(t, c))) = Longer(j, d) /\ j \in Seq(Placed)
    BY <1>7, <2>1
  <2>3. Y(j) = Y(out)
    BY <1>11
  <2> HIDE DEF j, d
  <2>4. Y(Longer(j, d)) = Y(j)
    BY <1>6, <2>1, <2>2
  <2>5. Longer(t, c) \in Seq(Native)
    <3> HIDE DEF Native
    <3> QED BY AppendProperties DEF Longer
  <2> QED BY <2>2, <2>3, <2>4, <2>5
<1> HIDE DEF P, R
<1>12. Seq(Both) \subseteq P
  BY <1>9, <1>10, AtomByAtom
<1>13. Seq(Native) \subseteq R
  <2> HIDE DEF Native
  <2> QED BY <1>9, <1>11, AtomByAtom
<1> QED BY <1>12, <1>13 DEF P, R, Both, Y, D

\* What the filter drops, holds of a writer, and has let through.
NoiseNow == UNION {Server!Log!NoisePatterns[chain[k]] : k \in DOMAIN chain}
HeldBy(w) == IF chain = <<>> THEN <<>> ELSE buffers[w][1]
HeldNow == [w \in Server!Log!Writers |-> HeldBy(w)]
ShownNow == Join(Server!Log!Python(drained), io)

\* Only the outermost wrapper ever waits for the end of a line.
ChainInv ==
  /\ chain \in Seq(Server!Log!Wrappers)
  /\ ~configured => chain = <<>>
  /\ \A w \in Server!Log!Writers :
       chain # <<>> => buffers[w][1] \in Seq(Unended(Atoms)) /\ \A k \in 2 .. Len(chain) : buffers[w][k] = <<>>

\* What is under way is too.
LEMMA AtomsAreAtoms ==
  ASSUME WindowInv
  PROVE  /\ Seq(Mine \cup Other) \subseteq Seq(Atoms)
         /\ \A w \in Server!Log!Writers : Seq(AtomsOf(w)) \subseteq Seq(Atoms)
         /\ \A w \in Server!Log!Writers : Seq(Seq(AtomsOf(w))) \subseteq Seq(Seq(Atoms))
<1>1. Mine \cup Other \subseteq Atoms
  BY DEF WindowInv, Mine, Other, Atoms, AllWriters
<1>2. \A w : AtomsOf(w) \subseteq Atoms
  BY <1>1 DEF AtomsOf
<1> DEFINE Both == Mine \cup Other
<1> HIDE DEF Both
<1>3. Seq(Both) \subseteq Seq(Atoms)
  BY <1>1, SeqMonotonic DEF Both
<1>4. ASSUME NEW w PROVE Seq(AtomsOf(w)) \subseteq Seq(Atoms) /\ Seq(Seq(AtomsOf(w))) \subseteq Seq(Seq(Atoms))
  <2> DEFINE S == Seq(AtomsOf(w))
             T == Seq(Atoms)
  <2>1. S \subseteq T
    BY <1>2, SeqMonotonic
  <2> HIDE DEF S, T
  <2>2. Seq(S) \subseteq Seq(T)
    BY <2>1, SeqMonotonic
  <2> QED BY <2>1, <2>2 DEF S, T
<1> QED BY <1>3, <1>4 DEF Both

\* The chain as the laws about it see it.
LEMMA ChainNow ==
  ASSUME WindowInv, ChainInv, NEW w \in Server!Log!Writers
  PROVE  /\ buffers[w] \in Seq(Seq(Atoms)) /\ Len(buffers[w]) = Len(chain) /\ Len(chain) \in Nat
         /\ chain = <<>> <=> Len(chain) = 0
         /\ NoiseNow = UpTo(Len(chain))
         /\ HeldBy(w) \in Seq(Unended(Atoms)) /\ HeldBy(w) \in Seq(Atoms)
<1>1. buffers[w] \in Seq(Seq(AtomsOf(w))) /\ Len(buffers[w]) = Len(chain) /\ Len(chain) \in Nat
  BY DEF WindowInv
<1>2. buffers[w] \in Seq(Seq(Atoms))
  BY <1>1, AtomsAreAtoms
<1>3. chain = <<>> <=> Len(chain) = 0
  BY EmptySeq DEF ChainInv
<1>4. DOMAIN chain = 1 .. Len(chain)
  BY DEF ChainInv
<1>5. NoiseNow = UpTo(Len(chain))
  BY <1>4 DEF NoiseNow, UpTo
<1>6. HeldBy(w) \in Seq(Unended(Atoms))
  BY EmptySeq DEF HeldBy, ChainInv
<1>7. Seq(Unended(Atoms)) \subseteq Seq(Atoms)
  BY SeqMonotonic DEF Unended
<1> QED BY <1>1, <1>2, <1>3, <1>5, <1>6, <1>7

\* A write, as the filter sees it.
SeenAsOne(w, text) ==
  LET through == Server!Log!Descend(FALSE, buffers[w], text)
      one == One(NoiseNow, Join(HeldBy(w), text)) IN
  /\ chain = <<>> => through.sent = text
  /\ chain # <<>> => /\ through.sent = one.sent /\ through.held[1] = one.held
                     /\ one.held \in Seq(Unended(Atoms))
                     /\ \A k \in 2 .. Len(chain) : through.held[k] = <<>>

\* That is so of every text of its own.
LEMMA WriteSeen ==
  ASSUME WindowInv, ChainInv, NEW w \in Server!Log!Writers, NEW text \in Seq(AtomsOf(w))
  PROVE  SeenAsOne(w, text)
<1> DEFINE through == Server!Log!Descend(FALSE, buffers[w], text)
           one == One(NoiseNow, Join(HeldBy(w), text))
<1> SUFFICES /\ chain = <<>> => through.sent = text
             /\ chain # <<>> => /\ through.sent = one.sent /\ through.held[1] = one.held
                                /\ one.held \in Seq(Unended(Atoms))
                                /\ \A k \in 2 .. Len(chain) : through.held[k] = <<>>
  BY DEF SeenAsOne
<1> DEFINE n == Len(chain)
           b == buffers[w]
           h == HeldBy(w)
<1>1. /\ b \in Seq(Seq(Atoms)) /\ Len(b) = n /\ n \in Nat /\ (chain = <<>> <=> n = 0)
      /\ NoiseNow = UpTo(n)
  BY ChainNow
<1>2. text \in Seq(Atoms)
  BY AtomsAreAtoms
<1>3. CASE chain = <<>>
  <2>1. FALSE \in BOOLEAN /\ n = Len(chain) /\ through = Server!Log!Descend(FALSE, b, text)
    OBVIOUS
  <2> HIDE DEF b, n, Atoms
  <2>2. PICK at : through = at[n] /\ DescentOf(at, FALSE, Atoms, n, b, text)
    BY <1>1, <1>2, <2>1, DescentPath
  <2>3. n = 0
    BY <1>1, <1>3
  <2> QED BY <1>3, <2>2, <2>3 DEF DescentOf
<1>4. CASE chain # <<>>
  <2>1. n \in Nat \ {0} /\ n = Len(chain)
    BY <1>1, <1>4
  <2>2. OnlyFirstWaits(b, n)
    BY <1>1, <1>4 DEF ChainInv, OnlyFirstWaits
  <2> DEFINE all == Join(b[1], text)
  <2>3. all = Join(b[1], text) /\ through = Server!Log!Descend(FALSE, b, text)
    OBVIOUS
  <2>4. one = One(UpTo(n), all)
    BY <1>1, <1>4 DEF HeldBy
  <2>5. WritesAsOne(Atoms, n, b, text)
    <3> HIDE DEF b, n, Atoms
    <3> QED BY <1>1, <1>2, <2>1, <2>2, ChainIsFilter
  <2> HIDE DEF b, n, Atoms
  <2>6. /\ through.sent = One(UpTo(n), all).sent
        /\ through.held[1] = One(UpTo(n), all).held
        /\ One(UpTo(n), all).held \in Seq(Unended(Atoms))
        /\ \A k \in 2 .. n : through.held[k] = <<>>
    BY <2>3, <2>5 DEF WritesAsOne, all
  <2> QED BY <1>4, <2>4, <2>6 DEF n, all
<1> QED BY <1>3, <1>4

\* A flush, as the filter sees it.
LEMMA FlushSeen ==
  ASSUME WindowInv, ChainInv, NEW w \in Server!Log!Writers,
         NEW through, through = Server!Log!Descend(TRUE, buffers[w], <<>>)
  PROVE  through.sent = Server!Log!Emitted(HeldBy(w), NoiseNow)
<1> DEFINE n == Len(chain)
           b == buffers[w]
           h == HeldBy(w)
<1>1. /\ b \in Seq(Seq(Atoms)) /\ Len(b) = n /\ n \in Nat /\ (chain = <<>> <=> n = 0)
      /\ NoiseNow = UpTo(n) /\ h \in Seq(Unended(Atoms))
  BY ChainNow
<1>2. CASE chain = <<>>
  <2> DEFINE text == <<>>
  <2>1. TRUE \in BOOLEAN /\ n = Len(chain) /\ through = Server!Log!Descend(TRUE, b, text) /\ text \in Seq(Atoms)
    BY EmptySeq
  <2> HIDE DEF b, n, Atoms, text
  <2>2. PICK at : through = at[n] /\ DescentOf(at, TRUE, Atoms, n, b, text)
    BY <1>1, <2>1, DescentPath
  <2>3. n = 0
    BY <1>1, <1>2
  <2>4. through.sent = <<>>
    BY <2>2, <2>3 DEF DescentOf, text
  <2> QED BY <1>2, <2>4 DEF HeldBy, Server!Log!Emitted
<1>3. CASE chain # <<>>
  <2>1. n \in Nat \ {0} /\ n = Len(chain)
    BY <1>1, <1>3
  <2>2. OnlyFirstWaits(b, n)
    BY <1>1, <1>3 DEF ChainInv, OnlyFirstWaits
  <2>3. h = b[1] /\ through = Server!Log!Descend(TRUE, b, <<>>)
    BY <1>3 DEF HeldBy
  <2>4. FlushesAsOne(n, b)
    <3>1. b[1] \in Seq(Unended(Atoms))
      BY <1>1, <2>3
    <3> HIDE DEF b, n, Atoms
    <3> QED BY <1>1, <2>1, <2>2, <3>1, ChainFlushes
  <2> HIDE DEF b, n, h, Atoms
  <2>5. through.sent = Server!Log!Emitted(h, UpTo(n))
    BY <2>3, <2>4 DEF FlushesAsOne
  <2> QED BY <1>1, <2>5 DEF h
<1> QED BY <1>2, <1>3

\* A step of the filter: what is held and shown changes as its Write says.
LEMMA FilterWrites ==
  ASSUME NEW w \in Server!Log!Writers, NEW words \in LogTexts, window \in BOOLEAN,
         NEW text, text = Server!Log!Marked(w, words),
         NEW one, one = One(NoiseNow, Join(HeldBy(w), text)),
         UNCHANGED chain,
         ShownNow' = Join(ShownNow, IF chain # <<>> THEN one.sent ELSE text),
         HeldNow' = [HeldNow EXCEPT ![w] = IF chain # <<>> THEN one.held ELSE <<>>]
  PROVE  Server!Log!Filter!Next
<1>1. UNCHANGED <<chain # <<>>, NoiseNow>>
  BY DEF NoiseNow
<1>2. HeldNow[w] = HeldBy(w)
  BY DEF HeldNow
<1>3. Server!Log!Filter!Write(w, text)
  BY <1>1, <1>2 DEF Server!Log!Filter!Write, Server!Log!Filter!Kept, One, Joined, EmitAll, Server!Log!Emitted,
                    ShownNow, HeldNow, HeldBy, NoiseNow, Join
<1> QED BY <1>3 DEF Server!Log!Filter!Next, Server!Log!Marked

\* Another one: it changes as its Flush says.
LEMMA FilterFlushes ==
  ASSUME NEW w \in Server!Log!Writers, UNCHANGED chain,
         ShownNow' = Join(ShownNow, Server!Log!Emitted(HeldBy(w), NoiseNow)),
         HeldNow' = [HeldNow EXCEPT ![w] = <<>>]
  PROVE  Server!Log!Filter!Next
<1>1. UNCHANGED <<chain # <<>>, NoiseNow>>
  BY DEF NoiseNow
<1>2. HeldNow[w] = HeldBy(w)
  BY DEF HeldNow
<1>3. Server!Log!Filter!Flush(w)
  BY <1>1, <1>2 DEF Server!Log!Filter!Flush, Server!Log!Filter!Kept, Server!Log!Emitted,
                    ShownNow, HeldNow, HeldBy, NoiseNow, Join
<1> QED BY <1>3 DEF Server!Log!Filter!Next

\* What a step of the log leaves of the buffers.
LEMMA BufferChanges ==
  ASSUME WindowInv, UNCHANGED chain, NEW w \in Server!Log!Writers, NEW held,
         buffers' = [buffers EXCEPT ![w] = held]
  PROVE  /\ buffers'[w] = held /\ \A v \in Server!Log!Writers : v # w => buffers'[v] = buffers[v]
         /\ HeldNow' = [HeldNow EXCEPT ![w] = IF chain = <<>> THEN <<>> ELSE held[1]]
<1>1. DOMAIN buffers = Server!Log!Writers
  BY DEF WindowInv
<1>2. \A v \in Server!Log!Writers : buffers'[v] = IF v = w THEN held ELSE buffers[v]
  BY <1>1
<1>3. \A v \in Server!Log!Writers : HeldBy(v)' = IF v = w THEN (IF chain = <<>> THEN <<>> ELSE held[1]) ELSE HeldBy(v)
  BY <1>2 DEF HeldBy
<1> QED BY <1>2, <1>3 DEF HeldNow

\* What has been shown grows by what was sent, drained or not.
LEMMA ShownGrows ==
  ASSUME WindowInv, NEW sent, io \o sent \in Seq(Mine \cup Other), sent \in Seq(Atoms)
  PROVE  LET D(t) == Server!Log!Drains(t) IN
         /\ Join(Server!Log!Python(drained), io \o sent) = Join(ShownNow, sent)
         /\ Server!Log!Python(drained \o D(io \o sent)) = Join(ShownNow, sent)
         /\ Server!Log!Python(drained \o (D(libc) \o D(io \o sent))) = Join(ShownNow, sent)
         /\ Server!Log!Python(drained \o (D(io \o sent) \o D(libc))) = Join(ShownNow, sent)
         /\ Server!Log!Python(drained \o D(libc)) = Server!Log!Python(drained)
         /\ ShownNow \in Seq(Atoms)
<1> DEFINE D(t) == Server!Log!Drains(t)
           Y(t) == Server!Log!Python(t)
           Both == Mine \cup Other
           text == io \o sent
           out == drained
<1>1. window \in BOOLEAN /\ out \in Seq(Placed) /\ libc \in Seq(Native) /\ io \in Seq(Atoms) /\ text \in Seq(Both)
  BY AtomsAreAtoms DEF WindowInv
<1>2. D(libc) \in Seq(Placed) /\ D(text) \in Seq(Placed)
  BY <1>1, AtomsUnderWay, DrainsArePlaced
<1>3. Y(out) \in Seq(Atoms)
  BY <1>1, PlacedAtoms, PythonLaw
<1> HIDE DEF D, Y, out, Both
<1>4. ASSUME NEW o \in Seq(Placed) PROVE Y(Join(o, D(text))) = Join(Y(o), text) /\ Y(Join(o, D(libc))) = Y(o)
  BY <1>1, PythonDrains DEF D, Y, Both
<1>5. Join(Y(out), text) = Join(ShownNow, sent) /\ ShownNow \in Seq(Atoms)
  <2>1. Y(out) \o (io \o sent) = (Y(out) \o io) \o sent /\ Y(out) \o io \in Seq(Atoms)
    <3> DEFINE y == Y(out)
    <3> HIDE DEF Atoms, y
    <3>1. Join(y, io) \in Seq(Atoms) /\ Join(y, Join(io, sent)) = Join(Join(y, io), sent)
      BY <1>1, <1>3, JoinLaw DEF y
    <3> QED BY <3>1 DEF Join, y
  <2> QED BY <2>1 DEF Join, ShownNow, Y, out
<1> DEFINE l == D(libc)
           d == D(text)
<1>6. Join(out, l) \in Seq(Placed) /\ Join(out, d) \in Seq(Placed)
      /\ Join(out, l \o d) = Join(Join(out, l), d) /\ Join(out, d \o l) = Join(Join(out, d), l)
  <2> HIDE DEF l, d, Placed
  <2>1. l \in Seq(Placed) /\ d \in Seq(Placed)
    BY <1>2 DEF l, d
  <2>2. Join(out, l) \in Seq(Placed) /\ Join(out, Join(l, d)) = Join(Join(out, l), d)
    BY <1>1, <2>1, JoinLaw
  <2>3. Join(out, d) \in Seq(Placed) /\ Join(out, Join(d, l)) = Join(Join(out, d), l)
    BY <1>1, <2>1, JoinLaw
  <2> QED BY <2>2, <2>3 DEF Join
<1>7. Y(Join(out, d)) = Join(Y(out), text) /\ Y(Join(out, l)) = Y(out)
  BY <1>1, <1>4
<1>8. Y(Join(out, l \o d)) = Join(Y(out), text) /\ Y(Join(out, d \o l)) = Join(Y(out), text)
  <2>1. Y(Join(Join(out, l), d)) = Join(Y(Join(out, l)), text) /\ Y(Join(Join(out, d), l)) = Y(Join(out, d))
    BY <1>4, <1>6
  <2> HIDE DEF l, d, text
  <2> QED BY <1>6, <1>7, <2>1
<1> QED BY <1>5, <1>7, <1>8 DEF D, Y, out, Join

\* No step of it: nothing it sees changes.
LEMMA FilterStutters ==
  ASSUME UNCHANGED chain, HeldNow' = HeldNow, ShownNow' = ShownNow
  PROVE  UNCHANGED Server!Log!Filter!vars
<1>1. UNCHANGED <<chain # <<>>, NoiseNow>>
  BY DEF NoiseNow
<1> QED BY <1>1 DEF Server!Log!Filter!vars, NoiseNow, HeldNow, HeldBy, ShownNow, Join

\* The filter is put in while nothing is held.
LEMMA ConfigureSeen ==
  ASSUME WindowInv, ChainInv, NEW shown, Server!Log!Configure(shown)
  PROVE  ChainInv' /\ Server!Log!Filter!Next
<1>1. ASSUME NEW name PROVE Server!Log!Around(name, shown) \in Seq({name})
  BY EmptySeq DEF Server!Log!Around
<1>2. chain' \in Seq(Server!Log!Wrappers)
  <2> DEFINE N == Server!Log!Wrappers
             a == Server!Log!Around("tool", shown)
             b == Server!Log!Around("llmcompressor", shown)
             c == Server!Log!Around("vllm", shown)
             d == Server!Log!Around("trt", shown)
  <2>1. {"tool"} \subseteq N /\ {"llmcompressor"} \subseteq N /\ {"vllm"} \subseteq N /\ {"trt"} \subseteq N
    BY DEF Server!Log!Wrappers
  <2>2. chain' = a \o b \o c \o d
    BY DEF Server!Log!Configure
  <2>3. a \in Seq({"tool"}) /\ b \in Seq({"llmcompressor"}) /\ c \in Seq({"vllm"}) /\ d \in Seq({"trt"})
    BY <1>1
  <2> HIDE DEF N, a, b, c, d
  <2>4. a \in Seq(N) /\ b \in Seq(N) /\ c \in Seq(N) /\ d \in Seq(N)
    BY <2>1, <2>3, SeqMonotonic
  <2>5. a \o b \in Seq(N)
    BY <2>4, ConcatProperties
  <2>6. a \o b \o c \in Seq(N)
    BY <2>4, <2>5, ConcatProperties
  <2>7. a \o b \o c \o d \in Seq(N)
    BY <2>4, <2>6, ConcatProperties
  <2> QED BY <2>2, <2>7 DEF N
<1> DEFINE n == Len(chain')
           none == [k \in 1 .. n |-> <<>>]
<1>3. n \in Nat /\ DOMAIN chain' = 1 .. n /\ (chain' # <<>> => n # 0)
  BY <1>2, EmptySeq
<1>4. \A w \in Server!Log!Writers : buffers'[w] = none
  BY <1>3 DEF Server!Log!Configure
<1> HIDE DEF n
<1>5. \A k \in 1 .. n : none[k] = <<>>
  OBVIOUS
<1>6. chain' # <<>> => 1 \in 1 .. n
  BY <1>3
<1>7. \A k \in 2 .. n : k \in 1 .. n
  BY <1>3
<1> HIDE DEF none
<1>8. \A w \in Server!Log!Writers :
        chain' # <<>> => buffers'[w][1] = <<>> /\ \A k \in 2 .. n : buffers'[w][k] = <<>>
  BY <1>4, <1>5, <1>6, <1>7
<1>9. <<>> \in Seq(Unended(Atoms))
  BY EmptySeq
<1>10. configured' /\ chain = <<>> /\ UNCHANGED <<drained, io>>
  BY DEF Server!Log!Configure, ChainInv
<1>11. ChainInv'
  <2>1. (\A w \in Server!Log!Writers : chain # <<>> => buffers[w][1] \in Seq(Unended(Atoms))
                                                      /\ \A k \in 2 .. Len(chain) : buffers[w][k] = <<>>)'
    BY <1>8, <1>9 DEF n
  <2> QED BY <1>2, <1>10, <2>1 DEF ChainInv
<1>12. HeldNow' = HeldNow /\ ShownNow' = ShownNow
  BY <1>8, <1>10 DEF HeldNow, HeldBy, ShownNow
<1>13. Server!Log!Filter!Install
  BY <1>10, <1>12 DEF Server!Log!Filter!Install, HeldNow, HeldBy, ShownNow, Join
<1> QED BY <1>11, <1>13 DEF Server!Log!Filter!Next

\* A write down the chain is a write to the filter.
LEMMA WriteStep ==
  ASSUME WindowInv, ChainInv, NEW w \in Server!Log!Writers, NEW words \in LogTexts, Server!Log!Write(w, words)
  PROVE  ChainInv' /\ Server!Log!Filter!Next
<1> DEFINE text == Server!Log!Marked(w, words)
           through == Server!Log!Descend(FALSE, buffers[w], text)
           one == One(NoiseNow, Join(HeldBy(w), text))
<1>1. /\ UNCHANGED <<configured, chain, drained>>
      /\ io' = io \o through.sent /\ buffers' = [buffers EXCEPT ![w] = through.held]
  BY DEF Server!Log!Write
<1>2. window \in BOOLEAN /\ words \in Seq(STRING)
  BY DeploymentConstants DEF WindowInv
<1>3. text \in Seq(AtomsOf(w))
  BY <1>2, MarkedIsOnesOwn
<1>4. text \in Seq(Atoms)
  BY <1>3, AtomsAreAtoms
<1>5. text = Server!Log!Marked(w, words)
  OBVIOUS
<1> HIDE DEF text
<1>6. through.sent \in Seq(Atoms) /\ through.held \in Seq(Seq(Atoms)) /\ io \o through.sent \in Seq(Mine \cup Other)
  <2>1. io \o through.sent \in Seq(Mine \cup Other)
    BY <1>3, DescentOfWriter
  <2>2. through.sent \in Seq(Atoms) /\ through.held \in Seq(Seq(Atoms))
    <3> DEFINE b == buffers[w]
    <3>1. b \in Seq(Seq(Atoms)) /\ Len(b) = Len(chain) /\ Len(chain) \in Nat /\ FALSE \in BOOLEAN
      BY ChainNow
    <3>2. through = Server!Log!Descend(FALSE, b, text)
      OBVIOUS
    <3> HIDE DEF b, through, Atoms
    <3> QED BY <1>4, <3>1, <3>2, DescentIsGiven
  <2> QED BY <2>1, <2>2
<1>7. /\ chain = <<>> => through.sent = text
      /\ chain # <<>> => /\ through.sent = one.sent /\ through.held[1] = one.held
                         /\ one.held \in Seq(Unended(Atoms))
                         /\ \A k \in 2 .. Len(chain) : through.held[k] = <<>>
  <2>1. SeenAsOne(w, text)
    <3> HIDE DEF through, one
    <3> QED BY <1>3, WriteSeen
  <2> QED BY <2>1 DEF SeenAsOne
<1>8. one = One(NoiseNow, Join(HeldBy(w), text))
  OBVIOUS
<1> HIDE DEF through, one
<1>9. /\ buffers'[w] = through.held /\ \A v \in Server!Log!Writers : v # w => buffers'[v] = buffers[v]
      /\ HeldNow' = [HeldNow EXCEPT ![w] = IF chain = <<>> THEN <<>> ELSE through.held[1]]
  BY <1>1, BufferChanges
<1>10. ShownNow' = Join(ShownNow, through.sent)
  <2>1. ShownNow' = Join(Server!Log!Python(drained), io \o through.sent)
    BY <1>1 DEF ShownNow
  <2>2. Join(Server!Log!Python(drained), io \o through.sent) = Join(ShownNow, through.sent)
    BY <1>6, ShownGrows
  <2> QED BY <2>1, <2>2
<1>11. ShownNow' = Join(ShownNow, IF chain # <<>> THEN one.sent ELSE text)
  BY <1>7, <1>10
<1>12. HeldNow' = [HeldNow EXCEPT ![w] = IF chain # <<>> THEN one.held ELSE <<>>]
  BY <1>7, <1>9
<1>13. Server!Log!Filter!Next
  BY <1>1, <1>2, <1>5, <1>8, <1>11, <1>12, FilterWrites
<1>14. ChainInv'
  BY <1>1, <1>7, <1>9 DEF ChainInv
<1> QED BY <1>13, <1>14

\* A flush down the chain, drained before or after what native code wrote.
LEMMA FlushStep ==
  ASSUME WindowInv, ChainInv, UNCHANGED <<configured, chain>>, NEW w \in Server!Log!Writers,
         NEW through, through = Server!Log!Descend(TRUE, buffers[w], <<>>),
         buffers' = [buffers EXCEPT ![w] = through.held], io' = <<>>,
         LET D(t) == Server!Log!Drains(t) IN
           \/ drained' = drained \o D(io \o through.sent)
           \/ drained' = drained \o (D(libc) \o D(io \o through.sent))
           \/ drained' = drained \o (D(io \o through.sent) \o D(libc))
  PROVE  ChainInv' /\ Server!Log!Filter!Next
<1> DEFINE sent == through.sent
           n == Len(chain)
<1>1. n \in Nat /\ HeldBy(w) \in Seq(Atoms)
  BY ChainNow
<1>2. sent = Server!Log!Emitted(HeldBy(w), NoiseNow)
  BY FlushSeen
<1>3. sent \in Seq(Atoms)
  BY <1>1, <1>2, EmptySeq DEF Server!Log!Emitted
<1>4. through.held \in Seq({<<>>}) /\ Len(through.held) = n /\ io \o sent \in Seq(Mine \cup Other)
  <2>1. TRUE \in BOOLEAN /\ <<>> \in Seq(AtomsOf(w))
    BY EmptySeq
  <2> QED BY <2>1, DescentOfWriter
<1>5. \A k \in 1 .. n : through.held[k] = <<>>
  <2> DEFINE h == through.held
  <2>1. h \in Seq({<<>>}) /\ Len(h) = n
    BY <1>4
  <2> DEFINE S == {<<>>}
  <2> HIDE DEF h, n
  <2>2. \A k \in 1 .. n : h[k] \in S
    <3> HIDE DEF S
    <3>1. h \in Seq(S) /\ Len(h) = n
      BY <2>1 DEF S
    <3> QED BY <3>1, ElementOfSeq
  <2> QED BY <2>2 DEF h, S
<1>6. /\ buffers'[w] = through.held /\ \A v \in Server!Log!Writers : v # w => buffers'[v] = buffers[v]
      /\ HeldNow' = [HeldNow EXCEPT ![w] = IF chain = <<>> THEN <<>> ELSE through.held[1]]
  BY BufferChanges
<1>7. chain # <<>> => 1 \in 1 .. n
  <2>1. chain # <<>> => n # 0
    BY ChainNow
  <2> QED BY <1>1, <2>1
<1>8. HeldNow' = [HeldNow EXCEPT ![w] = <<>>]
  BY <1>5, <1>6, <1>7
<1>9. Server!Log!Python(drained') = Join(ShownNow, sent) /\ ShownNow \in Seq(Atoms)
  BY <1>3, <1>4, ShownGrows
<1>10. ShownNow' = Join(ShownNow, sent)
  <2>1. ShownNow' = Join(Join(ShownNow, sent), <<>>)
    BY <1>9 DEF ShownNow
  <2> DEFINE j == Join(ShownNow, sent)
  <2>2. j \in Seq(Atoms)
    <3> HIDE DEF Atoms, sent
    <3> QED BY <1>3, <1>9, ConcatProperties DEF Join
  <2> HIDE DEF j, Atoms
  <2>3. Join(j, <<>>) = j
    BY <2>2, JoinEmpty
  <2> QED BY <2>1, <2>3 DEF j
<1>11. Server!Log!Filter!Next
  BY <1>2, <1>8, <1>10, FilterFlushes
<1>12. ChainInv'
  <2>1. \A k \in 2 .. n : k \in 1 .. n
    BY <1>1
  <2>2. <<>> \in Seq(Unended(Atoms))
    BY EmptySeq
  <2> HIDE DEF n
  <2>3. ASSUME NEW v \in Server!Log!Writers, chain # <<>>
        PROVE  buffers'[v][1] \in Seq(Unended(Atoms)) /\ \A k \in 2 .. Len(chain) : buffers'[v][k] = <<>>
    <3>1. CASE v = w
      <4>1. buffers'[v][1] = <<>>
        BY <1>5, <1>6, <1>7, <2>3, <3>1
      <4>2. \A k \in 2 .. n : buffers'[v][k] = <<>>
        BY <1>5, <1>6, <2>1, <3>1
      <4> QED BY <2>2, <4>1, <4>2 DEF n
    <3>2. CASE v # w
      BY <1>6, <2>3, <3>2 DEF ChainInv
    <3> QED BY <3>1, <3>2
  <2>4. (\A v \in Server!Log!Writers : chain # <<>> => buffers[v][1] \in Seq(Unended(Atoms))
                                                      /\ \A k \in 2 .. Len(chain) : buffers[v][k] = <<>>)'
    BY <2>3
  <2> QED BY <2>4 DEF ChainInv
<1> QED BY <1>11, <1>12

\* What leaves the chain alone, and the buffers, moves no line.
LEMMA ChainStays ==
  ASSUME ChainInv, UNCHANGED <<configured, chain, buffers>>
  PROVE  ChainInv' /\ HeldNow' = HeldNow
BY DEF ChainInv, HeldNow, HeldBy

\* Nothing that is drained is shown twice.
LEMMA DrainSeen ==
  ASSUME WindowInv, ChainInv, Server!Log!Drain
  PROVE  ChainInv' /\ UNCHANGED Server!Log!Filter!vars
<1>1. UNCHANGED <<configured, chain, buffers, libc, window>> /\ io' = <<>>
      /\ drained' = drained \o Server!Log!Drains(io)
  BY DEF Server!Log!Drain
<1> DEFINE sent == <<>>
           Both == Mine \cup Other
<1>2. io \o sent \in Seq(Both) /\ sent \in Seq(Atoms) /\ io \o sent = io
  <2>1. io \in Seq(Both)
    BY DEF WindowInv
  <2> HIDE DEF Both
  <2>2. io \o sent = io
    BY <2>1, EmptySeq, ConcatProperties
  <2> QED BY <2>1, <2>2, EmptySeq
<1>3. Server!Log!Python(drained \o Server!Log!Drains(io \o sent)) = Join(ShownNow, sent) /\ ShownNow \in Seq(Atoms)
  <2> HIDE DEF sent
  <2> QED BY <1>2, ShownGrows DEF Both
<1>4. Join(ShownNow, sent) = ShownNow
  <2> DEFINE s == ShownNow
  <2>1. s \in Seq(Atoms)
    BY <1>3
  <2> HIDE DEF s, Atoms
  <2>2. Join(s, <<>>) = s
    BY <2>1, JoinEmpty
  <2> QED BY <2>2 DEF s
<1>5. Server!Log!Python(drained') = ShownNow
  BY <1>1, <1>2, <1>3, <1>4
<1>6. ShownNow' = ShownNow
  <2> DEFINE s == ShownNow
  <2>1. s \in Seq(Atoms) /\ ShownNow' = Join(s, <<>>)
    BY <1>1, <1>3, <1>5 DEF ShownNow
  <2> HIDE DEF s, Atoms
  <2>2. Join(s, <<>>) = s
    BY <2>1, JoinEmpty
  <2> QED BY <2>1, <2>2 DEF s
<1> QED BY <1>1, <1>6, ChainStays, FilterStutters

\* What native code wrote goes past the filter.
LEMMA NativeSeen ==
  ASSUME WindowInv, ChainInv,
         Server!Log!NativeDrain \/ \E words \in LogTexts : Server!Log!NativeWrite(words)
  PROVE  ChainInv' /\ UNCHANGED Server!Log!Filter!vars
<1>1. UNCHANGED <<configured, chain, buffers, io>>
      /\ (UNCHANGED drained \/ drained' = drained \o Server!Log!Drains(libc))
  BY DEF Server!Log!NativeDrain, Server!Log!NativeWrite
<1> DEFINE sent == <<>>
           Both == Mine \cup Other
<1>2. io \o sent \in Seq(Both) /\ sent \in Seq(Atoms)
  <2>1. io \in Seq(Both)
    BY DEF WindowInv
  <2> HIDE DEF Both
  <2>2. io \o sent = io
    BY <2>1, EmptySeq, ConcatProperties
  <2> QED BY <2>1, <2>2, EmptySeq
<1>3. Server!Log!Python(drained \o Server!Log!Drains(libc)) = Server!Log!Python(drained)
  <2> HIDE DEF sent
  <2> QED BY <1>2, ShownGrows DEF Both
<1>4. Server!Log!Python(drained') = Server!Log!Python(drained)
  BY <1>1, <1>3
<1>5. ShownNow' = ShownNow
  BY <1>1, <1>4 DEF ShownNow
<1> QED BY <1>1, <1>5, ChainStays, FilterStutters

\* Every step of the log is a step of the filter, or none.
LEMMA LogSeen ==
  ASSUME WindowInv, ChainInv, LogStep
  PROVE  ChainInv' /\ [Server!Log!Filter!Next]_Server!Log!Filter!vars
<1>1. ASSUME NEW shown, Server!Log!Configure(shown) PROVE ChainInv' /\ Server!Log!Filter!Next
  BY <1>1, ConfigureSeen
<1>2. ASSUME NEW words \in LogTexts, NEW w \in Server!Log!Writers, Server!Log!Write(w, words)
      PROVE  ChainInv' /\ Server!Log!Filter!Next
  BY <1>2, WriteStep
<1>3. ASSUME NEW w \in Server!Log!Writers, Server!Log!Flush(w) PROVE ChainInv' /\ Server!Log!Filter!Next
  <2> DEFINE through == Server!Log!Descend(TRUE, buffers[w], <<>>)
  <2>1. /\ UNCHANGED <<configured, chain>> /\ buffers' = [buffers EXCEPT ![w] = through.held] /\ io' = <<>>
        /\ drained' = drained \o Server!Log!Drains(io \o through.sent)
    BY <1>3 DEF Server!Log!Flush
  <2>2. through = Server!Log!Descend(TRUE, buffers[w], <<>>)
    OBVIOUS
  <2> HIDE DEF through
  <2> QED BY <2>1, <2>2, FlushStep
<1> QED BY <1>1, <1>2, <1>3, DrainSeen, NativeSeen DEF LogStep

\* The window flushes the stream as a writer would, before or after the C library.
LEMMA WindowSeen ==
  ASSUME WindowInv, ChainInv, Server!Log!FlushAll
  PROVE  ChainInv' /\ Server!Log!Filter!Next
<1> DEFINE w == "stdout"
           through == Server!Log!Descend(TRUE, buffers[w], <<>>)
           D(t) == Server!Log!Drains(t)
<1>1. /\ UNCHANGED <<configured, chain>> /\ io' = <<>> /\ buffers' = [buffers EXCEPT ![w] = through.held]
      /\ \/ drained' = drained \o (D(libc) \o D(io \o through.sent))
         \/ drained' = drained \o (D(io \o through.sent) \o D(libc))
  BY DEF Server!Log!FlushAll
<1>2. w \in Server!Log!Writers /\ through = Server!Log!Descend(TRUE, buffers[w], <<>>)
  BY DEF Server!Log!Writers
<1> HIDE DEF w, through
<1> QED BY <1>1, <1>2, FlushStep

(* However many wrappers stand in front of a stream, and wherever flushes and *)
(* windows fall, the output is that of one filter with all their patterns     *)
(* (trt.py:50-75 and its copies).                                             *)
THEOREM WrappersAreOneFilter == Spec => ImplementsOneFilter
<1>1. Init => Server!Log!Filter!Init /\ ChainInv
  <2> SUFFICES ASSUME Init PROVE Server!Log!Filter!Init /\ ChainInv
    OBVIOUS
  <2>1. chain = <<>> /\ drained = <<>> /\ io = <<>>
    BY DEF Init, Server!Init, Server!Log!Init
  <2>2. DOMAIN chain = {}
    BY <2>1
  <2>3. Server!Log!Python(drained) = <<>>
    BY <2>1, PythonLaw
  <2>4. Server!Log!Filter!Init
    BY <2>1, <2>2, <2>3 DEF Server!Log!Filter!Init
  <2> QED BY <2>1, <2>4, EmptySeq DEF ChainInv
<1>2. WindowInv /\ ChainInv /\ [Next]_vars => ChainInv' /\ [Server!Log!Filter!Next]_Server!Log!Filter!vars
  <2> SUFFICES ASSUME WindowInv, ChainInv, [Next]_vars
               PROVE  ChainInv' /\ [Server!Log!Filter!Next]_Server!Log!Filter!vars
    OBVIOUS
  <2>1. CASE LogStep
    BY <2>1, LogSeen
  <2>2. CASE Server!Log!FlushAll
    BY <2>2, WindowSeen
  <2>3. CASE UNCHANGED <<configured, chain, buffers, io, libc, window, drained>>
    BY <2>3, ChainStays, FilterStutters DEF ShownNow
  <2> QED BY <2>1, <2>2, <2>3, StepsOfProcess, LogOfProcess
<1>3. Spec => []WindowInv
  BY WindowAlways
<1> QED BY <1>1, <1>2, <1>3, PTL DEF Spec, ImplementsOneFilter, Server!Log!ImplementsOneFilter, Server!Log!Filter!Spec

-----------------------------------------------------------------------------
(* The directory of a quantization *)

\* A payload is not NULL: the value a file has that cannot be read.
NullIsNoPayload == \A text, nested : NULL # [text |-> text, nested |-> nested]

Metadata == "awq_metadata.json"

\* awq_chat_cache_ready of a directory with these files, and what it must mean.
Marked(files) == {".awq_ok", Metadata, "awq_config.json"} \cap DOMAIN files # {}
Complete(files) == \A f \in Quantizer!SavedByLibrary : f \in DOMAIN files /\ files[f] # NULL

Named(payload) == "source_model" \in DOMAIN payload.text /\ payload.text.source_model # NULL

\* Until the three files of the library are there, whole, nothing marks the directory.
DirectoryInv ==
  /\ {"at", "source", "file"} \subseteq DOMAIN build
  /\ build.at \notin Quantizer!Idle => build.source \in Sources
  /\ Marked(disk) => Complete(disk)
  /\ Quantizer!Whole(Metadata) => Named(disk[Metadata])
  /\ build.at \in {"fetching", "loading", "calibrating"} => ~Marked(disk)
  /\ build.at \in {"saving", "writing"} =>
       /\ build.file \in 1..5
       /\ build.file <= 3 => ~Marked(disk)
       /\ \A k \in 1..3 : k < build.file => Quantizer!Whole(Quantizer!FileOrder[k])

\* The library's files come first, and only what follows them marks the directory.
LEMMA FilesInOrder ==
  /\ Quantizer!FileOrder[1] = "config.json" /\ Quantizer!FileOrder[2] = "model.safetensors"
  /\ Quantizer!FileOrder[3] = "tokenizer.json" /\ Len(Quantizer!FileOrder) = 5
  /\ \A j, k \in 1..5 : Quantizer!FileOrder[j] = Quantizer!FileOrder[k] => j = k
  /\ \A k \in 1..5 :
       /\ Quantizer!FileOrder[k] \in Quantizer!SavedByLibrary <=> k <= 3
       /\ k <= 3 => Quantizer!FileOrder[k] \notin {".awq_ok", Metadata, "awq_config.json"}
       /\ Quantizer!FileOrder[k] = Metadata <=> k = 4
BY DEF Quantizer!FileOrder, Quantizer!SavedByLibrary, Metadata

\* Every step of the quantizer.
LEMMA QuantizerKeeps ==
  ASSUME NullIsNoPayload, DirectoryInv, Quantizer!Next
  PROVE  DirectoryInv'
<1>1. ASSUME NEW source \in Sources, NEW job \in Jobs, Quantizer!Launch(source, job)
      PROVE  DirectoryInv'
  <2>1. disk' = disk /\ {"at", "source", "file"} \subseteq DOMAIN build' /\ build'.source = source
    BY <1>1 DEF Quantizer!Launch, Quantizer!NoBuild
  <2>2. /\ build'.at \in {"failed", "found", "refused", "fetching", "loading"}
        /\ build'.at \in {"fetching", "loading"} => ~Quantizer!CacheReady
    BY <1>1 DEF Quantizer!Launch, Quantizer!NoBuild, Quantizer!QuantizeModel
  <2>3. Quantizer!CacheReady <=> Marked(disk)
    BY DEF Quantizer!CacheReady, Quantizer!Has, Marked, Metadata
  <2> QED BY <2>1, <2>2, <2>3 DEF DirectoryInv, Quantizer!Whole, Quantizer!Has, Quantizer!Idle
<1>2. ASSUME disk' = disk, {"at", "source", "file"} \subseteq DOMAIN build',
             \/ build'.at \in {"idle", "ready", "failed", "refused"}
             \/ /\ build'.at \in {"loading", "calibrating", "fetching"}
                /\ build.at \in {"fetching", "loading", "calibrating"} /\ build'.source = build.source
      PROVE  DirectoryInv'
  BY <1>2 DEF DirectoryInv, Quantizer!Whole, Quantizer!Has, Quantizer!Idle
<1>3. ASSUME NEW ok \in BOOLEAN, Quantizer!Fetch(ok) \/ Quantizer!Load(ok) PROVE DirectoryInv'
  BY <1>2, <1>3 DEF DirectoryInv, Quantizer!Fetch, Quantizer!Load, Quantizer!Goes, Quantizer!Ends,
         Quantizer!NoBuild
<1>4. ASSUME NEW outcome \in {"done", "unregistered", "error"}, Quantizer!Calibrate(outcome)
      PROVE  DirectoryInv'
  <2>1. CASE outcome = "done"
    <3>1. /\ disk' = disk /\ {"at", "source", "file"} \subseteq DOMAIN build' /\ build'.source = build.source
          /\ build'.at = "saving" /\ build'.file = 1 /\ build.at = "calibrating"
      BY <1>4, <2>1 DEF DirectoryInv, Quantizer!Calibrate
    <3> QED BY <3>1 DEF DirectoryInv, Quantizer!Whole, Quantizer!Has, Quantizer!Idle
  <2>2. CASE outcome # "done"
    BY <1>2, <1>4, <2>2 DEF DirectoryInv, Quantizer!Calibrate, Quantizer!Ends, Quantizer!NoBuild
  <2> QED BY <2>1, <2>2
<1>5. ASSUME NEW ok \in BOOLEAN, Quantizer!Push(ok) PROVE DirectoryInv'
  BY <1>2, <1>5 DEF DirectoryInv, Quantizer!Push, Quantizer!Ends, Quantizer!NoBuild
<1>6. CASE Quantizer!Crash
  BY <1>2, <1>6 DEF DirectoryInv, Quantizer!Crash, Quantizer!NoBuild
<1> DEFINE Ready(file) ==
             /\ Marked(disk) => Complete(disk)
             /\ Quantizer!Whole(Metadata) => Named(disk[Metadata])
             /\ file <= 3 => ~Marked(disk)
             /\ \A k \in 1..3 : k < file => Quantizer!Whole(Quantizer!FileOrder[k])
<1>7. ASSUME NEW file \in 1..5, Ready(file), NEW payload,
             disk' = Quantizer!With(Quantizer!FileOrder[file], payload),
             file = 4 => payload = NULL \/ Named(payload)
      PROVE  Ready(file)' /\ (payload # NULL => Quantizer!Whole(Quantizer!FileOrder[file])')
  <2> DEFINE name == Quantizer!FileOrder[file]
  <2>1. /\ DOMAIN disk' = DOMAIN disk \cup {name} /\ disk'[name] = payload
        /\ \A f \in DOMAIN disk \ {name} : disk'[f] = disk[f]
        /\ file <= 3 => name \notin {".awq_ok", Metadata, "awq_config.json"}
        /\ file > 3 => name \notin Quantizer!SavedByLibrary
        /\ name = Metadata <=> file = 4
    <3>1. /\ file <= 3 => name \notin {".awq_ok", Metadata, "awq_config.json"}
          /\ file > 3 => name \notin Quantizer!SavedByLibrary
          /\ name = Metadata <=> file = 4
      BY FilesInOrder
    <3>2. disk' = Quantizer!With(name, payload)
      BY <1>7
    <3> HIDE DEF name
    <3>3. disk' = [f \in DOMAIN disk \cup {name} |-> IF f = name THEN payload ELSE disk[f]]
      BY <3>2, Zenon DEF Quantizer!With
    <3> QED BY <3>1, <3>3
  <2> HIDE DEF name
  <2>2. file <= 3 => ~Marked(disk')
    BY <1>7, <2>1 DEF Marked
  <2>3. ASSUME NEW k \in 1..3, k < file PROVE Quantizer!Whole(Quantizer!FileOrder[k])'
    <3>1. Quantizer!FileOrder[k] # name /\ Quantizer!Whole(Quantizer!FileOrder[k])
      BY <1>7, <2>3, FilesInOrder DEF name
    <3> QED BY <2>1, <3>1 DEF Quantizer!Whole, Quantizer!Has, Quantizer!FileOrder
  <2>4. file > 3 => Complete(disk')
    <3>1. ASSUME NEW f \in Quantizer!SavedByLibrary PROVE \E k \in 1..3 : f = Quantizer!FileOrder[k]
      BY <3>1, FilesInOrder DEF Quantizer!SavedByLibrary
    <3>2. ASSUME file > 3, NEW k \in 1..3
          PROVE  Quantizer!FileOrder[k] \in DOMAIN disk' /\ disk'[Quantizer!FileOrder[k]] # NULL
      BY <2>3, <3>2 DEF Quantizer!Whole, Quantizer!Has, Quantizer!FileOrder
    <3> QED BY <3>1, <3>2 DEF Complete
  <2>5. Quantizer!Whole(Metadata)' => Named(disk[Metadata])'
    BY <1>7, <2>1 DEF Quantizer!Whole, Quantizer!Has, Metadata, Named
  <2>6. payload # NULL => Quantizer!Whole(Quantizer!FileOrder[file])'
    BY <2>1 DEF Quantizer!Whole, Quantizer!Has, Quantizer!FileOrder, name
  <2> QED BY <2>2, <2>3, <2>4, <2>5, <2>6
<1>8. ASSUME NEW file \in 1..5, file = build.file, NEW ok \in BOOLEAN, Quantizer!NextFile(ok),
             build.at \in {"saving", "writing"}, Ready(file)',
             ok => Quantizer!Whole(Quantizer!FileOrder[file])'
      PROVE  DirectoryInv'
  <2>1. Quantizer!File \in Quantizer!SavedByLibrary <=> file <= 3
    BY <1>8, FilesInOrder DEF Quantizer!File
  <2>2. {"at", "source", "file"} \subseteq DOMAIN build /\ build.source \in Sources
    BY <1>8 DEF DirectoryInv, Quantizer!Idle
  <2>3. /\ {"at", "source", "file"} \subseteq DOMAIN build'
        /\ \/ build'.at = "failed"
           \/ build'.at = "found" /\ build'.source = build.source
           \/ /\ build'.at = "saving" /\ build'.source = build.source
              /\ build'.file = file + 1 /\ file < 5 /\ (ok \/ file > 3)
    <3>1. CASE ~ok /\ Quantizer!File \in Quantizer!SavedByLibrary
      BY <1>8, <3>1 DEF Quantizer!NextFile, Quantizer!Ends, Quantizer!NoBuild
    <3>2. CASE (ok \/ file > 3) /\ file = 5
      BY <1>8, <2>1, <2>2, <3>2, FilesInOrder DEF Quantizer!NextFile, Quantizer!Goes
    <3>3. CASE (ok \/ file > 3) /\ file < 5
      <4>1. build' = [build EXCEPT !.at = "saving", !.file = build.file + 1]
        BY <1>8, <2>1, <2>2, <3>3, FilesInOrder DEF Quantizer!NextFile
      <4> QED BY <1>8, <2>2, <3>3, <4>1
    <3> QED BY <1>8, <2>1, <3>1, <3>2, <3>3
  <2>4. CASE build'.at = "failed" \/ (build'.at = "found" /\ build'.source = build.source)
    BY <1>8, <2>2, <2>3, <2>4 DEF DirectoryInv, Quantizer!Idle
  <2>5. CASE /\ build'.at = "saving" /\ build'.source = build.source
             /\ build'.file = file + 1 /\ file < 5 /\ (ok \/ file > 3)
    <3>1. ASSUME NEW k \in 1..3, k < file + 1 PROVE Quantizer!Whole(Quantizer!FileOrder[k])'
      BY <1>8, <2>5, <3>1
    <3> QED BY <1>8, <2>2, <2>3, <2>5, <3>1 DEF DirectoryInv, Quantizer!Idle
  <2> QED BY <2>3, <2>4, <2>5
<1>9. ASSUME NEW ok \in BOOLEAN, Quantizer!OpenFile(ok) PROVE DirectoryInv'
  <2>1. /\ build.file \in 1..5 /\ Ready(build.file) /\ build.at = "saving"
        /\ {"at", "source", "file"} \subseteq DOMAIN build /\ build.source \in Sources
    BY <1>9 DEF Quantizer!OpenFile, DirectoryInv, Quantizer!Idle
  <2>2. PICK file \in 1..5 : file = build.file /\ Ready(file)
    BY <2>1
  <2>3. CASE ok
    <3>1. disk' = Quantizer!With(Quantizer!FileOrder[file], NULL) /\ build' = [build EXCEPT !.at = "writing"]
      BY <1>9, <2>2, <2>3 DEF Quantizer!OpenFile, Quantizer!Goes, Quantizer!File
    <3>2. Ready(file)'
      BY <1>7, <2>2, <3>1
    <3>3. /\ {"at", "source", "file"} \subseteq DOMAIN build' /\ build'.source = build.source
          /\ build'.at = "writing" /\ build'.file = file
      BY <2>1, <2>2, <3>1
    <3> QED BY <2>1, <3>2, <3>3 DEF DirectoryInv, Quantizer!Idle
  <2>4. CASE ~ok
    <3>1. disk' = disk /\ Quantizer!NextFile(FALSE)
      BY <1>9, <2>4 DEF Quantizer!OpenFile
    <3>2. Ready(file)'
      BY <2>2, <3>1 DEF Quantizer!Whole, Quantizer!Has
    <3> QED BY <1>8, <2>1, <2>2, <3>1, <3>2
  <2> QED BY <2>3, <2>4
<1>10. ASSUME NEW ok \in BOOLEAN, Quantizer!CloseFile(ok) PROVE DirectoryInv'
  <2>1. /\ build.file \in 1..5 /\ Ready(build.file) /\ build.at = "writing" /\ build.source \in Sources
    BY <1>10 DEF Quantizer!CloseFile, DirectoryInv, Quantizer!Idle
  <2>2. PICK file \in 1..5 : file = build.file /\ Ready(file)
    BY <2>1
  <2>3. Quantizer!NextFile(ok)
    BY <1>10 DEF Quantizer!CloseFile
  <2>4. CASE ok
    <3> DEFINE content == Quantizer!Content(Quantizer!FileOrder[file])
    <3>1. disk' = Quantizer!With(Quantizer!FileOrder[file], content)
      BY <1>10, <2>2, <2>4 DEF Quantizer!CloseFile, Quantizer!File
    <3>2. content # NULL
      BY DEF Quantizer!Content, Quantizer!Payload, NullIsNoPayload
    <3>3. file = 4 => Named(content)
      BY <2>1, DeploymentConstants
         DEF Quantizer!Content, Quantizer!Payload, Quantizer!FileOrder, Named
    <3> HIDE DEF content
    <3>4. Ready(file)' /\ Quantizer!Whole(Quantizer!FileOrder[file])'
      BY <1>7, <2>2, <3>1, <3>2, <3>3
    <3> QED BY <1>8, <2>1, <2>2, <2>3, <3>4
  <2>5. CASE ~ok
    <3>1. disk' = disk
      BY <1>10, <2>5 DEF Quantizer!CloseFile
    <3>2. Ready(file)'
      BY <2>2, <3>1 DEF Quantizer!Whole, Quantizer!Has
    <3> QED BY <1>8, <2>1, <2>2, <2>3, <2>5, <3>2
  <2> QED BY <2>4, <2>5
<1> QED BY <1>1, <1>3, <1>4, <1>5, <1>6, <1>9, <1>10 DEF Quantizer!Next

-----------------------------------------------------------------------------
(* What a server is started from *)

EnvOK(e) ==
  /\ {"deploy", "engine", "chatModel", "numbers"} \subseteq DOMAIN e
  /\ \A name \in DOMAIN e.numbers : e.numbers[name] \in Int

HostOK(h) == {"total", "free"} \subseteq DOMAIN h /\ h.total \in Nat /\ h.free \in Nat

\* The same files, up to what a payload says that is not the metadata's.
SameFiles(a, b) ==
  /\ DOMAIN a = DOMAIN b
  /\ \A f \in DOMAIN a : a[f] = NULL <=> b[f] = NULL
  /\ Metadata \in DOMAIN a => a[Metadata] = b[Metadata]

ServesDirectory == phase # "down" /\ env.chatModel # NULL /\ env.chatModel.name = Quantizer!OutDir

\* A server that is started from the directory finds there what the quantizer left,
\* which nobody changes while it runs, but itself.
OriginInv ==
  /\ phase # "down" => EnvOK(env) /\ HostOK(host)
  /\ ServesDirectory =>
       /\ build.at = "ready" /\ Engine(env) = "vllm"
       /\ "files" \in DOMAIN env.chatModel /\ env.chatModel.kind = "dir"
       /\ SameFiles(env.chatModel.files, disk)
  /\ {"chat", "tool"} \subseteq DOMAIN args
  /\ parts["engine"] = "waiting" => phase # "down" /\ env.chatModel # NULL
  /\ args.chat # NULL =>
       /\ phase # "down" /\ env.chatModel # NULL
       /\ Engine(env) = "vllm" => args.chat = Server!MakeEngineArgs(env, host)

\* Startup reads the settings as this module does.
LEMMA SameDefinitions ==
  ASSUME NEW e
  PROVE  Server!Engine(e) = Engine(e) /\ Server!DeployChat(e) = DeployChat(e)
BY DEF Server!Engine, Engine, Server!DeployChat, DeployChat

\* What a process does once it is started.
LEMMA ProcessGoesOn ==
  ASSUME ProcessInv, OriginInv, Server!Runs \/ \E ok \in BOOLEAN : Server!BuildVllm(ok)
  PROVE  /\ phase # "down" /\ phase' # "down" /\ UNCHANGED <<env, host>>
         /\ {"chat", "tool"} \subseteq DOMAIN args'
         /\ parts'["engine"] = "waiting" => env.chatModel # NULL
         /\ args'.chat = args.chat \/ (parts["engine"] = "waiting" /\ Engine(env) = "trt")
            \/ (parts["engine"] = "waiting" /\ args'.chat = Server!MakeEngineArgs(env, host))
<1> DEFINE Goes ==
             /\ phase # "down" /\ phase' # "down" /\ UNCHANGED <<env, host>>
             /\ {"chat", "tool"} \subseteq DOMAIN args'
             /\ parts'["engine"] = "waiting" => env.chatModel # NULL
             /\ args'.chat = args.chat \/ (parts["engine"] = "waiting" /\ Engine(env) = "trt")
                \/ (parts["engine"] = "waiting" /\ args'.chat = Server!MakeEngineArgs(env, host))
<1>1. /\ {"chat", "tool"} \subseteq DOMAIN args
      /\ parts["engine"] = "waiting" => env.chatModel # NULL
      /\ parts \in [Server!Parts -> PartStates] /\ "engine" \in Server!Parts
  BY DEF OriginInv, ProcessInv, Server!Parts
<1>2. CASE Server!Validate
  <2>1. /\ phase = "checking" /\ phase' \in {"building", "refused"} /\ UNCHANGED <<env, host, args>>
    BY <1>2 DEF Server!Validate
  <2>2. parts' = parts \/ (Server!EnvErrors(env) = {}
                           /\ parts' = [part \in Server!Parts |->
                                          IF Server!Deployed(part) THEN "waiting" ELSE "off"])
    BY <1>2 DEF Server!Validate
  <2>3. ASSUME Server!EnvErrors(env) = {}, Server!Deployed("engine") PROVE env.chatModel # NULL
    <3>1. {e \in {"CHAT_MODEL"} : Server!DeployChat(env) /\ env.chatModel = NULL} = {}
      BY <2>3 DEF Server!EnvErrors
    <3> QED BY <2>3, <3>1 DEF Server!Deployed
  <2> QED BY <1>1, <2>1, <2>2, <2>3
<1>3. ASSUME NEW ok \in BOOLEAN, Server!BuildVllm(ok) PROVE Goes
  <2>1. /\ phase = "building" /\ parts["engine"] = "waiting" /\ UNCHANGED <<phase, env, host>>
        /\ args' = args \/ args' = [args EXCEPT !.chat = Server!MakeEngineArgs(env, host)]
    BY <1>3 DEF Server!BuildVllm
  <2> QED BY <1>1, <2>1
<1>4. CASE Server!StartTrt
  <2>1. /\ phase = "building" /\ parts["engine"] = "waiting" /\ Engine(env) = "trt"
        /\ UNCHANGED <<phase, env, host>>
        /\ args' = args \/ args' = [args EXCEPT !.chat = [kv |-> Server!KvFraction(env)]]
    BY <1>4, SameDefinitions DEF Server!StartTrt
  <2> QED BY <1>1, <2>1
<1>5. CASE Server!StartOthers
  BY <1>1, <1>5 DEF Server!StartOthers
<1>6. ASSUME NEW ok \in BOOLEAN, NEW part \in Server!Parts, Server!Finish(part, ok) PROVE Goes
  <2>1. /\ phase = "building" /\ UNCHANGED <<phase, env, host>>
        /\ args' = args \/ args' = [args EXCEPT !.tool = Server!ToolArgs]
        /\ parts' = [parts EXCEPT ![part] = IF ok THEN "built" ELSE "failed"]
    BY <1>6 DEF Server!Finish, Server!Settles
  <2> QED BY <1>1, <2>1
<1>7. CASE Server!Abandon \/ Server!Serve \/ Server!ShutTelemetry
  BY <1>1, <1>7 DEF Server!Abandon, Server!Serve, Server!ShutTelemetry
<1>10. ASSUME NEW class, Server!Raise(class) \/ Server!ServingError(class) \/ Server!WindowPasses(class)
       PROVE  Goes
  BY <1>1, <1>10 DEF Server!Raise, Server!ServingError, Server!WindowPasses
<1>8. ASSUME NEW outcome, Server!ShutEngine(outcome) PROVE Goes
  BY <1>1, <1>8 DEF Server!ShutEngine
<1>9. CASE Server!Logging
  BY <1>1, <1>9 DEF Server!Logging, Server!processVars
<1> QED BY <1>2, <1>3, <1>4, <1>5, <1>6, <1>7, <1>8, <1>9, <1>10 DEF Server!Runs

\* The rewriting of the configuration loses no file and leaves the metadata alone.
LEMMA SanitizedKeeps ==
  ASSUME NullIsNoPayload, NEW model, "files" \in DOMAIN model
  PROVE  SameFiles(Sanitized(model).files, model.files)
<1> DEFINE files == model.files
           kept == [name \in DOMAIN files |->
                      IF name \in ToSet(QuantConfigFilenames) /\ files[name] # NULL
                      THEN StrippedObject(files[name]) ELSE files[name]]
<1>1. Sanitized(model).files = kept
  BY DEF Sanitized
<1>2. Metadata \notin ToSet(QuantConfigFilenames)
  BY DEF Metadata, QuantConfigFilenames, ToSet
<1>3. \A data : StrippedObject(data) # NULL
  BY DEF StrippedObject, NullIsNoPayload
<1>4. SameFiles(kept, files)
  BY <1>2, <1>3 DEF SameFiles
<1> QED BY <1>1, <1>4

\* What is said of a directory holds of one with the same files.
LEMMA SameDirectory ==
  ASSUME DirectoryInv, build.at \in Quantizer!Idle, build' = build, SameFiles(disk', disk)
  PROVE  DirectoryInv'
<1>1. (Marked(disk') <=> Marked(disk)) /\ (Complete(disk') <=> Complete(disk))
  BY DEF SameFiles, Marked, Complete
<1>2. Quantizer!Whole(Metadata)' => Quantizer!Whole(Metadata) /\ disk'[Metadata] = disk[Metadata]
  BY DEF SameFiles, Quantizer!Whole, Quantizer!Has, Metadata
<1> QED BY <1>1, <1>2 DEF DirectoryInv, Quantizer!Idle, Named

\* Every step of the deployment.
LEMMA NextKeepsDirectory ==
  ASSUME NullIsNoPayload, ProcessInv, DirectoryInv, OriginInv, [Next]_vars
  PROVE  DirectoryInv' /\ OriginInv'
<1>1. ASSUME UNCHANGED <<disk, build>> PROVE DirectoryInv'
  BY <1>1 DEF DirectoryInv, Quantizer!Whole, Quantizer!Has
<1>2. ASSUME UNCHANGED serverVars, UNCHANGED <<disk, build>> \/ phase = "down" PROVE OriginInv'
  BY <1>2 DEF OriginInv, ServesDirectory, serverVars
<1>3. ASSUME NEW e, NEW h, Server!Boot(e, h), UNCHANGED artifactVars, EnvOK(e), HostOK(h),
             e.chatModel # NULL /\ e.chatModel.name = Quantizer!OutDir =>
               /\ build.at = "ready" /\ Engine(e) = "vllm"
               /\ "files" \in DOMAIN e.chatModel /\ e.chatModel.kind = "dir"
               /\ e.chatModel.files = disk
      PROVE  DirectoryInv' /\ OriginInv'
  <2>1. /\ phase = "down" /\ phase' = "checking" /\ env' = e /\ host' = h
        /\ UNCHANGED <<parts, args, disk, build>>
    BY <1>3 DEF Server!Boot, artifactVars
  <2>2. parts["engine"] # "waiting" /\ args.chat = NULL /\ {"chat", "tool"} \subseteq DOMAIN args
    BY <2>1 DEF OriginInv
  <2>3. SameFiles(disk, disk)
    BY DEF SameFiles
  <2> QED BY <1>1, <1>3, <2>1, <2>2, <2>3 DEF OriginInv, ServesDirectory
<1>4. CASE Quantize
  BY <1>2, <1>4, QuantizerKeeps DEF Quantize
<1>5. CASE PrepareEngines \/ UNCHANGED vars
  BY <1>1, <1>2, <1>5 DEF PrepareEngines, artifactVars, vars
<1>6. CASE BootAny
  <2>1. PICK e \in Envs, h \in Hosts : Server!Boot(e, h)
    BY <1>6 DEF BootAny
  <2>2. EnvOK(e) /\ HostOK(h) /\ (e.chatModel = NULL \/ e.chatModel.name # Quantizer!OutDir)
    BY DeploymentConstants DEF EnvOK, HostOK
  <2> QED BY <1>3, <1>6, <2>1, <2>2 DEF BootAny
<1>7. CASE BootQuantized
  <2>1. PICK e \in Envs, h \in Hosts :
          /\ DeployChat(e) /\ Engine(e) = "vllm"
          /\ Server!Boot([e EXCEPT !.chatModel = Quantizer!Artifact, !.quantization = "awq"], h)
    BY <1>7 DEF BootQuantized
  <2> DEFINE q == [e EXCEPT !.chatModel = Quantizer!Artifact, !.quantization = "awq"]
  <2>2. /\ {"deploy", "engine", "chatModel", "numbers"} \subseteq DOMAIN e
        /\ \A name \in DOMAIN e.numbers : e.numbers[name] \in Int
        /\ HostOK(h)
    BY DeploymentConstants DEF HostOK
  <2>3. /\ DOMAIN q = DOMAIN e /\ q.deploy = e.deploy /\ q.engine = e.engine /\ q.numbers = e.numbers
        /\ q.chatModel = Quantizer!Artifact
    BY <2>2
  <2> HIDE DEF q
  <2>4. EnvOK(q) /\ Engine(q) = "vllm"
    BY <2>1, <2>2, <2>3 DEF EnvOK, Engine, DeployChat
  <2>5. /\ "files" \in DOMAIN q.chatModel /\ q.chatModel.kind = "dir" /\ q.chatModel.files = disk
    BY <2>3 DEF Quantizer!Artifact
  <2> QED BY <1>3, <1>7, <2>1, <2>2, <2>4, <2>5 DEF BootQuantized, q
<1>8. CASE BootEngine
  <2>0. PICK e \in Envs, h \in Hosts : \E engine : Server!Boot(e, [h EXCEPT !.trt = engine])
    BY <1>8 DEF BootEngine
  <2>1. PICK engine : Server!Boot(e, [h EXCEPT !.trt = engine])
    BY <2>0
  <2>2. EnvOK(e) /\ HostOK(h) /\ (e.chatModel = NULL \/ e.chatModel.name # Quantizer!OutDir)
    BY DeploymentConstants DEF EnvOK, HostOK
  <2>3. HostOK([h EXCEPT !.trt = engine])
    BY <2>2 DEF HostOK
  <2> QED BY <1>3, <1>8, <2>1, <2>2, <2>3 DEF BootEngine
<1>9. ASSUME Server!Runs \/ (\E ok \in BOOLEAN : Server!BuildVllm(ok)), build' = build,
             ServesDirectory => SameFiles(disk', disk)
      PROVE  OriginInv'
  <2>1. /\ phase # "down" /\ phase' # "down" /\ UNCHANGED <<env, host>>
        /\ {"chat", "tool"} \subseteq DOMAIN args'
        /\ parts'["engine"] = "waiting" => env.chatModel # NULL
        /\ args'.chat = args.chat \/ (parts["engine"] = "waiting" /\ Engine(env) = "trt")
           \/ (parts["engine"] = "waiting" /\ args'.chat = Server!MakeEngineArgs(env, host))
    BY <1>9, ProcessGoesOn
  <2>2. ServesDirectory' <=> ServesDirectory
    BY <2>1 DEF ServesDirectory
  <2>3. ServesDirectory => SameFiles(env.chatModel.files, disk')
    BY <1>9 DEF OriginInv, SameFiles
  <2>4. args'.chat # NULL =>
          /\ env.chatModel # NULL
          /\ Engine(env) = "vllm" => args'.chat = Server!MakeEngineArgs(env, host)
    BY <2>1 DEF OriginInv
  <2> QED BY <1>9, <2>1, <2>2, <2>3, <2>4 DEF OriginInv
<1>10. CASE ServerRuns
  <2>1. SameFiles(disk, disk)
    BY DEF SameFiles
  <2> QED BY <1>1, <1>9, <1>10, <2>1 DEF ServerRuns, artifactVars
<1>11. ASSUME NEW ok \in BOOLEAN, BuildVllm(ok) PROVE DirectoryInv' /\ OriginInv'
  <2>1. Server!BuildVllm(ok) /\ build' = build /\ phase # "down"
    BY <1>11, ProcessGoesOn DEF BuildVllm
  <2>2. CASE ServesDirectory
    <3>1. disk' = Sanitized(env.chatModel).files
      BY <1>11, <2>2 DEF BuildVllm, ServesDirectory
    <3>2. SameFiles(disk', disk) /\ build.at \in Quantizer!Idle
      BY <2>2, <3>1, SanitizedKeeps DEF OriginInv, SameFiles, Quantizer!Idle
    <3> QED BY <1>9, <2>1, <3>2, SameDirectory
  <2>3. CASE ~ServesDirectory
    BY <1>1, <1>9, <1>11, <2>1, <2>3 DEF BuildVllm, ServesDirectory
  <2> QED BY <2>2, <2>3
<1> QED BY <1>4, <1>5, <1>6, <1>7, <1>8, <1>10, <1>11 DEF Next

\* The directory and what was started from it, whenever the deployment runs.
LEMMA DirectoryHolds == ASSUME NullIsNoPayload PROVE Spec => [](DirectoryInv /\ OriginInv)
<1>1. Init => DirectoryInv /\ OriginInv
  <2> SUFFICES ASSUME Init PROVE DirectoryInv /\ OriginInv
    OBVIOUS
  <2>1. DirectoryInv
    BY DEF Init, Quantizer!Init, Quantizer!NoBuild, DirectoryInv, Quantizer!Whole, Quantizer!Has,
           Quantizer!Idle, Marked
  <2>2. OriginInv
    BY DEF Init, Server!Init, OriginInv, ServesDirectory, Server!Parts
  <2> QED BY <2>1, <2>2
<1>2. ProcessInv /\ (DirectoryInv /\ OriginInv) /\ [Next]_vars => (DirectoryInv /\ OriginInv)'
  BY NextKeepsDirectory
<1> QED BY <1>1, <1>2, ProcessHolds, PTL DEF Spec

(* What the launch script takes for a finished directory holds the model,    *)
(* its configuration and its tokenizer, each whole, whatever failed or was   *)
(* killed before, and after servers have rewritten it (awq.sh:7-14).         *)
THEOREM MarkedIsComplete == ASSUME NullIsNoPayload PROVE Spec => []MarkerMeansWhole
<1>1. DirectoryInv => MarkerMeansWhole
  BY DEF DirectoryInv, MarkerMeansWhole, Quantizer!MarkerMeansWhole, Quantizer!CacheReady,
         Quantizer!Whole,
         Quantizer!Has, Marked, Complete, Metadata
<1> QED BY <1>1, DirectoryHolds, PTL

-----------------------------------------------------------------------------
(* What an engine is asked for *)

\* A set of numbers has its least one in it.
LEMMA LeastOf ==
  ASSUME NEW S \in SUBSET Nat, S # {}
  PROVE  Min(S) \in S
<1>1. PICK m \in S : \A k \in S : ~(<<k, m>> \in OpToRel(<, Nat))
  BY NatLessThanWellFounded, WFMin
<1>2. ASSUME NEW k \in S PROVE m <= k
  <2>1. k < m => <<k, m>> \in OpToRel(<, Nat)
    BY DEF OpToRel
  <2>2. ~(k < m)
    BY <1>1, <2>1, Zenon
  <2> QED BY <2>2
<1> QED BY <1>1, <1>2 DEF Min

\* The greatest of two or three numbers is none of the smaller ones.
LEMMA GreatestOf ==
  ASSUME NEW a \in Int, NEW b \in Int, NEW c \in Int
  PROVE  /\ Server!Max({a, b}) \in Int /\ Server!Max({a, b}) >= a /\ Server!Max({a, b}) >= b
         /\ Server!Max({a, b, c}) \in Int /\ Server!Max({a, b, c}) >= b
<1>1. \E x \in {a, b} : \A y \in {a, b} : x >= y
  OBVIOUS
<1>2. \E x \in {a, b, c} : \A y \in {a, b, c} : x >= y
  OBVIOUS
<1> QED BY <1>1, <1>2 DEF Server!Max

\* The smaller of two numbers exceeds neither.
LEMMA SmallerOf ==
  ASSUME NEW a \in Int, NEW b \in Int
  PROVE  Server!Min({a, b}) \in Int /\ Server!Min({a, b}) <= a /\ Server!Min({a, b}) <= b
<1>1. \E x \in {a, b} : \A y \in {a, b} : x <= y
  OBVIOUS
<1> QED BY <1>1 DEF Server!Min

\* The profiles of Startup are those of this module.
LEMMA SameTraits == ASSUME NEW name PROVE Server!Traits(name) = Traits(name)
<1>1. Server!ModelProfiles = ModelProfiles
  BY DEF ModelProfiles, Server!ModelProfiles, Profile, Server!Profile, NoTraits, Server!NoTraits
<1> QED BY <1>1 DEF Traits, Server!Traits, NoTraits, Server!NoTraits, SelectInSeq,
       Server!SelectInSeq,
                    Min, Server!Min

\* A profile that names a floor names a number.
LEMMA ProfileTokens ==
  ASSUME NEW markers, NEW traits, "tokens" \notin DOMAIN traits \/ traits.tokens \in Nat
  PROVE  Profile(markers, traits).traits.tokens \in Nat
BY DEF Profile, NoTraits

\* Every model, of a profile or of none, has a floor that is a number.
LEMMA TokensAreNatural == ASSUME NEW name PROVE Traits(name).tokens \in Nat
<1>1. \A i \in 1..Len(ModelProfiles) : ModelProfiles[i].traits.tokens \in Nat
  BY ProfileTokens DEF ModelProfiles
<1> DEFINE here == {i \in 1..Len(ModelProfiles) : ModelProfiles[i].markers \cap NameMarks[name] # {}}
<1>2. Traits(name) = IF (IF here # {} THEN Min(here) ELSE 0) = 0 THEN NoTraits
                     ELSE ModelProfiles[IF here # {} THEN Min(here) ELSE 0].traits
  BY DEF Traits, SelectInSeq
<1>3. here # {} => Min(here) \in 1..Len(ModelProfiles)
  <2>1. here \in SUBSET Nat
    OBVIOUS
  <2>2. here # {} => Min(here) \in here
    <3> HIDE DEF here
    <3> QED BY <2>1, LeastOf
  <2> QED BY <2>2
<1>4. NoTraits.tokens = 0
  BY DEF NoTraits
<1> HIDE DEF here
<1> QED BY <1>1, <1>2, <1>3, <1>4

\* However little memory is free, a batch keeps the tokens its model cannot do without.
LEMMA FloorIsKept ==
  ASSUME NEW e, NEW h, EnvOK(e), HostOK(h), NEW floor \in Nat \ {0}, NEW traits, traits.tokens = floor,
         NEW fraction \in Int
  PROVE  Server!ScaleTokens(e, Server!MaxBatchedTokens(e, traits), floor, fraction, h) >= floor
<1> DEFINE cap == Server!BatchScaleCap(e)
           tokens == Server!MaxBatchedTokens(e, traits)
           share == h.total * Server!Min({fraction, cap})
           target == Server!TargetMemory(e, fraction, h)
           scaled == Server!Scaled(tokens, h.free * 100, target)
<1>1. tokens \in Int /\ tokens >= floor
  <2>1. CASE "MAX_NUM_BATCHED_TOKENS_CHAT" \in DOMAIN e.numbers
    <3> DEFINE asked == e.numbers["MAX_NUM_BATCHED_TOKENS_CHAT"]
    <3>1. asked \in Int
      BY <2>1 DEF EnvOK
    <3>2. tokens = Server!Max({asked, floor})
      BY <2>1 DEF Server!MaxBatchedTokens
    <3> HIDE DEF asked, tokens
    <3>3. floor \in Int
      OBVIOUS
    <3>4. Server!Max({asked, floor}) \in Int /\ Server!Max({asked, floor}) >= floor
      BY <3>1, <3>3, GreatestOf, Zenon
    <3> QED BY <3>2, <3>4, Zenon
  <2>2. CASE "MAX_NUM_BATCHED_TOKENS_CHAT" \notin DOMAIN e.numbers
    <3>1. tokens = floor
      BY <2>2 DEF Server!MaxBatchedTokens
    <3> HIDE DEF tokens
    <3> QED BY <3>1
  <2> QED BY <2>1, <2>2
<1>2. target \in Int /\ target >= 1
  <2>1. cap \in Int
    BY DEF Server!BatchScaleCap, Server!GpuFraction, EnvOK
  <2>2. share \in Int
    <3> HIDE DEF cap
    <3>1. Server!Min({fraction, cap}) \in Int
      BY <2>1, SmallerOf, Zenon
    <3>2. h.total \in Int
      BY DEF HostOK
    <3> DEFINE least == Server!Min({fraction, cap})
    <3> HIDE DEF least
    <3>3. h.total * least \in Int
      BY <3>1, <3>2 DEF least
    <3> QED BY <3>3 DEF least
  <2>3. target = Server!Max({share, 1})
    BY DEF Server!TargetMemory
  <2> HIDE DEF share, target
  <2>4. 1 \in Int
    OBVIOUS
  <2>5. Server!Max({share, 1}) \in Int /\ Server!Max({share, 1}) >= 1
    BY <2>2, <2>4, GreatestOf, Zenon
  <2> QED BY <2>3, <2>5, Zenon
<1>3. scaled \in Int
  <2> DEFINE full == (tokens * (h.free * 100)) \div target
             tenth == tokens \div 10
  <2>1. full \in Int /\ tenth \in Int
    <3>1. h.free * 100 \in Int
      BY DEF HostOK
    <3> DEFINE free == h.free * 100
    <3> HIDE DEF tokens, target, free
    <3>2. (tokens * free) \div target \in Int /\ tokens \div 10 \in Int
      BY <1>1, <1>2, <3>1 DEF free
    <3> QED BY <3>2 DEF free
  <2>2. scaled = Server!Max({full, tenth})
    BY DEF Server!Scaled
  <2> HIDE DEF full, tenth, scaled
  <2>3. Server!Max({full, tenth}) \in Int
    BY <2>1, GreatestOf, Zenon
  <2> QED BY <2>2, <2>3, Zenon
<1>4. Server!ScaleTokens(e, tokens, floor, fraction, h) \in {tokens, Server!Max({64, floor, scaled})}
  BY DEF Server!ScaleTokens
<1> HIDE DEF tokens, scaled
<1>5. Server!Max({64, floor, scaled}) >= floor
  <2>1. 64 \in Int /\ floor \in Int
    OBVIOUS
  <2> QED BY <1>3, <2>1, GreatestOf, Zenon
<1>6. Server!ScaleTokens(e, tokens, floor, fraction, h) >= floor
  BY <1>1, <1>4, <1>5
<1> QED BY <1>6 DEF tokens

(* A quantized directory is served as the model it was made from: whatever   *)
(* the environment asks for and however little memory is free, the profile's *)
(* floor, type, attention and memory cap hold (metadata.py:42, args.py:87-104 *)
(* and 246-254, memory.py).                                                  *)
THEOREM ProfileIsKept == ASSUME NullIsNoPayload PROVE Spec => []ServedKeepsItsProfile
<1>1. ASSUME DirectoryInv, OriginInv, args.chat # NULL, env.chatModel.name = Quantizer!OutDir,
             Quantizer!Whole(Metadata)
      PROVE  LET traits == Traits(disk[Metadata].text.source_model)
             IN /\ traits.tokens # 0 => args.chat.tokens >= traits.tokens
                /\ traits.bfloat16 => args.chat.dtype = "bfloat16"
                /\ traits.mla \/ traits.fla => args.chat.attention = NULL
                /\ traits.memory => args.chat.utilization <= MemoryOptCap
  <2> DEFINE source == disk[Metadata].text.source_model
             traits == Traits(source)
             fraction == Server!GpuUtilization(env, traits)
  <2>1. /\ ServesDirectory /\ EnvOK(env) /\ HostOK(host) /\ env.chatModel.kind = "dir"
        /\ SameFiles(env.chatModel.files, disk) /\ args.chat = Server!MakeEngineArgs(env, host)
    BY <1>1 DEF OriginInv, ServesDirectory
  <2>2. Server!ModelOrigin(env.chatModel) = source
    <3>1. Metadata \in DOMAIN env.chatModel.files /\ env.chatModel.files[Metadata] = disk[Metadata]
      BY <1>1, <2>1 DEF SameFiles, Quantizer!Whole, Quantizer!Has
    <3>2. Server!Field(env.chatModel.files, Metadata) = disk[Metadata] /\ disk[Metadata] # NULL
      BY <1>1, <3>1 DEF Server!Field, Quantizer!Whole
    <3>3. Server!Field(disk[Metadata].text, "source_model") = source /\ source # NULL
      BY <1>1 DEF DirectoryInv, Named, Server!Field
    <3>4. Server!IsLocal(env.chatModel)
      BY <2>1 DEF ServesDirectory, Server!IsLocal
    <3> HIDE DEF source
    <3> QED BY <3>2, <3>3, <3>4 DEF Server!ModelOrigin, Metadata
  <2>3. Server!Traits(Server!ModelOrigin(env.chatModel)) = traits /\ traits.tokens \in Nat
    BY <2>2, SameTraits, TokensAreNatural
  <2>4. Server!GpuFraction(env, "CHAT_GPU_FRAC") \in Int
    BY <2>1 DEF EnvOK, Server!GpuFraction
  <2> HIDE DEF traits
  <2>5. fraction \in Int /\ (traits.memory => fraction <= MemoryOptCap)
    <3> DEFINE asked == Server!GpuFraction(env, "CHAT_GPU_FRAC")
    <3>1. fraction = IF traits.memory THEN Server!Min({asked, 85}) ELSE asked
      BY DEF Server!GpuUtilization, Server!MemoryOptCap
    <3> HIDE DEF asked, fraction
    <3>2. asked \in Int /\ 85 \in Int
      BY <2>4 DEF asked
    <3>3. Server!Min({asked, 85}) \in Int /\ Server!Min({asked, 85}) <= 85
      BY <3>2, SmallerOf, Zenon
    <3> QED BY <3>1, <3>2, <3>3 DEF MemoryOptCap
  <2>6. /\ args.chat.utilization = fraction
        /\ \E quantization : args.chat.dtype = Server!Dtype(traits, quantization)
        /\ args.chat.tokens = Server!ScaleTokens(env, Server!MaxBatchedTokens(env, traits),
                                                 traits.tokens, fraction, host)
        /\ args.chat.attention = Server!AttentionBackend(env, traits, host)
    BY <2>1, <2>3 DEF Server!MakeEngineArgs
  <2> HIDE DEF fraction
  <2>7. traits.tokens # 0 => args.chat.tokens >= traits.tokens
    BY <2>1, <2>3, <2>5, <2>6, FloorIsKept
  <2>8. traits.bfloat16 => args.chat.dtype = "bfloat16"
    BY <2>6 DEF Server!Dtype
  <2>9. traits.mla \/ traits.fla => args.chat.attention = NULL
    BY <2>6 DEF Server!AttentionBackend
  <2> QED BY <2>5, <2>6, <2>7, <2>8, <2>9 DEF traits
<1>2. DirectoryInv /\ OriginInv => ServedKeepsItsProfile
  BY <1>1 DEF ServedKeepsItsProfile, Metadata
<1> QED BY <1>2, DirectoryHolds, PTL
=============================================================================
