--------------------------- MODULE SessionProofs ---------------------------
(***************************************************************************)
(* Proofs about Session, for every set of turns, every bound on the chunks *)
(* of a reply and every deployment the constants describe: its types; that *)
(* the one live turn that nobody cancelled is the one the session tracks;  *)
(* what each turn has recorded, generated and shown at each of its awaits; *)
(* and, from these, that a connection implements TurnProtocol and that the *)
(* screen-checked prefix goes to the turn it was asked for.                *)
(***************************************************************************)
EXTENDS Session, TLAPS

-----------------------------------------------------------------------------
(* What the steps of a turn's task keep and change *)

TokenSends == {"tokensend", "tailsend_cancel", "tailsend_fail"}

\* How the frames the client has seen, the recorded text and the buffer stand to each other:
\* what keeps every counter within its bound.
Counts ==
  \A t \in Turns :
    /\ wire[t].shown <= gen[t].text + (IF pc[t] \in TokenSends \cup {"done"} THEN 1 ELSE 0)
    /\ pc[t] \in TokenSends => gen[t].text < MaxChunks
    /\ gen[t].held => gen[t].text < MaxChunks /\ pc[t] = "stream"

-----------------------------------------------------------------------------
(* The parts of a step *)

\* Sends have one of four outcomes and move the socket only towards "down".
LEMMA OutcomeType ==
  ASSUME TurnTypeOK, NEW o \in SendOutcomes
  PROVE  o \in {"sent", "lost", "dropped", "raised"} /\ SockAfter(o) \in {"open", "gone", "down"}
BY DEF TurnTypeOK, SendOutcomes, SockAfter

\* A frame that is not a token, or for which there is room, keeps the wire well typed and
\* changes no other turn's.
LEMMA FrameType ==
  ASSUME TurnTypeOK, NEW t \in Turns, NEW kind \in FrameKinds, NEW o \in SendOutcomes,
         Frame(t, kind, o), kind = "token" => wire[t].shown < MaxChunks
  PROVE  /\ sock' \in {"open", "gone", "down"}
         /\ wire' \in [Turns -> [last : FrameKinds, shown : 0 .. MaxChunks]]
         /\ \A u \in Turns \ {t} : wire'[u] = wire[u]
         /\ wire'[t].shown <= wire[t].shown + (IF kind = "token" THEN 1 ELSE 0)
<1>1. sock' \in {"open", "gone", "down"}
  BY OutcomeType DEF Frame
<1>2. CASE o # "sent"
  BY <1>1, <1>2, TurnConstants DEF TurnTypeOK, Frame
<1>3. CASE o = "sent"
  <2> DEFINE n == IF kind = "token" THEN wire[t].shown + 1 ELSE wire[t].shown
  <2>1. wire[t] \in [last : FrameKinds, shown : 0 .. MaxChunks]
    BY DEF TurnTypeOK
  <2>2. n \in 0 .. MaxChunks /\ n <= wire[t].shown + (IF kind = "token" THEN 1 ELSE 0)
    BY <2>1, TurnConstants
  <2>3. wire' = [wire EXCEPT ![t] = [last |-> kind, shown |-> n]]
    BY <1>3 DEF Frame
  <2> HIDE DEF n
  <2>4. /\ wire' \in [Turns -> [last : FrameKinds, shown : 0 .. MaxChunks]]
        /\ wire'[t].shown = n
        /\ \A u \in Turns \ {t} : wire'[u] = wire[u]
    BY <2>2, <2>3 DEF TurnTypeOK
  <2> QED
    BY <1>1, <2>2, <2>4
<1> QED
  BY <1>2, <1>3

\* The engine operators keep a generation well typed and its text unchanged.
LEMMA GenerationType ==
  ASSUME NEW g \in Generation
  PROVE  /\ EngineAborted(g) \in Generation /\ EngineAborted(g).text = g.text
         /\ EngineAborted(g).held = g.held
         /\ Unwound(g) \in Generation /\ Unwound(g).text = g.text /\ ~Unwound(g).held
BY DEF Generation, EngineAborted, Unwound

\* Replacing one turn's generation.
LEMMA GenerationUpdate ==
  ASSUME TurnTypeOK, NEW t \in Turns, NEW g \in Generation, gen' = [gen EXCEPT ![t] = g]
  PROVE  /\ gen' \in [Turns -> Generation] /\ gen'[t] = g
         /\ \A u \in Turns \ {t} : gen'[u] = gen[u]
BY DEF TurnTypeOK

\* Ending a task keeps the request fields well typed.
LEMMA FinishType ==
  ASSUME TurnTypeOK, NEW t \in Turns
  PROVE  CompleteRequest(req, t) \in Requests
BY DEF TurnTypeOK, Requests, Lifecycles, CompleteRequest, ForceCleanup

-----------------------------------------------------------------------------
(* What one step of a task may do *)

\* Task t moves itself only; it leaves the request fields alone or, ending, completes its
\* own request; a cancellation is never taken back.
TaskEffect(t) ==
  /\ \E p \in Phases \ {"unborn", "created"} : pc' = [pc EXCEPT ![t] = p]
  /\ \/ req' = req
     \/ pc'[t] = "done" /\ req' = CompleteRequest(req, t)
  /\ \/ cancel' = cancel
     \/ \E c \in {"delivered", "swallowed"} : cancel' = [cancel EXCEPT ![t] = c]
  /\ \A u \in Turns \ {t} : wire'[u] = wire[u] /\ gen'[u] = gen[u]
  /\ gen'[t].held => gen[t].held \/ FlushBuffering
  /\ pc[t] # "unborn"
  /\ pc[t] = "done" => pc' = pc

\* What the steps of the tasks keep of the data.
DataOK == TurnTypeOK /\ Counts

\* Recording a reply keeps chat history well typed.
LEMMA CommitType ==
  ASSUME TurnTypeOK, NEW t \in Turns, NEW n \in 0 .. MaxChunks, Commit(t, n)
  PROVE  stored' \in [Turns -> 0 .. MaxChunks]
BY DEF TurnTypeOK, Commit

\* A step that moves task t to phase p, leaves its generation as g, and changes only
\* entries of t, within their bounds.
Moves(t, p, g) ==
  /\ pc[t] \notin {"unborn", "done"}
  /\ p \in Phases \ {"unborn", "created"} /\ pc' = [pc EXCEPT ![t] = p]
  /\ req' = req \/ (p = "done" /\ req' = CompleteRequest(req, t))
  /\ \/ cancel' = cancel
     \/ \E c \in {"delivered", "swallowed"} : cancel' = [cancel EXCEPT ![t] = c]
  /\ g \in Generation /\ gen' = [gen EXCEPT ![t] = g]
  /\ p \in TokenSends \/ g.held => g.text < MaxChunks
  /\ g.held => p = "stream" /\ (gen[t].held \/ FlushBuffering)
  /\ stored' \in [Turns -> 0 .. MaxChunks]
  /\ sock' \in {"open", "gone", "down"}
  /\ wire' \in [Turns -> [last : FrameKinds, shown : 0 .. MaxChunks]]
  /\ \A u \in Turns \ {t} : wire'[u] = wire[u]
  /\ wire'[t].shown <= g.text + (IF p \in TokenSends \cup {"done"} THEN 1 ELSE 0)
  /\ followup' \in BOOLEAN /\ applies' = applies /\ asked' \in BOOLEAN

\* A move of one task keeps the data's invariants.
LEMMA LocalEffect ==
  ASSUME DataOK, NEW t \in Turns, NEW p, NEW g, Moves(t, p, g)
  PROVE  DataOK' /\ TaskEffect(t)
<1> USE DEF Moves
<1>1. TurnTypeOK
  BY DEF DataOK
<1>2. req' \in Requests
  BY <1>1, FinishType DEF TurnTypeOK
<1>3. pc' \in [Turns -> Phases] /\ pc'[t] = p /\ \A u \in Turns \ {t} : pc'[u] = pc[u]
  BY <1>1 DEF TurnTypeOK
<1>4. cancel' \in [Turns -> {"none", "pending", "delivered", "swallowed"}]
  BY <1>1 DEF TurnTypeOK
<1>5. /\ gen' \in [Turns -> Generation] /\ gen'[t] = g
      /\ \A u \in Turns \ {t} : gen'[u] = gen[u]
  BY <1>1, GenerationUpdate
<1>6. TurnTypeOK'
  BY <1>1, <1>2, <1>3, <1>4, <1>5 DEF TurnTypeOK
<1>7. Counts'
  <2> SUFFICES ASSUME NEW u \in Turns
               PROVE  /\ wire'[u].shown <= gen'[u].text
                           + (IF pc'[u] \in TokenSends \cup {"done"} THEN 1 ELSE 0)
                      /\ pc'[u] \in TokenSends => gen'[u].text < MaxChunks
                      /\ gen'[u].held => gen'[u].text < MaxChunks /\ pc'[u] = "stream"
    BY DEF Counts
  <2>1. CASE u = t
    BY <2>1, <1>3, <1>5
  <2>2. CASE u # t
    BY <2>2, <1>3, <1>5 DEF DataOK, Counts
  <2> QED
    BY <2>1, <2>2
<1>8. TaskEffect(t)
  BY <1>3, <1>5 DEF TaskEffect
<1> QED
  BY <1>6, <1>7, <1>8 DEF DataOK

\* What DataOK says of one turn.
LEMMA LocalData ==
  ASSUME DataOK, NEW t \in Turns
  PROVE  /\ gen[t] \in Generation /\ gen[t].text \in 0 .. MaxChunks /\ gen[t].held \in BOOLEAN
         /\ wire[t].shown \in 0 .. MaxChunks /\ stored[t] \in 0 .. MaxChunks
         /\ wire[t].shown <= gen[t].text
                              + (IF pc[t] \in TokenSends \cup {"done"} THEN 1 ELSE 0)
         /\ pc[t] \in TokenSends => gen[t].text < MaxChunks
         /\ gen[t].held => gen[t].text < MaxChunks /\ pc[t] = "stream"
         /\ gen = [gen EXCEPT ![t] = gen[t]]
         /\ TurnTypeOK
BY DEF DataOK, TurnTypeOK, Counts, Generation

\* A task sends a frame and stays at that send or ends; the text it has recorded covers the
\* frames the client has seen.
LEMMA FrameMoves ==
  ASSUME DataOK, NEW t \in Turns, pc[t] \notin {"unborn", "done"},
         NEW kind \in FrameKinds, NEW o \in SendOutcomes, Frame(t, kind, o),
         NEW phase \in SendPhases, kind = "token" <=> phase \in TokenSends,
         Suspend(t, phase) \/ Finish(t),
         NEW g \in Generation, gen' = [gen EXCEPT ![t] = g], ~g.held,
         wire[t].shown <= g.text, kind = "token" => g.text < MaxChunks,
         stored' \in [Turns -> 0 .. MaxChunks], UNCHANGED applies,
         \/ cancel' = cancel
         \/ \E c \in {"delivered", "swallowed"} : cancel' = [cancel EXCEPT ![t] = c],
         followup' \in BOOLEAN, asked' \in BOOLEAN
  PROVE  DataOK' /\ TaskEffect(t)
<1>0. g.text \in Nat /\ MaxChunks \in Nat /\ wire[t].shown \in Nat
  BY LocalData, TurnConstants DEF Generation
<1>1. kind = "token" => wire[t].shown < MaxChunks
  BY <1>0
<1>2. /\ sock' \in {"open", "gone", "down"}
      /\ wire' \in [Turns -> [last : FrameKinds, shown : 0 .. MaxChunks]]
      /\ \A u \in Turns \ {t} : wire'[u] = wire[u]
      /\ wire'[t].shown <= wire[t].shown + (IF kind = "token" THEN 1 ELSE 0)
  BY <1>1, FrameType DEF DataOK
<1>3. wire'[t].shown \in Nat
  BY <1>2, <1>0
<1>4. wire'[t].shown <= g.text + (IF kind = "token" THEN 1 ELSE 0)
  BY <1>0, <1>2, <1>3
<1>5. CASE Suspend(t, phase)
  <2>1. Moves(t, phase, g)
    BY <1>2, <1>4, <1>5 DEF Moves, Suspend, Phases, SendPhases
  <2> QED
    BY <2>1, LocalEffect
<1>6. CASE Finish(t)
  <2>1. wire'[t].shown <= g.text + 1
    BY <1>0, <1>3, <1>4
  <2>2. Moves(t, "done", g)
    BY <1>2, <1>6, <2>1 DEF Moves, Finish, Phases, TokenSends
  <2> QED
    BY <2>2, LocalEffect
<1> QED
  BY <1>5, <1>6

\* The same for a frame that is not a token.
LEMMA SendMoves ==
  ASSUME DataOK, NEW t \in Turns, pc[t] \notin {"unborn", "done"},
         NEW kind \in FrameKinds \ {"token"},
         NEW phase \in SendPhases \ TokenSends, SendThenSuspend(t, kind, phase),
         NEW g \in Generation, gen' = [gen EXCEPT ![t] = g], ~g.held,
         wire[t].shown <= g.text,
         stored' \in [Turns -> 0 .. MaxChunks], UNCHANGED <<cancel, applies>>,
         followup' \in BOOLEAN, asked' \in BOOLEAN
  PROVE  DataOK' /\ TaskEffect(t)
<1>1. PICK o \in SendOutcomes :
        /\ Frame(t, kind, o)
        /\ IF Through(o) THEN Suspend(t, phase) ELSE Finish(t)
  BY DEF SendThenSuspend
<1> QED
  BY <1>1, FrameMoves

\* The same for a task that fails.
LEMMA CrashMoves ==
  ASSUME DataOK, NEW t \in Turns, pc[t] \notin {"unborn", "done"}, Crash(t),
         NEW g \in Generation, gen' = [gen EXCEPT ![t] = g], ~g.held,
         wire[t].shown <= g.text,
         stored' \in [Turns -> 0 .. MaxChunks], UNCHANGED <<cancel, applies>>,
         followup' \in BOOLEAN, asked' \in BOOLEAN
  PROVE  DataOK' /\ TaskEffect(t)
BY SendMoves DEF Crash, FrameKinds, SendPhases, TokenSends

\* The chat engine starts, or the prompt does not fit.
LEMMA ChatStarts ==
  ASSUME DataOK, NEW t \in Turns, pc[t] \notin {"unborn", "done", "stream"} \cup TokenSends,
         StartChat(t), UNCHANGED <<cancel, stored, applies, asked>>, followup' \in BOOLEAN
  PROVE  DataOK' /\ TaskEffect(t)
<1>1. CASE /\ gen' = [gen EXCEPT ![t] = [@ EXCEPT !.engine = "running", !.inflight = TRUE]]
           /\ Suspend(t, "stream")
           /\ UNCHANGED <<sock, wire>>
  <2> DEFINE g == [gen[t] EXCEPT !.engine = "running", !.inflight = TRUE]
  <2>1. gen[t] \in Generation
    BY LocalData
  <2>2. g \in Generation /\ g.text = gen[t].text /\ g.held = gen[t].held
    BY <2>1 DEF Generation
  <2>3. gen' = [gen EXCEPT ![t] = g]
    BY <1>1
  <2> HIDE DEF g
  <2>4. Moves(t, "stream", g)
    BY <1>1, <2>2, <2>3, LocalData
    DEF Moves, Suspend, TokenSends, Phases, SendPhases, TurnTypeOK
  <2> QED
    BY <2>4, LocalEffect
<1>2. CASE SendThenSuspend(t, "error", "errsend") /\ UNCHANGED gen
  <2>1. ~gen[t].held /\ asked' \in BOOLEAN /\ stored' \in [Turns -> 0 .. MaxChunks]
    BY LocalData DEF TurnTypeOK
  <2>2. gen' = [gen EXCEPT ![t] = gen[t]] /\ gen[t] \in Generation /\ wire[t].shown <= gen[t].text
    BY <1>2, LocalData
  <2> QED
    BY <1>2, <2>1, <2>2, CrashMoves DEF Crash
<1> QED
  BY <1>1, <1>2 DEF StartChat

-----------------------------------------------------------------------------
(* Every action of a task has that effect *)

\* The first step of a turn.
LEMMA BeginTurnEffect ==
  ASSUME DataOK, NEW t \in Turns, BeginTurn(t)
  PROVE  DataOK' /\ TaskEffect(t)
<1>1. pc[t] = "created" /\ UNCHANGED <<cancel, stored, followup, applies, asked>>
  BY DEF BeginTurn
<1>2. CASE DeployTool
  <2>1. Moves(t, "tool", gen[t])
    BY <1>1, <1>2, LocalData
    DEF Moves, BeginTurn, Suspend, TokenSends, Phases, SendPhases, TurnTypeOK
  <2> QED
    BY <2>1, LocalEffect
<1>3. CASE ~DeployTool
  <2>1. StartChat(t)
    BY <1>3 DEF BeginTurn
  <2> QED
    BY <1>1, <2>1, ChatStarts DEF DataOK, TurnTypeOK, TokenSends
<1> QED
  BY <1>2, <1>3

\* The turn that sent its done frame ends.
LEMMA DoneSentEffect ==
  ASSUME DataOK, NEW t \in Turns, DoneSent(t)
  PROVE  DataOK' /\ TaskEffect(t)
<1>1. stored' \in [Turns -> 0 .. MaxChunks]
  BY LocalData, CommitType DEF DoneSent
<1>2. Moves(t, "done", gen[t])
  BY <1>1, LocalData DEF Moves, DoneSent, Finish, TokenSends, Phases, TurnTypeOK
<1> QED
  BY <1>2, LocalEffect

\* The turn that sent its error frame ends.
LEMMA ErrorSentEffect ==
  ASSUME DataOK, NEW t \in Turns, ErrorSent(t)
  PROVE  DataOK' /\ TaskEffect(t)
<1>1. Moves(t, "done", gen[t])
  BY LocalData DEF Moves, ErrorSent, Finish, TokenSends, Phases, TurnTypeOK
<1> QED
  BY <1>1, LocalEffect

\* The chunk that was sent joins the recorded text; there was room for it.
LEMMA TokenSentEffect ==
  ASSUME DataOK, NEW t \in Turns, TokenSent(t)
  PROVE  DataOK' /\ TaskEffect(t)
<1> DEFINE g == [gen[t] EXCEPT !.text = @ + 1]
<1>1. g \in Generation /\ g.text = gen[t].text + 1 /\ ~g.held /\ g.text \in Nat
  BY LocalData, TurnConstants DEF Generation, TokenSent, TokenSends
<1>2. gen' = [gen EXCEPT ![t] = g]
  BY DEF TokenSent
<1> HIDE DEF g
<1>3. /\ pc[t] = "tokensend" /\ pc' = [pc EXCEPT ![t] = "stream"]
      /\ UNCHANGED <<req, cancel, stored, followup, applies, sock, wire, asked>>
  BY DEF TokenSent, Suspend
<1>4. wire[t].shown <= g.text
  BY <1>1, <1>3, LocalData DEF TokenSends
<1>5. Moves(t, "stream", g)
  BY <1>1, <1>2, <1>3, <1>4, LocalData DEF Moves, TokenSends, Phases, SendPhases, TurnTypeOK
<1> QED
  BY <1>5, LocalEffect

\* The classification fails the turn.
LEMMA ToolFailsEffect ==
  ASSUME DataOK, NEW t \in Turns, ToolFails(t)
  PROVE  DataOK' /\ TaskEffect(t)
<1>1. pc[t] = "tool" /\ Crash(t) /\ UNCHANGED <<cancel, gen, stored, followup, applies, asked>>
  BY DEF ToolFails
<1>2. /\ gen' = [gen EXCEPT ![t] = gen[t]] /\ gen[t] \in Generation /\ ~gen[t].held
      /\ wire[t].shown <= gen[t].text
      /\ stored' \in [Turns -> 0 .. MaxChunks] /\ followup' \in BOOLEAN /\ asked' \in BOOLEAN
  BY <1>1, LocalData DEF TurnTypeOK, TokenSends
<1> QED
  BY <1>1, <1>2, CrashMoves

\* A tool frame is sent, from the await of the classification.
LEMMA SendToolEffect ==
  ASSUME DataOK, NEW t \in Turns, pc[t] = "tool", NEW isTool \in BOOLEAN, SendTool(t, isTool),
         UNCHANGED <<gen, stored, followup, applies>>,
         \/ cancel' = cancel
         \/ \E c \in {"delivered", "swallowed"} : cancel' = [cancel EXCEPT ![t] = c]
  PROVE  DataOK' /\ TaskEffect(t)
<1>1. PICK o \in SendOutcomes :
        /\ Frame(t, "tool", o)
        /\ asked' = IF o = "sent" THEN isTool ELSE asked
        /\ IF o = "raised" THEN Finish(t)
           ELSE Suspend(t, IF isTool THEN "toolsend_yes" ELSE "toolsend_no")
  BY DEF SendTool
<1>2. /\ gen' = [gen EXCEPT ![t] = gen[t]] /\ gen[t] \in Generation /\ ~gen[t].held
      /\ wire[t].shown <= gen[t].text
      /\ stored' \in [Turns -> 0 .. MaxChunks] /\ followup' \in BOOLEAN /\ asked' \in BOOLEAN
  BY <1>1, LocalData DEF TurnTypeOK, TokenSends
<1>3. \E phase \in {"toolsend_yes", "toolsend_no"} : Suspend(t, phase) \/ Finish(t)
  BY <1>1
<1> QED
  BY <1>1, <1>2, <1>3, FrameMoves DEF FrameKinds, SendPhases, TokenSends

\* The classification answers.
LEMMA ToolAnswersEffect ==
  ASSUME DataOK, NEW t \in Turns, ToolAnswers(t)
  PROVE  DataOK' /\ TaskEffect(t)
BY SendToolEffect DEF ToolAnswers

\* The classification times out.
LEMMA ToolTimesOutEffect ==
  ASSUME DataOK, NEW t \in Turns, ToolTimesOut(t)
  PROVE  DataOK' /\ TaskEffect(t)
<1>1. pc[t] = "tool" /\ Runs(t) /\ UNCHANGED <<cancel, gen, stored, followup, applies>>
  BY DEF ToolTimesOut
<1>2. CASE SendTool(t, FALSE)
  BY <1>1, <1>2, SendToolEffect
<1>3. CASE Crash(t) /\ UNCHANGED asked
  <2>1. ToolFails(t)
    BY <1>1, <1>3 DEF ToolFails
  <2> QED
    BY <2>1, ToolFailsEffect
<1> QED
  BY <1>2, <1>3 DEF ToolTimesOut

\* The classification's answer overtakes the cancellation.
LEMMA SwallowCancelEffect ==
  ASSUME DataOK, NEW t \in Turns, SwallowCancel(t)
  PROVE  DataOK' /\ TaskEffect(t)
BY SendToolEffect DEF SwallowCancel

\* After the tool frame: the chat stream, or the final frame of a tool-only turn.
LEMMA ToolSentEffect ==
  ASSUME DataOK, NEW t \in Turns, ToolSent(t)
  PROVE  DataOK' /\ TaskEffect(t)
<1>1. /\ pc[t] \in {"toolsend_yes", "toolsend_no"}
      /\ UNCHANGED <<cancel, stored, applies, asked>>
  BY DEF ToolSent
<1>2. CASE DeployChat
  <2>1. StartChat(t) /\ followup' = FollowupAfter(t)
    BY <1>2 DEF ToolSent
  <2>2. followup' \in BOOLEAN
    BY <2>1, LocalData DEF FollowupAfter, TurnTypeOK
  <2> QED
    BY <1>1, <2>1, <2>2, ChatStarts DEF TokenSends
<1>3. CASE ~DeployChat
  <2>1. PICK o \in SendOutcomes :
          /\ Frame(t, "final", o)
          /\ IF o = "raised" THEN Finish(t) ELSE Suspend(t, "finalsend")
    BY <1>3 DEF ToolSent
  <2>2. UNCHANGED <<followup, gen>>
    BY <1>3 DEF ToolSent
  <2>3. /\ gen' = [gen EXCEPT ![t] = gen[t]] /\ gen[t] \in Generation /\ ~gen[t].held
        /\ wire[t].shown <= gen[t].text
        /\ stored' \in [Turns -> 0 .. MaxChunks] /\ followup' \in BOOLEAN /\ asked' \in BOOLEAN
    BY <1>1, <2>2, LocalData DEF TurnTypeOK, TokenSends
  <2> QED
    BY <1>1, <2>1, <2>2, <2>3, FrameMoves DEF FrameKinds, SendPhases, TokenSends
<1> QED
  BY <1>2, <1>3

\* A chunk is sent, or its send ends the turn.
LEMMA EmitTokenEffect ==
  ASSUME DataOK, NEW t \in Turns, EmitToken(t)
  PROVE  DataOK' /\ TaskEffect(t)
<1>1. /\ pc[t] = "stream" /\ gen[t].text < MaxChunks
      /\ UNCHANGED <<cancel, followup, applies, asked>>
  BY DEF EmitToken
<1> DEFINE g == [gen[t] EXCEPT !.held = FALSE]
<1>2. PICK o \in SendOutcomes :
        /\ Frame(t, "token", o)
        /\ IF Through(o) THEN Suspend(t, "tokensend") /\ UNCHANGED stored
                         ELSE Finish(t) /\ Commit(t, gen[t].text)
  BY DEF EmitToken
<1>3. /\ gen[t] \in Generation /\ gen[t].text \in 0 .. MaxChunks /\ wire[t].shown <= gen[t].text
      /\ followup' \in BOOLEAN /\ asked' \in BOOLEAN
  BY <1>1, LocalData DEF TurnTypeOK, TokenSends
<1>4. /\ g \in Generation /\ g.text = gen[t].text /\ ~g.held
      /\ gen' = [gen EXCEPT ![t] = g]
  BY <1>3 DEF Generation, EmitToken
<1> HIDE DEF g
<1>5. stored' \in [Turns -> 0 .. MaxChunks]
  BY <1>2, <1>3, LocalData, CommitType DEF TurnTypeOK
<1>6. "token" \in FrameKinds /\ "tokensend" \in SendPhases \cap TokenSends
  BY DEF FrameKinds, SendPhases, TokenSends
<1> QED
  BY <1>1, <1>2, <1>3, <1>4, <1>5, <1>6, FrameMoves

\* Steps of the stream that send nothing and leave the text as it is.
LEMMA StreamMoves ==
  ASSUME DataOK, NEW t \in Turns, pc[t] = "stream",
         NEW g \in Generation, gen' = [gen EXCEPT ![t] = g], g.text = gen[t].text,
         g.held => gen[t].held \/ (FlushBuffering /\ gen[t].text < MaxChunks),
         UNCHANGED <<req, pc, cancel, stored, followup, applies, sock, wire, asked>>
  PROVE  DataOK' /\ TaskEffect(t)
<1>1. Moves(t, "stream", g)
  BY LocalData DEF Moves, TokenSends, Phases, SendPhases, TurnTypeOK
<1> QED
  BY <1>1, LocalEffect

\* An output of the engine stays in the buffer.
LEMMA BufferDeltaEffect ==
  ASSUME DataOK, NEW t \in Turns, BufferDelta(t)
  PROVE  DataOK' /\ TaskEffect(t)
<1> DEFINE g == [gen[t] EXCEPT !.held = TRUE]
<1>1. gen[t] \in Generation
  BY LocalData
<1>2. g \in Generation /\ g.text = gen[t].text
  BY <1>1 DEF Generation
<1>3. gen' = [gen EXCEPT ![t] = g]
  BY DEF BufferDelta
<1>4. /\ pc[t] = "stream" /\ gen[t].text < MaxChunks /\ FlushBuffering
      /\ UNCHANGED <<req, pc, cancel, stored, followup, applies, sock, wire, asked>>
  BY DEF BufferDelta
<1> HIDE DEF g
<1> QED
  BY <1>2, <1>3, <1>4, StreamMoves

\* The engine's last output.
LEMMA EngineEndsEffect ==
  ASSUME DataOK, NEW t \in Turns, EngineEnds(t)
  PROVE  DataOK' /\ TaskEffect(t)
<1> DEFINE g == [gen[t] EXCEPT !.engine = "finished", !.inflight = FALSE]
<1>1. gen[t] \in Generation
  BY LocalData
<1>2. g \in Generation /\ g.text = gen[t].text /\ g.held = gen[t].held
  BY <1>1 DEF Generation
<1>3. gen' = [gen EXCEPT ![t] = g]
  BY DEF EngineEnds
<1>4. /\ pc[t] = "stream"
      /\ UNCHANGED <<req, pc, cancel, stored, followup, applies, sock, wire, asked>>
  BY DEF EngineEnds
<1> HIDE DEF g
<1> QED
  BY <1>2, <1>3, <1>4, StreamMoves

\* The stream ends as cancelled.
LEMMA CooperativeCancelEffect ==
  ASSUME DataOK, NEW t \in Turns, CooperativeCancel(t)
  PROVE  DataOK' /\ TaskEffect(t)
<1> DEFINE g == [EngineAborted(gen[t]) EXCEPT !.held = FALSE]
<1>1. EngineAborted(gen[t]) \in Generation /\ EngineAborted(gen[t]).text = gen[t].text
  BY LocalData, GenerationType
<1>2. g \in Generation /\ g.text = gen[t].text /\ ~g.held
  BY <1>1 DEF Generation
<1>3. gen' = [gen EXCEPT ![t] = g]
  BY DEF CooperativeCancel
<1>4. /\ pc[t] = "stream"
      /\ UNCHANGED <<req, pc, cancel, stored, followup, applies, sock, wire, asked>>
  BY DEF CooperativeCancel
<1> HIDE DEF g
<1> QED
  BY <1>2, <1>3, <1>4, StreamMoves

\* A frame after which the turn, if the frame is refused, ends and records its text.
LEMMA SendOrCommitMoves ==
  ASSUME DataOK, NEW t \in Turns, pc[t] \in {"stream", "finalsend"},
         NEW kind \in FrameKinds, NEW phase \in SendPhases,
         kind = "token" <=> phase \in TokenSends, kind = "token" => gen[t].held,
         NEW g \in Generation, gen' = [gen EXCEPT ![t] = g], ~g.held, g.text = gen[t].text,
         \E o \in SendOutcomes :
           /\ Frame(t, kind, o)
           /\ IF Through(o) THEN Suspend(t, phase) /\ UNCHANGED stored
                            ELSE Finish(t) /\ Commit(t, gen[t].text),
         \/ cancel' = cancel
         \/ \E c \in {"delivered", "swallowed"} : cancel' = [cancel EXCEPT ![t] = c],
         UNCHANGED <<followup, applies, asked>>
  PROVE  DataOK' /\ TaskEffect(t)
<1>1. PICK o \in SendOutcomes :
        /\ Frame(t, kind, o)
        /\ IF Through(o) THEN Suspend(t, phase) /\ UNCHANGED stored
                         ELSE Finish(t) /\ Commit(t, gen[t].text)
  OBVIOUS
<1>2. /\ wire[t].shown <= g.text /\ followup' \in BOOLEAN /\ asked' \in BOOLEAN
      /\ gen[t].text \in 0 .. MaxChunks
  BY LocalData DEF TurnTypeOK, TokenSends
<1>3. stored' \in [Turns -> 0 .. MaxChunks]
  <2>1. CASE UNCHANGED stored
    BY <2>1, LocalData DEF TurnTypeOK
  <2>2. CASE Commit(t, gen[t].text)
    BY <2>2, <1>2, LocalData, CommitType
  <2> QED
    BY <1>1, <2>1, <2>2
<1>4. kind = "token" => g.text < MaxChunks
  BY LocalData
<1> QED
  BY <1>1, <1>2, <1>3, <1>4, FrameMoves

\* The done frame follows the final frame.
LEMMA FinalSentEffect ==
  ASSUME DataOK, NEW t \in Turns, FinalSent(t)
  PROVE  DataOK' /\ TaskEffect(t)
<1>1. /\ pc[t] = "finalsend" /\ UNCHANGED <<cancel, gen, followup, applies, asked>>
      /\ \E o \in SendOutcomes :
           /\ Frame(t, "done", o)
           /\ IF Through(o) THEN Suspend(t, "donesend") /\ UNCHANGED stored
                            ELSE Finish(t) /\ Commit(t, gen[t].text)
  BY DEF FinalSent
<1>2. gen' = [gen EXCEPT ![t] = gen[t]] /\ gen[t] \in Generation /\ ~gen[t].held
  BY <1>1, LocalData
<1>3. "done" \in FrameKinds /\ "donesend" \in SendPhases \ TokenSends
  BY DEF FrameKinds, SendPhases, TokenSends
<1> QED
  BY <1>1, <1>2, <1>3, SendOrCommitMoves

\* The stream is exhausted.
LEMMA FinishStreamEffect ==
  ASSUME DataOK, NEW t \in Turns, FinishStream(t)
  PROVE  DataOK' /\ TaskEffect(t)
<1>1. pc[t] = "stream" /\ ~gen[t].held /\ UNCHANGED <<cancel, gen, followup, applies, asked>>
  BY DEF FinishStream
<1>2. /\ gen' = [gen EXCEPT ![t] = gen[t]] /\ gen[t] \in Generation
      /\ wire[t].shown <= gen[t].text
      /\ followup' \in BOOLEAN /\ asked' \in BOOLEAN
  BY <1>1, LocalData DEF TurnTypeOK, TokenSends
<1>3. CASE gen[t].text = 0
  <2>1. SendThenSuspend(t, "error", "errsend") /\ UNCHANGED stored
    BY <1>3 DEF FinishStream
  <2>2. stored' \in [Turns -> 0 .. MaxChunks]
    BY <2>1, LocalData DEF TurnTypeOK
  <2> QED
    BY <1>1, <1>2, <2>1, <2>2, CrashMoves DEF Crash
<1>4. CASE gen[t].text # 0
  <2>1. \E o \in SendOutcomes :
          /\ Frame(t, "final", o)
          /\ IF Through(o) THEN Suspend(t, "finalsend") /\ UNCHANGED stored
                           ELSE Finish(t) /\ Commit(t, gen[t].text)
    BY <1>4 DEF FinishStream
  <2>2. "final" \in FrameKinds /\ "finalsend" \in SendPhases \ TokenSends
    BY DEF FrameKinds, SendPhases, TokenSends
  <2> QED
    BY <1>1, <1>2, <2>1, <2>2, SendOrCommitMoves
<1> QED
  BY <1>3, <1>4

\* An exception unwinds the stream.
LEMMA StreamRaisesEffect ==
  ASSUME DataOK, NEW t \in Turns, pc[t] = "stream", NEW h \in Generation,
         h.text = gen[t].text, StreamRaises(t, h), UNCHANGED <<cancel, followup, applies, asked>>
  PROVE  DataOK' /\ TaskEffect(t)
<1> DEFINE g == [h EXCEPT !.held = FALSE]
<1>1. g \in Generation /\ g.text = gen[t].text /\ ~g.held
  BY DEF Generation
<1>2. gen' = [gen EXCEPT ![t] = g]
  BY DEF StreamRaises
<1> HIDE DEF g
<1>3. CASE gen[t].held
  <2>1. \E o \in SendOutcomes :
          /\ Frame(t, "token", o)
          /\ IF Through(o) THEN Suspend(t, "tailsend_fail") /\ UNCHANGED stored
                           ELSE Finish(t) /\ Commit(t, gen[t].text)
    BY <1>3 DEF StreamRaises
  <2>2. "token" \in FrameKinds /\ "tailsend_fail" \in SendPhases \cap TokenSends
    BY DEF FrameKinds, SendPhases, TokenSends
  <2> QED
    BY <1>1, <1>2, <1>3, <2>1, <2>2, SendOrCommitMoves
<1>4. CASE ~gen[t].held
  <2>1. Commit(t, gen[t].text) /\ Crash(t)
    BY <1>4 DEF StreamRaises
  <2>2. /\ wire[t].shown <= g.text /\ followup' \in BOOLEAN /\ asked' \in BOOLEAN
        /\ stored' \in [Turns -> 0 .. MaxChunks]
    BY <1>1, <2>1, LocalData, CommitType DEF TurnTypeOK, TokenSends
  <2> QED
    BY <1>1, <1>2, <2>1, <2>2, CrashMoves
<1> QED
  BY <1>3, <1>4

\* The engine's exception.
LEMMA EngineFailsEffect ==
  ASSUME DataOK, NEW t \in Turns, EngineFails(t)
  PROVE  DataOK' /\ TaskEffect(t)
<1> DEFINE h == [gen[t] EXCEPT !.engine = "finished", !.inflight = FALSE]
<1>1. gen[t] \in Generation
  BY LocalData
<1>2. h \in Generation /\ h.text = gen[t].text
  BY <1>1 DEF Generation
<1>3. pc[t] = "stream" /\ StreamRaises(t, h) /\ UNCHANGED <<cancel, followup, applies, asked>>
  BY DEF EngineFails
<1> HIDE DEF h
<1> QED
  BY <1>2, <1>3, StreamRaisesEffect

\* The timeout of the chat stream.
LEMMA ChatTimesOutEffect ==
  ASSUME DataOK, NEW t \in Turns, ChatTimesOut(t)
  PROVE  DataOK' /\ TaskEffect(t)
<1> DEFINE h == EngineAborted(Unwound(gen[t]))
<1>1. Unwound(gen[t]) \in Generation /\ Unwound(gen[t]).text = gen[t].text
  BY LocalData, GenerationType
<1>2. h \in Generation /\ h.text = gen[t].text
  BY <1>1, GenerationType
<1>3. pc[t] = "stream" /\ StreamRaises(t, h) /\ UNCHANGED <<cancel, followup, applies, asked>>
  BY DEF ChatTimesOut
<1> HIDE DEF h
<1> QED
  BY <1>2, <1>3, StreamRaisesEffect

\* A task ends without a frame.
LEMMA EndMoves ==
  ASSUME DataOK, NEW t \in Turns, pc[t] \notin {"unborn", "done"},
         pc' = [pc EXCEPT ![t] = "done"], req' = req \/ req' = CompleteRequest(req, t),
         NEW g \in Generation, gen' = [gen EXCEPT ![t] = g], ~g.held,
         wire[t].shown <= g.text + 1,
         stored' \in [Turns -> 0 .. MaxChunks],
         \/ cancel' = cancel
         \/ \E c \in {"delivered", "swallowed"} : cancel' = [cancel EXCEPT ![t] = c],
         UNCHANGED <<followup, applies, sock, wire, asked>>
  PROVE  DataOK' /\ TaskEffect(t)
<1>1. Moves(t, "done", g)
  BY LocalData DEF Moves, TokenSends, Phases, TurnTypeOK
<1> QED
  BY <1>1, LocalEffect

\* The last chunk was sent and counts.
LEMMA TailCounted ==
  ASSUME DataOK, NEW t \in Turns, pc[t] \in TokenSends
  PROVE  LET g == [gen[t] EXCEPT !.text = @ + 1]
         IN  /\ g \in Generation /\ g.text = gen[t].text + 1 /\ ~g.held
             /\ g.text \in 0 .. MaxChunks /\ wire[t].shown <= g.text
<1>1. gen[t] \in Generation /\ ~gen[t].held
  BY LocalData DEF TokenSends
<1>2. gen[t].text + 1 \in 0 .. MaxChunks /\ wire[t].shown <= gen[t].text + 1
  BY LocalData, TurnConstants
<1> QED
  BY <1>1, <1>2 DEF Generation

\* The same timeout during a send.
LEMMA ChatTimesOutInSendEffect ==
  ASSUME DataOK, NEW t \in Turns, ChatTimesOutInSend(t)
  PROVE  DataOK' /\ TaskEffect(t)
<1>1. /\ pc[t] = "tokensend" /\ gen' = gen /\ Finish(t)
      /\ Commit(t, gen[t].text) /\ UNCHANGED <<cancel, followup, applies, sock, wire, asked>>
  BY DEF ChatTimesOutInSend
<1>2. gen[t] \in Generation /\ ~gen[t].held /\ gen' = [gen EXCEPT ![t] = gen[t]]
  BY <1>1, LocalData
<1>3. stored' \in [Turns -> 0 .. MaxChunks] /\ wire[t].shown <= gen[t].text + 1
  BY <1>1, <1>2, LocalData, CommitType DEF TokenSends
<1> QED
  BY <1>1, <1>2, <1>3, EndMoves DEF Finish

\* A cancelled turn ends after its tail.
LEMMA CancelTailSentEffect ==
  ASSUME DataOK, NEW t \in Turns, CancelTailSent(t)
  PROVE  DataOK' /\ TaskEffect(t)
<1> DEFINE g == [gen[t] EXCEPT !.text = @ + 1]
<1>1. /\ pc[t] = "tailsend_cancel" /\ gen' = [gen EXCEPT ![t] = g] /\ Finish(t)
      /\ Commit(t, gen[t].text + 1) /\ UNCHANGED <<cancel, followup, applies, sock, wire, asked>>
  BY DEF CancelTailSent
<1>2. /\ g \in Generation /\ g.text = gen[t].text + 1 /\ ~g.held
      /\ g.text \in 0 .. MaxChunks /\ wire[t].shown <= g.text
  BY <1>1, TailCounted DEF TokenSends
<1> HIDE DEF g
<1>3. stored' \in [Turns -> 0 .. MaxChunks]
  BY <1>1, <1>2, LocalData, CommitType
<1>4. wire[t].shown <= g.text + 1
  BY <1>2, LocalData
<1> QED
  BY <1>1, <1>2, <1>3, <1>4, EndMoves DEF Finish

\* A failed turn is answered after its tail.
LEMMA FailTailSentEffect ==
  ASSUME DataOK, NEW t \in Turns, FailTailSent(t)
  PROVE  DataOK' /\ TaskEffect(t)
<1> DEFINE g == [gen[t] EXCEPT !.text = @ + 1]
<1>1. /\ pc[t] = "tailsend_fail" /\ gen' = [gen EXCEPT ![t] = g] /\ Crash(t)
      /\ Commit(t, gen[t].text + 1) /\ UNCHANGED <<cancel, followup, applies, asked>>
  BY DEF FailTailSent
<1>2. /\ g \in Generation /\ g.text = gen[t].text + 1 /\ ~g.held
      /\ g.text \in 0 .. MaxChunks /\ wire[t].shown <= g.text
  BY <1>1, TailCounted DEF TokenSends
<1> HIDE DEF g
<1>3. /\ stored' \in [Turns -> 0 .. MaxChunks]
      /\ followup' \in BOOLEAN /\ asked' \in BOOLEAN
  BY <1>1, <1>2, LocalData, CommitType DEF TurnTypeOK
<1> QED
  BY <1>1, <1>2, <1>3, CrashMoves

\* CancelledError reaches the task: before its first step, with text in the buffer, or not.
LEMMA DeliverCancelEffect ==
  ASSUME DataOK, NEW t \in Turns, DeliverCancel(t)
  PROVE  DataOK' /\ TaskEffect(t)
<1> DEFINE g == Unwound(gen[t])
<1>1. /\ pc[t] \notin {"unborn", "done"}
      /\ \E c \in {"delivered", "swallowed"} : cancel' = [cancel EXCEPT ![t] = c]
      /\ UNCHANGED <<followup, applies, asked>>
  BY DEF DeliverCancel, Alive
<1>2. g \in Generation /\ g.text = gen[t].text /\ ~g.held
  BY LocalData, GenerationType
<1>3. CASE CancelUnstarted(t)
  <2>1. /\ pc[t] = "created" /\ pc' = [pc EXCEPT ![t] = "done"]
        /\ UNCHANGED <<req, gen, stored, sock, wire>>
    BY <1>3 DEF CancelUnstarted
  <2>2. /\ gen' = [gen EXCEPT ![t] = gen[t]] /\ gen[t] \in Generation /\ ~gen[t].held
        /\ wire[t].shown <= gen[t].text + 1 /\ stored' \in [Turns -> 0 .. MaxChunks]
    BY <2>1, LocalData DEF TurnTypeOK, TokenSends
  <2> QED
    BY <1>1, <2>1, <2>2, EndMoves
<1>4. CASE CancelWithTail(t)
  <2>1. /\ pc[t] = "stream" /\ gen[t].held /\ gen' = [gen EXCEPT ![t] = g]
        /\ \E o \in SendOutcomes :
             /\ Frame(t, "token", o)
             /\ IF Through(o) THEN Suspend(t, "tailsend_cancel") /\ UNCHANGED stored
                              ELSE Finish(t) /\ Commit(t, gen[t].text)
    BY <1>4 DEF CancelWithTail
  <2>2. "token" \in FrameKinds /\ "tailsend_cancel" \in SendPhases \cap TokenSends
    BY DEF FrameKinds, SendPhases, TokenSends
  <2> HIDE DEF g
  <2> QED
    BY <1>1, <1>2, <2>1, <2>2, SendOrCommitMoves
<1>5. CASE CancelAtAwait(t)
  <2> DEFINE h == IF pc[t] = "stream" THEN g ELSE gen[t]
  <2>1. /\ gen' = [gen EXCEPT ![t] = h] /\ Finish(t) /\ Commit(t, gen[t].text)
        /\ UNCHANGED <<sock, wire>>
    BY <1>5, LocalData DEF CancelAtAwait
  <2>2. h \in Generation /\ h.text = gen[t].text /\ ~h.held
    BY <1>2, LocalData
  <2> HIDE DEF h, g
  <2>3. stored' \in [Turns -> 0 .. MaxChunks] /\ wire[t].shown <= h.text + 1
    BY <2>1, <2>2, LocalData, CommitType
  <2> QED
    BY <1>1, <2>1, <2>2, <2>3, EndMoves DEF Finish
<1> QED
  BY <1>3, <1>4, <1>5 DEF DeliverCancel

\* Every step of a task keeps the data's invariants and has the effect of a task.
LEMMA TaskStepEffect ==
  ASSUME DataOK, NEW t \in Turns, TaskStep(t)
  PROVE  DataOK' /\ TaskEffect(t)
BY BeginTurnEffect, ToolAnswersEffect, ToolTimesOutEffect, ToolFailsEffect, ToolSentEffect,
   EmitTokenEffect, BufferDeltaEffect, TokenSentEffect, EngineEndsEffect,
   CooperativeCancelEffect, FinishStreamEffect, FinalSentEffect, DoneSentEffect,
   ErrorSentEffect, EngineFailsEffect, ChatTimesOutEffect, ChatTimesOutInSendEffect,
   FailTailSentEffect, DeliverCancelEffect, CancelTailSentEffect, SwallowCancelEffect
DEF TaskStep

\* What becomes of the generation of a turn that is over: its generators are closed, or the
\* engine completes it.
AfterTurn(t) == GeneratorFinalized(t) \/ StrayGenerationEnds(t)

\* Nothing but that generation changes, and only its engine's side.
LEMMA AfterTurnEffect ==
  ASSUME DataOK, NEW t \in Turns, AfterTurn(t)
  PROVE  /\ DataOK' /\ UNCHANGED <<req, pc, cancel, stored, followup, applies, sock, wire, asked>>
         /\ \A u \in Turns : gen'[u].text = gen[u].text /\ gen'[u].held = gen[u].held
         /\ \A u \in Turns \ {t} : gen'[u] = gen[u]
<1> DEFINE h == [gen[t] EXCEPT !.engine = "finished"]
<1>1. gen[t] \in Generation /\ ~gen[t].held
  BY LocalData DEF AfterTurn, GeneratorFinalized, StrayGenerationEnds
<1>2. h \in Generation /\ h.text = gen[t].text /\ ~h.held
  BY <1>1 DEF Generation
<1>3. PICK g \in {h, Unwound(gen[t])} : gen' = [gen EXCEPT ![t] = g]
  BY DEF AfterTurn, GeneratorFinalized, StrayGenerationEnds
<1>4. UNCHANGED <<req, pc, cancel, stored, followup, applies, sock, wire, asked>>
  BY DEF AfterTurn, GeneratorFinalized, StrayGenerationEnds
<1> HIDE DEF h
<1>5. g \in Generation /\ g.text = gen[t].text /\ ~g.held
  BY <1>1, <1>2, <1>3, GenerationType
<1>6. /\ gen' \in [Turns -> Generation] /\ gen'[t] = g
      /\ \A u \in Turns \ {t} : gen'[u] = gen[u]
  BY <1>3, <1>5, GenerationUpdate DEF DataOK
<1>7. \A u \in Turns : gen'[u].text = gen[u].text /\ gen'[u].held = gen[u].held
  <2>1. gen'[t].text = gen[t].text /\ gen'[t].held = gen[t].held
    BY <1>1, <1>5, <1>6 DEF Generation
  <2> QED
    BY <1>6, <2>1
<1>8. TurnTypeOK'
  BY <1>4, <1>6 DEF DataOK, TurnTypeOK
<1>9. Counts'
  BY <1>4, <1>7 DEF DataOK, Counts
<1> QED
  BY <1>4, <1>6, <1>7, <1>8, <1>9 DEF DataOK

-----------------------------------------------------------------------------
(* What holds of one turn at each of its awaits *)

\* The awaits before the chat stream.
BeforeStream == {"unborn", "created", "tool", "toolsend_yes", "toolsend_no"}

\* The text counts the token frames that were sent, chat history has it once the turn is
\* over, and the frames that end a turn come after its stream.
Recorded(t) ==
  /\ stored[t] <= gen[t].text
  /\ pc[t] \in BeforeStream \cup {"stream", "tokensend"} =>
       wire[t].last \notin {"final", "done", "error"}
  /\ pc[t] \in BeforeStream => gen[t].text = 0
  /\ pc[t] \in {"errsend", "done"} => stored[t] = gen[t].text
  /\ wire[t].last = "done" => pc[t] \in {"donesend", "done"} /\ wire[t].shown <= gen[t].text
  /\ sock = "open" =>
       gen[t].text + (IF pc[t] \in TokenSends THEN 1 ELSE 0) <= wire[t].shown

\* The engine runs for a turn that waits for it.  On Python 3.12 a delivered cancellation
\* is not lost; with vLLM nothing else leaves a request running, but for a turn that was cut
\* off at a send and whose generators are still open.
Owned(t) ==
  /\ gen[t].engine = "running" => DeployChat
  /\ ~LegacyAsyncio =>
       /\ cancel[t] # "swallowed"
       /\ cancel[t] = "delivered" => pc[t] \in {"tailsend_cancel", "done"}
       /\ Vllm /\ gen[t].engine = "running" =>
            /\ cancel[t] = "none" /\ pc[t] \in {"stream", "tokensend", "done"}
            /\ gen[t].inflight /\ wire[t].last \notin {"final", "done", "error"}

\* The last frame that a client received of a turn that nobody cancelled.  Only a timeout of
\* the chat during a suspended send ends such a turn in the middle of its stream.
Ordered(t) ==
  sock = "open" /\ cancel[t] = "none" =>
    /\ pc[t] \in {"unborn", "created", "tool"} => wire[t].last = "none"
    /\ pc[t] \in {"toolsend_yes", "toolsend_no"} => wire[t].last = "tool"
    /\ pc[t] = "stream" => \/ wire[t].last = "token"
                           \/ gen[t].text = 0 /\ wire[t].last \in {"none", "tool"}
    /\ pc[t] \in {"tokensend", "tailsend_fail"} => wire[t].last = "token"
    /\ pc[t] # "tailsend_cancel"
    /\ pc[t] = "finalsend" => wire[t].last = "final"
    /\ pc[t] = "donesend" => wire[t].last = "done"
    /\ pc[t] = "errsend" => wire[t].last = "error"
    /\ pc[t] = "done" => \/ wire[t].last \in {"done", "error"}
                         \/ SendsSuspend /\ DeployChat /\ wire[t].last = "token"

\* The three together, which every step of the task keeps.
Stage(t) == Recorded(t) /\ Owned(t) /\ Ordered(t)

\* What a frame does, by the state of the socket.
LEMMA FrameSeen ==
  ASSUME TurnTypeOK, NEW t \in Turns, NEW kind, NEW o \in SendOutcomes, Frame(t, kind, o)
  PROVE  /\ sock = "open" =>
              /\ o = "sent" /\ sock' = "open" /\ wire'[t].last = kind
              /\ wire'[t].shown = IF kind = "token" THEN wire[t].shown + 1 ELSE wire[t].shown
         /\ sock # "open" =>
              o \in {"lost", "dropped", "raised"} /\ sock' # "open" /\ wire' = wire
BY DEF TurnTypeOK, SendOutcomes, Frame, SockAfter

\* What DataOK and Stage say of the numbers of one turn.
LEMMA Numbers ==
  ASSUME DataOK, NEW t \in Turns
  PROVE  /\ gen[t].text \in Nat /\ stored[t] \in Nat /\ wire[t].shown \in Nat
         /\ gen[t] \in Generation
         /\ pc[t] \notin TokenSends \cup {"done"} => wire[t].shown <= gen[t].text
         /\ wire[t].shown <= gen[t].text + 1
BY LocalData, TurnConstants

\* The socket's part of a step in which t sends a frame and goes on to a phase or ends.
Sends(t, kind, phase) ==
  /\ sock = "open" =>
       /\ sock' = "open" /\ pc'[t] = phase /\ wire'[t].last = kind
       /\ wire'[t].shown = IF kind = "token" THEN wire[t].shown + 1 ELSE wire[t].shown
  /\ sock # "open" => sock' # "open" /\ wire'[t] = wire[t] /\ pc'[t] \in {phase, "done"}

\* A frame after which the task suspends, at the latest when the client received it.
LEMMA SendsFrame ==
  ASSUME TurnTypeOK, NEW t \in Turns, NEW kind, NEW phase \in Phases, NEW o \in SendOutcomes,
         Frame(t, kind, o), o = "sent" => Suspend(t, phase), Suspend(t, phase) \/ Finish(t)
  PROVE  Sends(t, kind, phase)
<1>1. pc' = [pc EXCEPT ![t] = phase] \/ pc' = [pc EXCEPT ![t] = "done"]
  BY DEF Suspend, Finish
<1>2. o = "sent" => pc' = [pc EXCEPT ![t] = phase]
  BY DEF Suspend
<1> QED
  BY <1>1, <1>2, FrameSeen DEF Sends, TurnTypeOK

\* The same for a frame that is sent and, unless refused, awaited.
LEMMA SendsThen ==
  ASSUME TurnTypeOK, NEW t \in Turns, NEW kind, NEW phase \in Phases,
         SendThenSuspend(t, kind, phase)
  PROVE  Sends(t, kind, phase)
BY SendsFrame DEF SendThenSuspend, Through

\* A task that fails before it has text, or with its text recorded.
LEMMA FailStage ==
  ASSUME DataOK, NEW t \in Turns, Stage(t),
         pc[t] \notin {"tailsend_cancel", "donesend", "done"}, Runs(t), Crash(t),
         cancel' = cancel, pc[t] = "tailsend_fail" => gen'[t].text = gen[t].text + 1,
         pc[t] # "tailsend_fail" => gen'[t].text = gen[t].text /\ pc[t] \notin TokenSends,
         stored'[t] = gen'[t].text,
         gen'[t].engine = "running" =>
            gen[t].engine = "running" /\ (~Vllm \/ pc[t] \notin {"stream", "tokensend"})
  PROVE  Stage(t)'
<1>1. Sends(t, "error", "errsend")
  BY SendsThen DEF Crash, DataOK, Phases, SendPhases
<1>2. Recorded(t)'
  BY <1>1, Numbers DEF Sends, Stage, Recorded, BeforeStream, TokenSends
<1>3. Owned(t)'
  BY <1>1 DEF Sends, Stage, Owned
<1>4. Ordered(t)'
  BY <1>1 DEF Sends, Stage, Ordered
<1> QED
  BY <1>2, <1>3, <1>4 DEF Stage

\* The classification fails the turn.
LEMMA ToolFailsStage ==
  ASSUME DataOK, NEW t \in Turns, Stage(t), ToolFails(t)
  PROVE  Stage(t)'
<1>1. stored[t] = gen[t].text
  BY Numbers DEF ToolFails, Stage, Recorded, BeforeStream
<1> QED
  BY <1>1, FailStage DEF ToolFails, TokenSends

\* A tool frame is the first frame of its turn, or the turn was cancelled.
LEMMA SendToolStage ==
  ASSUME DataOK, NEW t \in Turns, Stage(t), pc[t] = "tool", NEW isTool \in BOOLEAN,
         SendTool(t, isTool), UNCHANGED <<gen, stored>>,
         \/ cancel' = cancel /\ Runs(t)
         \/ LegacyAsyncio /\ cancel' = [cancel EXCEPT ![t] = "swallowed"]
  PROVE  Stage(t)'
<1>1. \E phase \in {"toolsend_yes", "toolsend_no"} : Sends(t, "tool", phase)
  BY SendsFrame DEF SendTool, DataOK, Phases, SendPhases
<1>2. cancel'[t] = cancel[t] \/ (LegacyAsyncio /\ cancel'[t] = "swallowed")
  BY LocalData DEF TurnTypeOK
<1>3. Recorded(t)'
  BY <1>1, Numbers DEF Sends, Stage, Recorded, BeforeStream, TokenSends
<1>4. Owned(t)'
  BY <1>1, <1>2 DEF Sends, Stage, Owned
<1>5. Ordered(t)'
  BY <1>1, <1>2 DEF Sends, Stage, Ordered
<1> QED
  BY <1>3, <1>4, <1>5 DEF Stage

\* The chat engine starts for a turn that was not cancelled, or the prompt does not fit.
LEMMA ChatStartsStage ==
  ASSUME DataOK, NEW t \in Turns, Stage(t),
         pc[t] \in {"created", "toolsend_yes", "toolsend_no"}, Runs(t), DeployChat, StartChat(t),
         UNCHANGED <<cancel, stored>>
  PROVE  Stage(t)'
<1>1. CASE /\ gen' = [gen EXCEPT ![t] = [@ EXCEPT !.engine = "running", !.inflight = TRUE]]
           /\ Suspend(t, "stream")
           /\ UNCHANGED <<sock, wire>>
  <2>1. /\ pc'[t] = "stream" /\ gen'[t].text = gen[t].text
        /\ gen'[t].engine = "running" /\ gen'[t].inflight
    BY <1>1, LocalData DEF Suspend, TurnTypeOK, Generation
  <2>2. cancel[t] \in {"none", "delivered", "swallowed"}
    BY LocalData DEF Runs, TurnTypeOK
  <2>3. Recorded(t)'
    BY <1>1, <2>1, Numbers DEF Stage, Recorded, BeforeStream, TokenSends
  <2>4. Owned(t)'
    BY <1>1, <2>1, <2>2 DEF Stage, Owned, Recorded, BeforeStream
  <2>5. Ordered(t)'
    BY <1>1, <2>1 DEF Stage, Ordered, Recorded, BeforeStream
  <2> QED
    BY <2>3, <2>4, <2>5 DEF Stage
<1>2. CASE SendThenSuspend(t, "error", "errsend") /\ UNCHANGED gen
  <2>1. stored[t] = gen[t].text
    BY Numbers DEF Stage, Recorded, BeforeStream
  <2> QED
    BY <1>2, <2>1, FailStage DEF Crash, TokenSends
<1> QED
  BY <1>1, <1>2 DEF StartChat

\* The first step of a turn.
LEMMA BeginTurnStage ==
  ASSUME DataOK, NEW t \in Turns, Stage(t), BeginTurn(t)
  PROVE  Stage(t)'
<1>1. pc[t] = "created" /\ Runs(t) /\ UNCHANGED <<cancel, stored>>
  BY DEF BeginTurn
<1>2. CASE DeployTool
  <2>1. pc'[t] = "tool" /\ UNCHANGED <<gen, sock, wire>>
    BY <1>2, LocalData DEF BeginTurn, Suspend, TurnTypeOK
  <2> QED
    BY <1>1, <2>1 DEF Stage, Recorded, BeforeStream, Owned, Ordered, TokenSends
<1>3. CASE ~DeployTool
  BY <1>1, <1>3, ChatStartsStage, TurnConstants DEF BeginTurn
<1> QED
  BY <1>2, <1>3

\* After the tool frame: the chat stream, or the final frame.
LEMMA ToolSentStage ==
  ASSUME DataOK, NEW t \in Turns, Stage(t), ToolSent(t)
  PROVE  Stage(t)'
<1>1. pc[t] \in {"toolsend_yes", "toolsend_no"} /\ Runs(t) /\ UNCHANGED <<cancel, stored>>
  BY DEF ToolSent
<1>2. CASE DeployChat
  BY <1>1, <1>2, ChatStartsStage DEF ToolSent
<1>3. CASE ~DeployChat
  <2>1. Sends(t, "final", "finalsend") /\ UNCHANGED gen
    BY <1>3, SendsFrame DEF ToolSent, DataOK, Phases, SendPhases
  <2>2. Recorded(t)'
    BY <1>1, <2>1, Numbers DEF Sends, Stage, Recorded, BeforeStream, TokenSends
  <2>3. Owned(t)'
    BY <1>1, <2>1 DEF Sends, Stage, Owned
  <2>4. Ordered(t)'
    BY <1>1, <2>1 DEF Sends, Stage, Ordered
  <2> QED
    BY <2>2, <2>3, <2>4 DEF Stage
<1> QED
  BY <1>2, <1>3

\* The classification times out.
LEMMA ToolTimesOutStage ==
  ASSUME DataOK, NEW t \in Turns, Stage(t), ToolTimesOut(t)
  PROVE  Stage(t)'
<1>1. CASE SendTool(t, FALSE)
  BY <1>1, SendToolStage DEF ToolTimesOut
<1>2. CASE Crash(t)
  <2>1. stored[t] = gen[t].text
    BY Numbers DEF ToolTimesOut, Stage, Recorded, BeforeStream
  <2> QED
    BY <1>2, <2>1, FailStage DEF ToolTimesOut, TokenSends
<1> QED
  BY <1>1, <1>2 DEF ToolTimesOut

\* Unwinding or aborting does not start a generation; with vLLM it ends it.
LEMMA EngineStops ==
  ASSUME NEW g \in Generation
  PROVE  /\ Unwound(g).engine = "running" => g.engine = "running" /\ ~Vllm
         /\ EngineAborted(g).engine = "running" => g.engine = "running" /\ ~Vllm
BY DEF Generation, Unwound, EngineAborted

\* A task ends, its text recorded.
LEMMA EndedRecorded ==
  ASSUME DataOK, NEW t \in Turns, Finish(t), Commit(t, gen[t].text)
  PROVE  /\ pc'[t] = "done"
         /\ stored'[t] = IF gen[t].text > 0 THEN gen[t].text ELSE stored[t]
BY LocalData DEF TurnTypeOK, Finish, Commit

\* A token frame, or the end of the turn with the text sent before recorded.
LEMMA EmitTokenStage ==
  ASSUME DataOK, NEW t \in Turns, Stage(t), EmitToken(t)
  PROVE  Stage(t)'
<1>1. PICK o \in SendOutcomes :
        /\ Frame(t, "token", o)
        /\ IF Through(o) THEN Suspend(t, "tokensend") /\ UNCHANGED stored
                         ELSE Finish(t) /\ Commit(t, gen[t].text)
  BY DEF EmitToken
<1>2. Sends(t, "token", "tokensend") /\ pc[t] = "stream" /\ cancel' = cancel /\ Runs(t)
  BY <1>1, SendsFrame DEF EmitToken, DataOK, Phases, SendPhases, Through
<1>3. /\ gen'[t].text = gen[t].text /\ gen'[t].engine = gen[t].engine
      /\ gen'[t].inflight = gen[t].inflight
  BY LocalData DEF EmitToken, TurnTypeOK, Generation
<1>4. /\ pc'[t] = "tokensend" => stored'[t] = stored[t]
      /\ pc'[t] = "done" => stored'[t] = IF gen[t].text > 0 THEN gen[t].text ELSE stored[t]
  <2>1. CASE Through(o)
    BY <1>1, <2>1, LocalData DEF Suspend, TurnTypeOK
  <2>2. CASE ~Through(o)
    BY <1>1, <2>2, EndedRecorded
  <2> QED
    BY <2>1, <2>2
<1>5. Recorded(t)'
  BY <1>2, <1>3, <1>4, Numbers DEF Sends, Stage, Recorded, BeforeStream, TokenSends
<1>6. Owned(t)'
  BY <1>2, <1>3 DEF Sends, Stage, Owned, Recorded
<1>7. Ordered(t)'
  BY <1>2, <1>3 DEF Sends, Stage, Ordered
<1> QED
  BY <1>5, <1>6, <1>7 DEF Stage

\* Steps of the stream that send nothing.
LEMMA StreamStage ==
  ASSUME DataOK, NEW t \in Turns, Stage(t), pc[t] = "stream", NEW g \in Generation,
         gen' = [gen EXCEPT ![t] = g], g.text = gen[t].text,
         g.engine = "running" =>
            gen[t].engine = "running" /\ (Vllm => g.inflight = gen[t].inflight),
         UNCHANGED <<pc, cancel, stored, sock, wire>>
  PROVE  Stage(t)'
<1>1. gen'[t] = g
  BY LocalData DEF TurnTypeOK
<1> QED
  BY <1>1, Numbers DEF Stage, Recorded, BeforeStream, Owned, Ordered, TokenSends

\* An output of the engine stays in the buffer.
LEMMA BufferDeltaStage ==
  ASSUME DataOK, NEW t \in Turns, Stage(t), BufferDelta(t)
  PROVE  Stage(t)'
<1> DEFINE g == [gen[t] EXCEPT !.held = TRUE]
<1>1. /\ g \in Generation /\ g.text = gen[t].text /\ g.engine = gen[t].engine
      /\ g.inflight = gen[t].inflight
  BY LocalData DEF Generation
<1>2. gen' = [gen EXCEPT ![t] = g] /\ pc[t] = "stream"
  BY DEF BufferDelta
<1> HIDE DEF g
<1> QED
  BY <1>1, <1>2, StreamStage DEF BufferDelta

\* The engine's last output.
LEMMA EngineEndsStage ==
  ASSUME DataOK, NEW t \in Turns, Stage(t), EngineEnds(t)
  PROVE  Stage(t)'
<1> DEFINE g == [gen[t] EXCEPT !.engine = "finished", !.inflight = FALSE]
<1>1. g \in Generation /\ g.text = gen[t].text /\ g.engine # "running"
  BY LocalData DEF Generation
<1>2. gen' = [gen EXCEPT ![t] = g] /\ pc[t] = "stream"
  BY DEF EngineEnds
<1> HIDE DEF g
<1> QED
  BY <1>1, <1>2, StreamStage DEF EngineEnds

\* The stream ends as cancelled.
LEMMA CooperativeCancelStage ==
  ASSUME DataOK, NEW t \in Turns, Stage(t), CooperativeCancel(t)
  PROVE  Stage(t)'
<1> DEFINE g == [EngineAborted(gen[t]) EXCEPT !.held = FALSE]
<1>1. EngineAborted(gen[t]) \in Generation /\ EngineAborted(gen[t]).text = gen[t].text
  BY LocalData, GenerationType
<1>2. g \in Generation /\ g.text = gen[t].text /\ g.engine = EngineAborted(gen[t]).engine
  BY <1>1 DEF Generation
<1>3. g.engine = "running" => gen[t].engine = "running" /\ ~Vllm
  BY <1>2, LocalData, EngineStops
<1>4. gen' = [gen EXCEPT ![t] = g] /\ pc[t] = "stream"
  BY DEF CooperativeCancel
<1> HIDE DEF g
<1> QED
  BY <1>2, <1>3, <1>4, StreamStage DEF CooperativeCancel

\* The chunk that was sent counts.
LEMMA TokenSentStage ==
  ASSUME DataOK, NEW t \in Turns, Stage(t), TokenSent(t)
  PROVE  Stage(t)'
<1>1. /\ pc[t] = "tokensend" /\ pc'[t] = "stream" /\ UNCHANGED <<cancel, stored, sock, wire>>
      /\ gen'[t].text = gen[t].text + 1 /\ gen'[t].engine = gen[t].engine
      /\ gen'[t].inflight = gen[t].inflight
  BY LocalData DEF TokenSent, Suspend, TurnTypeOK, Generation
<1>2. Recorded(t)'
  BY <1>1, Numbers DEF Stage, Recorded, BeforeStream, TokenSends
<1>3. Owned(t)'
  BY <1>1 DEF Stage, Owned
<1>4. Ordered(t)'
  BY <1>1 DEF Stage, Ordered
<1> QED
  BY <1>2, <1>3, <1>4 DEF Stage

\* The stream is exhausted: an error frame without text, a final frame with it.
LEMMA FinishStreamStage ==
  ASSUME DataOK, NEW t \in Turns, Stage(t), FinishStream(t)
  PROVE  Stage(t)'
<1>1. /\ pc[t] = "stream" /\ gen[t].engine # "running" /\ Runs(t)
      /\ UNCHANGED <<cancel, gen>>
  BY DEF FinishStream
<1>2. CASE gen[t].text = 0
  <2>1. SendThenSuspend(t, "error", "errsend") /\ stored'[t] = gen'[t].text
    BY <1>1, <1>2, Numbers DEF FinishStream, Stage, Recorded
  <2> QED
    BY <1>1, <2>1, FailStage DEF Crash, TokenSends
<1>3. CASE gen[t].text # 0
  <2>1. Sends(t, "final", "finalsend")
    BY <1>3, SendsFrame DEF FinishStream, DataOK, Phases, SendPhases, Through
  <2>2. /\ pc'[t] = "finalsend" => stored'[t] = stored[t]
        /\ pc'[t] = "done" => stored'[t] = gen[t].text
    BY <1>3, Numbers, LocalData DEF FinishStream, TurnTypeOK, Suspend, Finish, Commit, Through
  <2>3. Recorded(t)'
    BY <1>1, <2>1, <2>2, Numbers DEF Sends, Stage, Recorded, BeforeStream, TokenSends
  <2>4. Owned(t)'
    BY <1>1, <2>1 DEF Sends, Stage, Owned
  <2>5. Ordered(t)'
    BY <1>1, <2>1 DEF Sends, Stage, Ordered
  <2> QED
    BY <2>3, <2>4, <2>5 DEF Stage
<1> QED
  BY <1>2, <1>3

\* The done frame, or the end of the turn with its text recorded.
LEMMA FinalSentStage ==
  ASSUME DataOK, NEW t \in Turns, Stage(t), FinalSent(t)
  PROVE  Stage(t)'
<1>1. /\ pc[t] = "finalsend" /\ Runs(t) /\ UNCHANGED <<cancel, gen>>
  BY DEF FinalSent
<1>2. Sends(t, "done", "donesend")
  BY SendsFrame DEF FinalSent, DataOK, Phases, SendPhases, Through
<1>3. /\ pc'[t] = "donesend" => stored'[t] = stored[t]
      /\ pc'[t] = "done" => stored'[t] = IF gen[t].text > 0 THEN gen[t].text ELSE stored[t]
  BY Numbers, LocalData DEF FinalSent, TurnTypeOK, Suspend, Finish, Commit, Through
<1>4. Recorded(t)'
  BY <1>1, <1>2, <1>3, Numbers DEF Sends, Stage, Recorded, BeforeStream, TokenSends
<1>5. Owned(t)'
  BY <1>1, <1>2 DEF Sends, Stage, Owned
<1>6. Ordered(t)'
  BY <1>1, <1>2 DEF Sends, Stage, Ordered
<1> QED
  BY <1>4, <1>5, <1>6 DEF Stage

\* The turn that sent its done frame ends with its text recorded.
LEMMA DoneSentStage ==
  ASSUME DataOK, NEW t \in Turns, Stage(t), DoneSent(t)
  PROVE  Stage(t)'
<1>1. /\ pc[t] = "donesend" /\ pc'[t] = "done" /\ UNCHANGED <<cancel, gen, sock, wire>>
      /\ stored'[t] = IF gen[t].text > 0 THEN gen[t].text ELSE stored[t]
  BY LocalData DEF TurnTypeOK, DoneSent, Finish, Commit
<1> QED
  BY <1>1, Numbers DEF Stage, Recorded, BeforeStream, Owned, Ordered, TokenSends

\* The turn that sent its error frame ends; its text was recorded before.
LEMMA ErrorSentStage ==
  ASSUME DataOK, NEW t \in Turns, Stage(t), ErrorSent(t)
  PROVE  Stage(t)'
<1>1. /\ pc[t] = "errsend" /\ pc'[t] = "done" /\ UNCHANGED <<cancel, gen, stored, sock, wire>>
  BY LocalData DEF TurnTypeOK, ErrorSent, Finish
<1> QED
  BY <1>1, Numbers DEF Stage, Recorded, BeforeStream, Owned, Ordered, TokenSends

\* An exception unwinds the stream: its text is recorded before the error frame is sent.
LEMMA StreamRaisesStage ==
  ASSUME DataOK, NEW t \in Turns, Stage(t), pc[t] = "stream", Runs(t), NEW h \in Generation,
         h.text = gen[t].text, h.engine = "running" => gen[t].engine = "running" /\ ~Vllm,
         StreamRaises(t, h), cancel' = cancel
  PROVE  Stage(t)'
<1> DEFINE g == [h EXCEPT !.held = FALSE]
<1>1. g.text = gen[t].text /\ g.engine = h.engine
  BY DEF Generation
<1>2. gen'[t] = g
  BY LocalData DEF StreamRaises, TurnTypeOK
<1> HIDE DEF g
<1>3. CASE gen[t].held
  <2>1. Sends(t, "token", "tailsend_fail")
    BY <1>3, SendsFrame DEF StreamRaises, DataOK, Phases, SendPhases, Through
  <2>2. /\ pc'[t] = "tailsend_fail" => stored'[t] = stored[t]
        /\ pc'[t] = "done" => stored'[t] = IF gen[t].text > 0 THEN gen[t].text ELSE stored[t]
    BY <1>3, LocalData DEF StreamRaises, TurnTypeOK, Suspend, Finish, Commit, Through
  <2>3. Recorded(t)'
    BY <1>1, <1>2, <2>1, <2>2, Numbers DEF Sends, Stage, Recorded, BeforeStream, TokenSends
  <2>4. Owned(t)'
    BY <1>1, <1>2, <2>1 DEF Sends, Stage, Owned
  <2>5. Ordered(t)'
    BY <1>1, <1>2, <2>1 DEF Sends, Stage, Ordered
  <2> QED
    BY <2>3, <2>4, <2>5 DEF Stage
<1>4. CASE ~gen[t].held
  <2>1. Commit(t, gen[t].text) /\ Crash(t)
    BY <1>4 DEF StreamRaises
  <2>2. stored'[t] = gen[t].text
    BY <2>1, LocalData, Numbers DEF Commit, TurnTypeOK, Stage, Recorded
  <2> QED
    BY <1>1, <1>2, <2>1, <2>2, FailStage DEF TokenSends
<1> QED
  BY <1>3, <1>4

\* The engine's exception.
LEMMA EngineFailsStage ==
  ASSUME DataOK, NEW t \in Turns, Stage(t), EngineFails(t)
  PROVE  Stage(t)'
<1> DEFINE h == [gen[t] EXCEPT !.engine = "finished", !.inflight = FALSE]
<1>1. h \in Generation /\ h.text = gen[t].text /\ h.engine # "running"
  BY LocalData DEF Generation
<1>2. pc[t] = "stream" /\ Runs(t) /\ StreamRaises(t, h) /\ cancel' = cancel
  BY DEF EngineFails
<1> HIDE DEF h
<1> QED
  BY <1>1, <1>2, StreamRaisesStage

\* The timeout of the chat stream.
LEMMA ChatTimesOutStage ==
  ASSUME DataOK, NEW t \in Turns, Stage(t), ChatTimesOut(t)
  PROVE  Stage(t)'
<1> DEFINE h == EngineAborted(Unwound(gen[t]))
<1>1. Unwound(gen[t]) \in Generation /\ Unwound(gen[t]).text = gen[t].text
  BY LocalData, GenerationType
<1>2. h \in Generation /\ h.text = gen[t].text
  BY <1>1, GenerationType
<1>3. h.engine = "running" => gen[t].engine = "running" /\ ~Vllm
  BY <1>1, LocalData, EngineStops
<1>4. pc[t] = "stream" /\ Runs(t) /\ StreamRaises(t, h) /\ cancel' = cancel
  BY DEF ChatTimesOut
<1> HIDE DEF h
<1> QED
  BY <1>2, <1>3, <1>4, StreamRaisesStage

\* The same timeout during a send: the one way a turn ends after a token frame.
LEMMA ChatTimesOutInSendStage ==
  ASSUME DataOK, NEW t \in Turns, Stage(t), ChatTimesOutInSend(t)
  PROVE  Stage(t)'
<1>1. /\ pc[t] = "tokensend" /\ gen[t].engine = "running" /\ SendsSuspend /\ Runs(t)
      /\ UNCHANGED <<cancel, sock, wire>>
      /\ gen' = gen /\ Finish(t) /\ Commit(t, gen[t].text)
  BY DEF ChatTimesOutInSend
<1>2. pc'[t] = "done" /\ stored'[t] = IF gen[t].text > 0 THEN gen[t].text ELSE stored[t]
  BY <1>1, EndedRecorded
<1>3. Recorded(t)'
  BY <1>1, <1>2, Numbers DEF Stage, Recorded, BeforeStream, TokenSends
<1>4. Owned(t)'
  BY <1>1, <1>2 DEF Stage, Owned
<1>5. Ordered(t)'
  BY <1>1, <1>2 DEF Stage, Owned, Ordered
<1> QED
  BY <1>3, <1>4, <1>5 DEF Stage

\* A failed turn records its tail, too.
LEMMA FailTailSentStage ==
  ASSUME DataOK, NEW t \in Turns, Stage(t), FailTailSent(t)
  PROVE  Stage(t)'
<1>1. pc[t] = "tailsend_fail" /\ Runs(t) /\ Crash(t) /\ cancel' = cancel
  BY DEF FailTailSent
<1>2. /\ gen'[t].text = gen[t].text + 1 /\ gen'[t].engine = gen[t].engine
      /\ stored'[t] = gen[t].text + 1
  BY LocalData, Numbers DEF FailTailSent, Commit, TurnTypeOK, Generation
<1> QED
  BY <1>1, <1>2, FailStage DEF TokenSends

\* So does a cancelled one.
LEMMA CancelTailSentStage ==
  ASSUME DataOK, NEW t \in Turns, Stage(t), CancelTailSent(t)
  PROVE  Stage(t)'
<1>1. /\ pc[t] = "tailsend_cancel" /\ pc'[t] = "done" /\ UNCHANGED <<cancel, sock, wire>>
      /\ gen'[t].text = gen[t].text + 1 /\ gen'[t].engine = gen[t].engine
      /\ stored'[t] = gen[t].text + 1
  BY LocalData, Numbers DEF CancelTailSent, Finish, Commit, TurnTypeOK, Generation
<1>2. Recorded(t)'
  BY <1>1, Numbers DEF Stage, Recorded, BeforeStream, TokenSends
<1>3. Owned(t)'
  BY <1>1 DEF Stage, Owned
<1>4. Ordered(t)'
  BY <1>1 DEF Stage, Ordered
<1> QED
  BY <1>2, <1>3, <1>4 DEF Stage

\* CancelledError reaches the task, which records what it has sent.
LEMMA DeliverCancelStage ==
  ASSUME DataOK, NEW t \in Turns, Stage(t), DeliverCancel(t)
  PROVE  Stage(t)'
<1>1. cancel[t] = "pending" /\ cancel'[t] = "delivered" /\ Alive(t)
  BY LocalData DEF DeliverCancel, TurnTypeOK
<1>2. CASE CancelUnstarted(t)
  <2>1. pc[t] = "created" /\ pc'[t] = "done" /\ UNCHANGED <<gen, stored, sock, wire>>
    BY <1>2, LocalData DEF CancelUnstarted, TurnTypeOK
  <2> QED
    BY <1>1, <2>1, Numbers DEF Stage, Recorded, BeforeStream, Owned, Ordered, TokenSends
<1>3. CASE CancelWithTail(t)
  <2>1. pc[t] = "stream" /\ Sends(t, "token", "tailsend_cancel")
    BY <1>3, SendsFrame DEF CancelWithTail, DataOK, Phases, SendPhases, Through
  <2>2. gen'[t] = Unwound(gen[t])
    BY <1>3, LocalData DEF CancelWithTail, TurnTypeOK
  <2>3. /\ gen'[t].text = gen[t].text
        /\ gen'[t].engine = "running" => gen[t].engine = "running" /\ ~Vllm
    BY <2>2, LocalData, GenerationType, EngineStops
  <2>4. /\ pc'[t] = "tailsend_cancel" => stored'[t] = stored[t]
        /\ pc'[t] = "done" => stored'[t] = IF gen[t].text > 0 THEN gen[t].text ELSE stored[t]
    BY <1>3, LocalData DEF CancelWithTail, TurnTypeOK, Suspend, Finish, Commit, Through
  <2>5. Recorded(t)'
    BY <2>1, <2>3, <2>4, Numbers DEF Sends, Stage, Recorded, BeforeStream, TokenSends
  <2>6. Owned(t)' /\ Ordered(t)'
    BY <1>1, <2>1, <2>3 DEF Sends, Stage, Owned, Ordered
  <2> QED
    BY <2>5, <2>6 DEF Stage
<1>4. CASE CancelAtAwait(t)
  <2>1. Finish(t) /\ Commit(t, gen[t].text) /\ UNCHANGED <<sock, wire>>
    BY <1>4 DEF CancelAtAwait
  <2>2. gen'[t] = gen[t] \/ gen'[t] = Unwound(gen[t])
    BY <1>4, LocalData DEF CancelAtAwait, TurnTypeOK
  <2>3. gen'[t].text = gen[t].text /\ (gen'[t].engine = "running" => gen[t].engine = "running")
    BY <2>2, LocalData, GenerationType, EngineStops
  <2>4. pc'[t] = "done" /\ stored'[t] = IF gen[t].text > 0 THEN gen[t].text ELSE stored[t]
    BY <2>1, EndedRecorded
  <2>5. Recorded(t)'
    BY <1>1, <2>1, <2>3, <2>4, Numbers DEF Stage, Recorded, BeforeStream, TokenSends, Alive
  <2>6. Owned(t)' /\ Ordered(t)'
    BY <1>1, <2>1, <2>3, <2>4 DEF Stage, Owned, Ordered
  <2> QED
    BY <2>5, <2>6 DEF Stage
<1> QED
  BY <1>2, <1>3, <1>4 DEF DeliverCancel

\* Every step of a task leads to a stage of its turn.
LEMMA TaskStepStage ==
  ASSUME DataOK, NEW t \in Turns, Stage(t), TaskStep(t)
  PROVE  Stage(t)'
<1>1. ToolAnswers(t) \/ SwallowCancel(t) => Stage(t)'
  BY SendToolStage DEF ToolAnswers, SwallowCancel
<1> QED
  BY <1>1, BeginTurnStage, ToolTimesOutStage, ToolFailsStage, ToolSentStage, EmitTokenStage,
     BufferDeltaStage, TokenSentStage, EngineEndsStage, CooperativeCancelStage,
     FinishStreamStage, FinalSentStage, DoneSentStage, ErrorSentStage, EngineFailsStage,
     ChatTimesOutStage, ChatTimesOutInSendStage, FailTailSentStage, DeliverCancelStage,
     CancelTailSentStage
  DEF TaskStep

\* Closing the generators of a turn that is over stops vLLM's engine.
LEMMA AfterTurnStage ==
  ASSUME DataOK, NEW t \in Turns, Stage(t), AfterTurn(t)
  PROVE  Stage(t)'
<1>1. /\ gen'[t].text = gen[t].text
      /\ UNCHANGED <<req, pc, cancel, stored, followup, applies, sock, wire, asked>>
  BY AfterTurnEffect
<1>2. gen'[t].engine = "running" => gen[t].engine = "running" /\ ~Vllm
  <2>1. CASE GeneratorFinalized(t)
    <3>1. gen'[t] = Unwound(gen[t])
      BY <2>1, LocalData DEF GeneratorFinalized, TurnTypeOK
    <3> QED
      BY <3>1, LocalData, EngineStops
  <2>2. CASE StrayGenerationEnds(t)
    BY <2>2, LocalData DEF StrayGenerationEnds, TurnTypeOK, Generation
  <2> QED
    BY <2>1, <2>2 DEF AfterTurn
<1> QED
  BY <1>1, <1>2, Numbers DEF Stage, Recorded, Owned, Ordered

\* A turn that a step leaves as it is, while the socket does not open again.
LEMMA OtherStage ==
  ASSUME NEW t \in Turns, Stage(t), pc'[t] = pc[t], cancel'[t] = cancel[t], gen'[t] = gen[t],
         stored'[t] = stored[t], wire'[t] = wire[t], sock' = "open" => sock = "open"
  PROVE  Stage(t)'
BY DEF Stage, Recorded, Owned, Ordered

-----------------------------------------------------------------------------
(* What a step shows its client, and what it leaves to the other turns *)

\* Task t sends a frame, that the client receives, from an await where that frame is due.
Shows(t, kind) ==
  /\ sock = "open"
  /\ wire' = [wire EXCEPT ![t] =
                [last |-> kind, shown |-> IF kind = "token" THEN @.shown + 1 ELSE @.shown]]
  /\ \E phase \in SendPhases : pc' = [pc EXCEPT ![t] = phase]
  /\ sock' = "open"
  /\ \/ kind = "tool" /\ pc[t] = "tool"
     \/ kind = "token" /\ pc[t] = "stream" /\ gen[t].text < MaxChunks
     \/ kind = "final" /\ pc[t] \in {"toolsend_yes", "toolsend_no"}
     \/ kind = "final" /\ pc[t] = "stream" /\ gen[t].text > 0
     \/ kind = "done" /\ pc[t] = "finalsend"
     \/ kind = "error" /\ pc[t] \in {"created", "tool", "toolsend_yes", "toolsend_no",
                                    "stream", "tailsend_fail"}

\* The client receives nothing.
ShowsNothing == wire' = wire /\ (sock' = "open" <=> sock = "open")

\* A frame that is sent from such an await.
LEMMA FrameShows ==
  ASSUME NEW t \in Turns, NEW kind, NEW o \in SendOutcomes, Frame(t, kind, o),
         NEW phase \in SendPhases, Suspend(t, phase) \/ Finish(t),
         o = "sent" => Suspend(t, phase),
     \/ kind = "tool" /\ pc[t] = "tool"
     \/ kind = "token" /\ pc[t] = "stream" /\ gen[t].text < MaxChunks
     \/ kind = "final" /\ pc[t] \in {"toolsend_yes", "toolsend_no"}
     \/ kind = "final" /\ pc[t] = "stream" /\ gen[t].text > 0
     \/ kind = "done" /\ pc[t] = "finalsend"
     \/ kind = "error" /\ pc[t] \in {"created", "tool", "toolsend_yes", "toolsend_no",
                                    "stream", "tailsend_fail"},
     TurnTypeOK
  PROVE  ShowsNothing \/ Shows(t, kind)
<1>1. CASE sock = "open"
  BY <1>1 DEF Shows, Frame, SendOutcomes, SockAfter, Suspend
<1>2. CASE sock # "open"
  BY <1>2, FrameSeen DEF ShowsNothing
<1> QED
  BY <1>1, <1>2

\* The error frame of a task that fails.
LEMMA CrashShows ==
  ASSUME TurnTypeOK, NEW t \in Turns, Crash(t),
    pc[t] \in {"created", "tool", "toolsend_yes", "toolsend_no", "stream", "tailsend_fail"}
  PROVE  ShowsNothing \/ Shows(t, "error")
<1>1. PICK o \in SendOutcomes :
    /\ Frame(t, "error", o)
    /\ IF Through(o) THEN Suspend(t, "errsend") ELSE Finish(t)
  BY DEF Crash, SendThenSuspend
<1>2. /\ "errsend" \in SendPhases /\ (o = "sent" => Suspend(t, "errsend"))
      /\ Suspend(t, "errsend") \/ Finish(t)
  BY <1>1 DEF Through, SendPhases
<1> QED
  BY <1>1, <1>2, FrameShows

\* A step sends at most one frame.
LEMMA StepShows ==
  ASSUME DataOK, NEW t \in Turns, TaskStep(t)
  PROVE  ShowsNothing \/ \E kind \in FrameKinds : Shows(t, kind)
<1> USE DEF FrameKinds, SendPhases, Through
<1>0. TurnTypeOK
  BY DEF DataOK
<1>1. CASE BufferDelta(t) \/ TokenSent(t) \/ EngineEnds(t) \/ CooperativeCancel(t)
           \/ DoneSent(t) \/ ErrorSent(t) \/ ChatTimesOutInSend(t) \/ CancelTailSent(t)
  BY <1>1 DEF BufferDelta, TokenSent, EngineEnds, CooperativeCancel, DoneSent, ErrorSent,
     ChatTimesOutInSend, CancelTailSent, ShowsNothing
<1>2. CASE ToolFails(t) \/ FailTailSent(t)
  BY <1>0, <1>2, CrashShows DEF ToolFails, FailTailSent
<1>3. ASSUME NEW isTool \in BOOLEAN, SendTool(t, isTool), pc[t] = "tool"
      PROVE ShowsNothing \/ Shows(t, "tool")
  BY <1>0, <1>3, FrameShows DEF SendTool
<1>4. CASE ToolAnswers(t) \/ ToolTimesOut(t) \/ SwallowCancel(t)
  BY <1>0, <1>3, <1>4, CrashShows DEF ToolAnswers, ToolTimesOut, SwallowCancel
<1>5. ASSUME StartChat(t), pc[t] \in {"created", "toolsend_yes", "toolsend_no"}
      PROVE ShowsNothing \/ Shows(t, "error")
  BY <1>0, <1>5, CrashShows DEF StartChat, Crash, ShowsNothing
<1>6. CASE BeginTurn(t)
  BY <1>5, <1>6 DEF BeginTurn, ShowsNothing
<1>7. CASE ToolSent(t)
  <2>1. CASE DeployChat
    BY <1>5, <1>7, <2>1 DEF ToolSent
  <2>2. CASE ~DeployChat
    BY <1>0, <1>7, <2>2, FrameShows DEF ToolSent
  <2> QED BY <2>1, <2>2
<1>8. CASE EmitToken(t)
  BY <1>0, <1>8, FrameShows DEF EmitToken
<1>9. CASE FinishStream(t)
  <2>1. CASE gen[t].text = 0
    BY <1>0, <1>9, <2>1, CrashShows DEF FinishStream, Crash
  <2>2. CASE gen[t].text # 0
    <3>1. gen[t].text > 0 /\ pc[t] = "stream"
      BY <1>9, <2>2, Numbers DEF FinishStream
    <3> QED
      BY <1>0, <1>9, <2>2, <3>1, FrameShows DEF FinishStream
  <2> QED BY <2>1, <2>2
<1>10. CASE FinalSent(t)
  BY <1>0, <1>10, FrameShows DEF FinalSent
<1>11. ASSUME NEW h, StreamRaises(t, h), pc[t] = "stream"
       PROVE ShowsNothing \/ Shows(t, "token") \/ Shows(t, "error")
  <2>1. CASE gen[t].held
    BY <1>0, <1>11, <2>1, LocalData, FrameShows DEF StreamRaises
  <2>2. CASE ~gen[t].held
    BY <1>0, <1>11, <2>2, CrashShows DEF StreamRaises
  <2> QED BY <2>1, <2>2
<1>12. CASE EngineFails(t) \/ ChatTimesOut(t)
  BY <1>11, <1>12 DEF EngineFails, ChatTimesOut
<1>13. CASE DeliverCancel(t)
  <2>1. CASE CancelUnstarted(t) \/ CancelAtAwait(t)
    BY <2>1 DEF CancelUnstarted, CancelAtAwait, ShowsNothing
  <2>2. CASE CancelWithTail(t)
    BY <1>0, <2>2, LocalData, FrameShows DEF CancelWithTail
  <2> QED BY <1>13, <2>1, <2>2 DEF DeliverCancel
<1> QED
  BY <1>1, <1>2, <1>4, <1>6, <1>7, <1>8, <1>9, <1>10, <1>12, <1>13 DEF TaskStep

\* A step of t leaves the other turns as they are and does not open the socket.
LEMMA OthersKept ==
  ASSUME DataOK, NEW t \in Turns, TaskStep(t)
  PROVE  /\ sock' = "open" => sock = "open"
         /\ \A u \in Turns \ {t} :
              /\ pc'[u] = pc[u] /\ cancel'[u] = cancel[u] /\ gen'[u] = gen[u]
              /\ stored'[u] = stored[u] /\ wire'[u] = wire[u]
<1>1. TaskEffect(t) /\ TurnTypeOK
  BY TaskStepEffect DEF DataOK
<1>2. UNCHANGED stored \/ \E n : Commit(t, n)
  BY DEF TaskStep, BeginTurn, ToolAnswers, ToolTimesOut, ToolFails, ToolSent, EmitToken,
         BufferDelta, TokenSent, EngineEnds, CooperativeCancel, FinishStream, FinalSent,
         DoneSent, ErrorSent, EngineFails, ChatTimesOut, ChatTimesOutInSend, FailTailSent,
         DeliverCancel, CancelUnstarted, CancelWithTail, CancelAtAwait, CancelTailSent,
         SwallowCancel, StreamRaises
<1>3. \A u \in Turns \ {t} : stored'[u] = stored[u]
  BY <1>1, <1>2 DEF Commit, TurnTypeOK
<1>4. sock' = "open" => sock = "open"
  BY StepShows DEF Shows, ShowsNothing
<1> QED
  BY <1>1, <1>3, <1>4 DEF TaskEffect, TurnTypeOK

-----------------------------------------------------------------------------
(* The flag of the screen-checked prefix *)

\* The awaits of a turn whose plan still stands, up to its tool frame.
BeforeToolFrame == {"created", "tool"}

ToolFrameSent == {"toolsend_yes", "toolsend_no"}

\* The classification of t is answered, or refused by the socket.
Asks(t, isTool) ==
  /\ pc[t] = "tool" /\ UNCHANGED followup
  /\ sock = "open" =>
       /\ asked' = isTool
       /\ (cancel[t] # "pending" /\ UNCHANGED cancel) \/ LegacyAsyncio
       /\ pc' = [pc EXCEPT ![t] = IF isTool THEN "toolsend_yes" ELSE "toolsend_no"]

\* The tool frame is sent, and t goes on.
Resolves(t) ==
  /\ pc[t] \in ToolFrameSent /\ cancel[t] # "pending" /\ UNCHANGED asked
  /\ followup' = IF DeployChat THEN FollowupAfter(t) ELSE followup
  /\ \E p \in Phases \ (BeforeToolFrame \cup ToolFrameSent) : pc' = [pc EXCEPT ![t] = p]

\* Any other step.
KeepsFlag(t) ==
  /\ UNCHANGED <<followup, asked>>
  /\ \E p \in Phases \ ToolFrameSent :
       /\ pc' = [pc EXCEPT ![t] = p]
       /\ p \in BeforeToolFrame => pc[t] \in BeforeToolFrame /\ cancel' = cancel
       /\ pc[t] \in ToolFrameSent => cancel[t] = "pending"

\* A tool frame that is sent.
LEMMA SendToolAsks ==
  ASSUME TurnTypeOK, NEW t \in Turns, NEW isTool \in BOOLEAN, SendTool(t, isTool),
         pc[t] = "tool", (cancel[t] # "pending" /\ UNCHANGED cancel) \/ LegacyAsyncio,
         UNCHANGED followup
  PROVE  Asks(t, isTool)
<1>1. PICK o \in SendOutcomes :
        /\ Frame(t, "tool", o)
        /\ asked' = IF o = "sent" THEN isTool ELSE asked
        /\ IF o = "raised" THEN Finish(t)
           ELSE Suspend(t, IF isTool THEN "toolsend_yes" ELSE "toolsend_no")
  BY DEF SendTool
<1>2. sock = "open" => o = "sent"
  BY <1>1, FrameSeen
<1> QED
  BY <1>1, <1>2 DEF Asks, Suspend

\* The three ways in which a step treats the flag.
LEMMA FlagStep ==
  ASSUME DataOK, NEW t \in Turns, TaskStep(t)
  PROVE  /\ UNCHANGED applies
         /\ KeepsFlag(t) \/ Resolves(t) \/ \E isTool \in BOOLEAN : Asks(t, isTool)
<1> USE DEF Phases, SendPhases, BeforeToolFrame, ToolFrameSent
<1>0. TurnTypeOK /\ Alive(t) /\ UNCHANGED applies
  BY DEF DataOK, TaskStep, BeginTurn, ToolAnswers, ToolTimesOut, ToolFails, ToolSent, EmitToken,
         BufferDelta, TokenSent, EngineEnds, CooperativeCancel, FinishStream, FinalSent,
         DoneSent, ErrorSent, EngineFails, ChatTimesOut, ChatTimesOutInSend, FailTailSent,
         DeliverCancel, CancelTailSent, SwallowCancel, Runs, Alive
<1>1. CASE EmitToken(t) \/ BufferDelta(t) \/ TokenSent(t) \/ EngineEnds(t)
           \/ CooperativeCancel(t) \/ FinishStream(t) \/ FinalSent(t) \/ DoneSent(t)
           \/ ErrorSent(t) \/ EngineFails(t) \/ ChatTimesOut(t) \/ ChatTimesOutInSend(t)
           \/ FailTailSent(t) \/ CancelTailSent(t)
  <2>1. UNCHANGED <<followup, asked>> /\ pc[t] \notin BeforeToolFrame \cup ToolFrameSent
    BY <1>1 DEF EmitToken, BufferDelta, TokenSent, EngineEnds, CooperativeCancel, FinishStream,
       FinalSent, DoneSent, ErrorSent, EngineFails, ChatTimesOut, ChatTimesOutInSend,
       FailTailSent, CancelTailSent
  <2>2. \E p \in Phases \ (BeforeToolFrame \cup ToolFrameSent) : pc' = [pc EXCEPT ![t] = p]
    <3>1. \/ pc' = pc /\ pc[t] = "stream"
          \/ Finish(t)
          \/ \E p \in {"stream", "tokensend", "finalsend", "donesend", "errsend",
                     "tailsend_fail"} : Suspend(t, p)
      BY <1>1 DEF EmitToken, BufferDelta, TokenSent, EngineEnds, CooperativeCancel,
         FinishStream, FinalSent, DoneSent, ErrorSent, EngineFails, ChatTimesOut,
         ChatTimesOutInSend, FailTailSent, CancelTailSent, StreamRaises, Crash, SendThenSuspend
    <3> QED
      BY <1>0, <3>1 DEF Finish, Suspend, TurnTypeOK
  <2> QED
    BY <1>0, <2>1, <2>2 DEF KeepsFlag
<1>2. ASSUME SendThenSuspend(t, "error", "errsend")
      PROVE  \E p \in {"errsend", "done"} : pc' = [pc EXCEPT ![t] = p]
  BY <1>2 DEF SendThenSuspend, Suspend, Finish
<1>3. ASSUME StartChat(t)
      PROVE  \E p \in {"stream", "errsend", "done"} : pc' = [pc EXCEPT ![t] = p]
  BY <1>2, <1>3 DEF StartChat, Suspend
<1>4. CASE BeginTurn(t)
  <2>1. /\ UNCHANGED <<followup, asked, cancel>> /\ pc[t] = "created"
        /\ \E p \in {"tool", "stream", "errsend", "done"} : pc' = [pc EXCEPT ![t] = p]
    BY <1>3, <1>4 DEF BeginTurn, Suspend
  <2> QED
    BY <1>0, <2>1 DEF KeepsFlag
<1>5. CASE ToolFails(t) \/ (ToolTimesOut(t) /\ Crash(t) /\ UNCHANGED asked)
  <2>1. /\ UNCHANGED <<followup, asked>> /\ pc[t] = "tool"
        /\ \E p \in {"errsend", "done"} : pc' = [pc EXCEPT ![t] = p]
    BY <1>2, <1>5 DEF ToolFails, ToolTimesOut, Crash
  <2> QED
    BY <1>0, <2>1 DEF KeepsFlag
<1>6. CASE ToolAnswers(t) \/ (ToolTimesOut(t) /\ SendTool(t, FALSE)) \/ SwallowCancel(t)
  BY <1>0, <1>6, SendToolAsks DEF ToolAnswers, ToolTimesOut, SwallowCancel, Runs
<1>7. CASE ToolSent(t)
  <2>1. /\ pc[t] \in ToolFrameSent /\ cancel[t] # "pending" /\ UNCHANGED asked
        /\ followup' = IF DeployChat THEN FollowupAfter(t) ELSE followup
    BY <1>7 DEF ToolSent, Runs
  <2>2. \E p \in {"stream", "errsend", "finalsend", "done"} : pc' = [pc EXCEPT ![t] = p]
    BY <1>3, <1>7 DEF ToolSent, Suspend, Finish
  <2> QED
    BY <1>0, <2>1, <2>2 DEF Resolves
<1>8. CASE DeliverCancel(t)
  <2>1. UNCHANGED <<followup, asked>> /\ cancel[t] = "pending"
    BY <1>8 DEF DeliverCancel
  <2>2. \E p \in {"tailsend_cancel", "done"} : pc' = [pc EXCEPT ![t] = p]
    BY <1>8 DEF DeliverCancel, CancelUnstarted, CancelWithTail, CancelAtAwait, Suspend, Finish
  <2> QED
    BY <1>0, <2>1, <2>2 DEF KeepsFlag
<1> QED
  BY <1>0, <1>1, <1>4, <1>5, <1>6, <1>7, <1>8 DEF TaskStep, ToolTimesOut

-----------------------------------------------------------------------------
(* The session: its request fields and the live turns *)

\* While the connection's task awaits chat_engine.abort, and until it has cleared the
\* request fields, no turn is live but those that are to be cancelled.
Aborting == {"abort_message", "abort_cancel", "abort_close"}

AbortedWhileAborting ==
  loop \in Aborting => \A t \in Turns : Alive(t) => cancel[t] # "none"

\* The inductive invariant: LiveIsTracked alone is not one, because the request fields are
\* cleared one await after the running turn was told to stop.
IInv == TypeOK /\ Counts /\ LiveIsTracked /\ AbortedWhileAborting

-----------------------------------------------------------------------------
(* The connection's task and the data *)

\* Aborting the tracked request: it was the only live turn that was not cancelled yet.
LEMMA AbortEffect ==
  ASSUME DataOK, LiveIsTracked, AbortRequests
  PROVE  DataOK' /\ \A t \in Turns : Alive(t)' => cancel'[t] # "none"
<1>1. TurnTypeOK /\ UNCHANGED <<pc, stored, followup, applies, sock, wire, asked>>
  BY DEF DataOK, AbortRequests
<1>2. req' \in Requests
  BY <1>1 DEF AbortRequests, CancelRequests, TurnTypeOK, Requests, Lifecycles
<1>3. cancel' \in [Turns -> {"none", "pending", "delivered", "swallowed"}]
  BY <1>1 DEF AbortRequests, TurnTypeOK
<1>4. /\ gen' \in [Turns -> Generation]
      /\ \A t \in Turns : gen'[t].text = gen[t].text /\ gen'[t].held = gen[t].held
  <2>1. CASE req.active # NULL /\ DeployChat
    <3>1. req.active \in Turns
      BY <1>1, <2>1 DEF TurnTypeOK, Requests
    <3>2. gen[req.active] \in Generation
      BY <3>1, <1>1 DEF TurnTypeOK
    <3>3. /\ EngineAborted(gen[req.active]) \in Generation
          /\ EngineAborted(gen[req.active]).text = gen[req.active].text
          /\ EngineAborted(gen[req.active]).held = gen[req.active].held
      BY <3>2, GenerationType
    <3>4. gen' = [gen EXCEPT ![req.active] = EngineAborted(gen[req.active])]
      BY <2>1 DEF AbortRequests
    <3>5. /\ gen' \in [Turns -> Generation]
          /\ gen'[req.active] = EngineAborted(gen[req.active])
          /\ \A t \in Turns \ {req.active} : gen'[t] = gen[t]
      BY <1>1, <3>1, <3>3, <3>4, GenerationUpdate
    <3> QED
      BY <3>3, <3>5
  <2>2. CASE ~(req.active # NULL /\ DeployChat)
    BY <1>1, <2>2 DEF AbortRequests, TurnTypeOK
  <2> QED
    BY <2>1, <2>2
<1>5. TurnTypeOK'
  BY <1>1, <1>2, <1>3, <1>4 DEF TurnTypeOK
<1>6. Counts'
  BY <1>1, <1>4 DEF DataOK, Counts
<1>7. ASSUME NEW t \in Turns, Alive(t)'
      PROVE  cancel'[t] # "none"
  <2>1. Alive(t)
    BY <1>1, <1>7 DEF Alive
  <2>2. CASE cancel[t] = "none"
    <3>1. req.task = t
      BY <2>1, <2>2 DEF LiveIsTracked
    <3>2. HasRunningTask
      BY <2>1, <3>1, NullIsNotATurn DEF HasRunningTask, Alive
    <3> QED
      BY <1>1, <3>1, <3>2 DEF AbortRequests, TurnTypeOK
  <2>3. CASE cancel[t] # "none"
    BY <1>1, <2>3 DEF AbortRequests, TurnTypeOK
  <2> QED
    BY <2>2, <2>3
<1> QED
  BY <1>5, <1>6, <1>7 DEF DataOK

\* A step that leaves the turns alone and gives the request fields the value r.
LEMMA FieldsEffect ==
  ASSUME DataOK, NEW r \in Requests, req' = r, sock' \in {"open", "gone", "down"},
         followup' \in BOOLEAN, UNCHANGED <<pc, cancel, gen, stored, applies, wire, asked>>
  PROVE  DataOK'
<1>1. TurnTypeOK'
  BY DEF DataOK, TurnTypeOK
<1>2. Counts'
  BY DEF DataOK, Counts
<1> QED
  BY <1>1, <1>2 DEF DataOK

\* A reply keeps the socket well typed and leads where its caller says.
LEMMA ReplyEffect ==
  ASSUME TurnTypeOK, NEW next, Reply(next)
  PROVE  sock' \in {"open", "gone", "down"} /\ loop' \in {next, "raised"}
BY OutcomeType DEF Reply

\* The request fields stay well typed.
LEMMA RequestsType ==
  ASSUME NEW r \in Requests
  PROVE  ForceCleanup(r) \in Requests /\ CloseRequests(r) \in Requests
BY DEF Requests, Lifecycles, ForceCleanup, CloseRequests

\* Spawning a turn while no other live turn is left uncancelled.
LEMMA SpawnEffect ==
  ASSUME DataOK, NEW r \in Requests, NEW t \in Turns, SpawnTurn(r, t),
         \A u \in Turns : Alive(u) => cancel[u] # "none"
  PROVE  DataOK' /\ LiveIsTracked' /\ loop' \in {"returned", "receive"}
<1>1. /\ pc[t] = "unborn" /\ req' = AttachTask(BeginRequest(r, t), t)
      /\ pc' = [pc EXCEPT ![t] = "created"]
      /\ applies' = [applies EXCEPT ![t] = followup]
      /\ loop' \in {"returned", "receive"}
      /\ UNCHANGED <<cancel, gen, stored, followup, sock, wire, asked>>
  BY DEF SpawnTurn
<1>2. TurnTypeOK
  BY DEF DataOK
<1>3. /\ req' \in Requests /\ req'.active = t /\ req'.task = t
      /\ req'.lifecycle = "running" /\ ~req'.cancelRequested
  BY <1>1 DEF AttachTask, BeginRequest, Requests, Lifecycles
<1>4. pc' \in [Turns -> Phases] /\ pc'[t] = "created" /\ \A u \in Turns \ {t} : pc'[u] = pc[u]
  BY <1>1, <1>2 DEF TurnTypeOK, Phases
<1>5. TurnTypeOK'
  BY <1>1, <1>2, <1>3, <1>4 DEF TurnTypeOK
<1>6. Counts'
  <2>1. \A u \in Turns : pc'[u] # pc[u] => pc[u] = "unborn" /\ pc'[u] = "created"
    BY <1>1, <1>4
  <2> QED
    BY <1>1, <2>1 DEF DataOK, Counts, TokenSends
<1>7. LiveIsTracked'
  BY <1>1, <1>3, <1>4 DEF LiveIsTracked, Alive
<1> QED
  BY <1>1, <1>5, <1>6, <1>7 DEF DataOK

\* Taking a message while no live turn is left uncancelled.
LEMMA TakeMessageEffect ==
  ASSUME DataOK, NEW r \in Requests, TakeMessage(r),
         \A u \in Turns : Alive(u) => cancel[u] # "none"
  PROVE  /\ DataOK' /\ LiveIsTracked'
         /\ loop' \in {"returned", "receive", "replying", "closing_error", "raised"}
<1>1. ASSUME NEW t \in Turns, SpawnTurn(r, t)
      PROVE  DataOK' /\ LiveIsTracked' /\ loop' \in {"returned", "receive"}
  BY <1>1, SpawnEffect
<1>2. ASSUME NEW next, RejectMessage(r, next)
      PROVE  DataOK' /\ LiveIsTracked' /\ loop' \in {next, "raised"}
  <2>1. /\ req' = r /\ UNCHANGED <<pc, cancel, gen, stored, followup, applies, wire, asked>>
        /\ sock' \in {"open", "gone", "down"} /\ loop' \in {next, "raised"}
    BY <1>2, ReplyEffect DEF RejectMessage, DataOK
  <2>2. DataOK'
    BY <2>1, FieldsEffect DEF DataOK, TurnTypeOK
  <2>3. LiveIsTracked'
    BY <2>1 DEF LiveIsTracked, Alive
  <2> QED
    BY <2>1, <2>2, <2>3
<1> QED
  BY <1>1, <1>2 DEF TakeMessage

-----------------------------------------------------------------------------
(* Every step keeps the inductive invariant *)

\* The initial states.
LEMMA InitIInv == Init => IInv
<1> SUFFICES ASSUME Init PROVE IInv
  OBVIOUS
<1>1. TurnInit /\ loop = "receive" /\ started = FALSE /\ initialised = FALSE
  BY DEF Init
<1>2. req \in Requests
  BY <1>1 DEF TurnInit, FreshRequests, Requests, Lifecycles
<1>3. /\ gen \in [Turns -> Generation]
      /\ \A t \in Turns : gen[t].text = 0 /\ gen[t].held = FALSE
  BY <1>1, TurnConstants DEF TurnInit, Generation
<1>4. /\ wire \in [Turns -> [last : FrameKinds, shown : 0 .. MaxChunks]]
      /\ \A t \in Turns : wire[t].shown = 0
  BY <1>1, TurnConstants DEF TurnInit, FrameKinds
<1>5. /\ pc \in [Turns -> Phases] /\ \A t \in Turns : pc[t] = "unborn"
      /\ cancel \in [Turns -> {"none", "pending", "delivered", "swallowed"}]
      /\ applies \in [Turns -> BOOLEAN]
      /\ followup \in BOOLEAN /\ asked \in BOOLEAN /\ sock \in {"open", "gone", "down"}
  BY <1>1 DEF TurnInit, Phases
<1>6. stored \in [Turns -> 0 .. MaxChunks]
  BY <1>1, TurnConstants DEF TurnInit
<1>7. TypeOK
  BY <1>1, <1>2, <1>3, <1>4, <1>5, <1>6 DEF TypeOK, TurnTypeOK, LoopPhases
<1>8. Counts
  <2> SUFFICES ASSUME NEW t \in Turns
               PROVE  /\ wire[t].shown <= gen[t].text
                           + (IF pc[t] \in TokenSends \cup {"done"} THEN 1 ELSE 0)
                      /\ pc[t] \in TokenSends => gen[t].text < MaxChunks
                      /\ gen[t].held => gen[t].text < MaxChunks /\ pc[t] = "stream"
    BY DEF Counts
  <2>1. /\ wire[t].shown = 0 /\ gen[t].text = 0 /\ gen[t].held = FALSE
        /\ pc[t] \notin TokenSends \cup {"done"}
    BY <1>3, <1>4, <1>5 DEF TokenSends
  <2> QED
    BY <2>1
<1>9. LiveIsTracked /\ AbortedWhileAborting
  BY <1>5 DEF LiveIsTracked, AbortedWhileAborting, Alive
<1> QED
  BY <1>7, <1>8, <1>9 DEF IInv

\* A step of a task: it alone may end, and only its own request is completed.
LEMMA TaskTurnIInv ==
  ASSUME IInv, NEW t \in Turns, TaskTurn(t)
  PROVE  IInv'
<1>1. DataOK /\ LiveIsTracked /\ UNCHANGED loopVars /\ TypeOK /\ AbortedWhileAborting
  BY DEF IInv, DataOK, TypeOK, TaskTurn
<1>2. CASE TaskStep(t)
  <2>1. DataOK' /\ TaskEffect(t)
    BY <1>1, <1>2, TaskStepEffect
  <2>2. \A u \in Turns : Alive(u)' => Alive(u)
    BY <1>1, <2>1 DEF TaskEffect, Alive, DataOK, TurnTypeOK
  <2>3. \A u \in Turns : cancel[u] # "none" => cancel'[u] # "none"
    BY <1>1, <2>1 DEF TaskEffect, DataOK, TurnTypeOK
  <2>4. ASSUME NEW u \in Turns, Alive(u)', cancel'[u] = "none"
        PROVE  /\ req'.active = u /\ req'.task = u
               /\ req'.lifecycle = "running" /\ ~req'.cancelRequested
    <3>1. req.active = u /\ req.task = u /\ req.lifecycle = "running" /\ ~req.cancelRequested
      BY <1>1, <2>2, <2>3, <2>4 DEF LiveIsTracked
    <3>2. CASE req' = req
      BY <3>1, <3>2
    <3>3. CASE pc'[t] = "done" /\ req' = CompleteRequest(req, t)
      <4>1. u # t
        BY <2>4, <3>3 DEF Alive
      <4> QED
        BY <3>1, <3>3, <4>1 DEF CompleteRequest
    <3> QED
      BY <2>1, <3>2, <3>3 DEF TaskEffect
  <2>5. LiveIsTracked'
    BY <2>4 DEF LiveIsTracked
  <2>6. AbortedWhileAborting'
    BY <1>1, <2>2, <2>3 DEF AbortedWhileAborting, loopVars
  <2> QED
    BY <1>1, <2>1, <2>5, <2>6 DEF IInv, DataOK, TypeOK, loopVars
<1>3. CASE AfterTurn(t)
  <2>1. DataOK' /\ UNCHANGED <<req, pc, cancel, wire>>
    BY <1>1, <1>3, AfterTurnEffect
  <2>2. LiveIsTracked' /\ AbortedWhileAborting'
    BY <1>1, <2>1 DEF LiveIsTracked, AbortedWhileAborting, Alive, loopVars
  <2> QED
    BY <1>1, <2>1, <2>2 DEF IInv, DataOK, TypeOK, loopVars
<1> QED
  BY <1>2, <1>3 DEF TaskTurn, TurnStep, AfterTurn

\* A step that leaves the turns and the tracked request alone, while none is being aborted
\* afterwards that was not before.
LEMMA QuietIInv ==
  ASSUME IInv, UNCHANGED <<req, pc, cancel, gen, stored, applies, wire, asked>>,
         sock' \in {"open", "gone", "down"}, followup' \in BOOLEAN,
         loop' \in LoopPhases, loop' \in Aborting => loop' = loop,
         started' \in BOOLEAN, initialised' \in BOOLEAN
  PROVE  IInv'
<1>1. DataOK
  BY DEF IInv, DataOK, TypeOK
<1>2. req \in Requests /\ req' = req
  BY <1>1 DEF DataOK, TurnTypeOK
<1>3. DataOK'
  BY <1>1, <1>2, FieldsEffect
<1>4. LiveIsTracked' /\ AbortedWhileAborting'
  BY DEF IInv, LiveIsTracked, AbortedWhileAborting, Alive
<1> QED
  BY <1>3, <1>4 DEF IInv, DataOK, TypeOK

\* A step that aborts the tracked request.
LEMMA AbortIInv ==
  ASSUME IInv, AbortRequests, loop' \in Aborting, UNCHANGED <<started, initialised>>
  PROVE  IInv'
<1>1. DataOK' /\ \A t \in Turns : Alive(t)' => cancel'[t] # "none"
  BY AbortEffect DEF IInv, DataOK, TypeOK
<1>2. LiveIsTracked' /\ AbortedWhileAborting'
  BY <1>1 DEF LiveIsTracked, AbortedWhileAborting
<1> QED
  BY <1>1, <1>2 DEF IInv, DataOK, TypeOK, Aborting, LoopPhases

\* A step that takes a message while no live turn is left uncancelled.
LEMMA TakeMessageIInv ==
  ASSUME IInv, NEW r \in Requests, TakeMessage(r), UNCHANGED <<started, initialised>>,
         \A u \in Turns : Alive(u) => cancel[u] # "none"
  PROVE  IInv'
<1>1. /\ DataOK' /\ LiveIsTracked'
      /\ loop' \in {"returned", "receive", "replying", "closing_error", "raised"}
  BY TakeMessageEffect DEF IInv, DataOK, TypeOK
<1>2. AbortedWhileAborting'
  BY <1>1 DEF AbortedWhileAborting, Aborting
<1> QED
  BY <1>1, <1>2 DEF IInv, DataOK, TypeOK, LoopPhases

\* A step that clears the request fields once their turn is cancelled or over.
LEMMA ClearIInv ==
  ASSUME IInv, loop \in Aborting, NEW r \in Requests, req' = r, loop' \in LoopPhases \ Aborting,
         UNCHANGED <<pc, cancel, gen, stored, followup, applies, wire, asked>>,
         sock' \in {"open", "gone", "down"}, started' \in BOOLEAN, initialised' \in BOOLEAN
  PROVE  IInv'
<1>1. DataOK'
  BY FieldsEffect DEF IInv, DataOK, TypeOK, TurnTypeOK
<1>2. \A t \in Turns : Alive(t)' => cancel'[t] # "none"
  BY DEF IInv, AbortedWhileAborting, Alive
<1>3. LiveIsTracked' /\ AbortedWhileAborting'
  BY <1>2 DEF LiveIsTracked, AbortedWhileAborting
<1> QED
  BY <1>1, <1>3 DEF IInv, DataOK, TypeOK

\* The messages of the client.
LEMMA ClientMessageIInv ==
  ASSUME IInv, ClientMessage
  PROVE  IInv'
<1>0. TypeOK /\ TurnTypeOK /\ DataOK /\ req \in Requests /\ followup \in BOOLEAN
  BY DEF IInv, TypeOK, DataOK, TurnTypeOK
<1>1. CASE RecvControl
  <2>1. sock' \in {"open", "gone", "down"} /\ loop' \in {"replying", "raised"}
    BY <1>0, <1>1, ReplyEffect DEF RecvControl
  <2> QED
    BY <1>0, <1>1, <2>1, QuietIInv DEF RecvControl, TypeOK, LoopPhases, Aborting
<1>2. CASE RecvStart
  <2>1. /\ sock' \in {"open", "gone", "down"}
        /\ loop' \in {"replying", "closing_error", "raised"}
    <3>1. Reply("replying") \/ Reply("closing_error")
      BY <1>2 DEF RecvStart
    <3> QED
      BY <3>1, <1>0, ReplyEffect
  <2>2. started' \in BOOLEAN /\ initialised' \in BOOLEAN /\ followup' \in BOOLEAN
    BY <1>0, <1>2 DEF RecvStart, TypeOK
  <2> QED
    BY <1>0, <1>2, <2>1, <2>2, QuietIInv DEF RecvStart, TypeOK, LoopPhases, Aborting
<1>3. CASE RecvEnd
  <2>1. sock' \in {"open", "gone", "down"} /\ loop' \in {"closing_end", "raised"}
    BY <1>0, <1>3, ReplyEffect DEF RecvEnd
  <2> QED
    BY <1>0, <1>3, <2>1, QuietIInv DEF RecvEnd, TypeOK, LoopPhases, Aborting
<1>4. CASE RecvCancel
  BY <1>4, AbortIInv DEF RecvCancel, Aborting
<1>5. CASE RecvMessage
  <2>1. CASE HasRunningTask
    BY <1>5, <2>1, AbortIInv DEF RecvMessage, Aborting
  <2>2. CASE ~HasRunningTask
    <3>1. \A u \in Turns : Alive(u) => cancel[u] # "none"
      BY <2>2, NullIsNotATurn DEF IInv, LiveIsTracked, HasRunningTask, Alive
    <3> QED
      BY <1>0, <1>5, <2>2, <3>1, TakeMessageIInv DEF RecvMessage
  <2> QED
    BY <2>1, <2>2
<1> QED
  BY <1>1, <1>2, <1>3, <1>4, <1>5 DEF ClientMessage

\* What the connection's task does by itself.
LEMMA LoopContinuesIInv ==
  ASSUME IInv, LoopContinues
  PROVE  IInv'
<1>0. TypeOK /\ TurnTypeOK /\ DataOK /\ req \in Requests /\ followup \in BOOLEAN
  BY DEF IInv, TypeOK, DataOK, TurnTypeOK
<1>1. CASE CancelAborted
  <2>1. sock' \in {"open", "gone", "down"} /\ loop' \in {"replying", "raised"}
    BY <1>0, <1>1, ReplyEffect DEF CancelAborted
  <2>2. ForceCleanup(req) \in Requests
    BY <1>0, RequestsType
  <2>3. started' \in BOOLEAN
    BY <1>0, <1>1 DEF CancelAborted, TypeOK
  <2> QED
    BY <1>0, <1>1, <2>1, <2>2, <2>3, ClearIInv
    DEF CancelAborted, TypeOK, LoopPhases, Aborting
<1>2. CASE MessageAborted
  <2>1. \A u \in Turns : Alive(u) => cancel[u] # "none"
    BY <1>2 DEF MessageAborted, IInv, AbortedWhileAborting, Aborting
  <2> QED
    BY <1>0, <1>2, <2>1, RequestsType, TakeMessageIInv DEF MessageAborted
<1>3. CASE ReplySent
  BY <1>0, <1>3, QuietIInv
  DEF ReplySent, turnVars, TypeOK, TurnTypeOK, LoopPhases, Aborting
<1>4. CASE CloseSocket
  BY <1>0, <1>4, QuietIInv DEF CloseSocket, TypeOK, LoopPhases, Aborting
<1>5. CASE ReceiveEnds
  BY <1>0, <1>5, QuietIInv DEF ReceiveEnds, TypeOK, LoopPhases, Aborting
<1>6. CASE Teardown
  BY <1>6, AbortIInv DEF Teardown, Aborting
<1>7. CASE SessionClosed
  <2>1. CloseRequests(ForceCleanup(req)) \in Requests
    BY <1>0, RequestsType
  <2> QED
    BY <1>0, <1>7, <2>1, ClearIInv DEF SessionClosed, TypeOK, LoopPhases, Aborting
<1>8. CASE FailedTeardown
  BY <1>0, <1>8, QuietIInv DEF FailedTeardown, TypeOK, LoopPhases, Aborting
<1> QED
  BY <1>1, <1>2, <1>3, <1>4, <1>5, <1>6, <1>7, <1>8 DEF LoopContinues

\* Every step of the connection.
LEMMA NextIInv == IInv /\ [Next]_vars => IInv'
<1> SUFFICES ASSUME IInv, [Next]_vars PROVE IInv'
  OBVIOUS
<1>0. TypeOK /\ TurnTypeOK /\ followup \in BOOLEAN
  BY DEF IInv, TypeOK, TurnTypeOK
<1>1. CASE ClientMessage
  BY <1>1, ClientMessageIInv
<1>2. CASE LoopContinues
  BY <1>2, LoopContinuesIInv
<1>3. CASE ReceiveFails
  BY <1>0, <1>3, QuietIInv
  DEF ReceiveFails, turnVars, TypeOK, TurnTypeOK, LoopPhases, Aborting
<1>4. CASE ClientLeaves
  BY <1>0, <1>4, QuietIInv DEF ClientLeaves, loopVars, TypeOK
<1>5. CASE WatchdogFires
  BY <1>0, <1>5, QuietIInv DEF WatchdogFires, loopVars, TypeOK
<1>6. CASE \E t \in Turns : TaskTurn(t)
  BY <1>6, TaskTurnIInv
<1>7. CASE UNCHANGED vars
  BY <1>0, <1>7, QuietIInv DEF vars, turnVars, loopVars, TypeOK, TurnTypeOK
<1> QED
  BY <1>1, <1>2, <1>3, <1>4, <1>5, <1>6, <1>7 DEF Next

-----------------------------------------------------------------------------
(* The theorems *)

\* The inductive invariant holds in every reachable state.
THEOREM Invariance == Spec => []IInv
BY InitIInv, NextIInv, PTL DEF Spec

\* Every field of the session keeps its type, the counters of chunks their bound, however
\* cancellations, timeouts, lost clients and the next message interleave.
THEOREM TypeCorrect == Spec => []TypeOK
<1>1. IInv => TypeOK
  BY DEF IInv
<1> QED
  BY <1>1, Invariance, PTL

\* Whatever is alive and not cancelled is tracked: for any number of messages of a
\* connection, an abort never misses a running turn, and a finishing turn never clears
\* its successor's request (requests.py:88-123).
THEOREM RunningTurnIsTracked == Spec => []LiveIsTracked
<1>1. IInv => LiveIsTracked
  BY DEF IInv
<1> QED
  BY <1>1, Invariance, PTL

-----------------------------------------------------------------------------
(* Silence after an abort, where nothing is buffered and no cancellation is lost *)

\* No text is held back, and a delivered cancellation has ended its task.
Calm ==
  \A t \in Turns :
    /\ ~gen[t].held
    /\ cancel[t] # "swallowed"
    /\ cancel[t] = "delivered" => pc[t] = "done"

\* A task that is not receiving its CancelledError has not been cancelled.
LEMMA RunningIsUncancelled ==
  ASSUME ~LegacyAsyncio, Calm, TypeOK, NEW t \in Turns, TaskStep(t), ~DeliverCancel(t)
  PROVE  cancel[t] = "none" /\ cancel' = cancel
<1>1. Runs(t) /\ cancel' = cancel
  BY DEF TaskStep, BeginTurn, ToolAnswers, ToolTimesOut, ToolFails, ToolSent, EmitToken,
         BufferDelta, TokenSent, EngineEnds, CooperativeCancel, FinishStream, FinalSent,
         DoneSent, ErrorSent, EngineFails, ChatTimesOut, ChatTimesOutInSend, FailTailSent,
         CancelTailSent, SwallowCancel
<1>2. cancel[t] \in {"none", "pending", "delivered", "swallowed"}
  BY DEF TypeOK, TurnTypeOK
<1> QED
  BY <1>1, <1>2 DEF Runs, Alive, Calm

\* A step of task t, in a calm state.
LEMMA CalmTaskStep ==
  ASSUME ~LegacyAsyncio, ~FlushBuffering, IInv, Calm, NEW t \in Turns, TaskStep(t)
  PROVE  /\ Calm'
         /\ \A u \in Turns : cancel[u] # "none" => wire'[u] = wire[u]
<1>1. DataOK' /\ TaskEffect(t) /\ TypeOK /\ DataOK
  BY TaskStepEffect DEF IInv, DataOK, TypeOK
<1>2. /\ \A u \in Turns \ {t} : /\ wire'[u] = wire[u] /\ gen'[u] = gen[u]
                                /\ pc'[u] = pc[u] /\ cancel'[u] = cancel[u]
      /\ ~gen'[t].held
  BY <1>1 DEF TaskEffect, Calm, TypeOK, TurnTypeOK
<1>3. CASE DeliverCancel(t)
  <2>1. CancelUnstarted(t) \/ CancelAtAwait(t)
    BY <1>3 DEF DeliverCancel, CancelWithTail, Calm
  <2>2. pc'[t] = "done" /\ wire' = wire
    BY <1>1, <2>1 DEF CancelUnstarted, CancelAtAwait, Finish, TypeOK, TurnTypeOK
  <2>3. cancel'[t] = "delivered"
    BY <1>1, <1>3 DEF DeliverCancel, TypeOK, TurnTypeOK
  <2> QED
    BY <1>2, <2>2, <2>3 DEF Calm
<1>4. CASE ~DeliverCancel(t)
  <2>1. cancel[t] = "none" /\ cancel' = cancel
    BY <1>1, <1>4, RunningIsUncancelled
  <2> QED
    BY <1>2, <2>1 DEF Calm
<1> QED
  BY <1>3, <1>4

\* The connection's task leaves the wire alone; what it cancels is alive.
LEMMA CalmLoopStep ==
  ASSUME IInv, Calm, [Next]_vars, ~(\E t \in Turns : TaskTurn(t))
  PROVE  Calm' /\ wire' = wire
<1>1. TypeOK /\ TurnTypeOK
  BY DEF IInv, TypeOK
<1>2. CASE AbortRequests
  <2>1. \A t \in Turns : gen'[t].held = gen[t].held
    <3>1. CASE req.active # NULL /\ DeployChat
      <4>1. req.active \in Turns /\ gen[req.active] \in Generation
        BY <1>1, <3>1 DEF TurnTypeOK, Requests
      <4>2. gen' = [gen EXCEPT ![req.active] = EngineAborted(gen[req.active])]
        BY <1>2, <3>1 DEF AbortRequests
      <4> QED
        BY <1>1, <4>1, <4>2, GenerationType DEF TurnTypeOK
    <3>2. CASE ~(req.active # NULL /\ DeployChat)
      BY <1>2, <3>2 DEF AbortRequests
    <3> QED
      BY <3>1, <3>2
  <2>2. \A t \in Turns : cancel'[t] = cancel[t] \/ cancel'[t] = "pending"
    BY <1>1, <1>2 DEF AbortRequests, TurnTypeOK
  <2>3. pc' = pc /\ wire' = wire
    BY <1>2 DEF AbortRequests
  <2> QED
    BY <2>1, <2>2, <2>3 DEF Calm
<1>3. ASSUME NEW r, TakeMessage(r)
      PROVE  Calm' /\ wire' = wire
  <2>1. CASE \E t \in Turns : SpawnTurn(r, t)
    BY <1>1, <2>1 DEF SpawnTurn, Calm, TurnTypeOK
  <2>2. CASE UNCHANGED <<pc, cancel, gen, wire>>
    BY <2>2 DEF Calm
  <2> QED
    BY <1>3, <2>1, <2>2 DEF TakeMessage, RejectMessage
<1>4. CASE UNCHANGED <<pc, cancel, gen, wire>>
  BY <1>4 DEF Calm
<1>5. \/ AbortRequests \/ \E r : TakeMessage(r) \/ UNCHANGED <<pc, cancel, gen, wire>>
  <2>1. CASE ClientMessage
    BY <2>1 DEF ClientMessage, RecvControl, RecvStart, RecvEnd, RecvCancel, RecvMessage
  <2>2. CASE LoopContinues
    BY <2>2 DEF LoopContinues, CancelAborted, MessageAborted, ReplySent, CloseSocket,
                ReceiveEnds, Teardown, SessionClosed, FailedTeardown, turnVars
  <2>3. CASE ReceiveFails \/ ClientLeaves \/ WatchdogFires \/ UNCHANGED vars
    BY <2>3 DEF ReceiveFails, ClientLeaves, WatchdogFires, vars, turnVars
  <2> QED
    BY <2>1, <2>2, <2>3 DEF Next
<1> QED
  BY <1>2, <1>3, <1>4, <1>5

\* The initial states are calm.
LEMMA InitCalm == Init => Calm
<1> SUFFICES ASSUME Init PROVE Calm
  OBVIOUS
<1>1. TurnInit
  BY DEF Init
<1>2. /\ gen \in [Turns -> Generation]
      /\ \A t \in Turns : gen[t].text = 0 /\ gen[t].held = FALSE
  BY <1>1, TurnConstants DEF TurnInit, Generation
<1>3. \A t \in Turns : ~gen[t].held
  BY <1>2
<1>4. \A t \in Turns : cancel[t] = "none"
  BY <1>1 DEF TurnInit
<1> QED
  BY <1>3, <1>4 DEF Calm

\* Every step from a calm state.
LEMMA NextCalm ==
  ASSUME ~LegacyAsyncio, ~FlushBuffering, IInv, Calm, [Next]_vars
  PROVE  Calm' /\ \A t \in Turns : cancel[t] # "none" => wire'[t] = wire[t]
<1>1. CASE \E t \in Turns : TaskTurn(t)
  <2>1. PICK t \in Turns : TurnStep(t)
    BY <1>1 DEF TaskTurn
  <2>2. CASE TaskStep(t)
    BY <2>2, CalmTaskStep
  <2>3. CASE AfterTurn(t)
    <3>1. UNCHANGED <<pc, cancel, wire>> /\ \A u \in Turns : gen'[u].held = gen[u].held
      BY <2>3, AfterTurnEffect DEF IInv, TypeOK, DataOK
    <3> QED
      BY <3>1 DEF Calm
  <2> QED
    BY <2>1, <2>2, <2>3 DEF TurnStep, AfterTurn
<1>2. CASE ~(\E t \in Turns : TaskTurn(t))
  BY <1>2, CalmLoopStep
<1> QED
  BY <1>1, <1>2

\* Where nothing is buffered and no cancellation is lost, every reachable state is calm.
LEMMA CalmInvariance ==
  ASSUME ~LegacyAsyncio, ~FlushBuffering
  PROVE  Spec => []Calm
<1>1. IInv /\ Calm /\ [Next]_vars => Calm'
  BY NextCalm
<1> QED
  BY <1>1, InitCalm, Invariance, PTL DEF Spec

\* Where the micro-buffer is off and the event loop is Python 3.12's, no frame of a turn
\* follows its cancellation (controller.py:168-221, executor.py:50-74).
THEOREM SilenceAfterAbort ==
  ASSUME ~LegacyAsyncio, ~FlushBuffering
  PROVE  Spec => SilentAfterAbort
<1>1. IInv /\ Calm /\ [Next]_vars
      => [\A t \in Turns : cancel[t] # "none" => wire'[t] = wire[t]]_vars
  BY NextCalm
<1> QED
  BY <1>1, CalmInvariance, Invariance, PTL DEF Spec, SilentAfterAbort

-----------------------------------------------------------------------------
(* What every turn has recorded, generated and shown *)

\* Only turns that were started are tracked or cancelled.
Spawned ==
  /\ \A t \in Turns : pc[t] = "unborn" => cancel[t] = "none"
  /\ req.task # NULL => pc[req.task] # "unborn"

StageInv == (\A t \in Turns : Stage(t)) /\ Spawned

\* The parts of a step of the connection's own task, of its client or of its watchdog: it
\* aborts the tracked request, takes a message or leaves the turns as they are, and it does
\* not open the socket.
LEMMA LoopStepKinds ==
  ASSUME IInv, [Next]_vars, ~(\E t \in Turns : TaskTurn(t))
  PROVE  /\ sock' = "open" => sock = "open"
         /\ \/ AbortRequests
            \/ /\ \E r \in Requests : TakeMessage(r) /\ r \in {req, ForceCleanup(req)}
               /\ \A u \in Turns : Alive(u) => cancel[u] # "none"
            \/ /\ UNCHANGED <<pc, cancel, gen, stored, applies, wire, asked>>
               /\ req' \in {req, ForceCleanup(req), CloseRequests(ForceCleanup(req))}
<1>0. TypeOK /\ TurnTypeOK /\ req \in Requests
  BY DEF IInv, TypeOK, TurnTypeOK
<1>1. ASSUME NEW o \in SendOutcomes, sock' = SockAfter(o)
      PROVE  sock' = "open" => sock = "open"
  BY <1>0, <1>1 DEF SendOutcomes, SockAfter, TurnTypeOK
<1>2. sock' = "open" => sock = "open"
  <2>1. UNCHANGED sock \/ sock' # "open" \/ \E o \in SendOutcomes : sock' = SockAfter(o)
    BY DEF Next, ClientMessage, LoopContinues, RecvControl, RecvStart, RecvEnd, RecvCancel,
       RecvMessage, CancelAborted, MessageAborted, ReplySent, CloseSocket, ReceiveEnds,
       Teardown, SessionClosed, FailedTeardown, ReceiveFails, ClientLeaves, WatchdogFires,
       AbortRequests, TakeMessage, SpawnTurn, RejectMessage, Reply, vars, turnVars
  <2> QED
    BY <1>1, <2>1
<1>3. CASE ClientMessage
  <2>1. CASE RecvMessage /\ ~HasRunningTask
    <3>1. \A u \in Turns : Alive(u) => cancel[u] # "none"
      BY <2>1, NullIsNotATurn DEF IInv, LiveIsTracked, HasRunningTask, Alive
    <3> QED
      BY <1>0, <1>2, <2>1, <3>1 DEF RecvMessage
  <2> QED
    BY <1>2, <1>3, <2>1
    DEF ClientMessage, RecvControl, RecvStart, RecvEnd, RecvCancel, RecvMessage
<1>4. CASE LoopContinues
  <2>1. CASE MessageAborted
    <3>1. \A u \in Turns : Alive(u) => cancel[u] # "none"
      BY <2>1 DEF MessageAborted, IInv, AbortedWhileAborting, Aborting
    <3> QED
      BY <1>0, <1>2, <2>1, <3>1, RequestsType DEF MessageAborted
  <2> QED
    BY <1>2, <1>4, <2>1 DEF LoopContinues, CancelAborted, ReplySent, CloseSocket,
       ReceiveEnds, Teardown, SessionClosed, FailedTeardown, turnVars
<1>5. CASE ReceiveFails \/ ClientLeaves \/ WatchdogFires \/ UNCHANGED vars
  BY <1>2, <1>5 DEF ReceiveFails, ClientLeaves, WatchdogFires, vars, turnVars
<1> QED
  BY <1>3, <1>4, <1>5 DEF Next

\* Whoever aborts the tracked request stops the engine of the one turn it could run for.
LEMMA AbortStage ==
  ASSUME IInv, AbortRequests, NEW t \in Turns, Stage(t)
  PROVE  Stage(t)'
<1>1. TurnTypeOK /\ DataOK /\ UNCHANGED <<pc, stored, sock, wire>> /\ gen[t] \in Generation
  BY DEF IInv, TypeOK, TurnTypeOK, DataOK, AbortRequests
<1>2. cancel'[t] = cancel[t] \/ (cancel'[t] = "pending" /\ pc[t] # "done")
  BY <1>1 DEF AbortRequests, HasRunningTask, TurnTypeOK
<1>3. \/ gen'[t] = gen[t] /\ ~(req.active = t /\ DeployChat)
      \/ gen'[t] = EngineAborted(gen[t])
  BY <1>1, NullIsNotATurn DEF AbortRequests, TurnTypeOK
<1>4. /\ gen'[t].text = gen[t].text
      /\ gen'[t].engine = "running" =>
           gen[t].engine = "running" /\ (~Vllm \/ req.active # t)
  BY <1>1, <1>3, GenerationType, EngineStops DEF Stage, Owned
<1>5. gen[t].engine = "running" /\ cancel[t] = "none" /\ Vllm /\ ~LegacyAsyncio =>
        pc[t] = "done" \/ req.active = t
  BY DEF IInv, LiveIsTracked, Alive, Stage, Owned
<1>6. Recorded(t)'
  BY <1>1, <1>4 DEF Stage, Recorded
<1>7. gen'[t].engine = "running" /\ Vllm => gen'[t] = gen[t]
  BY <1>1, <1>3, EngineStops
<1>8. Owned(t)'
  BY <1>1, <1>2, <1>4, <1>5, <1>7 DEF Stage, Owned
<1>9. Ordered(t)'
  BY <1>1, <1>2, <1>4 DEF Stage, Ordered
<1> QED
  BY <1>6, <1>8, <1>9 DEF Stage

\* A turn is started: its frames, text and engine are those of a turn that never ran.
LEMMA SpawnStage ==
  ASSUME TurnTypeOK, NEW r, NEW u \in Turns, SpawnTurn(r, u), NEW t \in Turns, Stage(t)
  PROVE  Stage(t)'
<1>1. UNCHANGED <<cancel, gen, stored, sock, wire>>
  BY DEF SpawnTurn
<1>2. pc'[t] = pc[t] \/ (pc[t] = "unborn" /\ pc'[t] = "created")
  BY DEF SpawnTurn, TurnTypeOK
<1> QED
  BY <1>1, <1>2 DEF Stage, Recorded, BeforeStream, Owned, Ordered, TokenSends

\* The request that is tracked when a message was taken is that of a started turn.
LEMMA TakenSpawned ==
  ASSUME TurnTypeOK, Spawned, NEW r \in Requests, r \in {req, ForceCleanup(req)}, TakeMessage(r)
  PROVE  Spawned'
<1>1. r.task # NULL => r.task \in Turns /\ pc[r.task] # "unborn"
  BY DEF ForceCleanup, Spawned, Requests
<1>2. CASE \E t \in Turns : SpawnTurn(r, t)
  <2>1. PICK t \in Turns : SpawnTurn(r, t)
    BY <1>2
  <2>2. req'.task \in {t, r.task} /\ cancel' = cancel /\ pc' = [pc EXCEPT ![t] = "created"]
    BY <2>1 DEF SpawnTurn, AttachTask, BeginRequest, Requests
  <2>3. \A u \in Turns : pc'[u] = "unborn" => pc[u] = "unborn"
    BY <2>2 DEF TurnTypeOK
  <2>4. pc'[t] = "created"
    BY <2>2 DEF TurnTypeOK
  <2>5. req'.task # NULL => pc'[req'.task] # "unborn"
    BY <1>1, <2>2, <2>3, <2>4
  <2> QED
    BY <2>2, <2>3, <2>5 DEF Spawned
<1>3. CASE req' = r /\ UNCHANGED <<pc, cancel>>
  BY <1>1, <1>3 DEF Spawned
<1> QED
  BY <1>2, <1>3 DEF TakeMessage, RejectMessage

\* The initial states.
LEMMA InitStage == Init => StageInv
<1> SUFFICES ASSUME Init PROVE StageInv
  OBVIOUS
<1>1. TurnInit
  BY DEF Init
<1>2. /\ gen \in [Turns -> Generation]
      /\ \A t \in Turns : gen[t].text = 0 /\ gen[t].engine = "none"
  BY <1>1, TurnConstants DEF TurnInit, Generation
<1>3. \A t \in Turns : wire[t].last = "none" /\ wire[t].shown = 0
  BY <1>1 DEF TurnInit
<1>4. \A t \in Turns : pc[t] = "unborn" /\ cancel[t] = "none" /\ stored[t] = 0
  BY <1>1 DEF TurnInit
<1>5. req.task = NULL
  BY <1>1 DEF TurnInit, FreshRequests
<1> QED
  BY <1>2, <1>3, <1>4, <1>5
  DEF StageInv, Spawned, Stage, Recorded, BeforeStream, Owned, Ordered, TokenSends

\* A step of a task.
LEMMA TaskTurnStage ==
  ASSUME IInv, StageInv, NEW t \in Turns, TaskTurn(t)
  PROVE  StageInv'
<1>1. DataOK /\ TurnTypeOK
  BY DEF IInv, DataOK, TypeOK
<1>2. CASE TaskStep(t)
  <2>1. TaskEffect(t)
    BY <1>1, <1>2, TaskStepEffect
  <2>2. \A u \in Turns : Stage(u)'
    BY <1>1, <1>2, TaskStepStage, OthersKept, OtherStage DEF StageInv
  <2>3. req'.task \in {NULL, req.task} /\ pc'[t] # "unborn"
    BY <1>1, <2>1 DEF TaskEffect, CompleteRequest, ForceCleanup, TurnTypeOK, Requests
  <2>4. \A u \in Turns : pc'[u] = "unborn" =>
          u # t /\ pc[u] = "unborn" /\ cancel'[u] = cancel[u]
    BY <1>1, <1>2, <2>3, OthersKept
  <2>5. req.task # NULL => req.task \in Turns
    BY <1>1 DEF TurnTypeOK, Requests
  <2>6. Spawned'
    BY <2>3, <2>4, <2>5 DEF StageInv, Spawned
  <2> QED
    BY <2>2, <2>6 DEF StageInv
<1>3. CASE AfterTurn(t)
  <2>1. /\ UNCHANGED <<req, pc, cancel, stored, sock, wire>>
        /\ \A u \in Turns \ {t} : gen'[u] = gen[u]
    BY <1>1, <1>3, AfterTurnEffect
  <2>2. \A u \in Turns : Stage(u)'
    BY <1>1, <1>3, <2>1, AfterTurnStage, OtherStage DEF StageInv
  <2> QED
    BY <2>1, <2>2 DEF StageInv, Spawned
<1> QED
  BY <1>2, <1>3 DEF TaskTurn, TurnStep, AfterTurn

\* Every step of the connection.
LEMMA NextStage == IInv /\ StageInv /\ [Next]_vars => StageInv'
<1> SUFFICES ASSUME IInv, StageInv, [Next]_vars PROVE StageInv'
  OBVIOUS
<1>0. TurnTypeOK
  BY DEF IInv, TypeOK
<1>1. CASE \E t \in Turns : TaskTurn(t)
  BY <1>1, TaskTurnStage
<1>2. CASE ~(\E t \in Turns : TaskTurn(t))
  <2>1. CASE AbortRequests
    <3>1. /\ pc' = pc /\ req'.task = req.task
          /\ \A t \in Turns : cancel'[t] # cancel[t] => HasRunningTask /\ t = req.task
      BY <1>0, <2>1 DEF AbortRequests, CancelRequests, TurnTypeOK, Requests
    <3>2. Spawned'
      BY <3>1 DEF StageInv, Spawned, HasRunningTask
    <3> QED
      BY <2>1, <3>2, AbortStage DEF StageInv
  <2>2. CASE \E r \in Requests : TakeMessage(r) /\ r \in {req, ForceCleanup(req)}
    <3>1. PICK r \in Requests : TakeMessage(r) /\ r \in {req, ForceCleanup(req)}
      BY <2>2
    <3>2. Spawned'
      BY <1>0, <3>1, TakenSpawned DEF StageInv
    <3>3. CASE \E u \in Turns : SpawnTurn(r, u)
      BY <1>0, <3>2, <3>3, SpawnStage DEF StageInv
    <3>4. CASE UNCHANGED <<pc, cancel, gen, stored, wire>>
      BY <1>2, <3>2, <3>4, LoopStepKinds, OtherStage DEF StageInv
    <3> QED
      BY <3>1, <3>3, <3>4 DEF TakeMessage, RejectMessage
  <2>3. CASE /\ UNCHANGED <<pc, cancel, gen, stored, applies, wire, asked>>
             /\ req' \in {req, ForceCleanup(req), CloseRequests(ForceCleanup(req))}
    <3>1. req'.task \in {NULL, req.task}
      BY <1>0, <2>3 DEF ForceCleanup, CloseRequests, TurnTypeOK, Requests
    <3>2. Spawned'
      BY <2>3, <3>1 DEF StageInv, Spawned
    <3> QED
      BY <1>2, <2>3, <3>2, LoopStepKinds, OtherStage DEF StageInv
  <2> QED
    BY <1>2, <2>1, <2>2, <2>3, LoopStepKinds
<1> QED
  BY <1>1, <1>2

\* Both invariants hold in every reachable state.
THEOREM StageInvariance == Spec => []StageInv
BY InitStage, NextStage, Invariance, PTL DEF Spec

\* However a turn ends, chat history has what its client saw of it, but for the one chunk
\* whose send was cut off: for every number of turns and chunks, every engine, either event
\* loop, and every interleaving of cancels, timeouts, failures and lost clients.
THEOREM HistoryHasWhatWasSeen == Spec => []HistoryMatchesWire
<1>1. IInv /\ StageInv => HistoryMatchesWire
  <2> SUFFICES ASSUME IInv, StageInv, NEW t \in Turns, pc[t] = "done"
               PROVE  /\ wire[t].shown <= stored[t] + 1
                      /\ wire[t].last = "done" => wire[t].shown <= stored[t]
                      /\ sock = "open" => stored[t] <= wire[t].shown
    BY DEF HistoryMatchesWire
  <2>1. Stage(t) /\ DataOK
    BY DEF StageInv, IInv, TypeOK, DataOK
  <2> QED
    BY <2>1, Numbers DEF Stage, Recorded, TokenSends
<1> QED
  BY <1>1, StageInvariance, Invariance, PTL

\* With vLLM and the event loop of Python 3.12, the engine never generates for a turn that
\* is cancelled or answered; what else it generates for is found by an abort, or is a turn
\* that was cut off at a send, before the event loop's finalizer closes its generators
\* (vllm/engine.py:67, controller.py:168-221, helpers.py:66-74, requests.py:88-107).
THEOREM NoOrphanedGeneration ==
  ASSUME Vllm, ~LegacyAsyncio
  PROVE  Spec => []EngineIsOwned
<1>1. IInv /\ StageInv => EngineIsOwned
  <2> SUFFICES ASSUME IInv, StageInv, NEW t \in Turns, gen[t].engine = "running"
               PROVE  /\ cancel[t] = "none" /\ wire[t].last \notin {"final", "done", "error"}
                      /\ \/ pc[t] \in {"stream", "tokensend"} /\ req.active = t
                         \/ pc[t] = "done" /\ gen[t].inflight
    BY DEF EngineIsOwned
  <2>1. /\ cancel[t] = "none" /\ wire[t].last \notin {"final", "done", "error"}
        /\ gen[t].inflight /\ pc[t] \in {"stream", "tokensend", "done"}
    BY DEF StageInv, Stage, Owned
  <2>2. pc[t] # "done" => req.active = t
    BY <2>1 DEF IInv, LiveIsTracked, Alive
  <2> QED
    BY <2>1, <2>2
<1> QED
  BY <1>1, StageInvariance, Invariance, PTL

\* Where no chat send can suspend, a turn that nobody cancelled ends with done or error.
THEOREM EveryTurnIsAnswered ==
  ASSUME ~(SendsSuspend /\ DeployChat)
  PROVE  Spec => []TurnsAreAnswered
<1>1. StageInv => TurnsAreAnswered
  BY DEF StageInv, Stage, Ordered, TurnsAreAnswered
<1> QED
  BY <1>1, StageInvariance, PTL

-----------------------------------------------------------------------------
(* The connection implements its protocol *)

\* The state of a turn in the protocol.
LEMMA StatusView ==
  /\ status = [t \in Turns |-> status[t]]
  /\ \A t \in Turns :
       status[t] = IF pc[t] = "unborn" THEN "waiting"
                   ELSE IF cancel[t] # "none" THEN "dead"
                   ELSE IF pc[t] = "done" THEN "over" ELSE "live"
BY DEF status

\* The same after a step.
LEMMA NextStatusView ==
  /\ status' = [t \in Turns |-> status'[t]]
  /\ \A t \in Turns :
       status'[t] = IF pc'[t] = "unborn" THEN "waiting"
                    ELSE IF cancel'[t] # "none" THEN "dead"
                    ELSE IF pc'[t] = "done" THEN "over" ELSE "live"
BY DEF status

\* A step that changes the state of at most one turn.
LEMMA StatusUpdate ==
  ASSUME NEW t \in Turns, NEW s, status'[t] = s,
         \A u \in Turns \ {t} : status'[u] = status[u]
  PROVE  status' = [status EXCEPT ![t] = s] /\ (s = status[t] => status' = status)
BY StatusView, NextStatusView

\* The frame that a step shows may follow the last one of its turn.
LEMMA FrameFollows ==
  ASSUME DataOK, NEW t \in Turns, Stage(t), cancel[t] = "none", NEW kind, Shows(t, kind)
  PROVE  kind \in Protocol!Follows(wire[t].last)
<1>1. CASE wire[t].last \in {"none", "tool"}
  BY <1>1 DEF Stage, Ordered, Shows, Protocol!Follows
<1>2. CASE wire[t].last = "token"
  BY <1>2 DEF Stage, Ordered, Shows, Protocol!Follows
<1>3. CASE wire[t].last = "final"
  BY <1>3 DEF Stage, Ordered, Shows, Protocol!Follows
<1>4. wire[t].last \in {"none", "tool", "token", "final"}
  BY DEF Stage, Ordered, Shows
<1> QED
  BY <1>1, <1>2, <1>3, <1>4

\* A step of task t, where silence after an abort is kept.
LEMMA TaskStepImplements ==
  ASSUME ~LegacyAsyncio, ~FlushBuffering, ~(SendsSuspend /\ DeployChat),
         IInv, Calm, StageInv, NEW t \in Turns, TaskStep(t)
  PROVE  [Protocol!Next]_(Protocol!vars)
<1>1. /\ DataOK /\ TurnTypeOK /\ TypeOK /\ Stage(t) /\ TaskEffect(t) /\ Stage(t)'
  BY TaskStepEffect, TaskStepStage DEF IInv, TypeOK, DataOK, StageInv
<1>2. /\ pc'[t] \notin {"unborn", "created"} /\ pc[t] # "unborn"
      /\ \A u \in Turns \ {t} : pc'[u] = pc[u] /\ cancel'[u] = cancel[u]
  BY <1>1 DEF TaskEffect, TurnTypeOK
<1>3. \A u \in Turns \ {t} : status'[u] = status[u]
  BY <1>2, StatusView, NextStatusView
<1>4. CASE DeliverCancel(t)
  <2>1. CancelUnstarted(t) \/ CancelAtAwait(t)
    BY <1>4 DEF DeliverCancel, CancelWithTail, Calm
  <2>2. wire' = wire /\ sock' = sock
    BY <2>1 DEF CancelUnstarted, CancelAtAwait
  <2>3. cancel[t] # "none" /\ cancel'[t] # "none"
    BY <1>1, <1>4 DEF DeliverCancel, TurnTypeOK
  <2>4. status'[t] = status[t]
    BY <1>2, <2>3, StatusView, NextStatusView
  <2>5. status' = status
    BY <1>3, <2>4, StatusUpdate
  <2> QED
    BY <2>2, <2>5 DEF Protocol!vars
<1>5. CASE ~DeliverCancel(t)
  <2>1. cancel[t] = "none" /\ cancel' = cancel
    BY <1>1, <1>5, RunningIsUncancelled
  <2>2. /\ status[t] = IF pc[t] = "done" THEN "over" ELSE "live"
        /\ status'[t] = IF pc'[t] = "done" THEN "over" ELSE "live"
    BY <1>2, <2>1, StatusView, NextStatusView
  <2>3. pc[t] # "done"
    BY <1>1 DEF TaskStep, BeginTurn, ToolAnswers, ToolTimesOut, ToolFails, ToolSent, EmitToken,
       BufferDelta, TokenSent, EngineEnds, CooperativeCancel, FinishStream, FinalSent,
       DoneSent, ErrorSent, EngineFails, ChatTimesOut, ChatTimesOutInSend, FailTailSent,
       DeliverCancel, CancelTailSent, SwallowCancel, Runs, Alive
  <2>4. CASE ShowsNothing
    <3>1. CASE pc'[t] = "done"
      <4>1. status' = [status EXCEPT ![t] = "over"]
        BY <1>3, <2>2, <3>1, StatusUpdate
      <4>2. sock = "open" => wire[t].last \in {"done", "error"}
        BY <1>1, <2>1, <2>4, <3>1 DEF ShowsNothing, Stage, Ordered
      <4> QED
        BY <2>2, <2>3, <2>4, <4>1, <4>2 DEF ShowsNothing, Protocol!Next, Protocol!Answer
    <3>2. CASE pc'[t] # "done"
      <4>1. status' = status
        BY <1>3, <2>2, <2>3, <3>2, StatusUpdate
      <4> QED
        BY <2>4, <4>1 DEF ShowsNothing, Protocol!vars
    <3> QED
      BY <3>1, <3>2
  <2>5. ASSUME NEW kind \in FrameKinds, Shows(t, kind)
        PROVE  Protocol!Next
    <3>1. pc'[t] # "done"
      BY <1>1, <2>5 DEF Shows, SendPhases, TurnTypeOK
    <3>2. status' = status
      BY <1>3, <2>2, <2>3, <3>1, StatusUpdate
    <3>3. kind \in Protocol!Follows(wire[t].last) /\ kind # "none"
      BY <1>1, <2>1, <2>5, FrameFollows DEF Shows
    <3>4. kind = "token" => wire[t].shown < MaxChunks
      BY <1>1, <2>5, Numbers, TurnConstants DEF Shows, TokenSends
    <3>5. wire' = [wire EXCEPT ![t].last = kind,
                               ![t].shown = IF kind = "token" THEN @ + 1 ELSE @]
      <4>1. /\ wire[t] \in [last : FrameKinds, shown : 0 .. MaxChunks]
            /\ wire \in [Turns -> [last : FrameKinds, shown : 0 .. MaxChunks]]
        BY <1>1 DEF TurnTypeOK
      <4>2. wire' = [wire EXCEPT ![t] =
                      [last |-> kind,
                       shown |-> IF kind = "token" THEN @.shown + 1 ELSE @.shown]]
        BY <2>5 DEF Shows
      <4> QED
        BY <4>1, <4>2
    <3>6. Protocol!Send(t, kind)
      BY <2>2, <2>3, <2>5, <3>2, <3>3, <3>4, <3>5 DEF Shows, Protocol!Send
    <3> QED
      BY <3>3, <3>6 DEF Protocol!Next, FrameKinds
  <2> QED
    BY <1>1, <1>5, <2>4, <2>5, StepShows
<1> QED
  BY <1>4, <1>5

\* A step of the connection's own task, of its client or of its watchdog.
LEMMA LoopStepImplements ==
  ASSUME IInv, StageInv, [Next]_vars, ~(\E t \in Turns : TaskTurn(t))
  PROVE  [Protocol!Next]_(Protocol!vars)
<1>1. TurnTypeOK
  BY DEF IInv, TypeOK
<1>2. ASSUME status' = status, wire' = wire
      PROVE  [Protocol!Next]_(Protocol!vars)
  <2>1. CASE (sock' = "open") = (sock = "open")
    BY <1>2, <2>1 DEF Protocol!vars
  <2>2. CASE sock = "open" /\ sock' # "open"
    BY <1>2, <2>2 DEF Protocol!Next, Protocol!Lose
  <2> QED
    BY <2>1, <2>2, LoopStepKinds
<1>3. CASE AbortRequests
  <2>1. UNCHANGED <<pc, sock, wire>>
    BY <1>3 DEF AbortRequests
  <2>2. CASE HasRunningTask
    <3> DEFINE t == req.task
    <3>1. t \in Turns /\ pc[t] \notin {"unborn", "done"}
      BY <1>1, <2>2 DEF HasRunningTask, TurnTypeOK, Requests, StageInv, Spawned
    <3>2. /\ cancel'[t] = "pending"
          /\ \A u \in Turns \ {t} : cancel'[u] = cancel[u]
      BY <1>1, <1>3, <2>2, <3>1 DEF AbortRequests, TurnTypeOK
    <3> HIDE DEF t
    <3>3. /\ status[t] = IF cancel[t] = "none" THEN "live" ELSE "dead"
          /\ status'[t] = "dead"
          /\ \A u \in Turns \ {t} : status'[u] = status[u]
      BY <2>1, <3>1, <3>2, StatusView, NextStatusView
    <3>4. status' = [status EXCEPT ![t] = "dead"]
      BY <3>1, <3>3, StatusUpdate
    <3>5. CASE cancel[t] = "none"
      BY <2>1, <3>1, <3>3, <3>4, <3>5 DEF Protocol!Next, Protocol!Kill
    <3>6. CASE cancel[t] # "none"
      <4>1. status' = status
        BY <3>1, <3>3, <3>6, StatusUpdate
      <4> QED
        BY <1>2, <2>1, <4>1
    <3> QED
      BY <3>5, <3>6
  <2>3. CASE ~HasRunningTask
    BY <1>2, <1>3, <2>1, <2>3 DEF AbortRequests, status
  <2> QED
    BY <2>2, <2>3
<1>4. ASSUME NEW r \in Requests, TakeMessage(r), \A u \in Turns : Alive(u) => cancel[u] # "none"
      PROVE  [Protocol!Next]_(Protocol!vars)
  <2>1. CASE UNCHANGED <<pc, cancel, wire>>
    BY <1>2, <2>1 DEF status
  <2>2. ASSUME NEW t \in Turns, SpawnTurn(r, t)
        PROVE  Protocol!Next
    <3>1. /\ pc[t] = "unborn" /\ pc' = [pc EXCEPT ![t] = "created"]
          /\ UNCHANGED <<cancel, sock, wire>> /\ cancel[t] = "none"
      BY <2>2 DEF SpawnTurn, StageInv, Spawned
    <3>2. status[t] = "waiting" /\ status' = [status EXCEPT ![t] = "live"]
      <4>1. pc'[t] = "created" /\ \A u \in Turns \ {t} : pc'[u] = pc[u]
        BY <1>1, <3>1 DEF TurnTypeOK
      <4>2. /\ status[t] = "waiting" /\ status'[t] = "live"
            /\ \A u \in Turns \ {t} : status'[u] = status[u]
        BY <3>1, <4>1, StatusView, NextStatusView
      <4> QED
        BY <4>2, StatusUpdate
    <3>3. \A u \in Turns : status[u] # "live"
      BY <1>4, StatusView DEF Alive
    <3>4. Protocol!Start(t)
      BY <3>1, <3>2, <3>3 DEF Protocol!Start
    <3> QED
      BY <3>4 DEF Protocol!Next
  <2> QED
    BY <1>4, <2>1, <2>2 DEF TakeMessage, RejectMessage
<1>5. CASE UNCHANGED <<pc, cancel, gen, stored, applies, wire, asked>>
  BY <1>2, <1>5 DEF status
<1> QED
  BY <1>3, <1>4, <1>5, LoopStepKinds

\* Without the micro-buffer, on the event loop of Python 3.12, and where no chat send can
\* suspend, the connection implements the protocol of its client: one live turn at a time,
\* frames in order, silence of aborted turns, an answer for the others.
THEOREM ProtocolImplemented ==
  ASSUME ~LegacyAsyncio, ~FlushBuffering, ~(SendsSuspend /\ DeployChat)
  PROVE  Spec => ImplementsProtocol
<1>1. Init => Protocol!Init
  BY DEF Init, TurnInit, status, Protocol!Init
<1>2. IInv /\ StageInv /\ Calm /\ [Next]_vars => [Protocol!Next]_(Protocol!vars)
  <2> SUFFICES ASSUME IInv, StageInv, Calm, [Next]_vars
               PROVE  [Protocol!Next]_(Protocol!vars)
    OBVIOUS
  <2>1. ASSUME NEW t \in Turns, TaskTurn(t)
        PROVE  [Protocol!Next]_(Protocol!vars)
    <3>1. CASE TaskStep(t)
      BY <3>1, TaskStepImplements
    <3>2. CASE AfterTurn(t)
      BY <3>2 DEF AfterTurn, GeneratorFinalized, StrayGenerationEnds, status, Protocol!vars
    <3> QED
      BY <2>1, <3>1, <3>2 DEF TaskTurn, TurnStep, AfterTurn
  <2> QED
    BY <2>1, LoopStepImplements
<1> QED
  BY <1>1, <1>2, Invariance, StageInvariance, CalmInvariance, PTL
  DEF Spec, ImplementsProtocol, Protocol!Spec

-----------------------------------------------------------------------------
(* The screen-checked prefix *)

\* The flag and the client agree, but for the one task that has sent its tool frame and not
\* resolved its utterance yet; its plan has the flag as it was.
FlagInv ==
  /\ ~started => ~followup /\ ~asked /\ \A t \in Turns : pc[t] = "unborn"
  /\ loop = "abort_message" => started
  /\ sock = "open" =>
       /\ (\A t \in Turns : pc[t] \notin ToolFrameSent) => followup = asked
       /\ \A t \in Turns :
            /\ pc[t] \in BeforeToolFrame \cup ToolFrameSent /\ cancel[t] = "none" =>
                 applies[t] = followup
            /\ pc[t] \in ToolFrameSent => cancel[t] = "none" /\ asked = (pc[t] = "toolsend_yes")

\* Every other task is at an await that is no send.
LEMMA AwaitsAreNoSends ==
  ASSUME ~SendsSuspend, NEW t \in Turns, AtAwait(t)
  PROVE  pc[t] \notin ToolFrameSent
BY DEF AtAwait, ToolFrameSent, SendPhases

\* A step of a task.
LEMMA TaskTurnFlag ==
  ASSUME DeployChat, ~SendsSuspend, ~LegacyAsyncio,
         IInv, StageInv, FlagInv, NEW t \in Turns, TaskTurn(t)
  PROVE  FlagInv'
<1>1. DataOK /\ TurnTypeOK /\ UNCHANGED loopVars /\ Stage(t)
  BY DEF IInv, DataOK, TypeOK, StageInv, TaskTurn
<1>2. \A u \in Turns \ {t} : pc[u] \notin ToolFrameSent
  BY AwaitsAreNoSends DEF TaskTurn
<1>3. CASE AfterTurn(t)
  BY <1>1, <1>3 DEF AfterTurn, GeneratorFinalized, StrayGenerationEnds, FlagInv, loopVars
<1>4. CASE TaskStep(t)
  <2>1. TaskEffect(t) /\ UNCHANGED applies
    BY <1>1, <1>4, TaskStepEffect, FlagStep
  <2>2. started /\ started' /\ UNCHANGED <<loop, started>> /\ pc[t] # "unborn"
    BY <1>1, <2>1 DEF FlagInv, TaskEffect, loopVars
  <2>3. /\ sock' = "open" => sock = "open"
        /\ \A u \in Turns \ {t} : pc'[u] = pc[u] /\ cancel'[u] = cancel[u]
    BY <1>1, <1>4, OthersKept
  <2>4. CASE KeepsFlag(t)
    <3>1. /\ pc'[t] \notin ToolFrameSent /\ UNCHANGED <<followup, asked>>
          /\ pc'[t] \in BeforeToolFrame => pc[t] \in BeforeToolFrame /\ cancel' = cancel
          /\ pc[t] \in ToolFrameSent => cancel[t] = "pending"
      BY <1>1, <2>4 DEF KeepsFlag, TurnTypeOK
    <3>2. sock = "open" => pc[t] \notin ToolFrameSent
      BY <3>1 DEF FlagInv
    <3> QED
      BY <1>2, <2>1, <2>2, <2>3, <3>1, <3>2 DEF FlagInv
  <2>5. CASE Resolves(t)
    <3>1. /\ pc'[t] \notin BeforeToolFrame \cup ToolFrameSent /\ UNCHANGED asked
          /\ pc[t] \in ToolFrameSent /\ followup' = FollowupAfter(t)
      BY <1>1, <2>5 DEF Resolves, TurnTypeOK
    <3>2. sock = "open" => followup' = asked
      <4>1. CASE pc[t] = "toolsend_yes"
        BY <3>1, <4>1 DEF FlagInv, FollowupAfter
      <4>2. CASE pc[t] = "toolsend_no"
        <5>1. /\ followup' = IF applies[t] THEN FALSE ELSE followup
              /\ followup \in BOOLEAN /\ pc[t] \in ToolFrameSent
          BY <1>1, <3>1, <4>2 DEF FollowupAfter, TurnTypeOK
        <5>2. sock = "open" => applies[t] = followup /\ asked = FALSE
          BY <4>2, <5>1 DEF FlagInv
        <5> QED
          BY <5>1, <5>2
      <4> QED
        BY <3>1, <4>1, <4>2 DEF ToolFrameSent
    <3>3. sock = "open" => cancel[t] = "none"
      BY <3>1 DEF FlagInv
    <3>4. \A u \in Turns \ {t} :
            sock = "open" /\ Alive(u) => cancel[u] # "none"
      BY <3>1, <3>3 DEF IInv, LiveIsTracked, Alive, ToolFrameSent
    <3>5. \A u \in Turns \ {t} :
            sock = "open" /\ cancel[u] = "none" =>
              pc[u] \notin BeforeToolFrame \cup ToolFrameSent
      BY <3>4 DEF Alive, BeforeToolFrame, ToolFrameSent
    <3> QED
      BY <1>2, <2>1, <2>2, <2>3, <3>1, <3>2, <3>5 DEF FlagInv
  <2>6. ASSUME NEW isTool \in BOOLEAN, Asks(t, isTool)
        PROVE  FlagInv'
    <3>1. CASE sock # "open"
      BY <2>2, <2>3, <3>1 DEF FlagInv
    <3>2. CASE sock = "open"
      <4>1. /\ pc[t] = "tool" /\ UNCHANGED <<followup, cancel>> /\ asked' = isTool
            /\ cancel[t] # "pending" /\ pc'[t] \in ToolFrameSent
            /\ asked' = (pc'[t] = "toolsend_yes")
        BY <1>1, <2>6, <3>2 DEF Asks, TurnTypeOK, ToolFrameSent
      <4>2. cancel[t] = "none"
        BY <1>1, <4>1 DEF Stage, Owned, TurnTypeOK
      <4>3. applies[t] = followup
        BY <3>2, <4>1, <4>2 DEF FlagInv, BeforeToolFrame
      <4> QED
        BY <1>2, <2>1, <2>2, <2>3, <3>2, <4>1, <4>2, <4>3 DEF FlagInv
    <3> QED
      BY <3>1, <3>2
  <2> QED
    BY <1>1, <1>4, <2>4, <2>5, <2>6, FlagStep
<1> QED
  BY <1>3, <1>4 DEF TaskTurn, TurnStep, AfterTurn

\* The tracked request is aborted while no task is suspended in a send.
LEMMA AbortFlag ==
  ASSUME ~SendsSuspend, TurnTypeOK, FlagInv, AbortRequests, Yielded,
         UNCHANGED started, loop' = "abort_message" => started
  PROVE  FlagInv'
<1>1. UNCHANGED <<pc, followup, applies, sock, asked>>
  BY DEF AbortRequests
<1>2. \A t \in Turns : cancel'[t] = "none" => cancel[t] = "none"
  BY DEF AbortRequests, TurnTypeOK
<1>3. \A t \in Turns : pc[t] \notin ToolFrameSent
  BY AwaitsAreNoSends DEF Yielded
<1> QED
  BY <1>1, <1>2, <1>3 DEF FlagInv

\* A step that leaves the turns and the flag alone.
LEMMA QuietFlag ==
  ASSUME TurnTypeOK, FlagInv, UNCHANGED <<pc, cancel, applies, asked>>,
         sock' = "open" => sock = "open", started => started',
         followup' = followup \/ (~started /\ followup' = FALSE),
         loop' = "abort_message" => started
  PROVE  FlagInv'
<1>1. followup' = followup
  BY DEF FlagInv, TurnTypeOK
<1> QED
  BY <1>1 DEF FlagInv

\* A turn is planned: with the flag as it is.
LEMMA SpawnFlag ==
  ASSUME TurnTypeOK, FlagInv, started, UNCHANGED started, NEW r,
         NEW t \in Turns, SpawnTurn(r, t)
  PROVE  FlagInv'
<1>1. UNCHANGED <<cancel, followup, sock, asked>> /\ loop' # "abort_message"
  BY DEF SpawnTurn
<1>2. pc'[t] = "created" /\ applies'[t] = followup
  BY DEF SpawnTurn, TurnTypeOK
<1>3. \A u \in Turns \ {t} : pc'[u] = pc[u] /\ applies'[u] = applies[u]
  BY DEF SpawnTurn, TurnTypeOK
<1>4. pc[t] \notin ToolFrameSent /\ pc'[t] \notin ToolFrameSent
  BY <1>2 DEF SpawnTurn, ToolFrameSent
<1>5. followup \in BOOLEAN
  BY DEF TurnTypeOK
<1> QED
  BY <1>1, <1>2, <1>3, <1>4, <1>5 DEF FlagInv

\* A message is taken.
LEMMA TakeMessageFlag ==
  ASSUME TurnTypeOK, FlagInv, started, UNCHANGED started, NEW r, TakeMessage(r),
         sock' = "open" => sock = "open"
  PROVE  FlagInv'
<1>1. CASE \E t \in Turns : SpawnTurn(r, t)
  BY <1>1, SpawnFlag
<1>2. CASE RejectMessage(r, "replying") \/ RejectMessage(r, "closing_error")
  BY <1>2, QuietFlag DEF RejectMessage, Reply
<1> QED
  BY <1>1, <1>2 DEF TakeMessage

\* Every step of the connection.
LEMMA NextFlag ==
  ASSUME DeployChat, ~SendsSuspend, ~LegacyAsyncio, IInv, StageInv, FlagInv, [Next]_vars
  PROVE  FlagInv'
<1>0. TurnTypeOK /\ started \in BOOLEAN
  BY DEF IInv, TypeOK
<1>1. CASE \E t \in Turns : TaskTurn(t)
  BY <1>1, TaskTurnFlag
<1>2. CASE ~(\E t \in Turns : TaskTurn(t))
  <2>1. sock' = "open" => sock = "open"
    BY <1>2, LoopStepKinds
  <2>2. CASE RecvControl \/ RecvEnd \/ CancelAborted
    BY <1>0, <2>1, <2>2, QuietFlag DEF RecvControl, RecvEnd, CancelAborted, Reply
  <2>3. CASE RecvStart
    BY <1>0, <2>1, <2>3, QuietFlag DEF RecvStart, Reply
  <2>4. CASE RecvCancel \/ Teardown
    BY <1>0, <2>4, AbortFlag DEF RecvCancel, Teardown, Receiving
  <2>5. CASE RecvMessage
    <3>1. CASE HasRunningTask
      BY <1>0, <2>5, <3>1, AbortFlag DEF RecvMessage, Receiving
    <3>2. CASE ~HasRunningTask
      BY <1>0, <2>1, <2>5, <3>2, TakeMessageFlag DEF RecvMessage
    <3> QED
      BY <3>1, <3>2
  <2>6. CASE MessageAborted
    <3>1. started
      BY <2>6 DEF MessageAborted, FlagInv
    <3> QED
      BY <1>0, <2>1, <2>6, <3>1, TakeMessageFlag DEF MessageAborted
  <2>7. CASE ReplySent \/ CloseSocket \/ ReceiveEnds \/ SessionClosed \/ FailedTeardown
    BY <1>0, <2>1, <2>7, QuietFlag
    DEF ReplySent, CloseSocket, ReceiveEnds, SessionClosed, FailedTeardown, turnVars
  <2>8. CASE ReceiveFails \/ ClientLeaves \/ WatchdogFires \/ UNCHANGED vars
    <3>1. /\ UNCHANGED <<pc, cancel, applies, asked, started, followup>>
          /\ loop' \in {loop, "raised"}
      BY <2>8 DEF ReceiveFails, ClientLeaves, WatchdogFires, vars, turnVars, loopVars
    <3>2. loop' = "abort_message" => started
      BY <3>1 DEF FlagInv
    <3> QED
      BY <1>0, <2>1, <3>1, <3>2, QuietFlag
  <2> QED
    BY <1>2, <2>2, <2>3, <2>4, <2>5, <2>6, <2>7, <2>8 DEF Next, ClientMessage, LoopContinues
<1> QED
  BY <1>1, <1>2

\* Where a chat engine is deployed, sends do not suspend and the event loop is Python
\* 3.12's, the screen-checked prefix goes to the turn planned right after the client was
\* asked for a screenshot and to no other (session.py:56, executor.py), whatever was
\* cancelled, refused or lost in between.
THEOREM PrefixFollowsRequest ==
  ASSUME DeployChat, ~SendsSuspend, ~LegacyAsyncio
  PROVE  Spec => FollowupMatches
<1>1. Init => FlagInv
  BY DEF Init, TurnInit, FlagInv, BeforeToolFrame, ToolFrameSent
<1>2. IInv /\ StageInv /\ FlagInv /\ [Next]_vars => FlagInv'
  BY NextFlag
<1>3. IInv /\ StageInv /\ FlagInv /\ [Next]_vars =>
        [\A t \in Turns : pc[t] = "unborn" /\ pc'[t] = "created" /\ sock = "open" =>
           applies'[t] = asked]_vars
  <2> SUFFICES ASSUME IInv, StageInv, FlagInv, [Next]_vars, NEW t \in Turns,
                      pc[t] = "unborn", pc'[t] = "created", sock = "open"
               PROVE  applies'[t] = asked
    OBVIOUS
  <2>0. TurnTypeOK
    BY DEF IInv, TypeOK
  <2>1. Yielded /\ \E r : TakeMessage(r)
    <3>1. ~(\E u \in Turns : TaskTurn(u))
      <4>1. ASSUME NEW u \in Turns, TaskTurn(u) PROVE FALSE
        <5>1. CASE TaskStep(u)
          <6>1. TaskEffect(u)
            BY <5>1, TaskStepEffect DEF IInv, TypeOK, DataOK
          <6> QED
            BY <2>0, <6>1 DEF TaskEffect, TurnTypeOK
        <5>2. CASE AfterTurn(u)
          BY <5>2 DEF AfterTurn, GeneratorFinalized, StrayGenerationEnds
        <5> QED
          BY <4>1, <5>1, <5>2 DEF TaskTurn, TurnStep, AfterTurn
      <4> QED
        BY <4>1
    <3> QED
      BY <3>1 DEF Next, ClientMessage, LoopContinues, RecvControl, RecvStart, RecvEnd,
         RecvCancel, RecvMessage, CancelAborted, MessageAborted, ReplySent, CloseSocket,
         ReceiveEnds, Teardown, SessionClosed, FailedTeardown, ReceiveFails, ClientLeaves,
         WatchdogFires, AbortRequests, vars, turnVars, Receiving
  <2>2. followup = asked
    BY <2>1, AwaitsAreNoSends DEF FlagInv, Yielded
  <2>3. PICK r : TakeMessage(r)
    BY <2>1
  <2>4. PICK u \in Turns : SpawnTurn(r, u)
    BY <2>3 DEF TakeMessage, RejectMessage
  <2>5. u = t /\ applies'[t] = followup
    BY <2>0, <2>4 DEF SpawnTurn, TurnTypeOK
  <2> QED
    BY <2>2, <2>5
<1> QED
  BY <1>1, <1>2, <1>3, Invariance, StageInvariance, PTL DEF Spec, FollowupMatches

=============================================================================
