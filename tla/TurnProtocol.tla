---------------------------- MODULE TurnProtocol ----------------------------
(***************************************************************************)
(* What a connection promises its client about message turns, without      *)
(* tasks, engines, tool models or the session's request tracking: at most  *)
(* one turn is live, only the live turn sends frames, its frames come in   *)
(* the order of ADVANCED.md ("What You Receive"), a dead turn is silent,   *)
(* and a turn that nobody killed is over only once it was answered.        *)
(***************************************************************************)
EXTENDS Naturals

CONSTANTS Turns, MaxChunks

VARIABLES
  status,    \* "waiting", "live", "dead" (aborted) or "over"
  frames,    \* what the client received of each turn
  connected  \* the client can still receive

vars == <<status, frames, connected>>

Init ==
  /\ status = [t \in Turns |-> "waiting"]
  /\ frames = [t \in Turns |-> [last |-> "none", shown |-> 0]]
  /\ connected = TRUE

\* The frames that may follow a frame of the same turn.
Follows(last) ==
  CASE last = "none" -> {"tool", "token", "error"}
    [] last = "tool" -> {"token", "final", "error"}
    [] last = "token" -> {"token", "final", "error"}
    [] last = "final" -> {"done"}
    [] last \in {"done", "error"} -> {}

Start(t) ==
  /\ status[t] = "waiting"
  /\ \A u \in Turns : status[u] # "live"
  /\ status' = [status EXCEPT ![t] = "live"]
  /\ UNCHANGED <<frames, connected>>

Send(t, kind) ==
  /\ status[t] = "live" /\ connected
  /\ kind \in Follows(frames[t].last)
  /\ kind = "token" => frames[t].shown < MaxChunks
  /\ frames' = [frames EXCEPT ![t].last = kind,
                              ![t].shown = IF kind = "token" THEN @ + 1 ELSE @]
  /\ UNCHANGED <<status, connected>>

Answer(t) ==
  /\ status[t] = "live"
  /\ connected => frames[t].last \in {"done", "error"}
  /\ status' = [status EXCEPT ![t] = "over"]
  /\ UNCHANGED <<frames, connected>>

\* A cancel, the next message or the teardown.
Kill(t) ==
  /\ status[t] = "live"
  /\ status' = [status EXCEPT ![t] = "dead"]
  /\ UNCHANGED <<frames, connected>>

\* The connection is lost, perhaps by the very send that ends a turn.
Lose ==
  /\ connected
  /\ connected' = FALSE
  /\ UNCHANGED <<status, frames>>

Next ==
  \/ Lose
  \/ \E t \in Turns :
       \/ Start(t) \/ Answer(t) \/ Kill(t)
       \/ \E kind \in {"tool", "token", "final", "done", "error"} : Send(t, kind)

Spec == Init /\ [][Next]_vars
=============================================================================
