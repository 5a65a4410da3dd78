---------------------------- MODULE ToolService ----------------------------
(***************************************************************************)
(* What a turn may rely on when it has its utterance classified: it hears  *)
(* the answer to its own utterance, or that there is none, at most once,   *)
(* and nothing after it gave up.                                           *)
(***************************************************************************)
CONSTANT Calls  \* names of classifications: one that is over may be used again

VARIABLE heard  \* what the turn behind each call knows

\* A call starts "idle", is "awaiting" once asked for, and ends in one of these.
Over == {"answered", "failed", "gaveup"}

Init == heard = [c \in Calls |-> "idle"]

Becomes(c, from, to) == heard[c] \in from /\ heard' = [heard EXCEPT ![c] = to]

Next ==
  \E c \in Calls :
    \/ Becomes(c, {"idle"}, "awaiting")
    \/ \E end \in Over : Becomes(c, {"awaiting"}, end)
    \/ Becomes(c, Over, "idle")

Spec == Init /\ [][Next]_heard

=============================================================================
