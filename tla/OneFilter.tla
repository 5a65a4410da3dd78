------------------------------ MODULE OneFilter ------------------------------
(* What a reader of the process log may rely on: one filter stands between    *)
(* the writers and the output.  It decides line by line, drops the noise and  *)
(* keeps everything else in order.  The chain of wrappers in LogFilters is    *)
(* shown to implement it, however many wrappers are installed.                *)
EXTENDS Sequences, SequencesExt

CONSTANTS Writers, Texts, IsNoise(_, _), Lines(_), Rest(_)

VARIABLES
  installed,  \* is there a filter at all: without one nothing is held back
  noise,      \* what it drops
  held,       \* writer -> the line that has no end yet
  shown       \* what it has let through

vars == <<installed, noise, held, shown>>

Init ==
  /\ installed = FALSE
  /\ noise = {}
  /\ held = [w \in Writers |-> <<>>]
  /\ shown = <<>>

Install ==
  /\ ~installed
  /\ UNCHANGED <<held, shown>>

Kept(text) == IF IsNoise(text, noise) THEN <<>> ELSE text

Write(w, text) ==
  LET all == held[w] \o text IN
  /\ shown' = shown \o (IF installed THEN FlattenSeq([i \in DOMAIN Lines(all) |-> Kept(Lines(all)[i])])
                        ELSE text)
  /\ held' = [held EXCEPT ![w] = IF installed THEN Rest(all) ELSE <<>>]
  /\ UNCHANGED <<installed, noise>>

Flush(w) ==
  /\ shown' = shown \o Kept(held[w])
  /\ held' = [held EXCEPT ![w] = <<>>]
  /\ UNCHANGED <<installed, noise>>

Next ==
  \/ Install
  \/ \E w \in Writers: Flush(w) \/ \E text \in Texts: Write(w, text)

Spec == Init /\ [][Next]_vars
=============================================================================
