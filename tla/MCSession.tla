----------------------------- MODULE MCSession -----------------------------
(* Session for TLC: the turns are model values, interchangeable in safety runs. *)
EXTENDS Session, TLC

Symmetry == Permutations(Turns)

\* Bound of the run with three turns: a client that leaves does so during its first two.
Explored == sock = "open" \/ \E t \in Turns : pc[t] = "unborn"
=============================================================================
