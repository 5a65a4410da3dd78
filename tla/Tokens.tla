------------------------------- MODULE Tokens -------------------------------
(***************************************************************************)
(* Counting and cutting texts by tokens: src/tokens/history.py and the     *)
(* parts of src/tokens/tokenizer.py it calls.                              *)
(*                                                                         *)
(* A text is the sequence of its tokens, so that white space at its ends   *)
(* does not exist, an empty text is <<>> and joining lines adds no token:  *)
(* the word counter the code falls back to, exactly, and any tokenizer for *)
(* which the token count of a cut text is the number of tokens kept.       *)
(***************************************************************************)
EXTENDS Integers, Sequences, SequencesExt, FiniteSetsExt

CONSTANT SpecialTokens  \* what the tool model adds to a non-empty input

ASSUME TokenConstants == SpecialTokens \in Nat

Texts == Seq(Nat)

\* SelectSeq, as a fold.
Selected(seq, Test(_)) ==
  FoldLeft(LAMBDA kept, e : IF Test(e) THEN Append(kept, e) ELSE kept, <<>>, seq)

ChatCount(text) == Len(text)

ToolCount(text) == IF text = <<>> THEN 0 ELSE Len(text) + SpecialTokens

FirstTokens(text, n) == SubSeq(text, 1, Min({n, Len(text)}))

LastTokens(text, n) == SubSeq(text, Max({1, Len(text) - n + 1}), Len(text))

\* FastTokenizer.trim and its fallback.
Cut(text, n, keep) ==
  IF n <= 0 THEN <<>>
  ELSE IF keep = "start" THEN FirstTokens(text, n) ELSE LastTokens(text, n)

(* The search the three fits share: the largest of 1..most that fits,       *)
(* halving the interval as the code does, or 0 when no probe fits.          *)
LargestFit(most, fitting) ==
  LET search[p \in (1..most + 1) \X (0..most)] ==
        LET lo == p[1]
            hi == p[2]
            mid == (lo + hi) \div 2
        IN IF lo > hi THEN lo - 1
           ELSE IF mid \in fitting THEN search[<<mid + 1, hi>>] ELSE search[<<lo, mid - 1>>]
  IN search[<<1, most>>]

CutToolText(text, budget, keep) ==
  LET fitting == {n \in 1..Len(text) :
                    Cut(text, n, keep) # <<>> /\ ToolCount(Cut(text, n, keep)) <= budget}
  IN IF budget <= 0 THEN <<>>
     ELSE IF ToolCount(text) <= budget THEN text
     ELSE Cut(text, LargestFit(Len(text), fitting), keep)

(* build_tool_history: lines are taken from the latest one backwards; the   *)
(* first that does not fit ends the walk, and if it is the latest its tail  *)
(* is kept.                                                                 *)
ToolLines(texts, budget) ==
  LET room == Max({1, budget})
      lines == Selected(texts, LAMBDA t : t # <<>>)
      Tail_(n) == SubSeq(lines, Len(lines) - n + 1, Len(lines))
      Fits(n) == ToolCount(FlattenSeq(Tail_(n))) <= room
      whole == CHOOSE n \in 0..Len(lines) :
                 /\ \A k \in 1..n : Fits(k)
                 /\ n = Len(lines) \/ ~Fits(n + 1)
      clipped == CutToolText(lines[Len(lines)], room, "end")
  IN IF lines = <<>> THEN <<>>
     ELSE IF whole > 0 THEN Tail_(whole)
     ELSE IF clipped # <<>> THEN <<clipped>> ELSE <<>>

=============================================================================
