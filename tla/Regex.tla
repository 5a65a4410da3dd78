-------------------------------- MODULE Regex --------------------------------
(* What Python's re does with a text, for the patterns of Sanitizer. A text is a *)
(* string, a pattern an operator: the length of its match at a place, or 0.  *)
EXTENDS Naturals, Sequences

At(s, i) == SubSeq(s, i, i)

Chars(s) == {At(s, i) : i \in 1..Len(s)}

\* The text t stands at i.
Is(s, i, t) == i + Len(t) - 1 <= Len(s) /\ SubSeq(s, i, i + Len(t) - 1) = t

\* How many characters from i on are in S.
Run(s, i, S) ==
  LET run[k \in Nat] == IF k <= Len(s) /\ At(s, k) \in S THEN 1 + run[k + 1] ELSE 0 IN run[i]

\* How many characters before i are in S.
RunBefore(s, i, S) ==
  LET run[k \in Nat] == IF k > 0 /\ At(s, k) \in S THEN 1 + run[k - 1] ELSE 0 IN run[i - 1]

\* $ also matches before a newline that ends the text.
AtEnd(s, i) == i > Len(s) \/ (i = Len(s) /\ At(s, i) = "\n")

\* The longest of some texts that stands at i.
Longest(s, i, texts) ==
  LET here == {t \in texts : Is(s, i, t)}
  IN IF here = {} THEN 0 ELSE Len(CHOOSE t \in here : \A u \in here : Len(u) <= Len(t))

\* pattern.sub: New gives the text for a match.
Sub(s, Match(_, _), New(_)) ==
  LET rest[i \in Nat] ==
        IF i > Len(s) THEN ""
        ELSE LET n == Match(s, i)
             IN IF n = 0 THEN At(s, i) \o rest[i + 1]
                ELSE New(SubSeq(s, i, i + n - 1)) \o rest[i + n]
  IN rest[1]

\* pattern.search for a pattern that ends in $: how much of the text it takes.
SuffixLength(s, Matches(_, _)) ==
  LET starts == {i \in 1..Len(s) : Matches(s, i)}
  IN IF starts = {} THEN 0 ELSE Len(s) + 1 - (CHOOSE i \in starts : \A j \in starts : i <= j)

Blanks == {" ", "\t", "\n"}

LStrip(s) == SubSeq(s, Run(s, 1, Blanks) + 1, Len(s))

RStrip(s) == SubSeq(s, 1, Len(s) - RunBefore(s, Len(s) + 1, Blanks))

CommonPrefix(s, t) ==
  LET same[i \in Nat] ==
        IF i <= Len(s) /\ i <= Len(t) /\ At(s, i) = At(t, i) THEN 1 + same[i + 1] ELSE 0
  IN same[1]

IsPrefixOf(s, t) == CommonPrefix(s, t) = Len(s)
=============================================================================
