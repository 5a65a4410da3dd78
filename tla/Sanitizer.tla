------------------------------ MODULE Sanitizer ------------------------------
(***************************************************************************)
(* The streaming sanitizer of chat answers (src/text/stream.py, suffix.py, *)
(* verbalize.py, with the patterns of src/config/filters.py). A chunk is   *)
(* appended to all the text so far, which is sanitized again from its      *)
(* start; what is stable of the result and was not sent goes to the client.*)
(* Left out are the patterns for "…", "°", emojis, typographic dashes, the *)
(* exclamation "oooh" and rare emoticons.                                  *)
(***************************************************************************)
EXTENDS Regex, FiniteSets

CONSTANTS
  PhoneNumbers,  \* texts that libphonenumber takes for a number
  MaxTail        \* _MAX_TAIL

ASSUME MaxTailAssumption == MaxTail \in Nat \ {0}

Digits == Chars("0123456789")
Lowers == "abcdefghijklmnopqrstuvwxyz"
Uppers == "ABCDEFGHIJKLMNOPQRSTUVWXYZ"
Letters == Chars(Lowers) \cup Chars(Uppers)
AlphaNum == Letters \cup Digits
Word == AlphaNum \cup {"_"}

Upper == [c \in Chars(Lowers) |-> LET n == CHOOSE k \in 1..26 : At(Lowers, k) = c IN At(Uppers, n)]
Lower == [c \in Chars(Uppers) |-> LET n == CHOOSE k \in 1..26 : At(Uppers, k) = c IN At(Lowers, n)]

\* The flag IGNORECASE.
Lowered(s) ==
  Sub(s, LAMBDA t, i : IF At(t, i) \in DOMAIN Lower THEN 1 ELSE 0, LAMBDA m : Lower[m])

-----------------------------------------------------------------------------
(* The patterns, in the order in which they are applied *)

\* ^\s*(?:freestyle mode\.?|on the screen now:)\s*
FreestylePrefix(s, i) ==
  LET blanks == Run(s, 1, Blanks)
      phrase == Longest(Lowered(s), blanks + 1,
                        {"freestyle mode", "freestyle mode.", "on the screen now:"})
      head == blanks + phrase
  IN IF i > 1 \/ phrase = 0 THEN 0 ELSE head + Run(s, head + 1, Blanks)

\* \s*(?:\\n|/n|\r?\n)+\s*
NewlineTokens(s, i) ==
  LET tokens[k \in Nat] ==
        LET n == Longest(s, k, {"\\n", "/n", "\n"}) IN IF n = 0 THEN 0 ELSE n + tokens[k + n]
      blanks == Run(s, i, Blanks)
      token == tokens[i + blanks]
      head == blanks + token
  IN IF token > 0 THEN head + Run(s, i + head, Blanks)
     ELSE IF \E k \in i..(i + blanks - 1) : At(s, k) = "\n" THEN blanks ELSE 0

LeadingNewlineTokens(s, i) == IF i > 1 THEN 0 ELSE NewlineTokens(s, i)

EmailLocal == AlphaNum \cup Chars("._%+-")
EmailDomain == AlphaNum \cup Chars(".-")

\* [a-zA-Z0-9._%+-]+@[a-zA-Z0-9.-]+\.[a-zA-Z]{2,}: up to the last dot that two letters follow.
Email(s, i) ==
  LET at == i + Run(s, i, EmailLocal)
      domain == Run(s, at + 1, EmailDomain)
      dots == {k \in (at + 2)..(at + domain) : At(s, k) = "." /\ Run(s, k + 1, Letters) >= 2}
      last == CHOOSE k \in dots : \A j \in dots : j <= k
  IN IF at = i \/ ~Is(s, at, "@") \/ dots = {} THEN 0 ELSE last + Run(s, last + 1, Letters) - i + 1

VerbalizeEmail(m) ==
  Sub(m, LAMBDA s, i : IF At(s, i) \in {"@", "."} THEN 1 ELSE 0,
         LAMBDA c : IF c = "@" THEN " at " ELSE " dot ")

\* PhoneNumberMatcher: a number is not a part of a longer one.
Phone(s, i) ==
  LET n == Longest(s, i, PhoneNumbers) IN IF Run(s, i + n, Digits) > 0 THEN 0 ELSE n

DigitWords ==
  <<"zero", "one", "two", "three", "four", "five", "six", "seven", "eight", "nine">>

VerbalizePhone(m) ==
  LStrip(Sub(m, LAMBDA s, i : 1,
    LAMBDA c : IF c = "+" THEN " plus"
               ELSE IF c \in Digits
                 THEN " " \o DigitWords[CHOOSE d \in 1..10 : At("0123456789", d) = c]
               ELSE ""))

ActionEmote(s, i) == Longest(Lowered(s), i, {"*smile*", "*smiles*", "*wink*", "*winks*"})

Character(c, s, i) == IF At(s, i) = c THEN 1 ELSE 0

\* Dots, then the blanks after them, then an end: ".. ", "... .", "... ".
DotsThen(s, i, dots, least, end) ==
  LET head == Len(dots) + Run(s, i + Len(dots), Blanks)
  IN IF Is(s, i, dots) /\ head >= Len(dots) + least /\ Is(s, i + head, end)
     THEN head + Len(end) ELSE 0

DotRun(s, i) == LET n == Run(s, i, {"."}) IN IF n >= 4 THEN n ELSE 0

\* (?:\.\s+)+\.
SpacedDots(s, i) ==
  LET more[k \in Nat] ==
        LET n == DotsThen(s, k, ".", 1, ".") IN IF n = 0 THEN 0 ELSE n - 1 + more[k + n - 1]
  IN IF more[i] = 0 THEN 0 ELSE more[i] + 1

\* (?<!\.)\.(?!\.)(?=[A-Za-z0-9])
SmushedPeriod(s, i) ==
  IF Run(s, i, {"."}) = 1 /\ RunBefore(s, i, {"."}) = 0 /\ Run(s, i + 1, AlphaNum) > 0 THEN 1 ELSE 0

\* (\d)\s+-\s+(\d)
Subtraction(s, i) ==
  LET dash == i + 1 + Run(s, i + 1, Blanks)
      end == dash + 1 + Run(s, dash + 1, Blanks)
  IN IF /\ At(s, i) \in Digits /\ Is(s, dash, "-") /\ Run(s, end, Digits) > 0
        /\ dash > i + 1 /\ end > dash + 1
     THEN end - i + 1 ELSE 0

\* (?<!\w)-(\d)
NegativeNumber(s, i) ==
  IF Is(s, i, "-") /\ RunBefore(s, i, Word) = 0 /\ Run(s, i + 1, Digits) > 0 THEN 2 ELSE 0

\* A dash with a letter after it, alone or not.
Hyphen(s, i, before, alone) ==
  IF /\ At(s, i) \in before /\ Is(s, i + 1, "-")
     /\ IF alone THEN Run(s, i + 2, Letters) = 1 ELSE Run(s, i + 2, Letters) >= 1
  THEN 3 ELSE 0

Dashes(s, i) == LET n == Run(s, i, {"-"}) IN IF n >= 2 THEN n ELSE 0

\* \s+([,?!])
SpacedPunctuation(s, i) ==
  LET n == Run(s, i, Blanks) IN IF n > 0 /\ Run(s, i + n, Chars(",?!")) > 0 THEN n + 1 ELSE 0

\* (?:\\+)(["'])
EscapedQuote(s, i) ==
  LET n == Run(s, i, {"\\"}) IN IF n > 0 /\ Run(s, i + n, {"\"", "'"}) > 0 THEN n + 1 ELSE 0

Eyes == Chars(":=;8")

\* (?<![A-Za-z0-9]), then eyes with or without a nose and a mouth, a heart or a grin.
Emoticon(s, i) ==
  LET nose == IF Run(s, i + 1, Chars("-^")) > 0 THEN 1 ELSE 0
  IN IF RunBefore(s, i, AlphaNum) > 0 THEN 0
     ELSE IF At(s, i) \in Eyes /\ Run(s, i + 1 + nose, Chars(")dDpP(/\\oO")) > 0 THEN 2 + nose
     ELSE IF Is(s, i, "<3") \/ (Is(s, i, ":3") /\ Run(s, i + 2, Digits) = 0) THEN 2
     ELSE IF Is(Lowered(s), i, "xd") /\ Run(s, i + 2, Letters) = 0 THEN 2
     ELSE 0

\* <[^>]+>
HtmlTag(s, i) ==
  LET ends == {k \in (i + 2)..Len(s) : At(s, k) = ">" /\ \A j \in (i + 1)..(k - 1) : At(s, j) # ">"}
  IN IF At(s, i) = "<" /\ ends # {} THEN (CHOOSE k \in ends : TRUE) - i + 1 ELSE 0

\* html.unescape: the semicolon may be missing.
Entity(s, i) == Longest(s, i, {"&amp;", "&amp", "&lt;", "&lt", "&gt;", "&gt"})

Unescaped(m) ==
  CASE m \in {"&amp;", "&amp"} -> "&" [] m \in {"&lt;", "&lt"} -> "<" [] OTHER -> ">"

SpaceRun(s, i) == LET n == Run(s, i, {" ", "\t"}) IN IF n >= 2 THEN n ELSE 0

LeadingCapital(s) ==
  LET letters == {i \in 1..Len(s) : At(s, i) \in Letters}
      first == CHOOSE i \in letters : \A j \in letters : i <= j
  IN IF letters = {} \/ At(s, first) \notin DOMAIN Upper THEN s
     ELSE SubSeq(s, 1, first - 1) \o Upper[At(s, first)] \o SubSeq(s, first + 1, Len(s))

Words(s) ==
  LET Nothing(m) == ""
      Space(m) == " "
      prefix == Sub(s, FreestylePrefix, Nothing)
      start == Sub(prefix, LeadingNewlineTokens, Nothing)
      spoken == Sub(Sub(start, Email, VerbalizeEmail), Phone, VerbalizePhone)
      acted == Sub(spoken, ActionEmote, Nothing)
  IN Sub(Sub(acted, LAMBDA t, i : Character("*", t, i), Space), NewlineTokens, Space)

Dots(s) ==
  LET Ellipsis(m) == "..."
      doubled == Sub(s, LAMBDA t, i : DotsThen(t, i, "..", 0, ""), Ellipsis)
      dotted == Sub(doubled, LAMBDA t, i : DotsThen(t, i, "...", 0, "."), Ellipsis)
      spaced == Sub(dotted, LAMBDA t, i : DotsThen(t, i, "...", 1, ""), Ellipsis)
      single == Sub(Sub(spaced, DotRun, Ellipsis), SpacedDots, LAMBDA m : ".")
  IN Sub(single, SmushedPeriod, LAMBDA m : ". ")

Signs(s) ==
  LET First(m) == At(m, 1)
      Last(m) == At(m, Len(m))
      percent == Sub(s, LAMBDA t, i : Character("%", t, i), LAMBDA m : " percent")
      minus == Sub(percent, Subtraction, LAMBDA m : First(m) \o " minus " \o Last(m))
      negative == Sub(minus, NegativeNumber, LAMBDA m : " minus " \o Last(m))
      joined == Sub(negative, LAMBDA t, i : Hyphen(t, i, Word, TRUE), LAMBDA m : First(m) \o Last(m))
      apart == Sub(joined, LAMBDA t, i : Hyphen(t, i, Letters, FALSE), LAMBDA m : First(m) \o " " \o Last(m))
  IN Sub(Sub(apart, Dashes, LAMBDA m : " "), SpacedPunctuation, Last)

Marks(s) ==
  LET quoted == Sub(s, EscapedQuote, LAMBDA m : "")
      faceless == Sub(Sub(quoted, Emoticon, LAMBDA m : " "), SpaceRun, LAMBDA m : " ")
      plain == Sub(faceless, HtmlTag, LAMBDA m : "")
  IN Sub(Sub(plain, Entity, Unescaped), SpaceRun, LAMBDA m : " ")

(* _sanitize_stream_chunk. The start of the text is never dropped            *)
(* (_trimmed_stream_start stays false), so every pass treats it as the start. *)
Sanitize(s) == LStrip(LeadingCapital(Marks(Signs(Dots(Words(s))))))

-----------------------------------------------------------------------------
(* The guards: how much of the end of a text may still change *)

UnstableChars == Blanks \cup {"/", "\\"}

UnstableSuffix(s) ==
  LET chars == RunBefore(s, Len(s) + 1, UnstableChars)
  IN chars + RunBefore(s, Len(s) + 1 - chars, {"."})

EntitySuffix(s) ==
  SuffixLength(s, LAMBDA t, i :
    Is(t, i, "&") /\ Run(t, i + 1, Letters) <= 10 /\ AtEnd(t, i + 1 + Run(t, i + 1, Letters)))

TagSuffix(raw) ==
  LET last == Len(raw) + 1 - SuffixLength(raw, LAMBDA t, i : Is(t, i, "<") /\ \A j \in (i + 1)..Len(t) : At(t, j) # "<")
  IN IF last > Len(raw) \/ (\E j \in last..Len(raw) : At(raw, j) = ">") \/ Run(raw, last + 1, Digits) > 0
     THEN 0 ELSE Len(raw) + 1 - last

HasEmail(raw) == \E i \in 1..Len(raw) : Email(raw, i) > 0

Least(m, n) == IF m < n THEN m ELSE n

\* A text with an email in it keeps a fixed number of characters; else the start of one.
EmailSuffix(raw) ==
  IF HasEmail(raw) THEN Least(16, Len(raw))
  ELSE SuffixLength(raw, LAMBDA t, i :
         LET at == i + Run(t, i, EmailLocal)
         IN at > i /\ (AtEnd(t, at) \/ (Is(t, at, "@") /\ AtEnd(t, at + 1 + Run(t, at + 1, EmailDomain)))))

PhoneSuffix(raw) ==
  SuffixLength(raw, LAMBDA t, i :
    At(t, i) \in Digits \cup {"+"} /\ AtEnd(t, i + 1 + Run(t, i + 1, Digits \cup Chars(" -()"))))

EmoticonSuffix(raw) ==
  SuffixLength(raw, LAMBDA t, i :
    LET Nose(first, nose) == At(t, i) \in first /\ AtEnd(t, i + 1 + Least(1, Run(t, i + 1, nose)))
    IN \/ At(t, i) \in Chars("<xX") /\ AtEnd(t, i + 1)
       \/ Nose(Eyes, Chars("-^")) \/ Nose({"^", "t", "T"}, {"_"}))

Greatest(S) == CHOOSE n \in S : \A m \in S : m <= n

\* Mutant of Guards: none for emoticons.
GuardsButFaces(raw, sanitized) ==
  {UnstableSuffix(sanitized), EntitySuffix(sanitized), TagSuffix(raw), EmailSuffix(raw), PhoneSuffix(raw)}

(* The lengths are measured on either text, and cut from the sanitized one.  *)
Guards(raw, sanitized) ==
  {UnstableSuffix(sanitized), EntitySuffix(sanitized), TagSuffix(raw), EmailSuffix(raw),
   PhoneSuffix(raw), EmoticonSuffix(raw)}

\* Mutant of HeldBack: no cap.
HeldBackUncapped(raw, sanitized) == Least(Len(sanitized), Greatest(Guards(raw, sanitized)))

\* compute_stable_and_tail_lengths: the length of the tail.
HeldBack(raw, sanitized) ==
  Least(MaxTail, Least(Len(sanitized), Greatest(Guards(raw, sanitized))))
=============================================================================
