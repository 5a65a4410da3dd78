-------------------------- MODULE ConversationProofs --------------------------
(***************************************************************************)
(* Proofs about Conversation, for every budget, every payload and every    *)
(* number of turns: its types; that the stores stay within their budgets,  *)
(* hold the latest part of what was said and list the turns in their order; *)
(* that every prompt fits, alternates and ends with the user's text; and   *)
(* that no screen prefix is remembered, if prefixes can be recognised.     *)
(* The first half is about the operators of Tokens and ChatHistory.  They  *)
(* are folds and recursive functions, so each is first shown to exist and to *)
(* go over one more element last.                                          *)
(***************************************************************************)
EXTENDS Conversation, SequenceTheorems, WellFoundedInduction, TLAPS

(* Counting, folds and sequences *)

\* A set of numbers has its least one in it.
LEMMA LeastOf ==
  ASSUME NEW S \in SUBSET Nat, S # {}
  PROVE  Min(S) \in S /\ \A k \in S : Min(S) <= k
<1>1. PICK m \in S : \A k \in S : ~(<<k, m>> \in OpToRel(<, Nat))
  BY NatLessThanWellFounded, WFMin
<1>2. ASSUME NEW k \in S PROVE m <= k
  <2>1. k < m => <<k, m>> \in OpToRel(<, Nat)
    BY DEF OpToRel
  <2>2. ~(k < m)
    BY <1>1, <2>1, Zenon
  <2> QED BY <2>2
<1> QED BY <1>1, <1>2 DEF Min

\* Counting up from 0 reaches every number of an interval.
LEMMA Induct ==
  ASSUME NEW n \in Nat, NEW P, 0 \in P, \A k \in 0 .. n - 1 : k \in P => k + 1 \in P
  PROVE  \A k \in 0 .. n : k \in P
<1> SUFFICES ASSUME NEW j \in 0 .. n, j \notin P
             PROVE  FALSE
  OBVIOUS
<1> DEFINE Out == {k \in 0 .. n : k \notin P}
<1>1. Out \in SUBSET Nat /\ Out # {}
  OBVIOUS
<1> DEFINE m == Min(Out)
<1>2. m \in Out /\ \A k \in Out : m <= k
  BY <1>1, LeastOf
<1> HIDE DEF m
<1>3. m # 0 /\ m - 1 \in 0 .. n - 1 /\ m - 1 \in P
  BY <1>2
<1> QED BY <1>2, <1>3

\* A set of numbers up to n has its greatest one in it.
LEMMA GreatestOf ==
  ASSUME NEW n \in Nat, NEW s \in SUBSET (1 .. n), s # {}
  PROVE  Max(s) \in s
<1> DEFINE P == {k \in 0 .. n : \A x \in SUBSET (1 .. k) :
                   x # {} => \E m \in x : \A y \in x : m >= y}
<1>1. 0 \in P
  <2>1. \A x \in SUBSET (1 .. 0) : x = {}
    OBVIOUS
  <2>2. 0 \in 0 .. n
    OBVIOUS
  <2> QED BY <2>1, <2>2
<1>2. ASSUME NEW k \in 0 .. n - 1, k \in P
      PROVE  k + 1 \in P
  <2> SUFFICES ASSUME NEW x \in SUBSET (1 .. k + 1), x # {}
               PROVE  \E m \in x : \A y \in x : m >= y
    OBVIOUS
  <2>1. CASE k + 1 \in x
    <3>1. \A y \in x : k + 1 >= y
      OBVIOUS
    <3> QED BY <2>1, <3>1
  <2>2. CASE k + 1 \notin x
    <3>1. x \in SUBSET (1 .. k)
      BY <2>2
    <3> QED BY <3>1, <1>2
  <2> QED BY <2>1, <2>2
<1> HIDE DEF P
<1>3. n \in P
  BY <1>1, <1>2, Induct
<1>4. \E m \in s : \A y \in s : m >= y
  BY <1>3 DEF P
<1> QED BY <1>4 DEF Max

\* The last of an initial part of the numbers.
LEMMA Latest ==
  ASSUME NEW k \in Nat \ {0}
  PROVE  Max(1 .. k) = k /\ (1 .. k) \ {k} = 1 .. k - 1
BY DEF Max

\* The initial parts of an interval.
LEMMA Parts ==
  ASSUME NEW n \in Nat, NEW i \in 1 .. n
  PROVE  1 .. i \in SUBSET (1 .. n) /\ 1 .. i # {} /\ 1 .. i - 1 \in SUBSET (1 .. n)
<1>1. 1 \in 1 .. i
  OBVIOUS
<1>2. \A k \in 1 .. i : k \in 1 .. n
  OBVIOUS
<1>3. \A k \in 1 .. i - 1 : k \in 1 .. n
  OBVIOUS
<1> QED BY <1>1, <1>2, <1>3

\* A recursive definition over the subsets of 1..n, each without its greatest element.
Solves(g, n, base, Op) ==
  g = [s \in SUBSET (1 .. n) |-> IF s = {} THEN base ELSE Op[<<g[s \ {Max(s)}], Max(s)>>]]

\* It has a solution.
LEMMA FoldExists ==
  ASSUME NEW V, NEW n \in Nat, NEW base \in V, NEW Op \in [V \X (1 .. n) -> V]
  PROVE  \E g \in [SUBSET (1 .. n) -> V] : Solves(g, n, base, Op)
<1> DEFINE Sol(g, k) == Solves(g, k, base, Op)
           P == {k \in 0 .. n : \E g \in [SUBSET (1 .. k) -> V] : Sol(g, k)}
<1>1. 0 \in P
  <2> DEFINE g == [s \in SUBSET (1 .. 0) |-> base]
  <2>1. SUBSET (1 .. 0) = {{}}
    OBVIOUS
  <2>2. g \in [SUBSET (1 .. 0) -> V] /\ Sol(g, 0)
    BY <2>1 DEF Solves
  <2> QED BY <2>2
<1>2. ASSUME NEW k \in 0 .. n - 1, k \in P
      PROVE  k + 1 \in P
  <2>1. PICK g \in [SUBSET (1 .. k) -> V] : Sol(g, k)
    BY <1>2
  <2> DEFINE h == [s \in SUBSET (1 .. k + 1) |->
                     IF k + 1 \in s THEN Op[<<g[s \ {k + 1}], k + 1>>] ELSE g[s]]
  <2>2. ASSUME NEW s \in SUBSET (1 .. k + 1)
        PROVE  /\ k + 1 \in s => Max(s) = k + 1 /\ s \ {k + 1} \in SUBSET (1 .. k)
               /\ k + 1 \notin s => s \in SUBSET (1 .. k)
    <3>1. k + 1 \in s => Max(s) = k + 1
      <4>1. \A y \in s : y <= k + 1 /\ y \in Int
        OBVIOUS
      <4>2. SUFFICES ASSUME k + 1 \in s PROVE Max(s) = k + 1
        OBVIOUS
      <4>3. \A x \in s : (\A y \in s : x >= y) => x = k + 1
        BY <4>1, <4>2
      <4> QED BY <4>1, <4>2, <4>3 DEF Max
    <3>2. k + 1 \in s => s \ {k + 1} \in SUBSET (1 .. k)
      OBVIOUS
    <3>3. k + 1 \notin s => s \in SUBSET (1 .. k)
      OBVIOUS
    <3> QED BY <3>1, <3>2, <3>3
  <2>3. \A s \in SUBSET (1 .. k) : h[s] = g[s] /\ g[s] \in V
    <3> SUFFICES ASSUME NEW s \in SUBSET (1 .. k) PROVE h[s] = g[s] /\ g[s] \in V
      OBVIOUS
    <3>1. s \in SUBSET (1 .. k + 1) /\ k + 1 \notin s
      OBVIOUS
    <3> QED BY <3>1, <2>1
  <2>4. h \in [SUBSET (1 .. k + 1) -> V]
    <3> SUFFICES ASSUME NEW s \in SUBSET (1 .. k + 1) PROVE h[s] \in V
      BY Zenon
    <3>1. CASE k + 1 \in s
      <4>1. g[s \ {k + 1}] \in V
        BY <3>1, <2>2, <2>1
      <4> QED BY <4>1, <3>1
    <3>2. CASE k + 1 \notin s
      BY <3>2, <2>2, <2>3
    <3> QED BY <3>1, <3>2
  <2>5. ASSUME NEW s \in SUBSET (1 .. k + 1)
        PROVE  h[s] = IF s = {} THEN base ELSE Op[<<h[s \ {Max(s)}], Max(s)>>]
    <3>1. CASE k + 1 \in s
      <4>1. h[s] = Op[<<g[s \ {k + 1}], k + 1>>]
        BY <3>1
      <4>2. h[s \ {k + 1}] = g[s \ {k + 1}]
        BY <3>1, <2>2, <2>3
      <4> HIDE DEF h
      <4> QED BY <3>1, <2>2, <4>1, <4>2
    <3>2. CASE k + 1 \notin s
      <4>1. h[s] = g[s] /\ s \in SUBSET (1 .. k)
        BY <3>2, <2>2, <2>3
      <4>2. g[s] = IF s = {} THEN base ELSE Op[<<g[s \ {Max(s)}], Max(s)>>]
        BY <2>1, <4>1 DEF Solves
      <4>3. s \ {Max(s)} \in SUBSET (1 .. k)
        BY <4>1
      <4>4. h[s \ {Max(s)}] = g[s \ {Max(s)}]
        BY <4>3, <2>3
      <4> HIDE DEF h
      <4> QED BY <4>1, <4>2, <4>4
    <3> QED BY <3>1, <3>2
  <2>6. Sol(h, k + 1)
    <3> HIDE DEF h
    <3> DEFINE r == [s \in SUBSET (1 .. k + 1) |->
                       IF s = {} THEN base ELSE Op[<<h[s \ {Max(s)}], Max(s)>>]]
    <3>1. \A s \in SUBSET (1 .. k + 1) : h[s] = r[s]
      BY <2>5
    <3> QED BY <2>4, <3>1 DEF Solves
  <2> HIDE DEF Sol, h
  <2> QED BY <2>4, <2>6
<1> HIDE DEF P
<1>3. n \in P
  BY <1>1, <1>2, Induct
<1> QED BY <1>3 DEF P

(* No prover here instantiates a parameter that is an operator, so what holds of all folds *)
(* is stated of one, whose operator is named by its first argument.                         *)
Step(op, v, e) ==
  CASE op = "group" -> AddToTurns(v, e)
    [] op = "append" -> AppendMessage(v, e)
    [] op = "prompt" -> AddToPrompt(v, e)
    [] op = "copy" -> (IF e.text # <<>> THEN Append(v, e) ELSE v)
    [] op = "ask" -> (IF e.role = "user" /\ e.text # <<>> THEN Append(v, e) ELSE v)
    [] op = "transcript" -> v + (1 + ChatCount(e.text))
    [] op = "size" -> v + (2 + ChatCount(e.text))

\* A fold by the step of that name.
Fold(op, base, s) == FoldLeft(LAMBDA v, e : Step(op, v, e), base, s)

\* The values of a fold stay in a set.
Closed(op, V, E) == \A v \in V, e \in E : Step(op, v, e) \in V

\* What a fold over a sequence passes through.
Passes(f, op, base, s) ==
  /\ f[0] = base
  /\ \A k \in 1 .. Len(s) : f[k] = Step(op, f[k - 1], s[k])
  /\ Fold(op, base, s) = f[Len(s)]

\* The folds of Tokens and ChatHistory.
LEMMA FoldsAre ==
  ASSUME NEW s, NEW base
  PROVE  /\ FoldLeft(AddToTurns, base, s) = Fold("group", base, s)
         /\ FoldLeft(AppendMessage, base, s) = Fold("append", base, s)
         /\ FoldLeft(AddToPrompt, base, s) = Fold("prompt", base, s)
         /\ CopyMessages(s) = Fold("copy", <<>>, s)
         /\ Selected(s, LAMBDA m : m.role = "user" /\ m.text # <<>>) = Fold("ask", <<>>, s)
         /\ TranscriptTokens(s) = Fold("transcript", 0, s)
         /\ SumOver(s, LAMBDA m : 2 + ChatCount(m.text)) = Fold("size", 0, s)
<1>1. FoldLeft(AddToTurns, base, s) = Fold("group", base, s)
  BY SMT DEF Fold, FoldLeft, MapThenFoldSet, Step
<1>2. FoldLeft(AppendMessage, base, s) = Fold("append", base, s)
  BY SMT DEF Fold, FoldLeft, MapThenFoldSet, Step
<1>3. FoldLeft(AddToPrompt, base, s) = Fold("prompt", base, s)
  BY SMT DEF Fold, FoldLeft, MapThenFoldSet, Step
<1>4. CopyMessages(s) = Fold("copy", <<>>, s)
  BY SMT DEF CopyMessages, Selected, Fold, FoldLeft, MapThenFoldSet, Step
<1>5. Selected(s, LAMBDA m : m.role = "user" /\ m.text # <<>>) = Fold("ask", <<>>, s)
  BY SMT DEF Selected, Fold, FoldLeft, MapThenFoldSet, Step
<1>6. TranscriptTokens(s) = Fold("transcript", 0, s)
  BY SMT DEF TranscriptTokens, SumOver, Fold, FoldLeft, MapThenFoldSet, Step
<1>7. SumOver(s, LAMBDA m : 2 + ChatCount(m.text)) = Fold("size", 0, s)
  BY SMT DEF SumOver, Fold, FoldLeft, MapThenFoldSet, Step
<1> QED BY <1>1, <1>2, <1>3, <1>4, <1>5, <1>6, <1>7

\* It passes through one value of its set for each initial part of the sequence.
LEMMA FoldPath ==
  ASSUME NEW op, NEW E, NEW V, NEW base \in V, Closed(op, V, E), NEW s \in Seq(E)
  PROVE  \E f \in [0 .. Len(s) -> V] : Passes(f, op, base, s)
<1> DEFINE n == Len(s)
           Op == [x \in V \X (1 .. n) |-> Step(op, x[1], s[x[2]])]
<1>0. n \in Nat /\ DOMAIN s = 1 .. n /\ \A k \in 1 .. n : s[k] \in E
  OBVIOUS
<1>1. Op \in [V \X (1 .. n) -> V]
  BY <1>0 DEF Closed
<1>2. PICK g \in [SUBSET (1 .. n) -> V] :
        Solves(g, n, base, Op)
  <2>1. n \in Nat
    BY <1>0
  <2> HIDE DEF Op, n
  <2> QED BY <2>1, <1>1, FoldExists, Zenon
<1>3. ASSUME NEW x \in SUBSET (1 .. n), x # {}
      PROVE  Op[<<g[x \ {Max(x)}], Max(x)>>] = Step(op, g[x \ {Max(x)}], s[Max(x)])
  <2>1. Max(x) \in 1 .. n /\ x \ {Max(x)} \in SUBSET (1 .. n)
    BY <1>0, <1>3, GreatestOf
  <2>2. g[x \ {Max(x)}] \in V
    BY <2>1, <1>2
  <2> QED BY <2>1, <2>2
<1> HIDE DEF Op
<1>4. g = [x \in SUBSET (DOMAIN s) |->
             IF x = {} THEN base ELSE Step(op, g[x \ {Max(x)}], s[Max(x)])]
  <2> DEFINE h == [x \in SUBSET (1 .. n) |->
             IF x = {} THEN base ELSE Step(op, g[x \ {Max(x)}], s[Max(x)])]
  <2>1. ASSUME NEW x \in SUBSET (1 .. n) PROVE g[x] = h[x]
    <3>1. g[x] = IF x = {} THEN base ELSE Op[<<g[x \ {Max(x)}], Max(x)>>]
      BY <1>2 DEF Solves
    <3> QED BY <3>1, <1>3
  <2>2. g = [x \in SUBSET (1 .. n) |-> g[x]]
    BY <1>2
  <2>3. g = h
    BY <2>1, <2>2
  <2> HIDE DEF n
  <2> QED BY <2>3, <1>0
<1> DEFINE it == CHOOSE it : it = [x \in SUBSET (DOMAIN s) |->
             IF x = {} THEN base ELSE Step(op, it[x \ {Max(x)}], s[Max(x)])]
<1>5. it = [x \in SUBSET (DOMAIN s) |->
             IF x = {} THEN base ELSE Step(op, it[x \ {Max(x)}], s[Max(x)])]
  BY <1>4
<1>6. Fold(op, base, s) = it[DOMAIN s]
  BY DEF Fold, FoldLeft, MapThenFoldSet
<1> HIDE DEF it
<1>7. it[{}] = base
  BY <1>5
<1>8. ASSUME NEW k \in 1 .. n
      PROVE  it[1 .. k] = Step(op, it[1 .. k - 1], s[k])
  <2>1. 1 .. k \in SUBSET (DOMAIN s) /\ 1 .. k # {} /\ Max(1 .. k) = k /\ (1 .. k) \ {k} = 1 .. k - 1
    BY <1>0, Latest
  <2> QED BY <2>1, <1>5
<1> DEFINE f == [k \in 0 .. n |-> it[1 .. k]]
           P == {k \in 0 .. n : f[k] \in V}
<1>9. f[0] = base /\ \A k \in 1 .. n : f[k] = Step(op, f[k - 1], s[k])
  <2>1. 1 .. 0 = {}
    OBVIOUS
  <2> HIDE DEF n
  <2> QED BY <1>0, <1>7, <1>8, <2>1
<1>10. 0 \in P /\ \A k \in 0 .. n - 1 : k \in P => k + 1 \in P
  <2> HIDE DEF f, n
  <2>1. 0 \in P
    BY <1>0, <1>9
  <2>2. ASSUME NEW k \in 0 .. n - 1, k \in P PROVE k + 1 \in P
    <3>1. k + 1 \in 1 .. n /\ (k + 1) - 1 = k
      BY <1>0
    <3> QED BY <1>0, <1>9, <2>2, <3>1 DEF Closed
  <2> QED BY <2>1, <2>2
<1>11. f \in [0 .. n -> V]
  <2>1. \A k \in 0 .. n : k \in P
    <3> HIDE DEF P, n
    <3> QED BY <1>0, <1>10, Induct
  <2> HIDE DEF n
  <2> QED BY <2>1
<1>12. f[n] = Fold(op, base, s)
  <2> HIDE DEF n
  <2> QED BY <1>0, <1>6
<1> HIDE DEF f, n
<1>13. n = Len(s)
  BY DEF n
<1> QED BY <1>9, <1>11, <1>12, <1>13 DEF Passes

\* What is known of a fold: its value, and that it goes over one more element last.
Unfolds(op, V, E, base, s) ==
  /\ Fold(op, base, s) \in V
  /\ s = <<>> => Fold(op, base, s) = base
  /\ \A e \in E : Fold(op, base, Append(s, e)) = Step(op, Fold(op, base, s), e)

\* So does every fold whose values stay in a set.
LEMMA FoldLaw ==
  ASSUME NEW op, NEW E, NEW V, NEW base \in V, Closed(op, V, E),
         NEW s \in Seq(E)
  PROVE  Unfolds(op, V, E, base, s)
<1> DEFINE n == Len(s)
<1>0. n \in Nat
  OBVIOUS
<1>1. PICK f \in [0 .. n -> V] :
        /\ f[0] = base
        /\ \A k \in 1 .. n : f[k] = Step(op, f[k - 1], s[k])
        /\ Fold(op, base, s) = f[n]
  <2>1. \E f \in [0 .. Len(s) -> V] : Passes(f, op, base, s)
    BY FoldPath
  <2> QED BY <2>1 DEF Passes
<1>2. Fold(op, base, s) \in V
  <2> HIDE DEF n
  <2> QED BY <1>0, <1>1
<1>3. s = <<>> => Fold(op, base, s) = base
  BY <1>1
<1>4. ASSUME NEW e \in E
      PROVE  Fold(op, base, Append(s, e)) = Step(op, Fold(op, base, s), e)
  <2> DEFINE t == Append(s, e)
  <2>1. t \in Seq(E) /\ Len(t) = n + 1 /\ t[n + 1] = e /\ \A k \in 1 .. n : t[k] = s[k]
    BY AppendProperties
  <2> HIDE DEF t, n
  <2>2. PICK g \in [0 .. n + 1 -> V] :
          /\ g[0] = base
          /\ \A k \in 1 .. n + 1 : g[k] = Step(op, g[k - 1], t[k])
          /\ Fold(op, base, t) = g[n + 1]
    <3>1. \E g \in [0 .. Len(t) -> V] : Passes(g, op, base, t)
      BY <2>1, FoldPath
    <3> QED BY <2>1, <3>1 DEF Passes
  <2> DEFINE P == {k \in 0 .. n : g[k] = f[k]}
  <2>3. 0 \in P
    BY <1>0, <1>1, <2>2
  <2>4. ASSUME NEW k \in 0 .. n - 1, k \in P PROVE k + 1 \in P
    <3>1. k + 1 \in 1 .. n /\ k + 1 \in 1 .. n + 1 /\ (k + 1) - 1 = k /\ k + 1 \in 0 .. n
      BY <1>0
    <3>2. g[k + 1] = Step(op, g[k], t[k + 1]) /\ f[k + 1] = Step(op, f[k], s[k + 1])
      BY <3>1, <1>1, <2>2, Zenon
    <3> QED BY <3>1, <3>2, <2>1, <2>4
  <2>5. g[n] = f[n]
    <3>1. \A k \in 0 .. n : k \in P
      <4> HIDE DEF P
      <4> QED BY <1>0, <2>3, <2>4, Induct
    <3> QED BY <1>0, <3>1
  <2>6. g[n + 1] = Step(op, g[n], t[n + 1])
    <3>1. n + 1 \in 1 .. n + 1 /\ (n + 1) - 1 = n
      BY <1>0
    <3> QED BY <3>1, <2>2
  <2> QED BY <2>1, <2>2, <2>5, <2>6, <1>1 DEF t
<1> QED BY <1>2, <1>3, <1>4 DEF Unfolds

\* What holds of no elements and of one more holds of all sequences.
LEMMA SeqInduct ==
  ASSUME NEW S, NEW P, <<>> \in P, \A s \in Seq(S), e \in S : s \in P => Append(s, e) \in P
  PROVE  \A s \in Seq(S) : s \in P
<1> SUFFICES ASSUME NEW s \in Seq(S) PROVE s \in P
  OBVIOUS
<1> DEFINE n == Len(s)
           I == {k \in 0 .. n : SubSeq(s, 1, k) \in P}
<1>0. n \in Nat
  OBVIOUS
<1>1. 0 \in I
  <2>1. SubSeq(s, 1, 0) = <<>> /\ 0 \in 0 .. n
    BY SubSeqEmpty
  <2> HIDE DEF n
  <2> QED BY <2>1
<1>2. ASSUME NEW k \in 0 .. n - 1, k \in I PROVE k + 1 \in I
  <2>1. k + 1 \in 1 .. Len(s) /\ k + 1 \in 0 .. n /\ 1 \in 1 .. Len(s) /\ k + 1 \in 1 .. Len(s)
    BY <1>0
  <2>2. SubSeq(s, 1, k + 1) = SubSeq(s, 1, (k + 1) - 1) \o <<s[k + 1]>>
    BY <2>1, SubSeqRecursiveSecond
  <2>3. SubSeq(s, 1, k) \in Seq(S) /\ s[k + 1] \in S
    <3>1. \A i \in 1 .. k : s[i] \in S
      BY <2>1
    <3> QED BY <2>1, <3>1, SubSeqProperties
  <2>4. SubSeq(s, 1, k + 1) = Append(SubSeq(s, 1, k), s[k + 1])
    BY <2>2, <2>3, AppendIsConcat
  <2> QED BY <1>2, <2>1, <2>3, <2>4
<1>3. n \in I
  <2> HIDE DEF I, n
  <2>1. \A k \in 0 .. n - 1 : k \in I => k + 1 \in I
    BY <1>2
  <2>2. \A k \in 0 .. n : k \in I
    BY <1>0, <1>1, <2>1, Induct
  <2> QED BY <1>0, <2>2
<1>4. SubSeq(s, 1, n) = s
  BY SubSeqFull
<1> QED BY <1>3, <1>4

-----------------------------------------------------------------------------
(* Messages and turns *)

\* What the stores hold, and the turns it groups into.
Messages == [role : Roles, text : Texts \ {<<>>}]
\* A message may come with any role. (The provers know no string to be in STRING.)
Items == [role : STRING \cup Roles \cup {"system"}, text : Texts]
History == Seq(Messages)
Turn == History \ {<<>>}

\* The same, of texts whose tokens are from a set.
MessagesOf(S) == [role : Roles, text : Seq(S) \ {<<>>}]
ItemsOf(S) == [role : STRING \cup Roles \cup {"system"}, text : Seq(S)]

\* Messages are joined in either order.
LEMMA Regroup ==
  ASSUME NEW a \in Seq(Messages), NEW b \in Seq(Messages), NEW c \in Seq(Messages)
  PROVE  a \o (b \o c) = (a \o b) \o c
BY ConcatAssociative

\* Joining messages brings in no token.
LEMMA JoinedTexts ==
  ASSUME NEW S
  PROVE  Closed("append", Seq(MessagesOf(S)), ItemsOf(S))
<1> DEFINE H == Seq(MessagesOf(S))
<1> SUFFICES ASSUME NEW v \in H, NEW m \in ItemsOf(S) PROVE AppendMessage(v, m) \in H
  BY DEF Closed, Step
<1>1. CASE m.role \notin Roles \/ m.text = <<>>
  BY <1>1 DEF AppendMessage
<1>2. CASE ~(m.role \notin Roles \/ m.text = <<>>) /\ m.role = "user" /\ v # <<>> /\ Last(v).role = "user"
  <2>1. Len(v) \in 1 .. Len(v)
    BY <1>2, EmptySeq
  <2>2. v[Len(v)] \in MessagesOf(S)
    BY <2>1
  <2>3. v[Len(v)].text \o m.text \in Seq(S) \ {<<>>}
    <3>1. v[Len(v)].text \in Seq(S) /\ v[Len(v)].text # <<>> /\ m.text \in Seq(S)
      BY <2>2 DEF MessagesOf, ItemsOf
    <3> QED BY <3>1, ConcatProperties, ConcatEqualIffEmpty
  <2>4. [v[Len(v)] EXCEPT !.text = @ \o m.text] \in MessagesOf(S)
    BY <2>2, <2>3 DEF MessagesOf
  <2>5. AppendMessage(v, m) = [v EXCEPT ![Len(v)] = [v[Len(v)] EXCEPT !.text = @ \o m.text]]
    BY <1>2 DEF AppendMessage
  <2> QED BY <2>1, <2>4, <2>5, ExceptSeq
<1>3. CASE ~(m.role \notin Roles \/ m.text = <<>>) /\ ~(m.role = "user" /\ v # <<>> /\ Last(v).role = "user")
  <2>1. m \in MessagesOf(S)
    BY <1>3 DEF ItemsOf, MessagesOf
  <2> QED BY <1>3, <2>1, AppendProperties DEF AppendMessage
<1> QED BY <1>1, <1>2, <1>3

\* What each fold makes of its values.
LEMMA FoldsClosed ==
  /\ Closed("group", Seq(Turn), Messages)
  /\ Closed("append", History, Items)
  /\ Closed("copy", History, Messages)
  /\ Closed("ask", Seq(Items), Items)
  /\ Closed("transcript", Nat, Messages)
<1>1. Closed("group", Seq(Turn), Messages)
  <2> SUFFICES ASSUME NEW v \in Seq(Turn), NEW m \in Messages PROVE AddToTurns(v, m) \in Seq(Turn)
    BY DEF Closed, Step
  <2>1. <<m>> \in Turn
    BY DEF Turn, History
  <2>2. CASE m.role = "user" \/ v = <<>>
    BY <2>1, <2>2, AppendProperties DEF AddToTurns
  <2>3. CASE ~(m.role = "user" \/ v = <<>>)
    <3>1. Len(v) \in 1 .. Len(v)
      BY <2>3, EmptySeq
    <3>2. v[Len(v)] \in Turn
      BY <3>1
    <3>3. Append(v[Len(v)], m) \in Turn
      BY <3>2, AppendProperties DEF Turn, History
    <3> QED BY <2>3, <3>1, <3>3, ExceptSeq DEF AddToTurns
  <2> QED BY <2>2, <2>3
<1>2. Closed("append", History, Items)
  BY JoinedTexts DEF MessagesOf, ItemsOf, Messages, Items, History, Texts
<1>3. Closed("copy", History, Messages)
  <2> SUFFICES ASSUME NEW v \in History, NEW m \in Messages
               PROVE  (IF m.text # <<>> THEN Append(v, m) ELSE v) \in History
    BY DEF Closed, Step
  <2> QED BY AppendProperties DEF History
<1>4. Closed("ask", Seq(Items), Items)
  <2> SUFFICES ASSUME NEW v \in Seq(Items), NEW m \in Items
               PROVE  (IF m.role = "user" /\ m.text # <<>> THEN Append(v, m) ELSE v) \in Seq(Items)
    BY DEF Closed, Step
  <2> QED BY AppendProperties
<1>5. Closed("transcript", Nat, Messages)
  <2> SUFFICES ASSUME NEW v \in Nat, NEW m \in Messages PROVE v + (1 + ChatCount(m.text)) \in Nat
    BY DEF Closed, Step
  <2> QED BY DEF ChatCount, Messages, Texts
<1> QED BY <1>1, <1>2, <1>3, <1>4, <1>5

\* A message without a text is not stored: copying drops none.
LEMMA CopyLaw ==
  ASSUME NEW h \in History
  PROVE  CopyMessages(h) = h
<1> DEFINE P == {s \in History : CopyMessages(s) = s}
<1>0. <<>> \in History
  BY EmptySeq DEF History
<1>1. <<>> \in P
  <2>1. Unfolds("copy", History, Messages, <<>>, <<>>)
    BY <1>0, FoldLaw, FoldsClosed DEF History
  <2> QED BY <1>0, <2>1, FoldsAre DEF Unfolds
<1>2. ASSUME NEW s \in Seq(Messages), NEW m \in Messages, s \in P
      PROVE  Append(s, m) \in P
  <2>1. Append(s, m) \in History
    BY AppendProperties DEF History
  <2>2. m.text # <<>>
    BY DEF Messages
  <2>3. Fold("copy", <<>>, Append(s, m)) = Step("copy", Fold("copy", <<>>, s), m)
    <3>1. Unfolds("copy", History, Messages, <<>>, s)
      BY <1>0, FoldLaw, FoldsClosed
    <3> QED BY <3>1 DEF Unfolds
  <2>4. CopyMessages(Append(s, m)) = Append(CopyMessages(s), m)
    BY <2>2, <2>3, FoldsAre DEF Step
  <2> QED BY <2>1, <2>4, <1>2
<1> HIDE DEF P
<1>3. \A s \in Seq(Messages) : s \in P
  BY <1>1, <1>2, SeqInduct
<1> QED BY <1>3 DEF P, History

\* Messages group into turns one by one.
LEMMA GroupLaw ==
  ASSUME NEW h \in History
  PROVE  /\ GroupTurns(h) \in Seq(Turn)
         /\ h = <<>> => GroupTurns(h) = <<>>
         /\ \A m \in Messages : GroupTurns(Append(h, m)) = AddToTurns(GroupTurns(h), m)
<1>1. \A s \in History : GroupTurns(s) = Fold("group", <<>>, s)
  BY CopyLaw, FoldsAre DEF GroupTurns
<1>2. \A m \in Messages : Append(h, m) \in History
  BY AppendProperties DEF History
<1>3. /\ Fold("group", <<>>, h) \in Seq(Turn)
      /\ h = <<>> => Fold("group", <<>>, h) = <<>>
      /\ \A m \in Messages : Fold("group", <<>>, Append(h, m)) = Step("group", Fold("group", <<>>, h), m)
  <2>1. <<>> \in Seq(Turn)
    BY EmptySeq
  <2>2. Unfolds("group", Seq(Turn), Messages, <<>>, h)
    BY <2>1, FoldLaw, FoldsClosed DEF History
  <2> QED BY <2>2 DEF Unfolds
<1> QED BY <1>1, <1>2, <1>3 DEF Step

\* A transcript counts its messages one by one.
LEMMA TranscriptLaw ==
  ASSUME NEW h \in History
  PROVE  /\ TranscriptTokens(h) \in Nat
         /\ h = <<>> => TranscriptTokens(h) = 0
         /\ \A m \in Messages : TranscriptTokens(Append(h, m)) = TranscriptTokens(h) + (1 + Len(m.text))
<1>1. /\ Fold("transcript", 0, h) \in Nat
      /\ h = <<>> => Fold("transcript", 0, h) = 0
      /\ \A m \in Messages : Fold("transcript", 0, Append(h, m)) = Step("transcript", Fold("transcript", 0, h), m)
  <2>1. Unfolds("transcript", Nat, Messages, 0, h)
    BY FoldLaw, FoldsClosed DEF History
  <2> QED BY <2>1 DEF Unfolds
<1> QED BY <1>1, FoldsAre DEF Step, ChatCount

\* The recursion of FlattenSeq.
FlattensBy(g, ss) ==
  g = [i \in 1 .. Len(ss) |-> IF i = 1 THEN ss[i] ELSE g[i - 1] \o ss[i]]

\* Joining sequences one by one: the recursion has a solution.
LEMMA FlattenExists ==
  ASSUME NEW E, NEW ss \in Seq(Seq(E))
  PROVE  \E g : FlattensBy(g, ss)
<1> DEFINE n == Len(ss)
           Op == [x \in Seq(E) \X (1 .. n) |-> IF x[2] = 1 THEN ss[x[2]] ELSE x[1] \o ss[x[2]]]
           V == Seq(E)
<1>0. n \in Nat /\ \A k \in 1 .. n : ss[k] \in Seq(E)
  OBVIOUS
<1>1. Op \in [V \X (1 .. n) -> V]
  <2> SUFFICES ASSUME NEW v \in Seq(E), NEW k \in 1 .. n
               PROVE  (IF k = 1 THEN ss[k] ELSE v \o ss[k]) \in Seq(E)
    OBVIOUS
  <2> QED BY <1>0, ConcatProperties
<1> DEFINE b == <<>>
<1>2. b \in V
  BY EmptySeq
<1>3. PICK g \in [SUBSET (1 .. n) -> V] : Solves(g, n, b, Op)
  <2>1. n \in Nat
    BY <1>0
  <2> HIDE DEF Op, n, V, b
  <2> QED BY <1>1, <1>2, <2>1, FoldExists
<1> DEFINE f == [i \in 1 .. n |-> g[1 .. i]]
<1>4. ASSUME NEW i \in 1 .. n
      PROVE  g[1 .. i] = IF i = 1 THEN ss[i] ELSE g[1 .. i - 1] \o ss[i]
  <2>1. 1 .. i \in SUBSET (1 .. n) /\ 1 .. i # {} /\ 1 .. i - 1 \in SUBSET (1 .. n)
    <3> HIDE DEF n
    <3> QED BY <1>0, Parts
  <2>2. Max(1 .. i) = i /\ (1 .. i) \ {i} = 1 .. i - 1
    BY <1>0, Latest
  <2>3. g[1 .. i] = Op[<<g[1 .. i - 1], i>>]
    <3> HIDE DEF Op, n, b
    <3> QED BY <1>3, <2>1, <2>2 DEF Solves
  <2>4. g[1 .. i - 1] \in V
    BY <2>1, <1>3
  <2> QED BY <2>3, <2>4
<1>5. f = [i \in 1 .. Len(ss) |-> IF i = 1 THEN ss[i] ELSE f[i - 1] \o ss[i]]
  <2>1. \A i \in 1 .. n : f[i] = IF i = 1 THEN ss[i] ELSE f[i - 1] \o ss[i]
    <3> SUFFICES ASSUME NEW i \in 1 .. n
                 PROVE  f[i] = IF i = 1 THEN ss[i] ELSE f[i - 1] \o ss[i]
      OBVIOUS
    <3>1. f[i] = g[1 .. i]
      OBVIOUS
    <3>2. i # 1 => i - 1 \in 1 .. n
      BY <1>0
    <3> HIDE DEF n
    <3>3. i # 1 => f[i - 1] = g[1 .. i - 1]
      BY <3>2
    <3> HIDE DEF f
    <3> QED BY <3>1, <3>3, <1>4
  <2> DEFINE h == [i \in 1 .. n |-> IF i = 1 THEN ss[i] ELSE f[i - 1] \o ss[i]]
  <2>2. f = [i \in 1 .. n |-> f[i]]
    OBVIOUS
  <2>3. f = h
    <3> HIDE DEF f, n
    <3> QED BY <2>1, <2>2
  <2> QED BY <2>3
<1> HIDE DEF f
<1> QED BY <1>5 DEF FlattensBy

\* A solution of the recursion passes through the joined initial parts.
LEMMA FlattenIs ==
  ASSUME NEW E, NEW ss \in Seq(Seq(E)), ss # <<>>
  PROVE  \E g : FlattensBy(g, ss) /\ FlattenSeq(ss) = g[Len(ss)]
<1> DEFINE g == CHOOSE g : g = [i \in 1 .. Len(ss) |-> IF i = 1 THEN ss[i] ELSE g[i - 1] \o ss[i]]
<1>1. FlattensBy(g, ss)
  BY FlattenExists DEF FlattensBy
<1>2. Len(ss) # 0
  BY EmptySeq
<1>3. FlattenSeq(ss) = g[Len(ss)]
  BY <1>2 DEF FlattenSeq
<1> QED BY <1>1, <1>3

\* Joining sequences one by one.
LEMMA FlattenSeqLaw ==
  ASSUME NEW E, NEW ss \in Seq(Seq(E))
  PROVE  /\ FlattenSeq(ss) \in Seq(E)
         /\ ss = <<>> => FlattenSeq(ss) = <<>>
         /\ \A s \in Seq(E) : FlattenSeq(Append(ss, s)) = FlattenSeq(ss) \o s
<1> DEFINE P == {u \in Seq(Seq(E)) :
                   /\ FlattenSeq(u) \in Seq(E)
                   /\ \A s \in Seq(E) : FlattenSeq(Append(u, s)) = FlattenSeq(u) \o s}
<1>1. FlattenSeq(<<>>) = <<>>
  BY DEF FlattenSeq
<1>2. ASSUME NEW u \in Seq(Seq(E)), FlattenSeq(u) \in Seq(E), NEW s \in Seq(E)
      PROVE  FlattenSeq(Append(u, s)) = FlattenSeq(u) \o s
  <2> DEFINE t == Append(u, s)
             n == Len(u)
  <2>1. t \in Seq(Seq(E)) /\ t # <<>> /\ Len(t) = n + 1 /\ t[n + 1] = s /\ n \in Nat
        /\ \A k \in 1 .. n : t[k] = u[k] /\ u[k] \in Seq(E)
    BY AppendProperties
  <2> HIDE DEF t
  <2>2. PICK g : FlattensBy(g, t) /\ FlattenSeq(t) = g[n + 1]
    BY <2>1, FlattenIs
  <2>3. \A i \in 1 .. n + 1 : g[i] = IF i = 1 THEN t[i] ELSE g[i - 1] \o t[i]
    <3> HIDE DEF n
    <3> QED BY <2>1, <2>2 DEF FlattensBy
  <2>4. CASE u = <<>>
    <3>1. n = 0 /\ FlattenSeq(u) = <<>>
      BY <2>4, <1>1
    <3>2. g[1] = s
      BY <3>1, <2>1, <2>3
    <3>3. <<>> \o s = s
      BY ConcatEmptySeq
    <3> QED BY <3>1, <3>2, <3>3, <2>2 DEF t
  <2>5. CASE u # <<>>
    <3>1. PICK f : FlattensBy(f, u) /\ FlattenSeq(u) = f[n]
      BY <2>5, FlattenIs
    <3>2. \A i \in 1 .. n : f[i] = IF i = 1 THEN u[i] ELSE f[i - 1] \o u[i]
      BY <3>1 DEF FlattensBy
    <3>3. n \in Nat /\ n # 0
      BY <2>5, EmptySeq
    <3> DEFINE I == {k \in 0 .. n : k = 0 \/ g[k] = f[k]}
    <3> HIDE DEF n
    <3>4. \A k \in 0 .. n : k \in I
      <4>1. 0 \in I
        BY <3>3
      <4>2. ASSUME NEW k \in 0 .. n - 1, k \in I PROVE k + 1 \in I
        <5>1. k + 1 \in 1 .. n /\ k + 1 \in 1 .. n + 1 /\ (k + 1) - 1 = k /\ k + 1 \in 0 .. n
          BY <3>3
        <5>2. t[k + 1] = u[k + 1]
          BY <5>1, <2>1
        <5>3. CASE k = 0
          BY <5>1, <5>2, <5>3, <2>3, <3>2
        <5>4. CASE k # 0
          <6>1. k + 1 # 1 /\ g[k] = f[k]
            BY <5>1, <5>4, <4>2
          <6>2. g[k + 1] = g[k] \o t[k + 1] /\ f[k + 1] = f[k] \o u[k + 1]
            BY <5>1, <6>1, <2>3, <3>2
          <6> QED BY <5>1, <5>2, <6>1, <6>2
        <5> QED BY <5>3, <5>4
      <4> HIDE DEF I
      <4> QED BY <3>3, <4>1, <4>2, Induct
    <3>5. g[n] = f[n]
      BY <3>3, <3>4
    <3>6. g[n + 1] = g[n] \o t[n + 1]
      <4>1. n + 1 \in 1 .. n + 1 /\ n + 1 # 1 /\ (n + 1) - 1 = n
        BY <3>3
      <4> QED BY <4>1, <2>3
    <3> QED BY <2>1, <2>2, <3>1, <3>5, <3>6 DEF t
  <2> QED BY <2>4, <2>5
<1>3. <<>> \in P
  <2>1. <<>> \in Seq(Seq(E)) /\ <<>> \in Seq(E)
    BY EmptySeq
  <2> QED BY <2>1, <1>1, <1>2
<1>4. ASSUME NEW u \in Seq(Seq(E)), NEW e \in Seq(E), u \in P PROVE Append(u, e) \in P
  <2>1. Append(u, e) \in Seq(Seq(E))
    BY AppendProperties
  <2>2. FlattenSeq(Append(u, e)) \in Seq(E)
    BY <1>4, ConcatProperties
  <2> QED BY <2>1, <2>2, <1>2
<1> HIDE DEF P
<1>5. \A u \in Seq(Seq(E)) : u \in P
  BY <1>3, <1>4, SeqInduct
<1> QED BY <1>1, <1>5 DEF P

\* Turns join one by one.
LEMMA FlattenLaw ==
  ASSUME NEW ts \in Seq(Turn)
  PROVE  /\ FlattenTurns(ts) \in History
         /\ ts = <<>> => FlattenTurns(ts) = <<>>
         /\ \A t \in History : Append(ts, t) \in Seq(Turn) =>
              FlattenTurns(Append(ts, t)) = FlattenTurns(ts) \o t
<1>1. \A us \in Seq(Turn) : us \in Seq(Seq(Messages))
  BY SeqMonotonic DEF Turn, History
<1>2. \A us \in Seq(Turn) : FlattenTurns(us) = FlattenSeq(us)
  BY <1>1, FlattenSeqLaw, CopyLaw DEF FlattenTurns, History
<1> QED BY <1>1, <1>2, FlattenSeqLaw DEF History

\* Every nonempty sequence ends with an element.
LEMMA Ends ==
  ASSUME NEW S, NEW s \in Seq(S), s # <<>>
  PROVE  \E r \in Seq(S), e \in S : s = Append(r, e) /\ Len(s) = Len(r) + 1 /\ s[Len(s)] = e
BY SequenceEmptyOrAppend, AppendProperties

\* A sequence with another last element.
WithLast(s, e) == [s EXCEPT ![Len(s)] = e]

\* Changing the last element changes what is appended to the rest.
LEMMA LastReplaced ==
  ASSUME NEW S, NEW r \in Seq(S), NEW d \in S, NEW e \in S
  PROVE  WithLast(Append(r, d), e) = Append(r, e)
<1> DEFINE s == Append(r, d)
           t == Append(r, e)
<1>1. /\ s \in Seq(S) /\ Len(s) = Len(r) + 1 /\ \A i \in 1 .. Len(r) : s[i] = r[i]
      /\ t \in Seq(S) /\ Len(t) = Len(r) + 1 /\ \A i \in 1 .. Len(r) : t[i] = r[i]
      /\ t[Len(r) + 1] = e /\ Len(r) \in Nat
  BY AppendProperties
<1> HIDE DEF s, t
<1>2. Len(r) + 1 \in 1 .. Len(s)
  BY <1>1
<1> DEFINE u == [s EXCEPT ![Len(r) + 1] = e]
<1>3. /\ u \in Seq(S) /\ Len(u) = Len(s)
      /\ \A j \in 1 .. Len(s) : u[j] = IF j = Len(r) + 1 THEN e ELSE s[j]
  BY <1>2, <1>1, ExceptSeq
<1> HIDE DEF u
<1>4. \A j \in 1 .. Len(u) : u[j] = t[j]
  BY <1>1, <1>3
<1>5. u = t
  BY <1>1, <1>3, <1>4, SeqEqual
<1> QED BY <1>1, <1>5 DEF u, s, t, WithLast

\* A message joins its turn or begins a new one: nothing else changes.
LEMMA AddedAtTheEnd ==
  ASSUME NEW ts \in Seq(Turn), NEW m \in Messages
  PROVE  /\ AddToTurns(ts, m) \in Seq(Turn) /\ AddToTurns(ts, m) # <<>>
         /\ m.role = "user" \/ ts = <<>> => AddToTurns(ts, m) = Append(ts, <<m>>)
         /\ m.role # "user" => \A r \in Seq(Turn), t \in Turn :
              ts = Append(r, t) => AddToTurns(ts, m) = Append(r, Append(t, m))
<1>1. AddToTurns(ts, m) \in Seq(Turn)
  BY FoldsClosed DEF Closed, Step
<1>2. m.role = "user" \/ ts = <<>> => AddToTurns(ts, m) = Append(ts, <<m>>)
  BY DEF AddToTurns
<1>3. <<m>> \in Turn
  BY DEF Turn, History
<1>4. ASSUME m.role # "user", NEW r \in Seq(Turn), NEW t \in Turn, ts = Append(r, t)
      PROVE  AddToTurns(ts, m) = Append(r, Append(t, m)) /\ Append(t, m) \in Turn
  <2>1. ts # <<>> /\ Len(ts) = Len(r) + 1 /\ ts[Len(r) + 1] = t
    BY <1>4, AppendProperties
  <2>2. Append(t, m) \in Turn
    BY AppendProperties DEF Turn, History
  <2>3. AddToTurns(ts, m) = WithLast(ts, Append(t, m))
    BY <1>4, <2>1 DEF AddToTurns, WithLast
  <2>4. WithLast(Append(r, t), Append(t, m)) = Append(r, Append(t, m))
    BY <2>2, LastReplaced
  <2> QED BY <1>4, <2>2, <2>3, <2>4
<1>5. AddToTurns(ts, m) # <<>>
  <2>1. CASE m.role = "user" \/ ts = <<>>
    BY <2>1, <1>2, <1>3, AppendProperties
  <2>2. CASE ~(m.role = "user" \/ ts = <<>>)
    <3>1. PICK r \in Seq(Turn), t \in Turn : ts = Append(r, t)
      BY <2>2, Ends
    <3> QED BY <2>2, <3>1, <1>4, AppendProperties
  <2> QED BY <2>1, <2>2
<1> QED BY <1>1, <1>2, <1>4, <1>5

\* A message that is not the user's joins the last turn.
LEMMA JoinsItsTurn ==
  ASSUME NEW r \in Seq(Turn), NEW t \in Turn, NEW m \in Messages, m.role # "user"
  PROVE  AddToTurns(Append(r, t), m) = Append(r, Append(t, m))
<1> DEFINE ts == Append(r, t)
<1>1. ts \in Seq(Turn) /\ ts = Append(r, t)
  BY AppendProperties
<1> HIDE DEF ts
<1> QED BY <1>1, AddedAtTheEnd

\* Grouping loses no message.
LEMMA FlattenOfGroup ==
  ASSUME NEW h \in History
  PROVE  FlattenTurns(GroupTurns(h)) = h /\ (GroupTurns(h) = <<>> => h = <<>>)
<1> DEFINE P == {s \in History : FlattenTurns(GroupTurns(s)) = s}
<1>1. <<>> \in P
  BY EmptySeq, GroupLaw, FlattenLaw DEF History
<1>2. ASSUME NEW s \in Seq(Messages), NEW m \in Messages, s \in P
      PROVE  Append(s, m) \in P
  <2> DEFINE ts == GroupTurns(s)
             us == AddToTurns(ts, m)
  <2>1. s \in History /\ Append(s, m) \in History /\ <<m>> \in History
    BY AppendProperties DEF History
  <2>2. /\ ts \in Seq(Turn) /\ FlattenTurns(ts) = s
        /\ us = GroupTurns(Append(s, m)) /\ us \in Seq(Turn)
    BY <1>2, <2>1, GroupLaw, AddedAtTheEnd
  <2> HIDE DEF ts, us
  <2>3. FlattenTurns(us) = s \o <<m>>
    <3>1. CASE m.role = "user" \/ ts = <<>>
      <4>1. us = Append(ts, <<m>>)
        BY <3>1, <2>2, AddedAtTheEnd DEF us
      <4> QED BY <4>1, <2>1, <2>2, FlattenLaw
    <3>2. CASE ~(m.role = "user" \/ ts = <<>>)
      <4>1. PICK r \in Seq(Turn), t \in Turn : ts = Append(r, t)
        <5>1. ts # <<>> /\ ts \in Seq(Turn)
          BY <3>2, <2>2
        <5> QED BY <5>1, Ends
      <4>2. us = Append(r, Append(t, m))
        <5>1. m.role # "user" /\ ts \in Seq(Turn)
          BY <3>2, <2>2
        <5>2. AddToTurns(ts, m) = Append(r, Append(t, m))
          BY <4>1, <5>1, AddedAtTheEnd, Zenon
        <5> QED BY <5>2 DEF us
      <4>3. t \in Seq(Messages) /\ Append(t, m) \in History
        BY AppendProperties DEF Turn, History
      <4>4. FlattenTurns(r) \in Seq(Messages)
        BY FlattenLaw DEF History
      <4>5. FlattenTurns(us) = FlattenTurns(r) \o Append(t, m) /\ s = FlattenTurns(r) \o t
        BY <4>1, <4>2, <4>3, <2>2, FlattenLaw DEF History
      <4>6. Append(t, m) = t \o <<m>>
        BY <4>3, AppendIsConcat
      <4> QED BY <4>3, <4>4, <4>5, <4>6, <2>1, ConcatAssociative DEF History
    <3> QED BY <3>1, <3>2
  <2>4. Append(s, m) = s \o <<m>>
    BY AppendIsConcat
  <2> QED BY <2>1, <2>2, <2>3, <2>4
<1> HIDE DEF P
<1>3. \A s \in Seq(Messages) : s \in P
  BY <1>1, <1>2, SeqInduct
<1>4. FlattenTurns(GroupTurns(h)) = h
  BY <1>3 DEF P, History
<1>5. FlattenTurns(<<>>) = <<>>
  BY EmptySeq, FlattenLaw
<1> QED BY <1>4, <1>5

\* Only the first message of a turn is the user's; of the first turn, possibly none.
Shaped(ts) ==
  \A i \in 1 .. Len(ts) :
    /\ i # 1 => ts[i][1].role = "user"
    /\ \A j \in 2 .. Len(ts[i]) : ts[i][j].role # "user"

\* A turn more keeps the shape when it has it.
LEMMA ShapedBy ==
  ASSUME NEW r \in Seq(Turn), NEW t \in Turn
  PROVE  Shaped(Append(r, t)) <=> /\ Shaped(r)
                                  /\ r # <<>> => t[1].role = "user"
                                  /\ \A j \in 2 .. Len(t) : t[j].role # "user"
<1> DEFINE s == Append(r, t)
           n == Len(r)
<1>1. Len(s) = n + 1 /\ s[n + 1] = t /\ n \in Nat /\ (\A i \in 1 .. n : s[i] = r[i]) /\ (r # <<>> <=> n # 0)
  BY AppendProperties, EmptySeq
<1> HIDE DEF s
<1>2. ASSUME Shaped(s)
      PROVE  Shaped(r) /\ (r # <<>> => t[1].role = "user") /\ \A j \in 2 .. Len(t) : t[j].role # "user"
  <2>1. n + 1 \in 1 .. Len(s) /\ (r # <<>> => n + 1 # 1)
    BY <1>1
  <2>2. (r # <<>> => t[1].role = "user") /\ \A j \in 2 .. Len(t) : t[j].role # "user"
    BY <1>1, <1>2, <2>1 DEF Shaped
  <2>3. \A i \in 1 .. n : i \in 1 .. Len(s) /\ s[i] = r[i]
    BY <1>1
  <2>4. Shaped(r)
    BY <1>2, <2>3 DEF Shaped
  <2> QED BY <2>2, <2>4
<1>3. ASSUME Shaped(r), r # <<>> => t[1].role = "user", \A j \in 2 .. Len(t) : t[j].role # "user"
      PROVE  Shaped(s)
  <2> SUFFICES ASSUME NEW i \in 1 .. Len(s)
               PROVE  /\ i # 1 => s[i][1].role = "user"
                      /\ \A j \in 2 .. Len(s[i]) : s[i][j].role # "user"
    BY DEF Shaped
  <2>1. CASE i \in 1 .. n
    <3>1. s[i] = r[i]
      BY <2>1, <1>1
    <3> QED BY <1>3, <2>1, <3>1 DEF Shaped
  <2>2. CASE i = n + 1
    <3>1. s[i] = t /\ (i # 1 => r # <<>>)
      BY <2>2, <1>1
    <3> QED BY <1>3, <3>1
  <2> QED BY <2>1, <2>2, <1>1
<1> QED BY <1>2, <1>3 DEF s

\* Grouping makes turns of that shape.
LEMMA GroupIsShaped ==
  ASSUME NEW h \in History
  PROVE  Shaped(GroupTurns(h))
<1> DEFINE P == {s \in History : Shaped(GroupTurns(s))}
<1>1. <<>> \in P
  <2>1. <<>> \in History /\ GroupTurns(<<>>) = <<>>
    BY EmptySeq, GroupLaw DEF History
  <2>2. Shaped(<<>>)
    BY DEF Shaped
  <2> QED BY <2>1, <2>2
<1>2. ASSUME NEW s \in Seq(Messages), NEW m \in Messages, s \in P
      PROVE  Append(s, m) \in P
  <2> DEFINE ts == GroupTurns(s)
  <2>1. s \in History /\ Append(s, m) \in History /\ ts \in Seq(Turn) /\ Shaped(ts)
        /\ GroupTurns(Append(s, m)) = AddToTurns(ts, m)
    BY <1>2, GroupLaw, AppendProperties DEF History
  <2> HIDE DEF ts
  <2>2. Shaped(AddToTurns(ts, m))
    <3>1. CASE m.role = "user" \/ ts = <<>>
      <4>1. <<m>> \in Turn /\ <<m>>[1] = m /\ Len(<<m>>) = 1
        BY DEF Turn, History
      <4>2. AddToTurns(ts, m) = Append(ts, <<m>>)
        BY <3>1, <2>1, AddedAtTheEnd
      <4>3. (ts # <<>> => <<m>>[1].role = "user") /\ \A j \in 2 .. Len(<<m>>) : <<m>>[j].role # "user"
        BY <3>1, <4>1
      <4> QED BY <2>1, <4>1, <4>2, <4>3, ShapedBy
    <3>2. CASE ~(m.role = "user" \/ ts = <<>>)
      <4>1. PICK r \in Seq(Turn), t \in Turn : ts = Append(r, t)
        BY <3>2, <2>1, Ends
      <4>2. AddToTurns(ts, m) = Append(r, Append(t, m))
        <5>1. m.role # "user"
          BY <3>2
        <5> QED BY <4>1, <5>1, <2>1, AddedAtTheEnd, Zenon
      <4> DEFINE u == Append(t, m)
      <4>3. /\ u \in Turn /\ Len(u) = Len(t) + 1 /\ u[Len(t) + 1] = m /\ \A j \in 1 .. Len(t) : u[j] = t[j]
            /\ Len(t) \in Nat \ {0}
        BY AppendProperties, EmptySeq DEF Turn, History
      <4> HIDE DEF u
      <4>4. /\ Shaped(r) /\ (r # <<>> => t[1].role = "user")
            /\ \A j \in 2 .. Len(t) : t[j].role # "user"
        BY <2>1, <4>1, ShapedBy
      <4>5. r # <<>> => u[1].role = "user"
        BY <4>3, <4>4
      <4>6. ASSUME NEW j \in 2 .. Len(u) PROVE u[j].role # "user"
        <5>1. j = Len(t) + 1 \/ j \in 2 .. Len(t)
          BY <4>3
        <5> QED BY <3>2, <4>3, <4>4, <5>1
      <4>7. Shaped(Append(r, u))
        BY <4>3, <4>4, <4>5, <4>6, ShapedBy
      <4> QED BY <4>2, <4>7 DEF u
    <3> QED BY <3>1, <3>2
  <2> QED BY <2>1, <2>2
<1> HIDE DEF P
<1>3. \A s \in Seq(Messages) : s \in P
  BY <1>1, <1>2, SeqInduct
<1> QED BY <1>3 DEF P, History

\* What follows a message that begins a turn, and is not the user's, belongs to that turn.
LEMMA OneTurn ==
  ASSUME NEW a \in History, NEW x \in Messages, x.role = "user" \/ GroupTurns(a) = <<>>,
         NEW u \in History, \A j \in 1 .. Len(u) : u[j].role # "user"
  PROVE  GroupTurns((a \o <<x>>) \o u) = Append(GroupTurns(a), <<x>> \o u)
<1> DEFINE Others(v) == \A j \in 1 .. Len(v) : v[j].role # "user"
           Grouped(v) == GroupTurns((a \o <<x>>) \o v) = Append(GroupTurns(a), <<x>> \o v)
           P == {v \in History : Others(v) => Grouped(v)}
           ts == GroupTurns(a)
           b == a \o <<x>>
<1>1. /\ ts \in Seq(Turn) /\ <<x>> \in History /\ <<x>> \in Turn /\ b \in History /\ <<>> \in History
      /\ b = Append(a, x)
  BY GroupLaw, ConcatProperties, EmptySeq, AppendIsConcat DEF History, Turn
<1>2. <<>> \in P
  <2>1. b \o <<>> = b /\ <<x>> \o <<>> = <<x>>
    BY <1>1, ConcatEmptySeq DEF History
  <2>2. GroupTurns(b) = AddToTurns(ts, x)
    BY <1>1, GroupLaw
  <2>3. GroupTurns(b) = Append(ts, <<x>>)
    BY <2>2, <1>1, AddedAtTheEnd
  <2>4. Grouped(<<>>)
    BY <2>1, <2>3
  <2> HIDE DEF Grouped
  <2> QED BY <1>1, <2>4
<1>3. ASSUME NEW v \in Seq(Messages), NEW m \in Messages, v \in P
      PROVE  Append(v, m) \in P
  <2> DEFINE w == Append(v, m)
  <2>1. /\ w \in Seq(Messages) /\ w \in History /\ Len(w) = Len(v) + 1 /\ w[Len(v) + 1] = m
        /\ \A j \in 1 .. Len(v) : w[j] = v[j]
        /\ Len(v) \in Nat
    BY AppendProperties DEF History
  <2> SUFFICES ASSUME Others(w) PROVE Grouped(w)
    BY <2>1
  <2> HIDE DEF w, ts, b
  <2>2. Others(v) /\ m.role # "user"
    <3>1. Len(v) + 1 \in 1 .. Len(w) /\ \A j \in 1 .. Len(v) : j \in 1 .. Len(w)
      BY <2>1
    <3> QED BY <2>1, <3>1
  <2>3. GroupTurns(b \o v) = Append(ts, <<x>> \o v)
    BY <1>3, <2>2 DEF b, ts
  <2> HIDE DEF Others
  <2>4. b \o v \in History /\ <<x>> \o v \in Turn
    <3>1. b \o v \in Seq(Messages) /\ <<x>> \o v \in Seq(Messages)
      BY <1>1, ConcatProperties DEF History
    <3>2. <<x>> \o v # <<>>
      BY <1>1, ConcatEqualIffEmpty DEF History, Turn
    <3> QED BY <3>1, <3>2 DEF History, Turn
  <2>5. b \o w = Append(b \o v, m) /\ <<x>> \o w = Append(<<x>> \o v, m)
    <3>1. <<m>> \in Seq(Messages) /\ w = v \o <<m>>
      BY AppendIsConcat DEF w
    <3>2. b \in Seq(Messages) /\ <<x>> \in Seq(Messages)
      BY <1>1 DEF History
    <3>3. b \o (v \o <<m>>) = (b \o v) \o <<m>>
      BY <3>1, <3>2, Regroup, Zenon
    <3>4. <<x>> \o (v \o <<m>>) = (<<x>> \o v) \o <<m>>
      BY <3>1, <3>2, Regroup, Zenon
    <3> QED BY <2>4, <3>1, <3>3, <3>4, AppendIsConcat DEF History, Turn
  <2>6. GroupTurns(b \o w) = AddToTurns(Append(ts, <<x>> \o v), m)
    BY <2>3, <2>4, <2>5, GroupLaw
  <2> DEFINE t == <<x>> \o v
             us == Append(ts, t)
  <2>7. t \in Turn /\ us \in Seq(Turn)
    BY <1>1, <2>4, AppendProperties
  <2> HIDE DEF t
  <2>8. AddToTurns(us, m) = Append(ts, Append(t, m))
    BY <1>1, <2>2, <2>7, JoinsItsTurn
  <2> QED BY <2>5, <2>6, <2>8 DEF t, b, ts
<1> HIDE DEF P
<1>4. \A v \in Seq(Messages) : v \in P
  BY <1>2, <1>3, SeqInduct
<1> QED BY <1>4 DEF P, History

\* Turns of that shape are what their messages group into.
LEMMA GroupOfFlatten ==
  ASSUME NEW ts \in Seq(Turn), Shaped(ts)
  PROVE  GroupTurns(FlattenTurns(ts)) = ts
<1> DEFINE P == {us \in Seq(Turn) : Shaped(us) => GroupTurns(FlattenTurns(us)) = us}
<1>1. <<>> \in P
  BY EmptySeq, FlattenLaw, GroupLaw DEF History
<1>2. ASSUME NEW us \in Seq(Turn), NEW t \in Turn, us \in P
      PROVE  Append(us, t) \in P
  <2>1. Append(us, t) \in Seq(Turn)
    BY AppendProperties
  <2> SUFFICES ASSUME Shaped(Append(us, t)) PROVE GroupTurns(FlattenTurns(Append(us, t))) = Append(us, t)
    BY <2>1
  <2>2. /\ Shaped(us) /\ (us # <<>> => t[1].role = "user")
        /\ \A j \in 2 .. Len(t) : t[j].role # "user"
    BY ShapedBy
  <2> DEFINE a == FlattenTurns(us)
             x == Head(t)
             u == Tail(t)
  <2>3. a \in History /\ GroupTurns(a) = us /\ FlattenTurns(Append(us, t)) = a \o t
    BY <1>2, <2>1, <2>2, FlattenLaw DEF Turn
  <2>4. /\ x \in Messages /\ u \in History /\ x = t[1] /\ t = <<x>> \o u
        /\ Len(u) = Len(t) - 1 /\ \A j \in 1 .. Len(u) : u[j] = t[j + 1]
        /\ Len(t) \in Nat \ {0}
    <3>1. t \in Seq(Messages) /\ t # <<>> /\ Len(t) \in Nat \ {0}
      BY EmptySeq DEF Turn, History
    <3>2. /\ x \in Messages /\ u \in Seq(Messages) /\ Len(u) = Len(t) - 1
          /\ \A j \in 1 .. Len(u) : u[j] = t[j + 1]
      BY <3>1, HeadTailProperties
    <3>3. x = t[1]
      BY <3>1
    <3>4. t = <<x>> \o u
      <4>1. SubSeq(t, 1, Len(t)) = <<t[1]>> \o SubSeq(t, 1 + 1, Len(t))
        <5>1. 1 \in 1 .. Len(t) /\ Len(t) \in 1 .. Len(t)
          BY <3>1
        <5> QED BY <3>1, <5>1, SubSeqRecursiveFirst
      <4>2. SubSeq(t, 1, Len(t)) = t /\ u = SubSeq(t, 2, Len(t))
        BY <3>1, SubSeqFull, TailIsSubSeq
      <4> QED BY <3>3, <4>1, <4>2
    <3> QED BY <3>1, <3>2, <3>3, <3>4 DEF History
  <2> HIDE DEF a, x, u
  <2>5. \A j \in 1 .. Len(u) : u[j].role # "user"
    <3> SUFFICES ASSUME NEW j \in 1 .. Len(u) PROVE u[j].role # "user"
      OBVIOUS
    <3>1. j + 1 \in 2 .. Len(t) /\ u[j] = t[j + 1]
      BY <2>4
    <3> QED BY <2>2, <3>1
  <2>6. x.role = "user" \/ GroupTurns(a) = <<>>
    BY <2>2, <2>3, <2>4
  <2>7. GroupTurns((a \o <<x>>) \o u) = Append(us, t)
    BY <2>3, <2>4, <2>5, <2>6, OneTurn
  <2>8. a \o t = (a \o <<x>>) \o u
    BY <2>3, <2>4, ConcatAssociative DEF History
  <2> QED BY <2>3, <2>7, <2>8
<1> HIDE DEF P
<1>3. \A us \in Seq(Turn) : us \in P
  BY <1>1, <1>2, SeqInduct
<1> QED BY <1>3 DEF P

\* Joining turns to turns joins their messages.
LEMMA FlattenOfBoth ==
  ASSUME NEW p \in Seq(Turn), NEW q \in Seq(Turn)
  PROVE  FlattenTurns(p \o q) = FlattenTurns(p) \o FlattenTurns(q)
<1> DEFINE P == {us \in Seq(Turn) : FlattenTurns(p \o us) = FlattenTurns(p) \o FlattenTurns(us)}
<1>1. <<>> \in P
  <2>1. p \o <<>> = p /\ <<>> \in Seq(Turn) /\ FlattenTurns(<<>>) = <<>>
    BY EmptySeq, ConcatEmptySeq, FlattenLaw
  <2>2. FlattenTurns(p) \o <<>> = FlattenTurns(p)
    BY FlattenLaw, ConcatEmptySeq DEF History
  <2> QED BY <2>1, <2>2
<1>2. ASSUME NEW us \in Seq(Turn), NEW t \in Turn, us \in P
      PROVE  Append(us, t) \in P
  <2>1. Append(us, t) \in Seq(Turn) /\ p \o us \in Seq(Turn) /\ Append(p \o us, t) \in Seq(Turn)
        /\ t \in History
    BY AppendProperties, ConcatProperties DEF Turn
  <2>2. p \o Append(us, t) = Append(p \o us, t)
    <3>1. Append(us, t) = us \o <<t>> /\ Append(p \o us, t) = (p \o us) \o <<t>> /\ <<t>> \in Seq(Turn)
      BY <2>1, AppendIsConcat
    <3>2. p \o (us \o <<t>>) = (p \o us) \o <<t>>
      BY <3>1, ConcatAssociative
    <3> QED BY <3>1, <3>2, Zenon
  <2>3. FlattenTurns(Append(p \o us, t)) = FlattenTurns(p \o us) \o t
    BY <2>1, FlattenLaw
  <2>4. FlattenTurns(Append(us, t)) = FlattenTurns(us) \o t
    BY <2>1, FlattenLaw
  <2>5. (FlattenTurns(p) \o FlattenTurns(us)) \o t = FlattenTurns(p) \o (FlattenTurns(us) \o t)
    <3>1. FlattenTurns(p) \in Seq(Messages) /\ FlattenTurns(us) \in Seq(Messages) /\ t \in Seq(Messages)
      BY <2>1, FlattenLaw DEF History
    <3> QED BY <3>1, Regroup, Zenon
  <2> QED BY <1>2, <2>1, <2>2, <2>3, <2>4, <2>5
<1> HIDE DEF P
<1>3. \A us \in Seq(Turn) : us \in P
  BY <1>1, <1>2, SeqInduct
<1> QED BY <1>3 DEF P

\* A transcript is as long as its parts together.
LEMMA TranscriptOfBoth ==
  ASSUME NEW p \in History, NEW q \in History
  PROVE  TranscriptTokens(p \o q) = TranscriptTokens(p) + TranscriptTokens(q)
<1> DEFINE P == {s \in History : TranscriptTokens(p \o s) = TranscriptTokens(p) + TranscriptTokens(s)}
<1>1. <<>> \in P
  <2>1. p \o <<>> = p /\ <<>> \in History
    BY EmptySeq, ConcatEmptySeq DEF History
  <2> QED BY <2>1, TranscriptLaw
<1>2. ASSUME NEW s \in Seq(Messages), NEW m \in Messages, s \in P
      PROVE  Append(s, m) \in P
  <2>1. s \in History /\ Append(s, m) \in History /\ p \o s \in History /\ Len(m.text) \in Nat
    BY AppendProperties, ConcatProperties DEF History, Messages, Texts
  <2>2. p \o Append(s, m) = Append(p \o s, m)
    <3>1. Append(s, m) = s \o <<m>> /\ Append(p \o s, m) = (p \o s) \o <<m>> /\ <<m>> \in Seq(Messages)
      BY <2>1, AppendIsConcat DEF History
    <3> QED BY <3>1, ConcatAssociative DEF History
  <2>3. /\ TranscriptTokens(Append(p \o s, m)) = TranscriptTokens(p \o s) + (1 + Len(m.text))
        /\ TranscriptTokens(Append(s, m)) = TranscriptTokens(s) + (1 + Len(m.text))
        /\ TranscriptTokens(p) \in Nat /\ TranscriptTokens(s) \in Nat
    BY <2>1, TranscriptLaw
  <2>4. TranscriptTokens(p \o s) = TranscriptTokens(p) + TranscriptTokens(s)
    BY <1>2
  <2>5. TranscriptTokens(p \o Append(s, m)) = TranscriptTokens(p) + TranscriptTokens(Append(s, m))
    BY <2>1, <2>2, <2>3, <2>4
  <2> QED BY <2>1, <2>5
<1> HIDE DEF P
<1>3. \A s \in Seq(Messages) : s \in P
  BY <1>1, <1>2, SeqInduct
<1> QED BY <1>3 DEF P, History

\* The latest part of a sequence.
From(s, n) == SubSeq(s, n + 1, Len(s))

\* A sequence is its first elements and the rest.
LEMMA FromIs ==
  ASSUME NEW S, NEW s \in Seq(S), NEW n \in 0 .. Len(s)
  PROVE  /\ From(s, n) \in Seq(S) /\ Len(From(s, n)) = Len(s) - n
         /\ \A i \in 1 .. Len(s) - n : From(s, n)[i] = s[n + i]
         /\ \E p \in Seq(S) : s = p \o From(s, n)
         /\ From(s, 0) = s
<1>0. Len(s) \in Nat /\ n \in Int /\ \A i \in 1 .. Len(s) : s[i] \in S
  OBVIOUS
<1>1. /\ From(s, n) \in Seq(S) /\ Len(From(s, n)) = Len(s) - n
      /\ \A i \in 1 .. Len(s) - n : From(s, n)[i] = s[n + i]
  <2>1. \A i \in n + 1 .. Len(s) : s[i] \in S
    BY <1>0
  <2>2. /\ SubSeq(s, n + 1, Len(s)) \in Seq(S)
        /\ Len(SubSeq(s, n + 1, Len(s))) = IF n + 1 <= Len(s) THEN Len(s) - (n + 1) + 1 ELSE 0
        /\ \A i \in 1 .. Len(s) - (n + 1) + 1 : SubSeq(s, n + 1, Len(s))[i] = s[n + 1 + i - 1]
    <3> DEFINE a == n + 1
               b == Len(s)
    <3>1. a \in Int /\ b \in Int /\ \A i \in a .. b : s[i] \in S
      BY <1>0, <2>1
    <3> HIDE DEF a, b
    <3>2. /\ SubSeq(s, a, b) \in Seq(S)
          /\ Len(SubSeq(s, a, b)) = IF a <= b THEN b - a + 1 ELSE 0
          /\ \A i \in 1 .. b - a + 1 : SubSeq(s, a, b)[i] = s[a + i - 1]
      BY <3>1, SubSeqProperties
    <3> QED BY <3>2 DEF a, b
  <2>3. Len(s) - (n + 1) + 1 = Len(s) - n /\ \A i \in 1 .. Len(s) - n : n + 1 + i - 1 = n + i
    BY <1>0
  <2>4. Len(From(s, n)) = Len(s) - n
    BY <1>0, <2>2 DEF From
  <2> QED BY <2>2, <2>3, <2>4 DEF From
<1>2. From(s, 0) = s
  BY SubSeqFull DEF From
<1>3. \E p \in Seq(S) : s = p \o From(s, n)
  <2> DEFINE p == SubSeq(s, 1, n)
  <2>1. p \in Seq(S)
    <3>1. \A i \in 1 .. n : s[i] \in S
      BY <1>0
    <3> QED BY <1>0, <3>1, SubSeqProperties
  <2>2. p \o From(s, n) = s
    <3>1. SubSeq(s, 1, n) \o SubSeq(s, n + 1, Len(s)) = SubSeq(s, 1, Len(s))
      <4>1. 1 \in 1 .. Len(s) + 1 /\ n \in 1 - 1 .. Len(s) /\ Len(s) \in n .. Len(s)
        BY <1>0
      <4> QED BY <4>1, ConcatAdjacentSubSeq
    <3> QED BY <3>1, SubSeqFull DEF From
  <2> HIDE DEF p
  <2> QED BY <2>1, <2>2
<1> QED BY <1>1, <1>2, <1>3

\* The latest turns keep their shape.
LEMMA FromIsShaped ==
  ASSUME NEW ts \in Seq(Turn), Shaped(ts), NEW n \in 0 .. Len(ts)
  PROVE  From(ts, n) \in Seq(Turn) /\ Shaped(From(ts, n))
<1> DEFINE us == From(ts, n)
<1>1. us \in Seq(Turn) /\ Len(us) = Len(ts) - n /\ \A i \in 1 .. Len(us) : us[i] = ts[n + i]
  BY FromIs
<1> HIDE DEF us
<1> SUFFICES ASSUME NEW i \in 1 .. Len(us)
             PROVE  /\ i # 1 => us[i][1].role = "user"
                    /\ \A j \in 2 .. Len(us[i]) : us[i][j].role # "user"
  BY <1>1 DEF Shaped, us
<1>2. n + i \in 1 .. Len(ts) /\ us[i] = ts[n + i] /\ (i # 1 => n + i # 1)
  BY <1>1
<1> QED BY <1>2 DEF Shaped

\* Dropping whole turns of a history leaves its latest part, which groups into the turns that
\* were not dropped.
LEMMA KeptTurns ==
  ASSUME NEW h \in History, NEW n \in 0 .. Len(GroupTurns(h))
  PROVE  LET ts == GroupTurns(h)
             kept == FlattenTurns(SubSeq(ts, n + 1, Len(ts)))
         IN  /\ kept \in History
             /\ GroupTurns(kept) = SubSeq(ts, n + 1, Len(ts))
             /\ Len(GroupTurns(kept)) = Len(ts) - n
             /\ \E p \in History : h = p \o kept
             /\ TranscriptTokens(kept) <= TranscriptTokens(h)
             /\ n # Len(ts) => kept # <<>>
<1> DEFINE ts == GroupTurns(h)
           us == From(ts, n)
           kept == FlattenTurns(us)
<1>1. /\ ts \in Seq(Turn) /\ Shaped(ts) /\ FlattenTurns(ts) = h /\ n \in 0 .. Len(ts) /\ Len(ts) \in Nat
  BY GroupLaw, GroupIsShaped, FlattenOfGroup
<1>2. us \in Seq(Turn) /\ Shaped(us) /\ Len(us) = Len(ts) - n /\ \E p \in Seq(Turn) : ts = p \o us
  <2> HIDE DEF ts
  <2> QED BY <1>1, FromIsShaped, FromIs
<1> HIDE DEF us
<1>3. kept \in History /\ GroupTurns(kept) = us
  BY <1>2, FlattenLaw, GroupOfFlatten
<1>4. PICK p \in Seq(Turn) : ts = p \o us
  BY <1>2
<1>5. FlattenTurns(p) \in History /\ h = FlattenTurns(p) \o kept
  BY <1>1, <1>2, <1>4, FlattenLaw, FlattenOfBoth
<1>6. TranscriptTokens(kept) <= TranscriptTokens(h)
  <2>1. TranscriptTokens(h) = TranscriptTokens(FlattenTurns(p)) + TranscriptTokens(kept)
    BY <1>3, <1>5, TranscriptOfBoth
  <2>2. TranscriptTokens(FlattenTurns(p)) \in Nat /\ TranscriptTokens(kept) \in Nat
    BY <1>3, <1>5, TranscriptLaw
  <2> QED BY <2>1, <2>2
<1>7. n # Len(ts) => kept # <<>>
  <2>1. kept = <<>> => us = <<>>
    BY <1>3, GroupLaw
  <2>2. us = <<>> => Len(ts) - n = 0
    BY <1>2
  <2> QED BY <2>1, <2>2, <1>1
<1> QED BY <1>2, <1>3, <1>5, <1>6, <1>7 DEF us, From

-----------------------------------------------------------------------------
(* What the fits keep *)

\* The greater and the smaller of two numbers.
LEMMA OfTwo ==
  ASSUME NEW a \in Int, NEW b \in Int
  PROVE  /\ Max({a, b}) \in Int /\ Max({a, b}) >= a /\ Max({a, b}) >= b /\ Max({a, b}) \in {a, b}
         /\ Min({a, b}) \in Int /\ Min({a, b}) <= a /\ Min({a, b}) <= b /\ Min({a, b}) \in {a, b}
<1>1. \E x \in {a, b} : \A y \in {a, b} : x >= y
  OBVIOUS
<1>2. \E x \in {a, b} : \A y \in {a, b} : x =< y
  OBVIOUS
<1>3. Max({a, b}) \in {a, b} /\ \A y \in {a, b} : Max({a, b}) >= y
  BY <1>1 DEF Max
<1>4. Min({a, b}) \in {a, b} /\ \A y \in {a, b} : Min({a, b}) =< y
  BY <1>2 DEF Min
<1> QED BY <1>3, <1>4

\* The oldest items are dropped, but one stays: what is left fits unless it is that one.
LEMMA TrimmedToTheLatest ==
  ASSUME NEW S, NEW items \in Seq(S), items # <<>>, NEW target \in Int,
         NEW sizes \in [0 .. Len(items) -> Nat]
  PROVE  \E k \in 0 .. Len(items) - 1 :
           /\ TrimOldest(items, target, sizes) = SubSeq(items, k + 1, Len(items))
           /\ sizes[k] <= target \/ k = Len(items) - 1
<1> DEFINE n == Len(items)
           total == sizes[0]
           average == total \div n
           over == (total - target) \div Max({1, average})
           estimate == Max({1, over})
           first == Min({estimate, n - 1})
           enough == {k \in first .. n - 1 : k = n - 1 \/ sizes[k] <= target}
<1>1. n \in Nat \ {0} /\ total \in Nat
  BY EmptySeq
<1>2. CASE total <= target
  <2>1. SubSeq(items, 0 + 1, Len(items)) = items
    BY SubSeqFull
  <2>2. TrimOldest(items, target, sizes) = items
    BY <1>2 DEF TrimOldest
  <2>3. 0 \in 0 .. n - 1
    BY <1>1
  <2> QED BY <1>2, <2>1, <2>2, <2>3
<1>3. CASE ~(total <= target)
  <2>1. average \in Int
    <3> HIDE DEF n, total
    <3> QED BY <1>1
  <2>2. Max({1, average}) \in Int /\ Max({1, average}) >= 1
    <3> HIDE DEF average
    <3> QED BY <2>1, OfTwo
  <2>3. over \in Int
    <3> DEFINE m == Max({1, average})
               d == total - target
    <3>1. m \in Int /\ m >= 1 /\ d \in Int
      BY <1>1, <2>2
    <3> HIDE DEF m, d
    <3>2. d \div m \in Int
      BY <3>1
    <3> QED BY <3>2 DEF m, d
  <2>4. estimate \in Int /\ estimate >= 1
    <3> HIDE DEF over
    <3> QED BY <2>3, OfTwo
  <2>5. first \in Int /\ first <= n - 1 /\ first >= 0
    <3> HIDE DEF estimate, n
    <3> QED BY <1>1, <2>4, OfTwo
  <2> HIDE DEF first
  <2>6. enough \in SUBSET Nat /\ n - 1 \in enough
    BY <1>1, <2>5
  <2>7. Min(enough) \in enough
    <3> HIDE DEF enough
    <3> QED BY <2>6, LeastOf
  <2>8. TrimOldest(items, target, sizes) = SubSeq(items, Min(enough) + 1, Len(items))
    BY <1>3 DEF TrimOldest, first
  <2> DEFINE k == Min(enough)
  <2>9. k \in 0 .. n - 1 /\ (k = n - 1 \/ sizes[k] <= target)
    <3> HIDE DEF k
    <3>1. k \in enough
      BY <2>7 DEF k
    <3> QED BY <3>1, <2>5, <1>1
  <2> HIDE DEF k
  <2>10. TrimOldest(items, target, sizes) = SubSeq(items, k + 1, Len(items))
    BY <2>8 DEF k
  <2> QED BY <2>9, <2>10
<1> QED BY <1>2, <1>3

\* The binary search: the intervals it may have left, what it does with one, its recursion.
Intervals(most) == (1 .. most + 1) \X (0 .. most)

Probe(f, fitting, p) ==
  LET lo == p[1]
      hi == p[2]
      mid == (lo + hi) \div 2
  IN IF lo > hi THEN lo - 1
     ELSE IF mid \in fitting THEN f[<<mid + 1, hi>>] ELSE f[<<lo, mid - 1>>]

Searches(f, most, fitting) == f = [p \in Intervals(most) |-> Probe(f, fitting, p)]

\* A probe halves the interval: both parts are shorter.
LEMMA Halves ==
  ASSUME NEW most \in Nat, NEW p \in Intervals(most), p[1] <= p[2]
  PROVE  LET mid == (p[1] + p[2]) \div 2
         IN  /\ mid \in p[1] .. p[2]
             /\ <<mid + 1, p[2]>> \in Intervals(most) /\ <<p[1], mid - 1>> \in Intervals(most)
             /\ p[2] - (mid + 1) < p[2] - p[1] /\ (mid - 1) - p[1] < p[2] - p[1]
<1> DEFINE lo == p[1]
           hi == p[2]
           mid == (lo + hi) \div 2
<1>1. lo \in 1 .. most + 1 /\ hi \in 0 .. most /\ lo <= hi
  BY DEF Intervals
<1> HIDE DEF lo, hi
<1>2. mid \in lo .. hi
  BY <1>1
<1> HIDE DEF mid
<1>3. /\ mid + 1 \in 1 .. most + 1 /\ mid - 1 \in 0 .. most
      /\ hi - (mid + 1) < hi - lo /\ (mid - 1) - lo < hi - lo
  BY <1>1, <1>2
<1>4. <<mid + 1, hi>> \in Intervals(most) /\ <<lo, mid - 1>> \in Intervals(most)
  BY <1>1, <1>3 DEF Intervals
<1> QED BY <1>2, <1>3, <1>4 DEF mid, lo, hi

\* The probe depends on what the search does with the halves.
LEMMA ProbesHalves ==
  ASSUME NEW most \in Nat, NEW fitting, NEW f, NEW g, NEW p \in Intervals(most),
         \A q \in Intervals(most) : q[2] - q[1] < p[2] - p[1] => f[q] = g[q]
  PROVE  Probe(f, fitting, p) = Probe(g, fitting, p)
<1>1. CASE p[1] > p[2]
  BY <1>1 DEF Probe
<1>2. CASE ~(p[1] > p[2])
  <2> DEFINE mid == (p[1] + p[2]) \div 2
             a == <<mid + 1, p[2]>>
             b == <<p[1], mid - 1>>
  <2>1. p[1] <= p[2]
    BY <1>2 DEF Intervals
  <2>2. /\ a \in Intervals(most) /\ b \in Intervals(most)
        /\ a[2] - a[1] < p[2] - p[1] /\ b[2] - b[1] < p[2] - p[1]
    BY <2>1, Halves
  <2> HIDE DEF a, b
  <2>3. f[a] = g[a] /\ f[b] = g[b]
    BY <2>2
  <2> QED BY <1>2, <2>3 DEF Probe, a, b
<1> QED BY <1>1, <1>2

\* The recursion has a solution: the intervals get shorter.
LEMMA SearchExists ==
  ASSUME NEW most \in Nat, NEW fitting
  PROVE  \E f : Searches(f, most, fitting)
<1> DEFINE I == Intervals(most)
           Solved(f, d) == \A p \in I : p[2] - p[1] + 1 <= d => f[p] = Probe(f, fitting, p)
           P == {d \in 0 .. most : \E f : Solved(f, d)}
<1>0. \A p \in I : p[1] \in Int /\ p[2] \in Int /\ p[2] - p[1] + 1 <= most
  BY DEF Intervals
<1> HIDE DEF I
<1>1. 0 \in P
  <2> DEFINE f == [p \in I |-> p[1] - 1]
  <2>1. \A p \in I : f[p] = p[1] - 1
    OBVIOUS
  <2> HIDE DEF f
  <2>2. ASSUME NEW p \in I, p[2] - p[1] + 1 <= 0 PROVE f[p] = Probe(f, fitting, p)
    <3>1. p[1] > p[2]
      BY <1>0, <2>2
    <3> QED BY <2>1, <3>1 DEF Probe
  <2>3. Solved(f, 0) /\ 0 \in 0 .. most
    BY <2>2
  <2> HIDE DEF Solved
  <2> QED BY <2>3
<1>2. ASSUME NEW d \in 0 .. most - 1, d \in P PROVE d + 1 \in P
  <2>1. PICK f : Solved(f, d)
    BY <1>2
  <2> DEFINE g == [p \in I |-> IF p[2] - p[1] + 1 <= d THEN f[p] ELSE Probe(f, fitting, p)]
  <2>2. \A p \in I : g[p] = IF p[2] - p[1] + 1 <= d THEN f[p] ELSE Probe(f, fitting, p)
    OBVIOUS
  <2> HIDE DEF g
  <2>3. ASSUME NEW p \in I, p[2] - p[1] + 1 <= d + 1
        PROVE  g[p] = Probe(g, fitting, p)
    <3>1. g[p] = Probe(f, fitting, p)
      BY <2>1, <2>2
    <3>2. \A q \in I : q[2] - q[1] < p[2] - p[1] => f[q] = g[q]
      BY <1>0, <2>2, <2>3
    <3>3. Probe(f, fitting, p) = Probe(g, fitting, p)
      BY <3>2, ProbesHalves DEF I
    <3> QED BY <3>1, <3>3
  <2>4. Solved(g, d + 1) /\ d + 1 \in 0 .. most
    BY <2>3
  <2> HIDE DEF Solved
  <2> QED BY <2>4
<1> HIDE DEF P
<1>3. most \in P
  BY <1>1, <1>2, Induct
<1>4. PICK f : Solved(f, most)
  BY <1>3 DEF P
<1>5. \A p \in I : f[p] = Probe(f, fitting, p)
  BY <1>0, <1>4
<1> DEFINE g == [p \in I |-> f[p]]
<1>6. \A p \in I : g[p] = Probe(g, fitting, p)
  <2> SUFFICES ASSUME NEW p \in I PROVE g[p] = Probe(g, fitting, p)
    OBVIOUS
  <2>1. \A q \in I : f[q] = g[q]
    OBVIOUS
  <2> HIDE DEF g
  <2> QED BY <1>5, <2>1, ProbesHalves DEF I
<1>7. g = [p \in I |-> g[p]]
  OBVIOUS
<1> HIDE DEF g
<1>8. Searches(g, most, fitting)
  BY <1>6, <1>7 DEF Searches, I
<1> QED BY <1>8

\* The search finds something that fits, or nothing.
LEMMA FoundFits ==
  ASSUME NEW most \in Nat, NEW fitting
  PROVE  LET k == LargestFit(most, fitting)
         IN  k \in 0 .. most /\ (k = 0 \/ k \in fitting)
<1> DEFINE f == CHOOSE f : f = [p \in Intervals(most) |-> Probe(f, fitting, p)]
           I == Intervals(most)
           Good(p) == f[p] = p[1] - 1 \/ (f[p] \in fitting /\ f[p] \in p[1] .. p[2])
           P == {d \in 0 .. most : \A p \in I : p[2] - p[1] + 1 <= d => Good(p)}
<1>1. f = [p \in Intervals(most) |-> Probe(f, fitting, p)]
  BY SearchExists DEF Searches
<1>2. LargestFit(most, fitting) = f[<<1, most>>]
  BY DEF LargestFit, Probe, Intervals
<1>0. \A p \in I : p[1] \in 1 .. most + 1 /\ p[2] \in 0 .. most /\ p[2] - p[1] + 1 <= most
  BY DEF Intervals
<1> HIDE DEF f
<1>3. \A p \in I : f[p] = Probe(f, fitting, p)
  BY <1>1
<1>4. \A p \in I : p[1] > p[2] => Good(p)
  BY <1>3 DEF Probe
<1>5. 0 \in P
  BY <1>0, <1>4
<1>6. ASSUME NEW d \in 0 .. most - 1, d \in P PROVE d + 1 \in P
  <2> SUFFICES ASSUME NEW p \in I, p[2] - p[1] + 1 <= d + 1 PROVE Good(p)
    OBVIOUS
  <2>1. CASE p[1] <= p[2]
    <3> DEFINE mid == (p[1] + p[2]) \div 2
               a == <<mid + 1, p[2]>>
               b == <<p[1], mid - 1>>
    <3>1. /\ a \in I /\ b \in I /\ mid \in p[1] .. p[2]
          /\ a[2] - a[1] < p[2] - p[1] /\ b[2] - b[1] < p[2] - p[1]
      BY <2>1, Halves
    <3>2. a[1] = mid + 1 /\ a[2] = p[2] /\ b[1] = p[1] /\ b[2] = mid - 1
      OBVIOUS
    <3>3. f[p] = IF mid \in fitting THEN f[a] ELSE f[b]
      BY <1>0, <1>3, <2>1 DEF Probe
    <3> HIDE DEF a, b, mid
    <3>4. Good(a) /\ Good(b)
      <4>1. a[2] - a[1] + 1 <= d /\ b[2] - b[1] + 1 <= d
        BY <1>0, <3>1
      <4> QED BY <1>6, <3>1, <4>1
    <3>5. p[1] \in Int /\ p[2] \in Int /\ mid \in Int /\ p[1] <= mid /\ mid <= p[2]
      BY <1>0, <3>1
    <3> HIDE DEF I
    <3>6. CASE mid \in fitting
      BY <3>2, <3>3, <3>4, <3>5, <3>6
    <3>7. CASE mid \notin fitting
      BY <3>2, <3>3, <3>4, <3>5, <3>7
    <3> QED BY <3>6, <3>7
  <2>2. CASE ~(p[1] <= p[2])
    BY <1>0, <1>4, <2>2
  <2> QED BY <2>1, <2>2
<1> HIDE DEF P
<1>7. most \in P
  BY <1>5, <1>6, Induct
<1> DEFINE p == <<1, most>>
<1>8. p \in I /\ p[1] = 1 /\ p[2] = most
  BY DEF Intervals
<1> HIDE DEF p
<1>9. Good(p)
  BY <1>0, <1>7, <1>8 DEF P
<1>10. LargestFit(most, fitting) = f[p]
  BY <1>2 DEF p
<1> HIDE DEF I
<1> QED BY <1>8, <1>9, <1>10

\* The search finds no less than what fits together with everything below it.
LEMMA FoundIsMost ==
  ASSUME NEW most \in Nat, NEW fitting, NEW j \in 0 .. most, \A k \in 1 .. j : k \in fitting
  PROVE  j <= LargestFit(most, fitting)
<1> DEFINE f == CHOOSE f : f = [p \in Intervals(most) |-> Probe(f, fitting, p)]
           I == Intervals(most)
           Good(p) == j <= p[2] => f[p] \in Int /\ j <= f[p]
           P == {d \in 0 .. most : \A p \in I : p[2] - p[1] + 1 <= d => Good(p)}
<1>1. f = [p \in Intervals(most) |-> Probe(f, fitting, p)]
  BY SearchExists DEF Searches
<1>2. LargestFit(most, fitting) = f[<<1, most>>]
  BY DEF LargestFit, Probe, Intervals
<1>0. \A p \in I : p[1] \in 1 .. most + 1 /\ p[2] \in 0 .. most /\ p[2] - p[1] + 1 <= most
  BY DEF Intervals
<1> HIDE DEF f
<1>3. \A p \in I : f[p] = Probe(f, fitting, p)
  BY <1>1
<1>4. \A p \in I : p[1] > p[2] => Good(p)
  <2> SUFFICES ASSUME NEW p \in I, p[1] > p[2], j <= p[2] PROVE f[p] \in Int /\ j <= f[p]
    OBVIOUS
  <2>1. f[p] = p[1] - 1
    BY <1>3 DEF Probe
  <2>2. p[1] \in Int /\ p[2] \in Int
    BY <1>0
  <2> QED BY <2>1, <2>2
<1>5. 0 \in P
  BY <1>0, <1>4
<1>6. ASSUME NEW d \in 0 .. most - 1, d \in P PROVE d + 1 \in P
  <2> SUFFICES ASSUME NEW p \in I, p[2] - p[1] + 1 <= d + 1 PROVE Good(p)
    OBVIOUS
  <2>1. CASE p[1] <= p[2]
    <3> DEFINE mid == (p[1] + p[2]) \div 2
               a == <<mid + 1, p[2]>>
               b == <<p[1], mid - 1>>
    <3>1. /\ a \in I /\ b \in I /\ mid \in p[1] .. p[2]
          /\ a[2] - a[1] < p[2] - p[1] /\ b[2] - b[1] < p[2] - p[1]
      BY <2>1, Halves
    <3>2. a[1] = mid + 1 /\ a[2] = p[2] /\ b[1] = p[1] /\ b[2] = mid - 1
      OBVIOUS
    <3>3. f[p] = IF mid \in fitting THEN f[a] ELSE f[b]
      BY <1>0, <1>3, <2>1 DEF Probe
    <3> HIDE DEF a, b, mid
    <3>4. Good(a) /\ Good(b)
      <4>1. a[2] - a[1] + 1 <= d /\ b[2] - b[1] + 1 <= d
        BY <1>0, <3>1
      <4> QED BY <1>6, <3>1, <4>1
    <3>5. p[1] \in Int /\ p[2] \in Int /\ mid \in Int /\ p[1] <= mid /\ mid <= p[2] /\ p[1] >= 1 /\ j \in Int
      BY <1>0, <3>1
    <3> HIDE DEF I
    <3>6. CASE mid \in fitting
      BY <3>2, <3>3, <3>4, <3>5, <3>6
    <3>7. CASE mid \notin fitting
      <4>1. mid \notin 1 .. j
        BY <3>7
      <4>2. j <= mid - 1
        BY <3>5, <4>1
      <4> QED BY <3>2, <3>3, <3>4, <3>5, <3>7, <4>2
    <3> QED BY <3>6, <3>7
  <2>2. CASE ~(p[1] <= p[2])
    BY <1>0, <1>4, <2>2
  <2> QED BY <2>1, <2>2
<1> HIDE DEF P
<1>7. most \in P
  BY <1>5, <1>6, Induct
<1> DEFINE p == <<1, most>>
<1>8. p \in I /\ p[1] = 1 /\ p[2] = most
  BY DEF Intervals
<1> HIDE DEF p
<1>9. Good(p)
  BY <1>0, <1>7, <1>8 DEF P
<1>10. LargestFit(most, fitting) = f[p]
  BY <1>2 DEF p
<1> HIDE DEF I
<1> QED BY <1>8, <1>9, <1>10

\* A trimmed history is its latest part: it fits, or it is one turn.
LEMMA TrimChatKeeps ==
  ASSUME NEW h \in History, NEW trigger \in Nat, NEW target \in Nat
  PROVE  LET c == TrimChat(h, trigger, target)
         IN  /\ c \in History /\ \E p \in History : h = p \o c
             /\ c = <<>> => h = <<>>
             /\ TranscriptTokens(c) <= trigger \/ Len(GroupTurns(c)) = 1
<1> DEFINE ts == GroupTurns(h)
           n == Len(ts)
           Kept(k) == FlattenTurns(SubSeq(ts, k + 1, n))
           sizes == [k \in 0 .. n |-> TranscriptTokens(Kept(k))]
           goal == Min({target, trigger})
           c == TrimChat(h, trigger, target)
<1>1. ts \in Seq(Turn) /\ n \in Nat /\ (ts # <<>> => n # 0) /\ FlattenTurns(ts) = h /\ (ts = <<>> => h = <<>>)
      /\ <<>> \in History
  BY GroupLaw, FlattenOfGroup, EmptySeq DEF History
<1>2. \A k \in 0 .. n :
        /\ Kept(k) \in History /\ \E p \in History : h = p \o Kept(k)
        /\ Len(GroupTurns(Kept(k))) = n - k /\ (k # n => Kept(k) # <<>>)
        /\ TranscriptTokens(Kept(k)) \in Nat
  BY KeptTurns, TranscriptLaw
<1>3. CASE ts = <<>>
  <2>1. c = <<>> /\ h = <<>>
    BY <1>1, <1>3 DEF TrimChat
  <2>2. TranscriptTokens(<<>>) = 0 /\ <<>> \o <<>> = <<>>
    BY <1>1, TranscriptLaw, ConcatEmptySeq DEF History
  <2> QED BY <1>1, <2>1, <2>2
<1>4. CASE ts # <<>> /\ sizes[0] <= trigger
  <2>1. Kept(0) = h
    <3>1. SubSeq(ts, 0 + 1, n) = ts
      BY <1>1, SubSeqFull
    <3> QED BY <1>1, <3>1
  <2>2. sizes[0] = TranscriptTokens(h)
    BY <1>1, <2>1
  <2>3. c = h
    BY <1>4 DEF TrimChat
  <2>4. <<>> \o h = h
    BY ConcatEmptySeq DEF History
  <2> QED BY <1>1, <1>4, <2>2, <2>3, <2>4
<1>5. CASE ts # <<>> /\ ~(sizes[0] <= trigger)
  <2>1. c = FlattenTurns(TrimOldest(ts, goal, sizes))
    BY <1>5 DEF TrimChat
  <2>2. goal \in Int /\ goal <= trigger
    <3>1. target \in Int /\ trigger \in Int
      OBVIOUS
    <3> QED BY <3>1, OfTwo
  <2>3. sizes \in [0 .. n -> Nat]
    BY <1>2
  <2>4. PICK k \in 0 .. n - 1 :
          /\ TrimOldest(ts, goal, sizes) = SubSeq(ts, k + 1, n)
          /\ sizes[k] <= goal \/ k = n - 1
    <3> HIDE DEF sizes, goal, ts
    <3> QED BY <1>1, <1>5, <2>2, <2>3, TrimmedToTheLatest
  <2>5. c = Kept(k) /\ k \in 0 .. n /\ k # n
    <3>1. c = Kept(k)
      BY <2>1, <2>4
    <3> HIDE DEF c, Kept, n
    <3> QED BY <1>1, <3>1
  <2>6. sizes[k] = TranscriptTokens(Kept(k))
    BY <2>5
  <2> HIDE DEF c, Kept, sizes, goal, n
  <2>7. c \in History /\ (\E p \in History : h = p \o c) /\ c # <<>>
    BY <1>2, <2>5
  <2>8. TranscriptTokens(c) \in Nat /\ Len(GroupTurns(c)) = n - k
    BY <1>2, <2>5
  <2>9. TranscriptTokens(c) <= trigger \/ Len(GroupTurns(c)) = 1
    BY <1>1, <2>2, <2>4, <2>5, <2>6, <2>8
  <2> QED BY <2>7, <2>9 DEF c
<1> QED BY <1>3, <1>4, <1>5

\* The first text has no token that the second has not.
NoNewTokens(t, s) == \A S : s \in Seq(S) => t \in Seq(S)

\* Cutting a text leaves a text of the same tokens.
LEMMA CutIsText ==
  ASSUME NEW text \in Texts, NEW n \in Int, NEW keep
  PROVE  /\ Cut(text, n, keep) \in Texts /\ NoNewTokens(Cut(text, n, keep), text)
         /\ n <= 0 => Cut(text, n, keep) = <<>>
<1> DEFINE m == Min({n, Len(text)})
           r == Len(text) - n + 1
           a == Max({1, r})
<1>1. Len(text) \in Nat
  BY DEF Texts
<1>2. m \in Int /\ m <= Len(text)
  <2>1. n \in Int /\ Len(text) \in Int
    BY <1>1
  <2> QED BY <2>1, OfTwo
<1>3. r \in Int
  BY <1>1
<1>4. a \in Int /\ a >= 1
  <2> HIDE DEF r
  <2> QED BY <1>3, OfTwo
<1> HIDE DEF m, a
<1>5. ASSUME NEW S, text \in Seq(S) PROVE Cut(text, n, keep) \in Seq(S)
  <2>1. \A i \in 1 .. Len(text) : text[i] \in S
    BY <1>5
  <2>2. FirstTokens(text, n) \in Seq(S)
    <3>1. \A i \in 1 .. m : text[i] \in S
      BY <1>1, <1>2, <2>1
    <3>2. SubSeq(text, 1, m) \in Seq(S)
      BY <1>2, <3>1, SubSeqProperties
    <3> QED BY <3>2 DEF FirstTokens, m
  <2>3. LastTokens(text, n) \in Seq(S)
    <3>1. \A i \in a .. Len(text) : text[i] \in S
      BY <1>1, <1>4, <2>1
    <3>2. SubSeq(text, a, Len(text)) \in Seq(S)
      BY <1>1, <1>4, <3>1, SubSeqProperties
    <3> QED BY <3>2 DEF LastTokens, a
  <2> QED BY <2>2, <2>3, EmptySeq DEF Cut
<1>6. n <= 0 => Cut(text, n, keep) = <<>>
  BY DEF Cut
<1> QED BY <1>5, <1>6 DEF NoNewTokens, Texts

\* A text cut behind its n-th token.
LEMMA CutAtStart ==
  ASSUME NEW text \in Texts, NEW n \in 1 .. Len(text)
  PROVE  LET c == Cut(text, n, "start")
         IN  c \in Texts /\ Len(c) = n /\ c # <<>> /\ \A i \in 1 .. n : c[i] = text[i]
<1>1. Len(text) \in Nat /\ n \in Int /\ n >= 1 /\ n <= Len(text)
  BY DEF Texts
<1>2. Min({n, Len(text)}) = n
  <2>1. n \in Int /\ Len(text) \in Int
    BY <1>1
  <2> DEFINE l == Len(text)
             m == Min({n, l})
  <2> HIDE DEF l
  <2>2. m \in Int /\ m <= n /\ m \in {n, l} /\ (m = l /\ n <= l => m = n)
    <3>1. l \in Int
      BY <2>1 DEF l
    <3>2. m \in Int /\ m <= n /\ m <= l /\ m \in {n, l}
      BY <1>1, <3>1, OfTwo
    <3> HIDE DEF m
    <3> QED BY <1>1, <3>1, <3>2
  <2> QED BY <1>1, <2>2 DEF l
<1>3. Cut(text, n, "start") = SubSeq(text, 1, n)
  <2>1. Cut(text, n, "start") = FirstTokens(text, n)
    BY <1>1 DEF Cut
  <2> QED BY <1>2, <2>1 DEF FirstTokens
<1>4. /\ SubSeq(text, 1, n) \in Seq(Nat) /\ Len(SubSeq(text, 1, n)) = n
      /\ \A i \in 1 .. n : SubSeq(text, 1, n)[i] = text[i]
  <2>1. \A i \in 1 .. n : text[i] \in Nat
    BY <1>1 DEF Texts
  <2>2. /\ SubSeq(text, 1, n) \in Seq(Nat)
        /\ Len(SubSeq(text, 1, n)) = IF 1 <= n THEN n - 1 + 1 ELSE 0
        /\ \A i \in 1 .. n - 1 + 1 : SubSeq(text, 1, n)[i] = text[1 + i - 1]
    BY <1>1, <2>1, SubSeqProperties
  <2>3. n - 1 + 1 = n /\ \A i \in 1 .. n : 1 + i - 1 = i
    BY <1>1
  <2> QED BY <1>1, <2>2, <2>3
<1> DEFINE c == SubSeq(text, 1, n)
<1>5. c \in Seq(Nat) /\ Len(c) = n /\ \A i \in 1 .. n : c[i] = text[i]
  BY <1>4
<1>6. Cut(text, n, "start") = c
  BY <1>3
<1> HIDE DEF c
<1>7. c # <<>>
  BY <1>1, <1>5, EmptySeq
<1> QED BY <1>5, <1>6, <1>7 DEF Texts

\* A text is counted in numbers.
LEMMA ToolCountIs ==
  ASSUME NEW text \in Texts
  PROVE  ToolCount(text) \in Nat /\ ToolCount(<<>>) = 0
BY TokenConstants DEF ToolCount, Texts

\* A text cut for the tool model fits.
LEMMA CutFits ==
  ASSUME NEW text \in Texts, NEW budget \in Nat \ {0}, NEW keep
  PROVE  LET c == CutToolText(text, budget, keep)
         IN  c \in Texts /\ ToolCount(c) <= budget /\ NoNewTokens(c, text)
<1> DEFINE fitting == {n \in 1 .. Len(text) :
                         Cut(text, n, keep) # <<>> /\ ToolCount(Cut(text, n, keep)) <= budget}
           k == LargestFit(Len(text), fitting)
<1>1. Len(text) \in Nat
  BY DEF Texts
<1>2. k \in 0 .. Len(text) /\ (k = 0 \/ k \in fitting)
  <2> HIDE DEF fitting
  <2> QED BY <1>1, FoundFits
<1>3. CASE ToolCount(text) <= budget
  BY <1>3 DEF CutToolText, NoNewTokens
<1>4. CASE ~(ToolCount(text) <= budget)
  <2>1. CutToolText(text, budget, keep) = Cut(text, k, keep)
    BY <1>4 DEF CutToolText
  <2> HIDE DEF k
  <2>2. /\ Cut(text, k, keep) \in Texts /\ NoNewTokens(Cut(text, k, keep), text)
        /\ k = 0 => Cut(text, k, keep) = <<>>
    BY <1>1, <1>2, CutIsText
  <2>3. k # 0 => ToolCount(Cut(text, k, keep)) <= budget
    BY <1>2
  <2>4. k = 0 => ToolCount(Cut(text, k, keep)) <= budget
    BY <2>2, ToolCountIs
  <2> QED BY <2>1, <2>2, <2>3, <2>4
<1> QED BY <1>3, <1>4

\* The turns a tool store holds.
Entries == [id : Int, text : Texts \ {<<>>}]

\* The texts of a tool store are counted in numbers; those of one entry are its text.
LEMMA StoreTokensAre ==
  ASSUME NEW entries \in Seq(Entries)
  PROVE  /\ UserTexts(entries) \in Seq(Texts) /\ ToolStoreTokens(entries) \in Nat
         /\ entries = <<>> => ToolStoreTokens(entries) = 0
         /\ \A e \in Entries : ToolStoreTokens(<<e>>) = ToolCount(e.text)
<1>1. \A s \in Seq(Entries) : UserTexts(s) \in Seq(Texts) /\ Len(UserTexts(s)) = Len(s)
  <2> SUFFICES ASSUME NEW s \in Seq(Entries)
               PROVE  UserTexts(s) \in Seq(Texts) /\ Len(UserTexts(s)) = Len(s)
    OBVIOUS
  <2>1. DOMAIN s = 1 .. Len(s) /\ Len(s) \in Nat
    OBVIOUS
  <2>2. \A n \in 1 .. Len(s) : s[n] \in Entries
    OBVIOUS
  <2>3. \A n \in 1 .. Len(s) : s[n].text \in Texts
    BY <2>2 DEF Entries
  <2>4. UserTexts(s) = [n \in 1 .. Len(s) |-> s[n].text]
    BY <2>1 DEF UserTexts
  <2> QED BY <2>1, <2>3, <2>4
<1>2. FlattenSeq(UserTexts(entries)) \in Texts
  BY <1>1, FlattenSeqLaw DEF Texts
<1>3. ToolStoreTokens(entries) \in Nat
  BY <1>2, ToolCountIs DEF ToolStoreTokens
<1>4. entries = <<>> => ToolStoreTokens(entries) = 0
  <2>1. UserTexts(<<>>) = <<>>
    BY DEF UserTexts
  <2>2. FlattenSeq(<<>>) = <<>>
    BY DEF FlattenSeq
  <2>3. ToolCount(<<>>) = 0
    BY DEF ToolCount
  <2> QED BY <2>1, <2>2, <2>3 DEF ToolStoreTokens
<1>5. \A e \in Entries : ToolStoreTokens(<<e>>) = ToolCount(e.text)
  <2> SUFFICES ASSUME NEW e \in Entries PROVE ToolStoreTokens(<<e>>) = ToolCount(e.text)
    OBVIOUS
  <2>1. e.text \in Seq(Nat) /\ <<>> \in Seq(Seq(Nat)) /\ <<>> \in Seq(Nat)
    BY EmptySeq DEF Entries, Texts
  <2>2. UserTexts(<<e>>) = Append(<<>>, e.text)
    BY DEF UserTexts
  <2>3. FlattenSeq(Append(<<>>, e.text)) = FlattenSeq(<<>>) \o e.text
    BY <2>1, FlattenSeqLaw
  <2>4. FlattenSeq(<<>>) = <<>>
    BY DEF FlattenSeq
  <2>5. <<>> \o e.text = e.text
    BY <2>1, ConcatEmptySeq
  <2> QED BY <2>2, <2>3, <2>4, <2>5 DEF ToolStoreTokens
<1> QED BY <1>1, <1>3, <1>4, <1>5

\* An entry that is another, or what was cut from it.
IsCutOf(e, d) == e.id = d.id /\ NoNewTokens(e.text, d.text)

\* A trimmed tool store fits, and holds the latest entries under their ids, in their order, one
\* perhaps cut.
LEMMA TrimToolKeeps ==
  ASSUME NEW entries \in Seq(Entries), NEW budget \in Nat \ {0}
  PROVE  LET t == TrimTool(entries, budget)
         IN  /\ t \in Seq(Entries) /\ ToolStoreTokens(t) <= budget
             /\ \E k \in Nat : /\ Len(t) + k <= Len(entries)
                               /\ \A i \in 1 .. Len(t) : IsCutOf(t[i], entries[i + k])
<1> DEFINE n == Len(entries)
           sizes == [k \in 0 .. n |-> ToolStoreTokens(SubSeq(entries, k + 1, n))]
           kept == TrimOldest(entries, budget, sizes)
           only == kept[1]
           clipped == CutToolText(only.text, budget, "end")
           t == TrimTool(entries, budget)
<1>0. n \in Nat /\ <<>> \in Seq(Entries)
  BY EmptySeq
<1>1. CASE ToolStoreTokens(entries) <= budget
  <2>1. t = entries
    BY <1>1 DEF TrimTool
  <2>2. Len(entries) + 0 <= Len(entries) /\ \A i \in 1 .. Len(entries) : IsCutOf(entries[i], entries[i + 0])
    BY DEF IsCutOf, NoNewTokens
  <2>3. \E k \in Nat : Len(entries) + k <= Len(entries) /\ \A i \in 1 .. Len(entries) : IsCutOf(entries[i], entries[i + k])
    BY <2>2
  <2> QED BY <1>1, <2>1, <2>3
<1>2. CASE ~(ToolStoreTokens(entries) <= budget)
  <2>1. entries # <<>> /\ n # 0
    <3>1. entries # <<>>
      BY <1>0, <1>2, StoreTokensAre
    <3> QED BY <3>1, EmptySeq
  <2>2. sizes \in [0 .. n -> Nat]
    <3> SUFFICES ASSUME NEW k \in 0 .. n PROVE ToolStoreTokens(SubSeq(entries, k + 1, n)) \in Nat
      OBVIOUS
    <3>1. SubSeq(entries, k + 1, n) \in Seq(Entries)
      BY FromIs DEF From
    <3> QED BY <3>1, StoreTokensAre
  <2>3. PICK k \in 0 .. n - 1 : kept = SubSeq(entries, k + 1, n) /\ (sizes[k] <= budget \/ k = n - 1)
    <3>1. budget \in Int
      OBVIOUS
    <3> HIDE DEF sizes
    <3> QED BY <2>1, <2>2, <3>1, TrimmedToTheLatest
  <2>4. /\ kept \in Seq(Entries) /\ Len(kept) = n - k /\ \A i \in 1 .. n - k : kept[i] = entries[k + i]
        /\ sizes[k] = ToolStoreTokens(kept)
    <3>1. k \in 0 .. n
      BY <1>0
    <3>2. kept = From(entries, k)
      BY <2>3 DEF From
    <3>3. sizes[k] = ToolStoreTokens(kept)
      BY <2>3, <3>1
    <3> HIDE DEF kept, sizes
    <3> QED BY <3>1, <3>2, <3>3, FromIs
  <2>5. t = IF ToolStoreTokens(kept) <= budget \/ Len(kept) # 1 THEN kept
            ELSE IF clipped # <<>> THEN <<Entry(only.id, clipped)>> ELSE <<>>
    BY <1>2 DEF TrimTool
  <2> HIDE DEF kept, sizes, clipped, t
  <2>8. n \in Nat /\ k \in Nat /\ k <= n /\ n = Len(entries)
    BY <1>0, <2>3
  <2> HIDE DEF n
  <2>6. CASE ToolStoreTokens(kept) <= budget \/ Len(kept) # 1
    <3>1. t = kept /\ ToolStoreTokens(kept) <= budget
      <4>1. t = kept
        BY <2>5, <2>6
      <4>2. sizes[k] <= budget \/ Len(kept) = 1
        <5>1. k = n - 1 => n - k = 1
          BY <2>8
        <5>2. k = n - 1 => Len(kept) = 1
          BY <2>4, <5>1, Zenon
        <5> QED BY <2>3, <5>2, Zenon
      <4> QED BY <4>1, <4>2, <2>4, <2>6
    <3>2. Len(t) + k <= n /\ \A i \in 1 .. Len(t) : IsCutOf(t[i], entries[i + k])
      <4>1. Len(t) = n - k /\ \A i \in 1 .. n - k : t[i] = entries[k + i]
        BY <2>4, <3>1
      <4> QED BY <2>8, <4>1 DEF IsCutOf, NoNewTokens
    <3>3. \E j \in Nat : Len(t) + j <= n /\ \A i \in 1 .. Len(t) : IsCutOf(t[i], entries[i + j])
      BY <2>8, <3>2
    <3> QED BY <2>4, <2>8, <3>1, <3>3 DEF t
  <2>7. CASE ~(ToolStoreTokens(kept) <= budget \/ Len(kept) # 1)
    <3>1. Len(kept) = 1 /\ n - k = 1 /\ only \in Entries /\ only = entries[k + 1]
      <4>1. 1 \in 1 .. Len(kept) /\ Len(kept) = 1
        <5>1. Len(kept) = 1
          BY <2>7, Zenon
        <5> QED BY <5>1
      <4>2. n - k = 1 /\ k \in Int /\ 1 \in 1 .. n - k
        <5>1. n - k = 1
          BY <4>1, <2>4, Zenon
        <5> QED BY <2>8, <5>1
      <4>4. kept[1] = entries[k + 1]
        BY <4>2, <2>4, Zenon
      <4>3. kept[1] \in Entries
        BY <4>1, <2>4
      <4> QED BY <4>1, <4>2, <4>3, <4>4
    <3>2. clipped \in Texts /\ ToolCount(clipped) <= budget /\ NoNewTokens(clipped, only.text)
      BY <3>1, CutFits DEF clipped, Entries
    <3>3. CASE clipped # <<>>
      <4> DEFINE e == Entry(only.id, clipped)
      <4>1. e \in Entries /\ e.id = only.id /\ e.text = clipped
        BY <3>1, <3>2, <3>3 DEF Entry, Entries
      <4> HIDE DEF e
      <4>2. t = <<e>>
        BY <2>5, <2>7, <3>3 DEF e
      <4>3. ToolStoreTokens(t) <= budget /\ t \in Seq(Entries)
        <5>1. ToolStoreTokens(<<e>>) = ToolCount(e.text) /\ <<e>> \in Seq(Entries)
          BY <1>0, <4>1, StoreTokensAre
        <5> QED BY <3>2, <4>1, <4>2, <5>1
      <4>4. Len(t) = 1 /\ t[1] = e
        BY <4>2
      <4>5. Len(t) + k <= n /\ \A i \in 1 .. Len(t) : IsCutOf(t[i], entries[i + k])
        <5>1. \A i \in 1 .. 1 : i = 1 /\ i + k = k + 1
          BY <2>8
        <5>2. IsCutOf(e, only)
          BY <3>2, <4>1 DEF IsCutOf
        <5> QED BY <2>8, <3>1, <4>4, <5>1, <5>2
      <4>6. \E j \in Nat : Len(t) + j <= n /\ \A i \in 1 .. Len(t) : IsCutOf(t[i], entries[i + j])
        BY <2>8, <4>5
      <4> QED BY <4>3, <2>8, <4>6 DEF t
    <3>4. CASE clipped = <<>>
      <4>1. t = <<>> /\ Len(t) = 0
        BY <2>5, <2>7, <3>4
      <4>2. ToolStoreTokens(t) <= budget /\ t \in Seq(Entries)
        <5>1. ToolStoreTokens(<<>>) = 0
          BY <1>0, StoreTokensAre
        <5> QED BY <1>0, <4>1, <5>1
      <4>3. Len(t) + 0 <= n /\ \A i \in 1 .. Len(t) : IsCutOf(t[i], entries[i + 0])
        BY <1>0, <4>1
      <4>4. \E j \in Nat : Len(t) + j <= n /\ \A i \in 1 .. Len(t) : IsCutOf(t[i], entries[i + j])
        BY <4>3
      <4> QED BY <4>2, <2>8, <4>4 DEF t
    <3> QED BY <3>3, <3>4
  <2> QED BY <2>6, <2>7
<1> QED BY <1>1, <1>2

-----------------------------------------------------------------------------
(* Histories, imports and prompts *)

\* Adding to a history that goes on: only its last message matters.
LEMMA AppendToLatest ==
  ASSUME NEW p \in History, NEW c \in History, c # <<>> \/ p = <<>>, NEW m \in Items
  PROVE  /\ AppendMessage(c, m) \in History
         /\ AppendMessage(p \o c, m) = p \o AppendMessage(c, m)
         /\ AppendMessage(c, m) = <<>> => c = <<>> /\ (m.role \notin Roles \/ m.text = <<>>)
<1>1. AppendMessage(c, m) \in History
  BY FoldsClosed DEF Closed, Step
<1>2. p \in Seq(Messages) /\ c \in Seq(Messages)
  BY DEF History
<1>3. CASE m.role \notin Roles \/ m.text = <<>>
  BY <1>1, <1>3 DEF AppendMessage
<1>4. CASE ~(m.role \notin Roles \/ m.text = <<>>) /\ m.role = "user" /\ c # <<>> /\ Last(c).role = "user"
  <2>1. PICK r \in Seq(Messages), d \in Messages : c = Append(r, d) /\ Len(c) = Len(r) + 1 /\ c[Len(c)] = d
    BY <1>2, <1>4, Ends
  <2> DEFINE e == [d EXCEPT !.text = @ \o m.text]
             s == p \o r
  <2>2. e \in Messages
    <3>1. d.text \in Seq(Nat) /\ d.text # <<>> /\ m.text \in Seq(Nat)
      BY DEF Messages, Items, Texts
    <3>2. d.text \o m.text \in Seq(Nat) /\ d.text \o m.text # <<>>
      BY <3>1, ConcatProperties, ConcatEqualIffEmpty
    <3> QED BY <3>2 DEF Messages, Texts
  <2>3. p \o c = Append(s, d) /\ p \o Append(r, e) = Append(s, e) /\ s \in Seq(Messages)
    <3>1. <<d>> \in Seq(Messages) /\ <<e>> \in Seq(Messages) /\ s \in Seq(Messages)
      BY <1>2, <2>2, ConcatProperties
    <3>2. Append(r, d) = r \o <<d>> /\ Append(r, e) = r \o <<e>> /\ Append(s, d) = s \o <<d>> /\ Append(s, e) = s \o <<e>>
      BY <2>2, <3>1, AppendIsConcat
    <3>3. p \o (r \o <<d>>) = s \o <<d>> /\ p \o (r \o <<e>>) = s \o <<e>>
      BY <1>2, <3>1, ConcatAssociative
    <3> QED BY <2>1, <3>1, <3>2, <3>3
  <2> HIDE DEF s
  <2>4. Len(Append(s, d)) = Len(s) + 1 /\ Append(s, d)[Len(s) + 1] = d /\ Append(s, d) # <<>>
    BY <2>3, AppendProperties
  <2>5. AppendMessage(c, m) = WithLast(c, e)
    BY <1>4, <2>1 DEF AppendMessage, WithLast, Last
  <2>6. AppendMessage(Append(s, d), m) = WithLast(Append(s, d), e)
    BY <1>4, <2>1, <2>4 DEF AppendMessage, WithLast, Last
  <2> HIDE DEF e
  <2>7. WithLast(c, e) = Append(r, e)
    BY <2>1, <2>2, LastReplaced
  <2>8. WithLast(Append(s, d), e) = Append(s, e)
    BY <2>2, <2>3, LastReplaced
  <2>9. Append(r, e) # <<>>
    BY <2>2, AppendProperties
  <2> QED BY <1>1, <2>3, <2>5, <2>6, <2>7, <2>8, <2>9
<1>5. CASE ~(m.role \notin Roles \/ m.text = <<>>) /\ ~(m.role = "user" /\ c # <<>> /\ Last(c).role = "user")
  <2>1. m \in Messages /\ <<m>> \in Seq(Messages)
    BY <1>5 DEF Items, Messages
  <2>2. AppendMessage(c, m) = Append(c, m) /\ Append(c, m) # <<>>
    BY <1>2, <1>5, <2>1, AppendProperties DEF AppendMessage
  <2>3. AppendMessage(p \o c, m) = Append(p \o c, m)
    <3>1. CASE c = <<>>
      <4>1. p \o c = <<>>
        BY <3>1
      <4> QED BY <1>5, <4>1 DEF AppendMessage
    <3>2. CASE c # <<>>
      <4>1. Last(p \o c) = Last(c)
        <5>1. Len(p \o c) = Len(p) + Len(c) /\ Len(c) \in Nat \ {0} /\ Len(p) \in Nat
              /\ \A i \in 1 .. Len(p) + Len(c) :
                   (p \o c)[i] = IF i <= Len(p) THEN p[i] ELSE c[i - Len(p)]
          BY <1>2, <3>2, EmptySeq, ConcatProperties
        <5>2. Len(p) + Len(c) \in 1 .. Len(p) + Len(c) /\ ~(Len(p) + Len(c) <= Len(p))
              /\ Len(p) + Len(c) - Len(p) = Len(c)
          BY <5>1
        <5> QED BY <5>1, <5>2 DEF Last
      <4>2. ~(m.role = "user" /\ p \o c # <<>> /\ Last(p \o c).role = "user")
        BY <1>5, <3>2, <4>1
      <4> QED BY <1>5, <4>2 DEF AppendMessage
    <3> QED BY <3>1, <3>2
  <2>4. Append(p \o c, m) = p \o Append(c, m)
    <3>1. p \o c \in Seq(Messages)
      BY <1>2, ConcatProperties
    <3>2. Append(c, m) = c \o <<m>> /\ Append(p \o c, m) = (p \o c) \o <<m>>
      BY <1>2, <2>1, <3>1, AppendIsConcat
    <3> QED BY <1>2, <2>1, <3>2, ConcatAssociative
  <2> QED BY <1>1, <2>2, <2>3, <2>4
<1> QED BY <1>3, <1>4, <1>5

\* An exchange is what a turn adds: nothing, or its user's text and the answer to it.
LEMMA AppendAllLaw ==
  ASSUME NEW p \in History, NEW c \in History, c # <<>> \/ p = <<>>,
         NEW user \in Texts, NEW answer \in Texts
  PROVE  LET ex == Exchange(user, answer)
         IN  /\ AppendAll(c, ex) \in History
             /\ AppendAll(p \o c, ex) = p \o AppendAll(c, ex)
             /\ AppendAll(c, ex) = <<>> => p = <<>>
<1> DEFINE ex == Exchange(user, answer)
           m == Message("user", user)
           a == Message("assistant", answer)
           c1 == AppendMessage(c, m)
<1>1. m \in Items /\ a \in Items /\ <<>> \in Seq(Items)
  <2>1. m \in Items /\ a \in Items
    BY DEF Message, Items, Roles
  <2> QED BY <2>1, EmptySeq
<1>2. p \o c \in History
  BY ConcatProperties DEF History
<1> HIDE DEF m, a
<1>3. \A h \in History : AppendAll(h, <<>>) = h
  <2> SUFFICES ASSUME NEW h \in History PROVE AppendAll(h, <<>>) = h
    OBVIOUS
  <2>1. Unfolds("append", History, Items, h, <<>>)
    BY <1>1, FoldLaw, FoldsClosed
  <2> QED BY <2>1, FoldsAre DEF Unfolds, AppendAll
<1>4. \A h \in History : AppendAll(h, <<m, a>>) = AppendMessage(AppendMessage(h, m), a)
  <2> SUFFICES ASSUME NEW h \in History
               PROVE  AppendAll(h, <<m, a>>) = AppendMessage(AppendMessage(h, m), a)
    OBVIOUS
  <2>1. Unfolds("append", History, Items, h, <<>>)
    BY <1>1, FoldLaw, FoldsClosed
  <2>2. <<m>> \in Seq(Items)
    BY <1>1
  <2>3. Unfolds("append", History, Items, h, <<m>>)
    BY <2>2, FoldLaw, FoldsClosed
  <2>4. <<m>> = Append(<<>>, m) /\ <<m, a>> = Append(<<m>>, a)
    OBVIOUS
  <2>5. Fold("append", h, <<>>) = h
    BY <2>1 DEF Unfolds
  <2>6. Fold("append", h, <<m>>) = Step("append", h, m)
    BY <1>1, <2>1, <2>4, <2>5 DEF Unfolds
  <2>7. Fold("append", h, <<m, a>>) = Step("append", Fold("append", h, <<m>>), a)
    BY <1>1, <2>3, <2>4 DEF Unfolds
  <2> QED BY <2>6, <2>7, FoldsAre DEF Step, AppendAll
<1>5. CASE user = <<>>
  <2>1. ex = <<>>
    BY <1>5 DEF Exchange
  <2> QED BY <1>2, <1>3, <1>5, <2>1
<1>6. CASE user # <<>>
  <2>1. ex = <<m, a>>
    BY <1>6 DEF Exchange, m, a
  <2>2. /\ c1 \in History /\ AppendMessage(p \o c, m) = p \o c1 /\ (c1 = <<>> => c = <<>>)
    <3>1. c1 \in History
      BY <1>1, AppendToLatest
    <3>2. AppendMessage(p \o c, m) = p \o AppendMessage(c, m)
      BY <1>1, AppendToLatest
    <3>3. AppendMessage(c, m) = <<>> => c = <<>>
      BY <1>1, AppendToLatest
    <3> QED BY <3>1, <3>2, <3>3
  <2>3. c1 # <<>> \/ p = <<>>
    BY <2>2
  <2> HIDE DEF c1
  <2>4. /\ AppendMessage(c1, a) \in History /\ AppendMessage(p \o c1, a) = p \o AppendMessage(c1, a)
        /\ AppendMessage(c1, a) = <<>> => c1 = <<>>
    <3>1. c1 \in History
      BY <2>2
    <3>2. AppendMessage(c1, a) \in History
      BY <1>1, <2>3, <3>1, AppendToLatest
    <3>3. AppendMessage(p \o c1, a) = p \o AppendMessage(c1, a)
      BY <1>1, <2>3, <3>1, AppendToLatest
    <3>4. AppendMessage(c1, a) = <<>> => c1 = <<>>
      BY <1>1, <2>3, <3>1, AppendToLatest
    <3> QED BY <3>2, <3>3, <3>4
  <2>5. AppendAll(c, ex) = AppendMessage(c1, a)
    BY <1>4, <2>1 DEF c1
  <2>6. AppendAll(p \o c, ex) = AppendMessage(p \o c1, a)
    BY <1>2, <1>4, <2>1, <2>2
  <2> QED BY <2>3, <2>4, <2>5, <2>6
<1> QED BY <1>5, <1>6

\* An import is a history, its user texts are not empty, and it brings in no token.
LEMMA ParsedImports ==
  ASSUME NEW S, NEW items \in Seq(ItemsOf(S))
  PROVE  ParseForChat(items) \in Seq(MessagesOf(S)) /\ ParseForTool(items) \in Seq(Seq(S) \ {<<>>})
<1> DEFINE Asked == [role : STRING \cup Roles \cup {"system"}, text : Seq(S) \ {<<>>}]
<1>1. ParseForChat(items) \in Seq(MessagesOf(S))
  <2>1. <<>> \in Seq(MessagesOf(S))
    BY EmptySeq
  <2>2. Unfolds("append", Seq(MessagesOf(S)), ItemsOf(S), <<>>, items)
    BY <2>1, FoldLaw, JoinedTexts
  <2> QED BY <2>2, FoldsAre DEF Unfolds, ParseForChat
<1>2. Closed("ask", Seq(Asked), ItemsOf(S))
  <2> SUFFICES ASSUME NEW v \in Seq(Asked), NEW m \in ItemsOf(S)
               PROVE  (IF m.role = "user" /\ m.text # <<>> THEN Append(v, m) ELSE v) \in Seq(Asked)
    BY DEF Closed, Step
  <2>1. CASE m.role = "user" /\ m.text # <<>>
    <3>1. m \in Asked
      BY <2>1 DEF ItemsOf
    <3> HIDE DEF Asked
    <3> QED BY <2>1, <3>1, AppendProperties
  <2>2. CASE ~(m.role = "user" /\ m.text # <<>>)
    BY <2>2
  <2> QED BY <2>1, <2>2
<1> DEFINE kept == Fold("ask", <<>>, items)
<1>3. kept \in Seq(Asked)
  <2> HIDE DEF Asked
  <2>1. <<>> \in Seq(Asked)
    BY EmptySeq
  <2>2. Unfolds("ask", Seq(Asked), ItemsOf(S), <<>>, items)
    BY <1>2, <2>1, FoldLaw
  <2> QED BY <2>2 DEF Unfolds
<1>4. ParseForTool(items) = [n \in DOMAIN kept |-> kept[n].text]
  BY FoldsAre DEF ParseForTool
<1> HIDE DEF kept
<1>5. DOMAIN kept = 1 .. Len(kept) /\ Len(kept) \in Nat
  BY <1>3
<1>6. \A n \in 1 .. Len(kept) : kept[n] \in Asked
  <2> HIDE DEF Asked
  <2> QED BY <1>3
<1>7. \A n \in 1 .. Len(kept) : kept[n].text \in Seq(S) \ {<<>>}
  BY <1>6
<1>8. ParseForTool(items) = [n \in 1 .. Len(kept) |-> kept[n].text]
  BY <1>4, <1>5
<1>9. ParseForTool(items) \in Seq(Seq(S) \ {<<>>})
  <2> DEFINE T == Seq(S) \ {<<>>}
  <2>1. \A n \in 1 .. Len(kept) : kept[n].text \in T
    BY <1>7
  <2> HIDE DEF T
  <2>2. [n \in 1 .. Len(kept) |-> kept[n].text] \in Seq(T)
    BY <1>5, <2>1
  <2> QED BY <1>8, <2>2 DEF T
<1> QED BY <1>1, <1>9

\* What is joined behind a sequence is its suffix.
LEMMA SuffixOf ==
  ASSUME NEW p \in History, NEW c \in History
  PROVE  IsSuffix(c, p \o c)
<1> DEFINE s == p \o c
           n == Len(c)
           r == Reverse(c)
           t == Reverse(s)
<1>1. s \in Seq(Messages) /\ c \in Seq(Messages) /\ Len(s) = Len(p) + n /\ n \in Nat /\ Len(p) \in Nat
      /\ \A i \in 1 .. Len(p) + n : s[i] = IF i <= Len(p) THEN p[i] ELSE c[i - Len(p)]
  BY ConcatProperties DEF History
<1>2. r \in Seq(Messages) /\ Len(r) = n /\ \A i \in 1 .. n : r[i] = c[n - i + 1]
  <2>1. \A i \in 1 .. n : n - i + 1 \in 1 .. n /\ (n - i) + 1 \in 1 .. n
    BY <1>1
  <2>2. \A i \in 1 .. n : c[n - i + 1] \in Messages
    BY <1>1, <2>1
  <2> QED BY <1>1, <2>2 DEF Reverse
<1> HIDE DEF s, n
<1>3. t \in Seq(Messages) /\ Len(t) = Len(s) /\ \A i \in 1 .. n : t[i] = c[n - i + 1]
  <2>1. \A i \in 1 .. Len(s) : Len(s) - i + 1 \in 1 .. Len(s)
    BY <1>1
  <2>2. \A i \in 1 .. Len(s) : s[Len(s) - i + 1] \in Messages
    BY <1>1, <2>1
  <2>3. t = [i \in 1 .. Len(s) |-> s[Len(s) - i + 1]]
    BY DEF Reverse
  <2>4. t \in Seq(Messages) /\ Len(t) = Len(s)
    BY <1>1, <2>2, <2>3
  <2>5. ASSUME NEW i \in 1 .. n PROVE t[i] = c[n - i + 1]
    <3>1. i \in 1 .. Len(s) /\ Len(s) - i + 1 \in 1 .. Len(p) + n /\ ~(Len(s) - i + 1 <= Len(p))
          /\ (Len(s) - i + 1) - Len(p) = n - i + 1
      BY <1>1
    <3>2. t[i] = s[Len(s) - i + 1]
      BY <2>3, <3>1
    <3> QED BY <1>1, <3>1, <3>2
  <2> QED BY <2>4, <2>5
<1> HIDE DEF r, t
<1>4. \A i \in 1 .. n : t[i] = r[i]
  BY <1>2, <1>3
<1>5. SubSeq(r, 1, n) = SubSeq(t, 1, n)
  <2>0. n \in Int /\ n <= Len(t) /\ Len(t) \in Nat
    <3>1. Len(s) \in Nat /\ n <= Len(s)
      BY <1>1
    <3> QED BY <1>1, <1>3, <3>1
  <2>1. \A i \in 1 .. n : r[i] \in Messages /\ t[i] \in Messages
    <3>1. \A i \in 1 .. n : i \in 1 .. Len(t) /\ i \in 1 .. Len(r)
      BY <1>2, <2>0
    <3> QED BY <1>2, <1>3, <3>1
  <2>2. /\ SubSeq(r, 1, n) \in Seq(Messages)
        /\ Len(SubSeq(r, 1, n)) = IF 1 <= n THEN n - 1 + 1 ELSE 0
        /\ \A i \in 1 .. n - 1 + 1 : SubSeq(r, 1, n)[i] = r[1 + i - 1]
    BY <2>0, <2>1, SubSeqProperties
  <2>3. /\ SubSeq(t, 1, n) \in Seq(Messages)
        /\ Len(SubSeq(t, 1, n)) = IF 1 <= n THEN n - 1 + 1 ELSE 0
        /\ \A i \in 1 .. n - 1 + 1 : SubSeq(t, 1, n)[i] = t[1 + i - 1]
    BY <2>0, <2>1, SubSeqProperties
  <2> DEFINE x == SubSeq(r, 1, n)
             y == SubSeq(t, 1, n)
  <2>4. x \in Seq(Messages) /\ y \in Seq(Messages) /\ Len(x) = n /\ Len(y) = n
    BY <1>1, <2>2, <2>3
  <2>5. \A i \in 1 .. n : x[i] = r[i] /\ y[i] = t[i]
    <3>1. \A i \in 1 .. n : i \in 1 .. n - 1 + 1 /\ 1 + i - 1 = i
      BY <1>1
    <3> QED BY <2>2, <2>3, <3>1
  <2> HIDE DEF x, y
  <2>6. x = y
    BY <1>4, <2>4, <2>5, SeqEqual
  <2> QED BY <2>6 DEF x, y
<1>6. Len(r) <= Len(t)
  <2>1. n <= Len(s) /\ n \in Int
    BY <1>1
  <2> QED BY <1>2, <1>3, <2>1
<1> QED BY <1>2, <1>5, <1>6 DEF IsSuffix, IsPrefix, r, t, s

\* Taking a prefix off a text leaves a text.
LEMMA StripIsText ==
  ASSUME NEW text \in Texts, CheckPrefix \in Texts, CheckedPrefix \in Texts
  PROVE  StripScreenPrefix(text) \in Texts
<1>1. ASSUME NEW prefix \in Texts PROVE SubSeq(text, Len(prefix) + 1, Len(text)) \in Texts
  <2> DEFINE a == Len(prefix) + 1
             b == Len(text)
  <2>1. a \in Int /\ b \in Int /\ a >= 1 /\ \A i \in 1 .. b : text[i] \in Nat
    BY DEF Texts
  <2> HIDE DEF a, b
  <2>2. \A i \in a .. b : text[i] \in Nat
    BY <2>1
  <2>3. SubSeq(text, a, b) \in Seq(Nat)
    BY <2>1, <2>2, SubSeqProperties
  <2> QED BY <2>3 DEF Texts, a, b
<1> QED BY <1>1 DEF StripScreenPrefix

\* Prompts in which no two messages of one role follow each other.
Alternating == {v \in Seq(Items) : \A n \in 1 .. Len(v) - 1 : v[n].role # v[n + 1].role}

\* A message more leaves a prompt alternating, and ends it unless it is empty.
LEMMA PromptGrows ==
  ASSUME NEW v \in Alternating, NEW m \in Items
  PROVE  LET w == AddToPrompt(v, m)
         IN w \in Alternating /\ (m.text # <<>> => Last(w).role = m.role)
<1> DEFINE w == AddToPrompt(v, m)
           n == Len(v)
<1>0. v \in Seq(Items) /\ n \in Nat /\ (v # <<>> => n # 0)
  BY EmptySeq DEF Alternating
<1>1. CASE m.text = <<>>
  BY <1>1 DEF AddToPrompt
<1>2. CASE m.text # <<>> /\ v # <<>> /\ Last(v).role = m.role
  <2> DEFINE e == [v[n] EXCEPT !.text = @ \o m.text]
  <2>1. v[n] \in Items /\ n \in 1 .. n
    BY <1>0, <1>2
  <2>2. v[n].text \o m.text \in Texts
    <3>1. v[n].text \in Seq(Nat) /\ m.text \in Seq(Nat)
      BY <2>1 DEF Items, Texts
    <3> QED BY <3>1, ConcatProperties DEF Texts
  <2>3. e \in Items /\ e.role = v[n].role
    BY <2>1, <2>2 DEF Items
  <2>4. w = [v EXCEPT ![n] = e]
    BY <1>2 DEF AddToPrompt
  <2> HIDE DEF w, e, n
  <2>5. w \in Seq(Items) /\ Len(w) = n /\ \A j \in 1 .. n : w[j] = IF j = n THEN e ELSE v[j]
    <3>1. Len(v) = n
      BY DEF n
    <3> QED BY <1>0, <2>1, <2>3, <2>4, <3>1, ExceptSeq
  <2>6. \A j \in 1 .. n : w[j].role = v[j].role
    BY <2>3, <2>5
  <2>7. \A j \in 1 .. n - 1 : w[j].role # w[j + 1].role
    <3>1. \A j \in 1 .. n - 1 : j \in 1 .. n /\ j + 1 \in 1 .. n
      BY <1>0
    <3>2. \A j \in 1 .. n - 1 : v[j].role # v[j + 1].role
      BY DEF Alternating, n
    <3> QED BY <2>6, <3>1, <3>2
  <2>8. Last(w).role = m.role
    <3>1. Last(w) = w[n] /\ Last(v) = v[n]
      BY <2>5 DEF Last, n
    <3> QED BY <1>2, <2>1, <2>6, <3>1
  <2> QED BY <2>5, <2>7, <2>8 DEF Alternating, w
<1>3. CASE m.text # <<>> /\ ~(v # <<>> /\ Last(v).role = m.role)
  <2>1. w = Append(v, m)
    BY <1>3 DEF AddToPrompt
  <2> HIDE DEF w, n
  <2>2. w \in Seq(Items) /\ Len(w) = n + 1 /\ w[n + 1] = m /\ \A j \in 1 .. n : w[j] = v[j]
    BY <1>0, <2>1, AppendProperties DEF n
  <2>3. ASSUME NEW j \in 1 .. Len(w) - 1 PROVE w[j].role # w[j + 1].role
    <3>1. j \in 1 .. n
      BY <1>0, <2>2
    <3>2. CASE j = n
      <4>1. v # <<>> /\ Last(v) = v[n] /\ w[j] = v[n] /\ w[j + 1] = m
        BY <1>0, <2>2, <3>1, <3>2 DEF Last, n
      <4> QED BY <1>3, <4>1
    <3>3. CASE j # n
      <4>1. j \in 1 .. n - 1 /\ j + 1 \in 1 .. n
        BY <1>0, <3>1, <3>3
      <4>2. v[j].role # v[j + 1].role
        BY <4>1 DEF Alternating, n
      <4> QED BY <2>2, <3>1, <4>1, <4>2
    <3> QED BY <3>2, <3>3
  <2>4. Last(w).role = m.role
    BY <2>2 DEF Last
  <2> QED BY <2>2, <2>3, <2>4 DEF Alternating, w
<1> QED BY <1>1, <1>2, <1>3

\* The persona and the history of a prompt, before the user's text.
LEMMA PromptStart ==
  ASSUME NEW system \in Texts, NEW history \in History
  PROVE  LET start == IF system = <<>> THEN <<>> ELSE <<Message("system", system)>>
         IN  FoldLeft(AddToPrompt, start, history) \in Alternating
<1> DEFINE start == IF system = <<>> THEN <<>> ELSE <<Message("system", system)>>
           v == FoldLeft(AddToPrompt, start, history)
<1>1. start \in Alternating
  <2>1. Message("system", system) \in Items
    BY DEF Message, Items
  <2>2. start \in Seq(Items) /\ Len(start) <= 1
    <3> HIDE DEF Items
    <3> QED BY <2>1, EmptySeq
  <2>3. \A n \in 1 .. Len(start) - 1 : FALSE
    <3>1. Len(start) \in Nat
      BY <2>2
    <3> QED BY <2>2, <3>1
  <2> QED BY <2>2, <2>3 DEF Alternating
<1>2. history \in Seq(Items)
  <2>1. \A x \in Messages : x \in Items
    BY DEF Messages, Items
  <2> QED BY <2>1, SeqMonotonic DEF History
<1> HIDE DEF start
<1>3. v \in Alternating
  <2>1. Closed("prompt", Alternating, Items)
    <3> SUFFICES ASSUME NEW x \in Alternating, NEW y \in Items PROVE AddToPrompt(x, y) \in Alternating
      BY DEF Closed, Step
    <3> QED BY PromptGrows
  <2>2. Unfolds("prompt", Alternating, Items, start, history)
    BY <1>1, <1>2, <2>1, FoldLaw
  <2> QED BY <2>2, FoldsAre DEF Unfolds
<1> QED BY <1>3 DEF start

\* The messages of a prompt are counted one by one.
LEMMA SizeLaw ==
  ASSUME NEW v \in Seq(Items)
  PROVE  LET Size(s) == SumOver(s, LAMBDA x : 2 + ChatCount(x.text))
         IN  Size(v) \in Nat /\ \A m \in Items : Size(Append(v, m)) = Size(v) + (2 + Len(m.text))
<1>1. Closed("size", Nat, Items)
  <2> SUFFICES ASSUME NEW k \in Nat, NEW x \in Items PROVE k + (2 + ChatCount(x.text)) \in Nat
    BY DEF Closed, Step
  <2> QED BY DEF ChatCount, Items, Texts
<1>2. Unfolds("size", Nat, Items, 0, v)
  <2> HIDE DEF Items
  <2> QED BY <1>1, FoldLaw
<1>3. /\ Fold("size", 0, v) \in Nat
      /\ \A m \in Items : Fold("size", 0, Append(v, m)) = Step("size", Fold("size", 0, v), m)
  BY <1>2 DEF Unfolds
<1> QED BY <1>3, FoldsAre DEF Step, ChatCount

\* What a prompt is and counts, whatever the history.
LEMMA PromptIs ==
  ASSUME NEW system \in Texts, NEW history \in History, NEW user \in Texts
  PROVE  /\ PromptMessages(system, history, user) \in Alternating
         /\ user # <<>> => Last(PromptMessages(system, history, user)).role = "user"
         /\ PromptTokens(system, history, user) \in Nat
         /\ PromptSize(PromptMessages(system, history, user)) = PromptTokens(system, history, user)
<1> DEFINE start == IF system = <<>> THEN <<>> ELSE <<Message("system", system)>>
           m == Message("user", user)
           v == FoldLeft(AddToPrompt, start, history)
           w == AddToPrompt(v, m)
<1>2. m \in Items /\ m.role = "user" /\ m.text = user
  BY DEF Message, Items, Roles
<1> HIDE DEF start, m
<1>4. v \in Alternating
  BY PromptStart DEF start
<1> HIDE DEF v
<1>5. w \in Alternating /\ (user # <<>> => Last(w).role = "user")
  BY <1>2, <1>4, PromptGrows
<1>6. PromptMessages(system, history, user) = w
  BY DEF PromptMessages, w, v, m, start
<1>7. PromptSize(PromptMessages(system, history, user)) = PromptTokens(system, history, user)
  BY DEF PromptSize, PromptTokens
<1>8. SumOver(w, LAMBDA x : 2 + ChatCount(x.text)) \in Nat
  <2>1. w \in Seq(Items)
    BY <1>5 DEF Alternating
  <2> HIDE DEF w
  <2> QED BY <2>1, SizeLaw
<1>9. PromptTokens(system, history, user) \in Nat
  <2> DEFINE s == SumOver(w, LAMBDA x : 2 + ChatCount(x.text))
  <2>1. PromptTokens(system, history, user) = 1 + s
    BY <1>6 DEF PromptTokens
  <2>2. s \in Nat
    BY <1>8
  <2> HIDE DEF s
  <2> QED BY <2>1, <2>2
<1> QED BY <1>5, <1>6, <1>7, <1>9

\* A prompt grows with the user's text.
LEMMA LongerPrompt ==
  ASSUME NEW system \in Texts, NEW history \in History,
         NEW a \in Texts \ {<<>>}, NEW b \in Texts \ {<<>>}, Len(a) <= Len(b)
  PROVE  PromptTokens(system, history, a) <= PromptTokens(system, history, b)
<1> DEFINE start == IF system = <<>> THEN <<>> ELSE <<Message("system", system)>>
           v == FoldLeft(AddToPrompt, start, history)
           Size(s) == SumOver(s, LAMBDA x : 2 + ChatCount(x.text))
<1>1. v \in Seq(Items)
  <2>1. v \in Alternating
    BY PromptStart
  <2> QED BY <2>1 DEF Alternating
<1>2. \A u : PromptTokens(system, history, u) = 1 + Size(AddToPrompt(v, Message("user", u)))
  BY DEF PromptTokens, PromptMessages
<1> HIDE DEF v
<1>3. ASSUME NEW u \in Texts \ {<<>>}
      PROVE  /\ Message("user", u) \in Items /\ Message("user", u).text = u
             /\ Message("user", u).role = "user" /\ Len(u) \in Nat
  BY DEF Message, Items, Roles, Texts
<1>4. CASE v # <<>> /\ Last(v).role = "user"
  <2>1. PICK r \in Seq(Items), d \in Items : v = Append(r, d) /\ Len(v) = Len(r) + 1 /\ v[Len(v)] = d
    <3> HIDE DEF Items
    <3> QED BY <1>1, <1>4, Ends
  <2>2. ASSUME NEW u \in Texts \ {<<>>}
        PROVE  Size(AddToPrompt(v, Message("user", u))) = Size(r) + (2 + (Len(d.text) + Len(u)))
    <3> DEFINE e == [d EXCEPT !.text = @ \o u]
    <3>1. AddToPrompt(v, Message("user", u)) = WithLast(v, e)
      BY <1>3, <1>4, <2>1 DEF AddToPrompt, WithLast
    <3>2. d.text \o u \in Texts /\ Len(d.text \o u) = Len(d.text) + Len(u)
      <4>1. d.text \in Seq(Nat) /\ u \in Seq(Nat)
        BY DEF Items, Texts
      <4> QED BY <4>1, ConcatProperties DEF Texts
    <3>3. e \in Items /\ e.text = d.text \o u
      BY <3>2 DEF Items
    <3> HIDE DEF e
    <3>4. WithLast(v, e) = Append(r, e)
      <4> HIDE DEF Items
      <4> QED BY <2>1, <3>3, LastReplaced
    <3>5. Size(Append(r, e)) = Size(r) + (2 + Len(e.text))
      BY <3>3, SizeLaw
    <3> HIDE DEF Size
    <3> QED BY <3>1, <3>2, <3>3, <3>4, <3>5
  <2>3. Size(r) \in Nat /\ Len(d.text) \in Nat
    <3>1. Size(r) \in Nat
      BY SizeLaw
    <3>2. d.text \in Seq(Nat)
      BY DEF Items, Texts
    <3> HIDE DEF Size
    <3> QED BY <3>1, <3>2
  <2>4. /\ PromptTokens(system, history, a) = 1 + (Size(r) + (2 + (Len(d.text) + Len(a))))
        /\ PromptTokens(system, history, b) = 1 + (Size(r) + (2 + (Len(d.text) + Len(b))))
    <3> HIDE DEF Size
    <3> QED BY <1>2, <2>2
  <2> HIDE DEF Size
  <2> QED BY <1>3, <2>3, <2>4
<1>5. CASE ~(v # <<>> /\ Last(v).role = "user")
  <2>1. ASSUME NEW u \in Texts \ {<<>>}
        PROVE  Size(AddToPrompt(v, Message("user", u))) = Size(v) + (2 + Len(u))
    <3>1. AddToPrompt(v, Message("user", u)) = Append(v, Message("user", u))
      BY <1>3, <1>5 DEF AddToPrompt
    <3>2. Size(Append(v, Message("user", u))) = Size(v) + (2 + Len(Message("user", u).text))
      BY <1>1, <1>3, SizeLaw
    <3> HIDE DEF Size
    <3> QED BY <1>3, <3>1, <3>2
  <2>2. Size(v) \in Nat
    BY <1>1, SizeLaw
  <2>3. /\ PromptTokens(system, history, a) = 1 + (Size(v) + (2 + Len(a)))
        /\ PromptTokens(system, history, b) = 1 + (Size(v) + (2 + Len(b)))
    <3> HIDE DEF Size
    <3> QED BY <1>2, <2>1
  <2> HIDE DEF Size
  <2> QED BY <1>3, <2>2, <2>3
<1> QED BY <1>4, <1>5

\* The most of a user's text that may be kept is a number; what is kept is a text.
LEMMA FitUserIsText ==
  ASSUME NEW user \in Texts, NEW maxUser, maxUser = Null \/ maxUser \in Nat,
         NEW system, NEW history
  PROVE  LET text == FitUser(system, history, user, UserCap(user, maxUser))
         IN  text = Null \/ (text \in Texts /\ NoNewTokens(text, user))
<1> DEFINE cap == UserCap(user, maxUser)
           fitting == {k \in 1 .. cap : PromptTokens(system, history, Cut(user, k, "start")) <= ChatMaxLen}
           length == LargestFit(cap, fitting)
<1>1. cap \in Nat
  <2>1. Len(user) \in Nat
    BY DEF Texts
  <2>2. CASE maxUser = Null
    BY <2>1, <2>2 DEF UserCap
  <2>3. CASE ~(maxUser = Null)
    <3> DEFINE b == Max({1, maxUser})
               a == Len(user)
    <3>1. b \in Int /\ b >= 1
      <4>1. maxUser \in Int
        BY <2>3
      <4> QED BY <4>1, OfTwo
    <3>2. a \in Int /\ a >= 0
      BY <2>1
    <3> HIDE DEF a, b
    <3>3. Min({a, b}) \in Int /\ Min({a, b}) \in {a, b}
      BY <3>1, <3>2, OfTwo
    <3>4. Min({a, b}) \in Nat
      BY <3>1, <3>2, <3>3
    <3> QED BY <2>3, <3>4 DEF UserCap, a, b
  <2> QED BY <2>2, <2>3
<1> HIDE DEF cap
<1>2. length \in 0 .. cap
  <2> HIDE DEF fitting
  <2> QED BY <1>1, FoundFits
<1>3. FitUser(system, history, user, cap) = IF user # <<>> /\ length = 0 THEN Null ELSE Cut(user, length, "start")
  BY DEF FitUser
<1> HIDE DEF length
<1>4. Cut(user, length, "start") \in Texts /\ NoNewTokens(Cut(user, length, "start"), user)
  <2>1. length \in Int
    BY <1>1, <1>2
  <2> QED BY <2>1, CutIsText
<1> QED BY <1>3, <1>4 DEF cap

\* What fits the context: the latest whole turns and a text of the user's.
LEMMA FitChatLaw ==
  ASSUME NEW system \in Texts, NEW h \in History, NEW user \in Texts,
         NEW maxUser, maxUser = Null \/ maxUser \in Nat,
         FitChat(system, h, user, maxUser) # Null
  PROVE  LET fit == FitChat(system, h, user, maxUser)
             ts == GroupTurns(h)
         IN  /\ \E n \in 0 .. Len(ts) : fit.history = FlattenTurns(SubSeq(ts, n + 1, Len(ts)))
             /\ fit.history \in History
             /\ fit.user \in Texts /\ NoNewTokens(fit.user, user)
             /\ PromptTokens(system, fit.history, fit.user) <= ChatMaxLen
<1> DEFINE ts == GroupTurns(h)
           t == Len(ts)
           Kept(n) == FlattenTurns(SubSeq(ts, n + 1, t))
           cap == UserCap(user, maxUser)
           most == Cut(user, cap, "start")
           enough == {n \in 0 .. t : n = t \/ PromptTokens(system, Kept(n), most) <= ChatMaxLen}
           n == Min(enough)
           text == FitUser(system, Kept(n), user, cap)
           fit == FitChat(system, h, user, maxUser)
<1>1. t \in Nat
  BY GroupLaw
<1>2. n \in 0 .. t
  <2>1. enough \in SUBSET Nat /\ t \in enough
    BY <1>1
  <2>2. n \in enough
    <3> HIDE DEF enough
    <3> QED BY <2>1, LeastOf
  <2> HIDE DEF n
  <2> QED BY <2>2
<1>3. fit = IF text = Null \/ PromptTokens(system, Kept(n), text) > ChatMaxLen THEN Null
            ELSE [history |-> Kept(n), user |-> text]
  BY DEF FitChat
<1> HIDE DEF n
<1>4. Kept(n) \in History
  BY <1>2, KeptTurns
<1>5. text = Null \/ (text \in Texts /\ NoNewTokens(text, user))
  <2> HIDE DEF Kept
  <2> QED BY FitUserIsText
<1> DEFINE k == Kept(n)
<1>6. k = FlattenTurns(SubSeq(ts, n + 1, Len(ts)))
  OBVIOUS
<1> HIDE DEF k, text, fit, Kept
<1>7. text # Null /\ ~(PromptTokens(system, k, text) > ChatMaxLen) /\ fit = [history |-> k, user |-> text]
  BY <1>3 DEF k, fit
<1>8. text \in Texts /\ NoNewTokens(text, user) /\ PromptTokens(system, k, text) \in Nat
  BY <1>4, <1>5, <1>7, PromptIs DEF k
<1>9. PromptTokens(system, k, text) <= ChatMaxLen
  BY <1>7, <1>8, FitConstants
<1>10. fit.history = k /\ fit.user = text
  BY <1>7
<1>11. \E j \in 0 .. Len(ts) : k = FlattenTurns(SubSeq(ts, j + 1, Len(ts)))
  BY <1>2, <1>6
<1> QED BY <1>4, <1>8, <1>9, <1>10, <1>11 DEF k, fit

\* As much may be kept of a text as the limit on texts.
LEMMA CapIs ==
  ASSUME NEW user \in Texts, NEW j \in 1 .. Len(user), j <= UserMax
  PROVE  UserCap(user, UserMax) \in j .. Len(user)
<1>0. Len(user) \in Nat /\ UserMax \in Nat \ {0}
  BY FitConstants DEF Texts
<1>1. CASE UserMax = Null
  BY <1>0, <1>1 DEF UserCap
<1>2. CASE UserMax # Null
  <2> DEFINE b == Max({1, UserMax})
             a == Len(user)
  <2>1. b \in Int /\ b >= UserMax
    BY <1>0, OfTwo
  <2>2. a \in Int /\ j <= a
    BY <1>0
  <2>3. UserCap(user, UserMax) = Min({a, b})
    BY <1>2 DEF UserCap
  <2> HIDE DEF a, b
  <2>4. Min({a, b}) \in Int /\ Min({a, b}) <= a /\ Min({a, b}) \in {a, b}
    BY <2>1, <2>2, OfTwo
  <2>5. Min({a, b}) \in j .. a
    BY <1>0, <2>1, <2>2, <2>4
  <2> QED BY <2>3, <2>5 DEF a
<1> QED BY <1>1, <1>2

\* What is left of a text that fits is at least its beginning, if that fits by itself.
LEMMA FitKeepsStart ==
  ASSUME NEW system \in Texts, NEW h \in History, NEW user \in Texts, NEW j \in 1 .. Len(user),
         j <= UserMax, PromptTokens(system, <<>>, Cut(user, j, "start")) <= ChatMaxLen,
         FitChat(system, h, user, UserMax) # Null
  PROVE  \E k \in j .. Len(user) : FitChat(system, h, user, UserMax).user = Cut(user, k, "start")
<1> DEFINE ts == GroupTurns(h)
           t == Len(ts)
           Kept(n) == FlattenTurns(SubSeq(ts, n + 1, t))
           cap == UserCap(user, UserMax)
           most == Cut(user, cap, "start")
           enough == {n \in 0 .. t : n = t \/ PromptTokens(system, Kept(n), most) <= ChatMaxLen}
           n == Min(enough)
           text == FitUser(system, Kept(n), user, cap)
           fit == FitChat(system, h, user, UserMax)
           fitting == {k \in 1 .. cap : PromptTokens(system, Kept(n), Cut(user, k, "start")) <= ChatMaxLen}
           length == LargestFit(cap, fitting)
<1>0. Len(user) \in Nat /\ t \in Nat /\ ChatMaxLen \in Nat /\ j \in Nat
  BY FitConstants, GroupLaw DEF Texts
<1>1. cap \in j .. Len(user)
  BY CapIs
<1>2. n \in enough /\ n \in 0 .. t
  <2>1. enough \in SUBSET Nat /\ t \in enough
    BY <1>0
  <2>2. n \in enough
    <3> HIDE DEF enough
    <3> QED BY <2>1, LeastOf
  <2> HIDE DEF n
  <2> QED BY <2>2
<1>3. Kept(n) \in History /\ (n = t => Kept(n) = <<>>)
  <2> HIDE DEF n
  <2>1. Kept(n) \in History
    BY <1>2, KeptTurns
  <2>2. n = t => GroupTurns(Kept(n)) = SubSeq(ts, t + 1, t)
    BY <1>2, KeptTurns
  <2>3. SubSeq(ts, t + 1, t) = <<>>
    <3>1. t + 1 > t
      BY <1>0
    <3> HIDE DEF t, ts
    <3> QED BY <1>0, <3>1, SubSeqEmpty
  <2>4. \A g \in History : GroupTurns(g) = <<>> => g = <<>>
    <3> SUFFICES ASSUME NEW g \in History, GroupTurns(g) = <<>> PROVE g = <<>>
      OBVIOUS
    <3>1. FlattenTurns(<<>>) = g
      BY FlattenOfGroup
    <3>2. FlattenTurns(<<>>) = <<>>
      BY EmptySeq, FlattenLaw
    <3> QED BY <3>1, <3>2
  <2> QED BY <2>1, <2>2, <2>3, <2>4
<1>4. most \in Texts \ {<<>>} /\ Len(most) = cap
  <2>1. cap \in 1 .. Len(user)
    BY <1>0, <1>1
  <2> HIDE DEF cap
  <2> QED BY <2>1, CutAtStart
<1> HIDE DEF most, cap
<1>5. ASSUME NEW k \in 1 .. j
      PROVE  k \in fitting
  <2> DEFINE c == Cut(user, k, "start")
             s == Cut(user, j, "start")
             kept == Kept(n)
  <2>1. k \in 1 .. cap /\ k \in 1 .. Len(user) /\ k <= j /\ k \in Nat /\ k <= cap
    BY <1>0, <1>1
  <2>2. c \in Texts \ {<<>>} /\ s \in Texts \ {<<>>} /\ Len(c) = k /\ Len(s) = j
    BY <2>1, CutAtStart
  <2>3. kept \in History /\ (n = t => kept = <<>>) /\ (n = t \/ PromptTokens(system, kept, most) <= ChatMaxLen)
    BY <1>2, <1>3
  <2> HIDE DEF kept, c, s, n, t
  <2>4. PromptTokens(system, kept, c) \in Nat
    BY <2>2, <2>3, PromptIs
  <2>5. CASE n = t
    <3>1. PromptTokens(system, kept, c) <= PromptTokens(system, kept, s)
      BY <2>1, <2>2, <2>3, LongerPrompt
    <3>2. PromptTokens(system, kept, s) <= ChatMaxLen
      BY <2>3, <2>5 DEF s
    <3>3. PromptTokens(system, kept, s) \in Nat
      BY <2>2, <2>3, PromptIs
    <3>4. PromptTokens(system, kept, c) <= ChatMaxLen
      BY <1>0, <2>4, <3>1, <3>2, <3>3
    <3> QED BY <2>1, <3>4 DEF c, kept
  <2>6. CASE n # t
    <3>1. PromptTokens(system, kept, c) <= PromptTokens(system, kept, most)
      BY <1>4, <2>1, <2>2, <2>3, LongerPrompt
    <3>2. PromptTokens(system, kept, most) <= ChatMaxLen
      BY <2>3, <2>6
    <3>3. PromptTokens(system, kept, most) \in Nat
      BY <1>4, <2>3, PromptIs
    <3>4. PromptTokens(system, kept, c) <= ChatMaxLen
      BY <1>0, <2>4, <3>1, <3>2, <3>3
    <3> QED BY <2>1, <3>4 DEF c, kept
  <2> QED BY <2>5, <2>6
<1>6. length \in j .. Len(user)
  <2> HIDE DEF fitting
  <2>1. cap \in Nat /\ j \in 0 .. cap
    BY <1>0, <1>1
  <2>2. j <= length /\ length \in 0 .. cap
    BY <1>5, <2>1, FoundIsMost, FoundFits
  <2> HIDE DEF length
  <2> QED BY <1>0, <1>1, <2>1, <2>2
<1>7. fit = IF text = Null \/ PromptTokens(system, Kept(n), text) > ChatMaxLen THEN Null
            ELSE [history |-> Kept(n), user |-> text]
  BY DEF FitChat, cap, most
<1>8. text = IF user # <<>> /\ length = 0 THEN Null ELSE Cut(user, length, "start")
  BY DEF FitUser
<1>9. fit # Null
  OBVIOUS
<1> HIDE DEF fit, text, length, n, Kept
<1>10. fit.user = text /\ text # Null
  BY <1>7, <1>9
<1>11. length # 0
  BY <1>0, <1>6
<1>12. fit.user = Cut(user, length, "start")
  BY <1>8, <1>10, <1>11
<1> QED BY <1>6, <1>12 DEF fit

\* What the tool model is asked is a text.
LEMMA FitToolIsText ==
  ASSUME NEW texts, NEW user \in Texts, NEW budget, FitTool(texts, user, budget) # Null
  PROVE  LET fit == FitTool(texts, user, budget)
         IN  fit.user \in Texts /\ NoNewTokens(fit.user, user)
<1>1. ASSUME NEW lines
      PROVE  LET text == FitToolUser(lines, user, budget)
             IN  text = Null \/ (text \in Texts /\ NoNewTokens(text, user))
  <2> DEFINE fitting == {k \in 1 .. Len(user) : ToolInputTokens(lines, Cut(user, k, "end")) <= budget}
             length == LargestFit(Len(user), fitting)
  <2>1. Len(user) \in Nat
    BY DEF Texts
  <2>2. length \in 0 .. Len(user)
    <3> HIDE DEF fitting
    <3> QED BY <2>1, FoundFits
  <2>3. FitToolUser(lines, user, budget) = IF user # <<>> /\ length = 0 THEN Null ELSE Cut(user, length, "end")
    BY DEF FitToolUser
  <2> HIDE DEF length
  <2>4. Cut(user, length, "end") \in Texts /\ NoNewTokens(Cut(user, length, "end"), user)
    <3>1. length \in Int
      BY <2>1, <2>2
    <3> QED BY <3>1, CutIsText
  <2> QED BY <2>3, <2>4
<1> DEFINE lines == Selected(texts, LAMBDA t : t # <<>>)
           Kept(n) == SubSeq(lines, n + 1, Len(lines))
           dropped == Min({n \in 0 .. Len(lines) :
                             n = Len(lines) \/ ToolInputTokens(Kept(n), user) <= budget})
           text == IF ToolInputTokens(Kept(dropped), user) <= budget THEN user
                   ELSE FitToolUser(Kept(dropped), user, budget)
           fit == FitTool(texts, user, budget)
<1>2. text = Null \/ (text \in Texts /\ NoNewTokens(text, user))
  <2> DEFINE k == Kept(dropped)
  <2> HIDE DEF k
  <2>1. LET more == FitToolUser(k, user, budget)
        IN  more = Null \/ (more \in Texts /\ NoNewTokens(more, user))
    BY <1>1
  <2> QED BY <2>1 DEF k, NoNewTokens
<1>3. fit = IF budget <= 0 \/ text = Null \/ ToolInputTokens(Kept(dropped), text) > budget THEN Null
            ELSE [history |-> Kept(dropped), user |-> text]
  BY DEF FitTool
<1> HIDE DEF text, dropped, Kept, fit
<1>4. fit # Null
  BY DEF fit
<1>5. text # Null /\ fit.user = text
  BY <1>3, <1>4
<1> QED BY <1>2, <1>5 DEF fit

-----------------------------------------------------------------------------
(* The inductive invariant *)

\* The sampling overrides, settings and turns of a session.
AnySampling == Samplings \cup {Null} \cup {p.sampling : p \in StartPayloads}

Metas == [prompt : Texts, sampling : AnySampling, check : Texts \cup {Null}, checked : Texts \cup {Null}]

Turns ==
  [at : {"planned", "classifying", "streaming", "over"}, cancelled : BOOLEAN,
   user : Texts, toolUser : Texts, history : History, apply : BOOLEAN,
   sampling : AnySampling, asked : AnySampling, prompt : Seq(Items)]

\* The chat store, and all that was said, which it is the latest part of.
ChatIs(c, s) ==
  /\ c \in History
  /\ \E p \in History : s = p \o c /\ (c = <<>> => p = <<>>)
  /\ TranscriptTokens(c) <= ChatTrigger \/ Len(GroupTurns(c)) = 1

\* One entry is older than another: imported ones count down, those of turns up.
Before(a, b) == (0 < a /\ a < b) \/ (a < 0 /\ (b > 0 \/ b < a))

InOrder(s) == \A m, n \in 1 .. Len(s) : m < n => Before(s[m].id, s[n].id)

\* The turns a store has entries of are none that has not begun.
Begun(s, ts) ==
  \A n \in 1 .. Len(s) : s[n].id < 0 \/ (s[n].id \in 1 .. Len(ts) /\ ts[s[n].id].at # "planned")

\* What a tool store is, beside the turns of its session.
StoreIs(s, ts) ==
  /\ s \in Seq(Entries) /\ InOrder(s) /\ Begun(s, ts)
  /\ ToolStoreBudget > 0 => ToolStoreTokens(s) <= ToolStoreBudget

\* What is asked of the chat model, once it is.
PromptIsSound(t) ==
  t.prompt # <<>> => /\ PromptSize(t.prompt) <= ChatMaxLen
                     /\ t.prompt \in Alternating
                     /\ t.user # <<>> => Last(t.prompt).role = "user"

\* Only the latest turn may be one that was not cancelled.
TurnsAre(ts, hasChat) ==
  /\ ts \in Seq(Turns)
  /\ \A i \in 1 .. Len(ts) : /\ i # Len(ts) => ts[i].cancelled
                             /\ ts[i].at = "streaming" => hasChat
                             /\ PromptIsSound(ts[i])

\* The settings of a session.
SettingsAre ==
  /\ deploy \in {"both", "chat", "tool"} /\ phase \in {"fresh", "started", "closed"}
  /\ followup \in BOOLEAN /\ meta \in Metas

\* The two stores.
ChatIsSound == (chat = Null \/ (DeployChat /\ chat \in History)) /\ ChatIs(ChatMessages, said)
ToolIsSound == tool = Null \/ (DeployTool /\ StoreIs(tool, turns))

\* The inductive invariant: what a store holds stands to all that was said, and to the turns
\* that have begun, as the code that will trim it next needs.
IInv == SettingsAre /\ ChatIsSound /\ ToolIsSound /\ TurnsAre(turns, DeployChat)

\* Joined histories are a history.
LEMMA JoinedHistories ==
  ASSUME NEW p \in History, NEW q \in History
  PROVE  p \o q \in History
BY ConcatProperties DEF History

\* What is trimmed stays the latest part of what was said.
LEMMA TrimmedIsLatest ==
  ASSUME NEW c \in History, NEW p \in History, c = <<>> => p = <<>>,
         NEW trigger \in {ChatTrigger, ChatTarget}
  PROVE  ChatIs(TrimChat(c, trigger, ChatTarget), p \o c)
<1> DEFINE d == TrimChat(c, trigger, ChatTarget)
<1>1. trigger \in Nat /\ ChatTarget \in Nat /\ ChatTrigger \in Nat /\ trigger <= ChatTrigger
  BY ConversationConstants
<1>2. /\ d \in History /\ (\E q \in History : c = q \o d) /\ (d = <<>> => c = <<>>)
      /\ TranscriptTokens(d) <= trigger \/ Len(GroupTurns(d)) = 1
  BY <1>1, TrimChatKeeps
<1> HIDE DEF d
<1>3. PICK q \in History : c = q \o d
  BY <1>2
<1>4. p \o q \in History /\ p \o c = (p \o q) \o d
  <2>1. d \in History
    BY <1>2
  <2>2. p \o q \in History
    BY <2>1, JoinedHistories
  <2>3. p \o (q \o d) = (p \o q) \o d
    <3>1. p \in Seq(Messages) /\ q \in Seq(Messages) /\ d \in Seq(Messages)
      BY <2>1 DEF History
    <3> QED BY <3>1, Regroup, Zenon
  <2> QED BY <1>3, <2>2, <2>3
<1>5. d = <<>> => p \o q = <<>>
  <2> SUFFICES ASSUME d = <<>> PROVE p \o q = <<>>
    OBVIOUS
  <2>1. c = <<>> /\ p = <<>>
    BY <1>2
  <2>2. q = <<>>
    BY <1>2, <1>3, <2>1, ConcatEqualIffEmpty DEF History
  <2> QED BY <2>1, <2>2
<1>6. TranscriptTokens(d) <= ChatTrigger \/ Len(GroupTurns(d)) = 1
  <2>1. TranscriptTokens(d) \in Nat
    BY <1>2, TranscriptLaw
  <2> QED BY <1>1, <1>2, <2>1
<1> QED BY <1>2, <1>4, <1>5, <1>6 DEF ChatIs, d

\* So does what is left when a seed is fitted to the context.
LEMMA FittedIsLatest ==
  ASSUME NEW c, NEW s, ChatIs(c, s), NEW n \in 0 .. Len(GroupTurns(c)),
         NEW d, d = FlattenTurns(SubSeq(GroupTurns(c), n + 1, Len(GroupTurns(c)))), d # <<>>
  PROVE  ChatIs(d, s)
<1>1. c \in History /\ (TranscriptTokens(c) <= ChatTrigger \/ Len(GroupTurns(c)) = 1)
  BY DEF ChatIs
<1>2. PICK p \in History : s = p \o c
  BY DEF ChatIs
<1>3. /\ d \in History /\ (\E q \in History : c = q \o d)
      /\ Len(GroupTurns(d)) = Len(GroupTurns(c)) - n
      /\ TranscriptTokens(d) <= TranscriptTokens(c)
  BY <1>1, KeptTurns
<1>4. PICK q \in History : c = q \o d
  BY <1>3
<1>5. p \o q \in History /\ p \o c = (p \o q) \o d
  <2>1. d \in History
    BY <1>3
  <2>2. p \o q \in History
    BY <2>1, JoinedHistories
  <2>3. p \o (q \o d) = (p \o q) \o d
    <3>1. p \in Seq(Messages) /\ q \in Seq(Messages) /\ d \in Seq(Messages)
      BY <2>1 DEF History
    <3> QED BY <3>1, Regroup, Zenon
  <2> QED BY <1>4, <2>2, <2>3
<1>6. TranscriptTokens(d) <= ChatTrigger \/ Len(GroupTurns(d)) = 1
  <2>1. TranscriptTokens(d) \in Nat /\ TranscriptTokens(c) \in Nat /\ ChatTrigger \in Nat
    BY <1>1, <1>3, TranscriptLaw, ConversationConstants
  <2>2. CASE TranscriptTokens(c) <= ChatTrigger
    BY <1>3, <2>1, <2>2
  <2>3. CASE Len(GroupTurns(c)) = 1
    <3>1. Len(GroupTurns(d)) # 0
      <4>1. GroupTurns(d) # <<>> /\ GroupTurns(d) \in Seq(Turn)
        BY <1>3, FlattenOfGroup, GroupLaw
      <4> QED BY <4>1, EmptySeq
    <3>2. n \in 0 .. 1
      BY <2>3
    <3>3. Len(GroupTurns(d)) = 1 - n
      BY <1>3, <2>3
    <3> QED BY <3>1, <3>2, <3>3
  <2> QED BY <1>1, <2>2, <2>3
<1> QED BY <1>2, <1>3, <1>5, <1>6 DEF ChatIs

\* A trimmed tool store fits, in the order it had.
LEMMA TrimmedStore ==
  ASSUME NEW s \in Seq(Entries), NEW ts, InOrder(s), Begun(s, ts)
  PROVE  StoreIs(TrimmedTool(s), ts)
<1>1. CASE ToolStoreBudget = 0
  BY <1>1, ConversationConstants DEF TrimmedTool, StoreIs
<1>2. CASE ToolStoreBudget # 0
  <2> DEFINE t == TrimTool(s, ToolStoreBudget)
  <2>1. ToolStoreBudget \in Nat \ {0}
    BY <1>2, ConversationConstants
  <2>2. /\ t \in Seq(Entries) /\ ToolStoreTokens(t) <= ToolStoreBudget
        /\ \E k \in Nat : Len(t) + k <= Len(s) /\ \A i \in 1 .. Len(t) : IsCutOf(t[i], s[i + k])
    BY <2>1, TrimToolKeeps
  <2>3. TrimmedTool(s) = t
    BY <1>2 DEF TrimmedTool
  <2> HIDE DEF t
  <2>4. PICK k \in Nat : Len(t) + k <= Len(s) /\ \A i \in 1 .. Len(t) : IsCutOf(t[i], s[i + k])
    BY <2>2
  <2>5. Len(t) \in Nat /\ Len(s) \in Nat
    BY <2>2
  <2>6. \A i \in 1 .. Len(t) : i + k \in 1 .. Len(s)
    BY <2>4, <2>5
  <2>7. InOrder(t)
    <3> SUFFICES ASSUME NEW m \in 1 .. Len(t), NEW n \in 1 .. Len(t), m < n
                 PROVE  Before(t[m].id, t[n].id)
      BY DEF InOrder
    <3>1. m + k \in 1 .. Len(s) /\ n + k \in 1 .. Len(s) /\ m + k < n + k
      BY <2>5, <2>6
    <3>2. Before(s[m + k].id, s[n + k].id)
      BY <3>1 DEF InOrder
    <3> QED BY <2>4, <3>2 DEF IsCutOf
  <2>8. Begun(t, ts)
    BY <2>4, <2>6 DEF Begun, IsCutOf
  <2> QED BY <2>2, <2>3, <2>7, <2>8 DEF StoreIs
<1> QED BY <1>1, <1>2

\* An empty store, before any turn.
LEMMA EmptyStore ==
  ASSUME NEW ts
  PROVE  StoreIs(<<>>, ts) /\ ChatIs(<<>>, <<>>)
<1>1. <<>> \in Seq(Entries) /\ <<>> \in History
  BY EmptySeq DEF History
<1>2. InOrder(<<>>) /\ Begun(<<>>, ts)
  BY DEF InOrder, Begun
<1>3. ToolStoreTokens(<<>>) = 0 /\ TranscriptTokens(<<>>) = 0
  BY <1>1, StoreTokensAre, TranscriptLaw
<1>4. <<>> = <<>> \o <<>>
  OBVIOUS
<1> QED BY <1>1, <1>2, <1>3, <1>4, ConversationConstants DEF StoreIs, ChatIs

\* One turn goes on: it keeps the order to stop it was given, and none is planned again.
LEMMA TurnGoesOn ==
  ASSUME NEW ts, NEW hasChat, TurnsAre(ts, hasChat), NEW i \in 1 .. Len(ts),
         NEW r \in Turns, r.cancelled = ts[i].cancelled, r.at # "planned",
         r.at = "streaming" => hasChat, PromptIsSound(r)
  PROVE  /\ TurnsAre([ts EXCEPT ![i] = r], hasChat)
         /\ \A s : Begun(s, ts) => Begun(s, [ts EXCEPT ![i] = r])
<1> DEFINE us == [ts EXCEPT ![i] = r]
<1>1. ts \in Seq(Turns) /\ Len(ts) \in Nat
  BY DEF TurnsAre
<1>2. us \in Seq(Turns) /\ Len(us) = Len(ts) /\ \A j \in 1 .. Len(ts) : us[j] = IF j = i THEN r ELSE ts[j]
  BY <1>1, ExceptSeq
<1> HIDE DEF us
<1>3. ASSUME NEW j \in 1 .. Len(us)
      PROVE  /\ j # Len(us) => us[j].cancelled
             /\ us[j].at = "streaming" => hasChat
             /\ PromptIsSound(us[j])
  <2>1. CASE j = i
    BY <1>2, <2>1 DEF TurnsAre
  <2>2. CASE j # i
    BY <1>2, <2>2 DEF TurnsAre
  <2> QED BY <2>1, <2>2
<1>4. TurnsAre(us, hasChat)
  BY <1>2, <1>3 DEF TurnsAre
<1>5. ASSUME NEW s, Begun(s, ts) PROVE Begun(s, us)
  <2> SUFFICES ASSUME NEW n \in 1 .. Len(s)
               PROVE  s[n].id < 0 \/ (s[n].id \in 1 .. Len(us) /\ us[s[n].id].at # "planned")
    BY DEF Begun
  <2>1. CASE s[n].id < 0
    BY <2>1
  <2>2. CASE s[n].id \in 1 .. Len(ts) /\ ts[s[n].id].at # "planned"
    BY <1>2, <2>2
  <2> QED BY <1>5, <2>1, <2>2 DEF Begun
<1> QED BY <1>4, <1>5 DEF us

-----------------------------------------------------------------------------
(* What a step reads and writes *)

\* There is a store or there is none.
LEMMA NullIsNoStore == Null \notin History
BY ConversationConstants DEF History, Messages

\* The stores as the code reads them.
LEMMA ReadStores ==
  ASSUME ChatIsSound, ToolIsSound
  PROVE  /\ ChatMessages \in History
         /\ DeployChat => ChatStore = ChatMessages
         /\ ~DeployChat => ChatStore = Null
         /\ DeployTool => StoreIs(ToolStore, turns)
         /\ ~DeployTool => ToolStore = Null
<1>1. <<>> \in History
  BY EmptySeq DEF History
<1> QED BY <1>1, EmptyStore DEF ChatIsSound, ToolIsSound, ChatIs, ChatMessages, ChatStore, ToolStore

\* A step that only reads the chat store.
LEMMA ChatStays ==
  ASSUME ChatIsSound, ToolIsSound, deploy' = deploy, said' = said, chat' = chat \/ chat' = ChatStore
  PROVE  ChatIsSound'
<1>1. DeployChat' = DeployChat
  BY DEF DeployChat
<1>2. ChatMessages' = ChatMessages
  <2>1. CASE ~DeployChat
    BY <1>1, <2>1 DEF ChatMessages
  <2>2. CASE DeployChat
    <3>1. ChatStore' = ChatStore
      BY <1>1, <2>2 DEF ChatStore
    <3> QED BY <1>1, <2>2, <3>1 DEF ChatMessages
  <2> QED BY <2>1, <2>2
<1>3. chat' = Null \/ (DeployChat /\ chat' \in History)
  BY ReadStores DEF ChatIsSound
<1>4. ChatIs(ChatMessages, said)
  BY DEF ChatIsSound
<1> QED BY <1>1, <1>2, <1>3, <1>4 DEF ChatIsSound

\* A step that writes the chat store: what it holds is what the code reads from then on.
LEMMA ChatWritten ==
  ASSUME deploy' = deploy, DeployChat, ChatIs(chat', said')
  PROVE  ChatIsSound'
<1>1. DeployChat' = DeployChat /\ chat' \in History /\ chat' # Null
  BY NullIsNoStore DEF DeployChat, ChatIs
<1>2. ChatMessages' = chat'
  BY <1>1 DEF ChatMessages, ChatStore
<1> QED BY <1>1, <1>2 DEF ChatIsSound

\* A step that only reads the tool store, while the turns go on.
LEMMA ToolStays ==
  ASSUME ChatIsSound, ToolIsSound, deploy' = deploy, tool' = tool \/ tool' = ToolStore,
         \A s : Begun(s, turns) => Begun(s, turns')
  PROVE  ToolIsSound'
<1>1. DeployTool' = DeployTool
  BY DEF DeployTool
<1>2. \A s : StoreIs(s, turns) => StoreIs(s, turns')
  BY DEF StoreIs
<1>3. tool' = Null \/ (DeployTool /\ StoreIs(tool', turns))
  BY ReadStores DEF ToolIsSound
<1>4. tool' = Null \/ (DeployTool /\ StoreIs(tool', turns'))
  BY <1>2, <1>3
<1> QED BY <1>1, <1>4 DEF ToolIsSound

\* A turn leaves.
LEMMA LeaveKeeps ==
  ASSUME NEW hasChat, TurnsAre(turns, hasChat), NEW i \in 1 .. Len(turns), Leave(i)
  PROVE  TurnsAre(turns', hasChat) /\ \A s : Begun(s, turns) => Begun(s, turns')
<1> DEFINE r == [turns[i] EXCEPT !.at = "over", !.user = <<>>, !.toolUser = <<>>, !.history = <<>>,
                                 !.prompt = <<>>]
<1>1. turns[i] \in Turns
  BY DEF TurnsAre
<1>2. r \in Turns /\ r.cancelled = turns[i].cancelled /\ r.at = "over" /\ r.prompt = <<>>
  <2>1. <<>> \in Texts /\ <<>> \in History /\ <<>> \in Seq(Items)
    BY EmptySeq DEF Texts, History
  <2> QED BY <1>1, <2>1 DEF Turns
<1>3. turns' = [turns EXCEPT ![i] = r]
  BY DEF Leave
<1> HIDE DEF r
<1>4. PromptIsSound(r)
  BY <1>2 DEF PromptIsSound
<1>5. TurnsAre([turns EXCEPT ![i] = r], hasChat) /\ \A s : Begun(s, turns) => Begun(s, [turns EXCEPT ![i] = r])
  BY <1>2, <1>4, TurnGoesOn
<1> QED BY <1>3, <1>5

\* A turn asks the chat model, or what it would ask is too long.
LEMMA AskKeeps ==
  ASSUME NEW hasChat, hasChat, TurnsAre(turns, hasChat), meta.prompt \in Texts,
         NEW i \in 1 .. Len(turns), NEW user \in Texts, Ask(i, user)
  PROVE  TurnsAre(turns', hasChat) /\ \A s : Begun(s, turns) => Begun(s, turns')
<1> DEFINE h == turns[i].history
           fit == FitChat(meta.prompt, h, user, UserMax)
           m == PromptMessages(meta.prompt, fit.history, fit.user)
           r == [turns[i] EXCEPT !.at = "streaming", !.user = fit.user, !.history = fit.history, !.prompt = m]
<1>1. turns[i] \in Turns /\ turns \in Seq(Turns)
  BY DEF TurnsAre
<1>2. CASE fit = Null
  BY <1>2, LeaveKeeps DEF Ask
<1>3. CASE fit # Null
  <2>1. h \in History
    BY <1>1 DEF Turns
  <2>2. UserMax \in Nat
    BY FitConstants
  <2>3. /\ fit.history \in History /\ fit.user \in Texts
        /\ PromptTokens(meta.prompt, fit.history, fit.user) <= ChatMaxLen
    <3> HIDE DEF h
    <3> QED BY <1>3, <2>1, <2>2, FitChatLaw
  <2>4. turns' = [turns EXCEPT ![i].at = "streaming", ![i].user = fit.user, ![i].history = fit.history,
                               ![i].prompt = m]
    BY <1>3 DEF Ask
  <2> HIDE DEF fit
  <2>5. /\ m \in Alternating /\ (fit.user # <<>> => Last(m).role = "user")
        /\ PromptSize(m) <= ChatMaxLen
    BY <2>3, PromptIs
  <2> HIDE DEF m
  <2>6. /\ r \in Turns /\ r.cancelled = turns[i].cancelled /\ r.at = "streaming" /\ r.prompt = m
        /\ r.user = fit.user
    <3>1. m \in Seq(Items)
      BY <2>5 DEF Alternating
    <3> QED BY <1>1, <2>3, <3>1 DEF Turns
  <2>7. turns' = [turns EXCEPT ![i] = r]
    BY <1>1, <2>4
  <2> HIDE DEF r
  <2>8. PromptIsSound(r)
    BY <2>5, <2>6 DEF PromptIsSound
  <2>9. TurnsAre([turns EXCEPT ![i] = r], hasChat) /\ \A s : Begun(s, turns) => Begun(s, [turns EXCEPT ![i] = r])
    BY <2>6, <2>8, TurnGoesOn
  <2> QED BY <2>7, <2>9
<1> QED BY <1>2, <1>3

\* A turn goes on to be classified.
LEMMA GotoKeeps ==
  ASSUME NEW hasChat, TurnsAre(turns, hasChat), NEW i \in 1 .. Len(turns), Goto(i, "classifying")
  PROVE  TurnsAre(turns', hasChat) /\ \A s : Begun(s, turns) => Begun(s, turns')
<1> DEFINE r == [turns[i] EXCEPT !.at = "classifying"]
<1>1. turns[i] \in Turns /\ PromptIsSound(turns[i])
  BY DEF TurnsAre
<1>2. /\ r \in Turns /\ r.cancelled = turns[i].cancelled /\ r.at = "classifying"
      /\ r.prompt = turns[i].prompt /\ r.user = turns[i].user
  BY <1>1 DEF Turns
<1>3. turns' = [turns EXCEPT ![i] = r]
  BY DEF Goto
<1> HIDE DEF r
<1>4. PromptIsSound(r)
  BY <1>1, <1>2 DEF PromptIsSound
<1>5. TurnsAre([turns EXCEPT ![i] = r], hasChat) /\ \A s : Begun(s, turns) => Begun(s, [turns EXCEPT ![i] = r])
  BY <1>2, <1>4, TurnGoesOn
<1> QED BY <1>3, <1>5

\* A message cancels the turns before it and plans one more.
LEMMA PlanKeeps ==
  ASSUME NEW hasChat, NEW ts, TurnsAre(ts, hasChat), NEW r \in Turns, r.at = "planned", r.prompt = <<>>
  PROVE  LET us == Append([i \in DOMAIN ts |-> [ts[i] EXCEPT !.cancelled = TRUE]], r)
         IN TurnsAre(us, hasChat) /\ \A s : Begun(s, ts) => Begun(s, us)
<1> DEFINE cs == [i \in DOMAIN ts |-> [ts[i] EXCEPT !.cancelled = TRUE]]
           us == Append(cs, r)
           n == Len(ts)
<1>1. ts \in Seq(Turns) /\ n \in Nat /\ DOMAIN ts = 1 .. n
  BY DEF TurnsAre
<1>2. \A i \in 1 .. n : ts[i] \in Turns
  BY <1>1
<1>3. \A i \in 1 .. n : /\ cs[i] \in Turns /\ cs[i].cancelled /\ cs[i].at = ts[i].at
                        /\ cs[i].prompt = ts[i].prompt /\ cs[i].user = ts[i].user
  <2> SUFFICES ASSUME NEW i \in 1 .. n
               PROVE  /\ cs[i] \in Turns /\ cs[i].cancelled /\ cs[i].at = ts[i].at
                      /\ cs[i].prompt = ts[i].prompt /\ cs[i].user = ts[i].user
    OBVIOUS
  <2> DEFINE t == ts[i]
  <2>1. cs[i] = [t EXCEPT !.cancelled = TRUE]
    BY <1>1
  <2>2. t \in Turns
    BY <1>2
  <2> HIDE DEF t, cs
  <2>3. /\ cs[i] \in Turns /\ cs[i].cancelled = TRUE /\ cs[i].at = t.at
        /\ cs[i].prompt = t.prompt /\ cs[i].user = t.user
    BY <2>1, <2>2 DEF Turns
  <2> QED BY <2>3 DEF t
<1>4. cs \in Seq(Turns) /\ Len(cs) = n
  <2>1. cs = [i \in 1 .. n |-> cs[i]]
    BY <1>1
  <2> HIDE DEF cs, n
  <2> QED BY <1>1, <1>3, <2>1
<1> HIDE DEF cs, n
<1>5. us \in Seq(Turns) /\ Len(us) = n + 1 /\ us[n + 1] = r /\ \A i \in 1 .. n : us[i] = cs[i]
  BY <1>1, <1>4, AppendProperties
<1> HIDE DEF us
<1>6. ASSUME NEW i \in 1 .. Len(us)
      PROVE  /\ i # Len(us) => us[i].cancelled
             /\ us[i].at = "streaming" => hasChat
             /\ PromptIsSound(us[i])
  <2>1. CASE i = n + 1
    BY <1>5, <2>1 DEF PromptIsSound
  <2>2. CASE i \in 1 .. n
    <3>1. us[i] = cs[i] /\ PromptIsSound(ts[i]) /\ (ts[i].at = "streaming" => hasChat)
      BY <1>5, <2>2 DEF TurnsAre, n
    <3>2. PromptIsSound(us[i])
      BY <1>3, <2>2, <3>1 DEF PromptIsSound
    <3> QED BY <1>3, <2>2, <3>1, <3>2
  <2> QED BY <1>1, <1>5, <2>1, <2>2
<1>7. TurnsAre(us, hasChat)
  BY <1>5, <1>6 DEF TurnsAre
<1>8. ASSUME NEW s, Begun(s, ts) PROVE Begun(s, us)
  <2> SUFFICES ASSUME NEW k \in 1 .. Len(s)
               PROVE  s[k].id < 0 \/ (s[k].id \in 1 .. Len(us) /\ us[s[k].id].at # "planned")
    BY DEF Begun
  <2>1. CASE s[k].id < 0
    BY <2>1
  <2>2. CASE s[k].id \in 1 .. Len(ts) /\ ts[s[k].id].at # "planned"
    <3>1. s[k].id \in 1 .. n
      BY <2>2 DEF n
    <3>2. s[k].id \in 1 .. n + 1
      BY <1>1, <3>1
    <3> QED BY <1>3, <1>5, <2>2, <3>1, <3>2
  <2> QED BY <1>8, <2>1, <2>2 DEF Begun
<1> QED BY <1>7, <1>8 DEF us, cs

-----------------------------------------------------------------------------
(* A start, an import, a cancel *)

\* The prefixes of a session are texts, and what the models get is one.
LEMMA PrefixesAreTexts ==
  ASSUME meta \in Metas
  PROVE  /\ CheckPrefix \in Texts /\ CheckedPrefix \in Texts
         /\ \A text \in Texts : StripScreenPrefix(text) \in Texts
<1>1. CheckPrefix \in Texts /\ CheckedPrefix \in Texts
  BY ConversationConstants DEF Metas, CheckPrefix, CheckedPrefix
<1> QED BY <1>1, StripIsText

\* The words of an utterance or an answer.
LEMMA WordsAreTexts ==
  ASSUME NEW turn \in Nat, NEW n \in Nat
  PROVE  Words(turn, n) \in Texts
<1>1. \A k \in 1 .. n : 10 * turn + k \in Nat
  OBVIOUS
<1> QED BY <1>1 DEF Words, Texts

\* The invariant holds initially.
LEMMA InitSound == Init => IInv
<1> SUFFICES ASSUME Init PROVE IInv
  OBVIOUS
<1>1. <<>> \in Texts /\ <<>> \in Seq(Turns)
  BY EmptySeq DEF Texts
<1>2. SettingsAre
  <2>1. Null \in AnySampling
    BY DEF AnySampling
  <2> QED BY <1>1, <2>1, ConversationConstants DEF Init, SettingsAre, DefaultMeta, Metas
<1>3. ChatIsSound
  <2>1. ChatMessages = <<>>
    BY DEF Init, ChatMessages, ChatStore
  <2> QED BY <2>1, EmptyStore DEF Init, ChatIsSound
<1>4. ToolIsSound
  BY DEF Init, ToolIsSound
<1>5. TurnsAre(turns, DeployChat)
  BY <1>1 DEF Init, TurnsAre
<1> QED BY <1>2, <1>3, <1>4, <1>5 DEF IInv

\* A refused start.
LEMMA StartRefusedSound == ASSUME IInv, NEW p \in StartPayloads, StartRefused(p) PROVE IInv'
<1>0. SettingsAre /\ ChatIsSound /\ ToolIsSound /\ TurnsAre(turns, DeployChat)
  BY DEF IInv
<1>1. SettingsAre'
  <2>1. Null \in AnySampling /\ <<>> \in Texts
    BY EmptySeq DEF AnySampling, Texts
  <2>2. DefaultMeta \in Metas
    BY <2>1 DEF DefaultMeta, Metas
  <2> QED BY <1>0, <2>2 DEF StartRefused, SettingsAre
<1>2. ChatIsSound'
  BY <1>0, ChatStays DEF StartRefused
<1>3. ToolIsSound'
  BY <1>0, ToolStays DEF StartRefused
<1>4. TurnsAre(turns, DeployChat)'
  BY <1>0 DEF StartRefused, DeployChat
<1> QED BY <1>1, <1>2, <1>3, <1>4 DEF IInv

\* The chat side of an import, before it is fitted.
LEMMA ImportIsSound ==
  ASSUME ChatIsSound, ToolIsSound, NEW p \in StartPayloads, DeployChat
  PROVE  ChatIs(ImportedChat(p), IF p.history # Null THEN ParseForChat(p.history) ELSE said)
<1>1. CASE p.history = Null
  BY <1>1 DEF ImportedChat, ChatIsSound
<1>2. CASE p.history # Null
  <2> DEFINE h == ParseForChat(p.history)
  <2>1. h \in History
    <3>1. p.history \in Seq([role : STRING, text : Texts])
      BY <1>2, ConversationConstants
    <3>2. \A m \in [role : STRING, text : Texts] : m \in Items
      BY DEF Items
    <3>3. p.history \in Seq(Items)
      <4> HIDE DEF Items
      <4> QED BY <3>1, <3>2, SeqMonotonic
    <3>4. p.history \in Seq(ItemsOf(Nat))
      BY <3>3 DEF Items, ItemsOf, Texts
    <3> QED BY <3>4, ParsedImports DEF MessagesOf, Messages, History, Texts
  <2> HIDE DEF h
  <2>2. <<>> \in History /\ <<>> \o h = h
    BY <2>1, EmptySeq, ConcatEmptySeq DEF History
  <2>3. ChatIs(TrimChat(h, ChatTarget, ChatTarget), <<>> \o h)
    BY <2>1, <2>2, TrimmedIsLatest
  <2>4. ImportedChat(p) = TrimChat(h, ChatTarget, ChatTarget)
    BY <1>2 DEF ImportedChat, TrimmedChat, h
  <2> QED BY <1>2, <2>2, <2>3, <2>4 DEF h
<1> QED BY <1>1, <1>2

\* The entries that stand for imported texts.
LEMMA NumberedEntries ==
  ASSUME NEW S, S \subseteq Nat, NEW texts \in Seq(Seq(S) \ {<<>>})
  PROVE  LET s == [n \in DOMAIN texts |-> Entry(-n, texts[n])]
         IN  /\ s \in Seq(Entries) /\ Len(s) = Len(texts)
             /\ \A n \in 1 .. Len(texts) : s[n].id = -n /\ s[n].text \in Seq(S)
<1> DEFINE T == Seq(S) \ {<<>>}
           s == [n \in DOMAIN texts |-> Entry(-n, texts[n])]
           l == Len(texts)
           e(n) == Entry(-n, texts[n])
<1>1. l \in Nat /\ DOMAIN texts = 1 .. l /\ \A n \in 1 .. l : texts[n] \in T
  <2> HIDE DEF T
  <2>1. texts \in Seq(T)
    BY DEF T
  <2> QED BY <2>1
<1>2. s = [n \in 1 .. l |-> e(n)]
  BY <1>1
<1> HIDE DEF s, l
<1>3. ASSUME NEW n \in 1 .. l PROVE e(n) \in Entries /\ e(n).id = -n /\ e(n).text \in Seq(S)
  <2>1. -n \in Int /\ texts[n] \in Seq(S) \ {<<>>}
    BY <1>1
  <2>2. texts[n] \in Seq(Nat)
    BY <2>1, SeqMonotonic
  <2> QED BY <2>1, <2>2 DEF Entry, Entries, Texts
<1> HIDE DEF e
<1>4. s \in Seq(Entries) /\ Len(s) = l
  BY <1>1, <1>2, <1>3
<1>5. \A n \in 1 .. l : s[n].id = -n /\ s[n].text \in Seq(S)
  BY <1>2, <1>3
<1> QED BY <1>4, <1>5 DEF s, l

\* The tool side of an import: its entries count down from -1.
LEMMA ImportedEntries ==
  ASSUME ChatIsSound, ToolIsSound, NEW p \in StartPayloads, DeployTool
  PROVE  StoreIs(ImportedTool(p), turns)
<1>1. CASE p.history = Null
  BY <1>1, ReadStores DEF ImportedTool
<1>2. CASE p.history # Null
  <2> DEFINE texts == ParseForTool(p.history)
             s == [n \in DOMAIN texts |-> Entry(-n, texts[n])]
             l == Len(texts)
  <2>1. texts \in Seq(Seq(Nat) \ {<<>>})
    <3>1. p.history \in Seq([role : STRING, text : Texts])
      BY <1>2, ConversationConstants
    <3>2. \A m \in [role : STRING, text : Texts] : m \in ItemsOf(Nat)
      BY DEF ItemsOf, Texts
    <3>3. p.history \in Seq(ItemsOf(Nat))
      BY <3>1, <3>2, SeqMonotonic
    <3> QED BY <3>3, ParsedImports
  <2> HIDE DEF texts
  <2>2. l \in Nat
    BY <2>1
  <2>3. s \in Seq(Entries) /\ Len(s) = l /\ \A n \in 1 .. l : s[n].id = -n
    BY <2>1, NumberedEntries
  <2> HIDE DEF s, l
  <2>4. InOrder(s)
    <3> SUFFICES ASSUME NEW m \in 1 .. l, NEW n \in 1 .. l, m < n PROVE Before(s[m].id, s[n].id)
      BY <2>3 DEF InOrder
    <3>1. -m < 0 /\ -n < -m
      BY <2>2
    <3> QED BY <2>3, <3>1 DEF Before
  <2>5. Begun(s, turns)
    <3> SUFFICES ASSUME NEW n \in 1 .. l PROVE s[n].id < 0
      BY <2>3 DEF Begun
    <3>1. -n < 0
      BY <2>2
    <3> QED BY <2>3, <3>1
  <2>6. ImportedTool(p) = TrimmedTool(s)
    BY <1>2 DEF ImportedTool, s, texts
  <2> QED BY <2>3, <2>4, <2>5, <2>6, TrimmedStore
<1> QED BY <1>1, <1>2

\* The seed that is kept of a chat store.
LEMMA FittedSeedIsSound ==
  ASSUME NEW seed, NEW s, ChatIs(seed, s), NEW prompt \in Texts, FittedSeed(prompt, seed) # Null
  PROVE  ChatIs(FittedSeed(prompt, seed), s)
<1> DEFINE fit == FitChat(prompt, seed, <<>>, Null)
           ts == GroupTurns(seed)
<1>1. CASE ~DeployChat \/ seed = <<>>
  BY <1>1 DEF FittedSeed
<1>2. CASE ~(~DeployChat \/ seed = <<>>)
  <2>1. FittedSeed(prompt, seed) = fit.history /\ fit # Null /\ fit.history # <<>>
    BY <1>2 DEF FittedSeed
  <2>2. seed \in History /\ <<>> \in Texts
    BY EmptySeq DEF ChatIs, Texts
  <2>3. \E n \in 0 .. Len(ts) : fit.history = FlattenTurns(SubSeq(ts, n + 1, Len(ts)))
    BY <2>1, <2>2, FitChatLaw
  <2>4. PICK n \in 0 .. Len(ts) : fit.history = FlattenTurns(SubSeq(ts, n + 1, Len(ts)))
    BY <2>3
  <2> DEFINE d == fit.history
  <2>5. d = FlattenTurns(SubSeq(GroupTurns(seed), n + 1, Len(GroupTurns(seed)))) /\ d # <<>>
    BY <2>1, <2>4
  <2> HIDE DEF d
  <2>6. ChatIs(d, s)
    BY <2>4, <2>5, FittedIsLatest
  <2> QED BY <2>1, <2>6 DEF d
<1> QED BY <1>1, <1>2

\* A start that is accepted, or closes the connection with what it stored.
LEMMA StartAcceptedSound == ASSUME IInv, NEW p \in StartPayloads, StartAccepted(p) PROVE IInv'
<1> DEFINE seed == ImportedChat(p)
           fitted == FittedSeed(p.prompt, seed)
<1>0. /\ SettingsAre /\ ChatIsSound /\ ToolIsSound /\ TurnsAre(turns, DeployChat)
      /\ deploy' = deploy /\ turns' = turns /\ followup' = FALSE /\ meta' = Configured(p)
      /\ phase' \in {"closed", "started"}
      /\ chat' = IF ~DeployChat THEN Null ELSE IF fitted = Null THEN seed ELSE fitted
      /\ tool' = IF DeployTool THEN ImportedTool(p) ELSE Null
      /\ said' = IF DeployChat /\ p.history # Null THEN ParseForChat(p.history) ELSE said
  BY DEF IInv, StartAccepted
<1>1. SettingsAre'
  <2>1. p.sampling \in AnySampling /\ <<>> \in Texts
    BY EmptySeq DEF AnySampling, Texts
  <2>2. Configured(p) \in Metas
    BY <2>1, ConversationConstants DEF Configured, Metas
  <2> QED BY <1>0, <2>2 DEF SettingsAre
<1>2. ChatIsSound'
  <2>1. CASE ~DeployChat
    <3>1. chat' = Null /\ said' = said /\ ~DeployChat'
      BY <1>0, <2>1 DEF DeployChat
    <3>2. ChatMessages' = <<>> /\ ChatMessages = <<>>
      BY <2>1, <3>1 DEF ChatMessages
    <3> QED BY <1>0, <3>1, <3>2 DEF ChatIsSound
  <2>2. CASE DeployChat
    <3>1. ChatIs(seed, said')
      BY <1>0, <2>2, ImportIsSound
    <3>2. fitted # Null => ChatIs(fitted, said')
      BY <3>1, FittedSeedIsSound, ConversationConstants
    <3>3. ChatIs(chat', said')
      <4> HIDE DEF seed, fitted
      <4> QED BY <1>0, <2>2, <3>1, <3>2
    <3> QED BY <1>0, <2>2, <3>3, ChatWritten
  <2> QED BY <2>1, <2>2
<1>3. ToolIsSound'
  <2>1. DeployTool' = DeployTool
    BY <1>0 DEF DeployTool
  <2>2. DeployTool => StoreIs(tool', turns')
    BY <1>0, ImportedEntries
  <2> QED BY <1>0, <2>1, <2>2 DEF ToolIsSound
<1>4. TurnsAre(turns, DeployChat)'
  BY <1>0 DEF DeployChat
<1> QED BY <1>1, <1>2, <1>3, <1>4 DEF IInv

\* A cancel before any start.
LEMMA CancelFirstSound == ASSUME IInv, CancelFirst PROVE IInv'
<1>0. SettingsAre /\ ChatIsSound /\ ToolIsSound /\ TurnsAre(turns, DeployChat)
  BY DEF IInv
<1>1. SettingsAre'
  BY <1>0 DEF CancelFirst, SettingsAre
<1>2. ChatIsSound' /\ ToolIsSound'
  BY <1>0, ChatStays, ToolStays DEF CancelFirst
<1>3. TurnsAre(turns, DeployChat)'
  BY <1>0 DEF CancelFirst, DeployChat
<1> QED BY <1>1, <1>2, <1>3 DEF IInv

-----------------------------------------------------------------------------
(* Messages and their turns *)

\* A message.
LEMMA PlanMessageSound ==
  ASSUME IInv, NEW text \in Texts, NEW sampling \in Samplings, PlanMessage(text, sampling)
  PROVE  IInv'
<1> DEFINE r == PlannedTurn(text, sampling)
<1>0. /\ SettingsAre /\ ChatIsSound /\ ToolIsSound /\ TurnsAre(turns, DeployChat)
      /\ deploy' = deploy
  BY DEF IInv, PlanMessage
<1>1. SettingsAre'
  <2>1. sampling \in AnySampling
    BY DEF AnySampling
  <2>2. [meta EXCEPT !.sampling = sampling] \in Metas
    BY <1>0, <2>1 DEF SettingsAre, Metas
  <2> QED BY <1>0, <2>2 DEF PlanMessage, SettingsAre
<1>2. ChatIsSound'
  BY <1>0, ChatStays DEF PlanMessage
<1>3. r \in Turns /\ r.at = "planned" /\ r.prompt = <<>>
  <2>1. sampling \in AnySampling /\ Null \in AnySampling
    BY DEF AnySampling
  <2>2. StripScreenPrefix(text) \in Texts /\ <<>> \in Texts /\ <<>> \in Seq(Items)
    BY <1>0, PrefixesAreTexts, EmptySeq DEF SettingsAre, Texts
  <2>3. UserUtterances(text).chat \in Texts /\ UserUtterances(text).tool \in Texts
    BY <2>2 DEF UserUtterances
  <2>4. ChatMessages \in History
    BY <1>0, ReadStores
  <2>5. followup \in BOOLEAN
    BY <1>0 DEF SettingsAre
  <2> QED BY <2>1, <2>2, <2>3, <2>4, <2>5 DEF PlannedTurn, Turns
<1>4. turns' = Append([i \in DOMAIN turns |-> [turns[i] EXCEPT !.cancelled = TRUE]], r)
  BY DEF PlanMessage
<1> HIDE DEF r
<1>5. TurnsAre(turns', DeployChat) /\ \A s : Begun(s, turns) => Begun(s, turns')
  BY <1>0, <1>3, <1>4, PlanKeeps
<1>6. TurnsAre(turns, DeployChat)'
  BY <1>0, <1>5 DEF DeployChat
<1>7. ToolIsSound'
  BY <1>0, <1>5, ToolStays DEF PlanMessage
<1> QED BY <1>1, <1>2, <1>6, <1>7 DEF IInv

\* What a turn remembers of its text keeps the order of the turns.
LEMMA RememberKeeps ==
  ASSUME ChatIsSound, ToolIsSound, TurnsAre(turns, DeployChat), DeployTool, deploy' = deploy,
         NEW i \in 1 .. Len(turns), Starts(i), Goto(i, "classifying"),
         NEW text \in Texts, RememberToolTurn(i, text)
  PROVE  ToolIsSound'
<1> DEFINE s == ToolStore
           known == {n \in DOMAIN s : s[n].id = i}
           e == Entry(i, text)
           u == Append(s, e)
<1>1. StoreIs(s, turns)
  BY ReadStores
<1> HIDE DEF s
<1>2. /\ s \in Seq(Entries) /\ Len(s) \in Nat /\ DOMAIN s = 1 .. Len(s) /\ InOrder(s) /\ Begun(s, turns)
      /\ \A n \in 1 .. Len(s) : s[n] \in Entries
  BY <1>1 DEF StoreIs
<1>3. \A t : Begun(t, turns) => Begun(t, turns')
  BY GotoKeeps
<1>4. i = Len(turns) /\ turns[i].at = "planned" /\ i \in Nat \ {0} /\ Len(turns) \in Nat
  BY DEF TurnsAre, Starts
<1>5. \A n \in 1 .. Len(s) : s[n].id \in Int /\ s[n].id # i /\ (s[n].id < 0 \/ (s[n].id > 0 /\ s[n].id < i))
  <2> SUFFICES ASSUME NEW n \in 1 .. Len(s)
               PROVE  s[n].id \in Int /\ s[n].id # i /\ (s[n].id < 0 \/ (s[n].id > 0 /\ s[n].id < i))
    OBVIOUS
  <2>1. s[n].id \in Int
    BY <1>2 DEF Entries
  <2>2. CASE s[n].id < 0
    BY <1>4, <2>1, <2>2
  <2>3. CASE s[n].id \in 1 .. Len(turns) /\ turns[s[n].id].at # "planned"
    <3>1. s[n].id # i
      BY <1>4, <2>3
    <3> QED BY <1>4, <2>3, <3>1
  <2> QED BY <1>2, <2>2, <2>3 DEF Begun
<1>6. known = {}
  BY <1>2, <1>5
<1>7. CASE text = <<>>
  <2>1. tool' = s
    BY <1>7 DEF RememberToolTurn, s
  <2>2. StoreIs(tool', turns')
    BY <1>1, <1>3, <2>1 DEF StoreIs
  <2> QED BY <2>2 DEF ToolIsSound, DeployTool
<1>8. CASE text # <<>>
  <2>1. tool' = TrimmedTool(u)
    BY <1>6, <1>8 DEF RememberToolTurn, s
  <2>2. e \in Entries /\ e.id = i
    BY <1>4, <1>8 DEF Entry, Entries
  <2> HIDE DEF e
  <2>3. /\ u \in Seq(Entries) /\ Len(u) = Len(s) + 1 /\ u[Len(s) + 1] = e
        /\ \A n \in 1 .. Len(s) : u[n] = s[n]
    BY <1>2, <2>2, AppendProperties
  <2> HIDE DEF u
  <2>4. InOrder(u)
    <3> SUFFICES ASSUME NEW m \in 1 .. Len(u), NEW n \in 1 .. Len(u), m < n
                 PROVE  Before(u[m].id, u[n].id)
      BY DEF InOrder
    <3>1. m \in 1 .. Len(s) /\ u[m].id = s[m].id
      BY <1>2, <2>3
    <3>2. CASE n \in 1 .. Len(s)
      BY <1>2, <2>3, <3>1, <3>2 DEF InOrder
    <3>3. CASE n = Len(s) + 1
      <4>1. u[n].id = i /\ s[m].id \in Int /\ (s[m].id < 0 \/ (s[m].id > 0 /\ s[m].id < i))
        BY <1>5, <2>2, <2>3, <3>1, <3>3
      <4> QED BY <1>4, <3>1, <4>1 DEF Before
    <3> QED BY <1>2, <2>3, <3>2, <3>3
  <2>5. Begun(u, turns')
    <3>1. Begun(s, turns')
      BY <1>2, <1>3
    <3>2. i \in 1 .. Len(turns') /\ turns'[i].at # "planned"
      <4>1. turns \in Seq(Turns) /\ turns' = [turns EXCEPT ![i].at = "classifying"]
        BY DEF TurnsAre, Goto
      <4>2. turns[i] \in Turns
        BY <4>1
      <4>3. turns'[i].at = "classifying" /\ Len(turns') = Len(turns)
        BY <4>1, <4>2 DEF Turns
      <4> QED BY <4>3
    <3> SUFFICES ASSUME NEW n \in 1 .. Len(u)
                 PROVE  u[n].id < 0 \/ (u[n].id \in 1 .. Len(turns') /\ turns'[u[n].id].at # "planned")
      BY DEF Begun
    <3>3. CASE n = Len(s) + 1
      BY <2>2, <2>3, <3>2, <3>3
    <3>4. CASE n \in 1 .. Len(s)
      BY <2>3, <3>1, <3>4 DEF Begun
    <3> QED BY <1>2, <2>3, <3>3, <3>4
  <2>6. StoreIs(tool', turns')
    BY <2>1, <2>3, <2>4, <2>5, TrimmedStore
  <2> QED BY <2>6 DEF ToolIsSound, DeployTool
<1> QED BY <1>7, <1>8

\* The texts of a turn, and the prompt of the session.
LEMMA TextsOfTurn ==
  ASSUME SettingsAre, NEW hasChat, TurnsAre(turns, hasChat), NEW i \in 1 .. Len(turns)
  PROVE  /\ turns[i].user \in Texts /\ turns[i].toolUser \in Texts
         /\ meta.prompt \in Texts /\ meta \in Metas
<1>1. turns[i] \in Turns /\ meta \in Metas
  BY DEF TurnsAre, SettingsAre
<1>2. turns[i].user \in Texts /\ turns[i].toolUser \in Texts
  BY <1>1 DEF Turns
<1>3. meta.prompt \in Texts
  BY <1>1 DEF Metas
<1> QED BY <1>1, <1>2, <1>3

\* A turn begins with the tool model.
LEMMA BeginWithToolSound ==
  ASSUME IInv, NEW i \in DOMAIN turns, BeginWithTool(i) PROVE IInv'
<1> DEFINE text == StripScreenPrefix(IF turns[i].toolUser = <<>> THEN turns[i].user ELSE turns[i].toolUser)
           fit == FitTool(ToolTexts, text, Max({1, ToolInputBudget}))
<1>0. /\ SettingsAre /\ ChatIsSound /\ ToolIsSound /\ TurnsAre(turns, DeployChat)
      /\ deploy' = deploy /\ phase' = phase /\ meta' = meta /\ chat' = chat
      /\ followup' = followup /\ said' = said /\ DeployTool /\ Starts(i) /\ i \in 1 .. Len(turns)
  <2>1. turns \in Seq(Turns)
    BY DEF IInv, TurnsAre
  <2> QED BY <2>1 DEF IInv, BeginWithTool, settings
<1>1. SettingsAre'
  BY <1>0 DEF SettingsAre
<1>2. ChatIsSound'
  BY <1>0, ChatStays
<1>3. TurnsAre(turns', DeployChat) /\ ToolIsSound'
  <2>1. CASE fit = Null
    <3>1. Leave(i) /\ tool' = ToolStore
      BY <2>1 DEF BeginWithTool
    <3>2. TurnsAre(turns', DeployChat) /\ \A s : Begun(s, turns) => Begun(s, turns')
      BY <1>0, <3>1, LeaveKeeps
    <3> QED BY <1>0, <3>1, <3>2, ToolStays
  <2>2. CASE fit # Null
    <3>1. Goto(i, "classifying") /\ RememberToolTurn(i, fit.user)
      BY <2>2 DEF BeginWithTool
    <3>2. text \in Texts
      <4>1. turns[i].user \in Texts /\ turns[i].toolUser \in Texts /\ meta \in Metas
        BY <1>0, TextsOfTurn
      <4> QED BY <4>1, PrefixesAreTexts
    <3> HIDE DEF text
    <3>3. fit.user \in Texts
      BY <2>2, <3>2, FitToolIsText
    <3> HIDE DEF fit
    <3>4. TurnsAre(turns', DeployChat)
      BY <1>0, <3>1, GotoKeeps
    <3> QED BY <1>0, <3>1, <3>3, <3>4, RememberKeeps
  <2> QED BY <2>1, <2>2
<1>4. TurnsAre(turns, DeployChat)'
  BY <1>0, <1>3 DEF DeployChat
<1> QED BY <1>1, <1>2, <1>3, <1>4 DEF IInv

\* A turn begins where there is no tool model.
LEMMA BeginChatOnlySound ==
  ASSUME IInv, NEW i \in DOMAIN turns, BeginChatOnly(i) PROVE IInv'
<1>0. /\ SettingsAre /\ ChatIsSound /\ ToolIsSound /\ TurnsAre(turns, DeployChat)
      /\ deploy' = deploy /\ phase' = phase /\ meta' = meta /\ chat' = chat /\ tool' = tool
      /\ followup' = followup /\ said' = said /\ DeployChat /\ i \in 1 .. Len(turns)
      /\ Ask(i, turns[i].user)
  <2>1. turns \in Seq(Turns)
    BY DEF IInv, TurnsAre
  <2> QED BY <2>1 DEF IInv, BeginChatOnly, settings, DeployTool, DeployChat
<1>1. TurnsAre(turns', DeployChat) /\ \A s : Begun(s, turns) => Begun(s, turns')
  <2>1. turns[i].user \in Texts /\ meta.prompt \in Texts
    BY <1>0, TextsOfTurn
  <2> QED BY <1>0, <2>1, AskKeeps
<1>2. SettingsAre' /\ TurnsAre(turns, DeployChat)'
  BY <1>0, <1>1 DEF SettingsAre, DeployChat
<1>3. ChatIsSound' /\ ToolIsSound'
  BY <1>0, <1>1, ChatStays, ToolStays
<1> QED BY <1>2, <1>3 DEF IInv

\* The tool model has answered.
LEMMA DecideSound ==
  ASSUME IInv, NEW i \in DOMAIN turns, NEW isTool \in BOOLEAN, Decide(i, isTool) PROVE IInv'
<1>0. /\ SettingsAre /\ ChatIsSound /\ ToolIsSound /\ TurnsAre(turns, DeployChat)
      /\ deploy' = deploy /\ phase' = phase /\ meta' = meta /\ chat' = chat /\ tool' = tool
      /\ said' = said /\ i \in 1 .. Len(turns)
  <2>1. turns \in Seq(Turns)
    BY DEF IInv, TurnsAre
  <2> QED BY <2>1 DEF IInv, Decide, settings
<1>1. followup' \in BOOLEAN
  BY <1>0 DEF Decide, SettingsAre
<1>2. /\ turns[i].user \in Texts /\ meta.prompt \in Texts
      /\ CheckPrefix \o turns[i].user \in Texts /\ CheckedPrefix \o turns[i].user \in Texts
  <2>1. turns[i].user \in Texts /\ meta.prompt \in Texts /\ meta \in Metas
    BY <1>0, TextsOfTurn
  <2>2. CheckPrefix \in Texts /\ CheckedPrefix \in Texts
    BY <2>1, PrefixesAreTexts
  <2> QED BY <2>1, <2>2, ConcatProperties DEF Texts
<1>3. \/ Leave(i)
      \/ DeployChat /\ \E user \in Texts : Ask(i, user)
  BY <1>2 DEF Decide
<1>4. TurnsAre(turns', DeployChat) /\ \A s : Begun(s, turns) => Begun(s, turns')
  BY <1>0, <1>2, <1>3, LeaveKeeps, AskKeeps
<1>5. SettingsAre' /\ TurnsAre(turns, DeployChat)'
  BY <1>0, <1>1, <1>4 DEF SettingsAre, DeployChat
<1>6. ChatIsSound' /\ ToolIsSound'
  BY <1>0, <1>4, ChatStays, ToolStays
<1> QED BY <1>5, <1>6 DEF IInv

\* A turn is remembered, late or not.
LEMMA CommitTurnSound ==
  ASSUME IInv, NEW i \in DOMAIN turns, NEW n \in AnswerLengths, CommitTurn(i, n) PROVE IInv'
<1> DEFINE user == StripScreenPrefix(StripScreenPrefix(turns[i].user))
           answer == Words(i + 50, n)
           exchange == Exchange(user, answer)
           c == ChatMessages
<1>0. /\ SettingsAre /\ ChatIsSound /\ ToolIsSound /\ TurnsAre(turns, DeployChat)
      /\ deploy' = deploy /\ phase' = phase /\ meta' = meta /\ tool' = tool /\ followup' = followup
      /\ i \in 1 .. Len(turns) /\ turns[i].at = "streaming" /\ Leave(i)
      /\ chat' = TrimmedChat(AppendAll(c, exchange), FALSE) /\ said' = AppendAll(said, exchange)
  <2>1. turns \in Seq(Turns)
    BY DEF IInv, TurnsAre
  <2> QED BY <2>1 DEF IInv, CommitTurn, settings
<1>1. DeployChat
  BY <1>0 DEF TurnsAre
<1>2. user \in Texts /\ answer \in Texts
  <2>1. turns[i].user \in Texts /\ meta \in Metas
    BY <1>0, TextsOfTurn
  <2>2. i + 50 \in Nat /\ n \in Nat
    BY <1>0, ConversationConstants
  <2> QED BY <2>1, <2>2, PrefixesAreTexts, WordsAreTexts
<1>3. PICK p \in History : said = p \o c /\ (c = <<>> => p = <<>>)
  BY <1>0 DEF ChatIsSound, ChatIs
<1>4. c \in History
  BY <1>0, ReadStores
<1> HIDE DEF user, answer, c
<1> DEFINE more == AppendAll(c, exchange)
<1>5. more \in History /\ AppendAll(p \o c, exchange) = p \o more /\ (more = <<>> => p = <<>>)
  <2>1. c # <<>> \/ p = <<>>
    BY <1>3
  <2>2. more \in History
    BY <1>2, <1>4, <2>1, AppendAllLaw
  <2>3. AppendAll(p \o c, exchange) = p \o more
    BY <1>2, <1>4, <2>1, AppendAllLaw
  <2>4. more = <<>> => p = <<>>
    BY <1>2, <1>4, <2>1, AppendAllLaw
  <2> QED BY <2>2, <2>3, <2>4
<1> HIDE DEF more
<1>6. ChatIs(TrimChat(more, ChatTrigger, ChatTarget), p \o more)
  BY <1>5, TrimmedIsLatest
<1>7. chat' = TrimChat(more, ChatTrigger, ChatTarget) /\ said' = p \o more
  BY <1>0, <1>3, <1>5 DEF TrimmedChat, more
<1>8. ChatIsSound'
  BY <1>0, <1>1, <1>6, <1>7, ChatWritten
<1>9. TurnsAre(turns', DeployChat) /\ \A s : Begun(s, turns) => Begun(s, turns')
  BY <1>0, LeaveKeeps
<1>10. SettingsAre' /\ TurnsAre(turns, DeployChat)'
  BY <1>0, <1>9 DEF SettingsAre, DeployChat
<1>11. ToolIsSound'
  BY <1>0, <1>9, ToolStays
<1> QED BY <1>8, <1>10, <1>11 DEF IInv

\* A turn of which nothing is remembered.
LEMMA TurnEndsSound ==
  ASSUME IInv, NEW i \in DOMAIN turns, TurnEnds(i) PROVE IInv'
<1>0. /\ SettingsAre /\ ChatIsSound /\ ToolIsSound /\ TurnsAre(turns, DeployChat)
      /\ deploy' = deploy /\ phase' = phase /\ meta' = meta /\ chat' = chat /\ tool' = tool
      /\ followup' = followup /\ said' = said /\ i \in 1 .. Len(turns) /\ Leave(i)
  <2>1. turns \in Seq(Turns)
    BY DEF IInv, TurnsAre
  <2> QED BY <2>1 DEF IInv, TurnEnds, settings
<1>1. TurnsAre(turns', DeployChat) /\ \A s : Begun(s, turns) => Begun(s, turns')
  BY <1>0, LeaveKeeps
<1>2. SettingsAre' /\ TurnsAre(turns, DeployChat)'
  BY <1>0, <1>1 DEF SettingsAre, DeployChat
<1>3. ChatIsSound' /\ ToolIsSound'
  BY <1>0, <1>1, ChatStays, ToolStays
<1> QED BY <1>2, <1>3 DEF IInv

-----------------------------------------------------------------------------
(* The theorems *)

\* What a message may say is a text.
LEMMA UtterancesAreTexts ==
  ASSUME IInv, NEW u \in Utterances
  PROVE  u[1] \o Words(Len(turns) + 1, u[2]) \in Texts
<1>1. u[1] \in Texts /\ u[2] \in Nat
  BY ConversationConstants
<1>2. Len(turns) + 1 \in Nat
  <2>1. turns \in Seq(Turns)
    BY DEF IInv, TurnsAre
  <2> QED BY <2>1
<1>3. Words(Len(turns) + 1, u[2]) \in Texts
  BY <1>1, <1>2, WordsAreTexts
<1> QED BY <1>1, <1>3, ConcatProperties DEF Texts

\* The inductive invariant holds throughout.
THEOREM ConversationIsSound == Spec => []IInv
<1>1. IInv /\ [Next]_vars => IInv'
  <2> SUFFICES ASSUME IInv, [Next]_vars PROVE IInv'
    OBVIOUS
  <2>1. CASE Start
    BY <2>1, StartRefusedSound, StartAcceptedSound DEF Start
  <2>2. CASE CancelFirst
    BY <2>2, CancelFirstSound
  <2>3. CASE NextMessage
    <3>1. PICK u \in Utterances, sampling \in Samplings :
            PlanMessage(u[1] \o Words(Len(turns) + 1, u[2]), sampling)
      BY <2>3 DEF NextMessage
    <3> QED BY <3>1, UtterancesAreTexts, PlanMessageSound
  <2>4. ASSUME NEW i \in DOMAIN turns, TurnStep(i) PROVE IInv'
    BY <2>4, BeginWithToolSound, BeginChatOnlySound, DecideSound, CommitTurnSound, TurnEndsSound
       DEF TurnStep
  <2>5. CASE UNCHANGED vars
    <3>1. /\ deploy' = deploy /\ phase' = phase /\ meta' = meta /\ chat' = chat /\ tool' = tool
          /\ followup' = followup /\ turns' = turns /\ said' = said
      BY <2>5 DEF vars
    <3>2. SettingsAre /\ ChatIsSound /\ ToolIsSound /\ TurnsAre(turns, DeployChat)
      BY DEF IInv
    <3>3. SettingsAre' /\ TurnsAre(turns, DeployChat)'
      BY <3>1, <3>2 DEF SettingsAre, DeployChat
    <3>4. ChatIsSound' /\ ToolIsSound'
      BY <3>1, <3>2, ChatStays, ToolStays
    <3> QED BY <3>3, <3>4 DEF IInv
  <2> QED BY <2>1, <2>2, <2>3, <2>4, <2>5 DEF Next
<1> QED BY InitSound, <1>1, PTL DEF Spec

(* The stores exist for the models that are deployed, and hold only messages of the two roles *)
(* and entries with a text.                                                                     *)
THEOREM ConversationTypeOK == Spec => []TypeOK
<1>1. IInv => TypeOK
  <2> SUFFICES ASSUME IInv PROVE TypeOK
    OBVIOUS
  <2>0. SettingsAre /\ ChatIsSound /\ ToolIsSound /\ TurnsAre(turns, DeployChat)
    BY DEF IInv
  <2>1. chat # Null => DeployChat /\ \A n \in DOMAIN chat : chat[n].role \in Roles /\ chat[n].text # <<>>
    <3> SUFFICES ASSUME chat # Null
                 PROVE  DeployChat /\ \A n \in DOMAIN chat : chat[n].role \in Roles /\ chat[n].text # <<>>
      OBVIOUS
    <3>1. DeployChat /\ chat \in Seq(Messages)
      BY <2>0 DEF ChatIsSound, History
    <3>2. \A n \in DOMAIN chat : chat[n] \in Messages
      BY <3>1
    <3> QED BY <3>1, <3>2 DEF Messages
  <2>2. tool # Null => DeployTool /\ \A n \in DOMAIN tool : tool[n].text # <<>>
    <3> SUFFICES ASSUME tool # Null
                 PROVE  DeployTool /\ \A n \in DOMAIN tool : tool[n].text # <<>>
      OBVIOUS
    <3>1. DeployTool /\ tool \in Seq(Entries)
      BY <2>0 DEF ToolIsSound, StoreIs
    <3>2. \A n \in DOMAIN tool : tool[n] \in Entries
      BY <3>1
    <3> QED BY <3>1, <3>2 DEF Entries
  <2>3. \A i \in DOMAIN turns : turns[i].at \in {"planned", "classifying", "streaming", "over"}
    <3>1. turns \in Seq(Turns)
      BY <2>0 DEF TurnsAre
    <3>2. \A i \in DOMAIN turns : turns[i] \in Turns
      BY <3>1
    <3> QED BY <3>2 DEF Turns
  <2> QED BY <2>0, <2>1, <2>2, <2>3 DEF TypeOK, SettingsAre
<1> QED BY <1>1, ConversationIsSound, PTL

(* Trimming, after any imports and commits: the chat store is below its trigger or one turn     *)
(* alone exceeds it, the tool store is below its budget.                                        *)
THEOREM StoresStayBounded == Spec => []StoresAreBounded
<1>1. IInv => StoresAreBounded
  <2> SUFFICES ASSUME IInv PROVE StoresAreBounded
    OBVIOUS
  <2>0. ChatIsSound /\ ToolIsSound
    BY DEF IInv
  <2>1. chat # Null => chat = ChatMessages
    BY <2>0 DEF ChatIsSound, ChatMessages, ChatStore
  <2>2. TranscriptTokens(ChatMessages) <= ChatTrigger \/ Len(GroupTurns(ChatMessages)) = 1
    BY <2>0 DEF ChatIsSound, ChatIs
  <2>3. tool # Null /\ ToolStoreBudget > 0 => ToolStoreTokens(tool) <= ToolStoreBudget
    BY <2>0 DEF ToolIsSound, StoreIs
  <2> QED BY <2>1, <2>2, <2>3 DEF StoresAreBounded
<1> QED BY <1>1, ConversationIsSound, PTL

(* Whatever was trimmed, refused or committed late, the chat store is the latest part of all    *)
(* that was said.                                                                               *)
THEOREM ChatStaysRecent == Spec => []ChatIsRecent
<1>1. IInv => ChatIsRecent
  <2> SUFFICES ASSUME IInv, chat # Null PROVE IsSuffix(chat, said)
    BY DEF ChatIsRecent
  <2>1. chat = ChatMessages /\ ChatIs(ChatMessages, said)
    BY DEF IInv, ChatIsSound, ChatMessages, ChatStore
  <2>2. ChatMessages \in History /\ \E p \in History : said = p \o ChatMessages
    BY <2>1 DEF ChatIs
  <2> QED BY <2>1, <2>2, SuffixOf
<1> QED BY <1>1, ConversationIsSound, PTL

(* The tool store lists the turns in the order they came in, each once: a late or repeated one  *)
(* never changes an earlier entry.                                                              *)
THEOREM ToolTurnsStayInOrder == Spec => []ToolTurnsInOrder
<1>1. IInv => ToolTurnsInOrder
  <2> SUFFICES ASSUME IInv, tool # Null, NEW m \in DOMAIN tool, NEW n \in DOMAIN tool, m < n
               PROVE  \/ 0 < tool[m].id /\ tool[m].id < tool[n].id
                      \/ tool[m].id < 0 /\ (tool[n].id > 0 \/ tool[n].id < tool[m].id)
    BY DEF ToolTurnsInOrder
  <2>1. tool \in Seq(Entries) /\ InOrder(tool)
    BY DEF IInv, ToolIsSound, StoreIs
  <2>2. m \in 1 .. Len(tool) /\ n \in 1 .. Len(tool)
    BY <2>1
  <2>3. Before(tool[m].id, tool[n].id)
    BY <2>1, <2>2 DEF InOrder
  <2> QED BY <2>3 DEF Before
<1> QED BY <1>1, ConversationIsSound, PTL

(* Every prompt a turn runs with fits the context, alternates and ends with the user's text,    *)
(* unless that was a prefix alone.                                                              *)
THEOREM PromptsStaySound == Spec => []PromptsAreSound
<1>1. IInv => PromptsAreSound
  <2> SUFFICES ASSUME IInv, NEW i \in DOMAIN turns, turns[i].prompt # <<>>
               PROVE  /\ PromptSize(turns[i].prompt) <= ChatMaxLen
                      /\ \A n \in 1 .. Len(turns[i].prompt) - 1 :
                           turns[i].prompt[n].role # turns[i].prompt[n + 1].role
                      /\ turns[i].user # <<>> => Last(turns[i].prompt).role = "user"
    BY DEF PromptsAreSound
  <2>1. i \in 1 .. Len(turns)
    <3>1. turns \in Seq(Turns)
      BY DEF IInv, TurnsAre
    <3> QED BY <3>1
  <2>2. PromptIsSound(turns[i])
    BY <2>1 DEF IInv, TurnsAre
  <2> QED BY <2>2 DEF PromptIsSound, Alternating
<1> QED BY <1>1, ConversationIsSound, PTL

-----------------------------------------------------------------------------
(* Texts without prefixes *)

\* Texts in which no token of a prefix of the session occurs.
Plain == Seq(Nat \ PrefixTokens)

\* A text without certain tokens.
LEMMA WithoutTokens ==
  ASSUME NEW text \in Texts, NEW T
  PROVE  text \in Seq(Nat \ T) <=> ToSet(text) \cap T = {}
<1>1. text \in Seq(Nat) /\ \A i \in 1 .. Len(text) : text[i] \in Nat
  BY DEF Texts
<1>2. ToSet(text) = {text[i] : i \in 1 .. Len(text)}
  BY <1>1 DEF ToSet
<1> DEFINE S == Nat \ T
<1>3. ASSUME text \in Seq(S) PROVE ToSet(text) \cap T = {}
  <2>1. \A i \in 1 .. Len(text) : text[i] \in S
    <3> HIDE DEF S
    <3> QED BY <1>3
  <2> QED BY <1>2, <2>1
<1>4. ASSUME ToSet(text) \cap T = {} PROVE text \in Seq(S)
  <2>1. \A i \in 1 .. Len(text) : text[i] \in S
    BY <1>1, <1>2, <1>4
  <2> HIDE DEF S
  <2> QED BY <1>1, <2>1
<1> QED BY <1>3, <1>4

\* What the property says of a text.
LEMMA PlainTexts ==
  ASSUME NEW text \in Texts
  PROVE  text \in Plain <=> ToSet(text) \cap PrefixTokens = {}
BY WithoutTokens DEF Plain

\* Plain texts are texts.
LEMMA PlainAreTexts == Plain \subseteq Texts
<1> DEFINE S == Nat \ PrefixTokens
<1>1. \A x \in S : x \in Nat
  OBVIOUS
<1> HIDE DEF S
<1>2. \A text \in Seq(S) : text \in Seq(Nat)
  BY <1>1, SeqMonotonic
<1> QED BY <1>2 DEF Plain, Texts, S

\* A text begins with the first token of any text it begins with.
LEMMA StartsAlike ==
  ASSUME NEW a \in Texts, NEW text \in Texts, a # <<>>, IsPrefix(a, text)
  PROVE  text[1] = a[1] /\ 1 \in 1 .. Len(text) /\ a[1] \in ToSet(a)
<1>1. Len(a) \in Nat \ {0} /\ Len(text) \in Nat
  BY EmptySeq DEF Texts
<1>2. Len(a) <= Len(text) /\ SubSeq(a, 1, Len(a)) = SubSeq(text, 1, Len(a))
  BY DEF IsPrefix
<1>3. SubSeq(a, 1, Len(a))[1] = a[1] /\ SubSeq(text, 1, Len(a))[1] = text[1]
  <2> DEFINE l == Len(a)
  <2>1. l \in Int /\ l >= 1 /\ l <= Len(text)
    BY <1>1, <1>2
  <2>2. ASSUME NEW s \in Seq(Nat), l <= Len(s) PROVE SubSeq(s, 1, l)[1] = s[1]
    <3>1. \A i \in 1 .. l : s[i] \in Nat
      BY <2>1, <2>2
    <3> HIDE DEF l
    <3>2. \A i \in 1 .. l - 1 + 1 : SubSeq(s, 1, l)[i] = s[1 + i - 1]
      BY <2>1, <3>1, SubSeqProperties
    <3>3. 1 \in 1 .. l - 1 + 1
      BY <2>1
    <3>4. SubSeq(s, 1, l)[1] = s[1 + 1 - 1]
      BY <3>2, <3>3, Zenon
    <3>5. 1 + 1 - 1 = 1
      OBVIOUS
    <3> QED BY <3>4, <3>5, Zenon
  <2> HIDE DEF l
  <2>3. a \in Seq(Nat) /\ text \in Seq(Nat) /\ l <= Len(a)
    BY <1>1 DEF Texts, l
  <2>4. SubSeq(a, 1, l)[1] = a[1] /\ SubSeq(text, 1, l)[1] = text[1]
    BY <2>1, <2>2, <2>3
  <2> QED BY <2>4 DEF l
<1>4. text[1] = a[1] /\ 1 \in 1 .. Len(text) /\ 1 \in DOMAIN a
  BY <1>1, <1>2, <1>3 DEF Texts
<1> QED BY <1>4 DEF ToSet

\* A plain text starts with no prefix.
LEMMA PlainIsNotStripped ==
  ASSUME CheckPrefix \in Texts, CheckedPrefix \in Texts, NEW text \in Plain
  PROVE  StripScreenPrefix(text) = text
<1>1. text \in Texts /\ \A i \in 1 .. Len(text) : text[i] \notin PrefixTokens
  <2>1. text \in Texts
    BY PlainAreTexts
  <2>2. ToSet(text) \cap PrefixTokens = {}
    BY <2>1, PlainTexts
  <2> QED BY <2>1, <2>2 DEF ToSet, Texts
<1>2. ASSUME NEW a \in Texts, a # <<>>, IsPrefix(a, text) PROVE \E i \in 1 .. Len(text) : text[i] \in ToSet(a)
  <2>1. text[1] = a[1] /\ 1 \in 1 .. Len(text) /\ a[1] \in ToSet(a)
    BY <1>1, <1>2, StartsAlike
  <2> QED BY <2>1
<1>3. ASSUME NEW a \in {CheckPrefix, CheckedPrefix}, a # <<>> PROVE ~IsPrefix(a, text)
  BY <1>1, <1>2, <1>3 DEF PrefixTokens
<1> QED BY <1>3 DEF StripScreenPrefix

\* What follows a beginning that is taken off.
LEMMA BehindPrefix ==
  ASSUME NEW a \in Texts, NEW w \in Texts
  PROVE  /\ a \o w \in Texts /\ IsPrefix(a, a \o w)
         /\ SubSeq(a \o w, Len(a) + 1, Len(a \o w)) = w
<1> DEFINE s == a \o w
           l == Len(a)
           m == Len(s)
           v == SubSeq(s, l + 1, m)
<1>1. /\ s \in Seq(Nat) /\ m = l + Len(w) /\ l \in Nat /\ Len(w) \in Nat /\ a \in Seq(Nat) /\ w \in Seq(Nat)
      /\ \A i \in 1 .. m : s[i] \in Nat /\ s[i] = IF i <= l THEN a[i] ELSE w[i - l]
  <2>1. a \in Seq(Nat) /\ w \in Seq(Nat)
    BY DEF Texts
  <2>2. s \in Seq(Nat) /\ Len(s) = l + Len(w) /\ \A i \in 1 .. l + Len(w) : s[i] = IF i <= l THEN a[i] ELSE w[i - l]
    BY <2>1, ConcatProperties
  <2> QED BY <2>1, <2>2
<1>2. IsPrefix(a, s)
  <2> DEFINE x == SubSeq(a, 1, l)
             y == SubSeq(s, 1, l)
  <2>1. x = a
    BY <1>1, SubSeqFull
  <2>2. y \in Seq(Nat) /\ Len(y) = l /\ \A i \in 1 .. l : y[i] = s[i]
    <3>1. \A i \in 1 .. l : s[i] \in Nat
      BY <1>1
    <3> HIDE DEF s, l
    <3>2. /\ SubSeq(s, 1, l) \in Seq(Nat)
          /\ Len(SubSeq(s, 1, l)) = IF 1 <= l THEN l - 1 + 1 ELSE 0
          /\ \A i \in 1 .. l - 1 + 1 : SubSeq(s, 1, l)[i] = s[1 + i - 1]
      BY <1>1, <3>1, SubSeqProperties
    <3>3. \A i \in 1 .. l : i \in 1 .. l - 1 + 1 /\ 1 + i - 1 = i
      BY <1>1
    <3> QED BY <1>1, <3>2, <3>3
  <2> HIDE DEF s, y
  <2>3. \A i \in 1 .. Len(y) : y[i] = a[i]
    BY <1>1, <2>2
  <2>4. y = a
    BY <1>1, <2>2, <2>3, SeqEqual
  <2> QED BY <1>1, <2>1, <2>4 DEF IsPrefix, y
<1>3. v = w
  <2> HIDE DEF s, l, m
  <2>1. v \in Seq(Nat) /\ Len(v) = Len(w) /\ \A i \in 1 .. Len(w) : v[i] = s[l + i]
    <3> DEFINE b == l + 1
    <3>1. b \in Int /\ m \in Int /\ m - b + 1 = Len(w) /\ \A i \in b .. m : s[i] \in Nat
      BY <1>1
    <3>2. \A i \in 1 .. Len(w) : b + i - 1 = l + i
      BY <1>1
    <3>3. b <= m <=> Len(w) # 0
      BY <1>1
    <3> HIDE DEF b
    <3>4. /\ SubSeq(s, b, m) \in Seq(Nat)
          /\ Len(SubSeq(s, b, m)) = IF b <= m THEN m - b + 1 ELSE 0
          /\ \A i \in 1 .. m - b + 1 : SubSeq(s, b, m)[i] = s[b + i - 1]
      BY <3>1, SubSeqProperties
    <3>5. v = SubSeq(s, b, m)
      BY DEF b
    <3> QED BY <3>1, <3>2, <3>3, <3>4, <3>5
  <2>2. \A i \in 1 .. Len(w) : s[l + i] = w[i]
    <3> SUFFICES ASSUME NEW i \in 1 .. Len(w) PROVE s[l + i] = w[i]
      OBVIOUS
    <3>1. l + i \in 1 .. m /\ ~(l + i <= l) /\ (l + i) - l = i
      BY <1>1
    <3> QED BY <1>1, <3>1
  <2> HIDE DEF v
  <2>3. \A i \in 1 .. Len(v) : v[i] = w[i]
    BY <2>1, <2>2
  <2> QED BY <1>1, <2>1, <2>3, SeqEqual
<1> QED BY <1>1, <1>2, <1>3 DEF Texts

\* The prefixes of the session, which are among those a session may have.
SessionPrefixes == {CheckPrefix, CheckedPrefix}

\* A prefix in front of a plain text is taken off as a whole.
LEMMA StripTakesOff ==
  ASSUME PrefixesAreRecognisable, SessionPrefixes \subseteq ScreenPrefixes \cup {<<>>},
         CheckPrefix \in Texts, CheckedPrefix \in Texts,
         NEW a \in SessionPrefixes \cup {<<>>}, NEW w \in Plain
  PROVE  StripScreenPrefix(a \o w) = w
<1>0. a \in Texts /\ w \in Texts
  BY PlainAreTexts, EmptySeq DEF SessionPrefixes, Texts
<1>1. a \o w \in Texts /\ IsPrefix(a, a \o w) /\ SubSeq(a \o w, Len(a) + 1, Len(a \o w)) = w
  BY <1>0, BehindPrefix
<1>2. CASE a = <<>>
  <2>1. a \o w = w
    BY <1>0, <1>2, ConcatEmptySeq DEF Texts
  <2> QED BY <2>1, PlainIsNotStripped
<1>3. CASE a # <<>> /\ a = CheckPrefix
  BY <1>1, <1>3 DEF StripScreenPrefix
<1>4. CASE a # <<>> /\ a # CheckPrefix
  <2>1. a = CheckedPrefix /\ a \in ScreenPrefixes
    BY <1>4 DEF SessionPrefixes
  <2>2. ASSUME CheckPrefix # <<>>, IsPrefix(CheckPrefix, a \o w) PROVE FALSE
    <3>1. CheckPrefix \in ScreenPrefixes
      BY <2>2 DEF SessionPrefixes
    <3>2. (a \o w)[1] = CheckPrefix[1] /\ CheckPrefix[1] \in ToSet(CheckPrefix)
      BY <1>1, <2>2, StartsAlike
    <3>3. (a \o w)[1] = a[1] /\ a[1] \in ToSet(a)
      BY <1>0, <1>1, <1>4, StartsAlike
    <3>4. ToSet(a) \cap ToSet(CheckPrefix) = {}
      BY <1>4, <2>1, <3>1 DEF PrefixesAreRecognisable
    <3> QED BY <3>2, <3>3, <3>4
  <2> QED BY <1>1, <1>4, <2>1, <2>2 DEF StripScreenPrefix
<1> QED BY <1>2, <1>3, <1>4

\* A text without the tokens of any prefix is without those of two of them.
LEMMA HasNoneOf ==
  ASSUME NEW text \in Texts, HasNoPrefix(text),
         NEW a \in ScreenPrefixes \cup {<<>>}, NEW b \in ScreenPrefixes \cup {<<>>}
  PROVE  text \in Seq(Nat \ (ToSet(a) \cup ToSet(b)))
<1>1. ToSet(<<>>) = {}
  BY DEF ToSet
<1>2. ToSet(text) \cap ToSet(a) = {} /\ ToSet(text) \cap ToSet(b) = {}
  BY <1>1 DEF HasNoPrefix
<1>3. ToSet(text) \cap (ToSet(a) \cup ToSet(b)) = {}
  BY <1>2
<1> QED BY <1>3, WithoutTokens

\* So it is plain.
LEMMA NoPrefixIsPlain ==
  ASSUME NEW text \in Texts, HasNoPrefix(text), SessionPrefixes \subseteq ScreenPrefixes \cup {<<>>}
  PROVE  text \in Plain
BY HasNoneOf DEF Plain, PrefixTokens, SessionPrefixes

\* Plain texts are joined to a plain text.
LEMMA PlainJoined ==
  ASSUME NEW v \in Plain, NEW w \in Plain
  PROVE  v \o w \in Plain
BY ConcatProperties DEF Plain

\* What the user says is stripped of its prefix, if that is one of the session's.
LEMMA UtteranceIsStripped ==
  ASSUME PrefixesAreRecognisable, SessionPrefixes \subseteq ScreenPrefixes \cup {<<>>},
         CheckPrefix \in Texts, CheckedPrefix \in Texts, NEW u \in Utterances, NEW i \in 1 .. MaxTurns
  PROVE  StripScreenPrefix(u[1] \o Words(i, u[2])) \in Plain
<1> DEFINE w == Words(i, u[2])
<1>1. u[1] \in Texts /\ w \in Texts /\ HasNoPrefix(w)
  <2>1. u[1] \in Texts /\ u[2] \in Nat /\ i \in Nat
    BY ConversationConstants
  <2> QED BY <2>1, WordsAreTexts DEF PrefixesAreRecognisable
<1> HIDE DEF w
<1>2. w \in Plain
  BY <1>1, NoPrefixIsPlain
<1>3. CASE u[1] \in SessionPrefixes
  <2>1. StripScreenPrefix(u[1] \o w) = w
    BY <1>2, <1>3, StripTakesOff
  <2> QED BY <1>2, <2>1 DEF w
<1>4. CASE u[1] \notin SessionPrefixes
  <2>1. u[1] \in Plain
    <3>1. CASE HasNoPrefix(u[1])
      BY <1>1, <3>1, NoPrefixIsPlain
    <3>2. CASE u[1] \in ScreenPrefixes
      <4>1. \A p \in SessionPrefixes : p = <<>> \/ ToSet(u[1]) \cap ToSet(p) = {}
        BY <1>4, <3>2 DEF PrefixesAreRecognisable
      <4>2. ToSet(<<>>) = {}
        BY DEF ToSet
      <4>3. ToSet(u[1]) \cap ToSet(CheckPrefix) = {} /\ ToSet(u[1]) \cap ToSet(CheckedPrefix) = {}
        BY <4>1, <4>2 DEF SessionPrefixes
      <4> QED BY <1>1, <4>3, PlainTexts DEF PrefixTokens
    <3> QED BY <3>1, <3>2 DEF PrefixesAreRecognisable
  <2>2. u[1] \o w \in Plain
    BY <1>2, <2>1, PlainJoined
  <2>3. StripScreenPrefix(u[1] \o w) = u[1] \o w
    BY <2>2, PlainIsNotStripped
  <2> QED BY <2>2, <2>3 DEF w
<1> QED BY <1>3, <1>4

\* Cutting a text behind its prefix leaves the prefix, and nothing new behind it.
LEMMA CutBehindPrefix ==
  ASSUME NEW a \in Texts, a # <<>>, NEW w \in Texts, NEW k \in Len(a) .. Len(a \o w)
  PROVE  \E v \in Texts : Cut(a \o w, k, "start") = a \o v /\ NoNewTokens(v, w)
<1> DEFINE s == a \o w
           l == Len(a)
           c == Cut(s, k, "start")
           v == Cut(w, k - l, "start")
<1>1. /\ s \in Seq(Nat) /\ Len(s) = l + Len(w) /\ l \in Nat /\ Len(w) \in Nat
      /\ a \in Seq(Nat) /\ w \in Seq(Nat)
      /\ \A i \in 1 .. l + Len(w) : s[i] = IF i <= l THEN a[i] ELSE w[i - l]
  <2>1. a \in Seq(Nat) /\ w \in Seq(Nat)
    BY DEF Texts
  <2> QED BY <2>1, ConcatProperties
<1>2. l # 0
  BY <1>1, EmptySeq
<1>3. k \in Int /\ l <= k /\ k <= l + Len(w) /\ k \in 1 .. Len(s)
  BY <1>1, <1>2
<1> HIDE DEF l
<1>4. c \in Seq(Nat) /\ Len(c) = k /\ \A i \in 1 .. k : c[i] = s[i]
  <2>1. s \in Texts
    BY <1>1 DEF Texts
  <2> HIDE DEF s
  <2> QED BY <1>3, <2>1, CutAtStart DEF Texts
<1>5. v \in Texts /\ NoNewTokens(v, w) /\ Len(v) = k - l /\ \A i \in 1 .. k - l : v[i] = w[i]
  <2>1. k - l \in Int
    BY <1>1, <1>3
  <2>2. v \in Texts /\ NoNewTokens(v, w) /\ (k - l <= 0 => v = <<>>)
    BY <2>1, CutIsText
  <2>3. CASE k = l
    <3>1. v = <<>> /\ k - l = 0
      BY <1>1, <2>2, <2>3
    <3>2. Len(v) = k - l
      BY <3>1
    <3> HIDE DEF v
    <3> QED BY <2>2, <3>1, <3>2
  <2>4. CASE k # l
    <3>1. k - l \in 1 .. Len(w)
      BY <1>1, <1>3, <2>4
    <3>2. Len(v) = k - l /\ \A i \in 1 .. k - l : v[i] = w[i]
      BY <3>1, CutAtStart
    <3> HIDE DEF v
    <3> QED BY <2>2, <3>2
  <2> QED BY <2>3, <2>4
<1> HIDE DEF s, c, v
<1>6. /\ a \o v \in Seq(Nat) /\ Len(a \o v) = l + (k - l)
      /\ \A i \in 1 .. l + (k - l) : (a \o v)[i] = IF i <= l THEN a[i] ELSE v[i - l]
  <2>1. v \in Seq(Nat)
    BY <1>5 DEF Texts
  <2>2. /\ a \o v \in Seq(Nat) /\ Len(a \o v) = Len(a) + Len(v)
        /\ \A i \in 1 .. Len(a) + Len(v) : (a \o v)[i] = IF i <= Len(a) THEN a[i] ELSE v[i - Len(a)]
    BY <1>1, <2>1, ConcatProperties
  <2> QED BY <1>5, <2>2 DEF l
<1>7. l + (k - l) = k
  BY <1>1, <1>3
<1>8. ASSUME NEW i \in 1 .. k PROVE c[i] = (a \o v)[i]
  <2>1. i \in 1 .. l + Len(w) /\ i \in Int
    BY <1>1, <1>3
  <2>2. CASE i <= l
    BY <1>1, <1>4, <1>6, <1>7, <2>1, <2>2
  <2>3. CASE ~(i <= l)
    <3>1. i - l \in 1 .. k - l
      BY <1>1, <1>3, <2>3
    <3> QED BY <1>1, <1>4, <1>5, <1>6, <1>7, <2>1, <2>3, <3>1
  <2> QED BY <2>2, <2>3
<1>9. c = a \o v
  <2> DEFINE b == a \o v
  <2>1. b \in Seq(Nat) /\ Len(b) = k /\ \A i \in 1 .. k : c[i] = b[i]
    BY <1>6, <1>7, <1>8
  <2> HIDE DEF b
  <2>2. b = c
    BY <1>4, <2>1, SeqEqual
  <2> QED BY <2>2 DEF b
<1> QED BY <1>5, <1>9 DEF c, s

\* What is left of a text for the chat model is plain behind its prefix.
LEMMA AskedIsPlain ==
  ASSUME PrefixesAreRecognisable, SessionPrefixes \subseteq ScreenPrefixes \cup {<<>>},
         CheckPrefix \in Texts, CheckedPrefix \in Texts,
         NEW system \in {<<>>} \cup {p.prompt : p \in StartPayloads}, system \in Texts,
         NEW h \in History, NEW a \in SessionPrefixes \cup {<<>>}, NEW w \in Plain,
         FitChat(system, h, a \o w, UserMax) # Null
  PROVE  StripScreenPrefix(StripScreenPrefix(FitChat(system, h, a \o w, UserMax).user)) \in Plain
<1> DEFINE user == a \o w
           left == FitChat(system, h, user, UserMax).user
<1>0. a \in Texts /\ w \in Texts /\ user \in Texts /\ UserMax \in Nat
  <2>1. a \in Texts /\ w \in Texts
    BY PlainAreTexts, EmptySeq DEF SessionPrefixes, Texts
  <2> QED BY <2>1, ConcatProperties, FitConstants DEF Texts
<1>1. CASE a = <<>>
  <2>1. user = w
    BY <1>0, <1>1, ConcatEmptySeq DEF Texts
  <2>2. NoNewTokens(left, user)
    <3> HIDE DEF user
    <3> QED BY <1>0, FitChatLaw DEF user
  <2>3. left \in Plain
    <3> HIDE DEF left
    <3> QED BY <2>1, <2>2 DEF NoNewTokens, Plain
  <2> HIDE DEF left
  <2>4. StripScreenPrefix(left) = left
    BY <2>3, PlainIsNotStripped
  <2> QED BY <2>3, <2>4 DEF left
<1>2. CASE a # <<>>
  <2>1. a \in ScreenPrefixes
    BY <1>2
  <2> DEFINE j == Len(a)
  <2>2. /\ j \in Nat \ {0} /\ Len(user) \in Nat /\ j <= Len(user) /\ j <= UserMax
        /\ PromptTokens(system, <<>>, a) <= ChatMaxLen
    <3>1. j \in Nat /\ Len(user) = j + Len(w) /\ Len(w) \in Nat
      BY <1>0, ConcatProperties DEF Texts
    <3>2. j # 0
      BY <1>0, <1>2, EmptySeq DEF Texts
    <3>3. Len(a) <= UserMax /\ PromptTokens(system, <<>>, a) <= ChatMaxLen
      BY <2>1 DEF PrefixesAreRecognisable
    <3> HIDE DEF user
    <3> QED BY <3>1, <3>2, <3>3
  <2> HIDE DEF j
  <2>3. Cut(user, j, "start") = a
    <3>1. j \in 1 .. Len(user) /\ j = Len(a)
      BY <2>2 DEF j
    <3> DEFINE c == Cut(user, j, "start")
    <3>2. c \in Texts /\ Len(c) = j /\ \A i \in 1 .. j : c[i] = user[i]
      <4> HIDE DEF user
      <4> QED BY <1>0, <3>1, CutAtStart
    <3>3. \A i \in 1 .. j : user[i] = a[i]
      <4>1. Len(a) \in Nat /\ Len(w) \in Nat /\ a \in Seq(Nat) /\ w \in Seq(Nat)
        BY <1>0 DEF Texts
      <4>2. \A i \in 1 .. Len(a) + Len(w) : user[i] = IF i <= Len(a) THEN a[i] ELSE w[i - Len(a)]
        BY <4>1, ConcatProperties
      <4> HIDE DEF user
      <4> QED BY <3>1, <4>1, <4>2
    <3> HIDE DEF c, user
    <3>4. c \in Seq(Nat) /\ a \in Seq(Nat) /\ Len(c) = Len(a) /\ \A i \in 1 .. Len(c) : c[i] = a[i]
      BY <1>0, <3>1, <3>2, <3>3 DEF Texts
    <3>5. c = a
      BY <3>4, SeqEqual
    <3> QED BY <3>5 DEF c
  <2>4. \E k \in j .. Len(user) : left = Cut(user, k, "start")
    <3>1. j \in 1 .. Len(user) /\ PromptTokens(system, <<>>, Cut(user, j, "start")) <= ChatMaxLen
      BY <2>2, <2>3
    <3>2. FitChat(system, h, user, UserMax) # Null
      OBVIOUS
    <3>3. user \in Texts /\ j <= UserMax
      BY <1>0, <2>2
    <3> HIDE DEF user
    <3>4. \E k \in j .. Len(user) : FitChat(system, h, user, UserMax).user = Cut(user, k, "start")
      BY <3>1, <3>2, <3>3, FitKeepsStart
    <3> QED BY <3>4
  <2>5. PICK k \in j .. Len(user) : left = Cut(user, k, "start")
    BY <2>4
  <2>6. PICK v \in Texts : Cut(user, k, "start") = a \o v /\ NoNewTokens(v, w)
    BY <1>0, <1>2, CutBehindPrefix DEF j
  <2> HIDE DEF left, user
  <2>7. v \in Plain
    BY <2>6 DEF NoNewTokens, Plain
  <2>8. StripScreenPrefix(a \o v) = v /\ StripScreenPrefix(v) = v
    BY <2>7, StripTakesOff, PlainIsNotStripped
  <2> QED BY <2>5, <2>6, <2>7, <2>8 DEF left, user
<1> QED BY <1>1, <1>2

\* What a turn adds to a history brings in no token.
LEMMA ExchangedTexts ==
  ASSUME NEW S, NEW s \in Seq(MessagesOf(S)), NEW user \in Seq(S), NEW answer \in Seq(S)
  PROVE  AppendAll(s, Exchange(user, answer)) \in Seq(MessagesOf(S))
<1> DEFINE m == Message("user", user)
           a == Message("assistant", answer)
           ex == Exchange(user, answer)
<1>1. m \in ItemsOf(S) /\ a \in ItemsOf(S)
  BY DEF Message, ItemsOf, Roles
<1>2. ex = <<>> \/ ex = <<m, a>>
  BY DEF Exchange
<1> HIDE DEF m, a, ex
<1>3. ex \in Seq(ItemsOf(S))
  <2> DEFINE I == ItemsOf(S)
  <2>1. m \in I /\ a \in I
    BY <1>1
  <2> HIDE DEF I
  <2>2. <<m, a>> \in Seq(I) /\ <<>> \in Seq(I)
    BY <2>1
  <2> QED BY <1>2, <2>2 DEF I
<1>4. Unfolds("append", Seq(MessagesOf(S)), ItemsOf(S), s, ex)
  BY <1>3, FoldLaw, JoinedTexts
<1> QED BY <1>4, FoldsAre DEF Unfolds, AppendAll, ex

\* Trimming a tool store brings in no token.
LEMMA TrimmedTexts ==
  ASSUME NEW S, NEW s \in Seq(Entries), \A n \in 1 .. Len(s) : s[n].text \in Seq(S)
  PROVE  \A n \in 1 .. Len(TrimmedTool(s)) : TrimmedTool(s)[n].text \in Seq(S)
<1>1. CASE ToolStoreBudget = 0
  BY <1>1 DEF TrimmedTool
<1>2. CASE ToolStoreBudget # 0
  <2> DEFINE t == TrimTool(s, ToolStoreBudget)
  <2>1. ToolStoreBudget \in Nat \ {0}
    BY <1>2, ConversationConstants
  <2>2. /\ t \in Seq(Entries)
        /\ \E k \in Nat : Len(t) + k <= Len(s) /\ \A i \in 1 .. Len(t) : IsCutOf(t[i], s[i + k])
    BY <2>1, TrimToolKeeps
  <2>3. TrimmedTool(s) = t
    BY <1>2 DEF TrimmedTool
  <2> HIDE DEF t
  <2>4. PICK k \in Nat : Len(t) + k <= Len(s) /\ \A i \in 1 .. Len(t) : IsCutOf(t[i], s[i + k])
    BY <2>2
  <2>5. Len(t) \in Nat /\ Len(s) \in Nat
    BY <2>2
  <2>6. \A i \in 1 .. Len(t) : i + k \in 1 .. Len(s)
    BY <2>4, <2>5
  <2> QED BY <2>3, <2>4, <2>6 DEF IsCutOf, NoNewTokens
<1> QED BY <1>1, <1>2

-----------------------------------------------------------------------------
(* What a session keeps free of prefixes *)

\* Histories of plain texts.
PlainMessages == Seq(MessagesOf(Nat \ PrefixTokens))

\* Turns whose text is plain, behind a prefix at most where that is still to be taken off.
PlainTurns ==
  {t \in Turns :
     /\ t.at \in {"planned", "classifying"} =>
          /\ t.toolUser \in Plain /\ StripScreenPrefix(t.user) \in Plain
          /\ DeployChat => t.user \in Plain
     /\ t.at = "streaming" => StripScreenPrefix(StripScreenPrefix(t.user)) \in Plain}

\* The settings of a session are those of a start message or of none, and nothing is said before.
SettingsArePlain ==
  /\ SessionPrefixes \subseteq ScreenPrefixes \cup {<<>>}
  /\ meta.prompt \in {<<>>} \cup {p.prompt : p \in StartPayloads}
  /\ Len(turns) <= MaxTurns
  /\ phase = "fresh" => turns = <<>> /\ said = <<>> /\ tool \in {Null, <<>>}

ToolIsPlain == tool # Null => \A n \in 1 .. Len(tool) : tool[n].text \in Plain

TurnsArePlain == \A i \in 1 .. Len(turns) : turns[i] \in PlainTurns

\* No prefix is in what was said, in the tool store, or in a turn once it is taken off.
PlainInv == SettingsArePlain /\ said \in PlainMessages /\ ToolIsPlain /\ TurnsArePlain

\* What is plain depends on the two prefixes alone.
LEMMA SamePrefixes ==
  ASSUME deploy' = deploy, meta'.check = meta.check, meta'.checked = meta.checked
  PROVE  /\ Plain' = Plain /\ PlainMessages' = PlainMessages /\ PlainTurns' = PlainTurns
         /\ SessionPrefixes' = SessionPrefixes
<1>1. CheckPrefix' = CheckPrefix /\ CheckedPrefix' = CheckedPrefix /\ DeployChat' = DeployChat
  BY DEF CheckPrefix, CheckedPrefix, DeployChat
<1>2. PrefixTokens' = PrefixTokens /\ SessionPrefixes' = SessionPrefixes
  BY <1>1 DEF PrefixTokens, SessionPrefixes
<1>3. Plain' = Plain /\ PlainMessages' = PlainMessages
  BY <1>2 DEF Plain, PlainMessages
<1>4. PlainTurns' = PlainTurns
  BY <1>1, <1>3 DEF PlainTurns, StripScreenPrefix
<1> QED BY <1>2, <1>3, <1>4

\* One turn goes on with a plain text.
LEMMA TurnStaysPlain ==
  ASSUME NEW ts \in Seq(Turns), NEW P, \A j \in 1 .. Len(ts) : ts[j] \in P,
         NEW i \in 1 .. Len(ts), NEW r \in P \cap Turns
  PROVE  LET us == [ts EXCEPT ![i] = r]
         IN Len(us) = Len(ts) /\ \A j \in 1 .. Len(us) : us[j] \in P
<1> DEFINE us == [ts EXCEPT ![i] = r]
<1>1. Len(us) = Len(ts) /\ \A j \in 1 .. Len(ts) : us[j] = IF j = i THEN r ELSE ts[j]
  BY ExceptSeq
<1> HIDE DEF us
<1> QED BY <1>1 DEF us

\* A turn leaves.
LEMMA LeavePlain ==
  ASSUME turns \in Seq(Turns), TurnsArePlain, NEW i \in 1 .. Len(turns), Leave(i)
  PROVE  Len(turns') = Len(turns) /\ \A j \in 1 .. Len(turns') : turns'[j] \in PlainTurns
<1> DEFINE r == [turns[i] EXCEPT !.at = "over", !.user = <<>>, !.toolUser = <<>>, !.history = <<>>,
                                 !.prompt = <<>>]
<1>1. turns[i] \in Turns
  OBVIOUS
<1>2. r \in Turns /\ r.at = "over"
  <2>1. <<>> \in Texts /\ <<>> \in History /\ <<>> \in Seq(Items)
    BY EmptySeq DEF Texts, History
  <2> QED BY <1>1, <2>1 DEF Turns
<1>3. turns' = [turns EXCEPT ![i] = r]
  BY DEF Leave
<1> HIDE DEF r
<1>4. r \in PlainTurns
  BY <1>2 DEF PlainTurns
<1>5. \A j \in 1 .. Len(turns) : turns[j] \in PlainTurns
  BY DEF TurnsArePlain
<1> QED BY <1>2, <1>3, <1>4, <1>5, TurnStaysPlain

\* A turn goes on to be classified.
LEMMA GotoPlain ==
  ASSUME turns \in Seq(Turns), TurnsArePlain, NEW i \in 1 .. Len(turns), turns[i].at = "planned",
         Goto(i, "classifying")
  PROVE  Len(turns') = Len(turns) /\ \A j \in 1 .. Len(turns') : turns'[j] \in PlainTurns
<1> DEFINE r == [turns[i] EXCEPT !.at = "classifying"]
<1>1. turns[i] \in Turns /\ turns[i] \in PlainTurns
  BY DEF TurnsArePlain
<1>2. r \in Turns /\ r.at = "classifying" /\ r.user = turns[i].user /\ r.toolUser = turns[i].toolUser
  BY <1>1 DEF Turns
<1>3. turns' = [turns EXCEPT ![i] = r]
  BY DEF Goto
<1> HIDE DEF r
<1>4. r \in PlainTurns
  BY <1>1, <1>2 DEF PlainTurns
<1>5. \A j \in 1 .. Len(turns) : turns[j] \in PlainTurns
  BY DEF TurnsArePlain
<1> QED BY <1>2, <1>3, <1>4, <1>5, TurnStaysPlain

\* The settings on which the lemmas about prefixes rest.
LEMMA PrefixSettings ==
  ASSUME IInv, SettingsArePlain
  PROVE  /\ CheckPrefix \in Texts /\ CheckedPrefix \in Texts
         /\ SessionPrefixes \subseteq ScreenPrefixes \cup {<<>>}
         /\ meta.prompt \in {<<>>} \cup {p.prompt : p \in StartPayloads} /\ meta.prompt \in Texts
         /\ turns \in Seq(Turns)
<1>1. meta \in Metas /\ turns \in Seq(Turns)
  BY DEF IInv, SettingsAre, TurnsAre
<1>2. meta.prompt \in Texts
  BY <1>1 DEF Metas
<1> QED BY <1>1, <1>2, PrefixesAreTexts DEF SettingsArePlain

\* A turn asks the chat model with one of the session's prefixes, or none, in front.
LEMMA AskPlain ==
  ASSUME PrefixesAreRecognisable, IInv, SettingsArePlain, TurnsArePlain,
         NEW i \in 1 .. Len(turns), NEW a \in SessionPrefixes \cup {<<>>}, NEW w \in Plain, Ask(i, a \o w)
  PROVE  Len(turns') = Len(turns) /\ \A j \in 1 .. Len(turns') : turns'[j] \in PlainTurns
<1> DEFINE h == turns[i].history
           fit == FitChat(meta.prompt, h, a \o w, UserMax)
           m == PromptMessages(meta.prompt, fit.history, fit.user)
           r == [turns[i] EXCEPT !.at = "streaming", !.user = fit.user, !.history = fit.history, !.prompt = m]
<1>0. /\ CheckPrefix \in Texts /\ CheckedPrefix \in Texts
      /\ SessionPrefixes \subseteq ScreenPrefixes \cup {<<>>}
      /\ meta.prompt \in {<<>>} \cup {p.prompt : p \in StartPayloads} /\ meta.prompt \in Texts
      /\ turns \in Seq(Turns)
  BY PrefixSettings
<1>1. turns[i] \in Turns /\ h \in History /\ UserMax \in Nat /\ a \o w \in Texts
  <2>1. turns[i] \in Turns
    BY <1>0
  <2>2. a \in Texts /\ w \in Texts
    BY <1>0, PlainAreTexts, EmptySeq DEF SessionPrefixes, Texts
  <2> QED BY <2>1, <2>2, ConcatProperties, FitConstants DEF Turns, Texts
<1>2. CASE fit = Null
  BY <1>0, <1>2, LeavePlain DEF Ask
<1>3. CASE fit # Null
  <2> HIDE DEF h
  <2>1. fit.history \in History /\ fit.user \in Texts
    <3> DEFINE u == a \o w
    <3>1. u \in Texts /\ FitChat(meta.prompt, h, u, UserMax) # Null
      BY <1>1, <1>3
    <3> HIDE DEF u
    <3>2. /\ FitChat(meta.prompt, h, u, UserMax).history \in History
          /\ FitChat(meta.prompt, h, u, UserMax).user \in Texts
      BY <1>0, <1>1, <3>1, FitChatLaw
    <3> QED BY <3>2 DEF u
  <2>2. StripScreenPrefix(StripScreenPrefix(fit.user)) \in Plain
    BY <1>0, <1>1, <1>3, AskedIsPlain
  <2>3. turns' = [turns EXCEPT ![i].at = "streaming", ![i].user = fit.user, ![i].history = fit.history,
                               ![i].prompt = m]
    BY <1>3 DEF Ask, h
  <2> HIDE DEF fit
  <2>4. m \in Seq(Items)
    BY <1>0, <2>1, PromptIs DEF Alternating
  <2> HIDE DEF m
  <2>5. r \in Turns /\ r.at = "streaming" /\ r.user = fit.user
    BY <1>1, <2>1, <2>4 DEF Turns
  <2>6. turns' = [turns EXCEPT ![i] = r]
    BY <1>0, <1>1, <2>3
  <2> HIDE DEF r
  <2>7. r \in PlainTurns
    BY <2>2, <2>5 DEF PlainTurns
  <2>8. \A j \in 1 .. Len(turns) : turns[j] \in PlainTurns
    BY DEF TurnsArePlain
  <2> QED BY <1>0, <2>5, <2>6, <2>7, <2>8, TurnStaysPlain
<1> QED BY <1>2, <1>3

\* What is imported has none of the tokens of two prefixes.
LEMMA ImportHasNoneOf ==
  ASSUME PrefixesAreRecognisable, NEW p \in StartPayloads, p.history # Null,
         NEW a \in ScreenPrefixes \cup {<<>>}, NEW b \in ScreenPrefixes \cup {<<>>}
  PROVE  p.history \in Seq(ItemsOf(Nat \ (ToSet(a) \cup ToSet(b))))
<1> DEFINE h == p.history
           S == Nat \ (ToSet(a) \cup ToSet(b))
           I == [role : STRING, text : Texts]
<1>1. h \in Seq(I) /\ \A n \in DOMAIN h : HasNoPrefix(h[n].text)
  BY ConversationConstants DEF PrefixesAreRecognisable
<1> HIDE DEF I, h
<1>2. Len(h) \in Nat /\ DOMAIN h = 1 .. Len(h) /\ \A n \in 1 .. Len(h) : h[n] \in I
  BY <1>1
<1>3. ASSUME NEW n \in 1 .. Len(h) PROVE h[n] \in ItemsOf(S)
  <2>1. h[n] \in [role : STRING, text : Texts] /\ h[n].text \in Texts /\ HasNoPrefix(h[n].text)
    BY <1>1, <1>2 DEF I
  <2>2. h[n].text \in Seq(S)
    BY <2>1, HasNoneOf
  <2> HIDE DEF S
  <2> QED BY <2>1, <2>2 DEF ItemsOf
<1> DEFINE J == ItemsOf(S)
<1>4. \A n \in 1 .. Len(h) : h[n] \in J
  BY <1>3
<1> HIDE DEF J
<1>5. h \in Seq(J)
  BY <1>1, <1>2, <1>4
<1> QED BY <1>5 DEF J, S, h

-----------------------------------------------------------------------------
(* The steps keep it so *)

\* Initially nothing was said.
LEMMA InitPlain == Init => PlainInv
<1> SUFFICES ASSUME Init PROVE PlainInv
  OBVIOUS
<1>1. turns = <<>> /\ said = <<>> /\ tool = Null /\ meta = DefaultMeta /\ Len(turns) = 0
  BY DEF Init
<1>2. SettingsArePlain
  <2>1. MaxTurns \in Nat
    BY ConversationConstants
  <2>2. SessionPrefixes \subseteq ScreenPrefixes \cup {<<>>}
    BY <1>1 DEF SessionPrefixes, CheckPrefix, CheckedPrefix, DefaultMeta, ScreenPrefixes
  <2>3. meta.prompt = <<>>
    BY <1>1 DEF DefaultMeta
  <2> QED BY <1>1, <2>1, <2>2, <2>3 DEF SettingsArePlain
<1>3. said \in PlainMessages
  BY <1>1, EmptySeq DEF PlainMessages
<1> QED BY <1>1, <1>2, <1>3 DEF PlainInv, ToolIsPlain, TurnsArePlain

\* A refused start.
LEMMA StartRefusedPlain ==
  ASSUME PlainInv, NEW p \in StartPayloads, StartRefused(p) PROVE PlainInv'
<1>1. /\ turns' = <<>> /\ said' = <<>> /\ tool' \in {Null, <<>>} /\ meta' = DefaultMeta
      /\ phase' = "closed" /\ Len(turns') = 0
  BY DEF PlainInv, SettingsArePlain, StartRefused, ToolStore
<1>2. SettingsArePlain'
  <2>1. MaxTurns \in Nat
    BY ConversationConstants
  <2>2. SessionPrefixes' \subseteq ScreenPrefixes \cup {<<>>}
    BY <1>1 DEF SessionPrefixes, CheckPrefix, CheckedPrefix, DefaultMeta, ScreenPrefixes
  <2>3. meta'.prompt = <<>>
    BY <1>1 DEF DefaultMeta
  <2> QED BY <1>1, <2>1, <2>2, <2>3 DEF SettingsArePlain
<1>3. said' \in PlainMessages'
  BY <1>1, EmptySeq DEF PlainMessages
<1>4. ToolIsPlain'
  <2>1. Len(<<>>) = 0
    OBVIOUS
  <2> QED BY <1>1, <2>1 DEF ToolIsPlain
<1> QED BY <1>1, <1>2, <1>3, <1>4 DEF PlainInv, TurnsArePlain

\* A start that is accepted, or closes the connection with what it stored.
LEMMA StartAcceptedPlain ==
  ASSUME PrefixesAreRecognisable, PlainInv, NEW p \in StartPayloads, StartAccepted(p) PROVE PlainInv'
<1> DEFINE a == IF p.check = Null THEN DefaultCheck ELSE p.check
           b == IF p.checked = Null THEN DefaultChecked ELSE p.checked
           S == Nat \ (ToSet(a) \cup ToSet(b))
<1>1. /\ turns = <<>> /\ turns' = <<>> /\ Len(turns') = 0 /\ said = <<>> /\ tool \in {Null, <<>>}
      /\ meta' = Configured(p) /\ phase' # "fresh"
      /\ tool' = IF DeployTool THEN ImportedTool(p) ELSE Null
      /\ said' = IF DeployChat /\ p.history # Null THEN ParseForChat(p.history) ELSE <<>>
  BY DEF PlainInv, SettingsArePlain, StartAccepted
<1>2. a \in ScreenPrefixes \cup {<<>>} /\ b \in ScreenPrefixes \cup {<<>>}
  BY DEF ScreenPrefixes
<1>3. CheckPrefix' = a /\ CheckedPrefix' = b
  BY <1>1 DEF CheckPrefix, CheckedPrefix, Configured
<1>4. Plain' = Seq(S) /\ PlainMessages' = Seq(MessagesOf(S))
  BY <1>3 DEF Plain, PlainMessages, PrefixTokens
<1>5. SettingsArePlain'
  <2>1. MaxTurns \in Nat
    BY ConversationConstants
  <2>2. SessionPrefixes' \subseteq ScreenPrefixes \cup {<<>>}
    BY <1>2, <1>3 DEF SessionPrefixes
  <2>3. meta'.prompt \in {<<>>} \cup {q.prompt : q \in StartPayloads}
    BY <1>1 DEF Configured
  <2> QED BY <1>1, <2>1, <2>2, <2>3 DEF SettingsArePlain
<1> HIDE DEF a, b
<1>6. p.history # Null => p.history \in Seq(ItemsOf(S))
  BY <1>2, ImportHasNoneOf
<1>7. S \subseteq Nat
  OBVIOUS
<1> HIDE DEF S
<1>8. p.history # Null => ParseForChat(p.history) \in Seq(MessagesOf(S)) /\ ParseForTool(p.history) \in Seq(Seq(S) \ {<<>>})
  BY <1>6, ParsedImports
<1>9. said' \in PlainMessages'
  BY <1>1, <1>4, <1>8, EmptySeq
<1>10. ToolIsPlain'
  <2> SUFFICES ASSUME tool' # Null PROVE \A n \in 1 .. Len(tool') : tool'[n].text \in Seq(S)
    BY <1>4 DEF ToolIsPlain
  <2>1. DeployTool /\ tool' = ImportedTool(p)
    BY <1>1
  <2>2. CASE p.history = Null
    <3>1. tool' = <<>> /\ Len(<<>>) = 0
      BY <1>1, <2>1, <2>2 DEF ImportedTool, ToolStore
    <3> QED BY <3>1
  <2>3. CASE p.history # Null
    <3> DEFINE texts == ParseForTool(p.history)
               s == [n \in DOMAIN texts |-> Entry(-n, texts[n])]
    <3>1. tool' = TrimmedTool(s)
      BY <2>1, <2>3 DEF ImportedTool
    <3>2. texts \in Seq(Seq(S) \ {<<>>})
      BY <1>8, <2>3
    <3> HIDE DEF texts
    <3>3. s \in Seq(Entries) /\ Len(s) = Len(texts) /\ \A n \in 1 .. Len(texts) : s[n].text \in Seq(S)
      BY <1>7, <3>2, NumberedEntries
    <3> HIDE DEF s
    <3> QED BY <3>1, <3>3, TrimmedTexts
  <2> QED BY <2>2, <2>3
<1> QED BY <1>1, <1>5, <1>9, <1>10 DEF PlainInv, TurnsArePlain

\* A cancel before any start.
LEMMA CancelFirstPlain == ASSUME PlainInv, CancelFirst PROVE PlainInv'
<1>1. /\ deploy' = deploy /\ meta' = meta /\ phase' = "started" /\ turns' = turns /\ said' = said /\ tool' = tool
  BY DEF CancelFirst
<1>2. Plain' = Plain /\ PlainMessages' = PlainMessages /\ PlainTurns' = PlainTurns /\ SessionPrefixes' = SessionPrefixes
  BY <1>1, SamePrefixes
<1> QED BY <1>1, <1>2 DEF PlainInv, SettingsArePlain, ToolIsPlain, TurnsArePlain

\* The tool store as the code reads it.
LEMMA ReadToolPlain ==
  ASSUME ToolIsPlain, ToolStore # Null
  PROVE  \A n \in 1 .. Len(ToolStore) : ToolStore[n].text \in Plain
<1>1. Len(<<>>) = 0
  OBVIOUS
<1> QED BY <1>1 DEF ToolIsPlain, ToolStore

\* A message.
LEMMA PlanMessagePlain ==
  ASSUME PrefixesAreRecognisable, IInv, PlainInv, NEW u \in Utterances, NEW sampling \in Samplings,
         PlanMessage(u[1] \o Words(Len(turns) + 1, u[2]), sampling)
  PROVE  PlainInv'
<1> DEFINE text == u[1] \o Words(Len(turns) + 1, u[2])
           r == PlannedTurn(text, sampling)
           cs == [i \in DOMAIN turns |-> [turns[i] EXCEPT !.cancelled = TRUE]]
<1>0. /\ SettingsArePlain /\ said \in PlainMessages /\ ToolIsPlain /\ TurnsArePlain
      /\ phase = "started" /\ phase' = phase /\ Len(turns) < MaxTurns /\ turns' = Append(cs, r)
      /\ tool' = ToolStore /\ deploy' = deploy /\ said' = said
  BY DEF PlainInv, PlanMessage
<1>1. /\ CheckPrefix \in Texts /\ CheckedPrefix \in Texts
      /\ SessionPrefixes \subseteq ScreenPrefixes \cup {<<>>} /\ turns \in Seq(Turns)
      /\ meta \in Metas /\ Len(turns) \in Nat
  <2>1. meta \in Metas
    BY DEF IInv, SettingsAre
  <2>2. turns \in Seq(Turns)
    BY <1>0, PrefixSettings
  <2> QED BY <1>0, <2>1, <2>2, PrefixSettings
<1>2. meta'.check = meta.check /\ meta'.checked = meta.checked /\ meta'.prompt = meta.prompt
  BY <1>1 DEF PlanMessage, Metas
<1>3. Plain' = Plain /\ PlainMessages' = PlainMessages /\ PlainTurns' = PlainTurns /\ SessionPrefixes' = SessionPrefixes
  BY <1>0, <1>2, SamePrefixes
<1>4. StripScreenPrefix(text) \in Plain /\ <<>> \in Plain /\ StripScreenPrefix(text) \in Texts /\ text \in Texts
  <2>1. Len(turns) + 1 \in 1 .. MaxTurns
    BY <1>0, <1>1, ConversationConstants
  <2> DEFINE i == Len(turns) + 1
  <2> HIDE DEF i
  <2>2. StripScreenPrefix(u[1] \o Words(i, u[2])) \in Plain
    BY <1>1, <2>1, UtteranceIsStripped DEF i
  <2>3. <<>> \in Plain
    BY EmptySeq DEF Plain
  <2>4. text \in Texts
    <3>1. u[1] \in Texts /\ u[2] \in Nat /\ i \in Nat
      BY <2>1, ConversationConstants DEF i
    <3>2. Words(i, u[2]) \in Texts
      BY <3>1, WordsAreTexts
    <3> QED BY <3>1, <3>2, ConcatProperties DEF Texts, i
  <2> QED BY <2>2, <2>3, <2>4, PlainAreTexts DEF i
<1> HIDE DEF text
<1>5. r \in PlainTurns
  <2>1. r.user = UserUtterances(text).chat /\ r.toolUser = UserUtterances(text).tool /\ r.at = "planned"
    BY DEF PlannedTurn
  <2>2. r.toolUser \in Plain
    BY <1>4, <2>1 DEF UserUtterances
  <2>3. DeployChat => r.user \in Plain
    BY <1>4, <2>1 DEF UserUtterances
  <2>4. StripScreenPrefix(r.user) \in Plain
    <3>1. CASE DeployChat
      BY <1>1, <2>3, <3>1, PlainIsNotStripped
    <3>2. CASE ~DeployChat
      <4>1. r.user = text
        BY <2>1, <3>2 DEF UserUtterances
      <4> QED BY <1>4, <4>1
    <3> QED BY <3>1, <3>2
  <2>5. r \in Turns
    <3>1. sampling \in AnySampling /\ Null \in AnySampling
      BY DEF AnySampling
    <3>2. r.user \in Texts /\ r.toolUser \in Texts
      BY <1>4, <2>1, <2>2, PlainAreTexts DEF UserUtterances
    <3>3. ChatMessages \in History /\ followup \in BOOLEAN /\ <<>> \in Seq(Items)
      BY ReadStores, EmptySeq DEF IInv, SettingsAre
    <3> QED BY <2>1, <3>1, <3>2, <3>3 DEF PlannedTurn, Turns
  <2> HIDE DEF r
  <2> QED BY <2>1, <2>2, <2>3, <2>4, <2>5 DEF PlainTurns
<1>6. /\ cs \in Seq(Turns) /\ Len(cs) = Len(turns)
      /\ \A i \in 1 .. Len(turns) : cs[i] \in PlainTurns
  <2>1. DOMAIN turns = 1 .. Len(turns) /\ \A i \in 1 .. Len(turns) : turns[i] \in Turns /\ turns[i] \in PlainTurns
    BY <1>0, <1>1 DEF TurnsArePlain
  <2>2. ASSUME NEW i \in 1 .. Len(turns) PROVE cs[i] \in Turns /\ cs[i] \in PlainTurns
    <3> DEFINE t == turns[i]
    <3>1. cs[i] = [t EXCEPT !.cancelled = TRUE] /\ t \in Turns /\ t \in PlainTurns
      BY <2>1
    <3> HIDE DEF t, cs
    <3>2. cs[i] \in Turns /\ cs[i].at = t.at /\ cs[i].user = t.user /\ cs[i].toolUser = t.toolUser
      BY <3>1 DEF Turns
    <3> QED BY <3>1, <3>2 DEF PlainTurns
  <2>3. cs = [i \in 1 .. Len(turns) |-> cs[i]]
    BY <2>1
  <2> HIDE DEF cs
  <2> QED BY <1>1, <2>2, <2>3
<1> HIDE DEF cs, r
<1>7. Len(turns') = Len(turns) + 1 /\ \A i \in 1 .. Len(turns) + 1 : turns'[i] \in PlainTurns
  <2>1. r \in Turns
    BY <1>5 DEF PlainTurns
  <2>2. /\ Len(turns') = Len(turns) + 1 /\ turns'[Len(turns) + 1] = r
        /\ \A i \in 1 .. Len(turns) : turns'[i] = cs[i]
    BY <1>0, <1>6, <2>1, AppendProperties
  <2>3. \A i \in 1 .. Len(turns) + 1 : i \in 1 .. Len(turns) \/ i = Len(turns) + 1
    BY <1>1
  <2> QED BY <1>5, <1>6, <2>2, <2>3
<1>8. SettingsArePlain'
  <2>1. Len(turns') <= MaxTurns
    BY <1>0, <1>1, <1>7, ConversationConstants
  <2> QED BY <1>0, <1>2, <1>3, <2>1 DEF SettingsArePlain
<1>9. ToolIsPlain'
  BY <1>0, <1>3, ReadToolPlain DEF ToolIsPlain
<1>10. TurnsArePlain'
  BY <1>3, <1>7 DEF TurnsArePlain
<1> QED BY <1>0, <1>3, <1>8, <1>9, <1>10 DEF PlainInv

\* A step of a turn: the settings stay as they are.
LEMMA TurnStepPlain ==
  ASSUME PlainInv, turns \in Seq(Turns), deploy' = deploy, phase' = phase, meta' = meta,
         NEW i \in 1 .. Len(turns), Len(turns') = Len(turns),
         \A j \in 1 .. Len(turns') : turns'[j] \in PlainTurns, said' \in PlainMessages,
         tool' # Null => \A n \in 1 .. Len(tool') : tool'[n].text \in Plain
  PROVE  PlainInv'
<1>1. Plain' = Plain /\ PlainMessages' = PlainMessages /\ PlainTurns' = PlainTurns /\ SessionPrefixes' = SessionPrefixes
  BY SamePrefixes
<1>2. phase # "fresh"
  <2>1. turns # <<>>
    BY EmptySeq
  <2> QED BY <2>1 DEF PlainInv, SettingsArePlain
<1>3. SettingsArePlain'
  BY <1>1, <1>2 DEF PlainInv, SettingsArePlain
<1> QED BY <1>1, <1>3 DEF PlainInv, ToolIsPlain, TurnsArePlain

\* A turn begins with the tool model.
LEMMA BeginWithToolPlain ==
  ASSUME IInv, PlainInv, NEW i \in DOMAIN turns, BeginWithTool(i) PROVE PlainInv'
<1> DEFINE text == StripScreenPrefix(IF turns[i].toolUser = <<>> THEN turns[i].user ELSE turns[i].toolUser)
           fit == FitTool(ToolTexts, text, Max({1, ToolInputBudget}))
<1>0. /\ SettingsArePlain /\ said \in PlainMessages /\ ToolIsPlain /\ TurnsArePlain
      /\ deploy' = deploy /\ phase' = phase /\ meta' = meta /\ said' = said /\ DeployTool
      /\ turns[i].at = "planned"
  BY DEF PlainInv, BeginWithTool, settings, Starts
<1>1. /\ turns \in Seq(Turns) /\ i \in 1 .. Len(turns)
      /\ CheckPrefix \in Texts /\ CheckedPrefix \in Texts
  <2>1. turns \in Seq(Turns)
    BY <1>0, PrefixSettings
  <2> QED BY <1>0, <2>1, PrefixSettings
<1>2. text \in Plain
  <2>1. turns[i].toolUser \in Plain /\ StripScreenPrefix(turns[i].user) \in Plain
    BY <1>0, <1>1 DEF TurnsArePlain, PlainTurns
  <2> QED BY <1>1, <2>1, PlainIsNotStripped
<1> HIDE DEF text
<1>3. ToolStore \in Seq(Entries) /\ ToolStore # Null
  <2>1. ToolStore \in Seq(Entries)
    BY <1>0, ReadStores DEF IInv, StoreIs
  <2>2. <<>> # Null
    BY NullIsNoStore, EmptySeq DEF History
  <2> QED BY <1>0, <2>1, <2>2 DEF ToolStore
<1>4. CASE fit = Null
  <2>1. Leave(i) /\ tool' = ToolStore
    BY <1>4 DEF BeginWithTool, text
  <2>2. Len(turns') = Len(turns) /\ \A j \in 1 .. Len(turns') : turns'[j] \in PlainTurns
    BY <1>0, <1>1, <2>1, LeavePlain
  <2>3. tool' # Null => \A n \in 1 .. Len(tool') : tool'[n].text \in Plain
    BY <1>0, <2>1, ReadToolPlain
  <2> QED BY <1>0, <1>1, <2>2, <2>3, TurnStepPlain
<1>5. CASE fit # Null
  <2>1. Goto(i, "classifying") /\ RememberToolTurn(i, fit.user)
    BY <1>5 DEF BeginWithTool, text
  <2>2. Len(turns') = Len(turns) /\ \A j \in 1 .. Len(turns') : turns'[j] \in PlainTurns
    BY <1>0, <1>1, <2>1, GotoPlain
  <2>3. fit.user \in Texts /\ fit.user \in Plain
    <3>1. fit.user \in Texts /\ NoNewTokens(fit.user, text)
      BY <1>2, <1>5, PlainAreTexts, FitToolIsText
    <3> QED BY <1>2, <3>1 DEF NoNewTokens, Plain
  <2> DEFINE v == fit.user
             s == ToolStore
             known == {n \in DOMAIN s : s[n].id = i}
  <2>4. tool' = IF v = <<>> THEN s
                ELSE IF known # {} THEN TrimmedTool([s EXCEPT ![Min(known)].text = v])
                ELSE TrimmedTool(Append(s, Entry(i, v)))
    BY <2>1 DEF RememberToolTurn
  <2>5. v \in Texts /\ v \in Plain
    BY <2>3
  <2>6. s \in Seq(Entries) /\ \A n \in 1 .. Len(s) : s[n].text \in Plain
    BY <1>0, <1>3, ReadToolPlain
  <2> HIDE DEF fit, v, s
  <2>7. Len(s) \in Nat /\ DOMAIN s = 1 .. Len(s) /\ \A n \in 1 .. Len(s) : s[n] \in Entries
    BY <2>6
  <2>8. CASE v = <<>>
    <3>1. tool' = s
      BY <2>4, <2>8
    <3> QED BY <1>0, <1>1, <2>2, <2>6, <3>1, TurnStepPlain
  <2>9. ASSUME NEW u \in Seq(Entries), \A n \in 1 .. Len(u) : u[n].text \in Plain, tool' = TrimmedTool(u)
        PROVE  PlainInv'
    <3>1. \A n \in 1 .. Len(tool') : tool'[n].text \in Plain
      BY <2>9, TrimmedTexts DEF Plain
    <3> QED BY <1>0, <1>1, <2>2, <3>1, TurnStepPlain
  <2>10. CASE v # <<>> /\ known # {}
    <3>1. Min(known) \in known
      <4>1. known \in SUBSET Nat
        BY <2>7
      <4> HIDE DEF known
      <4> QED BY <2>10, <4>1, LeastOf
    <3> DEFINE k == Min(known)
    <3>2. k \in 1 .. Len(s)
      BY <2>7, <3>1
    <3> DEFINE e == [s[k] EXCEPT !.text = v]
               u == [s EXCEPT ![k] = e]
    <3>3. tool' = TrimmedTool(u)
      BY <2>4, <2>10
    <3> HIDE DEF k
    <3>4. e \in Entries /\ e.text = v
      BY <2>5, <2>7, <2>10, <3>2 DEF Entries
    <3> HIDE DEF e
    <3>5. u \in Seq(Entries) /\ Len(u) = Len(s) /\ \A n \in 1 .. Len(s) : u[n] = IF n = k THEN e ELSE s[n]
      BY <2>6, <3>2, <3>4, ExceptSeq
    <3> HIDE DEF u
    <3>6. \A n \in 1 .. Len(u) : u[n].text \in Plain
      BY <2>5, <2>6, <3>4, <3>5
    <3> QED BY <2>9, <3>3, <3>5, <3>6
  <2>11. CASE v # <<>> /\ known = {}
    <3> DEFINE e == Entry(i, v)
               u == Append(s, e)
    <3>1. tool' = TrimmedTool(u)
      BY <2>4, <2>11
    <3>2. e \in Entries /\ e.text = v
      BY <1>1, <2>5, <2>11 DEF Entry, Entries
    <3> HIDE DEF e
    <3>3. u \in Seq(Entries) /\ Len(u) = Len(s) + 1 /\ u[Len(s) + 1] = e /\ \A n \in 1 .. Len(s) : u[n] = s[n]
      BY <2>6, <3>2, AppendProperties
    <3> HIDE DEF u
    <3>4. \A n \in 1 .. Len(s) + 1 : n \in 1 .. Len(s) \/ n = Len(s) + 1
      BY <2>7
    <3>5. \A n \in 1 .. Len(u) : u[n].text \in Plain
      BY <2>5, <2>6, <3>2, <3>3, <3>4
    <3> QED BY <2>9, <3>1, <3>3, <3>5
  <2> QED BY <2>8, <2>10, <2>11
<1> QED BY <1>4, <1>5

\* A turn begins where there is no tool model.
LEMMA BeginChatOnlyPlain ==
  ASSUME PrefixesAreRecognisable, IInv, PlainInv, NEW i \in DOMAIN turns, BeginChatOnly(i) PROVE PlainInv'
<1>0. /\ SettingsArePlain /\ said \in PlainMessages /\ ToolIsPlain /\ TurnsArePlain
      /\ deploy' = deploy /\ phase' = phase /\ meta' = meta /\ tool' = tool /\ said' = said /\ DeployChat
      /\ turns[i].at = "planned" /\ Ask(i, turns[i].user)
  BY DEF PlainInv, BeginChatOnly, settings, Starts, IInv, SettingsAre, DeployTool, DeployChat
<1>1. turns \in Seq(Turns) /\ i \in 1 .. Len(turns)
  <2>1. turns \in Seq(Turns)
    BY <1>0, PrefixSettings
  <2> QED BY <2>1
<1>2. turns[i].user \in Plain
  BY <1>0, <1>1 DEF TurnsArePlain, PlainTurns
<1>3. <<>> \o turns[i].user = turns[i].user
  BY <1>2, PlainAreTexts, ConcatEmptySeq DEF Texts
<1>4. Len(turns') = Len(turns) /\ \A j \in 1 .. Len(turns') : turns'[j] \in PlainTurns
  <2>1. Ask(i, <<>> \o turns[i].user)
    BY <1>0, <1>3
  <2> QED BY <1>0, <1>1, <1>2, <2>1, AskPlain
<1> QED BY <1>0, <1>1, <1>4, TurnStepPlain DEF ToolIsPlain

\* The tool model has answered: a prefix goes in front of the text.
LEMMA DecidePlain ==
  ASSUME PrefixesAreRecognisable, IInv, PlainInv, NEW i \in DOMAIN turns, NEW isTool \in BOOLEAN,
         Decide(i, isTool)
  PROVE  PlainInv'
<1>0. /\ SettingsArePlain /\ said \in PlainMessages /\ ToolIsPlain /\ TurnsArePlain
      /\ deploy' = deploy /\ phase' = phase /\ meta' = meta /\ tool' = tool /\ said' = said
      /\ turns[i].at = "classifying"
  BY DEF PlainInv, Decide, settings
<1>1. turns \in Seq(Turns) /\ i \in 1 .. Len(turns)
  <2>1. turns \in Seq(Turns)
    BY <1>0, PrefixSettings
  <2> QED BY <2>1
<1>2. DeployChat => turns[i].user \in Plain
  BY <1>0, <1>1 DEF TurnsArePlain, PlainTurns
<1>3. \/ Leave(i)
      \/ DeployChat /\ \E a \in SessionPrefixes \cup {<<>>} : Ask(i, a \o turns[i].user)
  <2>1. DeployChat => <<>> \o turns[i].user = turns[i].user
    BY <1>2, PlainAreTexts, ConcatEmptySeq DEF Texts
  <2>2. \/ Leave(i)
        \/ DeployChat /\ Ask(i, CheckPrefix \o turns[i].user)
        \/ DeployChat /\ Ask(i, CheckedPrefix \o turns[i].user)
        \/ DeployChat /\ Ask(i, turns[i].user)
    BY DEF Decide
  <2>3. DeployChat /\ Ask(i, turns[i].user) => Ask(i, <<>> \o turns[i].user)
    BY <2>1
  <2> QED BY <2>2, <2>3 DEF SessionPrefixes
<1>4. Len(turns') = Len(turns) /\ \A j \in 1 .. Len(turns') : turns'[j] \in PlainTurns
  <2>1. CASE Leave(i)
    BY <1>0, <1>1, <2>1, LeavePlain
  <2>2. CASE DeployChat /\ \E a \in SessionPrefixes \cup {<<>>} : Ask(i, a \o turns[i].user)
    BY <1>0, <1>1, <1>2, <2>2, AskPlain
  <2> QED BY <1>3, <2>1, <2>2
<1> QED BY <1>0, <1>1, <1>4, TurnStepPlain DEF ToolIsPlain

\* A turn is remembered, without the prefix.
LEMMA CommitTurnPlain ==
  ASSUME PrefixesAreRecognisable, IInv, PlainInv, NEW i \in DOMAIN turns, NEW n \in AnswerLengths,
         CommitTurn(i, n)
  PROVE  PlainInv'
<1> DEFINE user == StripScreenPrefix(StripScreenPrefix(turns[i].user))
           answer == Words(i + 50, n)
<1>0. /\ SettingsArePlain /\ said \in PlainMessages /\ ToolIsPlain /\ TurnsArePlain
      /\ deploy' = deploy /\ phase' = phase /\ meta' = meta /\ tool' = tool
      /\ turns[i].at = "streaming" /\ Leave(i) /\ said' = AppendAll(said, Exchange(user, answer))
  BY DEF PlainInv, CommitTurn, settings
<1>1. /\ turns \in Seq(Turns) /\ i \in 1 .. Len(turns) /\ Len(turns) \in Nat
      /\ SessionPrefixes \subseteq ScreenPrefixes \cup {<<>>}
  <2>1. turns \in Seq(Turns)
    BY <1>0, PrefixSettings
  <2> QED BY <1>0, <2>1, PrefixSettings
<1>2. user \in Plain
  BY <1>0, <1>1 DEF TurnsArePlain, PlainTurns
<1>3. answer \in Plain
  <2>1. i \in 1 .. MaxTurns
    BY <1>0, <1>1, ConversationConstants DEF SettingsArePlain
  <2>2. HasNoPrefix(answer)
    BY <2>1 DEF PrefixesAreRecognisable
  <2>3. answer \in Texts
    <3>1. i + 50 \in Nat /\ n \in Nat
      BY <1>1, ConversationConstants
    <3> QED BY <3>1, WordsAreTexts
  <2> HIDE DEF answer
  <2> QED BY <1>1, <2>2, <2>3, NoPrefixIsPlain
<1> HIDE DEF user, answer
<1>4. said' \in PlainMessages
  BY <1>0, <1>2, <1>3, ExchangedTexts DEF Plain, PlainMessages
<1>5. Len(turns') = Len(turns) /\ \A j \in 1 .. Len(turns') : turns'[j] \in PlainTurns
  BY <1>0, <1>1, LeavePlain
<1> QED BY <1>0, <1>1, <1>4, <1>5, TurnStepPlain DEF ToolIsPlain

\* A turn of which nothing is remembered.
LEMMA TurnEndsPlain ==
  ASSUME IInv, PlainInv, NEW i \in DOMAIN turns, TurnEnds(i) PROVE PlainInv'
<1>0. /\ SettingsArePlain /\ said \in PlainMessages /\ ToolIsPlain /\ TurnsArePlain
      /\ deploy' = deploy /\ phase' = phase /\ meta' = meta /\ tool' = tool /\ said' = said /\ Leave(i)
  BY DEF PlainInv, TurnEnds, settings
<1>1. turns \in Seq(Turns) /\ i \in 1 .. Len(turns)
  <2>1. turns \in Seq(Turns)
    BY <1>0, PrefixSettings
  <2> QED BY <2>1
<1>2. Len(turns') = Len(turns) /\ \A j \in 1 .. Len(turns') : turns'[j] \in PlainTurns
  BY <1>0, <1>1, LeavePlain
<1> QED BY <1>0, <1>1, <1>2, TurnStepPlain DEF ToolIsPlain

(* No prefix is remembered, in either store: neither the client's nor the one put in front for   *)
(* the chat model, however often the text was cut on the way and however late it is committed.   *)
(* This holds of prefixes the code can recognise; it does not check that they are.                *)
THEOREM PrefixesStayOut == PrefixesAreRecognisable => (Spec => []NoPrefixRemembered)
<1> SUFFICES ASSUME PrefixesAreRecognisable PROVE Spec => []NoPrefixRemembered
  OBVIOUS
<1>1. Init => PlainInv
  BY InitPlain
<1>2. IInv /\ PlainInv /\ [Next]_vars => PlainInv'
  <2> SUFFICES ASSUME IInv, PlainInv, [Next]_vars PROVE PlainInv'
    OBVIOUS
  <2>1. CASE UNCHANGED vars
    <3>1. /\ deploy' = deploy /\ meta' = meta /\ phase' = phase /\ turns' = turns /\ said' = said /\ tool' = tool
      BY <2>1 DEF vars
    <3>2. /\ Plain' = Plain /\ PlainMessages' = PlainMessages /\ PlainTurns' = PlainTurns
          /\ SessionPrefixes' = SessionPrefixes
      BY <3>1, SamePrefixes
    <3> QED BY <3>1, <3>2 DEF PlainInv, SettingsArePlain, ToolIsPlain, TurnsArePlain
  <2>2. ASSUME NEW p \in StartPayloads, StartRefused(p) \/ StartAccepted(p) PROVE PlainInv'
    BY <2>2, StartRefusedPlain, StartAcceptedPlain
  <2>3. CASE CancelFirst
    BY <2>3, CancelFirstPlain
  <2>4. ASSUME NEW u \in Utterances, NEW sampling \in Samplings,
               PlanMessage(u[1] \o Words(Len(turns) + 1, u[2]), sampling)
        PROVE  PlainInv'
    BY <2>4, PlanMessagePlain
  <2>5. ASSUME NEW i \in DOMAIN turns, TurnStep(i) PROVE PlainInv'
    BY <2>5, BeginWithToolPlain, BeginChatOnlyPlain, DecidePlain, CommitTurnPlain, TurnEndsPlain
       DEF TurnStep
  <2> QED BY <2>1, <2>2, <2>3, <2>4, <2>5 DEF Next, Start, NextMessage
<1>3. IInv /\ PlainInv => NoPrefixRemembered
  <2> SUFFICES ASSUME IInv, PlainInv PROVE NoPrefixRemembered
    OBVIOUS
  <2> DEFINE S == Nat \ PrefixTokens
  <2>1. ASSUME chat # Null, NEW n \in DOMAIN chat PROVE ToSet(chat[n].text) \cap PrefixTokens = {}
    <3>1. chat = ChatMessages /\ ChatIs(ChatMessages, said)
      BY <2>1 DEF IInv, ChatIsSound, ChatMessages, ChatStore
    <3>2. PICK p \in History : chat \in History /\ said = p \o chat
      BY <3>1 DEF ChatIs
    <3>3. n \in 1 .. Len(chat) /\ chat[n] \in Messages /\ chat \in Seq(Messages) /\ p \in Seq(Messages)
      BY <2>1, <3>2 DEF History
    <3>4. Len(p) + n \in 1 .. Len(said) /\ said[Len(p) + n] = chat[n]
      <4>1. Len(p) \in Nat /\ Len(chat) \in Nat
        BY <3>3
      <4>2. /\ Len(said) = Len(p) + Len(chat)
            /\ \A j \in 1 .. Len(p) + Len(chat) : said[j] = IF j <= Len(p) THEN p[j] ELSE chat[j - Len(p)]
        BY <3>2, <3>3, ConcatProperties
      <4>3. Len(p) + n \in 1 .. Len(p) + Len(chat) /\ ~(Len(p) + n <= Len(p)) /\ (Len(p) + n) - Len(p) = n
        BY <3>3, <4>1
      <4> QED BY <4>2, <4>3
    <3>5. said[Len(p) + n] \in MessagesOf(S)
      <4> DEFINE M == MessagesOf(S)
      <4>1. said \in Seq(M)
        BY DEF PlainInv, PlainMessages
      <4> HIDE DEF M
      <4> QED BY <3>4, <4>1 DEF M
    <3>6. chat[n].text \in Plain
      BY <3>4, <3>5 DEF MessagesOf, Plain
    <3> QED BY <3>6, PlainAreTexts, PlainTexts
  <2>2. ASSUME tool # Null, NEW n \in DOMAIN tool PROVE ToSet(tool[n].text) \cap PrefixTokens = {}
    <3>1. tool \in Seq(Entries)
      BY <2>2 DEF IInv, ToolIsSound, StoreIs
    <3>2. n \in 1 .. Len(tool)
      BY <2>2, <3>1
    <3>3. tool[n].text \in Plain
      BY <2>2, <3>2 DEF PlainInv, ToolIsPlain
    <3> QED BY <3>3, PlainAreTexts, PlainTexts
  <2> QED BY <2>1, <2>2 DEF NoPrefixRemembered
<1>4. Spec => []PlainInv
  BY <1>1, <1>2, ConversationIsSound, PTL DEF Spec
<1> QED BY <1>3, <1>4, ConversationIsSound, PTL

===============================================================================
