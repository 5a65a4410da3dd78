--------------------------- MODULE RateLimitProofs ---------------------------
(* Proofs about RateLimit, for every limit, window and clock. *)
EXTENDS RateLimit, SequenceTheorems, WellFoundedInduction, TLAPS

(* The deque holds the end of the log, in order; what has left it is a       *)
(* window old; it never holds more than Limit events. A limiter that is      *)
(* disabled refuses nothing.                                                 *)
Dropped == Len(log) - Len(events)

DequeInv ==
  /\ Len(events) <= Len(log)
  /\ \A k \in 1..Len(events) : events[k] = log[Dropped + k]
  /\ \A k \in 1..Dropped : log[k] + Window <= now
  /\ Len(events) <= Limit

Ordered ==
  /\ \A j, k \in DOMAIN log : j <= k => log[j] <= log[k]
  /\ \A k \in DOMAIN log : log[k] <= now

IInv ==
  /\ RateTypeOK /\ Ordered
  /\ Enabled => DequeInv /\ WindowNeverExceeded /\ RefusalIsExact
  /\ ~Enabled => refusal = 0

(* The count of pops exists, and pruning splits the deque at it. *)
LEMMA FreshSplits ==
  ASSUME RateLimitConstants, NEW s \in Seq(Nat), NEW t \in Nat
  PROVE  LET n == Fresh(s, t, Window)
         IN /\ n \in 0..Len(s)
            /\ \A k \in 1..n : s[k] <= t - Window
            /\ n = Len(s) \/ s[n + 1] > t - Window
<1> USE DEF RateLimitConstants
<1> DEFINE Old(n) == \A k \in 1..n : s[k] <= t - Window
           First(n) == n = Len(s) \/ s[n + 1] > t - Window
<1>1. \E n \in 0..Len(s) : Old(n) /\ First(n)
  <2>1. CASE Old(Len(s))
    BY <2>1
  <2>2. CASE ~Old(Len(s))
    <3> DEFINE Young == {k \in 1..Len(s) : ~(s[k] <= t - Window)}
    <3>1. Young # {} /\ Young \subseteq Nat
      BY <2>2
    <3>2. PICK m \in Young : \A k \in Young : ~(<<k, m>> \in OpToRel(<, Nat))
      BY <3>1, NatLessThanWellFounded, WFMin
    <3>4. ASSUME NEW k \in Young PROVE m <= k
      <4>1. <<k, m>> \in Nat \X Nat
        BY <3>1
      <4>2. k < m => <<k, m>> \in OpToRel(<, Nat)
        BY <4>1 DEF OpToRel
      <4>3. ~(k < m)
        BY <3>2, <4>2, Zenon
      <4> QED BY <3>1, <4>3
    <3>3. m - 1 \in 0..Len(s) /\ Old(m - 1) /\ First(m - 1)
      BY <3>4
    <3> QED BY <3>3
  <2> QED BY <2>1, <2>2
<1> QED BY <1>1 DEF Fresh

(* What pruning keeps: the events younger than a window, at the end of the   *)
(* deque and so of the log.                                                  *)
LEMMA PrunedDeque ==
  ASSUME RateLimitConstants, RateTypeOK, Enabled, DequeInv, Ordered
  PROVE  LET gone == Len(log) - Len(Recent)
         IN /\ Recent \in Seq(Nat)
            /\ Len(Recent) <= Len(events)
            /\ \A k \in 1..Len(Recent) : Recent[k] = log[gone + k]
            /\ \A k \in 1..gone : log[k] + Window <= now
            /\ Len(Recent) > 0 => Recent[1] + Window > now
<1> USE DEF RateLimitConstants, RateTypeOK, Enabled
<1> DEFINE n == Fresh(events, now, Window)
<1>1. /\ n \in 0..Len(events)
      /\ \A k \in 1..n : events[k] <= now - Window
      /\ n = Len(events) \/ events[n + 1] > now - Window
  BY FreshSplits
<1> HIDE DEF n
<1>2. Recent = SubSeq(events, n + 1, Len(events))
  BY DEF Recent, Pruned, n
<1>3. /\ Recent \in Seq(Nat)
      /\ Len(Recent) = Len(events) - n
      /\ \A k \in 1..Len(Recent) : Recent[k] = events[n + k]
  <2>1. /\ \A k \in n + 1..Len(events) : events[k] \in Nat
        /\ n + 1 \in Int /\ Len(events) \in Int
    BY <1>1
  <2>2. /\ Recent \in Seq(Nat)
        /\ Len(Recent) = IF n + 1 <= Len(events) THEN Len(events) - (n + 1) + 1 ELSE 0
        /\ \A k \in 1..Len(events) - (n + 1) + 1 : Recent[k] = events[n + 1 + k - 1]
    BY <1>2, <2>1, SubSeqProperties
  <2> QED BY <1>1, <2>2
<1>4. ASSUME NEW k \in 1..Len(Recent) PROVE Recent[k] = log[Len(log) - Len(Recent) + k]
  <2>1. Recent[k] = events[n + k]
    BY <1>3
  <2>2. n + k \in 1..Len(events) /\ Dropped + (n + k) = Len(log) - Len(Recent) + k
    BY <1>1, <1>3 DEF Dropped
  <2>3. events[n + k] = log[Dropped + (n + k)]
    BY <2>2 DEF DequeInv
  <2> QED BY <2>1, <2>2, <2>3
<1>5. ASSUME NEW k \in 1..(Len(log) - Len(Recent)) PROVE log[k] + Window <= now
  <2>1. CASE k <= Dropped
    BY <1>1, <1>3, <2>1 DEF DequeInv, Dropped
  <2>2. CASE k > Dropped
    <3>1. PICK j \in 1..n : k = Dropped + j
      <4>1. Dropped \in Nat /\ k - Dropped \in 1..n /\ k = Dropped + (k - Dropped)
        BY <1>1, <1>3, <2>2 DEF DequeInv, Dropped
      <4> QED BY <4>1
    <3>2. events[j] = log[k] /\ events[j] <= now - Window /\ events[j] \in Nat
      <4>1. j \in 1..Len(events)
        BY <1>1, <3>1
      <4>2. events[j] = log[Dropped + j] /\ events[j] \in Nat
        BY <4>1 DEF DequeInv
      <4> QED BY <1>1, <3>1, <4>2
    <3> QED BY <3>2
  <2> QED BY <2>1, <2>2 DEF Dropped
<1>6. ASSUME Len(Recent) > 0 PROVE Recent[1] + Window > now
  <2>1. n + 1 \in DOMAIN events /\ Recent[1] = events[n + 1] /\ n # Len(events)
    <3>1. Len(events) \in Nat /\ n \in Nat /\ Len(Recent) \in Nat /\ DOMAIN events = 1..Len(events)
      BY <1>1, <1>3
    <3>2. Len(Recent) = Len(events) - n /\ \A k \in 1..Len(Recent) : Recent[k] = events[n + k]
      BY <1>3
    <3> HIDE DEF RateTypeOK, RateLimitConstants
    <3>3. 1 \in 1..Len(Recent) /\ n < Len(events) /\ n + 1 \in 1..Len(events)
      BY <1>6, <3>1, <3>2
    <3> QED BY <3>1, <3>2, <3>3
  <2>2. events[n + 1] \in Nat /\ events[n + 1] > now - Window
    BY <1>1, <2>1
  <2> QED BY <2>1, <2>2
<1> QED BY <1>1, <1>3, <1>4, <1>5, <1>6

LEMMA InitHolds == ASSUME RateLimitConstants PROVE RateInit => IInv
BY DEF RateLimitConstants, RateInit, IInv, RateTypeOK, Ordered, DequeInv, Dropped, Enabled, WindowNeverExceeded, RefusalIsExact

LEMMA AcceptHolds == ASSUME RateLimitConstants PROVE IInv /\ Accept => IInv'
<1> SUFFICES ASSUME IInv, Accept PROVE IInv'
  OBVIOUS
<1> USE DEF RateLimitConstants, IInv
<1>1. now' = now /\ log' = Append(log, now) /\ refusal' = 0 /\ Len(log') = Len(log) + 1
  BY DEF Accept, RateTypeOK
<1>2. Ordered'
  <2>1. /\ Len(log) \in Nat /\ DOMAIN log = 1..Len(log) /\ DOMAIN log' = 1..Len(log) + 1
        /\ log'[Len(log) + 1] = now /\ \A k \in 1..Len(log) : log'[k] = log[k]
    BY <1>1, AppendProperties DEF RateTypeOK
  <2>2. /\ now \in Nat /\ \A k \in 1..Len(log) : log[k] <= now /\ log[k] \in Nat
        /\ \A j, k \in 1..Len(log) : j <= k => log[j] <= log[k]
    <3>1. now \in Nat /\ \A k \in 1..Len(log) : log[k] \in Nat
      BY <2>1 DEF RateTypeOK
    <3>2. /\ \A k \in DOMAIN log : log[k] <= now
          /\ \A j, k \in DOMAIN log : j <= k => log[j] <= log[k]
      BY DEF Ordered
    <3> QED BY <2>1, <3>1, <3>2, Zenon
  <2> HIDE DEF IInv
  <2>3. \A j, k \in 1..Len(log) + 1 : j <= k => log'[j] <= log'[k]
    <3> TAKE j, k \in 1..Len(log) + 1
    <3>1. CASE k <= Len(log)
      BY <2>1, <2>2, <3>1
    <3>2. CASE k = Len(log) + 1 /\ j <= Len(log)
      BY <2>1, <2>2, <3>2
    <3>3. CASE k = Len(log) + 1 /\ j = Len(log) + 1
      BY <2>1, <2>2, <3>3
    <3> QED BY <2>1, <3>1, <3>2, <3>3
  <2>4. \A k \in 1..Len(log) + 1 : log'[k] <= now'
    <3> TAKE k \in 1..Len(log) + 1
    <3>1. CASE k <= Len(log)
      BY <1>1, <2>1, <2>2, <3>1
    <3>2. CASE k = Len(log) + 1
      BY <1>1, <2>1, <2>2, <3>2
    <3> QED BY <2>1, <3>1, <3>2
  <2> QED BY <2>1, <2>3, <2>4 DEF Ordered
<1>3. CASE ~Enabled
  BY <1>1, <1>2, <1>3 DEF Accept, RateTypeOK, Enabled
<1>4. CASE Enabled
  <2> DEFINE gone == Len(log) - Len(Recent)
  <2>1. /\ Recent \in Seq(Nat)
        /\ Len(Recent) <= Len(events)
        /\ \A k \in 1..Len(Recent) : Recent[k] = log[gone + k]
        /\ \A k \in 1..gone : log[k] + Window <= now
    BY <1>4, PrunedDeque
  <2>2. events' = Append(Recent, now) /\ Len(Recent) < Limit
    BY <1>4 DEF Accept
  <2>3. RateTypeOK'
    BY <1>1, <2>1, <2>2 DEF RateTypeOK
  <2>4. DequeInv'
    <3>1. /\ Len(events') = Len(Recent) + 1 /\ Len(log') - Len(events') = gone
          /\ gone \in Nat /\ Len(Recent) \in Nat /\ Len(log) = gone + Len(Recent)
          /\ Len(events') <= Len(log') /\ Len(events') <= Limit
      BY <1>1, <1>4, <2>1, <2>2 DEF RateTypeOK, DequeInv
    <3>2. ASSUME NEW k \in 1..Len(events') PROVE events'[k] = log'[gone + k]
      <4>1. CASE k <= Len(Recent)
        <5>1. events'[k] = Recent[k] /\ log'[gone + k] = log[gone + k]
          BY <1>1, <2>1, <2>2, <3>1, <4>1 DEF RateTypeOK
        <5> QED BY <2>1, <3>1, <4>1, <5>1
      <4>2. CASE k = Len(Recent) + 1
        <5>1. gone + k = Len(log) + 1
          BY <3>1, <4>2
        <5> QED BY <1>1, <2>1, <2>2, <4>2, <5>1 DEF RateTypeOK
      <4> QED BY <3>1, <4>1, <4>2
    <3>3. ASSUME NEW k \in 1..gone PROVE log'[k] + Window <= now'
      BY <1>1, <2>1, <3>1 DEF RateTypeOK
    <3> QED BY <3>1, <3>2, <3>3 DEF DequeInv, Dropped
  <2>5. WindowNeverExceeded'
    <3>1. Len(log) + 1 - Limit <= gone
      BY <2>1, <2>2 DEF RateTypeOK
    <3>2. ASSUME NEW k \in DOMAIN log', k + Limit \in DOMAIN log'
          PROVE  log'[k + Limit] >= log'[k] + Window
      <4>1. CASE k + Limit \in DOMAIN log
        BY <1>1, <1>4, <4>1 DEF RateTypeOK, WindowNeverExceeded
      <4>2. CASE k + Limit = Len(log) + 1
        <5>1. k \in 1..gone /\ k \in DOMAIN log
          BY <1>1, <3>1, <3>2, <4>2, <1>4 DEF RateTypeOK, Enabled
        <5>2. log'[k] = log[k] /\ log'[k + Limit] = now /\ log[k] + Window <= now
          <6>1. log[k] + Window <= now
            BY <2>1, <5>1
          <6>2. log'[k] = log[k] /\ log'[Len(log) + 1] = now
            BY <1>1, <5>1 DEF RateTypeOK
          <6> QED BY <4>2, <6>1, <6>2
        <5>3. log[k] \in Nat
          BY <5>1 DEF RateTypeOK
        <5> QED BY <5>2, <5>3 DEF RateTypeOK
      <4> QED BY <1>1, <3>2, <4>1, <4>2 DEF RateTypeOK
    <3> QED BY <3>2 DEF WindowNeverExceeded
  <2>6. RefusalIsExact'
    BY <1>1 DEF RefusalIsExact
  <2> QED BY <1>1, <1>2, <1>4, <2>3, <2>4, <2>5, <2>6 DEF Enabled
<1> QED BY <1>3, <1>4

LEMMA RefuseHolds == ASSUME RateLimitConstants PROVE IInv /\ Refuse => IInv'
<1> SUFFICES ASSUME IInv, Refuse PROVE IInv'
  OBVIOUS
<1> USE DEF RateLimitConstants, IInv
<1> DEFINE gone == Len(log) - Len(Recent)
<1>1. /\ Recent \in Seq(Nat)
      /\ Len(Recent) <= Len(events)
      /\ \A k \in 1..Len(Recent) : Recent[k] = log[gone + k]
      /\ \A k \in 1..gone : log[k] + Window <= now
      /\ Len(Recent) > 0 => Recent[1] + Window > now
  BY PrunedDeque DEF Refuse
<1>2. /\ now' = now /\ log' = log /\ events' = Recent
      /\ refusal' = Recent[1] + Window - now
      /\ Len(Recent) = Limit /\ Limit > 0
  BY <1>1 DEF Refuse, Enabled, DequeInv, RateTypeOK
<1>3. RateTypeOK' /\ Ordered'
  BY <1>1, <1>2 DEF RateTypeOK, Ordered
<1>4. DequeInv'
  <2>1. Len(Recent) <= Len(log)
    BY <1>1, <1>2 DEF DequeInv, RateTypeOK, Refuse
  <2> QED BY <1>1, <1>2, <2>1 DEF DequeInv, Dropped, RateTypeOK
<1>5. WindowNeverExceeded'
  BY <1>2 DEF WindowNeverExceeded, Refuse
<1>6. RefusalIsExact'
  <2>1. Recent[1] = log[gone + 1] /\ gone + 1 = Len(log) - Limit + 1 /\ gone >= 0
    <3>1. Len(log) \in Nat /\ Len(Recent) \in Nat /\ Limit \in Nat
      BY <1>1 DEF RateTypeOK
    <3>2. Len(Recent) <= Len(log)
      BY <1>1, <1>2 DEF DequeInv, RateTypeOK, Refuse
    <3>3. 1 \in 1..Len(Recent)
      BY <1>2, <3>1
    <3>4. Recent[1] = log[gone + 1]
      BY <1>1, <3>3
    <3> HIDE DEF IInv
    <3> QED BY <1>2, <3>1, <3>2, <3>4
  <2>2. Recent[1] \in Nat /\ gone \in Nat
    <3>1. 1 \in DOMAIN Recent
      BY <1>1, <1>2
    <3>2. Recent[1] \in Nat
      BY <1>1, <3>1
    <3>3. gone \in Int
      BY <1>1 DEF RateTypeOK
    <3> QED BY <2>1, <3>2, <3>3
  <2>3. gone > 0 => log[gone] + Window <= now
    BY <1>1, <2>2
  <2>4. now \in Nat /\ Limit \in Nat /\ Window \in Nat
    BY DEF RateTypeOK
  <2> HIDE DEF gone, IInv
  <2> QED BY <1>2, <2>1, <2>2, <2>3, <2>4 DEF RefusalIsExact
<1> QED BY <1>2, <1>3, <1>4, <1>5, <1>6 DEF Refuse, Enabled

LEMMA AdvanceHolds == ASSUME RateLimitConstants PROVE IInv /\ Advance => IInv'
<1> SUFFICES ASSUME IInv, Advance PROVE IInv'
  OBVIOUS
<1>1. now' \in Nat /\ now' > now /\ events' = events /\ log' = log /\ refusal' = 0
  BY DEF Advance
<1> USE DEF RateLimitConstants, IInv
<1>2. RateTypeOK' /\ RefusalIsExact'
  BY <1>1 DEF RateTypeOK, RefusalIsExact
<1>3. Ordered'
  BY <1>1 DEF RateTypeOK, Ordered
<1>4. Enabled => DequeInv'
  <2>1. ASSUME Enabled, NEW k \in 1..Dropped PROVE log[k] + Window <= now'
    <3>1. log[k] \in Nat /\ log[k] + Window <= now
      BY <2>1 DEF DequeInv, Dropped, RateTypeOK
    <3> QED BY <1>1, <3>1 DEF RateTypeOK
  <2> QED BY <1>1, <2>1 DEF DequeInv, Dropped
<1>5. Enabled => WindowNeverExceeded'
  BY <1>1 DEF WindowNeverExceeded
<1> QED BY <1>1, <1>2, <1>3, <1>4, <1>5 DEF Enabled

THEOREM Inductive == ASSUME RateLimitConstants PROVE RateSpec => []IInv
<1>1. IInv /\ UNCHANGED rateVars => IInv'
  BY DEF IInv, RateTypeOK, Ordered, DequeInv, Dropped, WindowNeverExceeded, RefusalIsExact, Enabled, rateVars
<1>2. IInv /\ [Consume \/ Advance]_rateVars => IInv'
  BY <1>1, AcceptHolds, RefuseHolds, AdvanceHolds DEF Consume
<1> QED BY InitHolds, <1>2, PTL DEF RateSpec

(* "the limit applies to any rolling window" (handlers/limits.py, line 19).  *)
THEOREM LimitHolds == ASSUME RateLimitConstants PROVE RateSpec => []WindowNeverExceeded
<1>1. IInv => WindowNeverExceeded
  BY DEF IInv, WindowNeverExceeded
<1> QED BY <1>1, Inductive, PTL

(* A refused client is told exactly how long to wait: retry_in of consume.   *)
THEOREM RetryHolds == ASSUME RateLimitConstants PROVE RateSpec => []RefusalIsExact
<1>1. IInv => RefusalIsExact
  BY DEF IInv, RefusalIsExact
<1> QED BY <1>1, Inductive, PTL
=============================================================================
