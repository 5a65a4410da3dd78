---------------------------- MODULE GatewayProofs ----------------------------
(* Proofs about Gateway: the bounds of its limiters hold whatever is sent;     *)
(* the throttle of failed logins counts what it should; and the engines run    *)
(* with the numbers the client wrote.                                          *)
EXTENDS Gateway, FiniteSetTheorems, SequenceTheorems, TLAPS

MessageFacts == INSTANCE RateLimitProofs WITH
  Limit <- MessageLimit, events <- messages, log <- messageLog, refusal <- messageRefusal

CancelFacts == INSTANCE RateLimitProofs WITH
  Limit <- CancelLimit, events <- cancels, log <- cancelLog, refusal <- cancelRefusal

ClockOK == now \in Nat

LEMMA ClockIsNatural == Spec => []ClockOK
<1>1. Init => ClockOK
  BY DEF Init, ClockOK
<1>2. ClockOK /\ [Next]_vars => ClockOK'
  <2> SUFFICES ASSUME ClockOK, [Next]_vars PROVE ClockOK'
    OBVIOUS
  <2> USE DEF ClockOK
  <2>1. CASE Attempt
    BY <2>1 DEF Attempt, Connect, Request, Unconnected
  <2>2. CASE Receive \/ Malformed
    BY <2>2 DEF Receive, Malformed
  <2>3. CASE Limited
    BY <2>3 DEF Limited, Messages!Refuse, Cancels!Refuse
  <2>4. CASE Dispatch
    BY <2>4 DEF Dispatch, Counted, Messages!Accept, Cancels!Accept
  <2>5. CASE Tick
    BY <2>5 DEF Tick
  <2>6. CASE UNCHANGED vars
    BY <2>6 DEF vars
  <2> QED BY <2>1, <2>2, <2>3, <2>4, <2>5, <2>6 DEF Next
<1> QED BY <1>1, <1>2, PTL DEF Spec

(* Every step of the gateway is one of each limiter, or leaves it alone.     *)
LEMMA StepsOfLimiters ==
  ASSUME ClockOK, [Next]_vars
  PROVE  /\ [Messages!Consume \/ Messages!Advance]_(Messages!rateVars)
         /\ [Cancels!Consume \/ Cancels!Advance]_(Cancels!rateVars)
<1> USE DEF ClockOK, Messages!rateVars, Cancels!rateVars, messageVars, cancelVars
<1>1. CASE Attempt
  BY <1>1 DEF Attempt, Connect, Request, Unconnected
<1>2. CASE Receive \/ Malformed
  BY <1>2 DEF Receive, Malformed
<1>3. CASE Limited
  BY <1>3 DEF Limited, Messages!Consume, Cancels!Consume, Messages!Refuse, Cancels!Refuse
<1>4. CASE Dispatch
  BY <1>4 DEF Dispatch, Counted, Messages!Consume, Cancels!Consume, Messages!Accept, Cancels!Accept
<1>5. CASE Tick
  BY <1>5 DEF Tick, Messages!Advance, Cancels!Advance
<1>6. CASE UNCHANGED vars
  BY <1>6 DEF vars
<1> QED BY <1>1, <1>2, <1>3, <1>4, <1>5, <1>6 DEF Next

\* Gateway takes the limiters' own steps, so what is proved of RateLimit is proved of them.
ImplementsLimiters == Messages!RateSpec /\ Cancels!RateSpec

LEMMA LimitersImplemented == Spec => ImplementsLimiters
<1>1. Init => Messages!RateInit /\ Cancels!RateInit
  BY DEF Init, Messages!RateInit, Cancels!RateInit
<1> QED BY <1>1, StepsOfLimiters, ClockIsNatural, PTL
        DEF Spec, ImplementsLimiters, Messages!RateSpec, Cancels!RateSpec

(* MessageFacts is Messages under another name, with the theorems of RateLimitProofs. *)
LEMMA MessagesAreFacts ==
  /\ Messages!RateSpec => MessageFacts!RateSpec
  /\ MessageFacts!WindowNeverExceeded <=> Messages!WindowNeverExceeded
  /\ MessageFacts!RefusalIsExact <=> Messages!RefusalIsExact
  /\ MessageFacts!Enabled <=> Messages!Enabled
<1> USE DEF Messages!Enabled, MessageFacts!Enabled
<1>1. Messages!RateInit => MessageFacts!RateInit
  BY DEF Messages!RateInit, MessageFacts!RateInit
<1>2. Messages!Recent = MessageFacts!Recent
  BY DEF Messages!Recent, MessageFacts!Recent, Messages!Pruned, MessageFacts!Pruned, Messages!Fresh, MessageFacts!Fresh
<1>3. [Messages!Consume \/ Messages!Advance]_(Messages!rateVars)
      => [MessageFacts!Consume \/ MessageFacts!Advance]_(MessageFacts!rateVars)
  BY <1>2 DEF Messages!Consume, MessageFacts!Consume, Messages!Advance, MessageFacts!Advance, Messages!rateVars, MessageFacts!rateVars,
              Messages!Accept, MessageFacts!Accept, Messages!Refuse, MessageFacts!Refuse
<1>4. Messages!RateSpec => MessageFacts!RateSpec
  BY <1>1, <1>3, PTL DEF Messages!RateSpec, MessageFacts!RateSpec
<1>5. /\ MessageFacts!WindowNeverExceeded <=> Messages!WindowNeverExceeded
      /\ MessageFacts!RefusalIsExact <=> Messages!RefusalIsExact
  BY DEF Messages!WindowNeverExceeded, MessageFacts!WindowNeverExceeded, Messages!RefusalIsExact, MessageFacts!RefusalIsExact
<1> QED BY <1>4, <1>5

(* CancelFacts is Cancels under another name, with the theorems of RateLimitProofs. *)
LEMMA CancelsAreFacts ==
  /\ Cancels!RateSpec => CancelFacts!RateSpec
  /\ CancelFacts!WindowNeverExceeded <=> Cancels!WindowNeverExceeded
  /\ CancelFacts!RefusalIsExact <=> Cancels!RefusalIsExact
  /\ CancelFacts!Enabled <=> Cancels!Enabled
<1> USE DEF Cancels!Enabled, CancelFacts!Enabled
<1>1. Cancels!RateInit => CancelFacts!RateInit
  BY DEF Cancels!RateInit, CancelFacts!RateInit
<1>2. Cancels!Recent = CancelFacts!Recent
  BY DEF Cancels!Recent, CancelFacts!Recent, Cancels!Pruned, CancelFacts!Pruned, Cancels!Fresh, CancelFacts!Fresh
<1>3. [Cancels!Consume \/ Cancels!Advance]_(Cancels!rateVars)
      => [CancelFacts!Consume \/ CancelFacts!Advance]_(CancelFacts!rateVars)
  BY <1>2 DEF Cancels!Consume, CancelFacts!Consume, Cancels!Advance, CancelFacts!Advance, Cancels!rateVars, CancelFacts!rateVars,
              Cancels!Accept, CancelFacts!Accept, Cancels!Refuse, CancelFacts!Refuse
<1>4. Cancels!RateSpec => CancelFacts!RateSpec
  BY <1>1, <1>3, PTL DEF Cancels!RateSpec, CancelFacts!RateSpec
<1>5. /\ CancelFacts!WindowNeverExceeded <=> Cancels!WindowNeverExceeded
      /\ CancelFacts!RefusalIsExact <=> Cancels!RefusalIsExact
  BY DEF Cancels!WindowNeverExceeded, CancelFacts!WindowNeverExceeded, Cancels!RefusalIsExact, CancelFacts!RefusalIsExact
<1> QED BY <1>4, <1>5

(* Rolling-window quotas for messages and cancels (ADVANCED.md, line 412),   *)
(* and the exact waiting time of consume, whatever the client sends and when. *)
THEOREM QuotasHold == Spec => []LimitsHold
<1>1. MessageFacts!RateLimitConstants /\ CancelFacts!RateLimitConstants
  BY GatewayConstants DEF MessageFacts!RateLimitConstants, CancelFacts!RateLimitConstants
<1>2. MessageFacts!RateSpec => [](MessageFacts!WindowNeverExceeded)
  BY <1>1, MessageFacts!LimitHolds
<1>3. MessageFacts!RateSpec => [](MessageFacts!RefusalIsExact)
  BY <1>1, MessageFacts!RetryHolds
<1>4. CancelFacts!RateSpec => [](CancelFacts!WindowNeverExceeded)
  BY <1>1, CancelFacts!LimitHolds
<1>5. CancelFacts!RateSpec => [](CancelFacts!RefusalIsExact)
  BY <1>1, CancelFacts!RetryHolds
<1>6. ASSUME MessageFacts!WindowNeverExceeded, MessageFacts!RefusalIsExact,
             CancelFacts!WindowNeverExceeded, CancelFacts!RefusalIsExact
      PROVE  LimitsHold
  BY <1>6, MessagesAreFacts, CancelsAreFacts DEF LimitsHold
<1>7. /\ Messages!RateSpec => MessageFacts!RateSpec
      /\ Cancels!RateSpec => CancelFacts!RateSpec
  BY MessagesAreFacts, CancelsAreFacts
<1> QED BY <1>2, <1>3, <1>4, <1>5, <1>6, <1>7, LimitersImplemented, PTL DEF ImplementsLimiters

-----------------------------------------------------------------------------
(* What a refused cancel tells *)

\* What the limiter of cancels keeps true.
CancelsOK == CancelFacts!IInv

LEMMA CancelsStayOK == Spec => []CancelsOK
<1>1. CancelFacts!RateLimitConstants
  BY GatewayConstants DEF CancelFacts!RateLimitConstants
<1>2. CancelFacts!RateSpec => [](CancelFacts!IInv)
  BY <1>1, CancelFacts!Inductive
<1>3. Cancels!RateSpec => CancelFacts!RateSpec
  BY CancelsAreFacts
<1> QED BY <1>2, <1>3, LimitersImplemented, PTL DEF ImplementsLimiters, CancelsOK

\* The last CancelLimit cancels that went through are younger than a window when one is refused.
LEMMA RefusedCancel ==
  ASSUME CancelsOK, Cancels!Refuse
  PROVE  /\ Len(cancelLog) >= CancelLimit
         /\ cancelLog[Len(cancelLog) - CancelLimit + 1] + Window > now
<1> DEFINE recent == CancelFacts!Recent
           gone == Len(cancelLog) - Len(recent)
<1>1. CancelFacts!RateLimitConstants /\ CancelFacts!RateTypeOK /\ CancelFacts!Ordered
  BY GatewayConstants DEF CancelFacts!RateLimitConstants, CancelsOK, CancelFacts!IInv
<1>2. Cancels!Recent = recent /\ (Cancels!Enabled <=> CancelFacts!Enabled)
  BY CancelsAreFacts
     DEF Cancels!Recent, CancelFacts!Recent, Cancels!Pruned, CancelFacts!Pruned, Cancels!Fresh,
         CancelFacts!Fresh
<1>3. CancelFacts!Enabled /\ Len(recent) >= CancelLimit
  BY <1>2 DEF Cancels!Refuse
<1>4. CancelFacts!DequeInv
  BY <1>3 DEF CancelsOK, CancelFacts!IInv
<1>5. /\ recent \in Seq(Nat) /\ Len(recent) <= Len(cancels)
      /\ \A k \in 1..Len(recent) : recent[k] = cancelLog[gone + k]
      /\ Len(recent) > 0 => recent[1] + Window > now
  BY <1>1, <1>3, <1>4, CancelFacts!PrunedDeque
<1> HIDE DEF recent
<1>6. /\ Len(recent) = CancelLimit /\ CancelLimit > 0 /\ Len(cancels) <= Len(cancelLog)
      /\ Len(cancelLog) \in Nat /\ Len(cancels) \in Nat /\ Len(recent) \in Nat
  <2>1. Len(cancelLog) \in Nat /\ Len(cancels) \in Nat /\ Len(recent) \in Nat
    BY <1>1, <1>5 DEF CancelFacts!RateTypeOK
  <2>2. Len(cancels) <= Len(cancelLog) /\ Len(cancels) <= CancelLimit
    BY <1>4 DEF CancelFacts!DequeInv
  <2>3. CancelLimit > 0 /\ CancelLimit \in Nat
    BY <1>3, GatewayConstants DEF CancelFacts!Enabled
  <2>4. Len(recent) >= CancelLimit /\ Len(recent) <= Len(cancels)
    BY <1>3, <1>5
  <2> QED BY <2>1, <2>2, <2>3, <2>4
<1>7. 1 \in 1..Len(recent) /\ gone + 1 = Len(cancelLog) - CancelLimit + 1
  BY <1>6, GatewayConstants
<1>8. recent[1] = cancelLog[gone + 1] /\ recent[1] + Window > now
  BY <1>5, <1>6, <1>7
<1> QED BY <1>5, <1>6, <1>7, <1>8, GatewayConstants

(* "Separate bucket to prevent cancel bursts starving messages" (limits.py,  *)
(* line 7), and the other way round: only cancels of the last window make    *)
(* the loop refuse a cancel, whatever else the connection sends.             *)
THEOREM CancelsHaveTheirOwnQuota == Spec => CancelsAreNotStarved
<1>1. ASSUME CancelsOK, [Next]_vars,
             reply' = "rate_limited", reply # "rate_limited", inbox.type = "cancel"
      PROVE  /\ Len(cancelLog) >= CancelLimit
             /\ cancelLog[Len(cancelLog) - CancelLimit + 1] + Window > now
  <2>1. CASE Limited
    <3>1. Parse(inbox).ok /\ Parse(inbox).type = "cancel"
      BY <1>1, <2>1 DEF Limited, Parse, Refused, Normalized
    <3>2. SelectLimiter(Parse(inbox).type) = "cancels"
      BY <3>1 DEF SelectLimiter
    <3>3. Cancels!Refuse
      BY <2>1, <3>2 DEF Limited
    <3> QED BY <1>1, <3>3, RefusedCancel
  <2>2. CASE Malformed
    <3>1. Parse(inbox).code = "invalid_message"
      BY <2>2 DEF Malformed, Parse, Refused
    <3> QED BY <1>1, <2>2, <3>1 DEF Malformed
  <2>3. CASE Dispatch
    <3>1. Parse(inbox).ok /\ Parse(inbox).type = "cancel"
      BY <1>1, <2>3 DEF Dispatch, Parse, Refused, Normalized
    <3>2. Handle("cancel", Parse(inbox).fields)
      BY <2>3, <3>1 DEF Dispatch
    <3>3. reply' = None
      BY <3>2 DEF Handle
    <3> QED BY <1>1, <3>3, GatewayConstants
  <2>4. CASE Receive
    BY <1>1, <2>4, GatewayConstants DEF Receive
  <2>5. CASE Attempt \/ Tick \/ UNCHANGED vars
    <3>1. reply' = reply
      BY <2>5 DEF Attempt, Connect, Request, Unconnected, Tick, frameVars, vars
    <3> QED BY <1>1, <3>1
  <2> QED BY <1>1, <2>1, <2>2, <2>3, <2>4, <2>5 DEF Next
<1> QED BY <1>1, CancelsStayOK, PTL DEF Spec, CancelsAreNotStarved

-----------------------------------------------------------------------------
(* The throttle of failed logins *)

\* At time t the deque s is the end of the history full, what it has dropped is a window
\* old, and full is in order.
IsDeque(s, full, t) ==
  LET gone == Len(full) - Len(s)
  IN /\ gone \in Nat
     /\ \A k \in 1..Len(s) : s[k] = full[gone + k]
     /\ \A k \in 1..gone : full[k] + Window <= t
     /\ \A j, k \in DOMAIN full : j <= k => full[j] <= full[k]
     /\ \A k \in DOMAIN full : full[k] <= t

ThrottleInv ==
  /\ failures \in [Hosts -> Seq(Nat)] /\ failed \in [Hosts -> Seq(Nat)]
  /\ \A h \in Hosts : IsDeque(failures[h], failed[h], now)

\* What pruning leaves in a deque is all that is younger than a window, and no more.
LEMMA PrunedFailures ==
  ASSUME NEW s \in Seq(Nat), NEW full \in Seq(Nat), NEW t \in Nat, IsDeque(s, full, t)
  PROVE  LET p == Messages!Pruned(s, t, Window)
         IN /\ p \in Seq(Nat) /\ IsDeque(p, full, t)
            /\ {n \in DOMAIN full : full[n] + Window > t} = (Len(full) - Len(p) + 1)..Len(full)
<1> DEFINE n == Messages!Fresh(s, t, Window)
           p == Messages!Pruned(s, t, Window)
           gone == Len(full) - Len(s)
<1>1. /\ n \in 0..Len(s)
      /\ \A k \in 1..n : s[k] <= t - Window
      /\ n = Len(s) \/ s[n + 1] > t - Window
  <2>1. MessageFacts!RateLimitConstants
    BY GatewayConstants DEF MessageFacts!RateLimitConstants
  <2>2. n = MessageFacts!Fresh(s, t, Window)
    BY DEF Messages!Fresh, MessageFacts!Fresh
  <2> HIDE DEF n
  <2> QED BY <2>1, <2>2, MessageFacts!FreshSplits
<1>2. p = SubSeq(s, n + 1, Len(s))
  BY DEF Messages!Pruned
<1> HIDE DEF n, p
<1>3. /\ p \in Seq(Nat) /\ Len(p) = Len(s) - n
      /\ \A k \in 1..Len(p) : p[k] = s[n + k]
  BY <1>1, <1>2
<1>4. /\ gone \in Nat /\ Len(full) \in Nat /\ Len(s) \in Nat /\ n \in Nat /\ Window \in Nat
      /\ Len(full) = gone + Len(s) /\ Len(full) - Len(p) = gone + n
  BY <1>1, <1>3, GatewayConstants DEF IsDeque
<1>5. /\ \A k \in 1..Len(s) : s[k] = full[gone + k]
      /\ \A k \in 1..gone : full[k] + Window <= t
      /\ \A j, k \in 1..Len(full) : j <= k => full[j] <= full[k]
      /\ \A k \in 1..Len(full) : full[k] <= t /\ full[k] \in Nat
      /\ \A k \in 1..Len(s) : s[k] \in Nat
  BY DEF IsDeque
<1>6. DOMAIN full = 1..Len(full)
  OBVIOUS
<1> HIDE DEF gone
<1>7. ASSUME NEW k \in 1..Len(p)
      PROVE  p[k] = full[gone + n + k]
  <2>1. n + k \in 1..Len(s) /\ gone + (n + k) = gone + n + k
    BY <1>1, <1>3, <1>4
  <2>2. s[n + k] = full[gone + (n + k)]
    BY <1>5, <2>1
  <2> QED BY <1>3, <2>1, <2>2
<1>8. ASSUME NEW k \in 1..(gone + n)
      PROVE  full[k] + Window <= t
  <2>1. CASE k <= gone
    BY <1>4, <1>5, <2>1
  <2>2. CASE k > gone
    <3> DEFINE i == k - gone
    <3>1. i \in 1..n /\ k = gone + i /\ i \in 1..Len(s)
      BY <1>1, <1>4, <2>2
    <3>2. s[i] = full[gone + i] /\ s[i] <= t - Window /\ s[i] \in Nat
      BY <1>1, <1>5, <3>1
    <3> HIDE DEF i
    <3>3. full[k] = s[i]
      BY <3>1, <3>2
    <3> QED BY <1>4, <3>2, <3>3
  <2> QED BY <1>4, <2>1, <2>2
<1>9. ASSUME NEW k \in (gone + n + 1)..Len(full)
      PROVE  full[k] + Window > t
  <2> DEFINE first == gone + (n + 1)
  <2>1. /\ n # Len(s) /\ n + 1 \in 1..Len(s)
        /\ first \in 1..Len(full) /\ k \in 1..Len(full) /\ first <= k
    BY <1>1, <1>4
  <2>2. s[n + 1] > t - Window /\ s[n + 1] = full[first]
    BY <1>1, <1>5, <2>1
  <2> HIDE DEF first
  <2>3. full[first] <= full[k] /\ full[first] \in Nat /\ full[k] \in Nat
    BY <1>5, <2>1
  <2>4. full[first] > t - Window
    BY <2>2
  <2>5. Window \in Nat
    BY <1>4
  <2> QED BY <2>3, <2>4, <2>5
<1>10. IsDeque(p, full, t)
  <2>1. Len(full) - Len(p) \in Nat
    BY <1>4
  <2>2. \A k \in 1..Len(p) : p[k] = full[(Len(full) - Len(p)) + k]
    BY <1>4, <1>7
  <2>3. \A k \in 1..(Len(full) - Len(p)) : full[k] + Window <= t
    BY <1>4, <1>8
  <2> QED BY <1>5, <1>6, <2>1, <2>2, <2>3 DEF IsDeque
<1>11. {k \in DOMAIN full : full[k] + Window > t} = (gone + n + 1)..Len(full)
  <2>1. ASSUME NEW k \in 1..Len(full), full[k] + Window > t
        PROVE  k \in (gone + n + 1)..Len(full)
    <3>1. full[k] \in Nat
      BY <1>5
    <3>2. ~(k \in 1..(gone + n))
      <4>1. ~(full[k] + Window <= t)
        BY <1>4, <2>1, <3>1
      <4> QED BY <1>8, <4>1
    <3> QED BY <1>4, <3>2
  <2>2. ASSUME NEW k \in (gone + n + 1)..Len(full)
        PROVE  k \in 1..Len(full) /\ full[k] + Window > t
    BY <1>4, <1>9, <2>2
  <2> QED BY <1>6, <2>1, <2>2
<1> QED BY <1>3, <1>4, <1>10, <1>11 DEF p

\* A failure joins both.
LEMMA FailureJoins ==
  ASSUME NEW s \in Seq(Nat), NEW full \in Seq(Nat), NEW t \in Nat, IsDeque(s, full, t)
  PROVE  IsDeque(Append(s, t), Append(full, t), t)
<1>1. /\ Len(Append(s, t)) = Len(s) + 1 /\ Len(Append(full, t)) = Len(full) + 1
      /\ Len(s) \in Nat /\ Len(full) \in Nat /\ Len(full) - Len(s) \in Nat
  BY DEF IsDeque
<1> DEFINE gone == Len(full) - Len(s)
<1>2. ASSUME NEW k \in 1..(Len(s) + 1)
      PROVE  Append(s, t)[k] = Append(full, t)[gone + k]
  <2>1. CASE k <= Len(s)
    BY <1>1, <2>1 DEF IsDeque
  <2>2. CASE k = Len(s) + 1
    <3>1. Append(s, t)[k] = t /\ Append(full, t)[Len(full) + 1] = t
      BY <2>2, AppendProperties
    <3>2. gone + k = Len(full) + 1
      BY <1>1, <2>2
    <3> HIDE DEF gone
    <3> QED BY <3>1, <3>2, Zenon
  <2> QED BY <1>1, <2>1, <2>2
<1>3. ASSUME NEW k \in 1..gone
      PROVE  Append(full, t)[k] + Window <= t
  BY <1>1 DEF IsDeque
<1>4. ASSUME NEW k \in 1..(Len(full) + 1)
      PROVE  Append(full, t)[k] <= t
  BY <1>1 DEF IsDeque
<1>5. ASSUME NEW j \in 1..(Len(full) + 1), NEW k \in 1..(Len(full) + 1), j <= k
      PROVE  Append(full, t)[j] <= Append(full, t)[k]
  <2>1. CASE k = Len(full) + 1
    BY <1>1, <1>4, <2>1
  <2>2. CASE k # Len(full) + 1
    BY <1>1, <1>5, <2>2 DEF IsDeque
  <2> QED BY <2>1, <2>2
<1>6. Len(Append(full, t)) - Len(Append(s, t)) = gone /\ DOMAIN Append(full, t) = 1..(Len(full) + 1)
  BY <1>1
<1> QED BY <1>1, <1>2, <1>3, <1>4, <1>5, <1>6 DEF IsDeque

\* Time makes nothing younger.
LEMMA FailuresAge ==
  ASSUME NEW s \in Seq(Nat), NEW full \in Seq(Nat), NEW t \in Nat, NEW u \in Nat, t <= u,
         IsDeque(s, full, t)
  PROVE  IsDeque(s, full, u)
<1>1. Len(full) \in Nat /\ Len(s) \in Nat /\ Window \in Nat
  BY GatewayConstants
<1>2. ASSUME NEW k \in 1..(Len(full) - Len(s)) PROVE full[k] + Window <= u
  <2>1. full[k] + Window <= t /\ full[k] \in Nat
    BY <1>1 DEF IsDeque
  <2> QED BY <1>1, <2>1
<1>3. ASSUME NEW k \in DOMAIN full PROVE full[k] <= u
  <2>1. full[k] <= t /\ full[k] \in Nat
    BY DEF IsDeque
  <2> QED BY <2>1
<1> QED BY <1>2, <1>3 DEF IsDeque

\* What an attempt makes of the failures of its host.
LEMMA AttemptKeeps ==
  ASSUME ClockOK, ThrottleInv, NEW h \in Hosts, UNCHANGED now,
         TurnAway(h) \/ RecordFailure(h) \/ ClearFailures(h)
  PROVE  ThrottleInv'
<1>1. /\ failures[h] \in Seq(Nat) /\ failed[h] \in Seq(Nat) /\ now \in Nat
      /\ IsDeque(failures[h], failed[h], now)
  BY DEF ThrottleInv, ClockOK
<1>2. Failures(h) \in Seq(Nat) /\ IsDeque(Failures(h), failed[h], now)
  BY <1>1, PrunedFailures DEF Failures
<1>3. ASSUME NEW s \in Seq(Nat), NEW full \in Seq(Nat), IsDeque(s, full, now),
             failures' = [failures EXCEPT ![h] = s], failed' = [failed EXCEPT ![h] = full]
      PROVE  ThrottleInv'
  <2>1. /\ failures' \in [Hosts -> Seq(Nat)] /\ failed' \in [Hosts -> Seq(Nat)]
        /\ failures'[h] = s /\ failed'[h] = full
        /\ \A g \in Hosts \ {h} : failures'[g] = failures[g] /\ failed'[g] = failed[g]
    BY <1>3 DEF ThrottleInv
  <2>2. \A g \in Hosts : IsDeque(failures'[g], failed'[g], now')
    BY <1>3, <2>1 DEF ThrottleInv
  <2> QED BY <2>1, <2>2 DEF ThrottleInv
<1>4. CASE TurnAway(h)
  <2>1. failed' = [failed EXCEPT ![h] = failed[h]]
    BY <1>4 DEF TurnAway, ThrottleInv
  <2> QED BY <1>1, <1>2, <1>3, <1>4, <2>1 DEF TurnAway
<1>5. CASE RecordFailure(h)
  <2>1. IsDeque(Append(Failures(h), now), Append(failed[h], now), now)
    BY <1>1, <1>2, FailureJoins
  <2>2. Append(Failures(h), now) \in Seq(Nat) /\ Append(failed[h], now) \in Seq(Nat)
    BY <1>1, <1>2
  <2>3. /\ failures' = [failures EXCEPT ![h] = Append(Failures(h), now)]
        /\ failed' = [failed EXCEPT ![h] = Append(failed[h], now)]
    BY <1>5 DEF RecordFailure
  <2> QED BY <1>3, <2>1, <2>2, <2>3
<1>6. CASE ClearFailures(h)
  <2>1. IsDeque(<<>>, <<>>, now) /\ <<>> \in Seq(Nat)
    BY DEF IsDeque
  <2> QED BY <1>3, <1>6, <2>1 DEF ClearFailures
<1> QED BY <1>4, <1>5, <1>6

\* Every step of the gateway.
LEMMA NextKeeps == ClockOK /\ ThrottleInv /\ [Next]_vars => ThrottleInv'
<1> SUFFICES ASSUME ClockOK, ThrottleInv, [Next]_vars PROVE ThrottleInv'
  OBVIOUS
<1>1. CASE Attempt
  <2>1. PICK h \in Hosts : /\ UNCHANGED now
                           /\ TurnAway(h) \/ RecordFailure(h) \/ ClearFailures(h)
    BY <1>1 DEF Attempt, Connect, Request, Unconnected
  <2> QED BY <2>1, AttemptKeeps
<1>2. CASE Tick
  <2>1. now \in Nat /\ now' = now + 1 /\ UNCHANGED <<failures, failed>>
    BY <1>2 DEF Tick, authVars, ClockOK
  <2>2. now' \in Nat /\ now <= now'
    BY <2>1
  <2> QED BY <2>1, <2>2, FailuresAge DEF ThrottleInv
<1>3. CASE Receive \/ Malformed \/ Limited \/ Dispatch \/ UNCHANGED vars
  <2>1. UNCHANGED <<failures, failed, now>>
    BY <1>3 DEF Receive, Malformed, Limited, Dispatch, Counted, Messages!Refuse, Cancels!Refuse,
                Messages!Accept, Cancels!Accept, authVars, vars
  <2> QED BY <2>1 DEF ThrottleInv
<1> QED BY <1>1, <1>2, <1>3 DEF Next

\* A host is turned away exactly while MaxFailures of its failures since its last success
\* are younger than a window (auth.py:_is_auth_throttled), for every window, limit, number
\* of hosts and order of attempts.
THEOREM ThrottleIsExact == Spec => []ThrottleMatchesFailures
<1>1. Init => ThrottleInv
  <2> SUFFICES ASSUME Init PROVE ThrottleInv
    OBVIOUS
  <2>1. <<>> \in Seq(Nat) /\ IsDeque(<<>>, <<>>, now)
    BY DEF IsDeque
  <2> QED BY <2>1 DEF Init, ThrottleInv
<1>2. ClockOK /\ ThrottleInv => ThrottleMatchesFailures
  <2> SUFFICES ASSUME ClockOK, ThrottleInv, NEW h \in Hosts
               PROVE  Throttled(h) <=>
                        Cardinality({n \in DOMAIN failed[h] : failed[h][n] + Window > now})
                          >= MaxFailures
    BY DEF ThrottleMatchesFailures
  <2> DEFINE p == Failures(h)
  <2>1. /\ failures[h] \in Seq(Nat) /\ failed[h] \in Seq(Nat) /\ now \in Nat
        /\ IsDeque(failures[h], failed[h], now)
    BY DEF ThrottleInv, ClockOK
  <2>2. /\ p \in Seq(Nat) /\ IsDeque(p, failed[h], now)
        /\ {n \in DOMAIN failed[h] : failed[h][n] + Window > now}
             = (Len(failed[h]) - Len(p) + 1)..Len(failed[h])
    BY <2>1, PrunedFailures DEF Failures
  <2> HIDE DEF p
  <2>3. Len(failed[h]) \in Nat /\ Len(p) \in Nat /\ Len(failed[h]) - Len(p) \in Nat
    BY <2>1, <2>2 DEF IsDeque
  <2>4. Cardinality((Len(failed[h]) - Len(p) + 1)..Len(failed[h])) = Len(p)
    <3> DEFINE a == Len(failed[h]) - Len(p) + 1
               b == Len(failed[h])
    <3>1. a \in Int /\ b \in Int /\ (a > b <=> Len(p) = 0) /\ b - a + 1 = Len(p)
      BY <2>3
    <3> HIDE DEF a, b
    <3>2. Cardinality(a..b) = IF a > b THEN 0 ELSE b - a + 1
      BY <3>1, FS_Interval
    <3>3. Cardinality(a..b) = Len(p)
      BY <3>1, <3>2
    <3> QED BY <3>3 DEF a, b
  <2> QED BY <2>2, <2>4 DEF Throttled, p
<1> QED BY <1>1, <1>2, NextKeeps, ClockIsNatural, PTL DEF Spec

-----------------------------------------------------------------------------
(* What a client sends *)

\* The frame under way is one of the client's.
FrameIsKnown == inbox = None \/ inbox \in Frames

LEMMA FramesAreKnown == Spec => []FrameIsKnown
<1>1. Init => FrameIsKnown
  BY DEF Init, FrameIsKnown
<1>2. FrameIsKnown /\ [Next]_vars => FrameIsKnown'
  <2> SUFFICES ASSUME FrameIsKnown, [Next]_vars PROVE FrameIsKnown'
    OBVIOUS
  <2>1. CASE Attempt
    BY <2>1 DEF Attempt, Connect, Request, Unconnected, frameVars, FrameIsKnown
  <2>2. CASE Receive
    BY <2>2 DEF Receive, FrameIsKnown
  <2>3. CASE Limited \/ Malformed \/ Dispatch
    BY <2>3 DEF Limited, Malformed, Dispatch, FrameIsKnown
  <2>4. CASE Tick \/ UNCHANGED vars
    BY <2>4 DEF Tick, vars, frameVars, FrameIsKnown
  <2> QED BY <2>1, <2>2, <2>3, <2>4 DEF Next
<1> QED BY <1>1, <1>2, PTL DEF Spec

\* The names of the parameters, one by one.
LEMMA NamesAre ==
  /\ SamplingNames = {"temperature", "top_p", "top_k", "min_p", "repetition_penalty",
                      "presence_penalty", "frequency_penalty"}
  /\ \A n \in DOMAIN SamplingOrder : SamplingOrder[n] \in SamplingNames
  /\ \A name \in SamplingNames : \E n \in DOMAIN SamplingOrder : SamplingOrder[n] = name
<1>1. DOMAIN SamplingOrder = 1 .. 7
  BY DEF SamplingOrder
<1>2. /\ SamplingOrder[1] = "temperature" /\ SamplingOrder[2] = "top_p"
      /\ SamplingOrder[3] = "top_k" /\ SamplingOrder[4] = "min_p"
      /\ SamplingOrder[5] = "repetition_penalty" /\ SamplingOrder[6] = "presence_penalty"
      /\ SamplingOrder[7] = "frequency_penalty"
  BY DEF SamplingOrder
<1>3. \A n \in 1 .. 7 : n = 1 \/ n = 2 \/ n = 3 \/ n = 4 \/ n = 5 \/ n = 6 \/ n = 7
  OBVIOUS
<1> HIDE DEF SamplingOrder
<1> QED BY <1>1, <1>2, <1>3 DEF SamplingNames

\* Null fields are dropped, the others stay what they are.
LEMMA ParsedFields ==
  ASSUME NEW frame \in Frames, Parse(frame).ok
  PROVE  /\ FieldsAreTyped(Parse(frame).fields)
         /\ \A name \in DOMAIN Parse(frame).fields : Parse(frame).fields[name] # None
<1> DEFINE present == {f \in DOMAIN frame.fields : frame.fields[f] # None}
           fields == [f \in present |-> frame.fields[f]]
<1>1. Parse(frame).fields = fields
  BY DEF Parse, Refused
<1>2. FieldsAreTyped(frame.fields)
  BY GatewayConstants
<1>3. FieldsAreTyped(fields)
  BY <1>2 DEF FieldsAreTyped, AreValues
<1> QED BY <1>1, <1>3

\* The value a frame has for a name: in a block before one next to it, in the first block that
\* is not empty.
SentIn(fields, name) ==
  LET Written == {b \in {"sampling", "sampling_params"} :
                    Get(fields, b) # None /\ name \in DOMAIN fields[b] /\ fields[b][name] # None}
  IN IF "sampling" \in Written THEN fields["sampling"][name]
     ELSE IF "sampling_params" \in Written
             /\ (Get(fields, "sampling") = None \/ DOMAIN fields["sampling"] = {})
       THEN fields["sampling_params"][name]
     ELSE Get(fields, name)

\* That is the value the extraction reads.
LEMMA RawIsSent ==
  ASSUME NEW fields, NEW name, FieldsAreTyped(fields), \A f \in DOMAIN fields : fields[f] # None
  PROVE  RawValue(fields, name) = SentIn(fields, name)
<1> DEFINE first == Get(fields, "sampling")
           second == Get(fields, "sampling_params")
           empty == [f \in {} |-> None]
<1>1. "sampling" \in DOMAIN fields => first = fields["sampling"] /\ first # None
  BY DEF Get
<1>2. "sampling" \notin DOMAIN fields => first = None
  BY DEF Get
<1>3. "sampling_params" \in DOMAIN fields => second = fields["sampling_params"] /\ second # None
  BY DEF Get
<1>4. "sampling_params" \notin DOMAIN fields => second = None
  BY DEF Get
<1>5. first # None => (DOMAIN first = {} <=> first = empty)
  <2> SUFFICES ASSUME first # None PROVE DOMAIN first = {} <=> first = empty
    OBVIOUS
  <2>1. first = [f \in DOMAIN first |-> first[f]]
    BY <1>1, <1>2 DEF FieldsAreTyped
  <2>2. ASSUME DOMAIN first = {} PROVE first = empty
    <3> HIDE DEF first
    <3> QED BY <2>1, <2>2
  <2> QED BY <2>2
<1>6. DOMAIN empty = {}
  OBVIOUS
<1>7. SamplingBlock(fields) = IF first \notin {None, empty} THEN first
                              ELSE IF second # None THEN second ELSE empty
  BY DEF SamplingBlock
<1>8. RawValue(fields, name) = IF Get(SamplingBlock(fields), name) # None
                               THEN Get(SamplingBlock(fields), name) ELSE Get(fields, name)
  BY DEF RawValue
<1> HIDE DEF first, second, empty
<1>9. CASE first \notin {None, empty}
  BY <1>1, <1>2, <1>3, <1>4, <1>5, <1>7, <1>8, <1>9 DEF SentIn, Get, first, second
<1>10. CASE first \in {None, empty}
  BY <1>1, <1>2, <1>3, <1>4, <1>5, <1>6, <1>7, <1>8, <1>10 DEF SentIn, Get, first, second
<1> QED BY <1>9, <1>10

\* It is nothing, or a value of its kind.
LEMMA SentIsTyped ==
  ASSUME NEW fields, NEW name \in SamplingNames, FieldsAreTyped(fields),
         SentIn(fields, name) # None
  PROVE  IsValue(SentIn(fields, name))
BY DEF SentIn, FieldsAreTyped, AreValues, Get

\* What is taken for a number is one, within its bounds, and only that.
LEMMA TakenIsMeant ==
  ASSUME NEW name \in SamplingNames, NEW v, IsValue(v)
  PROVE  /\ Means(name, v) <=> Coerced(name, v) # None /\ InBounds(name, Coerced(name, v))
         /\ Means(name, v) => Coerced(name, v) = v.num /\ v.num \in Int
<1>1. None # NaN /\ None \notin Int /\ NaN \notin Int
  BY GatewayConstants
<1>2. Bounds[name][1] \in Int /\ Bounds[name][2] \in Int
  BY NamesAre DEF Bounds
<1> DEFINE n == v.num
           c == Coerced(name, v)
           lo == Bounds[name][1]
           hi == Bounds[name][2]
           Numeric == {"int", "float", "int text", "float text"}
<1>3. InBounds(name, n) <=> n # NaN /\ lo <= n /\ n <= hi
  BY DEF InBounds
<1>4. n \in Int => (n \in lo .. hi <=> lo <= n /\ n <= hi)
  BY <1>2
<1>5. Means(name, v) <=> /\ v.kind \in Numeric /\ n # NaN /\ n \in lo .. hi
                         /\ name = "top_k" => n % 100 = 0 /\ v.kind # "float text"
  BY DEF Means
<1>6. n \in lo .. hi => n \in Int
  BY <1>2
<1>7. /\ v.kind \in {"int", "int text"} => n \in Int /\ n % 100 = 0
      /\ v.kind \in {"float", "float text"} => n \in Int \cup {NaN}
  BY DEF IsValue
<1>8. CASE name = "top_k"
  <2>1. c = IF v.kind \in {"int", "int text"} \/ (v.kind = "float" /\ n # NaN /\ n % 100 = 0)
            THEN n ELSE None
    BY <1>8 DEF Coerced, CoerceInt, IsWhole
  <2>2. c # None => c = n /\ n \in Int
    BY <2>1, <1>7
  <2>3. Means(name, v) => c = n /\ c # None
    BY <2>1, <1>1, <1>5, <1>6, <1>8
  <2>4. c # None => v.kind \in Numeric /\ n # NaN /\ n % 100 = 0 /\ v.kind # "float text"
    BY <2>1, <2>2, <1>1, <1>7
  <2> HIDE DEF n, c, lo, hi
  <2>5. c # None /\ InBounds(name, c) => Means(name, v)
    BY <2>2, <2>4, <1>3, <1>4, <1>5
  <2>6. Means(name, v) => c # None /\ InBounds(name, c) /\ n \in Int
    BY <2>3, <1>3, <1>4, <1>5, <1>6
  <2> QED BY <2>3, <2>5, <2>6 DEF n, c
<1>9. CASE name # "top_k"
  <2>1. c = IF v.kind \in Numeric THEN n ELSE None
    BY <1>9 DEF Coerced, CoerceFloat
  <2>2. c # None => c = n /\ n \in Int \cup {NaN}
    BY <2>1, <1>7
  <2>3. Means(name, v) => c = n /\ c # None
    BY <2>1, <1>1, <1>5, <1>6
  <2>4. c # None => v.kind \in Numeric
    BY <2>1
  <2> HIDE DEF n, c, lo, hi
  <2>5. c # None /\ InBounds(name, c) => Means(name, v)
    BY <2>2, <2>4, <1>3, <1>4, <1>5, <1>9
  <2>6. Means(name, v) => c # None /\ InBounds(name, c) /\ n \in Int
    BY <2>3, <1>3, <1>4, <1>5, <1>6
  <2> QED BY <2>3, <2>5, <2>6 DEF n, c
<1> QED BY <1>8, <1>9

\* Either engine runs with the overrides, and with the defaults where there is none.
LEMMA EnginesAreTold ==
  ASSUME NEW o, NEW name \in SamplingNames, NEW engine \in {"vllm", "trt"},
         ~(name = "min_p" /\ engine = "trt"),
         name = "top_k" /\ name \in DOMAIN o => o[name] \in Int /\ o[name] >= 0
  PROVE  Used(EngineParams(engine, o), name) =
           IF name \in DOMAIN o THEN o[name] ELSE DefaultSampling[name]
<1> DEFINE s == ResolvedSampling(o)
<1>1. s[name] = IF name \in DOMAIN o THEN o[name] ELSE DefaultSampling[name]
  BY NamesAre DEF ResolvedSampling, DefaultSampling
<1>2. name = "top_k" => s[name] \in Int /\ s[name] >= 0
  BY <1>1 DEF DefaultSampling
<1> HIDE DEF s
<1>3. CASE engine = "vllm"
  BY <1>1, <1>3 DEF EngineParams, VllmParams, Used, s
<1>4. CASE engine = "trt"
  <2>1. EngineParams(engine, o) = TrtParams(s)
    BY <1>4 DEF EngineParams, s
  <2>2. Used(TrtParams(s), name) = s[name]
    BY <1>2, <1>4, NamesAre DEF TrtParams, TrtPenalties, Used
  <2> QED BY <1>1, <2>1, <2>2
<1> QED BY <1>3, <1>4

\* How the extraction ends: without a wrong value, or at one.
LEMMA ExtractionEnds ==
  ASSUME NEW fields, DeployChat
  PROVE  LET Raw(name) == RawValue(fields, name)
             Right(name) == Coerced(name, Raw(name)) # None /\ InBounds(name, Coerced(name, Raw(name)))
             all == SamplingOverrides(fields)
         IN /\ all.ok => \A name \in SamplingNames :
                           /\ Raw(name) # None => Right(name)
                           /\ name \in DOMAIN all.overrides <=> Raw(name) # None
                           /\ Raw(name) # None => all.overrides[name] = Coerced(name, Raw(name))
            /\ ~all.ok => \/ Raw("sanitize_output") # None
                          \/ \E name \in SamplingNames : Raw(name) # None /\ ~Right(name)
<1> DEFINE Raw(name) == RawValue(fields, name)
           Right(name) == Coerced(name, Raw(name)) # None /\ InBounds(name, Coerced(name, Raw(name)))
           all == SamplingOverrides(fields)
           given == {name \in SamplingNames : Raw(name) # None}
           Wrong(name) == Coerced(name, Raw(name)) = None \/ ~InBounds(name, Coerced(name, Raw(name)))
           wrong == {n \in DOMAIN SamplingOrder : SamplingOrder[n] \in given /\ Wrong(SamplingOrder[n])}
           sanitize == Raw("sanitize_output")
           taken == [f \in given \cup (IF sanitize = None THEN {} ELSE {"sanitize_output"}) |->
                       IF f = "sanitize_output" THEN sanitize.num ELSE Coerced(f, Raw(f))]
<1>1. CASE wrong # {}
  <2>1. all.ok = FALSE
    BY <1>1 DEF SamplingOverrides
  <2>2. PICK n \in DOMAIN SamplingOrder : SamplingOrder[n] \in given /\ Wrong(SamplingOrder[n])
    BY <1>1
  <2>3. SamplingOrder[n] \in SamplingNames /\ Raw(SamplingOrder[n]) # None /\ ~Right(SamplingOrder[n])
    BY <2>2
  <2> HIDE DEF all, Raw, Right
  <2>4. \E name \in SamplingNames : Raw(name) # None /\ ~Right(name)
    BY <2>3
  <2> QED BY <2>1, <2>4 DEF all, Raw, Right
<1>2. CASE wrong = {}
  <2>1. \A name \in SamplingNames : Raw(name) # None => Right(name)
    BY <1>2, NamesAre
  <2>2. CASE sanitize # None /\ sanitize.kind # "bool"
    <3>1. all.ok = FALSE
      BY <1>2, <2>2 DEF SamplingOverrides
    <3> QED BY <2>2, <3>1
  <2>3. CASE ~(sanitize # None /\ sanitize.kind # "bool")
    <3>1. all = [ok |-> TRUE, overrides |-> taken]
      BY <1>2, <2>3 DEF SamplingOverrides
    <3>2. "sanitize_output" \notin SamplingNames
      BY NamesAre
    <3>3. \A name \in SamplingNames : /\ name \in DOMAIN taken <=> Raw(name) # None
                                      /\ Raw(name) # None => taken[name] = Coerced(name, Raw(name))
      <4> SUFFICES ASSUME NEW name \in SamplingNames
                   PROVE  /\ name \in DOMAIN taken <=> Raw(name) # None
                          /\ Raw(name) # None => taken[name] = Coerced(name, Raw(name))
        OBVIOUS
      <4>1. name # "sanitize_output"
        BY <3>2
      <4>2. DOMAIN taken = given \cup (IF sanitize = None THEN {} ELSE {"sanitize_output"})
        OBVIOUS
      <4>3. name \in DOMAIN taken <=> Raw(name) # None
        BY <4>1, <4>2
      <4>4. name \in DOMAIN taken => taken[name] = Coerced(name, Raw(name))
        BY <4>1
      <4> QED BY <4>3, <4>4
    <3> HIDE DEF taken, Raw, Right, all
    <3>4. all.ok = TRUE /\ all.overrides = taken
      BY <3>1
    <3> QED BY <2>1, <3>3, <3>4 DEF all, Raw, Right
  <2> QED BY <2>2, <2>3
<1> QED BY <1>1, <1>2

\* What the engines run with is what the fields mean.
LEMMA FieldsAreMeant ==
  ASSUME NEW fields, FieldsAreTyped(fields), \A f \in DOMAIN fields : fields[f] # None, DeployChat
  PROVE  LET all == SamplingOverrides(fields)
         IN /\ all.ok =>
                 \A name \in SamplingNames :
                   /\ SentIn(fields, name) # None => Means(name, SentIn(fields, name))
                   /\ \A engine \in {"vllm", "trt"} :
                        ~(name = "min_p" /\ engine = "trt") =>
                          Used(EngineParams(engine, all.overrides), name) =
                            IF SentIn(fields, name) = None THEN DefaultSampling[name]
                            ELSE SentIn(fields, name).num
            /\ ~all.ok =>
                 \E name \in SamplingNames \cup {"sanitize_output"} :
                   /\ SentIn(fields, name) # None
                   /\ name = "sanitize_output" \/ ~Means(name, SentIn(fields, name))
<1> DEFINE all == SamplingOverrides(fields)
           Sent(name) == SentIn(fields, name)
           Right(name) == Coerced(name, Sent(name)) # None /\ InBounds(name, Coerced(name, Sent(name)))
<1>1. \A name : RawValue(fields, name) = Sent(name)
  BY RawIsSent
<1>2. /\ all.ok => \A name \in SamplingNames :
                     /\ Sent(name) # None => Right(name)
                     /\ name \in DOMAIN all.overrides <=> Sent(name) # None
                     /\ Sent(name) # None => all.overrides[name] = Coerced(name, Sent(name))
      /\ ~all.ok => \/ Sent("sanitize_output") # None
                    \/ \E name \in SamplingNames : Sent(name) # None /\ ~Right(name)
  <2> HIDE DEF Sent
  <2> QED BY <1>1, ExtractionEnds
<1>3. ASSUME NEW name \in SamplingNames, Sent(name) # None
      PROVE  /\ Means(name, Sent(name)) <=> Right(name)
             /\ Means(name, Sent(name)) => Coerced(name, Sent(name)) = Sent(name).num /\ Sent(name).num \in Int
  <2>1. IsValue(Sent(name))
    BY <1>3, SentIsTyped
  <2> HIDE DEF Sent
  <2> QED BY <2>1, TakenIsMeant
<1> HIDE DEF all, Sent, Right
<1>4. ASSUME all.ok, NEW name \in SamplingNames
      PROVE  /\ Sent(name) # None => Means(name, Sent(name))
             /\ \A engine \in {"vllm", "trt"} :
                  ~(name = "min_p" /\ engine = "trt") =>
                    Used(EngineParams(engine, all.overrides), name) =
                      IF Sent(name) = None THEN DefaultSampling[name] ELSE Sent(name).num
  <2>1. Sent(name) # None => Means(name, Sent(name))
    BY <1>2, <1>3, <1>4
  <2>2. Sent(name) # None => all.overrides[name] = Sent(name).num /\ Sent(name).num \in Int
    BY <1>2, <1>3, <1>4, <2>1
  <2>3. name = "top_k" /\ Sent(name) # None => Sent(name).num >= 0
    <3> SUFFICES ASSUME name = "top_k", Sent(name) # None PROVE Sent(name).num >= 0
      OBVIOUS
    <3> DEFINE n == Sent(name).num
               least == Bounds["top_k"][1]
               most == Bounds["top_k"][2]
    <3>1. n \in least .. most
      BY <2>1 DEF Means
    <3>2. least = 0 /\ most = 6000
      BY DEF Bounds
    <3> HIDE DEF n, least, most
    <3>3. n >= 0
      BY <3>1, <3>2
    <3> QED BY <3>3 DEF n
  <2>4. ASSUME NEW engine \in {"vllm", "trt"}, ~(name = "min_p" /\ engine = "trt")
        PROVE  Used(EngineParams(engine, all.overrides), name) =
                 IF Sent(name) = None THEN DefaultSampling[name] ELSE Sent(name).num
    <3>1. name = "top_k" /\ name \in DOMAIN all.overrides
            => all.overrides[name] \in Int /\ all.overrides[name] >= 0
      BY <1>2, <1>4, <2>2, <2>3
    <3>2. Used(EngineParams(engine, all.overrides), name) =
            IF name \in DOMAIN all.overrides THEN all.overrides[name] ELSE DefaultSampling[name]
      BY <2>4, <3>1, EnginesAreTold
    <3> QED BY <1>2, <1>4, <2>2, <3>2
  <2> QED BY <2>1, <2>4
<1>5. ASSUME ~all.ok
      PROVE  \E name \in SamplingNames \cup {"sanitize_output"} :
               Sent(name) # None /\ (name = "sanitize_output" \/ ~Means(name, Sent(name)))
  BY <1>2, <1>3, <1>5
<1> QED BY <1>4, <1>5 DEF all, Sent

(* For every frame a client may send: either engine generates with the numbers it wrote,     *)
(* within their bounds, and with the server's own where it wrote none; what is refused is    *)
(* wrong (messages/sampling.py, engines/sampling.py).                                        *)
THEOREM OverridesAreMeant == Spec => []OverridesMeanWhatWasSent
<1>1. FrameIsKnown => OverridesMeanWhatWasSent
  <2> SUFFICES ASSUME FrameIsKnown, inbox # None, Parse(inbox).ok, DeployChat
               PROVE  OverridesMeanWhatWasSent
    BY DEF OverridesMeanWhatWasSent
  <2> DEFINE fields == Parse(inbox).fields
  <2>1. inbox \in Frames
    BY DEF FrameIsKnown
  <2>2. FieldsAreTyped(fields) /\ \A f \in DOMAIN fields : fields[f] # None
    BY <2>1, ParsedFields
  <2> HIDE DEF fields
  <2> QED BY <2>2, FieldsAreMeant DEF OverridesMeanWhatWasSent, SentIn, fields
<1> QED BY <1>1, FramesAreKnown, PTL

=============================================================================
