------------------------------ MODULE RateLimit ------------------------------
(***************************************************************************)
(* SlidingWindowRateLimiter (src/handlers/limits.py): the times of recent  *)
(* events in a deque, oldest first. Gateway has one for the messages and   *)
(* one for the cancels of a connection; _prune_failures of                 *)
(* src/handlers/websocket/auth.py keeps the failed logins the same way.    *)
(***************************************************************************)
EXTENDS Integers, Sequences

CONSTANTS
  Limit,   \* events allowed per window; 0 disables the limiter
  Window   \* the window, in ticks of the clock; 0 disables the limiter

\* What the theorems assume of the constants.
RateLimitConstants == Limit \in Nat /\ Window \in Nat

VARIABLES
  now,      \* time.monotonic(), in ticks
  events,   \* _events
  log,      \* ghost: the times of all events ever recorded
  refusal   \* the retry_in of the event just refused, 0 if it was not

rateVars == <<now, events, log, refusal>>

Enabled == Limit > 0 /\ Window > 0

\* Mutant of Fresh: an event a full window old still counts.
FreshInclusive(seq, time, window) ==
  CHOOSE n \in 0..Len(seq) :
    /\ \A k \in 1..n : seq[k] < time - window
    /\ n = Len(seq) \/ seq[n + 1] >= time - window

\* How many times popleft runs: up to the first event inside the window.
Fresh(seq, time, window) ==
  CHOOSE n \in 0..Len(seq) :
    /\ \A k \in 1..n : seq[k] <= time - window
    /\ n = Len(seq) \/ seq[n + 1] > time - window

Pruned(seq, time, window) == SubSeq(seq, Fresh(seq, time, window) + 1, Len(seq))

RateInit == now \in Nat /\ events = <<>> /\ log = <<>> /\ refusal = 0

Recent == Pruned(events, now, Window)

\* consume, with room in the window or disabled.
Accept ==
  /\ ~Enabled \/ Len(Recent) < Limit
  /\ events' = IF Enabled THEN Append(Recent, now) ELSE events
  /\ log' = Append(log, now)
  /\ refusal' = 0
  /\ UNCHANGED now

\* Mutant of Refuse: what is refused counts as well.
RefuseAndCount ==
  /\ Enabled /\ Len(Recent) >= Limit
  /\ events' = Append(Recent, now)
  /\ refusal' = Recent[1] + Window - now
  /\ UNCHANGED <<now, log>>

\* consume raises RateLimitError, which carries the time until the oldest event expires;
\* the code's max(0.0, ...) never applies, as RefusalIsExact shows.
Refuse ==
  /\ Enabled /\ Len(Recent) >= Limit
  /\ events' = Recent
  /\ refusal' = Recent[1] + Window - now
  /\ UNCHANGED <<now, log>>

Consume == Accept \/ Refuse

\* Time passes; what was refused is history.
Advance == now' > now /\ now' \in Nat /\ refusal' = 0 /\ UNCHANGED <<events, log>>

RateSpec == RateInit /\ [][Consume \/ Advance]_rateVars

-----------------------------------------------------------------------------
(* Properties *)

RateTypeOK ==
  /\ now \in Nat /\ refusal \in Nat
  /\ events \in Seq(Nat) /\ log \in Seq(Nat)

(* "the limit applies to any rolling window of the specified duration"      *)
(* (limits.py, line 19): between an event and the Limit-th after it lies a   *)
(* whole window.                                                            *)
WindowNeverExceeded ==
  Enabled => \A k \in DOMAIN log :
    k + Limit \in DOMAIN log => log[k + Limit] >= log[k] + Window

(* retry_in is exact: Limit events of the log are younger than a window      *)
(* until it has passed, and fewer from then on.                              *)
RefusalIsExact ==
  refusal > 0 =>
    LET oldest == Len(log) - Limit + 1
    IN /\ oldest >= 1
       /\ log[oldest] + Window = now + refusal
       /\ oldest > 1 => log[oldest - 1] + Window <= now
=============================================================================
