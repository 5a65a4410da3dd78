----------------------------- MODULE CacheReset -----------------------------
(***************************************************************************)
(* The reset of vLLM's prefix and multimodal caches: CacheResetManager     *)
(* (src/engines/vllm/cache.py), its daemon, and the callers that reach it  *)
(* through RuntimeDeps.  Every caller passes force=True, so try_reset is   *)
(* the queue of its lock: the first of resets is awaiting the engine.      *)
(*                                                                         *)
(* Time is counted in ticks: age is the time since the last reset, as far  *)
(* as it matters; timer is what is left of the daemon's wait_for.          *)
(***************************************************************************)
EXTENDS Naturals, Sequences

CONSTANTS
  Callers,   \* those who force a reset: the finalizers of connections
  Daemon,    \* the cache reset daemon
  Interval   \* CACHE_RESET_INTERVAL_SECONDS, in ticks

ASSUME CacheConstants ==
  /\ Daemon \notin Callers
  /\ Interval \in Nat \ {0}

VARIABLES
  resets,  \* the holder of the manager's lock, then its waiters
  age,     \* seconds_since_last_reset, up to Interval
  event,   \* reschedule_event
  daemon,  \* where the daemon is: "created", "waiting", "resetting"
  timer    \* ticks until the daemon's wait_for times out

cacheVars == <<resets, age, event, daemon, timer>>

CacheTypeOK ==
  /\ resets \in Seq(Callers \cup {Daemon})
  /\ age \in 0 .. Interval
  /\ event \in BOOLEAN
  /\ daemon \in {"created", "waiting", "resetting"}
  /\ timer \in 0 .. Interval

CacheInit ==
  /\ resets = <<>>
  /\ age = 0
  /\ event = FALSE
  /\ daemon = "created"
  /\ timer = 0

\* try_reset(force=True): joins the lock's queue; alone in it, it has the lock at once.
Request(p) == resets' = Append(resets, p)

\* The daemon's loop from its top to its next await, age being what it reads.
DaemonLoops ==
  /\ event' = FALSE
  /\ IF age = Interval
     THEN daemon' = "resetting" /\ Request(Daemon) /\ UNCHANGED <<age, timer>>
     ELSE daemon' = "waiting" /\ timer' = Interval - age /\ UNCHANGED <<resets, age>>

DaemonStarts == daemon = "created" /\ DaemonLoops

\* Mutant of DaemonWoken: the daemon ends when it is woken.
DaemonStopsWhenWoken ==
  /\ daemon = "waiting" /\ event
  /\ event' = FALSE /\ daemon' = "resetting"
  /\ UNCHANGED <<resets, age, timer>>

\* reschedule_event ends the wait.
DaemonWoken == daemon = "waiting" /\ event /\ DaemonLoops

\* The timeout of wait_for, which wins over an event set in the same iteration of the loop.
TimerFires ==
  /\ daemon = "waiting" /\ timer = 0
  /\ daemon' = "resetting"
  /\ Request(Daemon)
  /\ UNCHANGED <<age, event, timer>>

\* The engine's reset for the daemon is over: its loop clears the event and waits anew.
TimerResetDone ==
  /\ resets # <<>> /\ Head(resets) = Daemon
  /\ resets' = Tail(resets)
  /\ age' = 0
  /\ event' = FALSE
  /\ daemon' = "waiting" /\ timer' = Interval

\* Mutant of ForcedResetDone: the daemon is not told.
ForcedResetDoneSilently(next) ==
  /\ resets # <<>> /\ Head(resets) # Daemon
  /\ resets' = Tail(resets) \o next
  /\ age' = 0
  /\ UNCHANGED <<event, daemon, timer>>

\* The engine's reset for a caller is over, which then asks for those in `next`.
ForcedResetDone(next) ==
  /\ resets # <<>> /\ Head(resets) # Daemon
  /\ resets' = Tail(resets) \o next
  /\ age' = 0
  /\ event' = TRUE
  /\ UNCHANGED <<daemon, timer>>

Tick ==
  /\ age' = IF age < Interval THEN age + 1 ELSE age
  /\ timer' = IF daemon = "waiting" /\ timer > 0 THEN timer - 1 ELSE timer
  /\ UNCHANGED <<resets, event, daemon>>

DaemonStep == DaemonStarts \/ DaemonWoken \/ TimerFires \/ TimerResetDone

-----------------------------------------------------------------------------
(* Correctness *)

\* Unless it is being told of a reset, the sleeping daemon wakes exactly when the caches
\* will be Interval old: no reset of another caller leaves it with a wrong deadline.
DaemonTracksLastReset == daemon = "waiting" /\ ~event => timer = Interval - age

=============================================================================
