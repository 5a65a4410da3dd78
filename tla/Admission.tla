----------------------------- MODULE Admission -----------------------------
(***************************************************************************)
(* The pool of connection slots: ConnectionHandler                         *)
(* (src/handlers/connections.py) as _prepare_connection and                *)
(* _finalize_connection (src/handlers/websocket/manager.py) drive it, one  *)
(* handler task per connection.                                            *)
(*                                                                         *)
(* The lock around active_connections is never held across an await, so    *)
(* taking it never suspends.  The awaits that do are the semaphore's       *)
(* acquire under wait_for ("waiting"), ws.accept() ("accepting"), the      *)
(* message loop ("serving") and the teardown before disconnect             *)
(* ("closing").                                                            *)
(***************************************************************************)
EXTENDS Naturals, Sequences, FiniteSets, SequencesExt

CONSTANTS
  Conns,          \* names of connections: one that is over may be used again
  MaxConnections  \* MAX_CONCURRENT_CONNECTIONS

ASSUME AdmissionConstants ==
  /\ IsFiniteSet(Conns)
  /\ MaxConnections \in Nat \ {0}

VARIABLES
  at,       \* where each connection's handler is
  permits,  \* the value of the semaphore
  queue,    \* its waiters, in their order of arrival
  granted,  \* waiters that were handed a permit and have not run yet
  active    \* ConnectionHandler.active_connections

admissionVars == <<at, permits, queue, granted, active>>

Places == {"new", "waiting", "accepting", "serving", "closing", "left", "refused"}

AdmissionTypeOK ==
  /\ at \in [Conns -> Places]
  /\ permits \in 0 .. MaxConnections
  /\ queue \in Seq(Conns)
  /\ granted \subseteq Conns
  /\ active \subseteq Conns

AdmissionInit ==
  /\ at = [c \in Conns |-> "new"]
  /\ permits = MaxConnections
  /\ queue = <<>>
  /\ granted = {}
  /\ active = {}

Goes(c, place) == at' = [at EXCEPT ![c] = place]

\* Mutant of WakeUp: Semaphore.acquire as it was, ending without the loop that wakes others.
WakeNobody(p, q, g) == permits' = p /\ queue' = q /\ granted' = g

\* p permits are free, q wait and g were granted one: the first waiters get what is free, as
\* at the end of Semaphore.acquire.
WakeUp(p, q, g) ==
  LET n == IF p < Len(q) THEN p ELSE Len(q)
  IN  /\ permits' = p - n
      /\ queue' = SubSeq(q, n + 1, Len(q))
      /\ granted' = g \cup {q[i] : i \in 1 .. n}

\* Mutant of Release: the permit goes to the first waiter and stays free all the same.
ReleaseTwice ==
  /\ permits' = permits + 1
  /\ queue' = IF queue = <<>> THEN <<>> ELSE Tail(queue)
  /\ granted' = granted \cup (IF queue = <<>> THEN {} ELSE {Head(queue)})

\* Semaphore.release: one permit more, for the first waiter if there is one.
Release ==
  IF queue = <<>>
  THEN permits' = permits + 1 /\ UNCHANGED <<queue, granted>>
  ELSE queue' = Tail(queue) /\ granted' = granted \cup {Head(queue)} /\ UNCHANGED permits

\* authenticate_websocket refuses the connection before it asks for a slot.
AuthFails(c) ==
  /\ at[c] = "new"
  /\ Goes(c, "refused")
  /\ UNCHANGED <<permits, queue, granted, active>>

\* connect when a permit is free and nobody is ahead, be it on its way with a permit.
ConnectAtOnce(c) ==
  /\ at[c] = "new"
  /\ permits > 0 /\ queue = <<>> /\ granted = {}
  /\ permits' = permits - 1
  /\ active' = active \cup {c}
  /\ Goes(c, "accepting")
  /\ UNCHANGED <<queue, granted>>

\* connect when it has to wait for a permit.
ConnectWaits(c) ==
  /\ at[c] = "new"
  /\ ~(permits > 0 /\ queue = <<>> /\ granted = {})
  /\ queue' = Append(queue, c)
  /\ Goes(c, "waiting")
  /\ UNCHANGED <<permits, granted, active>>

\* A waiter that was handed a permit goes on: active_connections.add.
Admitted(c) ==
  /\ c \in granted
  /\ WakeUp(permits, queue, granted \ {c})
  /\ active' = active \cup {c}
  /\ Goes(c, "accepting")

\* acquire_timeout passes first: the waiter leaves the queue.
WaitTimesOut(c) ==
  /\ \E i \in 1 .. Len(queue) : queue[i] = c /\ WakeUp(permits, RemoveAt(queue, i), granted)
  /\ Goes(c, "refused")
  /\ UNCHANGED active

\* Mutant of GrantTimesOut: the permit is lost with the waiter.
GrantTimesOutAndLeaks(c) ==
  /\ c \in granted
  /\ granted' = granted \ {c}
  /\ Goes(c, "refused")
  /\ UNCHANGED <<permits, queue, active>>

\* acquire_timeout passes after the permit was handed over and before the waiter ran: the
\* cancelled acquire gives it back.
GrantTimesOut(c) ==
  /\ c \in granted
  /\ WakeUp(permits + 1, queue, granted \ {c})
  /\ Goes(c, "refused")
  /\ UNCHANGED active

Accepted(c) ==
  /\ at[c] = "accepting"
  /\ Goes(c, "serving")
  /\ UNCHANGED <<permits, queue, granted, active>>

\* disconnect: idempotent, the permit goes back only with the membership.
Disconnect(c) ==
  IF c \in active
  THEN active' = active \ {c} /\ Release
  ELSE UNCHANGED <<permits, queue, granted, active>>

\* Mutant of AcceptFails: the exception propagates with the slot still taken.
AcceptFailsAndLeaks(c) ==
  /\ at[c] = "accepting"
  /\ Goes(c, "refused")
  /\ UNCHANGED <<permits, queue, granted, active>>

\* ws.accept() raises: the slot is given back and the exception propagates.
AcceptFails(c) ==
  /\ at[c] = "accepting"
  /\ Disconnect(c)
  /\ Goes(c, "refused")

\* run_message_loop returns or raises; the watchdog is stopped and the session cleaned up.
LoopEnds(c) ==
  /\ at[c] = "serving"
  /\ Goes(c, "closing")
  /\ UNCHANGED <<permits, queue, granted, active>>

\* The part of _finalize_connection that gives the slot back.
Leave(c) ==
  /\ at[c] = "closing"
  /\ Disconnect(c)
  /\ Goes(c, "left")

\* Every step of a handler but the one that leaves, which goes on to the caches.
Handle(c) ==
  \/ AuthFails(c) \/ ConnectAtOnce(c) \/ ConnectWaits(c) \/ Admitted(c)
  \/ WaitTimesOut(c) \/ GrantTimesOut(c)
  \/ Accepted(c) \/ AcceptFails(c) \/ LoopEnds(c)

-----------------------------------------------------------------------------
(* Correctness *)

\* No slot is lost or made: permits, permits under way to a waiter, and active connections
\* add up to MAX_CONCURRENT_CONNECTIONS, whatever times out or fails on the way.
SlotsConserved == permits + Cardinality(granted) + Cardinality(active) = MaxConnections

\* No wake-up is lost: whoever waits while a permit is free has one ahead who was granted
\* another, and will pass it on.
NoIdleSlot == permits > 0 /\ queue # <<>> => granted # {}

\* Being active is being between admission and teardown: no refused connection keeps a slot
\* and no served one is without.
ActiveIsServed == active = {c \in Conns : at[c] \in {"accepting", "serving", "closing"}}

=============================================================================
