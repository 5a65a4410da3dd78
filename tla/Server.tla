------------------------------- MODULE Server -------------------------------
(***************************************************************************)
(* The process around the connections: their handlers share the slots of   *)
(* Admission, and the finalizer of each (src/handlers/websocket/           *)
(* manager.py) drives the cache resets of CacheReset, next to the daemon   *)
(* that server.py starts.                                                  *)
(***************************************************************************)
EXTENDS Admission, CacheReset

ASSUME CallersAreConnections == Callers = Conns

VARIABLES
  fin,       \* each finalizer's await after disconnect: "none", "reset", "clear", "done"
  emptied    \* remaining == 0, as the finalizer read it before its first reset

serverVars == <<fin, emptied>>
vars == <<admissionVars, cacheVars, serverVars>>

TypeOK ==
  /\ AdmissionTypeOK
  /\ CacheTypeOK
  /\ fin \in [Conns -> {"none", "reset", "clear", "done"}]
  /\ emptied \in [Conns -> BOOLEAN]

Init ==
  /\ AdmissionInit
  /\ CacheInit
  /\ fin = [c \in Conns |-> "none"]
  /\ emptied = [c \in Conns |-> FALSE]

\* A step of a handler up to the end of its session.
HandlerStep(c) == Handle(c) /\ UNCHANGED <<cacheVars, serverVars>>

\* _finalize_connection from disconnect to its next await: a long session resets the
\* caches; so does the last one to leave.
Finalize(c) ==
  /\ Leave(c)
  /\ emptied' = [emptied EXCEPT ![c] = active' = {}]
  /\ \E long \in BOOLEAN :
       IF long \/ active' = {}
       THEN /\ fin' = [fin EXCEPT ![c] = IF long THEN "reset" ELSE "clear"]
            /\ Request(c)
            /\ UNCHANGED <<age, event, daemon, timer>>
       ELSE /\ fin' = [fin EXCEPT ![c] = "done"]
            /\ UNCHANGED cacheVars

\* Another client arrives under the name of a connection that is over.
Arrive(c) ==
  /\ at[c] = "refused" \/ fin[c] = "done"
  /\ Goes(c, "new")
  /\ fin' = [fin EXCEPT ![c] = "none"]
  /\ emptied' = [emptied EXCEPT ![c] = FALSE]
  /\ UNCHANGED <<permits, queue, granted, active, cacheVars>>

\* Mutant of ResetDone: the finalizer forgets that it owes a second reset, and waits.
ResetDoneAndStuck(c) ==
  /\ resets # <<>> /\ Head(resets) = c
  /\ fin' = [fin EXCEPT ![c] = IF fin[c] = "reset" /\ emptied[c] THEN "clear" ELSE "done"]
  /\ ForcedResetDone(<<>>)
  /\ UNCHANGED <<admissionVars, emptied>>

\* The reset a finalizer awaits is over; after that of a long session the last to leave
\* asks for another.
ResetDone(c) ==
  /\ resets # <<>> /\ Head(resets) = c
  /\ LET again == fin[c] = "reset" /\ emptied[c]
     IN  /\ fin' = [fin EXCEPT ![c] = IF again THEN "clear" ELSE "done"]
         /\ ForcedResetDone(IF again THEN <<c>> ELSE <<>>)
  /\ UNCHANGED <<admissionVars, emptied>>

Next ==
  \/ \E c \in Conns : Arrive(c) \/ HandlerStep(c) \/ Finalize(c) \/ ResetDone(c)
  \/ DaemonStep /\ UNCHANGED <<admissionVars, serverVars>>
  \/ Tick /\ UNCHANGED <<admissionVars, serverVars>>

Spec == Init /\ [][Next]_vars

\* asyncio resumes what can go on; the wait for a permit, the handshake and the engine's
\* reset end.  When a client arrives or leaves is up to it.
Fairness ==
  /\ \A c \in Conns :
       /\ WF_vars((Admitted(c) \/ WaitTimesOut(c) \/ GrantTimesOut(c) \/ Accepted(c)
                     \/ AcceptFails(c)) /\ UNCHANGED <<cacheVars, serverVars>>)
       /\ WF_vars(Finalize(c)) /\ WF_vars(ResetDone(c))
  /\ WF_vars(DaemonStep /\ UNCHANGED <<admissionVars, serverVars>>)
  /\ WF_vars(Tick /\ UNCHANGED <<admissionVars, serverVars>>)

FairSpec == Spec /\ Fairness

-----------------------------------------------------------------------------
(* Correctness *)

\* A connection that asks for a slot is admitted or refused, and its handler, once the
\* session is over, ends: no reset, of the daemon or of others, holds it up for ever.
HandlersEnd ==
  \A c \in Conns :
    /\ at[c] = "waiting" ~> at[c] \in {"accepting", "refused"}
    /\ at[c] = "closing" ~> fin[c] = "done"

\* The caches do not grow old: a reset follows whenever they are Interval old.
CachesAreReset == age = Interval ~> age = 0

=============================================================================
