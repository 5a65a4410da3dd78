-------------------------- MODULE SessionRequests --------------------------
(***************************************************************************)
(* Request tracking of one session: the operators of                       *)
(* src/handlers/session/requests.py over the fields of SessionState that   *)
(* they read and write.  Every function body runs without an await (the    *)
(* handlers take state.request_lock around each of them, and no holder of  *)
(* that lock suspends), so each is one value-to-value operator here.       *)
(*                                                                         *)
(*   lifecycle        state.lifecycle_state                                *)
(*   active           state.active_request_id    (NULL for None)           *)
(*   task             state.active_request_task  (NULL for None)           *)
(*   cancelRequested  state.cancel_requested                               *)
(*                                                                         *)
(* A request and the asyncio task that serves it have the same name: a     *)
(* member of Turns.                                                        *)
(***************************************************************************)

CONSTANTS
  Turns,   \* the message turns of one connection
  NULL     \* Python's None

ASSUME NullIsNotATurn == NULL \notin Turns

Lifecycles == {"idle", "running", "cancelling", "closed"}

Requests ==
  [lifecycle : Lifecycles, active : Turns \cup {NULL},
   task : Turns \cup {NULL}, cancelRequested : BOOLEAN]

FreshRequests ==
  [lifecycle |-> "idle", active |-> NULL, task |-> NULL, cancelRequested |-> FALSE]

\* is_request_cancelled: the cooperative check made after every engine output.
IsRequestCancelled(r, t) ==
  \/ r.lifecycle \in {"cancelling", "closed"}
  \/ r.cancelRequested
  \/ r.active # NULL /\ r.active # t

\* begin_session_request, for a session that is not closed.
BeginRequest(r, t) ==
  [r EXCEPT !.active = t, !.cancelRequested = FALSE, !.lifecycle = "running"]

\* attach_request_task: only the active request of a session that is not closed gets the handle.
AttachTask(r, t) ==
  IF r.lifecycle = "closed" \/ r.active # t THEN r ELSE [r EXCEPT !.task = t]

\* cancel_session_requests: the fields it sets; cancelling r.task is the caller's business.
CancelRequests(r) ==
  [r EXCEPT !.lifecycle = "cancelling", !.cancelRequested = TRUE]

\* cleanup_session_requests(force=True)
ForceCleanup(r) ==
  [r EXCEPT !.active = NULL, !.task = NULL, !.cancelRequested = FALSE,
            !.lifecycle = IF @ = "closed" THEN "closed" ELSE "idle"]

\* Mutant of CompleteRequest: a finishing task clears whatever request is tracked.
CompleteAnyRequest(r, t) == ForceCleanup(r)

\* complete_request: cleanup_session_requests(request_id=t, force=False).
CompleteRequest(r, t) == IF r.active # t THEN r ELSE ForceCleanup(r)

\* close_session_requests
CloseRequests(r) ==
  [r EXCEPT !.lifecycle = "closed", !.cancelRequested = TRUE,
            !.active = NULL, !.task = NULL]

=============================================================================
