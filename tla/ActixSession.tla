---------------------------- MODULE ActixSession ----------------------------
(***************************************************************************)
(* actix_session::Session as src/ uses it: the state a request loaded, and *)
(* a status that tells the session middleware what to do with it once the  *)
(* handler has answered.  A renewed session stays renewed when it is       *)
(* written to, and a purged one ignores every later call.                  *)
(***************************************************************************)
SessionStatus == {"Unchanged", "Changed", "Renewed", "Purged"}

Loaded(state) == [status |-> "Unchanged", state |-> state]

\* Session::insert and Session::remove, given the state they lead to.
Write(session, state) ==
  IF session.status = "Purged"
  THEN session
  ELSE [status |-> IF session.status = "Renewed" THEN "Renewed" ELSE "Changed",
        state |-> state]

Renew(session) ==
  IF session.status = "Purged" THEN session
                               ELSE [session EXCEPT !.status = "Renewed"]

Purge(emptyState) == [status |-> "Purged", state |-> emptyState]
=============================================================================
