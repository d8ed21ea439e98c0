---------------------------- MODULE UserFreshness ----------------------------
(***************************************************************************)
(* How old the user a handler sees may be: AuthService with a record, for  *)
(* each request, of the users whose backend record has changed under it.   *)
(***************************************************************************)
EXTENDS AuthService

VARIABLE overtaken  \* history: for each request in flight, the users changed since it came

NoteChanges ==
  overtaken' = [r \in Requests |->
    IF stage'[r] \in {"new", "done"} THEN {}
    ELSE overtaken[r] \cup {u \in Users : users'[u] # users[u]}]

FreshnessSpec ==
  /\ Init /\ overtaken = [r \in Requests |-> {}]
  /\ [][Next /\ NoteChanges]_<<vars, overtaken>>

\* "changing passwords will invalidate the session" (lib.rs:99): a handler sees
\* a user only through a session bound to the hash the backend has for the user
\* now, unless a new password, a new token or a removal has overtaken the very
\* request; no session from before it outlives it in a later request.
OutdatedOnlyIfOvertaken ==
  \A r \in Requests :
    InFlight(r) /\ inner[r].user # None =>
      \/ /\ UserOf(inner[r].user.id) = inner[r].user
         /\ DataOf(inner[r].user) = inner[r].data
      \/ inner[r].user.id \in overtaken[r]
=============================================================================
