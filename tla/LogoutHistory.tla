---------------------------- MODULE LogoutHistory ----------------------------
(***************************************************************************)
(* What a logout promises: AuthService with a record of the sessions that  *)
(* logouts have destroyed.                                                 *)
(***************************************************************************)
EXTENDS AuthService

VARIABLE loggedOut  \* history: the keys whose logged-in session a logout has deleted

\* A logout leaves the request its auth data; the purge of from_session does not.
LogoutCommits(r) ==
  /\ CommitPurged(r)
  /\ inner[r].data # None /\ inner[r].user = None
  /\ Store!Held(key[r]) /\ entry[key[r]].state.auth # None

NoteLogouts ==
  loggedOut' = loggedOut \cup {key[r] : r \in {q \in Requests : LogoutCommits(q)}}

LogoutSpec ==
  Init /\ loggedOut = {} /\ [][Next /\ NoteLogouts]_<<vars, loggedOut>>

\* tests/integration-test.rs:152: a client which keeps the cookie from before
\* the logout "is still logged out: the session is destroyed in the store".
LogoutIsFinal ==
  \A k \in loggedOut : Store!Live(k) => entry[k].state.auth = None
=============================================================================
