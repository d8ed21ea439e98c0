--------------------------- MODULE SessionFixation ---------------------------
(***************************************************************************)
(* The "Session-fixation mitigation" of session.rs:182 under concurrency:  *)
(* AuthService with a record of the keys of anonymous sessions.            *)
(***************************************************************************)
EXTENDS AuthService

VARIABLE anonymous  \* history: the keys that ever stood for a session without auth data

NoteAnonymous ==
  anonymous' = anonymous \cup
    {k \in Keys : entry'[k] # None /\ entry'[k].state.auth = None}

FixationSpec ==
  Init /\ anonymous = {} /\ [][Next /\ NoteAnonymous]_<<vars, anonymous>>

\* A key that has ever stood for an anonymous session never comes to stand for
\* a logged-in one, not even through a late write of a concurrent request: a
\* login moves the session to a new key.
NoSessionFixation ==
  \A k \in anonymous : Store!Held(k) => entry[k].state.auth = None

\* A key is anonymous or logged in for life: what the store holds under it and
\* what the requests may still write back to it agree on which.
KindOfKeyIsFixed ==
  /\ \A k \in anonymous : k \in Keys /\ owner[k] # None
  /\ \A k \in Keys : Store!Held(k) =>
       (entry[k].state.auth = None <=> k \in anonymous)
  /\ \A r \in Requests :
       /\ stage[r] \in {"verify", "handle"} /\ key[r] # None
       /\ Status(r) \in {"Unchanged", "Changed"}
       => (inner[r].session.state.auth = None <=> key[r] \in anonymous)
=============================================================================
