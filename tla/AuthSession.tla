----------------------------- MODULE AuthSession -----------------------------
(***************************************************************************)
(* src/actix-login/src/session.rs: what AuthSession keeps for one request  *)
(* and how its methods change that.  A user is an id with the hash its     *)
(* sessions are bound to; the session keeps a copy of both, the auth data. *)
(***************************************************************************)
EXTENDS ActixSession, Options

CONSTANTS Users,     \* user ids
          Hashes,    \* session_auth_hash values
          AppData    \* what the application itself keeps in a session

User == [id : Users, hash : Hashes]

Data == [user_id : Users, auth_hash : Hashes]

\* The session state: the auth data under data_key, the application's beside
\* it.  update_session is only reached with both halves of the auth data set,
\* so that Data::default() is the same as no auth data.
State == [auth : Opt(Data), app : Opt(AppData)]

EmptyState == [auth |-> None, app |-> None]

Session == [status : SessionStatus, state : State]

Inner == [session : Session, user : Opt(User), data : Opt(Data)]

\* Mutant: the hash is left out of the auth data.
DataOfWithoutHash(user) == [user_id |-> user.id, auth_hash |-> None]

DataOf(user) == [user_id |-> user.id, auth_hash |-> user.hash]

NewInner(session, user, data) ==
  [session |-> session, user |-> user, data |-> data]

\* Mutant: the hash in the session is not compared.
VerifiedAlways(data, user) == TRUE

\* The session's copy of the auth data matches the user it names.
Verified(data, user) == data.auth_hash = user.hash

-----------------------------------------------------------------------------
\* Mutant: the purge of a session that fails the check is forgotten.
fromSessionWithoutPurge(session, user) ==
  LET data == session.state.auth
  IN  IF user # None /\ ~Verified(data, user)
      THEN NewInner(session, None, None)
      ELSE NewInner(session, user, data)

\* from_session once get_user has answered `user' for the id in the session,
\* or was not asked for want of an id.
from_session(session, user) ==
  LET data == session.state.auth
  IN  IF user # None /\ ~Verified(data, user)
      THEN NewInner(Purge(EmptyState), None, None)
      ELSE NewInner(session, user, data)

update_session(session, data) ==
  Write(session, [session.state EXCEPT !.auth = data])

\* Mutant: a login keeps the session under its key.
loginWithoutRenewal(inner, user) ==
  NewInner(update_session(inner.session, DataOf(user)), user, DataOf(user))

\* Mutant: auth data already there is not overwritten.
loginKeepingData(inner, user) ==
  LET session == IF inner.data = None THEN Renew(inner.session) ELSE inner.session
      data == IF inner.data = None THEN DataOf(user) ELSE inner.data
  IN  NewInner(update_session(session, data), user, data)

\* The session is renewed only if no auth hash was there before.
login(inner, user) ==
  LET session == IF inner.data = None THEN Renew(inner.session) ELSE inner.session
  IN  NewInner(update_session(session, DataOf(user)), user, DataOf(user))

\* The auth data the request holds outlives the logout.
logout(inner) == [inner EXCEPT !.user = None, !.session = Purge(EmptyState)]
=============================================================================
