------------------------------ MODULE MultiAuth ------------------------------
(***************************************************************************)
(* Signing in with a password or with an OAuth provider, whichever the     *)
(* user has (src/examples/multi-auth): the handlers of OAuthFlow, and a    *)
(* login form that is checked against the same row, slowly and on another  *)
(* thread.                                                                 *)
(***************************************************************************)
EXTENDS OAuthFlow

VARIABLES checked,    \* the row a password is being checked against, by request
          overtaken   \* history: the users whose row has changed since a request came in

multiVars == <<vars, checked, overtaken>>

Candidate == [id : Users, row : Row]

ASSUME MultiAuthAssumption == None \notin Candidate

MultiInit ==
  /\ FlowInit
  /\ rows \in [Users -> {None} \cup [password : Passwords, access_token : {None}]]
  /\ checked = [r \in Requests |-> None]
  /\ overtaken = [r \in Requests |-> {}]

-----------------------------------------------------------------------------
(* web/auth.rs and the password branch of users.rs.                         *)

password(r, c, u) ==
  /\ Enter(r, c, Incoming(c, get_user))
  /\ query' = [query EXCEPT ![r] = [state |-> None, subject |-> u]]
  /\ step' = [step EXCEPT ![r] = "password"]
  /\ UNCHANGED <<rows, codes, token, starter, completed, landing, checked>>

\* Mutant: "and password is not null" is left out.
HasRow(u) == rows[u] # None

HasPassword(u) == rows[u] # None /\ rows[u].password # None

\* select * from users where username = ? and password is not null
select_user(r) ==
  LET u == query[r].subject
  IN  /\ step[r] = "password"
      /\ \/ /\ HasPassword(u)
            /\ checked' = [checked EXCEPT ![r] = [id |-> u, row |-> rows[u]]]
            /\ step' = [step EXCEPT ![r] = "verify"]
         \/ /\ ~HasPassword(u)
            /\ step' = [step EXCEPT ![r] = "answer"]
            /\ UNCHANGED checked
      /\ UNCHANGED <<sessionVars, rows, codes, query, token, starter, completed, landing>>

\* Mutant: the auth hash is the password's even for a user with a token.
UserOfPassword(candidate) == [id |-> candidate.id, hash |-> candidate.row.password]

\* The row as it was read is the user that is logged in.
UserOf(candidate) == [id |-> candidate.id, hash |-> session_auth_hash(candidate.row)]

\* spawn_blocking has found the password right.
login_with_password(r) ==
  /\ step[r] = "verify"
  /\ inner' = [inner EXCEPT ![r] = login(@, UserOf(checked[r]))]
  /\ checked' = [checked EXCEPT ![r] = None]
  /\ step' = [step EXCEPT ![r] = "answer"]
  /\ UNCHANGED <<entry, jar, who, key, rows, codes, query, token, starter, completed, landing>>

\* The password is wrong, or the database or the thread fails.
password_refused(r) ==
  /\ step[r] \in {"password", "verify"}
  /\ checked' = [checked EXCEPT ![r] = None]
  /\ step' = [step EXCEPT ![r] = "answer"]
  /\ UNCHANGED <<sessionVars, rows, codes, query, token, starter, completed, landing>>

\* web/oauth.rs and the OAuth branch of users.rs are those of oauth2.
oauth(r, c, a) == post_login(r, c, a) /\ UNCHANGED checked
oauth_callback(r, c, a, u) == callback(r, c, a, u) /\ UNCHANGED checked
oauth_authenticate(r) ==
  /\ exchange_code(r) \/ authenticate_fails(r) \/ persist_and_login(r)
  /\ UNCHANGED checked

\* A user gets a new password, by whatever means there are.
change_password(u, p) ==
  /\ rows[u] # None /\ rows[u].password # p
  /\ rows' = [rows EXCEPT ![u] = [password |-> p, access_token |-> rows[u].access_token]]
  /\ UNCHANGED <<sessionVars, codes, step, query, token, starter, completed, landing, checked>>

Otherwise ==
  \/ \E r \in Requests, c \in Clients : get_logout(r, c) \/ visit(r, c)
  \/ \E r \in Requests : answer(r)
  \/ \E a \in Attempts, u \in Users : approve(a, u)
  \/ expire

MultiStep ==
  \/ \E r \in Requests, c \in Clients :
       \/ \E u \in Users : password(r, c, u)
       \/ \E a \in Attempts : oauth(r, c, a)
       \/ \E a \in Attempts, u \in Users : oauth_callback(r, c, a, u)
  \/ \E r \in Requests :
       \/ select_user(r) \/ login_with_password(r) \/ password_refused(r)
       \/ oauth_authenticate(r)
       \/ dropped(r) /\ checked' = [checked EXCEPT ![r] = None]
  \/ \E u \in Users, p \in Passwords : change_password(u, p)
  \/ Otherwise /\ UNCHANGED checked

NoteChanges ==
  overtaken' = [r \in Requests |->
    IF who'[r] = None THEN {} ELSE overtaken[r] \cup {u \in Users : rows'[u] # rows[u]}]

MultiSpec == MultiInit /\ [][MultiStep /\ NoteChanges]_multiVars

-----------------------------------------------------------------------------
(* Properties.                                                              *)

\* A password is only ever checked against a row that has one.
MultiTypeOK ==
  /\ checked \in [Requests -> Opt(Candidate)]
  /\ overtaken \in [Requests -> SUBSET Users]
  /\ \A r \in Requests :
       /\ step[r] = "verify" <=> checked[r] # None
       /\ checked[r] # None => checked[r].row.password # None

\* Whoever a request is seen as, by a session or by a login just made, goes by
\* the hash of the user's row, unless that row has changed under the request: a
\* password login of a user with a token is bound to the token
\* (users.rs:41-51), and a session bound to what the row held before is not
\* accepted.
UserGoesByRow ==
  \A r \in Requests :
    LET u == inner[r].user
    IN  u # None /\ u.id \notin overtaken[r] =>
          /\ rows[u.id] # None
          /\ inner[r].data = [user_id |-> u.id, auth_hash |-> session_auth_hash(rows[u.id])]
=============================================================================
