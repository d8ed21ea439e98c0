------------------------------ MODULE OAuthFlow ------------------------------
(***************************************************************************)
(* Signing in with an OAuth provider (src/examples/oauth2).  The login     *)
(* handler leaves a CSRF state and the page that was asked for in the      *)
(* session and sends the browser to the provider; the callback finds both  *)
(* in whatever session its own request carries, after other tabs, logouts, *)
(* expiries and lost responses.  The operations of the application; they   *)
(* take their steps in MultiAuth, which is oauth2 as long as nobody in its *)
(* users table has a password.                                             *)
(***************************************************************************)
EXTENDS WebSession

CONSTANTS Attempts,   \* CSRF states, one for each time the login form is sent
          Pages,      \* the pages a login form may ask to come back to
          NextUrl,    \* the page each attempt asks for, None for the home page
          Passwords, Tokens   \* what a row of the users table may hold

VARIABLES rows,       \* the users table: a row or None for each username
          codes,      \* provider: what became of the code for each attempt and user
          step,       \* where each request in flight stands
          query,      \* the callback's query: the state and whose the code is
          token,      \* the access token the provider has given it
          starter,    \* history: the client each attempt was made for, None before
          completed,  \* history: the attempts a callback has logged in for
          landing     \* history: where the request sends its browser

flowVars == <<rows, codes, step, query, token, starter, completed, landing>>
vars == <<sessionVars, flowVars>>

\* What the application keeps in the session.  The state stays after the login.
Pending == [csrf : Attempts, next : Opt(Pages)]

Row == [password : Opt(Passwords), access_token : Opt(Tokens)]

Home == "/"

Empty == "empty"   \* the hash of a row that has neither token nor password

ASSUME OAuthAssumption ==
  /\ AppData = Pending
  /\ Hashes = Passwords \cup Tokens \cup {Empty}
  /\ NextUrl \in [Attempts -> Opt(Pages)]
  /\ None \notin Row
  /\ Home \notin Pages

\* A token outranks a password; oauth2 has tokens only.
session_auth_hash(row) ==
  CASE row.access_token # None -> row.access_token
    [] row.access_token = None /\ row.password # None -> row.password
    [] OTHER -> Empty

get_user ==
  [u \in Users |-> IF rows[u] = None THEN None
                   ELSE [id |-> u, hash |-> session_auth_hash(rows[u])]]

\* Where a request may stand; the last two are multi-auth's.
Steps == {"idle", "answer", "400", "401", "exchange", "persist", "password", "verify"}

FlowInit ==
  /\ SessionInit
  /\ codes = [a \in Attempts |-> [u \in Users |-> "none"]]
  /\ step = [r \in Requests |-> "idle"]
  /\ query = [r \in Requests |-> None]
  /\ token = [r \in Requests |-> None]
  /\ starter = [a \in Attempts |-> None]
  /\ completed = {}
  /\ landing = [r \in Requests |-> None]

WithApp(session, app) == Write(session, [session.state EXCEPT !.app = app])

-----------------------------------------------------------------------------
(* web/auth.rs                                                              *)

\* Mutant: the page of an attempt that is under way is kept.
PendingKept(session, a) ==
  IF session.state.app = None THEN [csrf |-> a, next |-> NextUrl[a]]
                              ELSE [csrf |-> a, next |-> session.state.app.next]

PendingFor(session, a) == [csrf |-> a, next |-> NextUrl[a]]

\* authorize_url draws a state nobody has seen and the two inserts follow; on a
\* purged session they have no effect.
post_login(r, c, a) ==
  LET i == Incoming(c, get_user)
  IN  /\ starter[a] = None
      /\ starter' = [starter EXCEPT ![a] = c]
      /\ Enter(r, c, [i EXCEPT !.session = WithApp(@, PendingFor(@, a))])
      /\ step' = [step EXCEPT ![r] = "answer"]
      /\ UNCHANGED <<rows, codes, query, token, completed, landing>>

get_logout(r, c) ==
  /\ Enter(r, c, logout(Incoming(c, get_user)))
  /\ step' = [step EXCEPT ![r] = "answer"]
  /\ UNCHANGED <<rows, codes, query, token, starter, completed, landing>>

\* Any other page.
visit(r, c) ==
  /\ Enter(r, c, Incoming(c, get_user))
  /\ step' = [step EXCEPT ![r] = "answer"]
  /\ UNCHANGED <<rows, codes, query, token, starter, completed, landing>>

-----------------------------------------------------------------------------
(* The provider.                                                            *)

\* User u agrees, and gets a code to come back with.
approve(a, u) ==
  /\ starter[a] # None /\ codes[a][u] # "valid"
  /\ codes' = [codes EXCEPT ![a][u] = "valid"]
  /\ UNCHANGED <<sessionVars, rows, step, query, token, starter, completed, landing>>

-----------------------------------------------------------------------------
(* web/oauth.rs and users.rs                                                *)

\* Mutant: the comparison is the wrong way round.
DifferentState(old_state, new_state) == old_state # new_state

SameState(old_state, new_state) == old_state = new_state

\* The callback up to its first await.  Whoever holds the link may follow it, and
\* more than once.
callback(r, c, a, u) ==
  LET i == Incoming(c, get_user)
      app == i.session.state.app
      status == IF app = None THEN "400"
                ELSE IF SameState(app.csrf, a) THEN "exchange" ELSE "401"
  IN  /\ codes[a][u] # "none"
      /\ Enter(r, c, i)
      /\ query' = [query EXCEPT ![r] = [state |-> a, subject |-> u]]
      /\ step' = [step EXCEPT ![r] = status]
      /\ UNCHANGED <<rows, codes, token, starter, completed, landing>>

\* A code is good for one token.
exchange_code(r) ==
  /\ step[r] = "exchange"
  /\ codes[query[r].state][query[r].subject] = "valid"
  /\ codes' = [codes EXCEPT ![query[r].state][query[r].subject] = "used"]
  /\ \E t \in Tokens : token' = [token EXCEPT ![r] = t]
  /\ step' = [step EXCEPT ![r] = "persist"]
  /\ UNCHANGED <<sessionVars, rows, query, starter, completed, landing>>

\* The provider or the database fails: the answer is 500.
authenticate_fails(r) ==
  /\ step[r] \in {"exchange", "persist"}
  /\ step' = [step EXCEPT ![r] = "answer"]
  /\ UNCHANGED <<sessionVars, rows, codes, query, token, starter, completed, landing>>

\* insert into users ... on conflict(username) do update set access_token
Upserted(row, t) ==
  [password |-> IF row = None THEN None ELSE row.password, access_token |-> t]

\* remove_as takes the page out of the session, whether it is one or null.
Landing(session) ==
  IF session.state.app = None THEN Home
  ELSE IF session.state.app.next = None THEN Home ELSE session.state.app.next

\* Mutant: what is removed is the value of the state.
RemoveState(session) ==
  IF session.state.app = None THEN session
  ELSE WithApp(session, [session.state.app EXCEPT !.csrf = None])

RemoveNext(session) ==
  IF session.state.app = None THEN session
  ELSE WithApp(session, [session.state.app EXCEPT !.next = None])

\* The user's row is written, and the callback goes on to its end.
persist_and_login(r) ==
  LET u == query[r].subject
      row == Upserted(rows[u], token[r])
      i == login(inner[r], [id |-> u, hash |-> session_auth_hash(row)])
  IN  /\ step[r] = "persist"
      /\ rows' = [rows EXCEPT ![u] = row]
      /\ inner' = [inner EXCEPT ![r] = [i EXCEPT !.session = RemoveNext(@)]]
      /\ landing' = [landing EXCEPT ![r] = Landing(i.session)]
      /\ completed' = completed \cup {query[r].state}
      /\ step' = [step EXCEPT ![r] = "answer"]
      /\ UNCHANGED <<entry, jar, who, key, codes, query, token, starter>>

-----------------------------------------------------------------------------
ForgetRequest(r) ==
  /\ step' = [step EXCEPT ![r] = "idle"]
  /\ query' = [query EXCEPT ![r] = None]
  /\ token' = [token EXCEPT ![r] = None]
  /\ landing' = [landing EXCEPT ![r] = None]
  /\ UNCHANGED <<rows, codes, starter, completed>>

answer(r) ==
  /\ step[r] \in {"answer", "400", "401"}
  /\ Commit(r, "OnStateChanges")
  /\ ForgetRequest(r)

dropped(r) == Fail(r) /\ ForgetRequest(r)

expire == Expire /\ UNCHANGED flowVars

-----------------------------------------------------------------------------
(* Properties.                                                              *)

\* Sessions hold nothing but auth data and pending attempts, rows and requests
\* keep to their types.
TypeOK ==
  /\ SessionTypeOK
  /\ rows \in [Users -> Opt(Row)]
  /\ step \in [Requests -> Steps]
  /\ query \in [Requests -> Opt([state : Opt(Attempts), subject : Users])]
  /\ token \in [Requests -> Opt(Tokens)]
  /\ landing \in [Requests -> Opt(Pages \cup {Home})]

\* A callback goes on to sign somebody in only where the attempt it answers was
\* begun: "Ensure the CSRF state has not been tampered with" (users.rs:104),
\* across renewed, overwritten and expired sessions.
OnlyOwnAttempts ==
  \A r \in Requests :
    step[r] \in {"exchange", "persist"} => starter[query[r].state] = who[r]

\* A callback lands on the page of its own attempt, never on that of another tab;
\* on the home page only if the attempt asked for none, or once it has been
\* completed before.
LandsOnOwnPage ==
  [][\A r \in Requests :
       landing[r] = None /\ landing'[r] # None =>
         LET a == query[r].state
         IN  \/ landing'[r] = NextUrl[a]
             \/ landing'[r] = Home /\ (NextUrl[a] = None \/ a \in completed)]_vars

\* A browser that comes back with the state of its own attempt is told "Invalid
\* CSRF state" (oauth.rs:58) only if it has begun another attempt.
RefusedOnlyIfOvertaken ==
  \A r \in Requests :
    step[r] = "401" /\ starter[query[r].state] = who[r] =>
      \E b \in Attempts \ {query[r].state} : starter[b] = who[r]
=============================================================================
