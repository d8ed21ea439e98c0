----------------------------- MODULE FlashMessages -----------------------------
(***************************************************************************)
(* Flash messages kept in the session (src/examples/sqlite): a login       *)
(* leaves one for the page that is shown next.  The framework's middleware *)
(* stands inside AuthManager and around every page; it loads the messages  *)
(* of a request before its handler runs and stores the new ones after it,  *)
(* in the request's own copy of the session.                               *)
(***************************************************************************)
EXTENDS PasswordUsers

VARIABLES step,        \* where each request in flight stands
          incoming,    \* IncomingFlashMessages
          outgoing,    \* the message the handler has sent
          shown,       \* the message on the page it answers
          sent,        \* history: the messages sent so far
          settled      \* history: those that an answered request had loaded

flashVars ==
  <<sessionVars, passwords, checked, step, incoming, outgoing, shown, sent, settled>>

\* What the application keeps in a session: one for each FlashMessage that is sent.
\* No handler sends more than one, and it replaces those before.
Messages == AppData

FlashInit ==
  /\ SessionInit /\ UsersInit
  /\ step = [r \in Requests |-> "idle"]
  /\ incoming = [r \in Requests |-> None]
  /\ outgoing = [r \in Requests |-> None]
  /\ shown = [r \in Requests |-> None]
  /\ sent = {} /\ settled = {}

-----------------------------------------------------------------------------
(* SessionMessageStore.                                                     *)

load(session) == session.state.app

WithApp(session, app) == Write(session, [session.state EXCEPT !.app = app])

\* Mutant: nothing is cleared up.
storeNew(session, message) ==
  IF message = None THEN session ELSE WithApp(session, message)

\* Mutant: an absent key is removed as well.
storeAlways(session, message) == WithApp(session, message)

\* Mutant: an empty list is inserted like any other.
storeEmpty(session, message) ==
  WithApp(session, IF message = None THEN "[]" ELSE message)

\* Messages that were there are cleared up, those of the handler are inserted.
store(session, message) ==
  IF message = None /\ session.state.app = None THEN session ELSE WithApp(session, message)

-----------------------------------------------------------------------------
(* A request comes in; its handler answers at once or is left waiting.      *)

\* The framework around a handler that has turned inner i into j, with message m
\* to send and p on its page.
Answers(r, c, i, j, p) ==
  /\ Enter(r, c, [j EXCEPT !.session = store(@, None)])
  /\ incoming' = [incoming EXCEPT ![r] = load(i.session)]
  /\ shown' = [shown EXCEPT ![r] = p]
  /\ step' = [step EXCEPT ![r] = "answer"]
  /\ UNCHANGED <<passwords, checked, outgoing, sent>>

get_login(r, c) ==
  LET i == Incoming(c, get_user)
  IN  Answers(r, c, i, i, load(i.session))

sqlite_get_logout(r, c) ==
  LET i == Incoming(c, get_user)
  IN  Answers(r, c, i, logout(i), None)

\* Behind Require: without a user, a redirect and nothing on the page.
protected(r, c) ==
  LET i == Incoming(c, get_user)
  IN  Answers(r, c, i, i, IF i.user = None THEN None ELSE load(i.session))

\* Any other path is a 404, and a form that cannot be read is refused, inside the
\* same middleware.
not_found(r, c) ==
  LET i == Incoming(c, get_user)
  IN  Answers(r, c, i, i, None)

sqlite_post_login(r, c, u) ==
  LET i == Incoming(c, get_user)
  IN  /\ Enter(r, c, i)
      /\ incoming' = [incoming EXCEPT ![r] = load(i.session)]
      /\ ReadRow(r, u)
      /\ step' = [step EXCEPT ![r] = "verify"]
      /\ UNCHANGED <<passwords, outgoing, shown, sent>>

\* The handler of the login form is done, with AuthSession i and message m.
Sends(r, i, m) ==
  /\ step[r] = "verify"
  /\ inner' = [inner EXCEPT ![r] = [i EXCEPT !.session = store(@, m)]]
  /\ outgoing' = [outgoing EXCEPT ![r] = m]
  /\ sent' = sent \cup ({m} \ {None})
  /\ step' = [step EXCEPT ![r] = "answer"]
  /\ UNCHANGED <<entry, jar, who, key, passwords, checked, incoming, shown>>

sqlite_login_succeeds(r, m) == m \notin sent /\ Sends(r, login(inner[r], checked[r]), m)

login_refused(r, m) == m \notin sent /\ Sends(r, inner[r], m)

login_error(r) == Sends(r, inner[r], None)

-----------------------------------------------------------------------------
Forget(r) ==
  /\ step' = [step EXCEPT ![r] = "idle"]
  /\ checked' = [checked EXCEPT ![r] = None]
  /\ incoming' = [incoming EXCEPT ![r] = None]
  /\ outgoing' = [outgoing EXCEPT ![r] = None]
  /\ shown' = [shown EXCEPT ![r] = None]
  /\ UNCHANGED <<passwords, sent>>

sqlite_answer(r) == step[r] = "answer" /\ Commit(r, "OnEveryRequest") /\ Forget(r)

sqlite_dropped(r) == Fail(r) /\ Forget(r)

sqlite_expire == Expire /\ UNCHANGED <<passwords, step, checked, incoming, outgoing, shown, sent>>

change_password(u, p) ==
  /\ passwords[u] # p
  /\ passwords' = [passwords EXCEPT ![u] = p]
  /\ UNCHANGED <<sessionVars, step, checked, incoming, outgoing, shown, sent>>

Quiet ==
  \/ \E r \in Requests, c \in Clients :
       \/ get_login(r, c) \/ sqlite_get_logout(r, c) \/ protected(r, c) \/ not_found(r, c)
       \/ \E u \in Users : sqlite_post_login(r, c, u)
  \/ \E r \in Requests :
       \/ \E m \in Messages : sqlite_login_succeeds(r, m) \/ login_refused(r, m)
       \/ login_error(r) \/ sqlite_dropped(r)
  \/ sqlite_expire
  \/ \E u \in Users, p \in Hashes : change_password(u, p)

FlashNext ==
  \/ Quiet /\ UNCHANGED settled
  \/ \E r \in Requests :
       sqlite_answer(r) /\ settled' = settled \cup ({incoming[r]} \ {None})

FlashSpec == FlashInit /\ [][FlashNext]_flashVars

-----------------------------------------------------------------------------
(* Properties.                                                              *)

\* Sessions keep auth data and a message, and a page shows no message that the
\* framework has not loaded.
FlashTypeOK ==
  /\ SessionTypeOK /\ UsersTypeOK
  /\ step \in [Requests -> {"idle", "verify", "answer"}]
  /\ incoming \in [Requests -> Opt(Messages)]
  /\ outgoing \in [Requests -> Opt(Messages)]
  /\ shown \in [Requests -> Opt(Messages)]
  /\ \A r \in Requests : shown[r] \in {None, incoming[r]}
  /\ settled \subseteq sent

\* Once a request that has loaded a message is answered, no session holds that
\* message any more, though other requests may have loaded it before and write
\* their own copies of the session back ("Clear up previously displayed
\* messages", sessions.rs:223): nobody sees it again in a later request.
SettledIsGone ==
  \A k \in Keys : entry[k] # None => entry[k].state.app \notin settled

\* "removing an absent key would mark every session as changed"
\* (sessions.rs:224): a request that found no message and sent none ends without
\* touching what others have written to a session, short of logging out or in.
SilentRequestsKeepSessions ==
  [][\A r \in Requests :
       /\ step[r] # "idle" /\ step'[r] = "idle"
       /\ incoming[r] = None /\ outgoing[r] = None
       => \A k \in Keys :
            entry[k] # None /\ entry'[k] # None => entry'[k].state = entry[k].state]_flashVars
=============================================================================
