----------------------------- MODULE AuthService -----------------------------
(***************************************************************************)
(* Requests of several clients on their way through the session middleware *)
(* and AuthManager (src/actix-login/src/service.rs) to a handler and back, *)
(* all over one session store and one user backend.  Each await of that    *)
(* path is a point where other requests run, so a request advances one     *)
(* await at a time:                                                        *)
(*                                                                         *)
(*   Arrive -> Load -> GetUser -> handler calls -> Commit* -> Deliver      *)
(*                                                                         *)
(* Between Load and the commit a request works on its own copy of the      *)
(* session.                                                                *)
(***************************************************************************)
EXTENDS AuthSession

CONSTANTS Clients, Requests, Keys,
          OnEveryRequest   \* TtlExtensionPolicy: does a request that changes
                           \* nothing extend the time to live?

VARIABLES users,     \* backend: the current hash of each user, None if there is no such user
          entry,     \* session store
          owner,     \* the client each session key was made for, None before
          jar,       \* the session cookie each client holds
          stage,     \* how far each request has got
          client,    \* who sent it
          key,       \* the session key the middleware works with
          inner,     \* AuthSession: session, user, data
          found,     \* the user the backend has authenticated for the handler
          cookie     \* what the response does to the client's session cookie

requestVars == <<stage, client, key, inner, found, cookie>>
vars == <<users, entry, owner, jar, requestVars>>

Stages == {"new", "load", "verify", "handle", "save", "respond", "done"}

Keep == "keep"       \* a response without Set-Cookie

ASSUME AuthServiceAssumption ==
  /\ OnEveryRequest \in BOOLEAN
  /\ None \notin Users \cup Hashes \cup AppData \cup Clients \cup Keys
  /\ Keep \notin Opt(Keys)
  /\ None \notin User /\ None \notin Data
  /\ None \notin [state : State, live : BOOLEAN]

Store == INSTANCE SessionStore WITH States <- State

NoInner == NewInner(Loaded(EmptyState), None, None)

UserOf(u) == IF users[u] = None THEN None ELSE [id |-> u, hash |-> users[u]]

Init ==
  /\ users \in [Users -> Hashes]
  /\ Store!StoreInit
  /\ owner = [k \in Keys |-> None]
  /\ jar = [c \in Clients |-> None]
  /\ stage = [r \in Requests |-> "new"]
  /\ client = [r \in Requests |-> None]
  /\ key = [r \in Requests |-> None]
  /\ inner = [r \in Requests |-> NoInner]
  /\ found = [r \in Requests |-> None]
  /\ cookie = [r \in Requests |-> Keep]

-----------------------------------------------------------------------------
(* Towards the handler.                                                     *)

\* A client sends a request with the cookie it holds at that moment.
Arrive(r, c) ==
  /\ stage[r] = "new"
  /\ stage' = [stage EXCEPT ![r] = "load"]
  /\ client' = [client EXCEPT ![r] = c]
  /\ key' = [key EXCEPT ![r] = jar[c]]
  /\ UNCHANGED <<users, entry, owner, jar, inner, found, cookie>>

\* AuthManager::call up to its await: with a user id in the session it goes
\* on to ask the backend, otherwise from_session is done.
Begin(r, state) ==
  /\ stage' = [stage EXCEPT ![r] = IF state.auth = None THEN "handle" ELSE "verify"]
  /\ inner' = [inner EXCEPT ![r] =
       IF state.auth = None THEN from_session(Loaded(state), None)
                            ELSE [NoInner EXCEPT !.session = Loaded(state)]]
  /\ UNCHANGED <<users, owner, jar, client, found, cookie>>

\* A key under which nothing is found is discarded.
Load(r) ==
  /\ stage[r] = "load"
  /\ \/ key[r] = None /\ Begin(r, EmptyState) /\ UNCHANGED <<entry, key>>
     \/ /\ key[r] # None
        /\ \/ /\ Store!Load(key[r], None)
              /\ key' = [key EXCEPT ![r] = None]
              /\ Begin(r, EmptyState)
           \/ /\ Store!Answer(key[r]) # None
              /\ Store!Load(key[r], Store!Answer(key[r]))
              /\ Begin(r, Store!Answer(key[r]))
              /\ UNCHANGED key

\* Mutant: a session whose user is gone is not provided for.
GetUserKnown(r) ==
  /\ stage[r] = "verify"
  /\ UserOf(inner[r].session.state.auth.user_id) # None
  /\ stage' = [stage EXCEPT ![r] = "handle"]
  /\ inner' = [inner EXCEPT ![r] =
       from_session(@.session, UserOf(@.session.state.auth.user_id))]
  /\ UNCHANGED <<users, entry, owner, jar, client, key, found, cookie>>

\* The backend's answer decides what from_session makes of the session.
GetUser(r) ==
  /\ stage[r] = "verify"
  /\ stage' = [stage EXCEPT ![r] = "handle"]
  /\ inner' = [inner EXCEPT ![r] =
       from_session(@.session, UserOf(@.session.state.auth.user_id))]
  /\ UNCHANGED <<users, entry, owner, jar, client, key, found, cookie>>

-----------------------------------------------------------------------------
(* What handlers do with the session, in any order and any number of times. *)

HandlerOnly == UNCHANGED <<users, entry, owner, jar, stage, client, key, cookie>>

\* The credentials of u check out against the backend of this moment.
authenticate(r, u) ==
  /\ stage[r] = "handle"
  /\ UserOf(u) # None
  /\ found' = [found EXCEPT ![r] = UserOf(u)]
  /\ UNCHANGED inner /\ HandlerOnly

Login(r) ==
  /\ stage[r] = "handle"
  /\ found[r] # None
  /\ inner' = [inner EXCEPT ![r] = login(@, found[r])]
  /\ found' = [found EXCEPT ![r] = None]
  /\ HandlerOnly

Logout(r) ==
  /\ stage[r] = "handle"
  /\ inner' = [inner EXCEPT ![r] = logout(@)]
  /\ UNCHANGED found /\ HandlerOnly

\* The application inserts or removes a value of its own.
WriteAppData(r, a) ==
  /\ stage[r] = "handle"
  /\ inner' = [inner EXCEPT ![r].session = Write(@, [@.state EXCEPT !.app = a])]
  /\ UNCHANGED found /\ HandlerOnly

-----------------------------------------------------------------------------
(* The session middleware once the handler has answered.                    *)

Respond(r, setCookie) ==
  /\ stage' = [stage EXCEPT ![r] = "respond"]
  /\ cookie' = [cookie EXCEPT ![r] = setCookie]
  /\ UNCHANGED <<users, jar, client, key, inner, found>>

\* Mutant: the key generator repeats a key that is free again.
SaveReusingKey(r) ==
  \E k \in Keys :
    /\ owner' = [owner EXCEPT ![k] = client[r]]
    /\ Store!Save(k, inner[r].session.state)
    /\ Respond(r, k)

\* The generator of session keys never repeats itself.
SaveFresh(r) ==
  \E k \in Keys :
    /\ owner[k] = None
    /\ owner' = [owner EXCEPT ![k] = client[r]]
    /\ Store!Save(k, inner[r].session.state)
    /\ Respond(r, k)

Status(r) == inner[r].session.status

\* Without a key there is nothing to replace: only a state worth keeping is saved.
CommitNew(r) ==
  /\ stage[r] = "handle" /\ key[r] = None
  /\ \/ inner[r].session.state # EmptyState /\ SaveFresh(r)
     \/ /\ inner[r].session.state = EmptyState
        /\ Respond(r, Keep)
        /\ UNCHANGED <<entry, owner>>

CommitChanged(r) ==
  /\ stage[r] = "handle" /\ key[r] # None
  /\ Status(r) = "Changed"
  /\ Store!Update(key[r], inner[r].session.state)
  /\ Respond(r, key[r])
  /\ UNCHANGED owner

CommitPurged(r) ==
  /\ stage[r] = "handle" /\ key[r] # None
  /\ Status(r) = "Purged"
  /\ Store!Delete(key[r])
  /\ Respond(r, None)
  /\ UNCHANGED owner

\* Renewal deletes the old record in one call and saves under a new key in another.
CommitRenewed(r) ==
  /\ stage[r] = "handle" /\ key[r] # None
  /\ Status(r) = "Renewed"
  /\ Store!Delete(key[r])
  /\ stage' = [stage EXCEPT ![r] = "save"]
  /\ UNCHANGED <<users, owner, jar, client, key, inner, found, cookie>>

SaveRenewed(r) == stage[r] = "save" /\ SaveFresh(r)

CommitUnchanged(r) ==
  /\ stage[r] = "handle" /\ key[r] # None
  /\ Status(r) = "Unchanged"
  /\ IF OnEveryRequest
     THEN Store!UpdateTtl(key[r]) /\ Respond(r, key[r])
     ELSE UNCHANGED entry /\ Respond(r, Keep)
  /\ UNCHANGED owner

Commit(r) ==
  \/ CommitNew(r) \/ CommitChanged(r) \/ CommitPurged(r)
  \/ CommitRenewed(r) \/ CommitUnchanged(r)
-----------------------------------------------------------------------------
(* The end of a request, and what happens around the requests.              *)

\* The local state of the requests in R is dropped with them.
End(R) ==
  /\ stage' = [r \in Requests |-> IF r \in R THEN "done" ELSE stage[r]]
  /\ client' = [r \in Requests |-> IF r \in R THEN None ELSE client[r]]
  /\ key' = [r \in Requests |-> IF r \in R THEN None ELSE key[r]]
  /\ inner' = [r \in Requests |-> IF r \in R THEN NoInner ELSE inner[r]]
  /\ found' = [r \in Requests |-> IF r \in R THEN None ELSE found[r]]
  /\ cookie' = [r \in Requests |-> IF r \in R THEN Keep ELSE cookie[r]]

\* The response reaches the client.
Deliver(r) ==
  /\ stage[r] = "respond"
  /\ jar' = IF cookie[r] = Keep THEN jar ELSE [jar EXCEPT ![client[r]] = cookie[r]]
  /\ End({r})
  /\ UNCHANGED <<users, entry, owner>>

InFlight(r) == stage[r] \notin {"new", "done"}

\* The await the request is in ends it: the store or the backend fails (an
\* error response that leaves session and cookie alone), or the connection
\* is lost and the request's future dropped, or the response with it.
Fail(r) ==
  /\ InFlight(r)
  /\ End({r})
  /\ UNCHANGED <<users, entry, owner, jar>>

\* The backend's record of u changes: a new password or access token, a user
\* removed, a user added.
ChangeUser(u, h) ==
  /\ users[u] # h
  /\ users' = [users EXCEPT ![u] = h]
  /\ UNCHANGED <<entry, owner, jar, requestVars>>

TimePasses ==
  /\ \E k \in Keys : Store!Lapse({k}) \/ Store!Collect({k})
  /\ UNCHANGED <<users, owner, jar, requestVars>>

\* The process restarts over a store that keeps nothing.
Restart ==
  /\ Store!Clear
  /\ End({r \in Requests : InFlight(r)})
  /\ UNCHANGED <<users, owner, jar>>

Handler(r) ==
  \/ \E u \in Users : authenticate(r, u)
  \/ Login(r) \/ Logout(r)
  \/ \E a \in Opt(AppData) : WriteAppData(r, a)

Server(r) == Load(r) \/ GetUser(r) \/ Commit(r) \/ SaveRenewed(r) \/ Deliver(r)

Next ==
  \/ \E r \in Requests, c \in Clients : Arrive(r, c)
  \/ \E r \in Requests : Server(r) \/ Handler(r) \/ Fail(r)
  \/ \E u \in Users, h \in Opt(Hashes) : ChangeUser(u, h)
  \/ TimePasses \/ Restart

Spec == Init /\ [][Next]_vars

\* The executor polls every request whose await is ready, the awaited calls
\* return, and a handler does not run for ever.
FairSpec == Spec /\ \A r \in Requests : WF_vars(Server(r))

-----------------------------------------------------------------------------
(* Properties.                                                              *)

\* The local state of requests, the store, the cookies and the backend all
\* keep to their types: no commit writes half a session or an unknown key.
TypeOK ==
  /\ users \in [Users -> Opt(Hashes)]
  /\ Store!StoreTypeOK
  /\ owner \in [Keys -> Opt(Clients)]
  /\ jar \in [Clients -> Opt(Keys)]
  /\ stage \in [Requests -> Stages]
  /\ client \in [Requests -> Opt(Clients)]
  /\ key \in [Requests -> Opt(Keys)]
  /\ inner \in [Requests -> Inner]
  /\ found \in [Requests -> Opt(User)]
  /\ cookie \in [Requests -> Opt(Keys) \cup {Keep}]

\* Session keys are never mixed up between clients: what is stored, what a
\* cookie names, what a request works with and what a response hands out all
\* go back to the client the key was made for.
KeysStayWithClients ==
  /\ \A k \in Keys : Store!Held(k) => owner[k] # None
  /\ \A c \in Clients : jar[c] # None => owner[jar[c]] = c
  /\ \A r \in Requests :
       /\ InFlight(r) => client[r] # None
       /\ InFlight(r) /\ key[r] # None => owner[key[r]] = client[r]
       /\ cookie[r] \in Keys => stage[r] = "respond" /\ owner[cookie[r]] = client[r]

\* The user a handler sees, the auth data the request goes by and the copy in
\* the session it will write back are the same until the session is purged,
\* through any order of logins, logouts and writes.
CopyMatchesData ==
  \A r \in Requests :
    /\ stage[r] = "verify" =>
         Status(r) = "Unchanged" /\ inner[r].session.state.auth # None
    /\ stage[r] \in {"handle", "save"} =>
         /\ Status(r) # "Purged" => inner[r].session.state.auth = inner[r].data
         /\ inner[r].user # None => inner[r].data = DataOf(inner[r].user)

\* Nobody works on the session that was under k, or could still write it back.
Closed(k) ==
  /\ owner[k] # None /\ ~Store!Held(k)
  /\ \A r \in Requests : key[r] = k => stage[r] \notin {"verify", "handle"}

\* A session that is gone (logged out, renewed, expired and dropped, lost in a
\* restart) with no request left that had loaded it is gone for good, whatever
\* cookies still name its key: the middleware discards a key it finds nothing
\* under.
ClosedStaysClosed == [][\A k \in Keys : Closed(k) => Closed(k)']_vars

Answering(r) == stage[r] # "respond" /\ stage'[r] = "respond"

\* The session a response leaves with its client names the user the handler
\* last saw: auth data loaded, overwritten and renewed on the way is never
\* mixed with another login's.  What a purge leaves is LoginIsKept's subject.
ResponseCarriesUser ==
  [][\A r \in Requests :
       Answering(r) /\ inner[r].user # None /\ Status(r) \in {"Changed", "Renewed"} =>
         /\ cookie'[r] \in Keys
         /\ entry'[cookie'[r]].state.auth = DataOf(inner[r].user)]_vars

\* session.rs:174 says that login "Updates the session such that the user is
\* logged in": with a user in the request, the response does not destroy the
\* session it answers with.
LoginIsKept ==
  [][\A r \in Requests :
       Answering(r) /\ inner[r].user # None => cookie'[r] # None]_vars

\* Every request comes to its end: no order of awaits, commits and concurrent
\* sessions leaves one waiting.
RequestsEnd == \A r \in Requests : stage[r] = "load" ~> stage[r] = "done"
=============================================================================
