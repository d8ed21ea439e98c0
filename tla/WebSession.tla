----------------------------- MODULE WebSession -----------------------------
(***************************************************************************)
(* What the example applications stand on: requests that load a session,   *)
(* work on their own copy of it and commit it with their response, over    *)
(* actix-session, AuthManager and one store.  AuthService takes this path  *)
(* await by await; here a request comes in with one step and goes out with *)
(* another, and the awaits of its handler are in between.                  *)
(***************************************************************************)
EXTENDS AuthSession

CONSTANTS Clients, Requests, Keys

VARIABLES entry,  \* session store
          jar,    \* the session cookie each client holds
          who,    \* the client of each request in flight, None otherwise
          key,    \* the session key it works with
          inner   \* its AuthSession

sessionVars == <<entry, jar, who, key, inner>>

Store == INSTANCE SessionStore WITH States <- State

NoInner == NewInner(Loaded(EmptyState), None, None)

ASSUME SessionAssumption == None \notin Clients \cup Keys \cup User \cup AppData

SessionInit ==
  /\ Store!StoreInit
  /\ jar = [c \in Clients |-> None]
  /\ who = [r \in Requests |-> None]
  /\ key = [r \in Requests |-> None]
  /\ inner = [r \in Requests |-> NoInner]

SessionTypeOK ==
  /\ Store!StoreTypeOK
  /\ jar \in [Clients -> Opt(Keys)]
  /\ who \in [Requests -> Opt(Clients)]
  /\ key \in [Requests -> Opt(Keys)]
  /\ inner \in [Requests -> Inner]

-----------------------------------------------------------------------------
(* A request of client c comes in.                                          *)

LoadedState(c) == IF jar[c] = None THEN None ELSE Store!Answer(jar[c])

\* AuthManager::call, given the backend's get_user.
Incoming(c, get_user) ==
  LET state == LoadedState(c)
      user == IF state.auth = None THEN None ELSE get_user[state.auth.user_id]
  IN  IF state = None THEN NoInner ELSE from_session(Loaded(state), user)

\* The middleware discards a key under which it finds nothing.
IncomingKey(c) == IF LoadedState(c) = None THEN None ELSE jar[c]

\* Request r of c, whose handler has got as far as i.
Enter(r, c, i) ==
  /\ who[r] = None
  /\ who' = [who EXCEPT ![r] = c]
  /\ key' = [key EXCEPT ![r] = IncomingKey(c)]
  /\ inner' = [inner EXCEPT ![r] = i]
  /\ UNCHANGED <<entry, jar>>

-----------------------------------------------------------------------------
(* It goes out again.                                                       *)

End(r) ==
  /\ who' = [who EXCEPT ![r] = None]
  /\ key' = [key EXCEPT ![r] = None]
  /\ inner' = [inner EXCEPT ![r] = NoInner]

\* The cookie of the response, which may get lost on its way.
SetCookie(r, k) ==
  /\ jar' \in {jar, [jar EXCEPT ![who[r]] = k]}
  /\ End(r)

\* A key nobody has heard of.
Fresh(k) ==
  /\ ~Store!Held(k)
  /\ \A c \in Clients : jar[c] # k
  /\ \A r \in Requests : key[r] # k

Status(r) == inner[r].session.status
StateOf(r) == inner[r].session.state

CommitNew(r) ==
  /\ key[r] = None
  /\ \/ /\ StateOf(r) = EmptyState
        /\ End(r) /\ UNCHANGED <<entry, jar>>
     \/ /\ StateOf(r) # EmptyState
        /\ \E k \in Keys : Fresh(k) /\ Store!Save(k, StateOf(r)) /\ SetCookie(r, k)

CommitChanged(r) ==
  /\ key[r] # None /\ Status(r) = "Changed"
  /\ Store!Update(key[r], StateOf(r))
  /\ SetCookie(r, key[r])

CommitPurged(r) ==
  /\ key[r] # None /\ Status(r) = "Purged"
  /\ Store!Delete(key[r])
  /\ SetCookie(r, None)

\* The record is deleted in one call and saved under a new key in another.
CommitRenewed(r) ==
  /\ key[r] # None /\ Status(r) = "Renewed"
  /\ \E k \in Keys :
       /\ Fresh(k)
       /\ entry' = [entry EXCEPT ![key[r]] = None,
                                 ![k] = [state |-> StateOf(r), live |-> TRUE]]
       /\ SetCookie(r, k)

CommitUnchanged(r, policy) ==
  /\ key[r] # None /\ Status(r) = "Unchanged"
  /\ \/ policy = "OnEveryRequest" /\ Store!UpdateTtl(key[r]) /\ SetCookie(r, key[r])
     \/ policy = "OnStateChanges" /\ End(r) /\ UNCHANGED <<entry, jar>>

\* Each application has the TtlExtensionPolicy it is built with.
Commit(r, policy) ==
  /\ who[r] # None
  /\ \/ CommitNew(r) \/ CommitChanged(r) \/ CommitPurged(r)
     \/ CommitRenewed(r) \/ CommitUnchanged(r, policy)

\* The request is dropped, or the store fails: between the two calls of a
\* renewal too.
Fail(r) ==
  /\ who[r] # None
  /\ \/ UNCHANGED entry
     \/ key[r] # None /\ Status(r) = "Renewed" /\ Store!Delete(key[r])
  /\ End(r)
  /\ UNCHANGED jar

Expire ==
  /\ \E k \in Keys : Store!Lapse({k}) \/ Store!Collect({k})
  /\ UNCHANGED <<jar, who, key, inner>>
=============================================================================
