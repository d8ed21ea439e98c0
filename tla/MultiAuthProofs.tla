--------------------------- MODULE MultiAuthProofs ---------------------------
(***************************************************************************)
(* Sign-ins with a provider end where they were begun, and sessions go by  *)
(* the user's row: for any numbers of browsers, requests, attempts, users, *)
(* passwords and tokens.                                                   *)
(***************************************************************************)
EXTENDS MultiAuth, WebSessionProofs

\* What a session of client c may hold for a sign-in, given who has begun which
\* attempt and which are completed: an attempt of c, with the page it asks for as
\* long as nobody has come back for that.
BegunBy(state, c, begun, done) ==
  state.app # None =>
    LET a == state.app.csrf
    IN  /\ a \in Attempts /\ begun[a] = c
        /\ \/ state.app.next = NextUrl[a]
           \/ state.app.next = None /\ a \in done

\* It goes for every session that client c or a request of its may still find, and
\* for every copy a request works on.
BegunHere ==
  /\ \A c \in Clients : jar[c] # None /\ entry[jar[c]] # None =>
       BegunBy(entry[jar[c]].state, c, starter, completed)
  /\ \A r \in Requests : who[r] # None =>
       /\ BegunBy(inner[r].session.state, who[r], starter, completed)
       /\ key[r] # None /\ entry[key[r]] # None =>
            BegunBy(entry[key[r]].state, who[r], starter, completed)

\* Where a callback or a password login stands tells what it carries.
Carries(r) ==
  LET app == inner[r].session.state.app
  IN  /\ who[r] = None => step[r] = "idle"
      /\ step[r] \in {"exchange", "persist", "401", "password", "verify"} =>
           query[r] \in [state : Opt(Attempts), subject : Users]
      /\ step[r] \in {"exchange", "persist", "401"} =>
           query[r].state \in Attempts /\ app # None
      /\ step[r] \in {"exchange", "persist"} => app.csrf = query[r].state
      /\ step[r] = "401" => app.csrf # query[r].state
      /\ step[r] = "persist" => token[r] \in Tokens

\* The candidate ch of a password login is the user's row, unless the user is in S.
ReadFrom(ch, S, table) == ch # None /\ ch.id \notin S => table[ch.id] = ch.row

RowIsRead == \A r \in Requests : ReadFrom(checked[r], overtaken[r], rows)

FlowTypeOK ==
  /\ TypeOK /\ MultiTypeOK
  /\ codes \in [Attempts -> [Users -> {"none", "valid", "used"}]]
  /\ starter \in [Attempts -> Opt(Clients)]
  /\ completed \subseteq Attempts

FlowInv ==
  /\ FlowTypeOK /\ KeysApart /\ BegunHere /\ RowIsRead /\ UserGoesByRow
  /\ \A r \in Requests : Carries(r)

-----------------------------------------------------------------------------
(* Users and rows.                                                          *)

\* What UserGoesByRow says of AuthSession i.
GoesByRow(i, S, table) ==
  i.user # None /\ i.user.id \notin S =>
    /\ table[i.user.id] # None
    /\ i.data = [user_id |-> i.user.id, auth_hash |-> session_auth_hash(table[i.user.id])]

LEMMA HashType ==
  ASSUME NEW row \in Row
  PROVE  session_auth_hash(row) \in Hashes
BY OAuthAssumption DEF session_auth_hash, Row, Opt

LEMMA get_userType ==
  ASSUME TypeOK
  PROVE  get_user \in [Users -> Opt(User)]
<1>1. ASSUME NEW u \in Users, rows[u] # None
      PROVE  [id |-> u, hash |-> session_auth_hash(rows[u])] \in User
  BY <1>1, HashType DEF TypeOK, Opt, User
<1>2. QED
  BY <1>1 DEF get_user, Opt

LEMMA IncomingGoesByRow ==
  ASSUME TypeOK, NEW c \in Clients, NEW S
  PROVE  GoesByRow(Incoming(c, get_user), S, rows)
<1>1. CASE LoadedState(c) = None
  BY <1>1 DEF Incoming, GoesByRow, NoInner, NewInner
<1>2. CASE LoadedState(c) # None
  <2> DEFINE state == LoadedState(c)
             u == state.auth.user_id
             user == IF state.auth = None THEN None ELSE get_user[u]
  <2>1. state \in State
    <3>1. jar[c] \in Keys
      BY <1>2 DEF LoadedState, TypeOK, SessionTypeOK, Opt
    <3>2. QED
      BY <1>2, <3>1 DEF LoadedState, Store!Answer, Store!Live, Store!Held, Store!Entry,
                        TypeOK, SessionTypeOK, Store!StoreTypeOK
  <2>2. Incoming(c, get_user) = from_session(Loaded(state), user)
    BY <1>2 DEF Incoming
  <2>3. CASE user = None \/ ~Verified(state.auth, user)
    BY <2>2, <2>3 DEF from_session, Loaded, NewInner, GoesByRow
  <2>4. CASE user # None /\ Verified(state.auth, user)
    <3>1. state.auth \in Data
      BY <2>1, <2>4 DEF State, Opt
    <3>2. rows[u] # None /\ user = [id |-> u, hash |-> session_auth_hash(rows[u])]
      BY <2>4, <3>1 DEF get_user, Data
    <3>3. state.auth = [user_id |-> u, auth_hash |-> session_auth_hash(rows[u])]
      BY <2>4, <3>1, <3>2 DEF Verified, Data
    <3>4. from_session(Loaded(state), user) = NewInner(Loaded(state), user, state.auth)
      BY <2>4 DEF from_session, Loaded
    <3>5. QED
      BY <2>2, <3>2, <3>3, <3>4 DEF NewInner, GoesByRow
  <2>5. QED
    BY <2>3, <2>4
<1>3. QED
  BY <1>1, <1>2

\* What a request keeps of the rows it has read stays true, or the change of the row
\* is noted.
LEMMA RowsFollow ==
  ASSUME FlowInv, NoteChanges, NEW q \in Requests, who'[q] = who[q]
  PROVE  /\ inner'[q] = inner[q] => GoesByRow(inner'[q], overtaken'[q], rows')
         /\ checked'[q] = checked[q] => ReadFrom(checked'[q], overtaken'[q], rows')
<1>1. inner[q] \in Inner /\ inner[q].user \in Opt(User) /\ checked[q] \in Opt(Candidate)
  BY DEF FlowInv, FlowTypeOK, TypeOK, SessionTypeOK, MultiTypeOK, Inner
<1>2. /\ inner[q].user # None => inner[q].user.id \in Users
      /\ checked[q] # None => checked[q].id \in Users
  BY <1>1 DEF User, Candidate, Opt
<1>3. GoesByRow(inner[q], overtaken[q], rows) /\ ReadFrom(checked[q], overtaken[q], rows)
  BY DEF FlowInv, UserGoesByRow, RowIsRead, GoesByRow
<1>4. CASE who[q] = None
  <2>1. inner[q].user = None
    BY <1>4 DEF FlowInv, KeysApart, NoInner, NewInner
  <2>2. checked[q] = None
    BY <1>4 DEF FlowInv, FlowTypeOK, MultiTypeOK, Carries
  <2>3. QED
    BY <2>1, <2>2 DEF GoesByRow, ReadFrom
<1>5. CASE who[q] # None
  <2>1. overtaken'[q] = overtaken[q] \cup {u \in Users : rows'[u] # rows[u]}
    BY <1>5 DEF NoteChanges
  <2>2. QED
    BY <1>2, <1>3, <2>1 DEF GoesByRow, ReadFrom
<1>6. QED
  BY <1>4, <1>5

LEMMA OvertakenType ==
  ASSUME FlowInv, NoteChanges
  PROVE  overtaken' \in [Requests -> SUBSET Users]
BY DEF NoteChanges, FlowInv, FlowTypeOK, MultiTypeOK

-----------------------------------------------------------------------------
(* Attempts and their sessions.                                             *)

\* Attempts are begun once, and stay completed.
HistoryGrows ==
  /\ \A a \in Attempts : starter[a] # None => starter'[a] = starter[a]
  /\ completed \subseteq completed'

LEMMA BegunStays ==
  ASSUME HistoryGrows, NEW state, NEW c \in Clients, BegunBy(state, c, starter, completed)
  PROVE  BegunBy(state, c, starter', completed')
BY SessionAssumption DEF HistoryGrows, BegunBy

LEMMA WhoType ==
  ASSUME SessionTypeOK, NEW r \in Requests, who[r] # None
  PROVE  who[r] \in Clients
BY DEF SessionTypeOK, Opt

\* An application's write to a session leaves the attempt that is there or puts its
\* own in its place; a login writes beside it; a logout leaves none.
LEMMA MethodsBegun ==
  ASSUME NEW i \in Inner, NEW c, NEW S, NEW D, BegunBy(i.session.state, c, S, D)
  PROVE  /\ BegunBy(logout(i).session.state, c, S, D)
         /\ \A u \in User : /\ login(i, u) \in Inner
                            /\ login(i, u).session.state.app = i.session.state.app
                            /\ BegunBy(login(i, u).session.state, c, S, D)
<1>1. BegunBy(logout(i).session.state, c, S, D)
  BY DEF logout, Purge, EmptyState, BegunBy, Inner
<1>2. ASSUME NEW u \in User
      PROVE  /\ login(i, u) \in Inner
             /\ login(i, u).session.state.app = i.session.state.app
  <2>1. login(i, u) \in Inner
    BY CallType
  <2>2. i.session \in Session /\ i.session.state \in State
    BY DEF Inner, Session
  <2>3. /\ Renew(i.session).state = i.session.state /\ Renew(i.session) \in Session
    BY <2>2 DEF Renew, Session, SessionStatus
  <2>4. \A session \in Session :
          update_session(session, DataOf(u)).state.app = session.state.app
    BY DEF update_session, Write, Session, State
  <2>5. QED
    BY <2>1, <2>2, <2>3, <2>4 DEF login, NewInner
<1>3. QED
  BY <1>1, <1>2 DEF BegunBy

LEMMA IncomingBegun ==
  ASSUME FlowInv, NEW c \in Clients
  PROVE  BegunBy(Incoming(c, get_user).session.state, c, starter, completed)
BY IncomingOf DEF FlowInv, BegunHere, BegunBy, EmptyState

LEMMA EnterBegun ==
  ASSUME FlowInv, HistoryGrows, NEW r \in Requests, NEW c \in Clients, NEW i, Enter(r, c, i),
         BegunBy(i.session.state, c, starter', completed')
  PROVE  BegunHere'
<1>1. /\ entry' = entry /\ jar' = jar /\ who' = [who EXCEPT ![r] = c]
      /\ inner' = [inner EXCEPT ![r] = i]
      /\ key' = [key EXCEPT ![r] = IncomingKey(c)] /\ IncomingKey(c) \in {None, jar[c]}
  BY IncomingOf DEF Enter
<1>2. SessionTypeOK
  BY DEF FlowInv, FlowTypeOK, TypeOK
<1>3. ASSUME NEW d \in Clients, jar[d] # None, entry[jar[d]] # None
      PROVE  BegunBy(entry[jar[d]].state, d, starter', completed')
  BY <1>3, BegunStays DEF FlowInv, BegunHere
<1>4. ASSUME NEW q \in Requests, who'[q] # None
      PROVE  /\ BegunBy(inner'[q].session.state, who'[q], starter', completed')
             /\ key'[q] # None /\ entry'[key'[q]] # None =>
                  BegunBy(entry'[key'[q]].state, who'[q], starter', completed')
  <2>1. CASE q = r
    BY <1>1, <1>2, <1>3, <2>1 DEF SessionTypeOK
  <2>2. CASE q # r
    <3>1. /\ who'[q] = who[q] /\ key'[q] = key[q] /\ inner'[q] = inner[q]
          /\ who[q] \in Clients
      BY <1>1, <1>2, <1>4, <2>2, WhoType DEF SessionTypeOK
    <3>2. QED
      BY <1>1, <1>4, <3>1, BegunStays DEF FlowInv, BegunHere
  <2>3. QED
    BY <2>1, <2>2
<1>5. QED
  BY <1>1, <1>3, <1>4 DEF BegunHere

LEMMA WorkBegun ==
  ASSUME FlowInv, HistoryGrows, UNCHANGED <<entry, jar, who, key>>,
         \A q \in Requests : who[q] # None =>
           \/ inner'[q] = inner[q]
           \/ BegunBy(inner'[q].session.state, who[q], starter', completed')
  PROVE  BegunHere'
<1>1. SessionTypeOK
  BY DEF FlowInv, FlowTypeOK, TypeOK
<1>2. ASSUME NEW d \in Clients, jar[d] # None, entry[jar[d]] # None
      PROVE  BegunBy(entry[jar[d]].state, d, starter', completed')
  BY <1>2, BegunStays DEF FlowInv, BegunHere
<1>3. ASSUME NEW q \in Requests, who[q] # None
      PROVE  /\ BegunBy(inner'[q].session.state, who[q], starter', completed')
             /\ key[q] # None /\ entry[key[q]] # None =>
                  BegunBy(entry[key[q]].state, who[q], starter', completed')
  <2>1. who[q] \in Clients
    BY <1>1, <1>3, WhoType
  <2>2. QED
    BY <1>3, <2>1, BegunStays DEF FlowInv, BegunHere
<1>4. QED
  BY <1>2, <1>3 DEF BegunHere

\* The store's records change at most as a request leaves them or time does.
LEMMA LeaveBegun ==
  ASSUME FlowInv, NEW r \in Requests, who[r] # None, NEW k \in Opt(Keys), CommitsAs(r, k),
         UNCHANGED <<starter, completed>>
  PROVE  BegunHere'
<1>1. SessionTypeOK /\ who[r] \in Clients /\ BegunHere /\ KeysApart
  BY WhoType DEF FlowInv, FlowTypeOK, TypeOK
<1>2. /\ who' = [who EXCEPT ![r] = None] /\ key' = [key EXCEPT ![r] = None]
      /\ inner' = [inner EXCEPT ![r] = NoInner]
  BY DEF CommitsAs, End
<1>3. ASSUME NEW l \in Keys, NEW c \in Clients, entry'[l] # None,
             l = jar'[c] \/ (\E q \in Requests \ {r} : who[q] = c /\ l = key[q])
      PROVE  BegunBy(entry'[l].state, c, starter, completed)
  <2>1. CASE entry[l] # None /\ entry'[l].state = entry[l].state
    <3>1. \/ l = jar[c]
          \/ c = who[r] /\ l = key[r]
          \/ \E q \in Requests \ {r} : who[q] = c /\ l = key[q]
      BY <1>1, <1>3, <2>1, SessionAssumption
         DEF CommitsAs, SessionTypeOK, Fresh, Store!Held
    <3>2. QED
      BY <1>3, <2>1, <3>1, SessionAssumption DEF BegunHere, FlowInv
  <2>2. CASE l = k /\ entry'[l].state = StateOf(r)
    <3>1. c = who[r]
      BY <1>1, <1>3, <2>2, SessionAssumption DEF CommitsAs, SessionTypeOK, Fresh, KeysApart
    <3>2. QED
      BY <1>1, <2>2, <3>1 DEF BegunHere, StateOf
  <2>3. QED
    BY <1>3, <2>1, <2>2 DEF CommitsAs
<1>4. ASSUME NEW c \in Clients, jar'[c] # None, entry'[jar'[c]] # None
      PROVE  BegunBy(entry'[jar'[c]].state, c, starter, completed)
  <2>1. jar'[c] \in Keys
    BY <1>1, <1>4 DEF CommitsAs, SessionTypeOK, Opt
  <2>2. QED
    BY <1>3, <1>4, <2>1
<1>5. ASSUME NEW q \in Requests, who'[q] # None
      PROVE  /\ BegunBy(inner'[q].session.state, who'[q], starter, completed)
             /\ key'[q] # None /\ entry'[key'[q]] # None =>
                  BegunBy(entry'[key'[q]].state, who'[q], starter, completed)
  <2>1. /\ q # r /\ who'[q] = who[q] /\ key'[q] = key[q] /\ inner'[q] = inner[q]
        /\ who[q] \in Clients /\ key[q] \in Opt(Keys)
    BY <1>1, <1>2, <1>5, WhoType DEF SessionTypeOK
  <2>2. BegunBy(inner[q].session.state, who[q], starter, completed)
    BY <1>1, <1>5, <2>1 DEF BegunHere
  <2>3. ASSUME key[q] # None, entry'[key[q]] # None
        PROVE  BegunBy(entry'[key[q]].state, who[q], starter, completed)
    <3>1. key[q] \in Keys
      BY <2>1, <2>3 DEF Opt
    <3>2. QED
      BY <1>3, <2>1, <2>3, <3>1
  <2>4. QED
    BY <2>1, <2>2, <2>3
<1>6. QED
  BY <1>4, <1>5 DEF BegunHere

LEMMA TimeBegun ==
  ASSUME FlowInv, Expire, UNCHANGED <<starter, completed>>
  PROVE  BegunHere'
<1>1. SessionTypeOK /\ UNCHANGED <<jar, who, key, inner>>
  BY ExpireLeaves DEF FlowInv, FlowTypeOK, TypeOK
<1>2. ASSUME NEW l \in Opt(Keys), l # None, entry'[l] # None
      PROVE  entry[l] # None /\ entry'[l].state = entry[l].state
  BY <1>1, <1>2, ExpireLeaves DEF Opt
<1>3. QED
  BY <1>1, <1>2 DEF FlowInv, BegunHere, SessionTypeOK

-----------------------------------------------------------------------------
(* Every step keeps the invariant.                                          *)

\* All of it but what Carries and the types of the application's variables say.
SessionsInv ==
  /\ SessionTypeOK /\ KeysApart /\ BegunHere /\ RowIsRead /\ UserGoesByRow
  /\ overtaken \in [Requests -> SUBSET Users]

\* A request comes in, and its handler has turned its AuthSession into i.
LEMMA EnterInv ==
  ASSUME FlowInv, NoteChanges, HistoryGrows, NEW r \in Requests, NEW c \in Clients,
         NEW i \in Inner, Enter(r, c, i), BegunBy(i.session.state, c, starter', completed'),
         LET j == Incoming(c, get_user) IN i.user # None => i.user = j.user /\ i.data = j.data,
         UNCHANGED <<rows, checked>>
  PROVE  /\ SessionsInv'
         /\ who[r] = None /\ who'[r] = c /\ inner'[r] = i
         /\ \A q \in Requests \ {r} : who'[q] = who[q] /\ inner'[q] = inner[q]
<1>1. TypeOK /\ SessionTypeOK /\ KeysApart
  BY DEF FlowInv, FlowTypeOK, TypeOK
<1>2. /\ who[r] = None /\ who'[r] = c /\ inner'[r] = i
      /\ \A q \in Requests \ {r} : who'[q] = who[q] /\ inner'[q] = inner[q]
  BY <1>1 DEF Enter, SessionTypeOK
<1>3. SessionTypeOK' /\ KeysApart' /\ BegunHere'
  BY <1>1, get_userType, EnterType, EnterApart, EnterBegun
<1>4. GoesByRow(inner'[r], overtaken'[r], rows')
  <2>1. GoesByRow(Incoming(c, get_user), overtaken'[r], rows)
    BY <1>1, IncomingGoesByRow
  <2>2. QED
    BY <1>2, <2>1 DEF GoesByRow
<1>5. checked[r] = None
  BY <1>2 DEF FlowInv, FlowTypeOK, MultiTypeOK, Carries
<1>6. /\ overtaken' \in [Requests -> SUBSET Users]
      /\ RowIsRead' /\ UserGoesByRow'
  <2>1. ASSUME NEW q \in Requests
        PROVE  /\ GoesByRow(inner'[q], overtaken'[q], rows')
               /\ ReadFrom(checked'[q], overtaken'[q], rows')
    BY <1>2, <1>4, <1>5, RowsFollow DEF ReadFrom
  <2>2. QED
    BY <2>1, OvertakenType DEF RowIsRead, UserGoesByRow, GoesByRow
<1>7. QED
  BY <1>2, <1>3, <1>6 DEF SessionsInv

LEMMA PasswordInv ==
  ASSUME FlowInv, NoteChanges, NEW r \in Requests, NEW c \in Clients, NEW u \in Users,
         password(r, c, u)
  PROVE  FlowInv'
<1> DEFINE i == Incoming(c, get_user)
<1>1. i \in Inner /\ BegunBy(i.session.state, c, starter', completed') /\ HistoryGrows
  BY get_userType, IncomingType, IncomingBegun
     DEF FlowInv, FlowTypeOK, TypeOK, password, HistoryGrows
<1> HIDE DEF i
<1>2. Enter(r, c, i) /\ UNCHANGED <<rows, checked>>
  BY DEF i, password
<1>3. /\ SessionsInv'
      /\ who[r] = None /\ who'[r] = c
      /\ \A q \in Requests \ {r} : who'[q] = who[q] /\ inner'[q] = inner[q]
  BY <1>1, <1>2, EnterInv DEF i
<1>4. /\ query' = [query EXCEPT ![r] = [state |-> None, subject |-> u]]
      /\ step' = [step EXCEPT ![r] = "password"]
      /\ UNCHANGED <<rows, codes, token, starter, completed, landing, checked>>
  BY DEF password
<1>5. checked[r] = None
  BY <1>3 DEF FlowInv, FlowTypeOK, MultiTypeOK, Carries
<1>6. FlowTypeOK'
  BY <1>3, <1>4, <1>5 DEF FlowInv, FlowTypeOK, TypeOK, MultiTypeOK, SessionsInv, Steps, Opt
<1>7. ASSUME NEW q \in Requests PROVE Carries(q)'
  BY <1>3, <1>4, SessionAssumption DEF FlowInv, FlowTypeOK, TypeOK, Carries, Opt
<1>8. QED
  BY <1>3, <1>6, <1>7 DEF FlowInv, SessionsInv

\* What a request comes in with is well-typed and its client's own.
LEMMA IncomingIsOwn ==
  ASSUME FlowInv, NEW c \in Clients
  PROVE  /\ Incoming(c, get_user) \in Inner
         /\ BegunBy(Incoming(c, get_user).session.state, c, starter, completed)
BY get_userType, IncomingType, IncomingBegun DEF FlowInv, FlowTypeOK, TypeOK

\* A callback knows whose attempt it has found in the session.
LEMMA OAuthCallbackInv ==
  ASSUME FlowInv, NoteChanges, NEW r \in Requests, NEW c \in Clients, NEW a \in Attempts,
         NEW u \in Users, oauth_callback(r, c, a, u)
  PROVE  FlowInv'
<1> DEFINE i == Incoming(c, get_user)
           app == i.session.state.app
           status == IF app = None THEN "400"
                     ELSE IF SameState(app.csrf, a) THEN "exchange" ELSE "401"
<1>1. /\ Enter(r, c, i) /\ step' = [step EXCEPT ![r] = status]
      /\ query' = [query EXCEPT ![r] = [state |-> a, subject |-> u]]
      /\ UNCHANGED <<rows, codes, token, starter, completed, landing, checked>>
  BY DEF oauth_callback, callback
<1>2. /\ i \in Inner /\ BegunBy(i.session.state, c, starter, completed)
      /\ app # None => app.csrf \in Attempts
  BY IncomingIsOwn DEF BegunBy
<1> HIDE DEF i
<1>3. /\ SessionsInv'
      /\ who[r] = None /\ who'[r] = c /\ inner'[r] = i
      /\ \A q \in Requests \ {r} : who'[q] = who[q] /\ inner'[q] = inner[q]
  BY <1>1, <1>2, EnterInv DEF i, HistoryGrows
<1>4. checked[r] = None
  BY <1>3 DEF FlowInv, FlowTypeOK, MultiTypeOK, Carries
<1>5. FlowTypeOK'
  BY <1>1, <1>3, <1>4 DEF FlowInv, FlowTypeOK, TypeOK, MultiTypeOK, SessionsInv, Steps, Opt
<1>6. ASSUME NEW q \in Requests PROVE Carries(q)'
  <2>1. CASE q = r
    BY <1>1, <1>3, <2>1, SessionAssumption
       DEF FlowInv, FlowTypeOK, TypeOK, Carries, SameState, Opt
  <2>2. CASE q # r
    BY <1>1, <1>3, <2>2 DEF FlowInv, FlowTypeOK, TypeOK, Carries
  <2>3. QED
    BY <2>1, <2>2
<1>7. QED
  BY <1>3, <1>5, <1>6 DEF FlowInv, SessionsInv

\* The requests that are answered at once.
LEMMA AnsweredInv ==
  ASSUME FlowInv, NoteChanges, HistoryGrows, NEW r \in Requests, NEW c \in Clients,
         NEW i \in Inner, Enter(r, c, i), BegunBy(i.session.state, c, starter', completed'),
         LET j == Incoming(c, get_user) IN i.user # None => i.user = j.user /\ i.data = j.data,
         step' = [step EXCEPT ![r] = "answer"], starter' \in [Attempts -> Opt(Clients)],
         UNCHANGED <<rows, codes, query, token, completed, landing, checked>>
  PROVE  FlowInv'
<1>1. /\ SessionsInv'
      /\ who[r] = None /\ who'[r] = c
      /\ \A q \in Requests \ {r} : who'[q] = who[q] /\ inner'[q] = inner[q]
  BY EnterInv
<1>2. checked[r] = None
  BY <1>1 DEF FlowInv, FlowTypeOK, MultiTypeOK, Carries
<1>3. FlowTypeOK'
  BY <1>1, <1>2 DEF FlowInv, FlowTypeOK, TypeOK, MultiTypeOK, SessionsInv, Steps, Opt
<1>4. ASSUME NEW q \in Requests PROVE Carries(q)'
  BY <1>1, SessionAssumption DEF FlowInv, FlowTypeOK, TypeOK, Carries
<1>5. QED
  BY <1>1, <1>3, <1>4 DEF FlowInv, SessionsInv

LEMMA OAuthInv ==
  ASSUME FlowInv, NoteChanges, NEW r \in Requests, NEW c \in Clients, NEW a \in Attempts,
         oauth(r, c, a)
  PROVE  FlowInv'
<1> DEFINE j == Incoming(c, get_user)
           session == WithApp(j.session, PendingFor(j.session, a))
           i == [j EXCEPT !.session = session]
<1>1. /\ starter[a] = None /\ starter' = [starter EXCEPT ![a] = c] /\ Enter(r, c, i)
      /\ step' = [step EXCEPT ![r] = "answer"]
      /\ UNCHANGED <<rows, codes, query, token, completed, landing, checked>>
  BY DEF oauth, post_login
<1>2. /\ starter' \in [Attempts -> Opt(Clients)] /\ starter'[a] = c /\ HistoryGrows
  BY <1>1 DEF FlowInv, FlowTypeOK, HistoryGrows, Opt
<1>3. j \in Inner /\ BegunBy(j.session.state, c, starter, completed)
  BY IncomingIsOwn
<1> HIDE DEF j
<1>4. PendingFor(j.session, a) \in AppData /\ PendingFor(j.session, a).next = NextUrl[a]
  BY OAuthAssumption DEF PendingFor, Pending
<1>5. session \in Session /\ BegunBy(session.state, c, starter', completed')
  <2>1. j.session \in Session /\ j.session.state \in State
    BY <1>3 DEF Inner, Session
  <2>2. CASE j.session.status = "Purged"
    <3>1. session = j.session
      BY <2>2 DEF WithApp, Write
    <3>2. QED
      BY <1>2, <1>3, <2>1, <3>1, BegunStays
  <2>3. CASE j.session.status # "Purged"
    <3> DEFINE state == [j.session.state EXCEPT !.app = PendingFor(j.session, a)]
    <3>1. state \in State /\ state.app = [csrf |-> a, next |-> NextUrl[a]]
      BY <1>4, <2>1 DEF State, Opt, PendingFor
    <3>2. session.state = state /\ session \in Session
      BY <2>1, <2>3, <3>1 DEF WithApp, Write, Session, SessionStatus
    <3>3. QED
      BY <1>2, <3>1, <3>2 DEF BegunBy
  <2>4. QED
    BY <2>2, <2>3
<1>6. i \in Inner /\ i.user = j.user /\ i.data = j.data /\ i.session = session
  BY <1>3, <1>5 DEF Inner
<1> HIDE DEF i, session
<1>7. QED
  BY <1>1, <1>2, <1>5, <1>6, AnsweredInv DEF j

LEMMA GetLogoutInv ==
  ASSUME FlowInv, NoteChanges, NEW r \in Requests, NEW c \in Clients, get_logout(r, c),
         UNCHANGED checked
  PROVE  FlowInv'
<1> DEFINE j == Incoming(c, get_user)
<1>1. j \in Inner /\ BegunBy(j.session.state, c, starter, completed)
  BY IncomingIsOwn
<1>2. /\ Enter(r, c, logout(j)) /\ step' = [step EXCEPT ![r] = "answer"]
      /\ UNCHANGED <<rows, codes, query, token, starter, completed, landing, checked>>
  BY DEF get_logout
<1> HIDE DEF j
<1>3. logout(j) \in Inner /\ logout(j).user = None
  BY <1>1, CallType DEF logout, Inner
<1>4. BegunBy(logout(j).session.state, c, starter, completed)
  BY <1>1, MethodsBegun
<1>5. QED
  BY <1>2, <1>3, <1>4, AnsweredInv DEF FlowInv, FlowTypeOK, HistoryGrows

LEMMA VisitInv ==
  ASSUME FlowInv, NoteChanges, NEW r \in Requests, NEW c \in Clients, visit(r, c),
         UNCHANGED checked
  PROVE  FlowInv'
BY IncomingIsOwn, AnsweredInv DEF visit, FlowInv, FlowTypeOK, HistoryGrows

\* A handler goes on after one of its awaits, with its AuthSession and its candidate
\* as it finds them or leaves them.
LEMMA WorkInv ==
  ASSUME FlowInv, NoteChanges, HistoryGrows, NEW r \in Requests, who[r] # None,
         UNCHANGED <<entry, jar, who, key>>, inner' \in [Requests -> Inner],
         \A q \in Requests \ {r} : inner'[q] = inner[q] /\ checked'[q] = checked[q],
         \/ inner'[r] = inner[r]
         \/ /\ BegunBy(inner'[r].session.state, who[r], starter', completed')
            /\ GoesByRow(inner'[r], overtaken'[r], rows'),
         \/ checked'[r] = checked[r]
         \/ ReadFrom(checked'[r], overtaken'[r], rows')
  PROVE  SessionsInv'
<1>1. SessionTypeOK' /\ KeysApart'
  BY SessionAssumption DEF FlowInv, FlowTypeOK, TypeOK, SessionTypeOK, KeysApart, Store!StoreTypeOK
<1>2. BegunHere'
  BY WorkBegun
<1>3. ASSUME NEW q \in Requests
      PROVE  /\ GoesByRow(inner'[q], overtaken'[q], rows')
             /\ ReadFrom(checked'[q], overtaken'[q], rows')
  BY RowsFollow
<1>4. QED
  BY <1>1, <1>2, <1>3, OvertakenType DEF SessionsInv, RowIsRead, UserGoesByRow, GoesByRow

LEMMA SelectUserInv ==
  ASSUME FlowInv, NoteChanges, NEW r \in Requests, select_user(r)
  PROVE  FlowInv'
<1> DEFINE u == query[r].subject
<1>1. /\ step[r] = "password" /\ UNCHANGED sessionVars
      /\ UNCHANGED <<rows, codes, query, token, starter, completed, landing>>
      /\ \/ /\ HasPassword(u)
            /\ checked' = [checked EXCEPT ![r] = [id |-> u, row |-> rows[u]]]
            /\ step' = [step EXCEPT ![r] = "verify"]
         \/ /\ step' = [step EXCEPT ![r] = "answer"]
            /\ UNCHANGED checked
  BY DEF select_user
<1>2. who[r] # None /\ u \in Users /\ checked[r] = None
  BY <1>1 DEF FlowInv, FlowTypeOK, MultiTypeOK, Carries
<1>3. HasPassword(u) => [id |-> u, row |-> rows[u]] \in Candidate
  BY <1>2 DEF HasPassword, FlowInv, FlowTypeOK, TypeOK, Candidate, Opt
<1>4. /\ inner' = inner /\ inner \in [Requests -> Inner]
      /\ \A q \in Requests \ {r} : checked'[q] = checked[q]
      /\ checked'[r] = checked[r] \/ checked'[r] = [id |-> u, row |-> rows[u]]
  BY <1>1 DEF sessionVars, FlowInv, FlowTypeOK, TypeOK, SessionTypeOK, MultiTypeOK
<1>5. SessionsInv'
  <2>1. checked'[r] = checked[r] \/ ReadFrom(checked'[r], overtaken'[r], rows')
    BY <1>1, <1>4 DEF ReadFrom
  <2>2. HistoryGrows /\ UNCHANGED <<entry, jar, who, key>>
    BY <1>1 DEF HistoryGrows, sessionVars
  <2>3. QED
    BY <1>2, <1>4, <2>1, <2>2, WorkInv
<1>6. MultiTypeOK'
  <2>1. CASE HasPassword(u) /\ step' = [step EXCEPT ![r] = "verify"]
             /\ checked' = [checked EXCEPT ![r] = [id |-> u, row |-> rows[u]]]
    BY <1>2, <1>3, <1>5, <2>1, MultiAuthAssumption
       DEF FlowInv, FlowTypeOK, TypeOK, MultiTypeOK, SessionsInv, HasPassword, Opt
  <2>2. CASE step' = [step EXCEPT ![r] = "answer"] /\ UNCHANGED checked
    BY <1>2, <1>5, <2>2 DEF FlowInv, FlowTypeOK, TypeOK, MultiTypeOK, SessionsInv
  <2>3. QED
    BY <1>1, <2>1, <2>2
<1>7. FlowTypeOK'
  BY <1>1, <1>5, <1>6 DEF FlowInv, FlowTypeOK, TypeOK, SessionsInv, Steps
<1>8. ASSUME NEW q \in Requests PROVE Carries(q)'
  BY <1>1, <1>2 DEF FlowInv, FlowTypeOK, TypeOK, Carries, sessionVars
<1>9. QED
  BY <1>5, <1>7, <1>8 DEF FlowInv, SessionsInv

\* The row that was read is what the login goes by.
LEMMA LoginWithPasswordInv ==
  ASSUME FlowInv, NoteChanges, NEW r \in Requests, login_with_password(r)
  PROVE  FlowInv'
<1> DEFINE user == UserOf(checked[r])
<1>1. /\ step[r] = "verify" /\ inner' = [inner EXCEPT ![r] = login(@, user)]
      /\ checked' = [checked EXCEPT ![r] = None] /\ step' = [step EXCEPT ![r] = "answer"]
      /\ UNCHANGED <<entry, jar, who, key, rows, codes, query, token, starter, completed, landing>>
  BY DEF login_with_password
<1>2. /\ who[r] # None /\ checked[r] \in Candidate /\ who[r] \in Clients
      /\ inner[r] \in Inner /\ BegunBy(inner[r].session.state, who[r], starter, completed)
  BY <1>1, WhoType
     DEF FlowInv, FlowTypeOK, TypeOK, MultiTypeOK, SessionTypeOK, Carries, BegunHere, Opt
<1>3. user \in User /\ user.id = checked[r].id /\ user.hash = session_auth_hash(checked[r].row)
  BY <1>2, HashType DEF UserOf, Candidate, User
<1> HIDE DEF user
<1>4. /\ login(inner[r], user) \in Inner
      /\ BegunBy(login(inner[r], user).session.state, who[r], starter, completed)
      /\ login(inner[r], user).user = user
      /\ login(inner[r], user).data = [user_id |-> user.id, auth_hash |-> user.hash]
  BY <1>2, <1>3, MethodsBegun DEF login, NewInner, DataOf
<1>5. /\ inner' \in [Requests -> Inner] /\ inner'[r] = login(inner[r], user)
      /\ checked'[r] = None
      /\ \A q \in Requests \ {r} : inner'[q] = inner[q] /\ checked'[q] = checked[q]
  BY <1>1, <1>4 DEF FlowInv, FlowTypeOK, TypeOK, SessionTypeOK, MultiTypeOK
<1>6. GoesByRow(inner'[r], overtaken'[r], rows')
  <2>1. checked[r].id \in Users /\ checked[r].row \in Row /\ checked[r] # None
    BY <1>2, MultiAuthAssumption DEF Candidate
  <2>2. overtaken[r] \subseteq overtaken'[r]
    BY <1>1, <1>2 DEF NoteChanges
  <2>3. user.id \notin overtaken'[r] => rows'[user.id] = checked[r].row
    BY <1>1, <1>3, <2>1, <2>2 DEF FlowInv, RowIsRead, ReadFrom
  <2>4. QED
    BY <1>3, <1>4, <1>5, <2>1, <2>3, OAuthAssumption DEF GoesByRow
<1>7. SessionsInv'
  <2>1. HistoryGrows /\ UNCHANGED <<entry, jar, who, key>>
    BY <1>1 DEF HistoryGrows
  <2>2. BegunBy(inner'[r].session.state, who[r], starter', completed')
    BY <1>1, <1>4, <1>5
  <2>3. QED
    BY <1>2, <1>5, <1>6, <2>1, <2>2, WorkInv DEF ReadFrom
<1>8. FlowTypeOK'
  BY <1>1, <1>7 DEF FlowInv, FlowTypeOK, TypeOK, MultiTypeOK, SessionsInv, Steps, Opt
<1>9. ASSUME NEW q \in Requests PROVE Carries(q)'
  BY <1>1, <1>2, <1>5 DEF FlowInv, FlowTypeOK, TypeOK, Carries
<1>10. QED
  BY <1>7, <1>8, <1>9 DEF FlowInv, SessionsInv

\* An authentication that fails leaves the session as it is.
LEMMA RefusedInv ==
  ASSUME FlowInv, NoteChanges, NEW r \in Requests, step[r] # "idle",
         step' = [step EXCEPT ![r] = "answer"],
         \/ checked' = [checked EXCEPT ![r] = None]
         \/ step[r] # "verify" /\ UNCHANGED checked,
         UNCHANGED <<sessionVars, rows, codes, query, token, starter, completed, landing>>
  PROVE  FlowInv'
<1>1. who[r] # None /\ inner \in [Requests -> Inner] /\ checked'[r] = None
      /\ \A q \in Requests \ {r} : checked'[q] = checked[q]
  BY DEF FlowInv, FlowTypeOK, TypeOK, SessionTypeOK, MultiTypeOK, Carries
<1>2. HistoryGrows /\ UNCHANGED <<entry, jar, who, key, inner>>
  BY DEF HistoryGrows, sessionVars
<1>3. SessionsInv'
  BY <1>1, <1>2, WorkInv DEF ReadFrom
<1>4. FlowTypeOK'
  BY <1>1, <1>3 DEF FlowInv, FlowTypeOK, TypeOK, MultiTypeOK, SessionsInv, Steps, Opt
<1>5. ASSUME NEW q \in Requests PROVE Carries(q)'
  BY <1>1, <1>2 DEF FlowInv, FlowTypeOK, TypeOK, Carries
<1>6. QED
  BY <1>3, <1>4, <1>5 DEF FlowInv, SessionsInv

LEMMA ExchangeCodeInv ==
  ASSUME FlowInv, NoteChanges, NEW r \in Requests, exchange_code(r), UNCHANGED checked
  PROVE  FlowInv'
<1>1. PICK t \in Tokens : token' = [token EXCEPT ![r] = t]
  BY DEF exchange_code
<1>2. /\ step[r] = "exchange" /\ step' = [step EXCEPT ![r] = "persist"]
      /\ codes' = [codes EXCEPT ![query[r].state][query[r].subject] = "used"]
      /\ UNCHANGED <<sessionVars, rows, query, starter, completed, landing>>
  BY DEF exchange_code
<1>3. who[r] # None /\ inner \in [Requests -> Inner]
  BY <1>2 DEF FlowInv, FlowTypeOK, TypeOK, SessionTypeOK, Carries
<1>4. HistoryGrows /\ UNCHANGED <<entry, jar, who, key, inner>>
  BY <1>2 DEF HistoryGrows, sessionVars
<1>5. SessionsInv'
  BY <1>3, <1>4, WorkInv
<1>6. codes' \in [Attempts -> [Users -> {"none", "valid", "used"}]]
  BY <1>2 DEF FlowInv, FlowTypeOK
<1>7. FlowTypeOK'
  BY <1>1, <1>2, <1>5, <1>6
     DEF FlowInv, FlowTypeOK, TypeOK, MultiTypeOK, SessionsInv, Steps, Opt
<1>8. ASSUME NEW q \in Requests PROVE Carries(q)'
  BY <1>1, <1>2, <1>4 DEF FlowInv, FlowTypeOK, TypeOK, Carries
<1>9. QED
  BY <1>5, <1>7, <1>8 DEF FlowInv, SessionsInv

\* What is left of an attempt once its page has been taken out.
LEMMA RemoveNextBegun ==
  ASSUME NEW session \in Session, NEW c, NEW S, NEW D, NEW a,
         BegunBy(session.state, c, S, D), session.state.app # None,
         session.state.app.csrf = a
  PROVE  /\ RemoveNext(session) \in Session
         /\ BegunBy(RemoveNext(session).state, c, S, D \cup {a})
<1>1. session.state \in State /\ session.state.app \in Pending /\ a \in Attempts /\ S[a] = c
  BY OAuthAssumption DEF Session, State, Opt, BegunBy
<1> DEFINE app == [session.state.app EXCEPT !.next = None]
           state == [session.state EXCEPT !.app = app]
<1>2. app \in AppData /\ app.csrf = a /\ app.next = None
  BY <1>1, OAuthAssumption DEF Pending, Opt
<1>3. state \in State /\ state.app = app
  BY <1>1, <1>2 DEF State, Opt
<1>4. RemoveNext(session) = Write(session, state)
  BY DEF RemoveNext, WithApp
<1> HIDE DEF state
<1>5. CASE session.status = "Purged"
  BY <1>4, <1>5 DEF Write, BegunBy
<1>6. CASE session.status # "Purged"
  <2>1. RemoveNext(session) \in Session /\ RemoveNext(session).state = state
    BY <1>3, <1>4, <1>6 DEF Write, Session, SessionStatus
  <2>2. QED
    BY <1>1, <1>2, <1>3, <2>1 DEF BegunBy
<1>7. QED
  BY <1>5, <1>6

\* The callback's login goes by the row it has just written, and its attempt has
\* been completed.
LEMMA PersistInv ==
  ASSUME FlowInv, NoteChanges, NEW r \in Requests, persist_and_login(r), UNCHANGED checked
  PROVE  FlowInv'
<1> DEFINE u == query[r].subject
           a == query[r].state
           row == Upserted(rows[u], token[r])
           user == [id |-> u, hash |-> session_auth_hash(row)]
           i == login(inner[r], user)
           j == [i EXCEPT !.session = RemoveNext(@)]
<1>1. /\ step[r] = "persist" /\ rows' = [rows EXCEPT ![u] = row]
      /\ inner' = [inner EXCEPT ![r] = j]
      /\ landing' = [landing EXCEPT ![r] = Landing(i.session)]
      /\ completed' = completed \cup {a} /\ step' = [step EXCEPT ![r] = "answer"]
      /\ UNCHANGED <<entry, jar, who, key, codes, query, token, starter>>
  BY DEF persist_and_login
<1>2. /\ who[r] # None /\ u \in Users /\ a \in Attempts /\ token[r] \in Tokens
      /\ inner[r] \in Inner /\ who[r] \in Clients
      /\ BegunBy(inner[r].session.state, who[r], starter, completed)
      /\ inner[r].session.state.app # None /\ inner[r].session.state.app.csrf = a
  BY <1>1, WhoType
     DEF FlowInv, FlowTypeOK, TypeOK, SessionTypeOK, Carries, BegunHere
<1>3. row \in Row /\ row # None
  BY <1>2, OAuthAssumption DEF FlowInv, FlowTypeOK, TypeOK, Upserted, Row, Opt
<1>4. user \in User
  BY <1>2, <1>3, HashType DEF User
<1> HIDE DEF row
<1>5. /\ i \in Inner /\ i.user = user /\ i.data = DataOf(user)
      /\ i.session.state.app = inner[r].session.state.app
      /\ BegunBy(i.session.state, who[r], starter, completed)
  BY <1>2, <1>4, MethodsBegun DEF login, NewInner
<1> HIDE DEF i, user
<1>6. i.session \in Session /\ i.session.state.app # None /\ i.session.state.app.csrf = a
  BY <1>2, <1>5 DEF Inner
<1>7. /\ j \in Inner /\ j.user = user /\ j.data = DataOf(user)
      /\ BegunBy(j.session.state, who[r], starter, completed \cup {a})
  BY <1>5, <1>6, RemoveNextBegun DEF Inner
<1>8. Landing(i.session) \in Pages \cup {Home}
  BY <1>6, OAuthAssumption DEF Landing, Session, State, Pending, Opt
<1> HIDE DEF j
<1>9. /\ inner' \in [Requests -> Inner] /\ inner'[r] = j /\ rows'[u] = row
      /\ \A q \in Requests \ {r} : inner'[q] = inner[q]
  BY <1>1, <1>2, <1>7 DEF FlowInv, FlowTypeOK, TypeOK, SessionTypeOK
<1>10. GoesByRow(inner'[r], overtaken'[r], rows')
  BY <1>3, <1>7, <1>9 DEF GoesByRow, DataOf, user
<1>11. HistoryGrows /\ UNCHANGED <<entry, jar, who, key>>
  BY <1>1 DEF HistoryGrows
<1>12. SessionsInv'
  <2>1. BegunBy(inner'[r].session.state, who[r], starter', completed')
    BY <1>1, <1>7, <1>9
  <2>2. QED
    BY <1>2, <1>9, <1>10, <1>11, <2>1, WorkInv
<1>13. FlowTypeOK'
  <2>1. rows' \in [Users -> Opt(Row)] /\ landing' \in [Requests -> Opt(Pages \cup {Home})]
    BY <1>1, <1>2, <1>3, <1>8 DEF FlowInv, FlowTypeOK, TypeOK, Opt
  <2>2. QED
    BY <1>1, <1>2, <1>12, <2>1
       DEF FlowInv, FlowTypeOK, TypeOK, MultiTypeOK, SessionsInv, Steps
<1>14. ASSUME NEW q \in Requests PROVE Carries(q)'
  BY <1>1, <1>2, <1>9 DEF FlowInv, FlowTypeOK, TypeOK, Carries
<1>15. QED
  BY <1>12, <1>13, <1>14 DEF FlowInv, SessionsInv

\* A response, or the end of a request without one.
LEMMA LeaveInv ==
  ASSUME FlowInv, NoteChanges, NEW r \in Requests, who[r] # None, NEW k \in Opt(Keys),
         CommitsAs(r, k), SessionTypeOK', ForgetRequest(r),
         \/ checked' = [checked EXCEPT ![r] = None]
         \/ step[r] # "verify" /\ UNCHANGED checked
  PROVE  FlowInv'
<1>1. /\ who' = [who EXCEPT ![r] = None] /\ key' = [key EXCEPT ![r] = None]
      /\ inner' = [inner EXCEPT ![r] = NoInner]
  BY DEF CommitsAs, End
<1>2. /\ step' = [step EXCEPT ![r] = "idle"] /\ query' = [query EXCEPT ![r] = None]
      /\ token' = [token EXCEPT ![r] = None] /\ landing' = [landing EXCEPT ![r] = None]
      /\ UNCHANGED <<rows, codes, starter, completed>>
  BY DEF ForgetRequest
<1>3. BegunHere' /\ KeysApart'
  BY <1>2, LeaveBegun, EndApart DEF FlowInv, FlowTypeOK, TypeOK
<1>4. checked'[r] = None /\ \A q \in Requests \ {r} : checked'[q] = checked[q]
  BY DEF FlowInv, FlowTypeOK, MultiTypeOK
<1>5. ASSUME NEW q \in Requests
      PROVE  /\ GoesByRow(inner'[q], overtaken'[q], rows')
             /\ ReadFrom(checked'[q], overtaken'[q], rows')
  <2>1. CASE q = r
    BY <1>1, <1>4, <2>1
       DEF GoesByRow, ReadFrom, NoInner, NewInner, FlowInv, FlowTypeOK, TypeOK, SessionTypeOK
  <2>2. CASE q # r
    BY <1>1, <1>4, <2>2, RowsFollow DEF FlowInv, FlowTypeOK, TypeOK, SessionTypeOK
  <2>3. QED
    BY <2>1, <2>2
<1>6. SessionsInv'
  BY <1>3, <1>5, OvertakenType DEF SessionsInv, RowIsRead, UserGoesByRow, GoesByRow
<1>7. FlowTypeOK'
  BY <1>2, <1>4, <1>6 DEF FlowInv, FlowTypeOK, TypeOK, MultiTypeOK, SessionsInv, Steps, Opt
<1>8. ASSUME NEW q \in Requests PROVE Carries(q)'
  BY <1>1, <1>2 DEF FlowInv, FlowTypeOK, TypeOK, SessionTypeOK, Carries
<1>9. QED
  BY <1>6, <1>7, <1>8 DEF FlowInv, SessionsInv

\* What happens while no handler is at work: the provider, the users table, the clock.
LEMMA ElsewhereInv ==
  ASSUME FlowInv, NoteChanges, UNCHANGED <<who, key, inner, jar, step, query, token>>,
         UNCHANGED <<starter, completed, landing, checked>>, SessionTypeOK', BegunHere',
         rows' \in [Users -> Opt(Row)],
         codes' \in [Attempts -> [Users -> {"none", "valid", "used"}]]
  PROVE  FlowInv'
<1>1. ASSUME NEW q \in Requests
      PROVE  /\ GoesByRow(inner'[q], overtaken'[q], rows')
             /\ ReadFrom(checked'[q], overtaken'[q], rows')
  BY RowsFollow
<1>2. SessionsInv'
  BY <1>1, OvertakenType
     DEF SessionsInv, RowIsRead, UserGoesByRow, GoesByRow, FlowInv, KeysApart
<1>3. FlowTypeOK'
  BY <1>2 DEF FlowInv, FlowTypeOK, TypeOK, MultiTypeOK, SessionsInv
<1>4. ASSUME NEW q \in Requests PROVE Carries(q)'
  BY DEF FlowInv, Carries
<1>5. QED
  BY <1>2, <1>3, <1>4 DEF FlowInv, SessionsInv

LEMMA StoreStays ==
  ASSUME FlowInv, UNCHANGED <<sessionVars, starter, completed>>
  PROVE  SessionTypeOK' /\ BegunHere'
BY DEF FlowInv, FlowTypeOK, TypeOK, SessionTypeOK, BegunHere, sessionVars, Store!StoreTypeOK

LEMMA InitInv == MultiInit => FlowInv
<1> SUFFICES ASSUME MultiInit PROVE FlowInv
  OBVIOUS
<1> USE DEF MultiInit, FlowInit, SessionInit, Store!StoreInit
<1>1. SessionTypeOK
  BY NoInnerType DEF SessionTypeOK, Store!StoreTypeOK, Opt
<1>2. FlowTypeOK
  <2>1. rows \in [Users -> Opt(Row)]
    BY DEF Row, Opt
  <2>2. QED
    BY <1>1, <2>1 DEF FlowTypeOK, TypeOK, MultiTypeOK, Steps, Opt
<1>3. KeysApart /\ BegunHere /\ RowIsRead /\ UserGoesByRow
  BY DEF KeysApart, BegunHere, RowIsRead, ReadFrom, UserGoesByRow, NoInner, NewInner
<1>4. \A r \in Requests : Carries(r)
  BY DEF Carries
<1>5. QED
  BY <1>2, <1>3, <1>4 DEF FlowInv

LEMMA StepInv ==
  ASSUME FlowInv, [MultiStep /\ NoteChanges]_multiVars
  PROVE  FlowInv'
<1>1. CASE UNCHANGED multiVars
  <2>1. /\ UNCHANGED <<entry, jar, who, key, inner, rows, codes, step, query, token, starter>>
        /\ UNCHANGED <<completed, landing, checked, overtaken>>
    BY <1>1 DEF multiVars, vars, flowVars, sessionVars
  <2>2. FlowTypeOK'
    BY <2>1 DEF FlowInv, FlowTypeOK, TypeOK, SessionTypeOK, MultiTypeOK, Store!StoreTypeOK
  <2>3. KeysApart' /\ BegunHere' /\ RowIsRead' /\ UserGoesByRow'
    BY <2>1 DEF FlowInv, KeysApart, BegunHere, RowIsRead, UserGoesByRow
  <2>4. ASSUME NEW r \in Requests PROVE Carries(r)'
    BY <2>1 DEF FlowInv, Carries
  <2>5. QED
    BY <2>2, <2>3, <2>4 DEF FlowInv
<1>2. CASE MultiStep /\ NoteChanges
  <2>1. ASSUME NEW r \in Requests, NEW c \in Clients, NEW u \in Users, password(r, c, u)
        PROVE  FlowInv'
    BY <1>2, <2>1, PasswordInv
  <2>2. ASSUME NEW r \in Requests, NEW c \in Clients, NEW a \in Attempts, oauth(r, c, a)
        PROVE  FlowInv'
    BY <1>2, <2>2, OAuthInv
  <2>3. ASSUME NEW r \in Requests, NEW c \in Clients, NEW a \in Attempts, NEW u \in Users,
               oauth_callback(r, c, a, u)
        PROVE  FlowInv'
    BY <1>2, <2>3, OAuthCallbackInv
  <2>4. ASSUME NEW r \in Requests, select_user(r) \/ login_with_password(r)
        PROVE  FlowInv'
    BY <1>2, <2>4, SelectUserInv, LoginWithPasswordInv
  <2>5. ASSUME NEW r \in Requests, password_refused(r)
        PROVE  FlowInv'
    BY <1>2, <2>5, RefusedInv DEF password_refused
  <2>6. ASSUME NEW r \in Requests, oauth_authenticate(r)
        PROVE  FlowInv'
    <3>1. CASE authenticate_fails(r)
      BY <1>2, <2>6, <3>1, RefusedInv DEF authenticate_fails, oauth_authenticate
    <3>2. QED
      BY <1>2, <2>6, <3>1, ExchangeCodeInv, PersistInv DEF oauth_authenticate
  <2>7. ASSUME NEW r \in Requests, dropped(r), checked' = [checked EXCEPT ![r] = None]
        PROVE  FlowInv'
    <3>1. who[r] # None /\ CommitsAs(r, None) /\ SessionTypeOK'
      BY <2>7, FailLeaves, FailType DEF dropped, FlowInv, FlowTypeOK, TypeOK
    <3>2. QED
      BY <1>2, <2>7, <3>1, LeaveInv DEF dropped, Opt
  <2>8. ASSUME NEW u \in Users, NEW p \in Passwords, change_password(u, p)
        PROVE  FlowInv'
    <3>1. rows' \in [Users -> Opt(Row)]
      BY <2>8 DEF change_password, FlowInv, FlowTypeOK, TypeOK, Row, Opt
    <3>2. SessionTypeOK' /\ BegunHere'
      BY <2>8, StoreStays DEF change_password
    <3>3. QED
      BY <1>2, <2>8, <3>1, <3>2, ElsewhereInv
         DEF change_password, sessionVars, FlowInv, FlowTypeOK
  <2>9. ASSUME NEW r \in Requests, NEW c \in Clients, get_logout(r, c) \/ visit(r, c),
               UNCHANGED checked
        PROVE  FlowInv'
    BY <1>2, <2>9, GetLogoutInv, VisitInv
  <2>10. ASSUME NEW r \in Requests, answer(r), UNCHANGED checked
         PROVE  FlowInv'
    <3>1. who[r] # None /\ (\E k \in Opt(Keys) : CommitsAs(r, k)) /\ SessionTypeOK'
      BY <2>10, CommitLeaves, CommitType DEF answer, FlowInv, FlowTypeOK, TypeOK
    <3>2. QED
      BY <1>2, <2>10, <3>1, LeaveInv DEF answer
  <2>11. ASSUME NEW a \in Attempts, NEW u \in Users, approve(a, u), UNCHANGED checked
         PROVE  FlowInv'
    <3>1. codes' \in [Attempts -> [Users -> {"none", "valid", "used"}]]
      BY <2>11 DEF approve, FlowInv, FlowTypeOK
    <3>2. SessionTypeOK' /\ BegunHere'
      BY <2>11, StoreStays DEF approve
    <3>3. QED
      BY <1>2, <2>11, <3>1, <3>2, ElsewhereInv
         DEF approve, sessionVars, FlowInv, FlowTypeOK, TypeOK
  <2>12. ASSUME expire, UNCHANGED checked
         PROVE  FlowInv'
    <3>1. SessionTypeOK' /\ BegunHere' /\ UNCHANGED <<jar, who, key, inner>>
      BY <2>12, TimeBegun, ExpireType, ExpireLeaves
         DEF expire, flowVars, FlowInv, FlowTypeOK, TypeOK
    <3>2. QED
      BY <1>2, <2>12, <3>1, ElsewhereInv DEF expire, flowVars, FlowInv, FlowTypeOK, TypeOK
  <2>13. QED
    BY <1>2, <2>1, <2>2, <2>3, <2>4, <2>5, <2>6, <2>7, <2>8, <2>9, <2>10, <2>11, <2>12
       DEF MultiStep, Otherwise
<1>3. QED
  BY <1>1, <1>2

\* Every reachable state keeps the invariant.
LEMMA Invariance == MultiSpec => []FlowInv
<1>1. MultiInit => FlowInv
  BY InitInv
<1>2. FlowInv /\ [MultiStep /\ NoteChanges]_multiVars => FlowInv'
  BY StepInv
<1>3. QED
  BY <1>1, <1>2, PTL DEF MultiSpec

-----------------------------------------------------------------------------
(* The theorems.                                                            *)

\* Sessions hold auth data and pending attempts, requests, rows and queries what
\* their types say, through every handler of oauth2 and multi-auth.
THEOREM FlowTypeCorrect == MultiSpec => []TypeOK
<1>1. FlowInv => TypeOK
  BY DEF FlowInv, FlowTypeOK
<1>2. QED
  BY <1>1, Invariance, PTL

\* A password is only ever verified against a row that has one (users.rs: "and
\* password is not null").
THEOREM MultiTypeCorrect == MultiSpec => []MultiTypeOK
<1>1. FlowInv => MultiTypeOK
  BY DEF FlowInv, FlowTypeOK
<1>2. QED
  BY <1>1, Invariance, PTL

\* The CSRF state protects the sign-in: a callback that goes on to exchange its code
\* answers an attempt of its own client, however sessions are renewed, lost, expired
\* or shared between tabs in between.
THEOREM CallbacksAnswerOwnAttempts == MultiSpec => []OnlyOwnAttempts
<1>1. FlowInv => OnlyOwnAttempts
  <2> SUFFICES ASSUME FlowInv, NEW r \in Requests, step[r] \in {"exchange", "persist"}
               PROVE  starter[query[r].state] = who[r]
    BY DEF OnlyOwnAttempts
  <2>1. who[r] # None /\ BegunBy(inner[r].session.state, who[r], starter, completed)
    BY DEF FlowInv, Carries, BegunHere
  <2>2. QED
    BY <2>1 DEF FlowInv, Carries, BegunBy
<1>2. QED
  BY <1>1, Invariance, PTL

\* A browser that answers its own attempt is refused only because a later attempt of
\* its own has overwritten the state.
THEOREM RefusalsAreOvertaken == MultiSpec => []RefusedOnlyIfOvertaken
<1>1. FlowInv => RefusedOnlyIfOvertaken
  <2> SUFFICES ASSUME FlowInv, NEW r \in Requests, step[r] = "401"
               PROVE  \E b \in Attempts \ {query[r].state} : starter[b] = who[r]
    BY DEF RefusedOnlyIfOvertaken
  <2> DEFINE b == inner[r].session.state.app.csrf
  <2>1. who[r] # None /\ BegunBy(inner[r].session.state, who[r], starter, completed)
    BY DEF FlowInv, Carries, BegunHere
  <2>2. b \in Attempts /\ starter[b] = who[r] /\ b # query[r].state
    BY <2>1 DEF FlowInv, Carries, BegunBy
  <2>3. QED
    BY <2>2
<1>2. QED
  BY <1>1, Invariance, PTL

\* A password login between a slow check and a row that changes under it, a sign-in
\* with a provider and every session since are bound to what the row held when the
\* request last read it.
THEOREM UsersGoByRow == MultiSpec => []UserGoesByRow
<1>1. FlowInv => UserGoesByRow
  BY DEF FlowInv
<1>2. QED
  BY <1>1, Invariance, PTL

\* Only the callback's last part decides where a browser lands.
LEMMA LandingStep ==
  ASSUME FlowInv, MultiStep, NEW r \in Requests, landing[r] = None, landing'[r] # None
  PROVE  persist_and_login(r)
<1> USE DEF FlowInv, FlowTypeOK, TypeOK
<1>1. \A q \in Requests : ~ForgetRequest(q)
  BY DEF ForgetRequest
<1>2. ~UNCHANGED landing
  OBVIOUS
<1>3. PICK q \in Requests : persist_and_login(q)
  BY <1>1, <1>2
     DEF MultiStep, Otherwise, password, oauth, post_login, oauth_callback, callback, select_user,
         login_with_password, password_refused, oauth_authenticate, exchange_code,
         authenticate_fails, dropped, change_password, get_logout, visit, answer, approve,
         expire, flowVars
<1>4. q = r
  BY <1>3 DEF persist_and_login
<1>5. QED
  BY <1>3, <1>4

\* A callback lands on the page that was asked for when its own attempt was begun,
\* though other tabs have begun theirs in the same session.
THEOREM CallbacksLandOnOwnPage == MultiSpec => LandsOnOwnPage
<1> DEFINE Lands ==
      \A r \in Requests :
        landing[r] = None /\ landing'[r] # None =>
          LET a == query[r].state
          IN  \/ landing'[r] = NextUrl[a]
              \/ landing'[r] = Home /\ (NextUrl[a] = None \/ a \in completed)
<1>1. FlowInv /\ [MultiStep /\ NoteChanges]_multiVars => [Lands]_vars
  <2> SUFFICES ASSUME FlowInv, MultiStep, NEW r \in Requests,
                      landing[r] = None, landing'[r] # None
               PROVE  LET a == query[r].state
                      IN  \/ landing'[r] = NextUrl[a]
                          \/ landing'[r] = Home /\ (NextUrl[a] = None \/ a \in completed)
    BY DEF multiVars
  <2> DEFINE a == query[r].state
             u == query[r].subject
             user == [id |-> u, hash |-> session_auth_hash(Upserted(rows[u], token[r]))]
             app == inner[r].session.state.app
  <2>1. persist_and_login(r)
    BY LandingStep
  <2>2. /\ step[r] = "persist" /\ u \in Users /\ token[r] \in Tokens
        /\ who[r] # None /\ inner[r] \in Inner /\ app # None /\ app.csrf = a
        /\ rows[u] \in Opt(Row)
    BY <2>1 DEF persist_and_login, FlowInv, FlowTypeOK, TypeOK, SessionTypeOK, Carries
  <2>3. BegunBy(inner[r].session.state, who[r], starter, completed)
    BY <2>2 DEF FlowInv, BegunHere
  <2>4. user \in User
    <3>1. Upserted(rows[u], token[r]) \in Row
      BY <2>2 DEF Upserted, Row, Opt
    <3>2. QED
      BY <2>2, <3>1, HashType DEF User
  <2>5. landing'[r] = Landing(login(inner[r], user).session)
    BY <2>1 DEF persist_and_login, FlowInv, FlowTypeOK, TypeOK
  <2> HIDE DEF user
  <2>6. login(inner[r], user).session.state.app = app
    BY <2>2, <2>3, <2>4, MethodsBegun
  <2>7. QED
    BY <2>2, <2>3, <2>5, <2>6 DEF Landing, BegunBy
<1>2. QED
  BY <1>1, Invariance, PTL DEF MultiSpec, LandsOnOwnPage
=============================================================================
