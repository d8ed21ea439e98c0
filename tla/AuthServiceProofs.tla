-------------------------- MODULE AuthServiceProofs --------------------------
(***************************************************************************)
(* Proofs about AuthService for any sets of clients, requests, keys and    *)
(* users.                                                                  *)
(***************************************************************************)
EXTENDS AuthService, TLAPS

-----------------------------------------------------------------------------
(* The operations of AuthSession and Session keep to their types.           *)

\* A session state with another value in one of its fields is a session state.
LEMMA StateFields ==
  ASSUME NEW s \in State
  PROVE  /\ \A d \in Opt(Data) : [s EXCEPT !.auth = d] \in State
         /\ \A a \in Opt(AppData) : [s EXCEPT !.app = a] \in State
BY DEF State

\* Session: insert, remove, renew and purge lead to sessions.
LEMMA SessionOps ==
  ASSUME NEW session \in Session, NEW s \in State
  PROVE  /\ Write(session, s) \in Session
         /\ Renew(session) \in Session
BY DEF Session, SessionStatus, Write, Renew

\* A session just loaded and a session just purged are sessions.
LEMMA NewSessions ==
  ASSUME NEW s \in State PROVE Loaded(s) \in Session /\ Purge(s) \in Session
BY DEF Session, SessionStatus, Purge, Loaded

\* The empty state is a state, and a request without session well typed.
LEMMA EmptyTypes == EmptyState \in State /\ NoInner \in Inner
<1>1. EmptyState \in State
  BY DEF EmptyState, State, Opt
<1>2. QED
  BY <1>1, NewSessions DEF NoInner, NewInner, Inner, Opt

\* The auth data of a user is auth data.
LEMMA DataOfType == ASSUME NEW u \in User PROVE DataOf(u) \in Data
BY DEF DataOf, User, Data

\* AuthSession's methods lead from one well-typed request to another.
LEMMA InnerOps ==
  ASSUME NEW i \in Inner, NEW u \in User
  PROVE  /\ login(i, u) \in Inner
         /\ logout(i) \in Inner
<1>1. i.session \in Session /\ i.session.state \in State
  BY DEF Inner, Session
<1>2. DataOf(u) \in Data
  BY DataOfType
<1>3. ASSUME NEW s \in Session PROVE update_session(s, DataOf(u)) \in Session
  BY <1>2, StateFields, SessionOps DEF update_session, Opt, Session
<1>4. login(i, u) \in Inner
  <2> DEFINE s == IF i.data = None THEN Renew(i.session) ELSE i.session
  <2>1. s \in Session
    BY <1>1, SessionOps
  <2>2. update_session(s, DataOf(u)) \in Session
    BY <1>3, <2>1
  <2> HIDE DEF s
  <2>3. login(i, u) = NewInner(update_session(s, DataOf(u)), u, DataOf(u))
    BY DEF login, s
  <2>4. QED
    BY <1>2, <2>2, <2>3 DEF NewInner, Inner, Opt
<1>5. logout(i) \in Inner
  BY <1>1, EmptyTypes, NewSessions DEF logout, Inner, Opt
<1>6. QED
  BY <1>4, <1>5

\* from_session leads to a well-typed request, whatever the backend answers.
LEMMA FromSessionType ==
  ASSUME NEW s \in Session, NEW u \in Opt(User)
  PROVE  from_session(s, u) \in Inner
<1>1. s.state.auth \in Opt(Data)
  BY DEF Session, State
<1>2. Purge(EmptyState) \in Session
  BY EmptyTypes, NewSessions
<1>3. QED
  BY <1>1, <1>2 DEF from_session, NewInner, Inner, Opt
-----------------------------------------------------------------------------
(* Type correctness.                                                        *)

\* The steps of the store keep its type.
LEMMA StoreSteps ==
  ASSUME Store!StoreTypeOK
  PROVE  /\ \A k \in Keys, s \in State : Store!Put(k, s) => Store!StoreTypeOK'
         /\ \A S : Store!Drop(S) => Store!StoreTypeOK'
         /\ \A k \in Keys : \A a : Store!Load(k, a) => Store!StoreTypeOK'
         /\ \A k \in Keys : Store!UpdateTtl(k) => Store!StoreTypeOK'
         /\ \A S : Store!Lapse(S) => Store!StoreTypeOK'
         /\ \A k \in Keys : Store!Answer(k) \in Opt(State)
<1> USE DEF Store!StoreTypeOK, Store!Entry, Store!Held, Store!Live, Store!Lapsed
<1>1. \A k \in Keys, s \in State : Store!Put(k, s) => Store!StoreTypeOK'
  BY DEF Store!Put
<1>2. \A S : Store!Drop(S) => Store!StoreTypeOK'
  BY DEF Store!Drop
<1>3. \A k \in Keys : \A a : Store!Load(k, a) => Store!StoreTypeOK'
  BY <1>2 DEF Store!Load
<1>4. \A k \in Keys : Store!UpdateTtl(k) => Store!StoreTypeOK'
  <2> SUFFICES ASSUME NEW k \in Keys, Store!UpdateTtl(k) PROVE Store!StoreTypeOK'
    OBVIOUS
  <2>1. CASE entry[k] # None
    <3>1. entry[k].state \in State
      BY <2>1
    <3>2. QED
      BY <1>1, <2>1, <3>1 DEF Store!UpdateTtl
  <2>2. CASE entry[k] = None
    BY <2>2 DEF Store!UpdateTtl
  <2>3. QED
    BY <2>1, <2>2
<1>5. \A S : Store!Lapse(S) => Store!StoreTypeOK'
  <2> SUFFICES ASSUME NEW S, Store!Lapse(S), NEW k \in Keys
               PROVE  entry'[k] \in Store!Entry \cup {None}
    BY DEF Store!Lapse
  <2>1. CASE k \in S
    BY <2>1 DEF Store!Lapse
  <2>2. CASE k \notin S
    BY <2>2 DEF Store!Lapse
  <2>3. QED
    BY <2>1, <2>2
<1>6. \A k \in Keys : Store!Answer(k) \in Opt(State)
  BY DEF Store!Answer, Opt
<1>7. QED
  BY <1>1, <1>2, <1>3, <1>4, <1>5, <1>6

\* The initial state is well typed.
LEMMA InitType == Init => TypeOK
BY EmptyTypes DEF Init, TypeOK, Opt, Stages, Store!StoreInit, Store!StoreTypeOK

\* Every step keeps the types.
LEMMA NextType == TypeOK /\ CopyMatchesData /\ [Next]_vars => TypeOK'
<1> SUFFICES ASSUME TypeOK, CopyMatchesData, [Next]_vars PROVE TypeOK'
  OBVIOUS
<1> USE DEF TypeOK, Opt
<1>1. ASSUME NEW r \in Requests, NEW c \in Clients, Arrive(r, c) PROVE TypeOK'
  BY <1>1 DEF Arrive, Stages, Store!StoreTypeOK
<1>2. ASSUME NEW r \in Requests, Load(r) PROVE TypeOK'
  <2>1. ASSUME NEW s \in State, Begin(r, s)
        PROVE  /\ stage' \in [Requests -> Stages]
               /\ inner' \in [Requests -> Inner]
    <3>1. Loaded(s) \in Session
      BY NewSessions
    <3>2. from_session(Loaded(s), None) \in Inner
      BY <3>1, FromSessionType
    <3>3. [NoInner EXCEPT !.session = Loaded(s)] \in Inner
      BY <3>1, EmptyTypes DEF Inner
    <3>4. QED
      BY <2>1, <3>2, <3>3 DEF Begin, Stages
  <2>2. CASE key[r] = None
    BY <1>2, <2>1, <2>2, EmptyTypes DEF Load, Begin, Store!StoreTypeOK
  <2>3. CASE key[r] # None
    <3>1. key[r] \in Keys
      BY <2>3
    <3>2. \A a : Store!Load(key[r], a) => Store!StoreTypeOK'
      BY <3>1, StoreSteps
    <3>3. Store!Answer(key[r]) \in Opt(State)
      BY <3>1, StoreSteps
    <3>4. QED
      BY <1>2, <2>1, <2>3, <3>2, <3>3, EmptyTypes DEF Load, Begin
  <2>4. QED
    BY <2>2, <2>3
<1>3. ASSUME NEW r \in Requests, GetUser(r) PROVE TypeOK'
  <2> DEFINE s == inner[r].session
  <2>1. s \in Session
    BY DEF Inner
  <2>2. s.state.auth \in Data
    BY <1>3 DEF GetUser, CopyMatchesData, Inner, Session, State
  <2>3. UserOf(s.state.auth.user_id) \in Opt(User)
    BY <2>2 DEF UserOf, User, Data
  <2>4. from_session(s, UserOf(s.state.auth.user_id)) \in Inner
    BY <2>1, <2>3, FromSessionType
  <2>5. QED
    BY <1>3, <2>4 DEF GetUser, Stages, Store!StoreTypeOK
<1>4. ASSUME NEW r \in Requests, Handler(r) PROVE TypeOK'
  <2>1. CASE \E u \in Users : authenticate(r, u)
    BY <2>1 DEF authenticate, HandlerOnly, UserOf, User, Store!StoreTypeOK
  <2>2. CASE Login(r)
    <3>1. found[r] \in User
      BY <2>2 DEF Login
    <3>2. login(inner[r], found[r]) \in Inner
      BY <3>1, InnerOps
    <3>3. QED
      BY <2>2, <3>2 DEF Login, HandlerOnly, Store!StoreTypeOK
  <2>3. CASE Logout(r)
    <3>1. logout(inner[r]) \in Inner
      BY EmptyTypes, NewSessions DEF logout, Inner
    <3>2. QED
      BY <2>3, <3>1 DEF Logout, HandlerOnly, Store!StoreTypeOK
  <2>4. CASE \E a \in Opt(AppData) : WriteAppData(r, a)
    <3>1. PICK a \in Opt(AppData) : WriteAppData(r, a)
      BY <2>4
    <3> DEFINE s == inner[r].session
    <3>2. s \in Session /\ s.state \in State
      BY DEF Inner, Session
    <3>3. Write(s, [s.state EXCEPT !.app = a]) \in Session
      BY <3>2, StateFields, SessionOps
    <3>4. inner' = [inner EXCEPT ![r] =
                      [inner[r] EXCEPT !.session = Write(s, [s.state EXCEPT !.app = a])]]
      BY <3>1 DEF WriteAppData
    <3> HIDE DEF s
    <3>5. inner' \in [Requests -> Inner]
      BY <3>3, <3>4 DEF Inner
    <3>6. QED
      BY <3>1, <3>5 DEF WriteAppData, HandlerOnly, Store!StoreTypeOK
  <2>5. QED
    BY <1>4, <2>1, <2>2, <2>3, <2>4 DEF Handler
<1>5. ASSUME NEW r \in Requests, SaveFresh(r), client[r] \in Opt(Clients) PROVE TypeOK'
  <2>1. PICK k \in Keys : /\ owner' = [owner EXCEPT ![k] = client[r]]
                          /\ Store!Save(k, inner[r].session.state)
                          /\ Respond(r, k)
    BY <1>5 DEF SaveFresh
  <2>2. inner[r].session.state \in State
    BY DEF Inner, Session
  <2>3. Store!StoreTypeOK'
    BY <2>1, <2>2, StoreSteps DEF Store!Save
  <2>4. QED
    BY <1>5, <2>1, <2>3 DEF Respond, Stages
<1>6. ASSUME NEW r \in Requests, Commit(r) PROVE TypeOK'
  <2>1. inner[r].session.state \in State
    BY DEF Inner, Session
  <2>2. CASE CommitNew(r)
    BY <1>5, <2>2 DEF CommitNew, Respond, Stages, Store!StoreTypeOK
  <2>3. CASE CommitChanged(r)
    <3>1. Store!StoreTypeOK'
      BY <2>1, <2>3, StoreSteps DEF CommitChanged, Store!Update
    <3>2. QED
      BY <2>3, <3>1 DEF CommitChanged, Respond, Stages
  <2>4. CASE CommitPurged(r)
    <3>1. Store!StoreTypeOK'
      BY <2>4, StoreSteps DEF CommitPurged, Store!Delete
    <3>2. QED
      BY <2>4, <3>1 DEF CommitPurged, Respond, Stages
  <2>5. CASE CommitRenewed(r)
    <3>1. Store!StoreTypeOK'
      BY <2>5, StoreSteps DEF CommitRenewed, Store!Delete
    <3>2. QED
      BY <2>5, <3>1 DEF CommitRenewed, Stages
  <2>6. CASE CommitUnchanged(r)
    <3>1. Store!StoreTypeOK'
      <4>1. key[r] \in Keys
        BY <2>6 DEF CommitUnchanged
      <4>2. Store!UpdateTtl(key[r]) \/ UNCHANGED entry
        BY <2>6 DEF CommitUnchanged
      <4>3. QED
        BY <4>1, <4>2, StoreSteps DEF Store!StoreTypeOK
    <3>2. QED
      BY <2>6, <3>1 DEF CommitUnchanged, Respond, Stages
  <2>7. QED
    BY <1>6, <2>2, <2>3, <2>4, <2>5, <2>6 DEF Commit
<1>7. ASSUME NEW r \in Requests, SaveRenewed(r) PROVE TypeOK'
  BY <1>5, <1>7 DEF SaveRenewed
<1>8. ASSUME NEW R \in SUBSET Requests, End(R)
      PROVE  /\ stage' \in [Requests -> Stages]
             /\ client' \in [Requests -> Opt(Clients)]
             /\ key' \in [Requests -> Opt(Keys)]
             /\ inner' \in [Requests -> Inner]
             /\ found' \in [Requests -> Opt(User)]
             /\ cookie' \in [Requests -> Opt(Keys) \cup {Keep}]
  BY <1>8, EmptyTypes DEF End, Stages
<1>9. ASSUME NEW r \in Requests, Deliver(r) PROVE TypeOK'
  <2>1. jar' \in [Clients -> Opt(Keys)]
    BY <1>9 DEF Deliver
  <2>2. End({r})
    BY <1>9 DEF Deliver
  <2>3. QED
    BY <1>8, <1>9, <2>1, <2>2 DEF Deliver, Store!StoreTypeOK
<1>10. ASSUME NEW r \in Requests, Fail(r) PROVE TypeOK'
  <2>1. End({r})
    BY <1>10 DEF Fail
  <2>2. QED
    BY <1>8, <1>10, <2>1 DEF Fail, Store!StoreTypeOK
<1>11. ASSUME NEW u \in Users, NEW h \in Opt(Hashes), ChangeUser(u, h) PROVE TypeOK'
  BY <1>11 DEF ChangeUser, requestVars, Store!StoreTypeOK
<1>12. CASE TimePasses
  <2>1. Store!StoreTypeOK'
    BY <1>12, StoreSteps DEF TimePasses, Store!Collect
  <2>2. QED
    BY <1>12, <2>1 DEF TimePasses, requestVars
<1>13. CASE Restart
  <2>1. Store!StoreTypeOK'
    BY <1>13, StoreSteps DEF Restart, Store!Clear
  <2>2. End({r \in Requests : InFlight(r)})
    BY <1>13 DEF Restart
  <2>3. QED
    BY <1>8, <1>13, <2>1, <2>2 DEF Restart
<1>14. CASE UNCHANGED vars
  BY <1>14 DEF vars, requestVars, Store!StoreTypeOK
<1>15. QED
  BY <1>1, <1>2, <1>3, <1>4, <1>6, <1>7, <1>9, <1>10, <1>11, <1>12, <1>13, <1>14
     DEF Next, Server

-----------------------------------------------------------------------------
(* The other two conjuncts of the inductive invariant.                      *)

\* Where a request stands with respect to its session is kept by every step.
LEMMA NextCopy == TypeOK /\ CopyMatchesData /\ [Next]_vars => CopyMatchesData'
<1> SUFFICES ASSUME TypeOK, CopyMatchesData, [Next]_vars,
                    NEW q \in Requests
             PROVE  /\ stage'[q] = "verify" =>
                         Status(q)' = "Unchanged" /\ inner'[q].session.state.auth # None
                    /\ stage'[q] \in {"handle", "save"} =>
                         /\ Status(q)' # "Purged" =>
                              inner'[q].session.state.auth = inner'[q].data
                         /\ inner'[q].user # None =>
                              inner'[q].data = DataOf(inner'[q].user)
  BY DEF CopyMatchesData
<1> DEFINE Same == stage'[q] = stage[q] /\ inner'[q] = inner[q]
           Off == stage'[q] \notin {"verify", "handle", "save"}
           Goal == /\ stage'[q] = "verify" =>
                         Status(q)' = "Unchanged" /\ inner'[q].session.state.auth # None
                   /\ stage'[q] \in {"handle", "save"} =>
                         /\ Status(q)' # "Purged" =>
                              inner'[q].session.state.auth = inner'[q].data
                         /\ inner'[q].user # None =>
                              inner'[q].data = DataOf(inner'[q].user)
<1>1. Same \/ Off => Goal
  BY DEF CopyMatchesData, Status
<1>2. ASSUME NEW r \in Requests, Load(r) PROVE Goal
  <2>1. PICK s : Begin(r, s)
    BY <1>2 DEF Load
  <2>2. CASE q = r
    BY <1>2, <2>1, <2>2
       DEF Begin, Load, TypeOK, Status, from_session, NewInner, NoInner, Loaded
  <2>3. CASE q # r
    BY <1>1, <2>1, <2>3 DEF Begin, TypeOK
  <2>4. QED
    BY <2>2, <2>3
<1>3. ASSUME NEW r \in Requests, GetUser(r) PROVE Goal
  <2> DEFINE s == inner[r].session
             u == UserOf(s.state.auth.user_id)
  <2>1. CASE q = r
    <3>1. stage'[q] = "handle" /\ inner'[q] = from_session(s, u)
      BY <1>3, <2>1 DEF GetUser, TypeOK
    <3>2. s.state.auth \in Data
      BY <1>3 DEF GetUser, CopyMatchesData, TypeOK, Inner, Session, State, Opt
    <3>3. CASE u # None /\ ~Verified(s.state.auth, u)
      BY <3>1, <3>3 DEF from_session, NewInner, Purge, Status
    <3>4. CASE ~(u # None /\ ~Verified(s.state.auth, u))
      <4>1. inner'[q] = NewInner(s, u, s.state.auth)
        BY <3>1, <3>4 DEF from_session
      <4>2. u # None => DataOf(u) = s.state.auth
        BY <3>2, <3>4 DEF UserOf, DataOf, Verified, Data
      <4>3. QED
        BY <3>1, <4>1, <4>2 DEF NewInner, Status
    <3>5. QED
      BY <3>3, <3>4
  <2>2. CASE q # r
    BY <1>1, <1>3, <2>2 DEF GetUser, TypeOK
  <2>3. QED
    BY <2>1, <2>2
<1>4. ASSUME NEW r \in Requests, Handler(r) PROVE Goal
  <2>1. CASE \E u \in Users : authenticate(r, u)
    BY <1>1, <2>1 DEF authenticate, HandlerOnly
  <2>2. CASE Login(r)
    <3>1. CASE q = r
      <4>1. PICK i, u : i \in Inner /\ inner'[q] = login(i, u)
        BY <2>2, <3>1 DEF Login, TypeOK
      <4>2. i.session.state \in State
        BY <4>1 DEF Inner, Session
      <4>3. QED
        BY <2>2, <3>1, <4>1, <4>2
           DEF Login, HandlerOnly, Status, login, NewInner, update_session, Write, Renew, State
    <3>2. QED
      BY <1>1, <2>2, <3>1 DEF Login, HandlerOnly, TypeOK
  <2>3. CASE Logout(r)
    BY <1>1, <2>3 DEF Logout, HandlerOnly, TypeOK, Status, logout, Purge, Inner
  <2>4. CASE \E a \in Opt(AppData) : WriteAppData(r, a)
    <3>1. PICK a \in Opt(AppData) : WriteAppData(r, a)
      BY <2>4
    <3>2. CASE q = r
      <4>1. inner[q] \in Inner /\ inner[q].session.state \in State
        BY DEF TypeOK, Inner, Session
      <4>2. inner'[q].data = inner[q].data /\ inner'[q].user = inner[q].user
            /\ inner'[q].session
                 = Write(inner[q].session, [inner[q].session.state EXCEPT !.app = a])
        BY <3>1, <3>2, <4>1 DEF WriteAppData, TypeOK, Inner
      <4>3. [inner[q].session.state EXCEPT !.app = a].auth = inner[q].session.state.auth
        BY <4>1 DEF State
      <4>4. stage'[q] = stage[q] /\ stage[q] = "handle"
        BY <3>1, <3>2 DEF WriteAppData, HandlerOnly
      <4>5. QED
        BY <4>2, <4>3, <4>4 DEF CopyMatchesData, Status, Write
    <3>3. CASE q # r
      BY <1>1, <3>1, <3>3 DEF WriteAppData, HandlerOnly, TypeOK
    <3>4. QED
      BY <3>2, <3>3
  <2>5. QED
    BY <1>4, <2>1, <2>2, <2>3, <2>4 DEF Handler
<1>5. ASSUME NEW r \in Requests, Commit(r) \/ SaveRenewed(r) PROVE Goal
  <2>1. CASE CommitRenewed(r)
    BY <1>1, <2>1 DEF CommitRenewed, CopyMatchesData, TypeOK, Status
  <2>2. CASE ~CommitRenewed(r)
    <3>1. inner' = inner /\ stage' = [stage EXCEPT ![r] = "respond"]
      BY <1>5, <2>2
         DEF Commit, CommitNew, CommitChanged, CommitPurged, CommitUnchanged,
             SaveRenewed, SaveFresh, Respond
    <3>2. QED
      BY <1>1, <3>1 DEF TypeOK
  <2>3. QED
    BY <2>1, <2>2
<1>6. ASSUME NEW R \in SUBSET Requests, End(R) PROVE Goal
  BY <1>1, <1>6 DEF End
<1>7. QED
  <2>1. CASE \E r \in Requests, c \in Clients : Arrive(r, c)
    BY <1>1, <2>1 DEF Arrive, TypeOK
  <2>2. CASE \E r \in Requests : Deliver(r) \/ Fail(r)
    BY <1>6, <2>2 DEF Deliver, Fail
  <2>3. CASE \/ \E u \in Users, h \in Opt(Hashes) : ChangeUser(u, h)
             \/ TimePasses \/ UNCHANGED vars
    BY <1>1, <2>3 DEF ChangeUser, TimePasses, vars, requestVars
  <2>4. CASE Restart
    BY <1>6, <2>4 DEF Restart
  <2>5. QED
    BY <1>2, <1>3, <1>4, <1>5, <2>1, <2>2, <2>3, <2>4 DEF Next, Server
\* Keys stay with the client they were made for, whatever step is taken: a
\* fresh key belongs to nobody yet, and no step takes a key away.
LEMMA NextOwner ==
  TypeOK /\ KeysStayWithClients /\ [Next]_vars => KeysStayWithClients'
<1> SUFFICES ASSUME TypeOK, KeysStayWithClients, [Next]_vars
             PROVE  KeysStayWithClients'
  OBVIOUS
<1> USE DEF TypeOK, KeysStayWithClients, InFlight, Opt
<1>0. None \notin Clients /\ None \notin Keys /\ Keep \notin Keys /\ Keep # None
  BY AuthServiceAssumption
<1>1. ASSUME NEW r \in Requests, NEW c \in Clients, Arrive(r, c)
      PROVE  KeysStayWithClients'
  BY <1>0, <1>1 DEF Arrive, Store!Held
<1>2. ASSUME NEW r \in Requests, Load(r) PROVE KeysStayWithClients'
  <2>1. /\ UNCHANGED <<owner, jar, client, cookie>>
        /\ key' \in {key, [key EXCEPT ![r] = None]}
        /\ stage[r] = "load"
        /\ \A q \in Requests \ {r} : stage'[q] = stage[q]
    BY <1>2 DEF Load, Begin
  <2>2. \A k \in Keys : entry'[k] # None => entry[k] # None
    <3>1. UNCHANGED entry \/ \E k \in Keys : Store!Drop({k})
      BY <1>2 DEF Load, Store!Load
    <3>2. QED
      BY <3>1 DEF Store!Drop
  <2>3. \A q \in Requests : key'[q] # None => key'[q] = key[q]
    BY <2>1
  <2>4. \A q \in Requests : InFlight(q)' => InFlight(q)
    BY <2>1
  <2>5. QED
    BY <2>1, <2>2, <2>3, <2>4 DEF Store!Held
<1>3. ASSUME NEW r \in Requests, GetUser(r) PROVE KeysStayWithClients'
  BY <1>3 DEF GetUser, Store!Held
<1>4. ASSUME NEW r \in Requests, Handler(r) PROVE KeysStayWithClients'
  <2>1. UNCHANGED <<entry, owner, jar, stage, client, key, cookie>>
    BY <1>4 DEF Handler, authenticate, Login, Logout, WriteAppData, HandlerOnly
  <2>2. QED
    BY <2>1 DEF Store!Held
<1>5. ASSUME NEW r \in Requests, SaveFresh(r), stage[r] \in {"handle", "save"}
      PROVE  KeysStayWithClients'
  <2>1. PICK k \in Keys : /\ owner[k] = None
                          /\ owner' = [owner EXCEPT ![k] = client[r]]
                          /\ Store!Save(k, inner[r].session.state)
                          /\ Respond(r, k)
    BY <1>5 DEF SaveFresh
  <2>2. \A j \in Keys \ {k} : owner'[j] = owner[j] /\ entry'[j] = entry[j]
    BY <2>1 DEF Store!Save, Store!Put, Store!StoreTypeOK
  <2>3. owner'[k] = client[r]
    BY <2>1
  <2>4. \A j \in Keys : owner[j] # None => owner'[j] = owner[j]
    BY <2>1, <2>2
  <2>5. \A j \in Keys : Store!Held(j)' => owner'[j] # None
    BY <1>5, <2>2, <2>3 DEF Store!Held
  <2>6. \A c \in Clients : jar'[c] # None => owner'[jar'[c]] = c
    BY <1>0, <2>1, <2>4 DEF Respond
  <2>7. ASSUME NEW q \in Requests
        PROVE  /\ InFlight(q)' => client'[q] # None
               /\ InFlight(q)' /\ key'[q] # None => owner'[key'[q]] = client'[q]
               /\ cookie'[q] \in Keys =>
                    stage'[q] = "respond" /\ owner'[cookie'[q]] = client'[q]
    <3>1. UNCHANGED <<client, key>> /\ stage' = [stage EXCEPT ![r] = "respond"]
          /\ cookie' = [cookie EXCEPT ![r] = k]
      BY <2>1 DEF Respond
    <3>2. CASE q = r
      BY <1>0, <1>5, <2>3, <2>4, <3>1, <3>2
    <3>3. CASE q # r
      BY <1>0, <2>4, <3>1, <3>3
    <3>4. QED
      BY <3>2, <3>3
  <2>8. QED
    BY <2>5, <2>6, <2>7
<1>6. ASSUME NEW r \in Requests, Commit(r) PROVE KeysStayWithClients'
  <2>1. /\ stage[r] = "handle" /\ client[r] # None
        /\ key[r] # None => key[r] \in Keys /\ owner[key[r]] # None
    BY <1>6 DEF Commit, CommitNew, CommitChanged, CommitPurged, CommitRenewed, CommitUnchanged
  <2>2. CASE CommitNew(r) /\ SaveFresh(r)
    BY <1>5, <2>1, <2>2
  <2>3. CASE ~(CommitNew(r) /\ SaveFresh(r))
    <3>1. /\ UNCHANGED <<owner, jar, client, key>>
          /\ \/ stage' = [stage EXCEPT ![r] = "save"] /\ cookie' = cookie
             \/ /\ stage' = [stage EXCEPT ![r] = "respond"]
                /\ \E c \in {Keep, None, key[r]} : cookie' = [cookie EXCEPT ![r] = c]
      BY <1>6, <2>3
         DEF Commit, CommitNew, CommitChanged, CommitPurged, CommitRenewed, CommitUnchanged,
             Respond
    <3>2. \A k \in Keys : entry'[k] # None => entry[k] # None \/ k = key[r]
      <4>1. \/ UNCHANGED entry
            \/ \E s : Store!Put(key[r], s)
            \/ Store!Drop({key[r]})
        BY <1>6, <2>3
           DEF Commit, CommitNew, CommitChanged, CommitPurged, CommitRenewed, CommitUnchanged,
               Store!Update, Store!Delete, Store!UpdateTtl
      <4>2. QED
        BY <4>1 DEF Store!Put, Store!Drop, Store!StoreTypeOK
    <3>3. ASSUME NEW q \in Requests
          PROVE  /\ InFlight(q)' => client'[q] # None
                 /\ InFlight(q)' /\ key'[q] # None => owner'[key'[q]] = client'[q]
                 /\ cookie'[q] \in Keys =>
                      stage'[q] = "respond" /\ owner'[cookie'[q]] = client'[q]
      <4>1. CASE q = r
        BY <1>0, <2>1, <3>1, <4>1
      <4>2. CASE q # r
        BY <1>0, <3>1, <4>2
      <4>3. QED
        BY <4>1, <4>2
    <3>4. \A k \in Keys : Store!Held(k)' => owner'[k] # None
      BY <1>0, <2>1, <3>1, <3>2 DEF Store!Held
    <3>5. QED
      BY <3>1, <3>3, <3>4
  <2>4. QED
    BY <2>2, <2>3
<1>7. ASSUME NEW r \in Requests, SaveRenewed(r) PROVE KeysStayWithClients'
  BY <1>5, <1>7 DEF SaveRenewed
<1>8. ASSUME NEW r \in Requests, Deliver(r) PROVE KeysStayWithClients'
  <2>1. client[r] # None /\ client[r] \in Clients
    BY <1>8 DEF Deliver
  <2>2. QED
    BY <1>0, <1>8, <2>1 DEF Deliver, End, Store!Held
<1>9. ASSUME NEW r \in Requests, Fail(r) PROVE KeysStayWithClients'
  BY <1>0, <1>9 DEF Fail, End, Store!Held
<1>10. CASE \/ \E u \in Users, h \in Opt(Hashes) : ChangeUser(u, h)
            \/ TimePasses \/ UNCHANGED vars
  <2>1. UNCHANGED <<owner, jar, stage, client, key, cookie>>
    BY <1>10 DEF ChangeUser, TimePasses, vars, requestVars
  <2>2. \A k \in Keys : entry'[k] # None => entry[k] # None
    BY <1>10 DEF ChangeUser, TimePasses, vars, Store!Lapse, Store!Collect, Store!Drop,
                 Store!Live, Store!Held
  <2>3. QED
    BY <2>1, <2>2 DEF Store!Held
<1>11. CASE Restart
  BY <1>0, <1>11 DEF Restart, End, Store!Clear, Store!Drop, Store!Held
<1>12. QED
  BY <1>1, <1>2, <1>3, <1>4, <1>6, <1>7, <1>8, <1>9, <1>10, <1>11 DEF Next, Server
-----------------------------------------------------------------------------
(* The theorems of AuthService.                                             *)

\* What all the proofs start from; no conjunct is inductive without the first.
IInv == TypeOK /\ CopyMatchesData /\ KeysStayWithClients

\* The inductive invariant holds, for any sets of clients, requests and keys.
LEMMA Inductive == Spec => []IInv
<1>1. Init => IInv
  <2> SUFFICES ASSUME Init PROVE IInv
    OBVIOUS
  <2>1. TypeOK
    BY InitType
  <2>2. CopyMatchesData
    BY DEF Init, CopyMatchesData
  <2>3. KeysStayWithClients
    BY AuthServiceAssumption
       DEF Init, KeysStayWithClients, Store!StoreInit, Store!Held, InFlight, Opt
  <2>4. QED
    BY <2>1, <2>2, <2>3 DEF IInv
<1>2. IInv /\ [Next]_vars => IInv'
  BY NextType, NextCopy, NextOwner DEF IInv
<1>3. QED
  BY <1>1, <1>2, PTL DEF Spec

\* Every reachable state is well typed: a session in the store is whole, a
\* cookie is a key (run `logins').
THEOREM TypeCorrect == Spec => []TypeOK
<1>1. IInv => TypeOK
  BY DEF IInv
<1>2. QED
  BY <1>1, Inductive, PTL

\* No interleaving hands one client the session key of another.
THEOREM KeyIsolation == Spec => []KeysStayWithClients
<1>1. IInv => KeysStayWithClients
  BY DEF IInv
<1>2. QED
  BY <1>1, Inductive, PTL

\* The user, the auth data and the session of a request never drift apart.
THEOREM CopiesAgree == Spec => []CopyMatchesData
<1>1. IInv => CopyMatchesData
  BY DEF IInv
<1>2. QED
  BY <1>1, Inductive, PTL

\* A step that writes under a key writes what a request holding it wrote, or
\* the first session under a fresh key.
LEMMA WriteNeedsHolder ==
  ASSUME IInv, [Next]_vars, NEW k \in Keys, Closed(k)
  PROVE  Closed(k)'
<1> USE DEF IInv, TypeOK, Opt
<1>0. None \notin Keys
  BY AuthServiceAssumption DEF Opt
<1> DEFINE Quiet == /\ owner'[k] = owner[k]
                    /\ entry'[k] = None
                    /\ \A r \in Requests : key'[r] = k => stage'[r] \notin {"verify", "handle"}
<1>1. Quiet => Closed(k)'
  BY DEF Closed, Store!Held
<1>2. entry[k] = None /\ owner[k] # None
  BY DEF Closed, Store!Held
<1>3. \A r \in Requests : key[r] = k => stage[r] \notin {"verify", "handle"}
  BY DEF Closed
<1>4. ASSUME NEW r \in Requests, NEW c \in Clients, Arrive(r, c) PROVE Quiet
  BY <1>2, <1>3, <1>4 DEF Arrive
<1>5. ASSUME NEW r \in Requests, Load(r) PROVE Quiet
  <2>1. entry'[k] = None
    BY <1>2, <1>5 DEF Load, Store!Load, Store!Drop
  <2>2. key'[r] # k
    BY <1>0, <1>2, <1>5 DEF Load, Store!Answer, Store!Live, Store!Held
  <2>3. QED
    BY <1>3, <1>5, <2>1, <2>2 DEF Load, Begin
<1>6. ASSUME NEW r \in Requests, GetUser(r) PROVE Quiet
  BY <1>2, <1>3, <1>6 DEF GetUser
<1>7. ASSUME NEW r \in Requests, Handler(r) PROVE Quiet
  BY <1>2, <1>3, <1>7 DEF Handler, authenticate, Login, Logout, WriteAppData, HandlerOnly
<1>8. ASSUME NEW r \in Requests, SaveFresh(r) PROVE Quiet
  BY <1>2, <1>3, <1>8 DEF SaveFresh, Respond, Store!Save, Store!Put, Store!StoreTypeOK
<1>9. ASSUME NEW r \in Requests, Commit(r) PROVE Quiet
  <2>1. CASE CommitNew(r)
    BY <1>2, <1>3, <1>8, <2>1 DEF CommitNew, Respond
  <2>2. CASE ~CommitNew(r)
    <3>1. key[r] \in Keys /\ key[r] # k
      BY <1>3, <1>9, <2>2
         DEF Commit, CommitChanged, CommitPurged, CommitRenewed, CommitUnchanged
    <3>2. \/ UNCHANGED entry
          \/ \E s : Store!Put(key[r], s)
          \/ Store!Drop({key[r]})
      BY <1>9, <2>2
         DEF Commit, CommitChanged, CommitPurged, CommitRenewed, CommitUnchanged,
             Store!Update, Store!Delete, Store!UpdateTtl
    <3>3. entry'[k] = None
      BY <1>2, <3>1, <3>2 DEF Store!Put, Store!Drop, Store!StoreTypeOK
    <3>4. QED
      BY <1>3, <1>9, <2>2, <3>3
         DEF Commit, CommitChanged, CommitPurged, CommitRenewed, CommitUnchanged, Respond
  <2>3. QED
    BY <2>1, <2>2
<1>10. ASSUME NEW R \in SUBSET Requests, End(R), UNCHANGED owner, entry'[k] = None
       PROVE  Quiet
  BY <1>3, <1>10 DEF End
<1>11. ASSUME \/ \E u \in Users, h \in Opt(Hashes) : ChangeUser(u, h)
              \/ TimePasses \/ UNCHANGED vars
       PROVE  Quiet
  BY <1>2, <1>3, <1>11
     DEF ChangeUser, TimePasses, vars, requestVars, Store!Lapse, Store!Collect, Store!Drop,
         Store!Live, Store!Held
<1>12. ASSUME Restart PROVE Quiet
  BY <1>10, <1>12 DEF Restart, Store!Clear, Store!Drop
<1>13. ASSUME NEW r \in Requests, Deliver(r) \/ Fail(r) PROVE Quiet
  BY <1>2, <1>10, <1>13 DEF Deliver, Fail
<1>14. ASSUME NEW r \in Requests, SaveRenewed(r) PROVE Quiet
  BY <1>8, <1>14 DEF SaveRenewed
<1>15. QED
  BY <1>1, <1>4, <1>5, <1>6, <1>7, <1>9, <1>11, <1>12, <1>13, <1>14 DEF Next, Server

\* A session that is gone, with no request left that had loaded it, is gone for
\* good, however many requests still arrive with its key.
THEOREM GoneForGood == Spec => ClosedStaysClosed
<1>1. IInv /\ [Next]_vars => [\A k \in Keys : Closed(k) => Closed(k)']_vars
  BY WriteNeedsHolder
<1>2. QED
  BY <1>1, Inductive, PTL DEF Spec, ClosedStaysClosed

\* What a commit stores for a request with a user is that user's session.
LEMMA CommitCarriesUser ==
  ASSUME IInv, [Next]_vars, NEW r \in Requests, Answering(r), inner[r].user # None,
         Status(r) \in {"Changed", "Renewed"}
  PROVE  cookie'[r] \in Keys /\ entry'[cookie'[r]].state.auth = DataOf(inner[r].user)
<1> USE DEF IInv, TypeOK, Opt
<1>1. inner[r].user \in User
  BY DEF Inner
<1>2. DataOf(inner[r].user) # None
  BY <1>1, DataOfType, AuthServiceAssumption
<1>3. ASSUME stage[r] \in {"handle", "save"}
      PROVE  inner[r].session.state.auth = DataOf(inner[r].user)
  BY <1>3 DEF CopyMatchesData
<1>4. ASSUME NEW k \in Keys, Store!Put(k, inner[r].session.state), cookie'[r] = k,
             stage[r] \in {"handle", "save"}
      PROVE  cookie'[r] \in Keys /\ entry'[cookie'[r]].state.auth = DataOf(inner[r].user)
  BY <1>3, <1>4 DEF Store!Put, Store!StoreTypeOK
<1>5. Commit(r) \/ SaveRenewed(r)
  <2>1. stage'[r] = "respond" /\ stage[r] # "respond"
    BY DEF Answering
  <2>2. ASSUME NEW q \in Requests, Server(q) PROVE Commit(r) \/ SaveRenewed(r)
    <3>1. CASE q = r
      BY <2>1, <2>2, <3>1 DEF Server, Load, Begin, GetUser, Deliver, End
    <3>2. CASE q # r
      BY <2>1, <2>2, <3>2
         DEF Server, Load, Begin, GetUser, Deliver, End, Commit, CommitNew, CommitChanged,
             CommitPurged, CommitRenewed, CommitUnchanged, SaveRenewed, SaveFresh, Respond
    <3>3. QED
      BY <3>1, <3>2
  <2>3. ASSUME NEW q \in Requests, Handler(q) PROVE FALSE
    BY <2>1, <2>3 DEF Handler, authenticate, Login, Logout, WriteAppData, HandlerOnly
  <2>4. ASSUME NEW q \in Requests, Fail(q) PROVE FALSE
    BY <2>1, <2>4 DEF Fail, End
  <2>5. ASSUME NEW q \in Requests, NEW c \in Clients, Arrive(q, c) PROVE FALSE
    BY <2>1, <2>5 DEF Arrive
  <2>6. ASSUME \/ \E u \in Users, h \in Opt(Hashes) : ChangeUser(u, h)
               \/ TimePasses \/ UNCHANGED vars
        PROVE FALSE
    BY <2>1, <2>6 DEF ChangeUser, TimePasses, vars, requestVars
  <2>7. ASSUME Restart PROVE FALSE
    BY <2>1, <2>7 DEF Restart, End
  <2>8. QED
    BY <2>2, <2>3, <2>4, <2>5, <2>6, <2>7 DEF Next
<1>6. ASSUME SaveFresh(r), stage[r] \in {"handle", "save"}
      PROVE  cookie'[r] \in Keys /\ entry'[cookie'[r]].state.auth = DataOf(inner[r].user)
  BY <1>4, <1>6 DEF SaveFresh, Respond, Store!Save
<1>7. CASE CommitNew(r)
  <2>1. inner[r].session.state # EmptyState
    BY <1>2, <1>3, <1>7 DEF CommitNew, EmptyState
  <2>2. QED
    BY <1>6, <1>7, <2>1 DEF CommitNew
<1>8. CASE CommitChanged(r)
  BY <1>4, <1>8 DEF CommitChanged, Respond, Store!Update
<1>9. CASE CommitRenewed(r)
  BY <1>9 DEF CommitRenewed, Answering
<1>10. CASE SaveRenewed(r)
  BY <1>6, <1>10 DEF SaveRenewed
<1>11. QED
  BY <1>5, <1>7, <1>8, <1>9, <1>10 DEF Commit, CommitPurged, CommitUnchanged

\* The session a response leaves with its client is the session of the user the
\* handler last saw.
THEOREM SessionOfTheUser == Spec => ResponseCarriesUser
<1>1. IInv /\ [Next]_vars =>
        [\A r \in Requests :
           Answering(r) /\ inner[r].user # None /\ Status(r) \in {"Changed", "Renewed"} =>
             /\ cookie'[r] \in Keys
             /\ entry'[cookie'[r]].state.auth = DataOf(inner[r].user)]_vars
  BY CommitCarriesUser
<1>2. QED
  BY <1>1, Inductive, PTL DEF Spec, ResponseCarriesUser
=============================================================================
