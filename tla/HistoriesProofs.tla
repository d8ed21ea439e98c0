--------------------------- MODULE HistoriesProofs ---------------------------
(***************************************************************************)
(* What holds of sessions over time, on top of AuthService's invariant:    *)
(* nobody is seen as a user it has not authenticated as; no interleaving   *)
(* of requests turns the key of an anonymous session into the key of a     *)
(* logged-in one; a handler sees an outdated user only if the change       *)
(* overtook its request.                                                   *)
(***************************************************************************)
EXTENDS Authentication, SessionFixation, UserFreshness, AuthServiceProofs

(* Authentication.                                                          *)

\* The history variable leaves AuthService as it is.
LEMMA AuthenticationImplements == AuthenticationSpec => Spec
<1>1. [Next /\ NoteGrants]_<<vars, granted>> => [Next]_vars
  OBVIOUS
<1>2. QED
  BY <1>1, PTL DEF AuthenticationSpec, Spec

\* Granting more revokes nothing.
LEMMA VouchedMore ==
  ASSUME NEW i, NEW c, NEW G, NEW H, G \subseteq H, Vouched(i, c, G)
  PROVE  Vouched(i, c, H)
BY DEF Vouched

\* AuthSession's methods bring in no user but the one they are given.
LEMMA MethodsVouched ==
  ASSUME NEW i \in Inner, NEW c, NEW G, Vouched(i, c, G)
  PROVE  /\ Vouched(logout(i), c, G)
         /\ \A u \in User : <<c, u.id>> \in G => Vouched(login(i, u), c, G)
         /\ \A a : Vouched([i EXCEPT !.session =
                              Write(i.session, [i.session.state EXCEPT !.app = a])], c, G)
<1>1. i.session \in Session /\ i.session.state \in State
  BY DEF Inner, Session
<1>2. Vouched(logout(i), c, G)
  BY DEF Vouched, logout, Purge, EmptyState, Inner
<1>3. ASSUME NEW u \in User, <<c, u.id>> \in G
      PROVE  Vouched(login(i, u), c, G)
  <2> DEFINE s == IF i.data = None THEN Renew(i.session) ELSE i.session
             d == DataOf(u)
  <2>1. s.state = i.session.state
    BY <1>1 DEF Renew, Session
  <2>2. update_session(s, d).state \in {i.session.state, [i.session.state EXCEPT !.auth = d]}
    BY <2>1 DEF update_session, Write
  <2>3. login(i, u) = NewInner(update_session(s, d), u, d)
    BY DEF login
  <2>4. [i.session.state EXCEPT !.auth = d].auth = d
    BY <1>1 DEF State
  <2>5. d.user_id = u.id
    BY DEF DataOf
  <2> DEFINE n == update_session(s, d)
  <2>6. /\ login(i, u).user = u
        /\ login(i, u).data = d
        /\ login(i, u).session = n
    BY <2>3 DEF NewInner
  <2>7. n.state.auth # None => <<c, n.state.auth.user_id>> \in G
    BY <1>3, <2>2, <2>4, <2>5 DEF Vouched
  <2> HIDE DEF s, d, n
  <2>8. QED
    BY <1>3, <2>5, <2>6, <2>7 DEF Vouched
<1>4. ASSUME NEW a
      PROVE  Vouched([i EXCEPT !.session =
                        Write(i.session, [i.session.state EXCEPT !.app = a])], c, G)
  <2> DEFINE s == Write(i.session, [i.session.state EXCEPT !.app = a])
             j == [i EXCEPT !.session = s]
  <2>1. [i.session.state EXCEPT !.app = a].auth = i.session.state.auth
    BY <1>1 DEF State
  <2>2. s.state.auth = i.session.state.auth
    BY <2>1 DEF Write
  <2>3. j.user = i.user /\ j.data = i.data /\ j.session = s
    BY DEF Inner
  <2> HIDE DEF s, j
  <2>4. Vouched(j, c, G)
    BY <2>2, <2>3 DEF Vouched
  <2>5. QED
    BY <2>4 DEF s, j
<1>5. QED
  BY <1>2, <1>3, <1>4

\* from_session brings in no user but the one the session names.
LEMMA FromSessionVouched ==
  ASSUME NEW s, NEW u \in Opt(User), NEW c, NEW G,
         s.state.auth # None => <<c, s.state.auth.user_id>> \in G,
         u # None => s.state.auth # None /\ u.id = s.state.auth.user_id
  PROVE  Vouched(from_session(s, u), c, G)
BY DEF Vouched, from_session, NewInner, Purge, EmptyState

\* A request without session sees nobody.
LEMMA NobodyVouched == ASSUME NEW c, NEW G PROVE Vouched(NoInner, c, G)
BY DEF Vouched, NoInner, NewInner, Loaded, EmptyState

\* Every step keeps all auth data within the grants.
LEMMA NextGranted ==
  ASSUME IInv, AuthDataIsGranted, Next, NoteGrants
  PROVE  AuthDataIsGranted'
<1> USE DEF IInv, TypeOK, Opt
<1>0. None \notin Keys /\ None \notin Clients
  BY AuthServiceAssumption
<1> DEFINE StoreKept ==
             \A k \in Keys :
               \/ entry'[k] = None
               \/ /\ entry[k] # None /\ entry'[k].state = entry[k].state
                  /\ owner'[k] = owner[k]
           RequestKept(q) ==
             /\ stage'[q] = "new" =>
                  stage[q] = "new" /\ inner'[q] = inner[q] /\ found'[q] = found[q]
             /\ Vouched(inner'[q], client'[q], granted')
             /\ found'[q] # None => <<client'[q], found'[q].id>> \in granted'
<1>1. granted \subseteq granted'
  BY DEF NoteGrants
<1>2. StoreKept =>
        \A k \in Keys : Store!Held(k)' /\ entry'[k].state.auth # None =>
          <<owner'[k], entry'[k].state.auth.user_id>> \in granted'
  BY <1>1 DEF AuthDataIsGranted, Store!Held
<1>3. ASSUME StoreKept, \A q \in Requests : RequestKept(q)
      PROVE  AuthDataIsGranted'
  BY <1>2, <1>3 DEF AuthDataIsGranted
<1>4. ASSUME NEW q \in Requests, UNCHANGED <<client[q], inner[q], found[q]>>,
             stage'[q] = "new" => stage[q] = "new"
      PROVE  RequestKept(q)
  BY <1>1, <1>4, VouchedMore DEF AuthDataIsGranted
<1>5. ASSUME NEW r \in Requests, Load(r) PROVE AuthDataIsGranted'
  <2>1. PICK s : /\ Begin(r, s)
                 /\ \/ s = EmptyState
                    \/ /\ key[r] \in Keys /\ entry[key[r]] # None
                       /\ s = entry[key[r]].state
    BY <1>5 DEF Load, Store!Answer, Store!Live, Store!Held
  <2>2. StoreKept
    BY <1>5, <2>1 DEF Load, Begin, Store!Load, Store!Drop
  <2>3. s.auth # None => <<client[r], s.auth.user_id>> \in granted
    <3>1. CASE s = EmptyState
      BY <3>1 DEF EmptyState
    <3>2. CASE s # EmptyState
      <4>1. key[r] \in Keys /\ entry[key[r]] # None /\ s = entry[key[r]].state
        BY <2>1, <3>2
      <4>2. owner[key[r]] = client[r]
        BY <1>0, <1>5, <4>1 DEF Load, KeysStayWithClients, InFlight
      <4>3. QED
        BY <4>1, <4>2 DEF AuthDataIsGranted, Store!Held
    <3>3. QED
      BY <3>1, <3>2
  <2>4. Vouched(inner'[r], client[r], granted)
    <3>1. Loaded(s).state = s
      BY DEF Loaded
    <3>2. CASE s.auth = None
      <4>1. inner'[r] = from_session(Loaded(s), None)
        BY <2>1, <3>2 DEF Begin
      <4>2. QED
        BY <2>3, <3>1, <4>1, FromSessionVouched
    <3>3. CASE s.auth # None
      <4>1. inner'[r] = NewInner(Loaded(s), None, None)
        BY <2>1, <3>3 DEF Begin, NoInner, NewInner
      <4>2. QED
        BY <2>3, <3>1, <4>1 DEF Vouched, NewInner
    <3>4. QED
      BY <3>2, <3>3
  <2>5. RequestKept(r)
    BY <1>1, <2>1, <2>4, VouchedMore DEF Begin, AuthDataIsGranted
  <2>6. \A q \in Requests \ {r} : RequestKept(q)
    BY <1>4, <2>1 DEF Begin
  <2>7. QED
    BY <1>3, <2>2, <2>5, <2>6
<1>6. ASSUME NEW r \in Requests, GetUser(r) PROVE AuthDataIsGranted'
  <2> DEFINE s == inner[r].session
             u == UserOf(s.state.auth.user_id)
  <2>1. inner'[r] = from_session(s, u) /\ s.state.auth # None
    BY <1>6 DEF GetUser, CopyMatchesData
  <2>2. s.state.auth \in Data
    BY <2>1 DEF Inner, Session, State
  <2>3. u \in Opt(User) /\ (u # None => u.id = s.state.auth.user_id)
    BY <2>2 DEF UserOf, User, Data
  <2>4. <<client[r], s.state.auth.user_id>> \in granted
    BY <2>1 DEF AuthDataIsGranted, Vouched
  <2> HIDE DEF s, u
  <2>5. Vouched(inner'[r], client[r], granted)
    BY <2>1, <2>3, <2>4, FromSessionVouched
  <2>6. RequestKept(r)
    BY <1>1, <1>6, <2>5, VouchedMore DEF GetUser, AuthDataIsGranted
  <2>7. \A q \in Requests \ {r} : RequestKept(q)
    BY <1>4, <1>6 DEF GetUser
  <2>8. QED
    BY <1>3, <1>6, <2>6, <2>7 DEF GetUser
<1>7. ASSUME NEW r \in Requests, Handler(r) PROVE AuthDataIsGranted'
  <2>1. /\ UNCHANGED <<entry, owner, client, stage>> /\ stage[r] = "handle"
        /\ \A q \in Requests \ {r} : inner'[q] = inner[q] /\ found'[q] = found[q]
    BY <1>7 DEF Handler, authenticate, Login, Logout, WriteAppData, HandlerOnly
  <2>2. found'[r] # None => <<client'[r], found'[r].id>> \in granted'
    BY <2>1 DEF NoteGrants
  <2>3. inner[r] \in Inner /\ Vouched(inner[r], client[r], granted)
    BY DEF AuthDataIsGranted
  <2>4. Vouched(inner'[r], client[r], granted)
    <3>1. CASE \E u \in Users : authenticate(r, u)
      BY <2>3, <3>1 DEF authenticate
    <3>2. CASE Login(r)
      <4>1. found[r] \in User /\ <<client[r], found[r].id>> \in granted
        BY <3>2 DEF Login, AuthDataIsGranted
      <4>2. inner'[r] = login(inner[r], found[r])
        BY <3>2 DEF Login
      <4>3. QED
        BY <2>3, <4>1, <4>2, MethodsVouched
    <3>3. CASE Logout(r)
      <4>1. inner'[r] = logout(inner[r])
        BY <3>3 DEF Logout
      <4>2. QED
        BY <2>3, <4>1, MethodsVouched
    <3>4. CASE \E a \in Opt(AppData) : WriteAppData(r, a)
      <4>1. PICK a : inner'[r] = [inner[r] EXCEPT !.session =
                       Write(inner[r].session, [inner[r].session.state EXCEPT !.app = a])]
        BY <3>4 DEF WriteAppData
      <4> DEFINE j == [inner[r] EXCEPT !.session =
                         Write(inner[r].session, [inner[r].session.state EXCEPT !.app = a])]
      <4>2. Vouched(j, client[r], granted)
        BY <2>3, MethodsVouched
      <4>3. inner'[r] = j
        BY <4>1
      <4> HIDE DEF j
      <4>4. QED
        BY <4>2, <4>3
    <3>5. QED
      BY <1>7, <3>1, <3>2, <3>3, <3>4 DEF Handler
  <2>5. RequestKept(r)
    BY <1>1, <2>1, <2>2, <2>4, VouchedMore
  <2>6. \A q \in Requests \ {r} : RequestKept(q)
    BY <1>4, <2>1
  <2>7. QED
    BY <1>3, <2>1, <2>5, <2>6
<1>8. ASSUME NEW r \in Requests, Commit(r) \/ SaveRenewed(r) PROVE AuthDataIsGranted'
  <2>1. /\ UNCHANGED <<client, inner, found>> /\ stage[r] \in {"handle", "save"}
        /\ \A q \in Requests : stage'[q] = "new" => stage[q] = "new"
    BY <1>8 DEF Commit, CommitNew, CommitChanged, CommitPurged, CommitRenewed,
                CommitUnchanged, SaveRenewed, SaveFresh, Respond
  <2>2. \A q \in Requests : RequestKept(q)
    BY <1>4, <2>1
  <2>3. client[r] # None
    BY <2>1 DEF KeysStayWithClients, InFlight
  <2>4. \/ StoreKept
        \/ \E k \in Keys : /\ Store!Put(k, inner[r].session.state)
                           /\ owner' \in {owner, [owner EXCEPT ![k] = client[r]]}
                           /\ owner'[k] = client[r]
    <3>1. CASE SaveFresh(r)
      BY <3>1 DEF SaveFresh, Store!Save
    <3>2. CASE ~SaveFresh(r) /\ CommitChanged(r)
      BY <1>0, <3>2 DEF CommitChanged, Store!Update, KeysStayWithClients, InFlight
    <3>3. CASE ~SaveFresh(r) /\ ~CommitChanged(r)
      <4>1. UNCHANGED owner
        BY <1>8, <3>3 DEF Commit, CommitNew, CommitPurged, CommitRenewed, CommitUnchanged,
                          SaveRenewed
      <4>2. \/ UNCHANGED entry \/ Store!Drop({key[r]})
            \/ key[r] \in Keys /\ Store!UpdateTtl(key[r])
        BY <1>8, <3>3 DEF Commit, CommitNew, CommitPurged, CommitRenewed, CommitUnchanged,
                          SaveRenewed, Store!Delete
      <4>3. StoreKept
        BY <4>1, <4>2 DEF Store!Drop, Store!UpdateTtl, Store!Put, Store!Held,
                          Store!StoreTypeOK, Store!Entry
      <4>4. QED
        BY <4>3
    <3>4. QED
      BY <3>1, <3>2, <3>3
  <2>5. CASE StoreKept
    BY <1>3, <2>2, <2>5
  <2>6. ASSUME NEW k \in Keys, Store!Put(k, inner[r].session.state), owner'[k] = client[r],
               owner' \in {owner, [owner EXCEPT ![k] = client[r]]}
        PROVE  AuthDataIsGranted'
    <3>1. \A j \in Keys \ {k} : entry'[j] = entry[j] /\ owner'[j] = owner[j]
      BY <2>6 DEF Store!Put, Store!StoreTypeOK
    <3>2. entry'[k].state = inner[r].session.state
      BY <2>6 DEF Store!Put, Store!StoreTypeOK
    <3>3. entry'[k].state.auth # None =>
            <<owner'[k], entry'[k].state.auth.user_id>> \in granted'
      BY <1>1, <2>6, <3>2 DEF AuthDataIsGranted, Vouched
    <3>4. \A j \in Keys : Store!Held(j)' /\ entry'[j].state.auth # None =>
            <<owner'[j], entry'[j].state.auth.user_id>> \in granted'
      BY <1>1, <3>1, <3>3 DEF AuthDataIsGranted, Store!Held
    <3>5. QED
      BY <2>2, <3>4 DEF AuthDataIsGranted
  <2>7. QED
    BY <2>4, <2>5, <2>6
<1>9. ASSUME NEW R \in SUBSET Requests, End(R), StoreKept PROVE AuthDataIsGranted'
  <2>1. ASSUME NEW q \in Requests PROVE RequestKept(q)
    <3>1. CASE q \in R
      BY <1>9, <3>1, NobodyVouched DEF End
    <3>2. CASE q \notin R
      BY <1>4, <1>9, <3>2 DEF End
    <3>3. QED
      BY <3>1, <3>2
  <2>2. QED
    BY <1>3, <1>9, <2>1
<1>10. ASSUME NEW r \in Requests, Deliver(r) \/ Fail(r) PROVE AuthDataIsGranted'
  BY <1>9, <1>10 DEF Deliver, Fail
<1>11. ASSUME NEW r \in Requests, NEW c \in Clients, Arrive(r, c) PROVE AuthDataIsGranted'
  <2>1. RequestKept(r)
    BY <1>11, NobodyVouched DEF Arrive, AuthDataIsGranted
  <2>2. \A q \in Requests \ {r} : RequestKept(q)
    BY <1>4, <1>11 DEF Arrive
  <2>3. QED
    BY <1>3, <1>11, <2>1, <2>2 DEF Arrive
<1>12. ASSUME NEW u \in Users, NEW h \in Opt(Hashes), ChangeUser(u, h)
       PROVE  AuthDataIsGranted'
  BY <1>3, <1>4, <1>12 DEF ChangeUser, requestVars
<1>13. ASSUME TimePasses PROVE AuthDataIsGranted'
  <2>1. StoreKept
    BY <1>13 DEF TimePasses, Store!Lapse, Store!Collect, Store!Drop, Store!Live, Store!Held,
                 Store!StoreTypeOK, Store!Entry
  <2>2. QED
    BY <1>3, <1>4, <1>13, <2>1 DEF TimePasses, requestVars
<1>14. ASSUME Restart PROVE AuthDataIsGranted'
  BY <1>9, <1>14 DEF Restart, Store!Clear, Store!Drop
<1>15. QED
  BY <1>5, <1>6, <1>7, <1>8, <1>10, <1>11, <1>12, <1>13, <1>14 DEF Next, Server

\* Every copy of auth data goes back to an authentication by its client.
THEOREM GrantedAlways == AuthenticationSpec => []AuthDataIsGranted
<1>1. Init /\ granted = {} => AuthDataIsGranted
  BY NobodyVouched DEF Init, AuthDataIsGranted, Store!StoreInit, Store!Held
<1>2. IInv /\ AuthDataIsGranted /\ [Next /\ NoteGrants]_<<vars, granted>>
        => AuthDataIsGranted'
  <2>1. ASSUME AuthDataIsGranted, UNCHANGED <<vars, granted>>
        PROVE  AuthDataIsGranted'
    BY <2>1 DEF AuthDataIsGranted, vars, requestVars, Store!Held, Vouched
  <2>2. QED
    BY <2>1, NextGranted
<1>3. QED
  BY <1>1, <1>2, AuthenticationImplements, Inductive, PTL DEF AuthenticationSpec

\* However many clients, users and requests there are: a handler sees a user
\* only if the client has authenticated as that user.
THEOREM NoImpersonation == AuthenticationSpec => []OnlyAuthenticatedUsers
<1>1. AuthDataIsGranted => OnlyAuthenticatedUsers
  BY DEF AuthDataIsGranted, OnlyAuthenticatedUsers, Vouched
<1>2. QED
  BY <1>1, GrantedAlways, PTL

-----------------------------------------------------------------------------
(* SessionFixation.                                                         *)

\* The history variable leaves AuthService as it is.
LEMMA FixationImplements == FixationSpec => Spec
<1>1. [Next /\ NoteAnonymous]_<<vars, anonymous>> => [Next]_vars
  OBVIOUS
<1>2. QED
  BY <1>1, PTL DEF FixationSpec, Spec

\* The copy of the session a request holds may still be written back as it is.
Writable(r) ==
  /\ stage[r] \in {"verify", "handle"} /\ key[r] # None
  /\ Status(r) \in {"Unchanged", "Changed"}

\* Steps that store nothing new and give no request another copy to write back.
LEMMA QuietStep ==
  ASSUME IInv, KindOfKeyIsFixed, NoteAnonymous,
         UNCHANGED owner,
         \A k \in Keys : \/ entry'[k] = None
                         \/ entry[k] # None /\ entry'[k].state.auth = entry[k].state.auth,
         \A r \in Requests : Writable(r)' =>
           \/ /\ Writable(r) /\ key'[r] = key[r]
              /\ inner'[r].session.state.auth = None <=> inner[r].session.state.auth = None
           \/ /\ key'[r] \in Keys /\ entry[key'[r]] # None
              /\ inner'[r].session.state.auth = entry[key'[r]].state.auth
  PROVE  KindOfKeyIsFixed'
<1> USE DEF KindOfKeyIsFixed, Store!Held
<1>1. anonymous' = anonymous
  BY DEF NoteAnonymous
<1>2. \A r \in Requests : Writable(r)' =>
        (inner'[r].session.state.auth = None <=> key'[r] \in anonymous)
  BY DEF Writable
<1>3. QED
  BY <1>1, <1>2 DEF Writable

\* A login leaves the request a session under renewal, or one that was logged
\* in already.
LEMMA LoginCopy ==
  ASSUME IInv, NEW r \in Requests, Login(r), Writable(r)'
  PROVE  /\ Writable(r) /\ key'[r] = key[r]
         /\ inner'[r].session.state.auth # None /\ inner[r].session.state.auth # None
<1> USE DEF IInv, TypeOK, Opt
<1>1. /\ stage[r] = "handle" /\ stage'[r] = "handle" /\ key'[r] = key[r]
      /\ found[r] \in User /\ inner[r] \in Inner
      /\ inner'[r] = login(inner[r], found[r])
  BY DEF Login, HandlerOnly
<1>2. Status(r) # "Purged" => inner[r].session.state.auth = inner[r].data
  BY <1>1 DEF CopyMatchesData
<1>3. inner[r].session \in Session /\ inner[r].session.state \in State
  BY <1>1 DEF Inner, Session
<1>4. Status(r) \in {"Unchanged", "Changed"} /\ inner[r].data # None
  BY <1>1, <1>3
     DEF Writable, Status, login, NewInner, update_session, Write, Renew, Session, SessionStatus
<1>5. inner'[r].session.state.auth = DataOf(found[r])
  BY <1>1, <1>3, <1>4
     DEF Status, login, NewInner, update_session, Write, State
<1>6. DataOf(found[r]) # None
  BY <1>1, DataOfType, AuthServiceAssumption
<1>7. QED
  BY <1>1, <1>2, <1>4, <1>5, <1>6 DEF Writable

\* Every step keeps the kinds of keys apart.
LEMMA NextKind ==
  ASSUME IInv, KindOfKeyIsFixed, Next, NoteAnonymous
  PROVE  KindOfKeyIsFixed'
<1> USE DEF IInv, TypeOK, Opt
<1>0. None \notin Keys /\ None \notin Clients /\ Keep \notin Keys
  BY AuthServiceAssumption
<1> DEFINE StoreKept ==
             \A k \in Keys : \/ entry'[k] = None
                             \/ entry[k] # None /\ entry'[k].state.auth = entry[k].state.auth
           CopyKept(q) ==
             Writable(q)' =>
               /\ Writable(q) /\ key'[q] = key[q]
               /\ inner'[q].session.state.auth = None <=> inner[q].session.state.auth = None
<1>1. ASSUME UNCHANGED owner, StoreKept, \A q \in Requests : CopyKept(q)
      PROVE  KindOfKeyIsFixed'
  BY <1>1, QuietStep
<1>2. ASSUME NEW q \in Requests,
             UNCHANGED <<stage[q], key[q], inner[q]>>
             \/ stage'[q] \notin {"verify", "handle"}
      PROVE  CopyKept(q)
  BY <1>2 DEF Writable, Status
<1>3. ASSUME NEW r \in Requests, Load(r) PROVE KindOfKeyIsFixed'
  <2>1. PICK s : /\ Begin(r, s)
                 /\ \/ key'[r] = None
                    \/ /\ key'[r] \in Keys /\ entry[key'[r]] # None
                       /\ s = entry[key'[r]].state
    BY <1>3 DEF Load, Store!Answer, Store!Live, Store!Held
  <2>2. StoreKept
    BY <1>3 DEF Load, Store!Load, Store!Drop
  <2>3. \A q \in Requests \ {r} : CopyKept(q)
    BY <1>2, <1>3, <2>1 DEF Load, Begin
  <2>4. inner'[r].session.state = s
    BY <2>1 DEF Begin, from_session, NewInner, NoInner, Loaded
  <2>5. UNCHANGED owner
    BY <2>1 DEF Begin
  <2>6. QED
    BY <2>1, <2>2, <2>3, <2>4, <2>5, QuietStep DEF Writable
<1>4. ASSUME NEW r \in Requests, GetUser(r) PROVE KindOfKeyIsFixed'
  <2>1. CopyKept(r)
    BY <1>4 DEF GetUser, Writable, Status, from_session, NewInner, Purge
  <2>2. \A q \in Requests \ {r} : CopyKept(q)
    BY <1>2, <1>4 DEF GetUser
  <2>3. QED
    BY <1>1, <1>4, <2>1, <2>2 DEF GetUser
<1>5. ASSUME NEW r \in Requests, Handler(r) PROVE KindOfKeyIsFixed'
  <2>1. UNCHANGED <<entry, owner, stage, key>> /\ stage[r] = "handle"
        /\ \A q \in Requests \ {r} : inner'[q] = inner[q]
    BY <1>5 DEF Handler, authenticate, Login, Logout, WriteAppData, HandlerOnly
  <2>2. CopyKept(r)
    <3>1. CASE Login(r)
      BY <3>1, LoginCopy
    <3>2. CASE Logout(r)
      BY <2>1, <3>2 DEF Logout, logout, Writable, Status, Purge, Inner
    <3>3. CASE \E a \in Opt(AppData) : WriteAppData(r, a)
      <4>1. PICK a \in Opt(AppData) : WriteAppData(r, a)
        BY <3>3
      <4>2. inner[r] \in Inner /\ inner[r].session.state \in State
        BY DEF Inner, Session
      <4>3. inner'[r].session
              = Write(inner[r].session, [inner[r].session.state EXCEPT !.app = a])
        BY <4>1, <4>2 DEF WriteAppData, Inner
      <4>4. [inner[r].session.state EXCEPT !.app = a].auth = inner[r].session.state.auth
        BY <4>2 DEF State
      <4>5. inner[r].session.status \in SessionStatus
        BY <4>2 DEF Inner, Session
      <4>6. QED
        BY <2>1, <4>3, <4>4, <4>5 DEF Writable, Status, Write, SessionStatus
    <3>4. CASE \E u \in Users : authenticate(r, u)
      BY <1>2, <2>1, <3>4 DEF authenticate
    <3>5. QED
      BY <1>5, <3>1, <3>2, <3>3, <3>4 DEF Handler
  <2>3. \A q \in Requests \ {r} : CopyKept(q)
    BY <1>2, <2>1
  <2>4. QED
    BY <1>1, <2>1, <2>2, <2>3
<1>6. ASSUME NEW r \in Requests, SaveFresh(r), stage[r] \in {"handle", "save"}
      PROVE  KindOfKeyIsFixed'
  <2>1. PICK k \in Keys : /\ owner[k] = None
                          /\ owner' = [owner EXCEPT ![k] = client[r]]
                          /\ Store!Put(k, inner[r].session.state)
                          /\ Respond(r, k)
    BY <1>6 DEF SaveFresh, Store!Save
  <2>2. client[r] # None
    BY <1>6 DEF KeysStayWithClients, InFlight
  <2>3. k \notin anonymous
    BY <2>1 DEF KindOfKeyIsFixed
  <2>4. /\ entry'[k] # None
        /\ entry'[k].state = inner[r].session.state
        /\ \A j \in Keys \ {k} : entry'[j] = entry[j] /\ owner'[j] = owner[j]
        /\ owner'[k] # None
    <3> DEFINE e == [state |-> inner[r].session.state, live |-> TRUE]
    <3>1. e \in [state : State, live : BOOLEAN]
      BY DEF Inner, Session
    <3>2. e # None
      BY <3>1, AuthServiceAssumption
    <3>3. entry'[k] = e /\ \A j \in Keys \ {k} : entry'[j] = entry[j]
      BY <2>1 DEF Store!Put, Store!StoreTypeOK
    <3>4. QED
      BY <2>1, <2>2, <3>2, <3>3
  <2>5. \A j \in Keys \ {k} : j \in anonymous' <=> j \in anonymous
    BY <2>4 DEF NoteAnonymous, KindOfKeyIsFixed, Store!Held
  <2>6. \A q \in Requests : Writable(q)' => Writable(q) /\ q # r /\ key[q] \in Keys \ {k}
    BY <1>0, <2>1 DEF Respond, Writable, Status, KeysStayWithClients, InFlight
  <2>7. \A q \in Requests : key'[q] = key[q] /\ inner'[q] = inner[q]
    BY <2>1 DEF Respond
  <2>8. \A q \in Requests : Writable(q)' =>
          (inner'[q].session.state.auth = None <=> key'[q] \in anonymous')
    BY <2>5, <2>6, <2>7 DEF KindOfKeyIsFixed, Writable
  <2>9. \A j \in Keys : entry'[j] # None =>
          (entry'[j].state.auth = None <=> j \in anonymous')
    BY <2>3, <2>4, <2>5 DEF NoteAnonymous, KindOfKeyIsFixed, Store!Held
  <2>10. \A j \in anonymous' : j \in Keys /\ owner'[j] # None
    BY <2>4, <2>5 DEF NoteAnonymous, KindOfKeyIsFixed
  <2>11. QED
    BY <2>8, <2>9, <2>10 DEF KindOfKeyIsFixed, Writable, Store!Held
<1>7. ASSUME NEW r \in Requests, Commit(r) PROVE KindOfKeyIsFixed'
  <2>1. /\ UNCHANGED <<key, inner>> /\ stage[r] = "handle" /\ stage'[r] \in {"save", "respond"}
        /\ \A q \in Requests \ {r} : stage'[q] = stage[q]
    BY <1>7 DEF Commit, CommitNew, CommitChanged, CommitPurged, CommitRenewed,
                CommitUnchanged, SaveFresh, Respond
  <2>2. \A q \in Requests : CopyKept(q)
    BY <1>2, <2>1
  <2>3. CASE CommitNew(r)
    <3>1. CASE SaveFresh(r)
      BY <1>6, <2>1, <3>1
    <3>2. CASE ~SaveFresh(r)
      BY <1>1, <2>2, <2>3, <3>2 DEF CommitNew
    <3>3. QED
      BY <3>1, <3>2
  <2>4. CASE CommitChanged(r)
    <3> DEFINE k == key[r]
    <3>1. k \in Keys /\ Store!Put(k, inner[r].session.state) /\ UNCHANGED owner
      BY <2>4 DEF CommitChanged, Store!Update
    <3>2. inner[r].session.state.auth = None <=> k \in anonymous
      BY <2>4 DEF CommitChanged, KindOfKeyIsFixed
    <3>3. /\ entry'[k].state = inner[r].session.state
          /\ \A j \in Keys \ {k} : entry'[j] = entry[j]
      BY <3>1 DEF Store!Put, Store!StoreTypeOK
    <3>4. anonymous' = anonymous
      BY <3>1, <3>2, <3>3 DEF NoteAnonymous, KindOfKeyIsFixed, Store!Held
    <3>5. QED
      BY <2>2, <3>1, <3>2, <3>3, <3>4 DEF KindOfKeyIsFixed, Writable, Store!Held
  <2>5. CASE CommitPurged(r)
    BY <1>1, <2>2, <2>5 DEF CommitPurged, Store!Delete, Store!Drop
  <2>6. CASE CommitRenewed(r)
    BY <1>1, <2>2, <2>6 DEF CommitRenewed, Store!Delete, Store!Drop
  <2>7. CASE CommitUnchanged(r)
    <3>1. StoreKept
      BY <2>7 DEF CommitUnchanged, Store!UpdateTtl, Store!Put, Store!Held, Store!StoreTypeOK
    <3>2. QED
      BY <1>1, <2>2, <2>7, <3>1 DEF CommitUnchanged
  <2>8. QED
    BY <1>7, <2>3, <2>4, <2>5, <2>6, <2>7 DEF Commit
<1>8. ASSUME NEW r \in Requests, SaveRenewed(r) PROVE KindOfKeyIsFixed'
  BY <1>6, <1>8 DEF SaveRenewed
<1>9. ASSUME NEW R \in SUBSET Requests, End(R), UNCHANGED owner, StoreKept
      PROVE  KindOfKeyIsFixed'
  <2>1. \A q \in Requests : CopyKept(q)
    BY <1>2, <1>9 DEF End
  <2>2. QED
    BY <1>1, <1>9, <2>1
<1>10. ASSUME NEW r \in Requests, Deliver(r) \/ Fail(r) PROVE KindOfKeyIsFixed'
  BY <1>9, <1>10 DEF Deliver, Fail
<1>11. ASSUME NEW r \in Requests, NEW c \in Clients, Arrive(r, c) PROVE KindOfKeyIsFixed'
  <2>1. \A q \in Requests : CopyKept(q)
    BY <1>2, <1>11 DEF Arrive
  <2>2. QED
    BY <1>1, <1>11, <2>1 DEF Arrive
<1>12. ASSUME NEW u \in Users, NEW h \in Opt(Hashes), ChangeUser(u, h)
       PROVE  KindOfKeyIsFixed'
  BY <1>1, <1>2, <1>12 DEF ChangeUser, requestVars
<1>13. ASSUME TimePasses PROVE KindOfKeyIsFixed'
  <2>1. StoreKept
    BY <1>13 DEF TimePasses, Store!Lapse, Store!Collect, Store!Drop, Store!Live, Store!Held,
                 Store!StoreTypeOK, Store!Entry
  <2>2. QED
    BY <1>1, <1>2, <1>13, <2>1 DEF TimePasses, requestVars
<1>14. ASSUME Restart PROVE KindOfKeyIsFixed'
  BY <1>9, <1>14 DEF Restart, Store!Clear, Store!Drop
<1>15. QED
  BY <1>3, <1>4, <1>5, <1>7, <1>8, <1>10, <1>11, <1>12, <1>13, <1>14 DEF Next, Server

\* A key is anonymous or logged in for life, in every execution.
THEOREM KeysKeepTheirKind == FixationSpec => []KindOfKeyIsFixed
<1>1. Init /\ anonymous = {} => KindOfKeyIsFixed
  BY DEF Init, KindOfKeyIsFixed, Store!StoreInit, Store!Held
<1>2. IInv /\ KindOfKeyIsFixed /\ [Next /\ NoteAnonymous]_<<vars, anonymous>>
        => KindOfKeyIsFixed'
  <2>1. ASSUME IInv, KindOfKeyIsFixed, UNCHANGED <<vars, anonymous>>
        PROVE  KindOfKeyIsFixed'
    BY <2>1 DEF KindOfKeyIsFixed, vars, requestVars, Status, Store!Held
  <2>2. QED
    BY <2>1, NextKind
<1>3. QED
  BY <1>1, <1>2, FixationImplements, Inductive, PTL DEF FixationSpec

\* However requests interleave, expire, fail and write back late, a key that
\* has ever stood for an anonymous session never stands for a logged-in one.
THEOREM FixationPrevented == FixationSpec => []NoSessionFixation
<1>1. KindOfKeyIsFixed => NoSessionFixation
  BY DEF KindOfKeyIsFixed, NoSessionFixation
<1>2. QED
  BY <1>1, KeysKeepTheirKind, PTL

-----------------------------------------------------------------------------
(* UserFreshness.                                                           *)

\* The history variable leaves AuthService as it is.
LEMMA FreshnessImplements == FreshnessSpec => Spec
<1>1. [Next /\ NoteChanges]_<<vars, overtaken>> => [Next]_vars
  OBVIOUS
<1>2. QED
  BY <1>1, PTL DEF FreshnessSpec, Spec

\* u is what the backend of this moment has for that user, unless the user is in S.
Current(u, S) == UserOf(u.id) = u \/ u.id \in S

\* What OutdatedOnlyIfOvertaken rests on: the user a handler has authenticated
\* but not logged in yet is as fresh as the one it sees.
Fresh(r) ==
  /\ stage[r] \in {"new", "load"} => inner[r] = NoInner /\ found[r] = None
  /\ InFlight(r) /\ inner[r].user # None =>
       Current(inner[r].user, overtaken[r]) /\ DataOf(inner[r].user) = inner[r].data
  /\ InFlight(r) /\ found[r] # None => Current(found[r], overtaken[r])

AllFresh == overtaken \in [Requests -> SUBSET Users] /\ \A r \in Requests : Fresh(r)

\* A change of the backend is noted with every request in flight.
LEMMA ChangeIsNoted ==
  ASSUME AllFresh, NoteChanges, NEW r \in Requests,
         stage[r] \notin {"new", "done"}, stage'[r] \notin {"new", "done"},
         NEW u \in User, Current(u, overtaken[r])
  PROVE  Current(u, overtaken[r])'
<1>1. overtaken'[r] = overtaken[r] \cup {v \in Users : users'[v] # users[v]}
  BY DEF NoteChanges
<1>2. u.id \in Users
  BY DEF User
<1>3. QED
  BY <1>1, <1>2 DEF Current, UserOf

\* A request that keeps what it holds keeps it fresh.
LEMMA KeepsFresh ==
  ASSUME TypeOK, AllFresh, NoteChanges, NEW r \in Requests,
         stage'[r] \in {"new", "load"} => stage[r] \in {"new", "load"},
         stage[r] = "new" \/ stage'[r] \in {"new", "done"} \/ InFlight(r),
         inner'[r] = inner[r], found'[r] = found[r] \/ found'[r] = None
  PROVE  Fresh(r)'
<1> USE DEF TypeOK, Opt
<1>1. inner[r].user \in User \cup {None} /\ found[r] \in User \cup {None}
  BY DEF Inner
<1>2. CASE stage'[r] \in {"new", "load"}
  BY <1>2 DEF AllFresh, Fresh, NoInner, NewInner
<1>3. CASE stage'[r] = "done"
  BY <1>3 DEF Fresh, InFlight
<1>4. CASE stage'[r] \notin {"new", "load", "done"} /\ stage[r] = "new"
  BY <1>4 DEF AllFresh, Fresh, NoInner, NewInner
<1>5. CASE stage'[r] \notin {"new", "load", "done"} /\ InFlight(r)
  <2>1. Fresh(r) /\ InFlight(r)'
    BY <1>5 DEF AllFresh, InFlight
  <2>2. \A u \in User : Current(u, overtaken[r]) => Current(u, overtaken[r])'
    BY <1>5, ChangeIsNoted DEF InFlight
  <2>3. found'[r] # None => Current(found[r], overtaken[r])'
    <3> SUFFICES ASSUME found'[r] # None PROVE Current(found[r], overtaken[r])'
      OBVIOUS
    <3>1. PICK u \in User : u = found[r] /\ u = found'[r]
      BY <1>1
    <3>2. Current(u, overtaken[r])'
      BY <1>5, <2>1, <2>2, <3>1 DEF Fresh
    <3>3. QED
      BY <3>1, <3>2 DEF Current, UserOf
  <2>4. inner'[r].user # None =>
          Current(inner[r].user, overtaken[r])' /\ DataOf(inner'[r].user) = inner'[r].data
    <3> SUFFICES ASSUME inner'[r].user # None
                 PROVE  /\ Current(inner[r].user, overtaken[r])'
                        /\ DataOf(inner'[r].user) = inner'[r].data
      OBVIOUS
    <3>1. PICK u \in User : u = inner[r].user /\ u = inner'[r].user
      BY <1>1
    <3>2. Current(u, overtaken[r])' /\ DataOf(u) = inner[r].data
      BY <1>5, <2>1, <2>2, <3>1 DEF Fresh
    <3>3. QED
      BY <3>1, <3>2 DEF Current, UserOf
  <2>5. QED
    BY <1>5, <2>3, <2>4 DEF Fresh
<1>6. QED
  BY <1>2, <1>3, <1>4, <1>5

\* What AuthSession's methods leave as the user is the one they were given.
LEMMA UserAfter ==
  ASSUME NEW i \in Inner, NEW u \in User
  PROVE  /\ login(i, u).user = u /\ login(i, u).data = DataOf(u)
         /\ logout(i).user = None
BY DEF login, logout, NewInner, Inner

\* from_session lets a user through only with a session bound to its hash.
LEMMA UserThrough ==
  ASSUME NEW s, NEW w, from_session(s, w).user # None
  PROVE  /\ w # None /\ from_session(s, w).user = w
         /\ from_session(s, w).data = s.state.auth /\ s.state.auth.auth_hash = w.hash
BY DEF from_session, NewInner, Verified

\* Every step leaves every request with fresh users.
LEMMA NextFresh ==
  ASSUME IInv, AllFresh, Next, NoteChanges
  PROVE  AllFresh'
<1> SUFFICES ASSUME NEW q \in Requests PROVE Fresh(q)'
  <2>1. overtaken' \in [Requests -> SUBSET Users]
    BY DEF NoteChanges, AllFresh
  <2>2. QED
    BY <2>1 DEF AllFresh
<1> USE DEF IInv, TypeOK, Opt
<1>0. None \notin User
  BY AuthServiceAssumption
<1>1. ASSUME UNCHANGED <<stage, inner, found>> PROVE Fresh(q)'
  <2>1. CASE stage[q] = "done"
    BY <1>1, <2>1 DEF Fresh, InFlight
  <2>2. CASE stage[q] # "done"
    BY <1>1, <2>2, KeepsFresh DEF InFlight
  <2>3. QED
    BY <2>1, <2>2
<1>2. ASSUME NEW r \in Requests, r # q,
             stage'[q] = stage[q], inner'[q] = inner[q], found'[q] = found[q]
      PROVE  Fresh(q)'
  <2>1. CASE stage[q] = "done"
    BY <1>2, <2>1 DEF Fresh, InFlight
  <2>2. CASE stage[q] # "done"
    BY <1>2, <2>2, KeepsFresh DEF InFlight
  <2>3. QED
    BY <2>1, <2>2
<1>3. ASSUME NEW r \in Requests, NEW c \in Clients, Arrive(r, c) PROVE Fresh(q)'
  <2>1. CASE q = r
    BY <1>3, <2>1, KeepsFresh DEF Arrive
  <2>2. CASE q # r
    BY <1>2, <1>3, <2>2 DEF Arrive
  <2>3. QED
    BY <2>1, <2>2
<1>4. ASSUME NEW r \in Requests, Load(r) PROVE Fresh(q)'
  <2>1. PICK s : Begin(r, s) /\ stage[r] = "load"
    BY <1>4 DEF Load
  <2>2. CASE q = r
    <3>1. inner'[q].user = None
      BY <2>1, <2>2 DEF Begin, from_session, NoInner, NewInner
    <3>2. found'[q] = None /\ stage'[q] \in {"handle", "verify"}
      BY <2>1, <2>2 DEF Begin, AllFresh, Fresh
    <3>3. QED
      BY <3>1, <3>2 DEF Fresh
  <2>3. CASE q # r
    BY <1>2, <2>1, <2>3 DEF Begin
  <2>4. QED
    BY <2>2, <2>3
<1>5. ASSUME NEW r \in Requests, GetUser(r) PROVE Fresh(q)'
  <2>1. CASE q = r
    <3>0. PICK s, w : s = inner[r].session /\ w = UserOf(s.state.auth.user_id)
      OBVIOUS
    <3>1. inner'[q] = from_session(s, w) /\ s.state.auth # None
      BY <1>5, <2>1, <3>0 DEF GetUser, CopyMatchesData
    <3>2. s.state.auth \in Data
      BY <3>0, <3>1 DEF Inner, Session, State
    <3>3. /\ w \in Opt(User)
          /\ w # None => w.id = s.state.auth.user_id /\ UserOf(w.id) = w
      BY <3>0, <3>2 DEF UserOf, User, Data
    <3>4. w # None /\ s.state.auth.auth_hash = w.hash => DataOf(w) = s.state.auth
      BY <3>2, <3>3 DEF DataOf, Data
    <3>5. users' = users /\ found'[q] = found[q] /\ stage[q] = "verify" /\ stage'[q] = "handle"
      BY <1>5, <2>1 DEF GetUser
    <3>6. \A u : UserOf(u)' = UserOf(u)
      BY <3>5 DEF UserOf
    <3>7. inner'[q].user # None =>
            /\ Current(inner[q].user, overtaken[q])'
            /\ DataOf(inner'[q].user) = inner'[q].data
      <4> SUFFICES ASSUME inner'[q].user # None
                   PROVE  /\ Current(inner[q].user, overtaken[q])'
                          /\ DataOf(inner'[q].user) = inner'[q].data
        OBVIOUS
      <4>1. /\ inner'[q].user = w /\ w # None
            /\ inner'[q].data = s.state.auth /\ s.state.auth.auth_hash = w.hash
        BY <3>1, UserThrough
      <4>2. UserOf(w.id)' = w
        BY <3>3, <3>6, <4>1
      <4>3. QED
        BY <3>4, <4>1, <4>2 DEF Current
    <3>8. found'[q] # None => Current(found[q], overtaken[q])'
      BY <3>5, ChangeIsNoted DEF AllFresh, Fresh, InFlight
    <3>9. QED
      BY <3>5, <3>7, <3>8 DEF Fresh
  <2>2. CASE q # r
    BY <1>2, <1>5, <2>2 DEF GetUser
  <2>3. QED
    BY <2>1, <2>2
<1>6. ASSUME NEW r \in Requests, Handler(r) PROVE Fresh(q)'
  <2>1. /\ UNCHANGED <<users, stage>> /\ stage[r] = "handle"
        /\ r # q => inner'[q] = inner[q] /\ found'[q] = found[q]
    BY <1>6 DEF Handler, authenticate, Login, Logout, WriteAppData, HandlerOnly
  <2>2. CASE q = r
    <3>1. \A u \in User : Current(u, overtaken[q]) => Current(u, overtaken[q])'
      BY <2>1, <2>2, ChangeIsNoted
    <3>2. /\ inner[q] \in Inner /\ found[q] \in Opt(User) /\ inner[q].user \in Opt(User)
          /\ Fresh(q) /\ InFlight(q) /\ stage'[q] = "handle"
      BY <2>1, <2>2 DEF AllFresh, InFlight, Inner
    <3>3. SUFFICES /\ inner'[q].user # None =>
                        /\ Current(inner[q].user, overtaken[q])'
                        /\ DataOf(inner'[q].user) = inner'[q].data
                   /\ found'[q] # None => Current(found[q], overtaken[q])'
      BY <3>2 DEF Fresh
    <3>4. CASE \E u \in Users : authenticate(r, u)
      <4>1. PICK u \in Users : authenticate(r, u)
        BY <3>4
      <4>2. found'[q] = UserOf(u) /\ UserOf(u).id = u /\ UserOf(u)' = UserOf(u)
        BY <2>1, <2>2, <4>1 DEF authenticate, UserOf
      <4>3. inner'[q] = inner[q]
        BY <4>1 DEF authenticate
      <4>4. Current(found[q], overtaken[q])'
        BY <4>2 DEF Current
      <4>5. QED
        BY <3>1, <3>2, <4>3, <4>4 DEF Fresh
    <3>5. CASE Login(r)
      <4>1. /\ found[q] \in User /\ inner'[q] = login(inner[q], found[q])
            /\ found'[q] = None
        BY <2>2, <3>2, <3>5 DEF Login
      <4>2. inner'[q].user = found[q] /\ inner'[q].data = DataOf(found[q])
        BY <3>2, <4>1, UserAfter
      <4>3. Current(found[q], overtaken[q])
        BY <1>0, <3>2, <4>1 DEF Fresh
      <4>4. (Current(inner[q].user, overtaken[q]))'
        <5>1. \A u \in User :
               Current(u, overtaken[q]) => UserOf(u.id)' = u \/ u.id \in overtaken'[q]
          BY <3>1 DEF Current
        <5>2. QED
          BY <4>1, <4>2, <4>3, <5>1 DEF Current
      <4>5. QED
        BY <4>1, <4>2, <4>4
    <3>6. CASE Logout(r)
      <4>1. inner'[q].user = None /\ found'[q] = found[q]
        BY <2>2, <3>2, <3>6 DEF Logout, logout, Inner
      <4>2. QED
        BY <3>1, <3>2, <4>1 DEF Fresh, Current
    <3>7. CASE \E a \in Opt(AppData) : WriteAppData(r, a)
      <4>1. /\ inner'[q].user = inner[q].user /\ inner'[q].data = inner[q].data
            /\ found'[q] = found[q]
        BY <2>2, <3>2, <3>7 DEF WriteAppData, Inner
      <4>2. QED
        BY <3>1, <3>2, <4>1 DEF Fresh, Current
    <3>8. QED
      BY <1>6, <3>4, <3>5, <3>6, <3>7 DEF Handler
  <2>3. CASE q # r
    BY <1>2, <2>1, <2>3
  <2>4. QED
    BY <2>2, <2>3
<1>7. ASSUME NEW r \in Requests, Commit(r) \/ SaveRenewed(r) PROVE Fresh(q)'
  <2>1. /\ UNCHANGED <<inner, found>> /\ stage[r] \in {"handle", "save"}
        /\ stage'[r] \in {"save", "respond"}
        /\ r # q => stage'[q] = stage[q]
    BY <1>7 DEF Commit, CommitNew, CommitChanged, CommitPurged, CommitRenewed,
                CommitUnchanged, SaveRenewed, SaveFresh, Respond
  <2>2. CASE q = r
    BY <2>1, <2>2, KeepsFresh DEF InFlight
  <2>3. CASE q # r
    BY <1>2, <2>1, <2>3
  <2>4. QED
    BY <2>2, <2>3
<1>8. ASSUME NEW R \in SUBSET Requests, End(R) PROVE Fresh(q)'
  <2>1. CASE q \in R
    BY <1>8, <2>1 DEF End, Fresh, InFlight
  <2>2. CASE q \notin R /\ stage[q] = "done"
    BY <1>8, <2>2 DEF End, Fresh, InFlight
  <2>3. CASE q \notin R /\ stage[q] # "done"
    BY <1>8, <2>3, KeepsFresh DEF End, InFlight
  <2>4. QED
    BY <2>1, <2>2, <2>3
<1>9. ASSUME NEW r \in Requests, Deliver(r) \/ Fail(r) PROVE Fresh(q)'
  BY <1>8, <1>9 DEF Deliver, Fail
<1>10. ASSUME NEW u \in Users, NEW h \in Opt(Hashes), ChangeUser(u, h) PROVE Fresh(q)'
  BY <1>1, <1>10 DEF ChangeUser, requestVars
<1>11. ASSUME TimePasses PROVE Fresh(q)'
  BY <1>1, <1>11 DEF TimePasses, requestVars
<1>12. ASSUME Restart PROVE Fresh(q)'
  BY <1>8, <1>12 DEF Restart
<1>13. QED
  BY <1>3, <1>4, <1>5, <1>6, <1>7, <1>9, <1>10, <1>11, <1>12 DEF Next, Server

\* For any number of users, password changes and requests: a handler sees a user
\* through a hash the backend no longer has only if the change came during that
\* very request.
THEOREM NoStaleSessions == FreshnessSpec => []OutdatedOnlyIfOvertaken
<1>1. Init /\ overtaken = [r \in Requests |-> {}] => AllFresh
  BY DEF Init, AllFresh, Fresh, InFlight
<1>2. IInv /\ AllFresh /\ [Next /\ NoteChanges]_<<vars, overtaken>> => AllFresh'
  <2>1. ASSUME AllFresh, UNCHANGED <<vars, overtaken>> PROVE AllFresh'
    BY <2>1 DEF AllFresh, Fresh, Current, UserOf, InFlight, vars, requestVars
  <2>2. QED
    BY <2>1, NextFresh
<1>3. AllFresh => OutdatedOnlyIfOvertaken
  BY DEF AllFresh, Fresh, Current, OutdatedOnlyIfOvertaken
<1>4. QED
  BY <1>1, <1>2, <1>3, FreshnessImplements, Inductive, PTL DEF FreshnessSpec
=============================================================================
