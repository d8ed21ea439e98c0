-------------------------- MODULE WebSessionProofs --------------------------
(***************************************************************************)
(* What the proofs about the example applications share: the types of      *)
(* everything a session goes through from the request that loads it to the *)
(* response that commits it, and whose it is.                              *)
(***************************************************************************)
EXTENDS WebSession, TLAPS

(* The session a request comes in with and goes out with.                   *)

LEMMA NoInnerType == NoInner \in Inner
BY DEF NoInner, NewInner, Loaded, EmptyState, Inner, Session, SessionStatus, State, Opt

LEMMA from_sessionType ==
  ASSUME NEW state \in State, NEW user \in Opt(User)
  PROVE  /\ from_session(Loaded(state), user) \in Inner
         /\ from_session(Loaded(state), user).user \in {None, user}
BY DEF from_session, NewInner, Loaded, Purge, EmptyState, Inner, Session, SessionStatus, State,
       Opt

\* A handler sees nobody or somebody the backend knows.
LEMMA IncomingType ==
  ASSUME SessionTypeOK, NEW c \in Clients, NEW get_user_ \in [Users -> Opt(User)]
  PROVE  Incoming(c, get_user_) \in Inner /\ IncomingKey(c) \in Opt(Keys)
<1>1. jar[c] \in Opt(Keys)
  BY DEF SessionTypeOK
<1>2. IncomingKey(c) \in Opt(Keys)
  BY <1>1 DEF IncomingKey, Opt
<1>3. LoadedState(c) \in Opt(State)
  <2>1. CASE jar[c] = None
    BY <2>1 DEF LoadedState, Opt
  <2>2. CASE jar[c] # None
    <3>1. jar[c] \in Keys
      BY <1>1, <2>2 DEF Opt
    <3>2. entry[jar[c]] \in Store!Entry \cup {None}
      BY <3>1 DEF SessionTypeOK, Store!StoreTypeOK
    <3>3. Store!Answer(jar[c]) \in Opt(State)
      BY <3>2 DEF Store!Answer, Store!Live, Store!Held, Store!Entry, Opt
    <3>4. QED
      BY <2>2, <3>3 DEF LoadedState
  <2>3. QED
    BY <2>1, <2>2
<1>4. Incoming(c, get_user_) \in Inner
  <2>1. CASE LoadedState(c) = None
    BY <2>1, NoInnerType DEF Incoming
  <2>2. CASE LoadedState(c) # None
    <3> DEFINE state == LoadedState(c)
               user == IF state.auth = None THEN None ELSE get_user_[state.auth.user_id]
    <3>1. state \in State
      BY <1>3, <2>2 DEF Opt
    <3>2. user \in Opt(User)
      BY <3>1 DEF State, Data, Opt
    <3>3. QED
      BY <2>2, <3>1, <3>2, from_sessionType DEF Incoming
  <2>3. QED
    BY <2>1, <2>2
<1>5. QED
  BY <1>2, <1>4

LEMMA EnterType ==
  ASSUME SessionTypeOK, NEW r \in Requests, NEW c \in Clients,
         NEW get_user_ \in [Users -> Opt(User)], NEW i \in Inner, Enter(r, c, i)
  PROVE  SessionTypeOK'
<1>1. IncomingKey(c) \in Opt(Keys)
  BY IncomingType
<1>2. QED
  BY <1>1 DEF Enter, SessionTypeOK, Store!StoreTypeOK, Opt

LEMMA CallType ==
  ASSUME NEW i \in Inner
  PROVE  /\ logout(i) \in Inner
         /\ \A u \in User : login(i, u) \in Inner
<1>1. logout(i) \in Inner
  BY DEF logout, Purge, EmptyState, Inner, Session, SessionStatus, State, Opt
<1>2. ASSUME NEW u \in User PROVE login(i, u) \in Inner
  <2>1. DataOf(u) \in Data
    BY DEF DataOf, User, Data
  <2>2. \A session \in Session : /\ Renew(session) \in Session
                                 /\ update_session(session, DataOf(u)) \in Session
    BY <2>1 DEF Renew, update_session, Write, Session, SessionStatus, State, Opt
  <2>3. QED
    BY <2>1, <2>2 DEF login, NewInner, Inner, Opt
<1>3. QED
  BY <1>1, <1>2

LEMMA EndType ==
  ASSUME SessionTypeOK, NEW r \in Requests, End(r)
  PROVE  /\ who' \in [Requests -> Opt(Clients)]
         /\ key' \in [Requests -> Opt(Keys)]
         /\ inner' \in [Requests -> Inner]
BY NoInnerType DEF SessionTypeOK, End, Opt

LEMMA SetCookieType ==
  ASSUME SessionTypeOK, NEW r \in Requests, who[r] # None, NEW k \in Opt(Keys), SetCookie(r, k)
  PROVE  /\ jar' \in [Clients -> Opt(Keys)]
         /\ End(r)
BY DEF SessionTypeOK, SetCookie, Opt

LEMMA CommitType ==
  ASSUME SessionTypeOK, NEW r \in Requests, NEW policy, Commit(r, policy)
  PROVE  SessionTypeOK'
<1>1. /\ StateOf(r) \in State /\ who[r] # None
      /\ key[r] # None => key[r] \in Keys
      /\ entry \in [Keys -> Store!Entry \cup {None}]
  BY DEF Commit, SessionTypeOK, StateOf, Inner, Session, Opt, Store!StoreTypeOK
<1>2. \A k \in Keys : entry' = [entry EXCEPT ![k] = [state |-> StateOf(r), live |-> TRUE]]
                        => entry' \in [Keys -> Store!Entry \cup {None}]
  BY <1>1 DEF Store!Entry
<1>3. CASE CommitNew(r)
  <2>1. ASSUME NEW k \in Keys, Store!Save(k, StateOf(r)), SetCookie(r, k)
        PROVE  SessionTypeOK'
    <3>1. entry' \in [Keys -> Store!Entry \cup {None}]
      BY <1>2, <2>1 DEF Store!Save, Store!Put
    <3>2. QED
      BY <1>1, <2>1, <3>1, SetCookieType, EndType DEF SessionTypeOK, Store!StoreTypeOK, Opt
  <2>2. CASE End(r) /\ UNCHANGED <<entry, jar>>
    BY <2>2, EndType DEF SessionTypeOK, Store!StoreTypeOK
  <2>3. QED
    BY <1>3, <2>1, <2>2 DEF CommitNew
<1>4. CASE CommitChanged(r)
  <2>1. key[r] \in Keys /\ Store!Update(key[r], StateOf(r)) /\ SetCookie(r, key[r])
    BY <1>1, <1>4 DEF CommitChanged
  <2>2. entry' \in [Keys -> Store!Entry \cup {None}]
    BY <1>2, <2>1 DEF Store!Update, Store!Put
  <2>3. QED
    BY <1>1, <2>1, <2>2, SetCookieType, EndType DEF SessionTypeOK, Store!StoreTypeOK, Opt
<1>5. CASE CommitPurged(r)
  <2>1. entry' \in [Keys -> Store!Entry \cup {None}] /\ SetCookie(r, None)
    BY <1>1, <1>5 DEF CommitPurged, Store!Delete, Store!Drop
  <2>2. QED
    BY <1>1, <2>1, SetCookieType, EndType DEF SessionTypeOK, Store!StoreTypeOK, Opt
<1>6. CASE CommitRenewed(r)
  <2>1. PICK k \in Keys : /\ entry' = [entry EXCEPT ![key[r]] = None,
                                         ![k] = [state |-> StateOf(r), live |-> TRUE]]
                          /\ SetCookie(r, k)
    BY <1>6 DEF CommitRenewed
  <2>2. entry' \in [Keys -> Store!Entry \cup {None}]
    BY <1>1, <2>1 DEF Store!Entry
  <2>3. QED
    BY <1>1, <2>1, <2>2, SetCookieType, EndType DEF SessionTypeOK, Store!StoreTypeOK, Opt
<1>7. CASE CommitUnchanged(r, policy)
  <2>1. CASE Store!UpdateTtl(key[r]) /\ SetCookie(r, key[r]) /\ key[r] # None
    <3>1. entry' \in [Keys -> Store!Entry \cup {None}]
      <4>1. CASE Store!Held(key[r])
        <5>1. entry[key[r]] \in Store!Entry
          BY <1>1, <2>1, <4>1 DEF Store!Held
        <5>2. entry[key[r]].state \in State
          BY <5>1 DEF Store!Entry
        <5>3. [state |-> entry[key[r]].state, live |-> TRUE] \in Store!Entry
          BY <5>2 DEF Store!Entry
        <5>4. QED
          BY <1>1, <2>1, <4>1, <5>3 DEF Store!UpdateTtl, Store!Put
      <4>2. CASE ~Store!Held(key[r])
        BY <1>1, <2>1, <4>2 DEF Store!UpdateTtl
      <4>3. QED
        BY <4>1, <4>2
    <3>2. QED
      BY <1>1, <2>1, <3>1, SetCookieType, EndType DEF SessionTypeOK, Store!StoreTypeOK, Opt
  <2>2. CASE End(r) /\ UNCHANGED <<entry, jar>>
    BY <2>2, EndType DEF SessionTypeOK, Store!StoreTypeOK
  <2>3. QED
    BY <1>7, <2>1, <2>2 DEF CommitUnchanged
<1>8. QED
  BY <1>3, <1>4, <1>5, <1>6, <1>7 DEF Commit

LEMMA FailType ==
  ASSUME SessionTypeOK, NEW r \in Requests, Fail(r)
  PROVE  SessionTypeOK'
<1>1. entry' \in [Keys -> Store!Entry \cup {None}]
  BY DEF Fail, SessionTypeOK, Store!StoreTypeOK, Store!Delete, Store!Drop
<1>2. QED
  BY <1>1, EndType DEF Fail, SessionTypeOK, Store!StoreTypeOK

LEMMA ExpireType ==
  ASSUME SessionTypeOK, Expire
  PROVE  SessionTypeOK'
<1>1. PICK k \in Keys : Store!Lapse({k}) \/ Store!Collect({k})
  BY DEF Expire
<1>2. entry \in [Keys -> Store!Entry \cup {None}]
  BY DEF SessionTypeOK, Store!StoreTypeOK
<1>3. entry' \in [Keys -> Store!Entry \cup {None}]
  <2>1. CASE Store!Lapse({k})
    <3>1. entry[k] \in Store!Entry
      BY <1>2, <2>1 DEF Store!Lapse, Store!Live, Store!Held
    <3>2. entry[k].state \in State
      BY <3>1 DEF Store!Entry
    <3>3. [state |-> entry[k].state, live |-> FALSE] \in Store!Entry
      BY <3>2 DEF Store!Entry
    <3>4. entry' = [l \in Keys |->
                      IF l \in {k} THEN [state |-> entry[l].state, live |-> FALSE]
                      ELSE entry[l]]
      BY <2>1 DEF Store!Lapse
    <3>5. entry' = [entry EXCEPT ![k] = [state |-> entry[k].state, live |-> FALSE]]
      BY <1>2, <3>4
    <3>6. QED
      BY <1>2, <3>3, <3>5
  <2>2. CASE Store!Collect({k})
    BY <1>2, <2>2 DEF Store!Collect, Store!Drop
  <2>3. QED
    BY <1>1, <2>1, <2>2
<1>4. QED
  BY <1>3 DEF Expire, SessionTypeOK, Store!StoreTypeOK

-----------------------------------------------------------------------------
(* Whose a session is.                                                      *)

\* No two clients ever share a key, be it in a cookie or in a request, and what is
\* left of a request that has ended is nothing.
KeysApart ==
  /\ \A c, d \in Clients : jar[c] # None /\ jar[c] = jar[d] => c = d
  /\ \A r \in Requests, c \in Clients : key[r] # None /\ key[r] = jar[c] => who[r] = c
  /\ \A r, q \in Requests : key[r] # None /\ key[r] = key[q] => who[r] = who[q]
  /\ \A r \in Requests : who[r] = None => key[r] = None /\ inner[r] = NoInner

\* What a request comes in with is what its client's cookie finds, or nothing.
LEMMA IncomingOf ==
  ASSUME NEW c \in Clients, NEW get_user_
  PROVE  LET i == Incoming(c, get_user_)
         IN  /\ \/ i.session.state = EmptyState
                \/ /\ jar[c] # None /\ entry[jar[c]] # None
                   /\ i.session.state = entry[jar[c]].state
             /\ IncomingKey(c) \in {None, jar[c]}
BY DEF Incoming, NoInner, NewInner, Loaded, from_session, Purge, LoadedState, IncomingKey,
       Store!Answer, Store!Live, Store!Held

LEMMA EnterApart ==
  ASSUME SessionTypeOK, KeysApart, NEW r \in Requests, NEW c \in Clients, NEW i, Enter(r, c, i)
  PROVE  KeysApart'
<1>1. /\ jar' = jar /\ who' = [who EXCEPT ![r] = c] /\ inner' = [inner EXCEPT ![r] = i]
      /\ key' = [key EXCEPT ![r] = IncomingKey(c)] /\ IncomingKey(c) \in {None, jar[c]}
  BY IncomingOf DEF Enter
<1>2. QED
  BY <1>1, SessionAssumption DEF SessionTypeOK, KeysApart

\* Request r leaves its session under key k, if under any: its own, or one that
\* nobody has had before.
CommitsAs(r, k) ==
  /\ k # None => k = key[r] \/ Fresh(k)
  /\ jar' \in {jar, [jar EXCEPT ![who[r]] = k]}
  /\ \A l \in Keys : \/ entry'[l] = None
                     \/ entry[l] # None /\ entry'[l].state = entry[l].state
                     \/ l = k /\ entry'[l].state = StateOf(r)
  /\ End(r)

LEMMA CommitLeaves ==
  ASSUME SessionTypeOK, NEW r \in Requests, NEW policy, Commit(r, policy)
  PROVE  who[r] # None /\ \E k \in Opt(Keys) : CommitsAs(r, k)
<1> USE DEF SessionTypeOK, Store!StoreTypeOK, Opt
<1>1. who[r] # None
  BY DEF Commit
<1>2. CASE CommitNew(r)
  <2>1. CASE StateOf(r) = EmptyState
    <3>1. CommitsAs(r, None)
      BY <1>2, <2>1 DEF CommitNew, CommitsAs
    <3>2. QED
      BY <1>1, <3>1
  <2>2. CASE StateOf(r) # EmptyState
    <3>1. PICK k \in Keys : Fresh(k) /\ Store!Save(k, StateOf(r)) /\ SetCookie(r, k)
      BY <1>2, <2>2 DEF CommitNew
    <3>2. CommitsAs(r, k)
      BY <3>1 DEF CommitsAs, SetCookie, Store!Save, Store!Put
    <3>3. QED
      BY <1>1, <3>2
  <2>3. QED
    BY <2>1, <2>2
<1>3. CASE CommitChanged(r)
  <2>1. CommitsAs(r, key[r])
    BY <1>3 DEF CommitChanged, CommitsAs, SetCookie, Store!Update, Store!Put
  <2>2. QED
    BY <1>1, <2>1
<1>4. CASE CommitPurged(r)
  <2>1. CommitsAs(r, None)
    BY <1>4 DEF CommitPurged, CommitsAs, SetCookie, Store!Delete, Store!Drop
  <2>2. QED
    BY <1>1, <2>1
<1>5. CASE CommitRenewed(r)
  <2>1. PICK k \in Keys : /\ Fresh(k) /\ SetCookie(r, k)
                          /\ entry' = [entry EXCEPT ![key[r]] = None,
                                         ![k] = [state |-> StateOf(r), live |-> TRUE]]
    BY <1>5 DEF CommitRenewed
  <2>2. CommitsAs(r, k)
    BY <2>1 DEF CommitsAs, SetCookie
  <2>3. QED
    BY <1>1, <2>2
<1>6. CASE CommitUnchanged(r, policy)
  <2>1. CASE Store!UpdateTtl(key[r]) /\ SetCookie(r, key[r])
    <3>1. CommitsAs(r, key[r])
      BY <1>6, <2>1 DEF CommitUnchanged, CommitsAs, SetCookie, Store!UpdateTtl, Store!Put,
                        Store!Held
    <3>2. QED
      BY <1>1, <3>1
  <2>2. CASE End(r) /\ UNCHANGED <<entry, jar>>
    <3>1. CommitsAs(r, None)
      BY <2>2 DEF CommitsAs
    <3>2. QED
      BY <1>1, <3>1
  <2>3. QED
    BY <1>6, <2>1, <2>2 DEF CommitUnchanged
<1>7. QED
  BY <1>2, <1>3, <1>4, <1>5, <1>6 DEF Commit

LEMMA EndApart ==
  ASSUME SessionTypeOK, KeysApart, NEW r \in Requests, NEW k \in Opt(Keys), who[r] # None,
         CommitsAs(r, k)
  PROVE  KeysApart'
<1>1. who[r] \in Clients
  BY DEF SessionTypeOK, Opt
<1>2. /\ who' = [who EXCEPT ![r] = None] /\ key' = [key EXCEPT ![r] = None]
      /\ inner' = [inner EXCEPT ![r] = NoInner]
  BY DEF CommitsAs, End
<1>3. \A q \in Requests : key'[q] # None => who'[q] = who[q] /\ key'[q] = key[q]
  BY <1>2 DEF SessionTypeOK
<1>4. \A c \in Clients : jar'[c] # None =>
         \/ jar'[c] = jar[c]
         \/ c = who[r] /\ jar'[c] = key[r]
         \/ c = who[r] /\ jar'[c] = k /\ Fresh(k)
  BY <1>1 DEF CommitsAs, SessionTypeOK
<1>5. \A c, d \in Clients : jar'[c] # None /\ jar'[c] = jar'[d] => c = d
  BY <1>4 DEF KeysApart, Fresh
<1>6. \A q \in Requests, c \in Clients : key'[q] # None /\ key'[q] = jar'[c] => who'[q] = c
  BY <1>3, <1>4 DEF KeysApart, Fresh
<1>7. \A q, p \in Requests : key'[q] # None /\ key'[q] = key'[p] => who'[q] = who'[p]
  BY <1>3 DEF KeysApart
<1>8. \A q \in Requests : who'[q] = None => key'[q] = None /\ inner'[q] = NoInner
  BY <1>2 DEF KeysApart, SessionTypeOK
<1>9. QED
  BY <1>5, <1>6, <1>7, <1>8 DEF KeysApart

LEMMA FailLeaves ==
  ASSUME SessionTypeOK, NEW r \in Requests, Fail(r)
  PROVE  who[r] # None /\ CommitsAs(r, None) /\ UNCHANGED jar
BY DEF Fail, CommitsAs, Store!Delete, Store!Drop, SessionTypeOK, Store!StoreTypeOK

LEMMA ExpireLeaves ==
  ASSUME SessionTypeOK, Expire
  PROVE  /\ UNCHANGED <<jar, who, key, inner>>
         /\ \A l \in Keys : \/ entry'[l] = None
                            \/ entry[l] # None /\ entry'[l].state = entry[l].state
BY DEF Expire, Store!Lapse, Store!Live, Store!Held, Store!Collect, Store!Drop, SessionTypeOK,
       Store!StoreTypeOK
=============================================================================
