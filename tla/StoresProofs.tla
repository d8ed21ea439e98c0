----------------------------- MODULE StoresProofs -----------------------------
(***************************************************************************)
(* Both stores keep to the contract of a session store: MemoryStore in     *)
(* every answer, the SQLite store in every change, for each patience of    *)
(* the pool that is shorter than the times to live, and its loads answer   *)
(* what was right at some moment of the call.                              *)
(***************************************************************************)
EXTENDS SqliteLoads, MemoryStore, TLAPS

-----------------------------------------------------------------------------
(* The memory store.                                                        *)

LEMMA MemoryInitType == MemoryInit => MemoryTypeOK
BY StoreAssumption DEF MemoryInit, MemoryTypeOK, Opt

\* An insertion replaces the record under one key by one that is not yet expired.
LEMMA RecordInserted ==
  ASSUME MemoryTypeOK, NEW k \in Keys, NEW state \in States, NEW ttl \in Ttls,
         Insert(k, state, ttl)
  PROVE  /\ records' \in [Keys -> Opt(Record)]
         /\ records' = WithRecord(k, [state |-> state, expires_at |-> now + ttl])
         /\ now + ttl > now
BY StoreAssumption DEF MemoryTypeOK, Insert, WithRecord, Record, Opt

LEMMA MemoryNextType ==
  ASSUME MemoryTypeOK, [MemoryNext]_memoryVars
  PROVE  MemoryTypeOK'
<1> USE DEF Opt
<1>1. ASSUME NEW k \in Keys, memory_load(k) PROVE MemoryTypeOK'
  BY <1>1 DEF MemoryTypeOK, memory_load, LoadMissing, LoadExpired, LoadFound, Replies,
              WithRecord, Record
<1>2. ASSUME NEW k \in Keys, memory_delete(k) PROVE MemoryTypeOK'
  BY <1>2 DEF MemoryTypeOK, memory_delete, Replies, WithRecord
<1>3. ASSUME NEW k \in Keys, NEW s \in States, NEW ttl \in Ttls,
             memory_save(k, s, ttl) \/ memory_update(k, s, ttl)
      PROVE  MemoryTypeOK'
  <2>1. Insert(k, s, ttl)
    BY <1>3 DEF memory_save, memory_update
  <2>2. records' \in [Keys -> Opt(Record)]
    BY <2>1, RecordInserted
  <2>3. QED
    BY <1>3, <2>2 DEF MemoryTypeOK, memory_save, memory_update, Replies
<1>4. ASSUME NEW k \in Keys, NEW ttl \in Ttls, memory_update_ttl(k, ttl) PROVE MemoryTypeOK'
  <2>1. now + ttl \in Nat
    BY StoreAssumption DEF MemoryTypeOK
  <2>2. records' \in [Keys -> Opt(Record)]
    BY <1>4, <2>1 DEF MemoryTypeOK, memory_update_ttl, WithRecord, Record
  <2>3. QED
    BY <1>4, <2>2 DEF MemoryTypeOK, memory_update_ttl, Replies
<1>5. CASE MemoryTick
  BY <1>5, StoreAssumption DEF MemoryTypeOK, MemoryTick
<1>6. CASE Restart
  BY <1>6 DEF MemoryTypeOK, Restart
<1>7. CASE UNCHANGED memoryVars
  BY <1>7 DEF MemoryTypeOK, memoryVars
<1>8. QED
  BY <1>1, <1>2, <1>3, <1>4, <1>5, <1>6, <1>7 DEF MemoryNext

\* A record always has a state and an expiry, whatever the calls.
THEOREM MemoryTypeCorrect == MemorySpec => []MemoryTypeOK
BY MemoryInitType, MemoryNextType, PTL DEF MemorySpec

-----------------------------------------------------------------------------
\* What the contract sees of a record.
LEMMA RecordView ==
  ASSUME MemoryTypeOK, NEW k \in Keys
  PROVE  /\ EntryView[k] = None <=> records[k] = None
         /\ records[k] # None => /\ EntryView[k].state = records[k].state
                                 /\ EntryView[k].live <=> ~Expired(k)
                                 /\ EntryView[k].live \in BOOLEAN
<1>1. CASE records[k] = None
  BY <1>1 DEF EntryView
<1>2. CASE records[k] # None
  <2> DEFINE live == now < records[k].expires_at
             e == [state |-> records[k].state, live |-> live]
  <2>1. records[k] \in Record /\ now \in Nat
    BY <1>2, StoreAssumption DEF MemoryTypeOK, Opt
  <2>2. live <=> ~Expired(k)
    BY <2>1 DEF Expired, Record
  <2>3. live \in BOOLEAN
    BY <2>1 DEF Record
  <2>4. EntryView[k] = e
    BY <1>2 DEF EntryView
  <2>5. e \in [state : States, live : BOOLEAN]
    BY <2>1, <2>3 DEF Record
  <2>6. EntryView[k] # None
    BY <2>4, <2>5, StoreAssumption
  <2>7. e.state = records[k].state /\ e.live = live
    OBVIOUS
  <2> HIDE DEF live, e
  <2>8. QED
    BY <1>2, <2>2, <2>3, <2>4, <2>6, <2>7
<1>3. QED
  BY <1>1, <1>2

\* As long as the clock stands, a change under one key shows under that key.
LEMMA RecordViewOfChange ==
  ASSUME MemoryTypeOK, NEW k \in Keys, NEW m, records' = WithRecord(k, m), now' = now
  PROVE  EntryView' = [EntryView EXCEPT ![k] =
           IF m = None THEN None ELSE [state |-> m.state, live |-> now < m.expires_at]]
BY DEF EntryView, WithRecord, MemoryTypeOK

\* Every step of the memory store is one of the contract.
LEMMA MemoryNextImplements ==
  ASSUME MemoryTypeOK, MemoryNext
  PROVE  [MapContract!Next]_<<EntryView, reply>>
<1> USE DEF Opt
<1>1. ASSUME NEW k \in Keys, memory_load(k) PROVE MapContract!Call(k)
  <2>1. CASE LoadMissing(k)
    <3>1. EntryView' = EntryView
      BY <2>1 DEF LoadMissing, EntryView
    <3>2. MapContract!Load(k, None)
      BY <2>1, <3>1, RecordView DEF LoadMissing, MapContract!Load, MapContract!Answer,
                                    MapContract!Live, MapContract!Held
    <3>3. QED
      BY <2>1, <3>2 DEF LoadMissing, Replies, MapContract!Call, MapContract!Called,
                        MapContract!Reply
  <2>2. CASE LoadExpired(k)
    <3>1. EntryView' = [EntryView EXCEPT ![k] = None]
      BY <2>2, RecordViewOfChange DEF LoadExpired
    <3>2. MapContract!Drop({k})
      BY <3>1 DEF MapContract!Drop, EntryView
    <3>3. MapContract!Load(k, None)
      BY <2>2, <3>2, RecordView DEF LoadExpired, MapContract!Load, MapContract!Answer,
                                    MapContract!Lapsed,
                              MapContract!Live, MapContract!Held
    <3>4. QED
      BY <2>2, <3>3 DEF LoadExpired, Replies, MapContract!Call, MapContract!Called,
                        MapContract!Reply
  <2>3. CASE LoadFound(k)
    <3>1. EntryView' = EntryView
      BY <2>3 DEF LoadFound, EntryView
    <3>2. MapContract!Load(k, records[k].state)
      BY <2>3, <3>1, RecordView DEF LoadFound, MapContract!Load, MapContract!Answer,
                                    MapContract!Live, MapContract!Held
    <3>3. records[k].state \in States
      BY <2>3 DEF LoadFound, MemoryTypeOK, Record
    <3>4. QED
      BY <2>3, <3>2, <3>3 DEF LoadFound, Replies, MapContract!Call, MapContract!Called,
                              MapContract!Reply
  <2>4. QED
    BY <1>1, <2>1, <2>2, <2>3 DEF memory_load
<1>2. ASSUME NEW k \in Keys, memory_delete(k) PROVE MapContract!Call(k)
  <2>1. EntryView' = [EntryView EXCEPT ![k] = None]
    BY <1>2, RecordViewOfChange DEF memory_delete
  <2>2. MapContract!Delete(k)
    BY <2>1 DEF MapContract!Delete, MapContract!Drop, EntryView
  <2>3. QED
    BY <1>2, <2>2 DEF memory_delete, Replies, MapContract!Call, MapContract!Called,
                      MapContract!Reply
<1>3. ASSUME NEW k \in Keys, NEW s \in States, NEW ttl \in Ttls,
             memory_save(k, s, ttl) \/ memory_update(k, s, ttl)
      PROVE  MapContract!Call(k)
  <2> DEFINE m == [state |-> s, expires_at |-> now + ttl]
  <2>1. /\ records' = WithRecord(k, m) /\ now' = now
        /\ now < m.expires_at /\ m # None /\ m.state = s
    <3>1. now' = now /\ Insert(k, s, ttl)
      BY <1>3 DEF memory_save, memory_update
    <3>2. now \in Nat /\ ttl \in Nat \ {0}
      BY StoreAssumption DEF MemoryTypeOK
    <3>3. m \in Record
      BY <3>2 DEF Record
    <3>4. m # None /\ now < m.expires_at
      BY <3>2, <3>3, StoreAssumption
    <3>5. QED
      BY <3>1, <3>4 DEF Insert
  <2> HIDE DEF m
  <2>2. EntryView' = [EntryView EXCEPT ![k] = [state |-> s, live |-> TRUE]]
    <3>1. EntryView' = [EntryView EXCEPT ![k] =
             IF m = None THEN None ELSE [state |-> m.state, live |-> now < m.expires_at]]
      BY <2>1, RecordViewOfChange
    <3>2. (now < m.expires_at) = TRUE
      BY <2>1
    <3>3. QED
      BY <2>1, <3>1, <3>2
  <2>3. MapContract!Put(k, s)
    BY <2>2 DEF MapContract!Put
  <2>4. CASE memory_save(k, s, ttl)
    <3>1. MapContract!Save(k, s)
      BY <2>3, <2>4, RecordView DEF memory_save, MapContract!Save, MapContract!Held
    <3>2. QED
      BY <2>4, <3>1 DEF memory_save, Replies, MapContract!Call, MapContract!Called,
                        MapContract!Reply
  <2>5. CASE memory_update(k, s, ttl)
    BY <2>3, <2>5 DEF memory_update, Replies, MapContract!Update, MapContract!Call,
                      MapContract!Called,
                      MapContract!Reply
  <2>6. QED
    BY <1>3, <2>4, <2>5
<1>4. ASSUME NEW k \in Keys, NEW ttl \in Ttls, memory_update_ttl(k, ttl) PROVE MapContract!Call(k)
  <2>1. MapContract!UpdateTtl(k)
    <3>1. CASE records[k] = None
      <4>1. EntryView' = EntryView
        BY <1>4, <3>1 DEF memory_update_ttl, EntryView
      <4>2. QED
        BY <3>1, <4>1, RecordView DEF MapContract!UpdateTtl, MapContract!Held
    <3>2. CASE records[k] # None
      <4> DEFINE m == [records[k] EXCEPT !.expires_at = now + ttl]
      <4>1. records[k] \in Record /\ now \in Nat /\ ttl \in Nat \ {0}
        BY <3>2, StoreAssumption DEF MemoryTypeOK
      <4>2. m \in Record /\ m.state = records[k].state /\ m.expires_at = now + ttl
        BY <4>1 DEF Record
      <4>3. m # None /\ (now < m.expires_at) = TRUE
        BY <4>1, <4>2, StoreAssumption
      <4>4. records' = WithRecord(k, m) /\ now' = now
        BY <1>4, <3>2 DEF memory_update_ttl
      <4> HIDE DEF m
      <4>5. EntryView' = [EntryView EXCEPT ![k] =
               IF m = None THEN None ELSE [state |-> m.state, live |-> now < m.expires_at]]
        BY <4>4, RecordViewOfChange
      <4>6. MapContract!Put(k, EntryView[k].state)
        BY <3>2, <4>2, <4>3, <4>5, RecordView DEF MapContract!Put
      <4>7. QED
        BY <3>2, <4>6, RecordView DEF MapContract!UpdateTtl, MapContract!Held
    <3>3. QED
      BY <3>1, <3>2
  <2>2. QED
    BY <1>4, <2>1 DEF memory_update_ttl, Replies, MapContract!Call, MapContract!Called,
                      MapContract!Reply
<1>5. CASE MemoryTick
  <2> DEFINE S == {k \in Keys : records[k] # None /\ records[k].expires_at = now'}
  <2>1. now \in Nat /\ now' = now + 1 /\ records' = records
    BY <1>5, StoreAssumption DEF MemoryTick, MemoryTypeOK
  <2>2. \A k \in Keys : records[k] # None => records[k].expires_at \in Nat
    BY DEF MemoryTypeOK, Record
  <2>3. \A k \in S : MapContract!Live(k)
    BY <2>1, RecordView DEF MapContract!Live, MapContract!Held, Expired
  <2>4. EntryView' = [k \in Keys |-> IF k \in S
                                     THEN [state |-> EntryView[k].state, live |-> FALSE]
                                     ELSE EntryView[k]]
    <3>1. ASSUME NEW k \in S
          PROVE  EntryView'[k] = [state |-> EntryView[k].state, live |-> FALSE]
      <4>1. (now' < records[k].expires_at) = FALSE
        BY <2>1, <2>2
      <4>2. EntryView'[k] = [state |-> records[k].state, live |-> FALSE]
        BY <2>1, <4>1 DEF EntryView
      <4>3. QED
        BY <4>2, RecordView
    <3>2. ASSUME NEW k \in Keys \ S PROVE EntryView'[k] = EntryView[k]
      <4>1. CASE records[k] = None
        BY <2>1, <4>1 DEF EntryView
      <4>2. CASE records[k] # None
        <5>1. (now' < records[k].expires_at) = (now < records[k].expires_at)
          BY <2>1, <2>2, <4>2
        <5>2. QED
          BY <2>1, <4>2, <5>1 DEF EntryView
      <4>3. QED
        BY <4>1, <4>2
    <3>3. EntryView' = [k \in Keys |-> EntryView'[k]]
      BY DEF EntryView
    <3> HIDE DEF S
    <3>4. QED
      BY <3>1, <3>2, <3>3
  <2>5. MapContract!Lapse(S)
    BY <2>3, <2>4 DEF MapContract!Lapse
  <2>6. S \in SUBSET Keys
    OBVIOUS
  <2> HIDE DEF S
  <2>7. QED
    BY <1>5, <2>5, <2>6 DEF MemoryTick, MapContract!Next, MapContract!Unasked,
                            MapContract!NoReply, MapContract!Reply
<1>6. CASE Restart
  <2>1. MapContract!Clear
    BY <1>6 DEF Restart, EntryView, MapContract!Clear, MapContract!Drop
  <2>2. QED
    BY <1>6, <2>1 DEF Restart, MapContract!Next, MapContract!Unasked, MapContract!NoReply,
                      MapContract!Reply
<1>7. QED
  BY <1>1, <1>2, <1>3, <1>4, <1>5, <1>6 DEF MemoryNext, MapContract!Next

\* For every set of keys, states and times to live, a client of the memory
\* store sees a session store: lazily dropped, revived and expired records
\* answer every call as the contract allows.
THEOREM MemoryImplements == MemorySpec => ImplementsContract
<1>1. MemoryInit => MapContract!Init
  BY DEF MemoryInit, EntryView, MapContract!Init, MapContract!StoreInit, MapContract!NoReply,
         MapContract!Reply
<1>2. ASSUME MemoryTypeOK, [MemoryNext]_memoryVars PROVE [MapContract!Next]_<<EntryView, reply>>
  <2>1. CASE UNCHANGED memoryVars
    BY <2>1 DEF memoryVars, EntryView
  <2>2. QED
    BY <1>2, <2>1, MemoryNextImplements
<1>3. QED
  BY <1>1, <1>2, MemoryTypeCorrect, PTL DEF MemorySpec, ImplementsContract, MapContract!Spec

-----------------------------------------------------------------------------
(* The SQLite store.                                                        *)

\* A pending load is bound to the time it was called at, a pending write to an
\* expiry beyond the time it may wait, and no one else uses the key of a save.
Bound(c) ==
  call[c] # None =>
    /\ call[c].op = "load" => call[c].date = call[c].since
    /\ call[c].op \in {"save", "update", "update_ttl"} => call[c].date > call[c].since + Patience
    /\ call[c].op = "save" =>
         /\ rows[call[c].key] = None
         /\ \A d \in Callers \ {c} : call[d] # None => call[d].key # call[c].key

StoreInv == TypeOK /\ \A c \in Callers : Bound(c)

LEMMA InitInv == Init => StoreInv
BY StoreAssumption, SqliteAssumption DEF Init, StoreInv, TypeOK, Bound, Opt

\* What a statement leaves under its own key; it touches no other.
LEMMA ResultOf ==
  ASSUME StoreInv, NEW c \in Callers, call[c] # None
  PROVE  LET q == call[c] IN
         /\ Result(q) \in [Keys -> Opt(Row)]
         /\ \A k \in Keys \ {q.key} : Result(q)[k] = rows[k]
         /\ q.op = "load" => Result(q) = rows
         /\ q.op \in {"save", "update"} =>
              /\ Result(q)[q.key] = [state |-> q.state, expiry_date |-> q.date]
              /\ q.state \in States
         /\ q.op = "update_ttl" =>
              Result(q)[q.key] = IF rows[q.key] = None THEN None
                                 ELSE [state |-> rows[q.key].state, expiry_date |-> q.date]
         /\ q.op = "delete" => Result(q)[q.key] = None
<1> DEFINE q == call[c]
<1>1. /\ q \in Statement /\ rows \in [Keys -> Opt(Row)]
      /\ q.op \in {"save", "update"} => q.state \in States
  BY StoreAssumption, SqliteAssumption DEF StoreInv, TypeOK, Opt
<1>2. /\ q.op \in Ops /\ q.key \in Keys /\ q.date \in Nat
  BY <1>1 DEF Statement
<1> HIDE DEF q
<1>3. CASE q.op = "load"
  BY <1>1, <1>2, <1>3 DEF Result, q
<1>4. CASE q.op \in {"save", "update"}
  <2>1. Result(q) = [rows EXCEPT ![q.key] = [state |-> q.state, expiry_date |-> q.date]]
    BY <1>4 DEF Result, upsert, With
  <2>2. [state |-> q.state, expiry_date |-> q.date] \in Row
    BY <1>1, <1>2, <1>4 DEF Row
  <2>3. QED
    BY <1>1, <1>2, <1>4, <2>1, <2>2 DEF Opt, q
<1>5. CASE q.op = "update_ttl"
  <2>1. Result(q) = IF rows[q.key] = None THEN rows
                    ELSE [rows EXCEPT ![q.key] =
                            [state |-> rows[q.key].state, expiry_date |-> q.date]]
    BY <1>5 DEF Result, Extended, With
  <2>2. CASE rows[q.key] = None
    BY <1>1, <1>2, <1>5, <2>1, <2>2 DEF q
  <2>3. CASE rows[q.key] # None
    <3>1. [state |-> rows[q.key].state, expiry_date |-> q.date] \in Row
      BY <1>1, <1>2, <2>3 DEF Row, Opt
    <3>2. QED
      BY <1>1, <1>2, <1>5, <2>1, <2>3, <3>1 DEF Opt, q
  <2>4. QED
    BY <2>2, <2>3
<1>6. CASE q.op = "delete"
  BY <1>1, <1>2, <1>6 DEF Result, With, Opt, q
<1>7. QED
  BY <1>2, <1>3, <1>4, <1>5, <1>6 DEF Ops

\* The callers' methods up to their await.
LEMMA CallInv ==
  ASSUME StoreInv, NEW c \in Callers, Call(c)
  PROVE  /\ StoreInv'
         /\ rows' = rows /\ now' = now
         /\ call[c] = None /\ call'[c].since = now
         /\ \A d \in Callers \ {c} : call'[d] = call[d]
<1> USE StoreAssumption, SqliteAssumption
<1>1. \A ttl \in Ttls : ttl \in Nat /\ now + ttl \in Nat /\ now + ttl > now + Patience
  <2>1. now \in Nat
    BY DEF StoreInv, TypeOK
  <2>2. ASSUME NEW ttl \in Ttls
        PROVE  ttl \in Nat /\ Patience < ttl
    OBVIOUS
  <2>3. QED
    BY <2>1, <2>2
<1> DEFINE Begins(op, k, s, date) ==
             /\ Begin(c, op, k, s, date)
             /\ op \in {"save", "update"} => s \in States
             /\ op = "load" => date = now
             /\ op \in {"save", "update", "update_ttl"} => date > now + Patience
             /\ op = "save" => Unused(k)
             /\ op # "save" => ~Secret(k)
           SomeBegins == \E op \in Ops, k \in Keys, s \in Opt(States), date \in Nat :
                            Begins(op, k, s, date)
<1>2. PICK op \in Ops, k \in Keys, s \in Opt(States), date \in Nat : Begins(op, k, s, date)
  <2>1. ASSUME NEW k \in Keys, load(c, k) PROVE SomeBegins
    BY <2>1 DEF load, Ops, Opt, StoreInv, TypeOK
  <2>2. ASSUME NEW k \in Keys, delete(c, k) PROVE SomeBegins
    BY <2>2 DEF delete, Ops, Opt
  <2>3. ASSUME NEW k \in Keys, NEW s \in States, NEW ttl \in Ttls, save(c, k, s, ttl)
        PROVE  SomeBegins
    BY <1>1, <2>3 DEF save, Ops, Opt, expiry_date
  <2>4. ASSUME NEW k \in Keys, NEW s \in States, NEW ttl \in Ttls, update(c, k, s, ttl)
        PROVE  SomeBegins
    BY <1>1, <2>4 DEF update, Ops, Opt, expiry_date
  <2>5. ASSUME NEW k \in Keys, NEW ttl \in Ttls, update_ttl(c, k, ttl) PROVE SomeBegins
    BY <1>1, <2>5 DEF update_ttl, Ops, Opt, expiry_date
  <2>6. QED
    BY <2>1, <2>2, <2>3, <2>4, <2>5 DEF Call
<1> DEFINE q == [op |-> op, key |-> k, state |-> s, date |-> date, since |-> now]
<1>3. /\ q \in Statement /\ q # None
      /\ q.op = op /\ q.key = k /\ q.state = s /\ q.date = date /\ q.since = now
  <2>1. q \in Statement
    BY DEF Statement, Opt, StoreInv, TypeOK
  <2>2. QED
    BY <2>1
<1> HIDE DEF q
<1>4. /\ call' = [call EXCEPT ![c] = q] /\ call[c] = None
      /\ UNCHANGED <<rows, now, sweep, task, outcome>>
  BY <1>2 DEF Begin, q
<1>5. /\ call'[c] = q
      /\ \A d \in Callers \ {c} : call'[d] = call[d]
  BY <1>4 DEF StoreInv, TypeOK
<1>6. TypeOK'
  <2>1. call' \in [Callers -> Opt(Statement)]
    BY <1>3, <1>4 DEF StoreInv, TypeOK, Opt
  <2>2. now \in now .. now + Patience
    BY DEF StoreInv, TypeOK
  <2>3. \A d \in Callers : call'[d] # None =>
          /\ now \in call'[d].since .. call'[d].since + Patience
          /\ call'[d].op \in {"save", "update"} => call'[d].state \in States
    BY <1>2, <1>3, <1>5, <2>2 DEF StoreInv, TypeOK
  <2>4. QED
    BY <1>4, <2>1, <2>3 DEF StoreInv, TypeOK
<1>7. ASSUME NEW d \in Callers PROVE Bound(d)'
  <2>1. CASE d = c
    <3>1. op = "save" => /\ rows[k] = None
                         /\ \A e \in Callers \ {c} : call[e] # None => call[e].key # k
      BY <1>2 DEF Unused
    <3>2. QED
      BY <1>2, <1>3, <1>4, <1>5, <2>1, <3>1 DEF Bound
  <2>2. CASE d # c
    <3>1. Bound(d)
      BY DEF StoreInv
    <3>2. call[d] # None /\ call[d].op = "save" => call[d].key # k
      BY <1>2, <2>2 DEF Unused, Secret
    <3>3. QED
      BY <1>3, <1>4, <1>5, <2>2, <3>1, <3>2 DEF Bound
  <2>3. QED
    BY <2>1, <2>2
<1>8. QED
  BY <1>3, <1>4, <1>5, <1>6, <1>7 DEF StoreInv

-----------------------------------------------------------------------------
\* What a step may leave under a key: what was there, nothing, or a row in time.
Kept(k) == rows'[k] = rows[k] \/ rows'[k] = None \/ rows'[k].expiry_date > now'

\* A statement that runs, or fails with or without effect.
LEMMA ReturnInv ==
  ASSUME StoreInv, NEW c \in Callers, call[c] # None,
         rows' \in {rows, Result(call[c])}, Returns(c),
         UNCHANGED <<now, sweep, task, outcome>>
  PROVE  /\ StoreInv'
         /\ call'[c] = None /\ \A d \in Callers \ {c} : call'[d] = call[d]
         /\ \A k \in Keys : Kept(k)
<1> DEFINE q == call[c]
<1> USE StoreAssumption, SqliteAssumption
<1>1. /\ q \in Statement /\ q.op \in Ops /\ q.key \in Keys /\ q.date \in Nat /\ q.since \in Nat
      /\ now \in q.since .. q.since + Patience /\ now \in Nat
      /\ rows \in [Keys -> Opt(Row)]
  BY DEF StoreInv, TypeOK, Opt, Statement
<1>2. /\ rows' \in [Keys -> Opt(Row)]
      /\ \A k \in Keys \ {q.key} : rows'[k] = rows[k]
  BY <1>1, ResultOf
<1>3. call'[c] = None /\ \A d \in Callers \ {c} : call'[d] = call[d]
  BY DEF Returns, StoreInv, TypeOK
<1>4. TypeOK'
  <2>1. call' \in [Callers -> Opt(Statement)]
    BY DEF Returns, StoreInv, TypeOK, Opt
  <2>2. QED
    BY <1>2, <1>3, <2>1 DEF StoreInv, TypeOK
<1>5. ASSUME NEW d \in Callers PROVE Bound(d)'
  <2>1. CASE d = c
    BY <1>3, <2>1 DEF Bound
  <2>2. CASE d # c
    <3>1. Bound(d)
      BY DEF StoreInv
    <3>2. call[d] # None => call[d].key \in Keys
      BY DEF StoreInv, TypeOK, Opt, Statement
    <3>3. call[d] # None /\ call[d].op = "save" => rows'[call[d].key] = rows[call[d].key]
      BY <1>2, <2>2, <3>1, <3>2 DEF Bound
    <3>4. QED
      BY <1>3, <2>2, <3>1, <3>3 DEF Bound
  <2>3. QED
    BY <2>1, <2>2
<1>6. ASSUME NEW k \in Keys PROVE Kept(k)
  <2>1. CASE k = q.key /\ rows' = Result(q) /\ q.op \in {"save", "update"}
    <3>1. rows'[k].expiry_date = q.date
      <4>1. rows'[k] = [state |-> q.state, expiry_date |-> q.date]
        BY <2>1, ResultOf
      <4>2. QED
        BY <4>1
    <3>2. q.date > q.since + Patience
      BY <2>1 DEF StoreInv, Bound
    <3>3. QED
      BY <1>1, <3>1, <3>2 DEF Kept
  <2>2. CASE k = q.key /\ rows' = Result(q) /\ q.op = "update_ttl"
    <3>1. CASE rows[k] = None
      BY <2>2, <3>1, ResultOf DEF Kept
    <3>2. CASE rows[k] # None
      <4>1. rows'[k].expiry_date = q.date
        <5>1. rows'[k] = [state |-> rows[k].state, expiry_date |-> q.date]
          BY <2>2, <3>2, ResultOf
        <5>2. QED
          BY <5>1
      <4>2. q.date > q.since + Patience
        BY <2>2 DEF StoreInv, Bound
      <4>3. QED
        BY <1>1, <4>1, <4>2 DEF Kept
    <3>3. QED
      BY <3>1, <3>2
  <2>3. CASE k = q.key /\ rows' = Result(q) /\ q.op \in {"load", "delete"}
    BY <2>3, ResultOf DEF Kept
  <2>4. CASE k # q.key \/ rows' = rows
    BY <1>2, <2>4 DEF Kept
  <2>5. QED
    BY <1>1, <2>1, <2>2, <2>3, <2>4 DEF Ops
<1>7. QED
  BY <1>3, <1>4, <1>5, <1>6 DEF StoreInv

\* The steps of the deletion task, of the server and of the clock.
LEMMA BackgroundInv ==
  ASSUME StoreInv, delete_expired \/ SweepDone \/ SweepFails \/ serve_ends \/ Tick
  PROVE  /\ StoreInv'
         /\ call' = call \/ call' = [c \in Callers |-> None]
         /\ now' >= now
         /\ \A k \in Keys : Kept(k)
<1> USE StoreAssumption, SqliteAssumption DEF Opt
<1>1. /\ now \in Nat /\ rows \in [Keys -> Opt(Row)]
      /\ \A c \in Callers : call[c] # None => call[c].key \in Keys
  BY DEF StoreInv, TypeOK, Statement
<1>2. CASE delete_expired
  <2>1. sweep' \in Deletion /\ sweep'.date = now
    <3> DEFINE d == [date |-> now, since |-> now]
    <3>1. d \in Deletion /\ d.date = now
      BY <1>1 DEF Deletion
    <3>2. QED
      BY <1>2, <3>1 DEF delete_expired
  <2>2. QED
    BY <1>1, <1>2, <2>1 DEF delete_expired, StoreInv, TypeOK, Bound, Kept
<1>3. CASE SweepDone \/ SweepFails
  <2>1. /\ sweep' = None /\ call' = call /\ now' = now /\ outcome' = outcome
        /\ task' \in {"running", "failed", "cancelled"}
        /\ rows' \in {rows, Swept}
    BY <1>3 DEF SweepDone, SweepFails, StoreInv, TypeOK
  <2>2. \A k \in Keys : rows'[k] \in {rows[k], None}
    BY <1>1, <2>1 DEF Swept
  <2>3. rows' \in [Keys -> Opt(Row)]
    BY <1>1, <2>1 DEF Swept
  <2>4. QED
    BY <1>1, <2>1, <2>2, <2>3 DEF StoreInv, TypeOK, Bound, Kept
<1>4. CASE serve_ends
  BY <1>1, <1>4 DEF serve_ends, StoreInv, TypeOK, Bound, Kept
<1>5. CASE Tick
  <2>1. now' = now + 1 /\ UNCHANGED <<rows, call, sweep, task, outcome>>
    BY <1>5 DEF Tick
  <2>2. \A c \in Callers : call[c] # None => now' \in call[c].since .. call[c].since + Patience
    BY <1>1, <1>5, <2>1 DEF Tick, StoreInv, TypeOK, Statement
  <2>3. sweep # None => sweep.date <= now'
    BY <1>1, <2>1 DEF StoreInv, TypeOK, Deletion
  <2>4. QED
    BY <1>1, <2>1, <2>2, <2>3 DEF StoreInv, TypeOK, Bound, Kept
<1>6. QED
  BY <1>2, <1>3, <1>4, <1>5

\* A step of the store, as far as a pending load is concerned.
LEMMA NextInv ==
  ASSUME StoreInv, Next
  PROVE  /\ StoreInv'
         /\ now' >= now
         /\ \A k \in Keys : Kept(k)
         /\ \A c \in Callers :
              \/ call'[c] \in {call[c], None}
              \/ call[c] = None /\ call'[c].since = now'
<1>0. now \in Nat
  BY DEF StoreInv, TypeOK
<1>1. CASE \E c \in Callers : Call(c)
  BY <1>0, <1>1, CallInv DEF Kept
<1>2. CASE \E c \in Callers : Execute(c) \/ Fail(c)
  <2>1. PICK c \in Callers : Execute(c) \/ Fail(c)
    BY <1>2
  <2>2. /\ call[c] # None /\ rows' \in {rows, Result(call[c])} /\ Returns(c)
        /\ UNCHANGED <<now, sweep, task, outcome>>
    BY <2>1 DEF Execute, Fail
  <2>3. QED
    BY <1>0, <2>2, ReturnInv
<1>3. CASE delete_expired \/ SweepDone \/ SweepFails \/ serve_ends \/ Tick
  BY <1>3, BackgroundInv
<1>4. QED
  BY <1>1, <1>2, <1>3 DEF Next

LEMMA StoreInvariant == Spec => []StoreInv
<1>1. StoreInv /\ UNCHANGED vars => StoreInv'
  BY DEF StoreInv, TypeOK, Bound, vars
<1>2. QED
  BY <1>1, InitInv, NextInv, PTL DEF Spec

\* The table and its statements keep to their types, and the times they are
\* bound to within the pool's patience.
THEOREM TypeCorrect == Spec => []TypeOK
<1>1. StoreInv => TypeOK
  BY DEF StoreInv
<1>2. QED
  BY <1>1, StoreInvariant, PTL

-----------------------------------------------------------------------------
\* The contract's answer is the state of a row in time.
LEMMA AnswerOf ==
  ASSUME StoreInv, NEW k \in Keys
  PROVE  Contract!Answer(k) = IF rows[k] # None /\ now < rows[k].expiry_date
                              THEN rows[k].state ELSE None
<1>1. CASE rows[k] = None
  BY <1>1 DEF Contract!Answer, Contract!Live, Contract!Held, RowsView
<1>2. CASE rows[k] # None
  <2> DEFINE e == [state |-> rows[k].state, live |-> now < rows[k].expiry_date]
  <2>1. rows[k] \in Row
    BY <1>2 DEF StoreInv, TypeOK, Opt
  <2>2. e \in [state : States, live : BOOLEAN]
    <3>1. (now < rows[k].expiry_date) \in BOOLEAN
      BY <2>1 DEF Row, StoreInv, TypeOK
    <3>2. QED
      BY <2>1, <3>1 DEF Row
  <2>3. e # None
    BY <2>2, StoreAssumption, SqliteAssumption
  <2>4. RowsView[k] = e
    BY <1>2 DEF RowsView
  <2>5. e.state = rows[k].state /\ e.live = (now < rows[k].expiry_date)
    OBVIOUS
  <2> HIDE DEF e
  <2>6. QED
    BY <1>2, <2>3, <2>4, <2>5 DEF Contract!Answer, Contract!Live, Contract!Held
<1>3. QED
  BY <1>1, <1>2

\* Every row whose expiry the load's early clock does not reach has been a right
\* answer since the call, and so has what the contract answers now.
LoadsInv ==
  \A c \in Callers : Loading(c) =>
    /\ RightAnswer(c) \in seen[c]
    /\ LET r == rows[call[c].key]
       IN  r # None /\ r.expiry_date > call[c].date => r.state \in seen[c]

LEMMA LoadsStep ==
  ASSUME StoreInv, StoreInv', LoadsInv, Next, NoteAnswers,
         \A k \in Keys : Contract!Answer(k)' =
                          IF rows'[k] # None /\ now' < rows'[k].expiry_date
                          THEN rows'[k].state ELSE None
  PROVE  LoadsInv'
<1> SUFFICES ASSUME NEW c \in Callers, Loading(c)'
             PROVE  /\ RightAnswer(c)' \in seen'[c]
                    /\ rows'[call'[c].key] # None /\ rows'[call'[c].key].expiry_date > call'[c].date
                       => rows'[call'[c].key].state \in seen'[c]
  BY DEF LoadsInv
<1> DEFINE k == call'[c].key
<1>1. /\ call'[c] \in Statement /\ call'[c] # None /\ call'[c].op = "load" /\ k \in Keys
      /\ now' \in Nat
      /\ rows'[k] # None => rows'[k].expiry_date \in Nat
      /\ call'[c].date = call'[c].since
  BY DEF StoreInv, TypeOK, Opt, Statement, Loading, Bound, Row
<1>2. seen'[c] = (IF Loading(c) THEN seen[c] ELSE {}) \cup {RightAnswer(c)'}
  BY DEF NoteAnswers
<1>3. RightAnswer(c)' = IF rows'[k] # None /\ now' < rows'[k].expiry_date
                        THEN rows'[k].state ELSE None
  BY <1>1 DEF RightAnswer
<1>4. CASE call'[c] = call[c]
  <2>1. Loading(c) /\ k = call[c].key
    BY <1>1, <1>4 DEF Loading
  <2>2. rows[k] # None /\ rows[k].expiry_date > call[c].date => rows[k].state \in seen[c]
    BY <2>1 DEF LoadsInv
  <2>3. Kept(k)
    BY <1>1, NextInv
  <2>4. QED
    BY <1>1, <1>2, <1>3, <1>4, <2>1, <2>2, <2>3 DEF Kept
<1>5. CASE call[c] = None /\ call'[c].since = now'
  BY <1>1, <1>2, <1>3, <1>5
<1>6. QED
  BY <1>1, <1>4, <1>5, NextInv

\* For every patience of the pool and every number of callers, a load answers
\* what was right at some moment between its call and its answer.
THEOREM LoadsInTime == LoadsSpec => []LoadsAnswerInTime
<1> DEFINE Answers == \A k \in Keys :
             Contract!Answer(k) = IF rows[k] # None /\ now < rows[k].expiry_date
                                  THEN rows[k].state ELSE None
<1>1. StoreInv => Answers
  BY AnswerOf
<1>2. Init /\ seen = [c \in Callers |-> {}] => LoadsInv
  BY DEF Init, LoadsInv, Loading
<1>3. LoadsInv /\ StoreInv /\ StoreInv' /\ Answers' /\ [Next /\ NoteAnswers]_<<vars, seen>>
        => LoadsInv'
  <2>1. LoadsInv /\ UNCHANGED <<vars, seen>> => LoadsInv'
    BY DEF LoadsInv, Loading, RightAnswer, vars, Contract!Answer, Contract!Live, Contract!Held,
           RowsView
  <2>2. LoadsInv /\ StoreInv /\ StoreInv' /\ Answers' /\ Next /\ NoteAnswers => LoadsInv'
    BY LoadsStep
  <2>3. QED
    BY <2>1, <2>2
<1>4. StoreInv /\ LoadsInv => LoadsAnswerInTime
  <2> SUFFICES ASSUME StoreInv, LoadsInv, NEW c \in Callers, Loading(c)
               PROVE  Selected(call[c]) \in seen[c]
    BY DEF LoadsAnswerInTime
  <2> DEFINE k == call[c].key
  <2>1. /\ k \in Keys /\ call[c].date \in Nat /\ now \in Nat /\ call[c].date <= now
        /\ rows[k] # None => rows[k].expiry_date \in Nat
    BY DEF StoreInv, TypeOK, Opt, Statement, Loading, Bound, Row
  <2>2. RightAnswer(c) = IF rows[k] # None /\ now < rows[k].expiry_date
                         THEN rows[k].state ELSE None
    BY <2>1, AnswerOf DEF RightAnswer
  <2>3. /\ RightAnswer(c) \in seen[c]
        /\ rows[k] # None /\ rows[k].expiry_date > call[c].date => rows[k].state \in seen[c]
    BY DEF LoadsInv
  <2>4. QED
    BY <2>1, <2>2, <2>3 DEF Selected
<1>5. LoadsSpec => Spec
  <2>1. [Next /\ NoteAnswers]_<<vars, seen>> => [Next]_vars
    BY DEF vars
  <2>2. QED
    BY <2>1, PTL DEF LoadsSpec, Spec
<1> HIDE DEF Answers
<1>6. QED
  BY <1>1, <1>2, <1>3, <1>4, <1>5, StoreInvariant, PTL DEF LoadsSpec

-----------------------------------------------------------------------------
\* As long as the clock stands, a change of the table shows under its key.
LEMMA ViewOfChange ==
  ASSUME StoreInv, now' = now, NEW k \in Keys, NEW r \in Opt(Row),
         DOMAIN rows' = Keys, rows'[k] = r, \A l \in Keys \ {k} : rows'[l] = rows[l]
  PROVE  RowsView' = [RowsView EXCEPT ![k] =
           IF r = None THEN None ELSE [state |-> r.state, live |-> now < r.expiry_date]]
BY DEF RowsView, StoreInv, TypeOK

\* A row with the date of a pending write is in time: its statement puts a live
\* record into the contract's store.
LEMMA WritesPut ==
  ASSUME StoreInv, now' = now, NEW c \in Callers, call[c] # None, NEW s \in States,
         call[c].op \in {"save", "update", "update_ttl"},
         rows' = Result(call[c]),
         rows'[call[c].key] = [state |-> s, expiry_date |-> call[c].date]
  PROVE  Contract!Put(call[c].key, s)
<1> DEFINE q == call[c]
           r == [state |-> s, expiry_date |-> q.date]
<1>1. q.key \in Keys /\ q.date \in Nat /\ q.since \in Nat /\ now \in Nat /\ now < q.date
  BY StoreAssumption, SqliteAssumption DEF StoreInv, TypeOK, Opt, Statement, Bound
<1>2. r \in Row /\ r # None /\ r.state = s /\ r.expiry_date = q.date
  <2>1. r \in Row
    BY <1>1 DEF Row
  <2>2. QED
    BY <2>1, StoreAssumption, SqliteAssumption
<1>3. /\ DOMAIN rows' = Keys /\ rows'[q.key] = r
      /\ \A l \in Keys \ {q.key} : rows'[l] = rows[l]
  BY ResultOf
<1> HIDE DEF r
<1>4. RowsView' = [RowsView EXCEPT ![q.key] =
           IF r = None THEN None ELSE [state |-> r.state, live |-> now < r.expiry_date]]
  BY <1>1, <1>2, <1>3, ViewOfChange DEF Opt
<1>5. (now < r.expiry_date) = TRUE
  BY <1>1, <1>2
<1>6. QED
  BY <1>2, <1>4, <1>5 DEF Contract!Put

LEMMA HeldRows ==
  ASSUME StoreInv, NEW k \in Keys
  PROVE  /\ Contract!Held(k) <=> rows[k] # None
         /\ rows[k] # None => /\ RowsView[k].state = rows[k].state
                              /\ RowsView[k].live = (now < rows[k].expiry_date)
<1>1. CASE rows[k] = None
  BY <1>1 DEF Contract!Held, RowsView
<1>2. CASE rows[k] # None
  <2> DEFINE e == [state |-> rows[k].state, live |-> now < rows[k].expiry_date]
  <2>1. rows[k] \in Row
    BY <1>2 DEF StoreInv, TypeOK, Opt
  <2>2. (now < rows[k].expiry_date) \in BOOLEAN
    BY <2>1 DEF Row, StoreInv, TypeOK
  <2>3. e \in [state : States, live : BOOLEAN]
    BY <2>1, <2>2 DEF Row
  <2>4. e # None
    BY <2>3, StoreAssumption, SqliteAssumption
  <2>5. RowsView[k] = e
    BY <1>2 DEF RowsView
  <2>6. e.state = rows[k].state /\ e.live = (now < rows[k].expiry_date)
    OBVIOUS
  <2> HIDE DEF e
  <2>7. QED
    BY <1>2, <2>4, <2>5, <2>6 DEF Contract!Held
<1>3. QED
  BY <1>1, <1>2

LEMMA StatementFollows ==
  ASSUME StoreInv, now' = now, NEW c \in Callers, call[c] # None,
         rows' = Result(call[c])
  PROVE  UNCHANGED RowsView \/ Performed(call[c])
<1> DEFINE q == call[c]
<1>1. q.key \in Keys /\ q.op \in Ops
  BY DEF StoreInv, TypeOK, Opt, Statement
<1>2. CASE q.op = "load"
  BY <1>2, ResultOf DEF RowsView
<1>3. CASE q.op \in {"save", "update"}
  <2>1. Contract!Put(q.key, q.state)
    BY <1>3, ResultOf, WritesPut
  <2>2. q.op = "save" => ~Contract!Held(q.key)
    BY <1>1, HeldRows DEF StoreInv, Bound
  <2>3. QED
    BY <1>3, <2>1, <2>2 DEF Performed, Contract!Save, Contract!Update
<1>4. CASE q.op = "update_ttl"
  <2>1. CASE rows[q.key] = None
    <3>1. rows' = rows
      BY <1>4, <2>1 DEF Result, Extended
    <3>2. QED
      BY <3>1 DEF RowsView
  <2>2. CASE rows[q.key] # None
    <3>1. rows[q.key].state \in States
      BY <1>1, <2>2 DEF StoreInv, TypeOK, Opt, Row
    <3>2. Contract!Put(q.key, rows[q.key].state)
      BY <1>4, <2>2, <3>1, ResultOf, WritesPut
    <3>3. Contract!UpdateTtl(q.key)
      BY <1>1, <2>2, <3>2, HeldRows DEF Contract!UpdateTtl
    <3>4. QED
      BY <1>4, <3>3 DEF Performed
  <2>3. QED
    BY <2>1, <2>2
<1>5. CASE q.op = "delete"
  <2>1. /\ DOMAIN rows' = Keys /\ rows'[q.key] = None
        /\ \A l \in Keys \ {q.key} : rows'[l] = rows[l]
    BY <1>5, ResultOf
  <2>2. Contract!Delete(q.key)
    BY <1>1, <2>1 DEF Contract!Delete, Contract!Drop, RowsView
  <2>3. QED
    BY <1>5, <2>2 DEF Performed
<1>6. QED
  BY <1>1, <1>2, <1>3, <1>4, <1>5 DEF Ops

LEMMA SweepFollows ==
  ASSUME StoreInv, now' = now, sweep # None, rows' = Swept
  PROVE  \E S \in SUBSET Keys : Contract!Collect(S)
<1> DEFINE S == ExpiredRows(sweep.date)
<1>1. sweep.date \in Nat /\ now \in Nat /\ sweep.date <= now
  BY DEF StoreInv, TypeOK, Opt, Deletion
<1>2. \A k \in S : Contract!Lapsed(k)
  <2>1. \A k \in S : k \in Keys /\ rows[k] # None /\ rows[k].expiry_date < sweep.date
                     /\ rows[k].expiry_date \in Nat
    BY DEF ExpiredRows, StoreInv, TypeOK, Opt, Row
  <2>2. \A k \in S : (now < rows[k].expiry_date) = FALSE
    BY <1>1, <2>1
  <2>3. QED
    BY <2>1, <2>2, HeldRows DEF Contract!Lapsed
<1>3. Contract!Drop(S)
  BY DEF Swept, RowsView, Contract!Drop
<1>4. S \in SUBSET Keys
  BY DEF ExpiredRows
<1>5. QED
  BY <1>2, <1>3, <1>4 DEF Contract!Collect

LEMMA TickFollows ==
  ASSUME StoreInv, Tick
  PROVE  \E S \in SUBSET Keys : Contract!Lapse(S)
<1> DEFINE S == {k \in Keys : rows[k] # None /\ rows[k].expiry_date = now'}
<1>1. now \in Nat /\ now' = now + 1 /\ rows' = rows
  BY DEF Tick, StoreInv, TypeOK
<1>2. \A k \in Keys : rows[k] # None => rows[k].expiry_date \in Nat
  BY DEF StoreInv, TypeOK, Opt, Row
<1>3. \A k \in S : Contract!Live(k)
  <2>1. \A k \in S : (now < rows[k].expiry_date) = TRUE
    BY <1>1
  <2>2. QED
    BY <2>1, HeldRows DEF Contract!Live
<1>4. ASSUME NEW k \in S
      PROVE  RowsView'[k] = [state |-> RowsView[k].state, live |-> FALSE]
  <2>1. (now' < rows[k].expiry_date) = FALSE
    BY <1>1, <1>2
  <2>2. RowsView'[k] = [state |-> rows[k].state, live |-> FALSE]
    BY <1>1, <2>1 DEF RowsView
  <2>3. QED
    BY <2>2, HeldRows
<1>5. ASSUME NEW k \in Keys \ S PROVE RowsView'[k] = RowsView[k]
  <2>1. CASE rows[k] = None
    BY <1>1, <2>1 DEF RowsView
  <2>2. CASE rows[k] # None
    <3>1. (now' < rows[k].expiry_date) = (now < rows[k].expiry_date)
      BY <1>1, <1>2, <2>2
    <3>2. QED
      BY <1>1, <2>2, <3>1 DEF RowsView
  <2>3. QED
    BY <2>1, <2>2
<1>6. S \in SUBSET Keys
  OBVIOUS
<1>7. RowsView' = [k \in Keys |-> RowsView'[k]]
  BY DEF RowsView
<1> HIDE DEF S
<1>8. QED
  BY <1>3, <1>4, <1>5, <1>6, <1>7 DEF Contract!Lapse

\* For every patience shorter than the times to live: whatever statements wait
\* behind whatever others, the table changes as the contract of a session store
\* allows.
THEOREM FollowsContract == Spec => ChangesFollowContract
<1> DEFINE Follows ==
      \/ UNCHANGED RowsView
      \/ \E c \in Callers : call[c] # None /\ call'[c] = None /\ Performed(call[c])
      \/ \E S \in SUBSET Keys : Contract!Lapse(S) \/ Contract!Collect(S)
      \/ outcome' # None /\ Contract!Clear
<1>1. StoreInv /\ [Next]_vars => [Follows]_vars
  <2> SUFFICES ASSUME StoreInv, Next PROVE Follows
    OBVIOUS
  <2>1. CASE \E c \in Callers : Call(c)
    BY <2>1, CallInv DEF RowsView
  <2>2. ASSUME NEW c \in Callers, Execute(c) \/ Fail(c) PROVE Follows
    <3>1. /\ call[c] # None /\ Returns(c) /\ now' = now /\ rows' \in {rows, Result(call[c])}
      BY <2>2 DEF Execute, Fail
    <3>2. call'[c] = None
      BY <3>1 DEF Returns, StoreInv, TypeOK
    <3>3. rows' = rows => UNCHANGED RowsView
      BY <3>1 DEF RowsView
    <3>4. QED
      BY <3>1, <3>2, <3>3, StatementFollows
  <2>3. CASE delete_expired
    BY <2>3 DEF delete_expired, RowsView
  <2>4. CASE SweepDone \/ SweepFails
    <3>1. sweep # None /\ now' = now /\ rows' \in {rows, Swept}
      BY <2>4 DEF SweepDone, SweepFails
    <3>2. rows' = rows => UNCHANGED RowsView
      BY <3>1 DEF RowsView
    <3>3. QED
      BY <3>1, <3>2, SweepFollows
  <2>5. CASE serve_ends
    <3>1. outcome' # None
      BY <2>5, StoreAssumption, SqliteAssumption DEF serve_ends
    <3>2. Contract!Clear
      BY <2>5 DEF serve_ends, RowsView, Contract!Clear, Contract!Drop
    <3>3. QED
      BY <3>1, <3>2
  <2>6. CASE Tick
    BY <2>6, TickFollows
  <2> HIDE DEF Follows
  <2>7. QED
    BY <2>1, <2>2, <2>3, <2>4, <2>5, <2>6 DEF Next
<1>2. QED
  BY <1>1, StoreInvariant, PTL DEF Spec, ChangesFollowContract
=============================================================================
