----------------------------- MODULE MemoryStore -----------------------------
(***************************************************************************)
(* src/actix-login/src/session_store.rs: session state in a map guarded by *)
(* a mutex.  Every method takes the lock once and reads the clock while it *)
(* holds it, so each is one atomic step.  Expired records are dropped only *)
(* by the load that meets them.                                            *)
(***************************************************************************)
EXTENDS StoreParameters

VARIABLES records,   \* the map: a record or None under each key
          reply      \* the last call and what it answered

memoryVars == <<records, now, reply>>

\* The map with what is kept under k replaced by r.
WithRecord(k, r) == [records EXCEPT ![k] = r]

\* Mutant: off by one at the instant of expiry.
ExpiredLate(k) == records[k].expires_at < now

Expired(k) == records[k].expires_at <= now

Replies(op, k, answer) == reply' = [op |-> op, key |-> k, answer |-> answer]

Insert(k, state, ttl) ==
  records' = WithRecord(k, [state |-> state, expires_at |-> now + ttl])

-----------------------------------------------------------------------------
MemoryInit ==
  /\ records = [k \in Keys |-> None]
  /\ now = 0
  /\ reply = [op |-> None, key |-> None, answer |-> None]

LoadMissing(k) ==
  /\ records[k] = None
  /\ Replies("load", k, None)
  /\ UNCHANGED <<records, now>>

LoadExpired(k) ==
  /\ records[k] # None /\ Expired(k)
  /\ records' = WithRecord(k, None)
  /\ Replies("load", k, None)
  /\ UNCHANGED now

LoadFound(k) ==
  /\ records[k] # None /\ ~Expired(k)
  /\ Replies("load", k, records[k].state)
  /\ UNCHANGED <<records, now>>

memory_load(k) == LoadMissing(k) \/ LoadExpired(k) \/ LoadFound(k)

\* generate_session_key draws 64 random characters: a key the map lacks.
memory_save(k, state, ttl) ==
  /\ records[k] = None
  /\ Insert(k, state, ttl)
  /\ Replies("save", k, k)
  /\ UNCHANGED now

memory_update(k, state, ttl) ==
  /\ Insert(k, state, ttl)
  /\ Replies("update", k, k)
  /\ UNCHANGED now

\* An expired record that no load has met yet is revived.
memory_update_ttl(k, ttl) ==
  /\ records' = IF records[k] = None THEN records
                ELSE WithRecord(k, [records[k] EXCEPT !.expires_at = now + ttl])
  /\ Replies("update_ttl", k, None)
  /\ UNCHANGED now

memory_delete(k) ==
  /\ records' = WithRecord(k, None)
  /\ Replies("delete", k, None)
  /\ UNCHANGED now

MemoryTick ==
  /\ now < MaxTime
  /\ now' = now + 1
  /\ reply' = [op |-> None, key |-> None, answer |-> None]
  /\ UNCHANGED records

\* The process restarts: "Nothing is persisted".
Restart ==
  /\ records' = [k \in Keys |-> None]
  /\ reply' = [op |-> None, key |-> None, answer |-> None]
  /\ UNCHANGED now

MemoryNext ==
  \/ \E k \in Keys : memory_load(k) \/ memory_delete(k)
  \/ \E k \in Keys, s \in States, ttl \in Ttls :
       memory_save(k, s, ttl) \/ memory_update(k, s, ttl)
  \/ \E k \in Keys, ttl \in Ttls : memory_update_ttl(k, ttl)
  \/ MemoryTick \/ Restart

MemorySpec == MemoryInit /\ [][MemoryNext]_memoryVars

-----------------------------------------------------------------------------
\* Every record has a state and an expiry; the clock stays within its bound.
MemoryTypeOK ==
  /\ records \in [Keys -> Opt(Record)]
  /\ now \in 0 .. MaxTime
  /\ reply \in [op : {"load", "save", "update", "update_ttl", "delete", None},
               key : Opt(Keys), answer : Opt(States \cup Keys)]

\* What the map amounts to for the middleware: expiry times become liveness.
EntryView ==
  [k \in Keys |-> IF records[k] = None THEN None
                  ELSE [state |-> records[k].state, live |-> now < records[k].expires_at]]

MapContract == INSTANCE StoreContract WITH entry <- EntryView

\* Refinement: through expiry, lazy dropping and revival the memory store
\* answers every call as the contract of a session store allows.
ImplementsContract == MapContract!Spec

=============================================================================
