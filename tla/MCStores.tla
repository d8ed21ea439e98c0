------------------------------- MODULE MCStores -------------------------------
(* A server with one of the two session stores: the memory store, for two keys *)
(* and two times to live, or SQLite's, for one key, one of them, two requests  *)
(* and a clock that outruns every record.                                      *)
EXTENDS SqliteLoads, MemoryStore

CONSTANTS k1, k2, s1, s2, c1, c2

TwoKeys == {k1, k2}
MCStates == {s1, s2}
TwoCallers == {c1, c2}
MCTtls == {2, 3}

VARIABLE store   \* the store the server is built with

storesVars == <<vars, seen, store, records, reply>>

\* What SQLite's statements are about: one key, and the shorter time to live.
OnKey1 ==
  \A c \in Callers : call[c] # None => call[c].key = k1 /\ call[c].date <= call[c].since + 2

Sqlite(A) == store = "sqlite" /\ A /\ OnKey1' /\ UNCHANGED <<store, records, reply>>

InMemory ==
  /\ store = "memory" /\ MemoryNext
  /\ UNCHANGED <<store, rows, call, sweep, task, outcome, seen>>

StoresInit ==
  /\ store \in {"memory", "sqlite"}
  /\ Init /\ seen = [c \in Callers |-> {}]
  /\ MemoryInit

StoresSpec == StoresInit /\ [][InMemory \/ Sqlite(Next /\ NoteAnswers)]_storesVars

\* What FairSpec asks of the SQLite store.
FairStoresSpec ==
  /\ StoresSpec
  /\ WF_storesVars(Sqlite(delete_expired /\ NoteAnswers))
  /\ WF_storesVars(Sqlite((SweepDone \/ SweepFails) /\ NoteAnswers))
  /\ \A c \in Callers : WF_storesVars(Sqlite((Execute(c) \/ Fail(c)) /\ NoteAnswers))
=============================================================================
