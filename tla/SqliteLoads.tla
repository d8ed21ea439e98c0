----------------------------- MODULE SqliteLoads -----------------------------
(***************************************************************************)
(* What a load of the SQLite store may answer although its clock is read   *)
(* before it runs: SqliteStore with a record of what the contract of a     *)
(* session store would have answered since the load was called.            *)
(***************************************************************************)
EXTENDS SqliteStore

VARIABLE seen   \* history: the answers that were right since each pending load began

Loading(c) == call[c] # None /\ call[c].op = "load"

\* What the contract would answer this load now.
RightAnswer(c) == Contract!Answer(call[c].key)

NoteAnswers ==
  seen' = [c \in Callers |->
             IF Loading(c)'
             THEN (IF Loading(c) THEN seen[c] ELSE {}) \cup {RightAnswer(c)'}
             ELSE {}]

LoadsSpec ==
  Init /\ seen = [c \in Callers |-> {}] /\ [][Next /\ NoteAnswers]_<<vars, seen>>

\* Whenever the statement of a load runs, its answer is one the contract would
\* have given at some moment between the call and that one (sessions.rs:112-117):
\* the early reading of the clock never makes a session out of an expired record.
LoadsAnswerInTime ==
  \A c \in Callers : Loading(c) => Selected(call[c]) \in seen[c]
=============================================================================
