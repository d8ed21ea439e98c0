----------------------------- MODULE SqliteStore -----------------------------
(***************************************************************************)
(* src/examples/sqlite/src/web/sessions.rs: session state in a table that  *)
(* the requests and a deletion task share through a pool of connections.   *)
(* The clock is read when a statement is built; the statement runs later,  *)
(* when a connection is free, so that others run in between.               *)
(***************************************************************************)
EXTENDS StoreParameters

CONSTANTS Callers,   \* the requests that use the store
          Patience   \* how long a statement waits at most (the pool's timeout)

VARIABLES rows,      \* the table: a row or None under each key
          call,      \* the statement each caller waits for, or None
          sweep,     \* the statement the deletion task waits for, or None
          task,      \* whether the deletion task is running
          outcome    \* what App::serve has returned

vars == <<rows, now, call, sweep, task, outcome>>

Row == [state : States, expiry_date : Nat]

Ops == {"load", "save", "update", "update_ttl", "delete"}

\* `date' is the number bound to the statement, `since' when that was done.
Statement == [op : Ops, key : Keys, state : States \cup {None}, date : Nat, since : Nat]

Deletion == [date : Nat, since : Nat]

ASSUME SqliteAssumption ==
  /\ None \notin Row \cup Statement \cup Deletion \cup States
  /\ None \notin {"ok", "error"}
  /\ Patience \in Nat
  /\ \A ttl \in Ttls : Patience < ttl

Init ==
  /\ rows = [k \in Keys |-> None]
  /\ now = 0
  /\ call = [c \in Callers |-> None]
  /\ sweep = None
  /\ task = "running"
  /\ outcome = None

Serving == outcome = None

-----------------------------------------------------------------------------
(* The methods of the store, up to the await of their statement.            *)

expiry_date(ttl) == now + ttl

Begin(c, op, k, s, date) ==
  /\ Serving /\ call[c] = None
  /\ call' = [call EXCEPT ![c] =
                [op |-> op, key |-> k, state |-> s, date |-> date, since |-> now]]
  /\ UNCHANGED <<rows, now, sweep, task, outcome>>

\* The session key that a save has generated and not yet returned.
Secret(k) == \E c \in Callers : call[c] # None /\ call[c].op = "save" /\ call[c].key = k

load(c, k) == ~Secret(k) /\ Begin(c, "load", k, None, now)

\* generate_session_key draws 64 random characters: a key nobody knows.
Unused(k) == rows[k] = None /\ \A c \in Callers : call[c] # None => call[c].key # k

save(c, k, s, ttl) == Unused(k) /\ Begin(c, "save", k, s, expiry_date(ttl))

update(c, k, s, ttl) == ~Secret(k) /\ Begin(c, "update", k, s, expiry_date(ttl))

update_ttl(c, k, ttl) == ~Secret(k) /\ Begin(c, "update_ttl", k, None, expiry_date(ttl))

delete(c, k) == ~Secret(k) /\ Begin(c, "delete", k, None, 0)

-----------------------------------------------------------------------------
(* The statements, when they get their connection.                          *)

\* Mutant: a row counts up to and including its last second.
SelectedLate(q) ==
  IF rows[q.key] # None /\ rows[q.key].expiry_date >= q.date THEN rows[q.key].state ELSE None

\* select state from sessions where id = ? and expiry_date > ?
Selected(q) ==
  IF rows[q.key] # None /\ rows[q.key].expiry_date > q.date THEN rows[q.key].state ELSE None

With(k, r) == [rows EXCEPT ![k] = r]

\* insert into sessions ... on conflict(id) do update
upsert(q) == With(q.key, [state |-> q.state, expiry_date |-> q.date])

\* Mutant: a new time to live is written as a new row, without a state.
ExtendedByUpsert(q) == upsert(q)

\* update sessions set expiry_date = ? where id = ?
Extended(q) ==
  IF rows[q.key] = None THEN rows
  ELSE With(q.key, [state |-> rows[q.key].state, expiry_date |-> q.date])

Result(q) ==
  CASE q.op = "load" -> rows
    [] q.op \in {"save", "update"} -> upsert(q)
    [] q.op = "update_ttl" -> Extended(q)
    [] q.op = "delete" -> With(q.key, None)

Returns(c) == call' = [call EXCEPT ![c] = None]

Execute(c) ==
  /\ call[c] # None
  /\ rows' = Result(call[c])
  /\ Returns(c)
  /\ UNCHANGED <<now, sweep, task, outcome>>

\* The pool times out, the connection is lost or the request is dropped; a write
\* may have taken effect all the same.
Fail(c) ==
  /\ call[c] # None
  /\ rows' \in {rows, Result(call[c])}
  /\ Returns(c)
  /\ UNCHANGED <<now, sweep, task, outcome>>

-----------------------------------------------------------------------------
(* The deletion task, and the server that started it.                       *)

\* Mutant: only the first tick of the interval is awaited.
sweepAtStart == now = 0 /\ task = "running" /\ sweep = None
                /\ sweep' = [date |-> now, since |-> now]
                /\ UNCHANGED <<rows, now, call, task, outcome>>

\* A tick of the interval.
delete_expired ==
  /\ task = "running" /\ sweep = None
  /\ sweep' = [date |-> now, since |-> now]
  /\ UNCHANGED <<rows, now, call, task, outcome>>

\* Mutant: the comparison is the wrong way round.
FreshRows(date) == {k \in Keys : rows[k] # None /\ rows[k].expiry_date > date}

\* delete from sessions where expiry_date < ?
ExpiredRows(date) == {k \in Keys : rows[k] # None /\ rows[k].expiry_date < date}

Swept == [k \in Keys |-> IF k \in ExpiredRows(sweep.date) THEN None ELSE rows[k]]

SweepDone ==
  /\ sweep # None
  /\ rows' = Swept
  /\ sweep' = None
  /\ UNCHANGED <<now, call, task, outcome>>

\* The `?' ends the loop.
SweepFails ==
  /\ sweep # None
  /\ rows' \in {rows, Swept}
  /\ sweep' = None
  /\ task' = "failed"
  /\ UNCHANGED <<now, call, outcome>>

\* The server has returned an error, or the task is aborted and its result looked at,
\* of which an error and a panic come to the same; with the process goes the database,
\* which is held in memory.
serve_ends ==
  /\ Serving
  /\ \/ outcome' = "error"
     \/ outcome' = IF task = "failed" THEN "error" ELSE "ok"
  /\ task' = IF task = "running" THEN "cancelled" ELSE task
  /\ sweep' = None
  /\ call' = [c \in Callers |-> None]
  /\ rows' = [k \in Keys |-> None]
  /\ UNCHANGED now

\* No statement outlasts the pool's patience.
Tick ==
  /\ now < MaxTime
  /\ \A c \in Callers : call[c] # None => now < call[c].since + Patience
  /\ sweep # None => now < sweep.since + Patience
  /\ now' = now + 1
  /\ UNCHANGED <<rows, call, sweep, task, outcome>>

Call(c) ==
  \/ \E k \in Keys : load(c, k) \/ delete(c, k)
  \/ \E k \in Keys, s \in States, ttl \in Ttls : save(c, k, s, ttl) \/ update(c, k, s, ttl)
  \/ \E k \in Keys, ttl \in Ttls : update_ttl(c, k, ttl)

Next ==
  \/ \E c \in Callers : Call(c) \/ Execute(c) \/ Fail(c)
  \/ delete_expired \/ SweepDone \/ SweepFails \/ serve_ends \/ Tick

Spec == Init /\ [][Next]_vars

\* The interval goes on ticking, and the database answers.
FairSpec ==
  /\ Spec
  /\ WF_vars(delete_expired) /\ WF_vars(SweepDone \/ SweepFails)
  /\ \A c \in Callers : WF_vars(Execute(c) \/ Fail(c))

-----------------------------------------------------------------------------
\* The table and the statements keep to their types, and what a statement is
\* bound to was read no longer ago than it may wait.
TypeOK ==
  /\ rows \in [Keys -> Opt(Row)]
  /\ now \in Nat
  /\ call \in [Callers -> Opt(Statement)]
  /\ sweep \in Opt(Deletion)
  /\ task \in {"running", "failed", "cancelled"}
  /\ outcome \in {None, "ok", "error"}
  /\ \A c \in Callers : call[c] # None =>
       /\ now \in call[c].since .. call[c].since + Patience
       /\ call[c].op \in {"save", "update"} => call[c].state \in States
  /\ sweep # None => sweep.date <= now

\* What the table amounts to for the middleware.
RowsView ==
  [k \in Keys |-> IF rows[k] = None THEN None
                  ELSE [state |-> rows[k].state, live |-> now < rows[k].expiry_date]]

Contract == INSTANCE SessionStore WITH entry <- RowsView

Performed(q) ==
  \/ q.op = "save" /\ Contract!Save(q.key, q.state)
  \/ q.op = "update" /\ Contract!Update(q.key, q.state)
  \/ q.op = "update_ttl" /\ Contract!UpdateTtl(q.key)
  \/ q.op = "delete" /\ Contract!Delete(q.key)

\* Refinement, step by step: although statements carry the time of an earlier
\* moment, whatever changes in the table is what the contract of a session store
\* lets the method of that statement change; a record in time is never swept away,
\* and one that is written is not yet expired (sessions.rs:58-97).
ChangesFollowContract ==
  [][\/ UNCHANGED RowsView
     \/ \E c \in Callers : call[c] # None /\ call'[c] = None /\ Performed(call[c])
     \/ \E S \in SUBSET Keys : Contract!Lapse(S) \/ Contract!Collect(S)
     \/ outcome' # None /\ Contract!Clear]_vars

Overdue(k) == rows[k] # None /\ rows[k].expiry_date < now

\* While the deletion task runs, what nobody reads any more does not stay.
OverdueAreDeleted ==
  \A k \in Keys : Overdue(k) /\ task = "running" ~> ~Overdue(k) \/ task # "running"

\* "Runs delete_expired on the given interval until cancelled"
\* (sessions.rs:61), and until then nothing overdue stays.
DeletesUntilCancelled ==
  \A k \in Keys : Overdue(k) ~> ~Overdue(k) \/ task = "cancelled"
=============================================================================
