---------------------------- MODULE SessionStore ----------------------------
(***************************************************************************)
(* What the session middleware may rely on in a session store, whichever   *)
(* one an application plugs in: the operations of actix-session's          *)
(* SessionStore trait as the stores of this repository implement them,     *)
(* with time reduced to its one visible effect.  A record is live until    *)
(* its time to live has passed, then lapsed until the store gets rid of    *)
(* it, and a load cannot tell a lapsed record from a missing one.          *)
(***************************************************************************)
CONSTANTS Keys,     \* the session keys
          States,   \* the session states (Rust: HashMap<String, String>)
          None      \* Rust's None

VARIABLE entry      \* what the store keeps under each key

Entry == [state : States, live : BOOLEAN]

StoreTypeOK == entry \in [Keys -> Entry \cup {None}]

StoreInit == entry = [k \in Keys |-> None]

Held(k) == entry[k] # None
Live(k) == Held(k) /\ entry[k].live
Lapsed(k) == Held(k) /\ ~entry[k].live

\* What a load of k answers now.
Answer(k) == IF Live(k) THEN entry[k].state ELSE None

Put(k, s) == entry' = [entry EXCEPT ![k] = [state |-> s, live |-> TRUE]]

Drop(S) == entry' = [k \in Keys |-> IF k \in S THEN None ELSE entry[k]]

-----------------------------------------------------------------------------
(* The operations of the trait.  `update' is an upsert: it does not ask     *)
(* whether the key is still held.                                           *)

\* Mutant: a load leaves a record where there was none.
LoadTouching(k, answer) ==
  /\ answer = Answer(k)
  /\ \/ Held(k) /\ UNCHANGED entry
     \/ ~Held(k) /\ \E s \in States : Put(k, s)

\* A load may also get rid of the lapsed record it has met.
Load(k, answer) ==
  /\ answer = Answer(k)
  /\ \/ UNCHANGED entry
     \/ Lapsed(k) /\ Drop({k})

Save(k, s) == ~Held(k) /\ Put(k, s)

Update(k, s) == Put(k, s)

\* Only a record that is still held gets a new time to live, lapsed or not.
UpdateTtl(k) ==
  \/ Held(k) /\ Put(k, entry[k].state)
  \/ ~Held(k) /\ UNCHANGED entry

Delete(k) == Drop({k})

-----------------------------------------------------------------------------
(* What happens to a store without a call.                                  *)

\* Time passes: the records under S outlive their time to live.
Lapse(S) ==
  /\ \A k \in S : Live(k)
  /\ entry' = [k \in Keys |-> IF k \in S
                            THEN [state |-> entry[k].state, live |-> FALSE]
                            ELSE entry[k]]

\* The store sweeps lapsed records away.
Collect(S) == (\A k \in S : Lapsed(k)) /\ Drop(S)

\* The store loses everything, as memory does when the process restarts.
Clear == Drop(Keys)
=============================================================================
