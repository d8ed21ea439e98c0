---------------------------- MODULE StoreContract ----------------------------
(***************************************************************************)
(* The abstract specification of a session store on its own: any sequence  *)
(* of calls and of passing time, with the answer to the last call in       *)
(* `reply'.  MemoryStore is shown to implement it; AuthService relies on   *)
(* nothing more.                                                           *)
(***************************************************************************)
EXTENDS SessionStore

VARIABLE reply      \* the last call and what it answered

Reply(op, k, answer) == [op |-> op, key |-> k, answer |-> answer]

NoReply == Reply(None, None, None)

Init == StoreInit /\ reply = NoReply

Called(op, k, answer) == reply' = Reply(op, k, answer)

Call(k) ==
  \/ \E a \in States \cup {None} : Load(k, a) /\ Called("load", k, a)
  \/ \E s \in States : Save(k, s) /\ Called("save", k, k)
  \/ \E s \in States : Update(k, s) /\ Called("update", k, k)
  \/ UpdateTtl(k) /\ Called("update_ttl", k, None)
  \/ Delete(k) /\ Called("delete", k, None)

Unasked ==
  /\ \/ \E S \in SUBSET Keys : Lapse(S) \/ Collect(S)
     \/ Clear
  /\ reply' = NoReply

Next == (\E k \in Keys : Call(k)) \/ Unasked

Spec == Init /\ [][Next]_<<entry, reply>>
=============================================================================
