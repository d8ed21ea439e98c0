--------------------------- MODULE StoreParameters ---------------------------
(* What the two session stores of the repository are given, and the clock they  *)
(* read.                                                                        *)
EXTENDS Options, Integers

CONSTANTS Keys, States,
          Ttls,      \* the times to live a caller may pass
          MaxTime    \* bound on the clock

VARIABLE now   \* OffsetDateTime::now_utc(), in seconds

\* What MemoryStore keeps under a key.
Record == [state : States, expires_at : Nat]

ASSUME StoreAssumption ==
  /\ None \notin Record
  /\ None \notin [state : States, live : BOOLEAN]
  /\ Ttls \subseteq Nat \ {0}
  /\ MaxTime \in Nat
=============================================================================
