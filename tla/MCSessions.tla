------------------------------ MODULE MCSessions ------------------------------
(* The history of AuthService kept by Authentication and by SessionFixation at *)
(* the same time, on small instances, up to the names of what they are made of. *)
EXTENDS Authentication, SessionFixation, MCInstances

SessionsSpec ==
  /\ Init /\ granted = {} /\ anonymous = {}
  /\ [][Next /\ NoteGrants /\ NoteAnonymous]_<<vars, granted, anonymous>>

Interchangeable ==
  Permutations(Clients) \cup Permutations(Requests) \cup Permutations(Keys)
    \cup Permutations(Users) \cup Permutations(Hashes)
=============================================================================
