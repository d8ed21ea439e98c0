---------------------------- MODULE MCAuthService ----------------------------
(* AuthService on small instances, up to the names of what it is made of. *)
EXTENDS AuthService, MCInstances

Interchangeable ==
  Permutations(Clients) \cup Permutations(Requests) \cup Permutations(Keys)
    \cup Permutations(Users) \cup Permutations(Hashes)
=============================================================================
