----------------------------- MODULE MCInstances -----------------------------
(* The model values and sets the small instances of AuthService are made of. *)
EXTENDS TLC

CONSTANTS c1, c2, r1, r2, r3, k1, k2, k3, u1, u2, h1, h2, a1

OneClient == {c1}
TwoClients == {c1, c2}
TwoRequests == {r1, r2}
ThreeRequests == {r1, r2, r3}
TwoKeys == {k1, k2}
ThreeKeys == {k1, k2, k3}
OneUser == {u1}
TwoUsers == {u1, u2}
OneHash == {h1}
TwoHashes == {h1, h2}
NoValue == {}
OneValue == {a1}
=============================================================================
