----------------------------- MODULE MCMultiAuth -----------------------------
(* Two browsers of one user, with two sign-ins under way that ask for pages of *)
(* their own; and once there is a password, one browser with one of them.      *)
EXTENDS MultiAuth, FiniteSets, Integers, TLC

CONSTANTS c1, c2, r1, r2, k1, k2, u1, a1, a2, p1, p2, w1, t1

TwoClients == {c1, c2}
TwoRequests == {r1, r2}
TwoKeys == {k1, k2}
OneUser == {u1}
TwoAttempts == {a1, a2}
TwoPages == {p1, p2}
MCNextUrl == a1 :> p1 @@ a2 :> p2
OnePassword == {w1}
OneToken == {t1}
MCHashes == Tokens \cup Passwords \cup {Empty}

Active == {c \in Clients : jar[c] # None \/ \E r \in Requests : who[r] = c}
Begun == {a \in Attempts : starter[a] # None}

NoPassword == \A u \in Users : rows[u] = None \/ rows[u].password = None

Bound == NoPassword \/ (Cardinality(Active) <= 1 /\ Cardinality(Begun) <= 1)

MCSymmetry == Permutations(Clients) \cup Permutations(Keys) \cup Permutations(Requests)
=============================================================================
