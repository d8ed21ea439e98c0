------------------------------ MODULE MCExamples ------------------------------
(* One of two example applications on a server: permissions, with the users,   *)
(* groups and permissions of its migration, or sqlite, whose user may get a    *)
(* new password.  A browser has two requests in flight.                        *)
EXTENDS PermissionsApp, FlashMessages, FiniteSets, TLC

CONSTANTS c1, r1, r2, k1, k2, k3, ferris, admin, users, superusers, w1, w2, m1, m2

OneClient == {c1}
TwoRequests == {r1, r2}
ThreeKeys == {k1, k2, k3}
TwoUsers == {ferris, admin}
TwoPasswords == {w1, w2}
TwoMessages == {m1, m2}
MCGroups == {users, superusers}
MCJoined == {<<ferris, users>>, <<admin, users>>, <<admin, superusers>>}
MCGranted == {<<users, "protected.read">>, <<superusers, "restricted.read">>}
MCSymmetry ==
  Permutations(Requests) \cup Permutations(Keys) \cup Permutations(Hashes)
    \cup Permutations(TwoMessages)

VARIABLE app   \* the application the server runs

permissionsVars ==
  <<users_groups, groups_permissions, changes, stage, page, visitor, inside, response, ever>>
messagesVars == <<step, incoming, outgoing, shown, sent, settled>>
examplesVars == <<app, sessionVars, passwords, checked, permissionsVars, messagesVars>>

ExamplesInit ==
  /\ app \in {"permissions", "sqlite"}
  /\ Init /\ ever = [r \in Requests |-> {}]
  /\ FlashInit

\* Two keys will do for permissions, and one of the users for sqlite.
TwoKeysInUse == Cardinality({k \in Keys : ~Fresh(k)}) <= 2

OnlyFerris ==
  /\ UNCHANGED passwords[admin]
  /\ \A r \in Requests : checked'[r] # None => checked'[r].id = ferris

NextPermissions ==
  app = "permissions" /\ AppNext /\ NoteHeld /\ TwoKeysInUse' /\ UNCHANGED <<app, messagesVars>>

NextSqlite == app = "sqlite" /\ FlashNext /\ OnlyFerris /\ UNCHANGED <<app, permissionsVars>>

ExamplesSpec == ExamplesInit /\ [][NextPermissions \/ NextSqlite]_examplesVars
=============================================================================
