---------------------------- MODULE PasswordUsers ----------------------------
(***************************************************************************)
(* The users of the sqlite and permissions examples, and what their login  *)
(* handlers keep of them: a row is read, and its password checked on a     *)
(* thread that blocks, while the table may change.                         *)
(***************************************************************************)
EXTENDS WebSession

VARIABLES passwords,   \* the users table
          checked      \* the row a password is being checked against, by request

UsersInit ==
  /\ passwords \in [Users -> Hashes]
  /\ checked = [r \in Requests |-> None]

\* A row has a password, which is what its sessions are bound to.
get_user == [u \in Users |-> [id |-> u, hash |-> passwords[u]]]

\* select * from users where username = ?, for the form of request r.
ReadRow(r, u) == checked' = [checked EXCEPT ![r] = get_user[u]]

UsersTypeOK ==
  /\ passwords \in [Users -> Hashes]
  /\ checked \in [Requests -> Opt(User)]
=============================================================================
