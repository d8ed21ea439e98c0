---------------------------- MODULE Authentication ----------------------------
(***************************************************************************)
(* Who is seen as whom: AuthService with a record of the authentications   *)
(* there have been.                                                        *)
(***************************************************************************)
EXTENDS AuthService

VARIABLE granted    \* history: each client with the user ids it authenticated as

NoteGrants ==
  granted' = granted \cup
    {<<client[r], found'[r].id>> : r \in {q \in Requests : found'[q] # None}}

AuthenticationSpec ==
  Init /\ granted = {} /\ [][Next /\ NoteGrants]_<<vars, granted>>

\* End to end, a handler sees a user only if the client of the request has
\* authenticated as that user, whatever sessions were renewed, lapsed, logged
\* out, written back late or lost by a restart in between.
OnlyAuthenticatedUsers ==
  \A r \in Requests :
    InFlight(r) /\ inner[r].user # None => <<client[r], inner[r].user.id>> \in granted

\* What request i of client c sees and may write back is within the grants G.
Vouched(i, c, G) ==
  /\ i.user # None => <<c, i.user.id>> \in G
  /\ i.data # None => <<c, i.data.user_id>> \in G
  /\ i.session.state.auth # None => <<c, i.session.state.auth.user_id>> \in G

\* Every copy of auth data there is, stored or in the hands of a request, goes
\* back to an authentication by the client whose session it is.
AuthDataIsGranted ==
  /\ \A k \in Keys : Store!Held(k) /\ entry[k].state.auth # None =>
       <<owner[k], entry[k].state.auth.user_id>> \in granted
  /\ \A r \in Requests :
       /\ stage[r] = "new" => inner[r] = NoInner /\ found[r] = None
       /\ Vouched(inner[r], client[r], granted)
       /\ found[r] # None => <<client[r], found[r].id>> \in granted
=============================================================================
