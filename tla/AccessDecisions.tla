--------------------------- MODULE AccessDecisions ---------------------------
(***************************************************************************)
(* What an access decision is worth while permissions change: Require with *)
(* a record, for each request, of the permissions its user has had since   *)
(* it came.                                                                *)
(***************************************************************************)
EXTENDS Require

VARIABLES ever,         \* history: held at some moment
          ownAlways,    \* history: the user's own at every moment
          groupAlways,  \* history: those of its groups at every moment
          failed        \* history: the requests the backend has failed

historyVars == <<ever, ownAlways, groupAlways, failed>>

Held(of, u) == IF u \in Users THEN of[u] ELSE {}

NotedNext ==
  /\ \/ Succeed /\ UNCHANGED failed
     \/ \E r \in Requests : PermissionsFail(r) /\ failed' = failed \cup {r}
  /\ ever' = [r \in Requests |->
       IF stage[r] = "done" THEN ever[r]
       ELSE ever[r] \cup Held(own', session'[r]) \cup Held(group', session'[r])]
  /\ ownAlways' = [r \in Requests |->
       IF stage[r] = "done" THEN ownAlways[r]
       ELSE IF stage[r] = "new" THEN Held(own', session'[r])
       ELSE ownAlways[r] \cap Held(own', session'[r])]
  /\ groupAlways' = [r \in Requests |->
       IF stage[r] = "done" THEN groupAlways[r]
       ELSE IF stage[r] = "new" THEN Held(group', session'[r])
       ELSE groupAlways[r] \cap Held(group', session'[r])]

NotedInit ==
  /\ Init
  /\ ever = [r \in Requests |-> {}] /\ failed = {}
  /\ ownAlways = [r \in Requests |-> {}] /\ groupAlways = [r \in Requests |-> {}]

DecisionSpec == NotedInit /\ [][NotedNext]_<<vars, historyVars>>

Fairness == \A r \in Requests : WF_vars(Goes(r))

-----------------------------------------------------------------------------
(* Properties.                                                              *)

\* The permissions a request has had from one and the same source all along.
always(r) == ownAlways[r] \cup groupAlways[r]

\* Predicate p can match a user who has held the permissions in S all along
\* and those in E at some moment.
CanMatch(p, S, E) ==
  CASE p.mode = "Any"   -> p.required \cap E # {}
    [] p.mode = "All"   -> p.required \subseteq E
    [] p.mode = "Exact" -> p.required \subseteq E /\ S \subseteq p.required

\* No order of the two reads can make it fail to match.
MustMatch(p, S, E) ==
  CASE p.mode = "Any"   -> p.required \cap S # {}
    [] p.mode = "All"   -> p.required \subseteq S
    [] p.mode = "Exact" -> p.required \subseteq S /\ E \subseteq p.required

Entitled(r) ==
  \A i \in 1 .. layer[r] - 1 :
    route[i].decision.kind = "permissions" =>
      session[r] \in Users /\ CanMatch(route[i].decision, always(r), ever[r])

\* A request inside a permission layer is a user's, who has held what the layer
\* requires since the request came: each permission at some moment, not all of
\* them at the same; for an exact match, nothing else all along.
PassedAreEntitled == \A r \in Requests : Entitled(r)

Lacking(r) ==
  /\ Stopped(r) /\ r \notin failed
  /\ session[r] \in Users /\ predicate(r).kind = "permissions"
  => ~MustMatch(predicate(r), always(r), ever[r])

\* A user who is refused for want of permissions did not hold what the layer
\* requires from one and the same source all along, unless the backend failed.
RefusedLackPermissions == \A r \in Requests : Lacking(r)
=============================================================================
