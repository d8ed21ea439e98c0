-------------------------- MODULE MCAccessDecisions --------------------------
(* AccessDecisions on a small instance: requests share nothing but the      *)
(* backend, so one of them is enough.                                       *)
EXTENDS AccessDecisions

CONSTANTS r1, u1, p1, p2

OneRequest == {r1}
OneUser == {u1}
TwoPermissions == {p1, p2}

Asking(mode, P) == with_mode(with_permissions(PermissionsPredicate, P), mode)

\* What applications build: permissions in each mode (in mode All as permission_required!
\* does), with a redirect and the permissions example's answer to users, closures over
\* the default handlers, and one with every decision to choose from.
Built ==
  {decision(builder, Asking(mode, P)) : mode \in PermissionMatch, P \in SUBSET Permissions}
    \cup {decision(unauthorized(unauthenticated(builder, RedirectHandler), text("403")),
                   Asking("All", {p1}))}
    \cup {decision(builder, Closure(D)) : D \in {{"Unauthorized"}, {"Allow", "Unauthenticated"}}}
    \cup {decision(unauthorized(builder, text("alternative")), Closure(Decision))}

SomeLayers == login_required \cup predicate_required \cup Built

\* The layers of a route that tell the permissions apart.
Telling(rt) ==
  {i \in DOMAIN rt : /\ rt[i].decision.kind = "permissions"
                     /\ rt[i].decision.required \in {{p1}, {p2}}}

\* The program does not know permissions by name: of two routes that are the same
\* but for the names, the one that begins with p1 is enough.
P1First(rt) ==
  \A i \in Telling(rt) :
    (\A j \in Telling(rt) : i <= j) => rt[i].decision.required = {p1}

MCRoutes == {rt \in UNION {[1 .. n -> SomeLayers] : n \in 0 .. 2} : P1First(rt)}

MCSpec == NotedInit /\ [][NotedNext]_<<vars, historyVars>> /\ Fairness
=============================================================================
