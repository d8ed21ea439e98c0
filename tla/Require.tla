------------------------------- MODULE Require -------------------------------
(***************************************************************************)
(* The Require middleware (src/actix-login/src/require.rs and require/):   *)
(* requests on their way through the layers of a route, each of which      *)
(* decides on access and answers for the handler where it denies it.  A    *)
(* decision on permissions awaits the backend twice, for the user's own    *)
(* permissions and for those of its groups, and both may change at any     *)
(* time.                                                                   *)
(***************************************************************************)
EXTENDS Sequences, Integers

CONSTANTS Users, Permissions, Requests, None,
          Missing,    \* no AuthSession in the request's extensions
          Routes      \* the layers an application may have around a handler, outermost first

VARIABLES route,      \* the layers around the handler
          own, group, \* backend: the permissions of each user and of its groups
          stage,      \* how far each request has got
          session,    \* its AuthSession: Missing, or the user or None
          layer,      \* the layer it is in; one more than there are in the handler
          seen,       \* the permissions read so far
          response    \* what it was answered

backendVars == <<own, group>>
requestVars == <<stage, session, layer, seen, response>>
vars == <<route, backendVars, requestVars>>

-----------------------------------------------------------------------------
(* Predicates.                                                              *)

Decision == {"Allow", "Unauthenticated", "Unauthorized"}

PermissionMatch == {"Any", "All", "Exact"}

DefaultAccess == [kind |-> "default"]

\* A function of the application, with the decisions it may come to.
Closure(answers) == [kind |-> "closure", answers |-> answers]

PermissionsPredicate == [kind |-> "permissions", required |-> {}, mode |-> "All"]

with_mode(predicate, mode) == [predicate EXCEPT !.mode = mode]

\* The permissions replace those there were.
with_permissions(predicate, permissions) ==
  [predicate EXCEPT !.required = permissions]

\* Mutant: one permission is as good as all of them.
MatchesLoosely(predicate, permissions) ==
  CASE predicate.mode = "Any"   -> predicate.required \cap permissions # {}
    [] predicate.mode = "All"   -> predicate.required = {}
                                   \/ predicate.required \cap permissions # {}
    [] predicate.mode = "Exact" -> permissions = predicate.required

Matches(predicate, permissions) ==
  CASE predicate.mode = "Any"   -> predicate.required \cap permissions # {}
    [] predicate.mode = "All"   -> predicate.required \subseteq permissions
    [] predicate.mode = "Exact" -> permissions = predicate.required

-----------------------------------------------------------------------------
(* Handlers of denials, by the answers they may give.                       *)

\* A redirect fails where there is no URL to send the browser to.
DefaultUnauthenticated == {"401"}
DefaultUnauthorized == {"403"}
RedirectHandler == {"307", "500"}
InternalErrorFallback == {"500"}

\* SimpleResponseHandler, and an application's own with one answer.
text(status) == {status}

\* "alternative" stands for whatever else an application's handler may answer.
Replies == {"401", "403", "307", "500", "alternative"}

Handlers == (SUBSET Replies) \ {{}}

-----------------------------------------------------------------------------
(* Layers.                                                                  *)

Predicates ==
  {DefaultAccess} \cup {Closure(D) : D \in (SUBSET Decision) \ {{}}}
    \cup [kind : {"permissions"}, required : SUBSET Permissions, mode : PermissionMatch]

\* RequireBuilder takes any predicate and any two handlers.
Layers ==
  [decision : Predicates, unauthorized : Handlers, unauthenticated : Handlers]

builder == [decision |-> DefaultAccess,
            unauthorized |-> DefaultUnauthorized,
            unauthenticated |-> DefaultUnauthenticated]

decision(b, predicate) == [b EXCEPT !.decision = predicate]
unauthorized(b, handler) == [b EXCEPT !.unauthorized = handler]
unauthenticated(b, handler) == [b EXCEPT !.unauthenticated = handler]

\* What the route macros expand to.
login_required == {builder, unauthenticated(builder, RedirectHandler)}

permission_required ==
  {decision(b, with_permissions(PermissionsPredicate, P)) :
     b \in login_required, P \in (SUBSET Permissions) \ {{}}}

predicate_required ==
  {decision(unauthenticated(unauthorized(builder, text("alternative")), text("alternative")),
            Closure({"Allow", "Unauthorized"})),
   decision(unauthenticated(unauthorized(builder, RedirectHandler), RedirectHandler),
            Closure({"Allow", "Unauthenticated"}))}

ASSUME RequireAssumption ==
  /\ Routes \subseteq Seq(Layers)
  /\ None # Missing /\ None \notin Users /\ Missing \notin Users
  /\ None \notin Replies \cup {"handled", "error"}

-----------------------------------------------------------------------------
Init ==
  /\ route \in Routes
  /\ own \in [Users -> SUBSET Permissions]
  /\ group \in [Users -> SUBSET Permissions]
  /\ stage = [r \in Requests |-> "new"]
  /\ session = [r \in Requests |-> None]
  /\ layer = [r \in Requests |-> 1]
  /\ seen = [r \in Requests |-> {}]
  /\ response = [r \in Requests |-> None]

predicate(r) == route[layer[r]].decision

\* Mutant: the innermost layer is taken for the handler.
CallsEarly(i) == IF i < Len(route) THEN "decide" ELSE "handler"

\* Where a request is that has been passed on to the i-th service of the route.
Calls(i) == IF i <= Len(route) THEN "decide" ELSE "handler"

\* A request comes out of AuthManager, or around it.
Arrive(r, s) ==
  /\ stage[r] = "new"
  /\ stage' = [stage EXCEPT ![r] = Calls(1)]
  /\ session' = [session EXCEPT ![r] = s]
  /\ UNCHANGED <<route, backendVars, layer, seen, response>>

denied(r, handler) ==
  /\ response' \in {[response EXCEPT ![r] = a] : a \in handler}
  /\ stage' = [stage EXCEPT ![r] = "done"]
  /\ UNCHANGED layer

\* RequireService::call once its predicate has decided; the service inside may
\* be another layer.
Conclude(r, d) ==
  /\ \/ /\ d = "Allow"
        /\ layer' = [layer EXCEPT ![r] = @ + 1]
        /\ stage' = [stage EXCEPT ![r] = Calls(layer[r] + 1)]
        /\ UNCHANGED response
     \/ d = "Unauthorized" /\ denied(r, route[layer[r]].unauthorized)
     \/ d = "Unauthenticated" /\ denied(r, route[layer[r]].unauthenticated)
  /\ seen' = [seen EXCEPT ![r] = {}]
  /\ UNCHANGED <<route, backendVars, session>>

WithoutSession(r) ==
  /\ stage[r] = "decide" /\ session[r] = Missing
  /\ denied(r, InternalErrorFallback)
  /\ UNCHANGED <<route, backendVars, session, seen>>

\* Mutant: a request without user is not provided for.
DecideDefaultForUsers(r) ==
  /\ stage[r] = "decide" /\ session[r] \in Users
  /\ predicate(r).kind = "default"
  /\ Conclude(r, "Allow")

DecideDefault(r) ==
  /\ stage[r] = "decide" /\ session[r] # Missing
  /\ predicate(r).kind = "default"
  /\ Conclude(r, IF session[r] = None THEN "Unauthenticated" ELSE "Allow")

DecideClosure(r) ==
  /\ stage[r] = "decide" /\ session[r] # Missing
  /\ predicate(r).kind = "closure"
  /\ \E d \in predicate(r).answers : Conclude(r, d)

\* Mutant: a missing user counts as missing permissions.
DecideAnonymousForbidden(r) ==
  /\ stage[r] = "decide" /\ session[r] = None
  /\ predicate(r).kind = "permissions"
  /\ Conclude(r, "Unauthorized")

\* PermissionsPredicate asks for a user first.
DecideAnonymous(r) ==
  /\ stage[r] = "decide" /\ session[r] = None
  /\ predicate(r).kind = "permissions"
  /\ Conclude(r, "Unauthenticated")

get_user_permissions(r) ==
  /\ stage[r] = "decide" /\ session[r] \in Users
  /\ predicate(r).kind = "permissions"
  /\ seen' = [seen EXCEPT ![r] = own[session[r]]]
  /\ stage' = [stage EXCEPT ![r] = "groups"]
  /\ UNCHANGED <<route, backendVars, session, layer, response>>

\* Mutant: the permissions of the groups replace the user's own.
AllPermissionsOfGroups(r) == group[session[r]]

\* What get_all_permissions has collected when its second read returns.
AllPermissions(r) == seen[r] \cup group[session[r]]

get_group_permissions(r) ==
  /\ stage[r] = "groups"
  /\ Conclude(r, IF Matches(predicate(r), AllPermissions(r)) THEN "Allow"
                                                             ELSE "Unauthorized")

\* Either read may fail, which counts as not being authorized.
PermissionsFail(r) ==
  /\ \/ stage[r] = "decide" /\ session[r] \in Users /\ predicate(r).kind = "permissions"
     \/ stage[r] = "groups"
  /\ Conclude(r, "Unauthorized")

\* The handler answers.
Handle(r) ==
  /\ stage[r] = "handler"
  /\ response' = [response EXCEPT ![r] = "handled"]
  /\ stage' = [stage EXCEPT ![r] = "done"]
  /\ UNCHANGED <<route, backendVars, session, layer, seen>>

\* The service inside the layers fails, and its error goes out through them as it is.
inner_fails(r) ==
  /\ stage[r] = "handler"
  /\ response' = [response EXCEPT ![r] = "error"]
  /\ stage' = [stage EXCEPT ![r] = "done"]
  /\ UNCHANGED <<route, backendVars, session, layer, seen>>

\* It asks for an AuthSession that is not there: the extractor answers.
from_request_fails(r) ==
  /\ stage[r] = "handler" /\ session[r] = Missing
  /\ response' = [response EXCEPT ![r] = "500"]
  /\ stage' = [stage EXCEPT ![r] = "done"]
  /\ UNCHANGED <<route, backendVars, session, layer, seen>>

\* The connection is lost, and the future of the request dropped.
Dropped(r) ==
  /\ stage[r] \in {"decide", "groups", "handler"}
  /\ stage' = [stage EXCEPT ![r] = "done"]
  /\ UNCHANGED <<route, backendVars, session, layer, seen, response>>

\* Permissions are assigned, revoked, moved between a user and its groups; those
\* of a group change for all of its members at once.
ChangePermissions ==
  /\ own' \in [Users -> SUBSET Permissions]
  /\ group' \in [Users -> SUBSET Permissions]
  /\ UNCHANGED <<route, requestVars>>

Decide(r) ==
  \/ WithoutSession(r) \/ DecideDefault(r) \/ DecideClosure(r) \/ DecideAnonymous(r)
  \/ get_user_permissions(r) \/ get_group_permissions(r)

\* A step in which no backend fails.
Succeed ==
  \/ \E r \in Requests : \E s \in Users \cup {None, Missing} : Arrive(r, s)
  \/ \E r \in Requests :
       Decide(r) \/ Handle(r) \/ inner_fails(r) \/ from_request_fails(r) \/ Dropped(r)
  \/ ChangePermissions

Next == Succeed \/ \E r \in Requests : PermissionsFail(r)

Spec == Init /\ [][Next]_vars

\* The executor polls a request whose await is ready, the backend answers, and
\* the handler returns.
Goes(r) ==
  Decide(r) \/ PermissionsFail(r) \/ Handle(r) \/ inner_fails(r) \/ from_request_fails(r)

FairSpec == Spec /\ \A r \in Requests : WF_vars(Goes(r))

-----------------------------------------------------------------------------
(* Properties.                                                              *)

\* Requests, routes and permissions keep to their types, and a handler is called
\* once every layer of its route has let the request pass.
TypeOK ==
  /\ route \in Routes
  /\ own \in [Users -> SUBSET Permissions]
  /\ group \in [Users -> SUBSET Permissions]
  /\ stage \in [Requests -> {"new", "decide", "groups", "handler", "done"}]
  /\ session \in [Requests -> Users \cup {None, Missing}]
  /\ layer \in [Requests -> 1 .. Len(route) + 1]
  /\ seen \in [Requests -> SUBSET Permissions]
  /\ response \in [Requests -> Replies \cup {None, "handled", "error"}]
  /\ \A r \in Requests :
       /\ stage[r] \in {"decide", "groups"} => layer[r] <= Len(route)
       /\ stage[r] = "handler" => layer[r] = Len(route) + 1

\* A layer has answered for the handler.
Stopped(r) == stage[r] = "done" /\ response[r] # None /\ layer[r] <= Len(route)

\* The reasons that layer l may have to deny a request with session s.
Reasons(l, s) ==
  IF l.decision.kind = "closure" THEN l.decision.answers \ {"Allow"}
  ELSE IF s = None THEN {"Unauthenticated"}
  ELSE IF l.decision.kind = "permissions" THEN {"Unauthorized"} ELSE {}

\* What l has to say to a request with session s.
Due(l, s) ==
  IF s = Missing THEN InternalErrorFallback
  ELSE UNION {IF d = "Unauthenticated" THEN l.unauthenticated ELSE l.unauthorized :
                d \in Reasons(l, s)}

\* Whichever of several layers stops a request, whatever those before it have let
\* pass and whichever reads have failed, it is answered by the handler for the
\* reason: without a user by the layer's handler for that, a user by the other one,
\* and only where permissions are asked for.  A closure may give either reason to
\* anybody.  With the default handlers, "permission_required now returns 401
\* Unauthorized when unauthenticated and 403 Forbidden only when authenticated but
\* missing permissions" (CHANGELOG.md:28).
StatusTellsWhy ==
  \A r \in Requests : Stopped(r) => response[r] \in Due(route[layer[r]], session[r])

\* Every request that reaches a route is answered or dropped, without an
\* AuthSession and with failing backends too.
RequestsAreAnswered == \A r \in Requests : stage[r] # "new" ~> stage[r] = "done"
=============================================================================
