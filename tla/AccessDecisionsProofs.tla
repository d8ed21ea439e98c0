------------------------ MODULE AccessDecisionsProofs ------------------------
(***************************************************************************)
(* Proofs about Require and AccessDecisions, for any users, permissions,   *)
(* requests and layers.                                                    *)
(***************************************************************************)
EXTENDS AccessDecisions, TLAPS

-----------------------------------------------------------------------------
(* The layers the builder makes; those of the macros are among them.        *)

\* What is known of a layer: how it decides, and what its handlers answer.
LayerOK(d) ==
  /\ d.decision.kind \in {"default", "closure", "permissions"}
  /\ d.decision.kind = "permissions" => d.decision.mode \in PermissionMatch
  /\ d.decision.kind = "closure" => d.decision.answers \subseteq Decision
  /\ d.unauthorized \subseteq Replies /\ d.unauthenticated \subseteq Replies

LEMMA LayersOK == \A d \in Layers : LayerOK(d)
<1> SUFFICES ASSUME NEW d \in Layers
             PROVE  LayerOK(d)
  OBVIOUS
<1>1. /\ d.decision \in Predicates
      /\ d.unauthorized \subseteq Replies /\ d.unauthenticated \subseteq Replies
  BY DEF Layers, Handlers
<1>2. /\ d.decision.kind \in {"default", "closure", "permissions"}
      /\ d.decision.kind = "permissions" => d.decision.mode \in PermissionMatch
      /\ d.decision.kind = "closure" => d.decision.answers \subseteq Decision
  <2>1. CASE d.decision = DefaultAccess
    BY <2>1 DEF DefaultAccess
  <2>2. CASE \E D \in (SUBSET Decision) \ {{}} : d.decision = Closure(D)
    BY <2>2 DEF Closure
  <2>3. CASE d.decision \in [kind : {"permissions"}, required : SUBSET Permissions,
                             mode : PermissionMatch]
    BY <2>3
  <2> QED
    BY <1>1, <2>1, <2>2, <2>3 DEF Predicates
<1> QED
  BY <1>1, <1>2 DEF LayerOK

LEMMA HandlersTaken ==
  /\ DefaultUnauthenticated \in Handlers /\ DefaultUnauthorized \in Handlers
  /\ RedirectHandler \in Handlers /\ text("alternative") \in Handlers
<1>1. \A a, b \in Replies : {a, b} \in Handlers
  BY DEF Handlers
<1>2. {"401", "403", "307", "500", "alternative"} \subseteq Replies
  BY DEF Replies
<1>3. \A a : {a} = {a, a}
  OBVIOUS
<1> QED
  BY <1>1, <1>2, <1>3 DEF DefaultUnauthenticated, DefaultUnauthorized, RedirectHandler, text

\* The builder's setters stay within its layers.
LEMMA BuilderMakes ==
  /\ builder \in Layers
  /\ \A b \in Layers, h \in Handlers :
       unauthenticated(b, h) \in Layers /\ unauthorized(b, h) \in Layers
  /\ \A b \in Layers, p \in Predicates : decision(b, p) \in Layers
<1>1. DefaultAccess \in Predicates
  BY DEF Predicates
<1> QED
  BY <1>1, HandlersTaken DEF Layers, builder, unauthenticated, unauthorized, decision

\* login_required!, permission_required! and predicate_required! (middleware.rs) make
\* layers of the builder.
THEOREM MacrosMakeLayers ==
  login_required \cup permission_required \cup predicate_required \subseteq Layers
<1>1. login_required \subseteq Layers
  BY BuilderMakes, HandlersTaken DEF login_required
<1>2. permission_required \subseteq Layers
  <2> SUFFICES ASSUME NEW b \in login_required, NEW P \in SUBSET Permissions
               PROVE  decision(b, with_permissions(PermissionsPredicate, P)) \in Layers
    BY DEF permission_required
  <2>1. with_permissions(PermissionsPredicate, P)
          = [kind |-> "permissions", required |-> P, mode |-> "All"]
    BY DEF with_permissions, PermissionsPredicate
  <2>2. with_permissions(PermissionsPredicate, P) \in Predicates
    BY <2>1 DEF Predicates, PermissionMatch
  <2> QED
    BY <1>1, <2>2, BuilderMakes
<1>3. predicate_required \subseteq Layers
  <2>1. /\ Closure({"Allow", "Unauthorized"}) \in Predicates
        /\ Closure({"Allow", "Unauthenticated"}) \in Predicates
    <3>1. \A d, e \in Decision : {d, e} \in (SUBSET Decision) \ {{}}
      OBVIOUS
    <3>2. {"Allow", "Unauthorized", "Unauthenticated"} \subseteq Decision
      BY DEF Decision
    <3> QED
      BY <3>1, <3>2 DEF Predicates
  <2> QED
    BY <2>1, BuilderMakes, HandlersTaken DEF predicate_required
<1> QED
  BY <1>1, <1>2, <1>3

-----------------------------------------------------------------------------
(* Require: one step keeps the requests in order.                           *)

\* A request between its two reads is a user's, in a permission layer, and
\* none is answered before it is done.
RequireInv ==
  /\ TypeOK
  /\ StatusTellsWhy
  /\ \A r \in Requests :
       /\ stage[r] = "new" => layer[r] = 1
       /\ stage[r] = "groups" => session[r] \in Users /\ predicate(r).kind = "permissions"
       /\ stage[r] # "done" => response[r] = None

LEMMA RouteOfLayers ==
  ASSUME TypeOK
  PROVE  Len(route) \in Nat /\ \A i \in 1 .. Len(route) : LayerOK(route[i])
BY LayersOK, RequireAssumption DEF TypeOK

LEMMA RequireInit ==
  ASSUME Init
  PROVE  RequireInv
<1>1. Len(route) \in Nat
  BY RequireAssumption DEF Init
<1>2. TypeOK
  BY <1>1, RequireAssumption DEF Init, TypeOK
<1> QED
  BY <1>2, RequireAssumption DEF RequireInv, StatusTellsWhy, Stopped, Init

\* What a layer answers for the reason it has is due, in whichever layer.
LEMMA Denied ==
  ASSUME RequireInv, NEW r \in Requests, NEW handler \in SUBSET Replies, denied(r, handler),
         stage[r] # "new",
         handler \subseteq Due(route[layer[r]], session[r]),
         seen' \in [Requests -> SUBSET Permissions],
         UNCHANGED <<route, backendVars, session>>
  PROVE  RequireInv'
<1>1. PICK a \in handler : response' = [response EXCEPT ![r] = a]
  BY DEF denied
<1>2. stage' = [stage EXCEPT ![r] = "done"] /\ layer' = layer
  BY DEF denied
<1>3. TypeOK'
  BY <1>1, <1>2 DEF RequireInv, TypeOK, backendVars
<1>4. StatusTellsWhy'
  <2> SUFFICES ASSUME NEW q \in Requests, Stopped(q)'
               PROVE  response'[q] \in Due(route[layer[q]], session[q])
    BY <1>2 DEF StatusTellsWhy
  <2>1. CASE q = r
    BY <1>1, <2>1 DEF RequireInv, TypeOK
  <2>2. CASE q # r
    BY <1>1, <1>2, <2>2 DEF RequireInv, TypeOK, StatusTellsWhy, Stopped
  <2> QED
    BY <2>1, <2>2
<1> QED
  BY <1>1, <1>2, <1>3, <1>4 DEF RequireInv, TypeOK, predicate

\* A decision of a layer in its turn: it lets the request pass, or has a reason.
LEMMA Concluded ==
  ASSUME RequireInv, NEW r \in Requests, NEW d, Conclude(r, d),
         stage[r] \in {"decide", "groups"},
         session[r] # Missing,
         d # "Allow" => d \in Reasons(route[layer[r]], session[r])
  PROVE  RequireInv'
<1>1. TypeOK /\ layer[r] \in 1 .. Len(route) /\ LayerOK(route[layer[r]])
  <2>1. TypeOK /\ layer[r] \in 1 .. Len(route)
    BY RouteOfLayers DEF RequireInv, TypeOK
  <2> QED
    BY <2>1, RouteOfLayers
<1>2. seen' \in [Requests -> SUBSET Permissions] /\ UNCHANGED <<route, backendVars, session>>
  BY <1>1 DEF Conclude, TypeOK
<1>3. CASE d = "Allow" /\ layer' = [layer EXCEPT ![r] = @ + 1]
           /\ stage' = [stage EXCEPT ![r] = Calls(layer[r] + 1)] /\ UNCHANGED response
  <2>1. Len(route) \in Nat
    BY <1>1, RouteOfLayers
  <2>2. layer[r] + 1 \in 1 .. Len(route) + 1
    BY <1>1, <2>1
  <2>3. /\ Calls(layer[r] + 1) \in {"decide", "handler"}
        /\ Calls(layer[r] + 1) = "decide" => layer[r] + 1 <= Len(route)
        /\ Calls(layer[r] + 1) = "handler" => layer[r] + 1 = Len(route) + 1
    BY <1>1, <2>1 DEF Calls
  <2>4. TypeOK'
    BY <1>1, <1>2, <1>3, <2>2, <2>3 DEF TypeOK, backendVars
  <2>5. StatusTellsWhy'
    <3> SUFFICES ASSUME NEW q \in Requests, Stopped(q)'
                 PROVE  response[q] \in Due(route[layer'[q]], session[q])
      BY <1>2, <1>3 DEF StatusTellsWhy
    <3>1. q # r
      BY <1>1, <1>3, <2>3 DEF Stopped, TypeOK
    <3> QED
      BY <1>1, <1>2, <1>3, <3>1 DEF RequireInv, TypeOK, StatusTellsWhy, Stopped
  <2> QED
    BY <1>1, <1>2, <1>3, <2>3, <2>4, <2>5 DEF RequireInv, TypeOK, predicate
<1>4. CASE d = "Unauthorized" /\ denied(r, route[layer[r]].unauthorized)
  <2>1. route[layer[r]].unauthorized \subseteq Due(route[layer[r]], session[r])
    BY <1>4 DEF Due
  <2> QED
    BY <1>1, <1>2, <1>4, <2>1, Denied DEF LayerOK
<1>5. CASE d = "Unauthenticated" /\ denied(r, route[layer[r]].unauthenticated)
  <2>1. route[layer[r]].unauthenticated \subseteq Due(route[layer[r]], session[r])
    BY <1>5 DEF Due
  <2> QED
    BY <1>1, <1>2, <1>5, <2>1, Denied DEF LayerOK
<1> QED
  BY <1>3, <1>4, <1>5 DEF Conclude

\* A step that moves no request into another layer or to an answer by a layer.
LEMMA StatusStays ==
  ASSUME RequireInv, UNCHANGED <<route, layer>>,
         \A q \in Requests : Stopped(q)' =>
           Stopped(q) /\ response'[q] = response[q] /\ session'[q] = session[q]
  PROVE  StatusTellsWhy'
<1> SUFFICES ASSUME NEW q \in Requests, Stopped(q)'
             PROVE  response'[q] \in Due(route[layer[q]], session'[q])
  BY DEF StatusTellsWhy
<1> QED
  BY DEF RequireInv, StatusTellsWhy

LEMMA RequireStep ==
  ASSUME RequireInv, [Next]_vars
  PROVE  RequireInv'
<1>1. TypeOK
  BY DEF RequireInv
<1>2. ASSUME NEW r \in Requests, NEW s \in Users \cup {None, Missing}, Arrive(r, s)
      PROVE  RequireInv'
  <2>1. layer[r] = 1 /\ response[r] = None /\ Len(route) \in Nat
    BY <1>1, <1>2, RouteOfLayers DEF RequireInv, Arrive
  <2>2. /\ Calls(1) \in {"decide", "handler"}
        /\ Calls(1) = "decide" => 1 <= Len(route)
        /\ Calls(1) = "handler" => 1 = Len(route) + 1
    BY <2>1 DEF Calls
  <2>3. TypeOK'
    BY <1>1, <1>2, <2>1, <2>2 DEF Arrive, TypeOK, backendVars
  <2>4. StatusTellsWhy'
    BY <1>1, <1>2, <2>2, StatusStays DEF Arrive, Stopped, TypeOK
  <2> QED
    BY <1>1, <1>2, <2>1, <2>2, <2>3, <2>4 DEF RequireInv, Arrive, TypeOK, predicate
<1>3. ASSUME NEW r \in Requests, WithoutSession(r)
      PROVE  RequireInv'
  <2>1. /\ denied(r, InternalErrorFallback) /\ stage[r] # "new"
        /\ seen' \in [Requests -> SUBSET Permissions]
        /\ UNCHANGED <<route, backendVars, session>>
    BY <1>1, <1>3 DEF WithoutSession, TypeOK
  <2>2. InternalErrorFallback \in SUBSET Replies
    BY DEF InternalErrorFallback, Replies
  <2>3. InternalErrorFallback \subseteq Due(route[layer[r]], session[r])
    BY <1>3 DEF WithoutSession, Due
  <2> QED
    BY <2>1, <2>2, <2>3, Denied
<1>4. ASSUME NEW r \in Requests, DecideDefault(r)
      PROVE  RequireInv'
  BY <1>4, Concluded DEF DecideDefault, Reasons, predicate
<1>5. ASSUME NEW r \in Requests, DecideClosure(r)
      PROVE  RequireInv'
  BY <1>5, Concluded DEF DecideClosure, Reasons, predicate
<1>6. ASSUME NEW r \in Requests, DecideAnonymous(r)
      PROVE  RequireInv'
  BY <1>6, Concluded, RequireAssumption DEF DecideAnonymous, Reasons, predicate
<1>7. ASSUME NEW r \in Requests, get_user_permissions(r)
      PROVE  RequireInv'
  <2>1. TypeOK'
    BY <1>1, <1>7 DEF get_user_permissions, TypeOK, backendVars
  <2>2. StatusTellsWhy'
    BY <1>1, <1>7, StatusStays DEF get_user_permissions, Stopped, TypeOK
  <2> QED
    BY <1>1, <1>7, <2>1, <2>2 DEF RequireInv, get_user_permissions, TypeOK, predicate
<1>8. ASSUME NEW r \in Requests, get_group_permissions(r)
      PROVE  RequireInv'
  <2>1. session[r] \in Users /\ stage[r] = "groups" /\ predicate(r).kind = "permissions"
    BY <1>8 DEF RequireInv, get_group_permissions
  <2> QED
    BY <1>8, <2>1, Concluded, RequireAssumption DEF get_group_permissions, Reasons, predicate
<1>9. ASSUME NEW r \in Requests, PermissionsFail(r)
      PROVE  RequireInv'
  <2>1. /\ session[r] \in Users /\ stage[r] \in {"decide", "groups"}
        /\ predicate(r).kind = "permissions"
    BY <1>9 DEF RequireInv, PermissionsFail
  <2> QED
    BY <1>9, <2>1, Concluded, RequireAssumption DEF PermissionsFail, Reasons, predicate
<1>10. ASSUME NEW r \in Requests, Handle(r) \/ inner_fails(r) \/ from_request_fails(r)
       PROVE  RequireInv'
  <2>1. /\ stage[r] = "handler" /\ stage' = [stage EXCEPT ![r] = "done"]
        /\ UNCHANGED <<route, backendVars, session, layer, seen>>
        /\ \E a \in {"handled", "error", "500"} : response' = [response EXCEPT ![r] = a]
    BY <1>10 DEF Handle, inner_fails, from_request_fails
  <2>2. TypeOK'
    BY <1>1, <2>1 DEF TypeOK, backendVars, Replies
  <2>3. StatusTellsWhy'
    <3>1. ~(layer[r] <= Len(route))
      BY <1>1, <2>1, RouteOfLayers DEF TypeOK
    <3> QED
      BY <1>1, <2>1, <3>1, StatusStays DEF Stopped, TypeOK
  <2> QED
    BY <1>1, <2>1, <2>2, <2>3 DEF RequireInv, TypeOK, predicate
<1>11. ASSUME NEW r \in Requests, Dropped(r)
       PROVE  RequireInv'
  <2>1. TypeOK'
    BY <1>1, <1>11 DEF Dropped, TypeOK, backendVars
  <2>2. StatusTellsWhy'
    BY <1>1, <1>11, StatusStays DEF RequireInv, Dropped, Stopped, TypeOK
  <2> QED
    BY <1>1, <1>11, <2>1, <2>2 DEF RequireInv, Dropped, TypeOK, predicate
<1>12. CASE ChangePermissions
  <2>1. TypeOK'
    BY <1>1, <1>12 DEF ChangePermissions, TypeOK, requestVars
  <2>2. StatusTellsWhy'
    BY <1>12, StatusStays DEF ChangePermissions, Stopped, requestVars
  <2> QED
    BY <1>12, <2>1, <2>2 DEF RequireInv, ChangePermissions, predicate, requestVars
<1>13. CASE UNCHANGED vars
  <2>1. TypeOK'
    BY <1>1, <1>13 DEF TypeOK, vars, backendVars, requestVars
  <2>2. StatusTellsWhy'
    BY <1>13, StatusStays DEF Stopped, vars, requestVars
  <2> QED
    BY <1>13, <2>1, <2>2 DEF RequireInv, predicate, vars, backendVars, requestVars
<1> QED
  BY <1>2, <1>3, <1>4, <1>5, <1>6, <1>7, <1>8, <1>9, <1>10, <1>11, <1>12, <1>13
     DEF Next, Succeed, Decide

\* Types, routes and the progress of requests along them, for any routes of layers
\* that the builder makes.
THEOREM TypeCorrect == Spec => []TypeOK
<1>1. RequireInv => TypeOK
  BY DEF RequireInv
<1> QED
  BY <1>1, RequireInit, RequireStep, PTL DEF Spec

\* For any routes of any layers that RequireBuilder makes, with closures over whatever
\* handlers among them: a layer that stops a request answers by the handler for a reason
\* it has with this session (RequireService::call), wherever the backend fails.
THEOREM StatusIsRight == Spec => []StatusTellsWhy
<1>1. RequireInv => StatusTellsWhy
  BY DEF RequireInv
<1> QED
  BY <1>1, RequireInit, RequireStep, PTL DEF Spec
-----------------------------------------------------------------------------
(* AccessDecisions: what a step is for one request.                         *)

\* It comes, reads its own permissions, is handled or dropped, or has no part
\* in the step.
Moves(r) ==
  /\ layer'[r] = layer[r]
  /\ stage[r] # "new" => session'[r] = session[r]
  /\ stage'[r] = "groups" =>
       \/ stage[r] = "groups" /\ seen'[r] = seen[r]
       \/ session'[r] \in Users /\ seen'[r] = own'[session'[r]]
  /\ stage[r] = "done" => stage'[r] = "done" /\ response'[r] = response[r]
  /\ stage[r] # "done" /\ stage'[r] = "done" =>
       response'[r] = None \/ ~(layer[r] <= Len(route)) \/ session'[r] = Missing

\* What both outcomes of a layer's decision have in common.
Decided(r) ==
  /\ stage[r] \in {"decide", "groups"} /\ stage'[r] # "groups"
  /\ session'[r] = session[r] /\ UNCHANGED backendVars

\* A layer passes it on; one on permissions has compared them.
Passes(r) ==
  /\ Decided(r) /\ stage'[r] # "done"
  /\ layer'[r] = layer[r] + 1
  /\ predicate(r).kind = "permissions" =>
       stage[r] = "groups" /\ Matches(predicate(r), AllPermissions(r))

\* A layer denies it; one on permissions has compared a user's.
Refused(r) ==
  /\ Decided(r) /\ stage'[r] = "done"
  /\ layer'[r] = layer[r]
  /\ predicate(r).kind = "permissions" /\ session[r] \in Users =>
       stage[r] = "groups" /\ ~Matches(predicate(r), AllPermissions(r))

Shape(r) == Moves(r) \/ Passes(r) \/ Refused(r)

\* A step of another request is none of r.
LEMMA OthersRest ==
  ASSUME RequireInv, NEW q \in Requests, NEW d, Conclude(q, d), NEW r \in Requests, r # q
  PROVE  Moves(r) /\ route' = route
BY DEF Conclude, denied, Moves, RequireInv, TypeOK

LEMMA ConcludedIsDecided ==
  ASSUME RequireInv, NEW r \in Requests, NEW d, Conclude(r, d),
         stage[r] \in {"decide", "groups"}
  PROVE  /\ route' = route
         /\ Decided(r)
         /\ \/ d = "Allow" /\ stage'[r] # "done" /\ layer'[r] = layer[r] + 1
            \/ d # "Allow" /\ stage'[r] = "done" /\ layer'[r] = layer[r]
<1>1. Calls(layer[r] + 1) \in {"decide", "handler"}
  BY DEF Calls
<1> QED
  BY <1>1 DEF Conclude, denied, Decided, RequireInv, TypeOK

LEMMA SuccessShape ==
  ASSUME RequireInv, Succeed, NEW r \in Requests
  PROVE  Shape(r) /\ route' = route
<1>1. TypeOK
  BY DEF RequireInv
<1>2. ASSUME NEW q \in Requests, NEW s \in Users \cup {None, Missing}, Arrive(q, s)
      PROVE  Moves(r) /\ route' = route
  <2>1. Calls(1) \in {"decide", "handler"}
    BY DEF Calls
  <2> QED
    BY <1>1, <1>2, <2>1 DEF Arrive, Moves, TypeOK
<1>3. ASSUME NEW q \in Requests, WithoutSession(q)
      PROVE  (Moves(r) \/ Refused(r)) /\ route' = route
  BY <1>1, <1>3, RequireAssumption
     DEF WithoutSession, denied, Moves, Refused, Decided, TypeOK, backendVars
<1>4. ASSUME NEW q \in Requests, DecideDefault(q)
      PROVE  Shape(r) /\ route' = route
  <2>1. CASE q = r
    BY <1>4, <2>1, ConcludedIsDecided DEF DecideDefault, Shape, Passes, Refused
  <2> QED
    BY <1>4, <2>1, OthersRest DEF DecideDefault, Shape
<1>5. ASSUME NEW q \in Requests, DecideClosure(q)
      PROVE  Shape(r) /\ route' = route
  <2>1. CASE q = r
    BY <1>5, <2>1, ConcludedIsDecided DEF DecideClosure, Shape, Passes, Refused
  <2> QED
    BY <1>5, <2>1, OthersRest DEF DecideClosure, Shape
<1>6. ASSUME NEW q \in Requests, DecideAnonymous(q)
      PROVE  Shape(r) /\ route' = route
  <2>1. CASE q = r
    BY <1>6, <2>1, ConcludedIsDecided, RequireAssumption
       DEF DecideAnonymous, Shape, Passes, Refused
  <2> QED
    BY <1>6, <2>1, OthersRest DEF DecideAnonymous, Shape
<1>7. ASSUME NEW q \in Requests, get_user_permissions(q)
      PROVE  Moves(r) /\ route' = route
  BY <1>1, <1>7 DEF get_user_permissions, Moves, TypeOK, backendVars
<1>8. ASSUME NEW q \in Requests, get_group_permissions(q)
      PROVE  Shape(r) /\ route' = route
  <2>1. CASE q = r
    BY <1>8, <2>1, ConcludedIsDecided DEF get_group_permissions, Shape, Passes, Refused
  <2> QED
    BY <1>8, <2>1, OthersRest DEF get_group_permissions, Shape
<1>9. ASSUME NEW q \in Requests, Handle(q) \/ inner_fails(q) \/ from_request_fails(q)
      PROVE  Moves(r) /\ route' = route
  BY <1>1, <1>9, RouteOfLayers DEF Handle, inner_fails, from_request_fails, Moves, TypeOK
<1>10. ASSUME NEW q \in Requests, Dropped(q)
       PROVE  Moves(r) /\ route' = route
  BY <1>1, <1>10 DEF Dropped, Moves, RequireInv, TypeOK
<1>11. CASE ChangePermissions
  BY <1>11 DEF ChangePermissions, Moves, requestVars, Shape
<1> QED
  BY <1>2, <1>3, <1>4, <1>5, <1>6, <1>7, <1>8, <1>9, <1>10, <1>11
     DEF Succeed, Decide, Shape

LEMMA FailureShape ==
  ASSUME RequireInv, NEW q \in Requests, PermissionsFail(q), NEW r \in Requests
  PROVE  /\ route' = route
         /\ \/ Moves(r)
            \/ r = q /\ Decided(r) /\ stage'[r] = "done" /\ layer'[r] = layer[r]
<1>1. CASE q = r
  BY <1>1, ConcludedIsDecided DEF PermissionsFail
<1> QED
  BY <1>1, OthersRest DEF PermissionsFail

-----------------------------------------------------------------------------
(* What the permissions read have to do with those the user has had.        *)

NotedVars == <<vars, historyVars>>

\* Both directions of a match are kept while history widens.
LEMMA CanMatchKept ==
  ASSUME NEW p, p.mode \in PermissionMatch, NEW S, NEW E, NEW T \in SUBSET S, NEW F,
         E \subseteq F, CanMatch(p, S, E)
  PROVE  CanMatch(p, T, F)
BY DEF CanMatch, PermissionMatch

\* A match of what was read between the two is one that could be, and a failure
\* to match it one that did not have to be a match.
LEMMA MatchInBetween ==
  ASSUME NEW p, p.mode \in PermissionMatch, NEW S, NEW C, NEW E,
         S \subseteq C, C \subseteq E
  PROVE  /\ Matches(p, C) => CanMatch(p, S, E)
         /\ ~Matches(p, C) => ~MustMatch(p, S, E)
<1>1. CASE p.mode = "Any"
  BY <1>1 DEF Matches, CanMatch, MustMatch
<1>2. CASE p.mode = "All"
  BY <1>2 DEF Matches, CanMatch, MustMatch
<1>3. CASE p.mode = "Exact"
  <2>1. Matches(p, C) <=> C = p.required
    BY <1>3 DEF Matches
  <2>2. CanMatch(p, S, E) <=> p.required \subseteq E /\ S \subseteq p.required
    BY <1>3 DEF CanMatch
  <2>3. MustMatch(p, S, E) <=> p.required \subseteq S /\ E \subseteq p.required
    BY <1>3 DEF MustMatch
  <2>4. p.required \subseteq S /\ E \subseteq p.required => C = p.required
    OBVIOUS
  <2> QED
    BY <2>1, <2>2, <2>3, <2>4
<1> QED
  BY <1>1, <1>2, <1>3 DEF PermissionMatch

\* A set of permissions lies between what the user has had from one source all
\* along and what it has had at some moment.
Between(lower, S, upper) == lower \subseteq S /\ S \subseteq upper

\* The history of a request in progress encloses what the backend holds and
\* what the request has read of it.
Enclosed(r) ==
  /\ stage[r] \notin {"new", "done"} =>
       /\ Between(ownAlways[r], Held(own, session[r]), ever[r])
       /\ Between(groupAlways[r], Held(group, session[r]), ever[r])
  /\ stage[r] = "groups" => Between(ownAlways[r], seen[r], ever[r])

DecisionInv ==
  /\ RequireInv
  /\ \A r \in Requests : Enclosed(r) /\ Entitled(r) /\ Lacking(r)

\* What a step does to the history of one request.
Noted(r) ==
  /\ stage[r] = "done" =>
       ever'[r] = ever[r] /\ ownAlways'[r] = ownAlways[r] /\ groupAlways'[r] = groupAlways[r]
  /\ stage[r] # "done" =>
       /\ ever'[r] = ever[r] \cup Held(own', session'[r]) \cup Held(group', session'[r])
       /\ stage[r] = "new" =>
            /\ ownAlways'[r] = Held(own', session'[r])
            /\ groupAlways'[r] = Held(group', session'[r])
       /\ stage[r] # "new" =>
            /\ ownAlways'[r] = ownAlways[r] \cap Held(own', session'[r])
            /\ groupAlways'[r] = groupAlways[r] \cap Held(group', session'[r])

LEMMA HistoryNoted ==
  ASSUME NotedNext, NEW r \in Requests
  PROVE  Noted(r) /\ (r \notin failed' => r \notin failed)
BY DEF NotedNext, Noted

\* History only widens: what a layer has let pass stays justified.
LEMMA HistoryWidens ==
  ASSUME NEW r \in Requests, Noted(r), stage[r] # "new"
  PROVE  /\ ever[r] \subseteq ever'[r]
         /\ ownAlways'[r] \subseteq ownAlways[r] /\ groupAlways'[r] \subseteq groupAlways[r]
BY DEF Noted

LEMMA EnclosedStep ==
  ASSUME RequireInv, NEW r \in Requests, Enclosed(r), Noted(r),
         \/ Moves(r)
         \/ Decided(r)
  PROVE  Enclosed(r)'
<1>1. CASE stage[r] = "done"
  BY <1>1 DEF Enclosed, Moves, Decided
<1>2. CASE stage[r] # "done"
  <2>1. /\ Between(ownAlways'[r], Held(own', session'[r]), ever'[r])
        /\ Between(groupAlways'[r], Held(group', session'[r]), ever'[r])
    BY <1>2 DEF Noted, Between
  <2>2. ASSUME stage'[r] = "groups"
        PROVE  Between(ownAlways'[r], seen'[r], ever'[r])
    <3>1. CASE stage[r] = "groups" /\ seen'[r] = seen[r]
      BY <3>1, HistoryWidens DEF Enclosed, Between
    <3>2. CASE session'[r] \in Users /\ seen'[r] = own'[session'[r]]
      BY <2>1, <3>2 DEF Held
    <3> QED
      BY <2>2, <3>1, <3>2 DEF Moves, Decided
  <2> QED
    BY <2>1, <2>2 DEF Enclosed, Held
<1> QED
  BY <1>1, <1>2
\* Where a layer compares permissions, it compares a set the history encloses.
LEMMA ComparedSet ==
  ASSUME RequireInv, NEW r \in Requests, Enclosed(r), Noted(r), Decided(r),
         predicate(r).kind = "permissions", stage[r] = "groups"
  PROVE  /\ session[r] \in Users
         /\ predicate(r).mode \in PermissionMatch
         /\ Between(ownAlways'[r] \cup groupAlways'[r], AllPermissions(r), ever'[r])
<1>1. session[r] \in Users
  BY DEF RequireInv
<1>2. predicate(r).mode \in PermissionMatch
  <2>1. layer[r] \in 1 .. Len(route)
    BY RouteOfLayers DEF RequireInv, TypeOK
  <2> QED
    BY <2>1, RouteOfLayers DEF RequireInv, LayerOK, predicate
<1>3. /\ Between(ownAlways[r], seen[r], ever[r])
      /\ Between(groupAlways[r], group[session[r]], ever[r])
  BY <1>1 DEF Enclosed, Held
<1> QED
  BY <1>1, <1>2, <1>3, HistoryWidens DEF Between, AllPermissions

LEMMA LayersBehind ==
  ASSUME RequireInv, NEW r \in Requests
  PROVE  \A i \in 1 .. layer[r] - 1 : LayerOK(route[i])
<1>1. TypeOK /\ layer[r] \in 1 .. Len(route) + 1
  BY DEF RequireInv, TypeOK
<1> QED
  BY <1>1, RouteOfLayers

LEMMA EntitledKept ==
  ASSUME RequireInv, NEW r \in Requests, Entitled(r), Noted(r), route' = route,
         layer'[r] = layer[r], stage[r] # "new" => session'[r] = session[r]
  PROVE  Entitled(r)'
<1>1. CASE stage[r] = "new"
  BY <1>1 DEF RequireInv, Entitled
<1>2. CASE stage[r] # "new"
  <2> SUFFICES ASSUME NEW i \in 1 .. layer[r] - 1, route[i].decision.kind = "permissions"
               PROVE  /\ session[r] \in Users
                      /\ CanMatch(route[i].decision, ownAlways'[r] \cup groupAlways'[r], ever'[r])
    BY <1>2 DEF Entitled, always
  <2>1. session[r] \in Users /\ CanMatch(route[i].decision, always(r), ever[r])
    BY DEF Entitled
  <2>2. route[i].decision.mode \in PermissionMatch
    BY LayersBehind DEF LayerOK
  <2>3. /\ ever[r] \subseteq ever'[r]
        /\ ownAlways'[r] \cup groupAlways'[r] \subseteq always(r)
    BY <1>2, HistoryWidens DEF always
  <2> QED
    BY <2>1, <2>2, <2>3, CanMatchKept
<1> QED
  BY <1>1, <1>2

LEMMA EntitledPassing ==
  ASSUME RequireInv, NEW r \in Requests, Enclosed(r), Entitled(r), Noted(r), route' = route,
         Passes(r)
  PROVE  Entitled(r)'
<1> DEFINE Suits(i) == route[i].decision.kind = "permissions" =>
             /\ session[r] \in Users
             /\ CanMatch(route[i].decision, ownAlways'[r] \cup groupAlways'[r], ever'[r])
<1>1. Suits(layer[r])
  <2> SUFFICES ASSUME predicate(r).kind = "permissions"
               PROVE  Suits(layer[r])
    BY DEF predicate
  <2>1. stage[r] = "groups" /\ Matches(predicate(r), AllPermissions(r)) /\ Decided(r)
    BY DEF Passes
  <2>2. /\ session[r] \in Users
        /\ predicate(r).mode \in PermissionMatch
        /\ Between(ownAlways'[r] \cup groupAlways'[r], AllPermissions(r), ever'[r])
    BY <2>1, ComparedSet
  <2> QED
    BY <2>1, <2>2, MatchInBetween DEF Between, predicate
<1>2. ASSUME NEW i \in 1 .. layer[r] - 1
      PROVE  Suits(i)
  <2> SUFFICES ASSUME route[i].decision.kind = "permissions"
               PROVE  Suits(i)
    OBVIOUS
  <2>1. session[r] \in Users /\ CanMatch(route[i].decision, always(r), ever[r])
    BY DEF Entitled
  <2>2. route[i].decision.mode \in PermissionMatch
    BY LayersBehind DEF LayerOK
  <2>3. /\ ever[r] \subseteq ever'[r]
        /\ ownAlways'[r] \cup groupAlways'[r] \subseteq always(r)
    BY HistoryWidens DEF always, Passes, Decided
  <2> QED
    BY <2>1, <2>2, <2>3, CanMatchKept
<1>3. layer[r] \in Nat /\ layer'[r] = layer[r] + 1 /\ session'[r] = session[r]
  BY RequireAssumption DEF RequireInv, TypeOK, Passes, Decided
<1> HIDE DEF Suits
<1>4. \A i \in 1 .. layer'[r] - 1 : Suits(i)
  BY <1>1, <1>2, <1>3
<1> USE DEF Suits
<1> QED
  BY <1>3, <1>4 DEF Entitled, always

LEMMA LackingKept ==
  ASSUME NEW r \in Requests, Lacking(r), Noted(r), route' = route, Moves(r),
         r \notin failed' => r \notin failed
  PROVE  Lacking(r)'
<1>1. CASE stage[r] = "done"
  <2>1. /\ stage'[r] = "done" /\ response'[r] = response[r] /\ layer'[r] = layer[r]
        /\ session'[r] = session[r]
        /\ ever'[r] = ever[r] /\ ownAlways'[r] = ownAlways[r] /\ groupAlways'[r] = groupAlways[r]
    BY <1>1 DEF Moves, Noted
  <2> QED
    BY <1>1, <2>1 DEF Lacking, Stopped, always, predicate
<1>2. CASE stage[r] # "done"
  BY <1>2, RequireAssumption DEF Moves, Lacking, Stopped
<1> QED
  BY <1>1, <1>2

LEMMA LackingRefused ==
  ASSUME RequireInv, NEW r \in Requests, Enclosed(r), Noted(r), route' = route, Refused(r)
  PROVE  Lacking(r)'
<1> SUFFICES ASSUME session[r] \in Users, predicate(r).kind = "permissions"
             PROVE  ~MustMatch(predicate(r), ownAlways'[r] \cup groupAlways'[r], ever'[r])
  BY DEF Refused, Decided, Lacking, always, predicate
<1>1. stage[r] = "groups" /\ ~Matches(predicate(r), AllPermissions(r)) /\ Decided(r)
  BY DEF Refused
<1>2. /\ predicate(r).mode \in PermissionMatch
      /\ Between(ownAlways'[r] \cup groupAlways'[r], AllPermissions(r), ever'[r])
  BY <1>1, ComparedSet
<1> QED
  BY <1>1, <1>2, MatchInBetween DEF Between
-----------------------------------------------------------------------------
LEMMA DecisionInit ==
  ASSUME NotedInit
  PROVE  DecisionInv
<1>1. RequireInv
  BY RequireInit DEF NotedInit
<1> QED
  BY <1>1 DEF Init, NotedInit, DecisionInv, Enclosed, Entitled, Lacking, Stopped

LEMMA DecisionStep ==
  ASSUME DecisionInv, [NotedNext]_NotedVars
  PROVE  DecisionInv'
<1>1. RequireInv'
  BY RequireStep DEF DecisionInv, NotedNext, NotedVars, Next
<1>2. CASE NotedNext
  <2> SUFFICES ASSUME NEW r \in Requests
               PROVE  Enclosed(r)' /\ Entitled(r)' /\ Lacking(r)'
    BY <1>1 DEF DecisionInv
  <2>1. Noted(r) /\ (r \notin failed' => r \notin failed)
    BY <1>2, HistoryNoted
  <2>2. RequireInv /\ Enclosed(r) /\ Entitled(r) /\ Lacking(r)
    BY DEF DecisionInv
  <2>3. ASSUME route' = route, Moves(r)
        PROVE  Enclosed(r)' /\ Entitled(r)' /\ Lacking(r)'
    <3>1. Enclosed(r)'
      BY <2>1, <2>2, <2>3, EnclosedStep
    <3>2. Entitled(r)'
      BY <2>1, <2>2, <2>3, EntitledKept DEF Moves
    <3>3. Lacking(r)'
      BY <2>1, <2>2, <2>3, LackingKept
    <3> QED
      BY <3>1, <3>2, <3>3
  <2>4. ASSUME route' = route, Passes(r)
        PROVE  Enclosed(r)' /\ Entitled(r)' /\ Lacking(r)'
    <3>1. Enclosed(r)'
      BY <2>1, <2>2, <2>4, EnclosedStep DEF Passes
    <3>2. Entitled(r)'
      BY <2>1, <2>2, <2>4, EntitledPassing
    <3>3. Lacking(r)'
      BY <2>4 DEF Passes, Lacking, Stopped
    <3> QED
      BY <3>1, <3>2, <3>3
  <2>5. ASSUME route' = route, Decided(r), stage'[r] = "done", layer'[r] = layer[r]
        PROVE  Enclosed(r)' /\ Entitled(r)'
    <3>1. Enclosed(r)'
      BY <2>1, <2>2, <2>5, EnclosedStep
    <3>2. Entitled(r)'
      BY <2>1, <2>2, <2>5, EntitledKept DEF Decided
    <3> QED
      BY <3>1, <3>2
  <2>6. CASE Succeed
    <3>1. route' = route /\ (Moves(r) \/ Passes(r) \/ Refused(r))
      BY <2>2, <2>6, SuccessShape DEF Shape
    <3>2. CASE Refused(r)
      BY <2>1, <2>2, <2>5, <3>1, <3>2, LackingRefused DEF Refused
    <3> QED
      BY <2>3, <2>4, <3>1, <3>2
  <2>7. ASSUME NEW q \in Requests, PermissionsFail(q), failed' = failed \cup {q}
        PROVE  Enclosed(r)' /\ Entitled(r)' /\ Lacking(r)'
    <3>1. /\ route' = route
          /\ \/ Moves(r)
             \/ r = q /\ Decided(r) /\ stage'[r] = "done" /\ layer'[r] = layer[r]
      BY <2>2, <2>7, FailureShape
    <3>2. r = q => Lacking(r)'
      BY <2>7 DEF Lacking
    <3> QED
      BY <2>3, <2>5, <3>1, <3>2
  <2> QED
    BY <1>2, <2>6, <2>7 DEF NotedNext
<1>3. CASE UNCHANGED NotedVars
  BY <1>1, <1>3 DEF NotedVars, vars, backendVars, requestVars, historyVars, DecisionInv,
     Enclosed, Between, Held, Entitled, Lacking, Stopped, always, CanMatch, MustMatch, predicate
<1> QED
  BY <1>2, <1>3

\* A permission layer (PermissionsPredicate::decide over get_all_permissions)
\* lets nobody pass who has not held each permission it requires, however the
\* permissions change around its two reads.
THEOREM AccessIsEarned == DecisionSpec => []PassedAreEntitled
<1>1. DecisionInv => PassedAreEntitled
  BY DEF DecisionInv, PassedAreEntitled
<1> QED
  BY <1>1, DecisionInit, DecisionStep, PTL DEF DecisionSpec, NotedVars

\* And it refuses nobody, short of a failing backend, who has held what it
\* requires from one source all along.
THEOREM RefusalIsDue == DecisionSpec => []RefusedLackPermissions
<1>1. DecisionInv => RefusedLackPermissions
  BY DEF DecisionInv, RefusedLackPermissions
<1> QED
  BY <1>1, DecisionInit, DecisionStep, PTL DEF DecisionSpec, NotedVars
=============================================================================
