---------------------------- MODULE ExamplesProofs ----------------------------
(***************************************************************************)
(* The permissions and sqlite examples, for any numbers of browsers,       *)
(* requests in flight, keys, users, rows and messages.                     *)
(***************************************************************************)
EXTENDS PermissionsApp, FlashMessages, WebSessionProofs, Sequences

\* The backends answer with rows of their users table.
LEMMA get_userType ==
  ASSUME UsersTypeOK
  PROVE  get_user \in [Users -> Opt(User)] /\ \A u \in Users : get_user[u] \in User
BY DEF UsersTypeOK, get_user, User, Opt

-----------------------------------------------------------------------------
(* The pages of the permissions example: who is served, and that they are   *)
(* routes of Require.                                                       *)

\* Where a request stands tells what it has been given.
Progress(r) ==
  /\ stage[r] \in {"new", "verify"} => page[r] = None
  /\ stage[r] \in {"new", "verify", "decide", "groups", "handler"} => response[r] = None
  /\ stage[r] = "verify" => checked[r] # None
  /\ stage[r] \in {"decide", "groups", "handler"} => page[r] \in Pages
  /\ stage[r] \in {"groups", "handler"} => visitor[r] # None
  /\ inside[r] => stage[r] \in {"handler", "answer", "done"}
  /\ stage[r] = "handler" => inside[r]

PagesInv == TypeOK /\ \A r \in Requests : Progress(r)

LEMMA InitInv == Init => PagesInv
<1> SUFFICES ASSUME Init PROVE PagesInv
  OBVIOUS
<1>1. SessionTypeOK
  BY NoInnerType DEF Init, UsersInit, SessionInit, SessionTypeOK, Store!StoreInit,
                     Store!StoreTypeOK, Opt
<1>2. users_groups \subseteq Users \X Groups /\ groups_permissions \subseteq Groups \X Permissions
  BY PermissionsAssumption DEF Init, UsersInit
<1>3. TypeOK
  BY <1>1, <1>2 DEF Init, UsersInit, TypeOK, UsersTypeOK, Opt
<1>4. ASSUME NEW r \in Requests PROVE Progress(r)
  BY <1>4 DEF Init, UsersInit, Progress
<1>5. QED
  BY <1>3, <1>4 DEF PagesInv

LEMMA UserIdType ==
  ASSUME NEW user \in Opt(User)
  PROVE  UserId(user) \in Opt(Users)
BY DEF UserId, Opt, User

\* A request comes in with the session of its client.
LEMMA Entered ==
  ASSUME TypeOK, NEW r \in Requests, NEW c \in Clients,
         Enter(r, c, Incoming(c, get_user)) \/ Enter(r, c, logout(Incoming(c, get_user)))
  PROVE  SessionTypeOK' /\ inner'[r].user \in Opt(User)
<1>1. SessionTypeOK
  BY DEF TypeOK, UsersTypeOK
<1>2. Incoming(c, get_user) \in Inner
  BY <1>1, get_userType, IncomingType DEF TypeOK
<1>3. logout(Incoming(c, get_user)) \in Inner
  BY <1>2, CallType
<1>4. SessionTypeOK'
  BY <1>1, <1>2, <1>3, get_userType, EnterType DEF TypeOK
<1>5. inner'[r] \in Inner
  BY <1>4 DEF SessionTypeOK
<1>6. QED
  BY <1>4, <1>5 DEF Inner

\* What each step does to the requests.
LEMMA NextInv ==
  ASSUME PagesInv, AppNext
  PROVE  PagesInv'
<1> USE DEF PagesInv
<1>1. ASSUME NEW r \in Requests, NEW c \in Clients, NEW u \in Users, post_login(r, c, u)
      PROVE  PagesInv'
  <2>1. SessionTypeOK' /\ get_user[u] \in User
    BY <1>1, Entered, get_userType DEF TypeOK, post_login, ReadRow
  <2>2. get_user[u] # None
    BY <2>1, SessionAssumption
  <2>3. TypeOK'
    BY <1>1, <2>1 DEF TypeOK, UsersTypeOK, post_login, ReadRow, Goes, tableVars, Opt
  <2>4. QED
    BY <1>1, <2>2, <2>3 DEF TypeOK, UsersTypeOK, Progress, post_login, ReadRow, Goes, tableVars
<1>2. ASSUME NEW r \in Requests, NEW c \in Clients, NEW p \in Pages, visit(r, c, p)
      PROVE  PagesInv'
  <2>1. SessionTypeOK' /\ UserId(inner'[r].user) \in Opt(Users)
    BY <1>2, Entered, UserIdType DEF visit
  <2>2. TypeOK'
    BY <1>2, <2>1 DEF TypeOK, UsersTypeOK, visit, Goes, tableVars, Opt
  <2>3. QED
    BY <1>2, <2>2 DEF TypeOK, UsersTypeOK, Progress, visit, Goes, tableVars
<1>3. ASSUME NEW r \in Requests, NEW c \in Clients, form_refused(r, c) \/ get_logout(r, c)
      PROVE  PagesInv'
  <2>1. SessionTypeOK'
    BY <1>3, Entered DEF form_refused, get_logout
  <2>2. PICK a \in {"413", "411", "415", "422", "303"} : Responds(r, a) /\ stage[r] = "new"
    BY <1>3 DEF form_refused, get_logout, form_config
  <2>3. UNCHANGED <<tableVars, page, visitor, inside, checked>>
    BY <1>3 DEF form_refused, get_logout
  <2>4. TypeOK'
    BY <2>1, <2>2, <2>3 DEF TypeOK, UsersTypeOK, Responds, Goes, tableVars
  <2>5. QED
    BY <2>2, <2>3, <2>4 DEF TypeOK, UsersTypeOK, Progress, Responds, Goes
<1>4. ASSUME NEW r \in Requests, login_succeeds(r) PROVE PagesInv'
  <2>1. checked[r] \in User /\ inner[r] \in Inner
    BY <1>4 DEF login_succeeds, TypeOK, UsersTypeOK, SessionTypeOK, Progress, Opt
  <2>2. login(inner[r], checked[r]) \in Inner
    BY <2>1, CallType
  <2>3. SessionTypeOK'
    BY <1>4, <2>2 DEF login_succeeds, TypeOK, UsersTypeOK, SessionTypeOK, Store!StoreTypeOK
  <2>4. TypeOK'
    BY <1>4, <2>3 DEF TypeOK, UsersTypeOK, login_succeeds, Responds, Goes, tableVars
  <2>5. QED
    BY <1>4, <2>4 DEF TypeOK, UsersTypeOK, Progress, login_succeeds, Responds, Goes
<1>5. ASSUME NEW r \in Requests,
             \/ login_fails(r) \/ get_user_permissions(r)
             \/ get_group_permissions(r) \/ permissions_fail(r) \/ handle(r)
      PROVE  PagesInv'
  <2>1. SessionTypeOK' /\ UNCHANGED <<tableVars, page, visitor, checked>>
    BY <1>5 DEF login_fails, get_user_permissions, get_group_permissions,
                permissions_fail, handle, TypeOK, UsersTypeOK, SessionTypeOK, sessionVars,
                Store!StoreTypeOK
  <2>2. CASE login_fails(r) \/ permissions_fail(r) \/ handle(r)
    <3>1. PICK a \in {"200", "403", "500", "form"} : Responds(r, a)
      BY <2>2 DEF login_fails, permissions_fail, handle
    <3>2. inside' = inside /\ (response'[r] = "500" => ~inside[r])
      BY <1>5, <2>2 DEF login_fails, permissions_fail, handle, Responds, TypeOK, Progress
    <3>3. /\ stage' = [stage EXCEPT ![r] = "answer"]
          /\ response' = [response EXCEPT ![r] = a]
      BY <3>1 DEF Responds, Goes
    <3>4. ASSUME NEW q \in Requests, response'[q] = "500" PROVE ~inside'[q]
      <4>1. CASE q = r
        BY <3>2, <3>4, <4>1
      <4>2. CASE q # r
        BY <3>2, <3>3, <3>4, <4>2 DEF TypeOK
      <4>3. QED
        BY <4>1, <4>2
    <3>5. /\ stage' \in [Requests ->
               {"new", "verify", "decide", "groups", "handler", "answer", "done"}]
          /\ response' \in [Requests -> {None, "200", "303", "307", "403", "411", "413", "415",
                                         "422", "500", "form"}]
      BY <3>3 DEF TypeOK
    <3>6. inside' \in [Requests -> BOOLEAN]
      BY <3>2 DEF TypeOK
    <3>7. TypeOK'
      BY <2>1, <3>4, <3>5, <3>6 DEF TypeOK, UsersTypeOK, tableVars
    <3>8. QED
      BY <2>1, <2>2, <3>1, <3>2, <3>7
         DEF TypeOK, UsersTypeOK, Progress, Responds, Goes, login_fails, permissions_fail, handle
  <2>3. CASE get_user_permissions(r) \/ get_group_permissions(r)
    <3>1. response[r] = None /\ PagesInv
      BY <2>3 DEF Progress, get_user_permissions, get_group_permissions
    <3>2. /\ stage' \in [Requests ->
               {"new", "verify", "decide", "groups", "handler", "answer", "done"}]
          /\ response' \in [Requests -> {None, "200", "303", "307", "403", "411", "413", "415",
                                         "422", "500", "form"}]
          /\ inside' \in [Requests -> BOOLEAN]
      BY <2>3 DEF TypeOK, Responds, Goes, get_user_permissions, get_group_permissions
    <3>3. ASSUME NEW q \in Requests, response'[q] = "500" PROVE ~inside'[q]
      <4>1. response[q] = "500" /\ ~inside[q] /\ q # r
        BY <2>3, <3>1, <3>3, PermissionsAssumption
           DEF TypeOK, Responds, get_user_permissions, get_group_permissions
      <4>2. QED
        BY <2>3, <4>1 DEF TypeOK, get_user_permissions, get_group_permissions
    <3>4. TypeOK'
      BY <2>1, <3>2, <3>3 DEF TypeOK, UsersTypeOK, tableVars
    <3>5. QED
      BY <2>1, <2>3, <3>4
         DEF TypeOK, UsersTypeOK, Progress, Responds, Goes, get_user_permissions,
             get_group_permissions
  <2>4. QED
    BY <1>5, <2>2, <2>3
<1>6. ASSUME NEW r \in Requests, answer(r) \/ dropped(r) PROVE PagesInv'
  <2>1. SessionTypeOK'
    BY <1>6, CommitType, FailType DEF answer, dropped, TypeOK, UsersTypeOK
  <2>2. /\ stage' = [stage EXCEPT ![r] = "done"]
        /\ UNCHANGED <<tableVars, page, visitor, inside, checked, response>>
    BY <1>6 DEF answer, dropped, Goes
  <2>3. TypeOK'
    BY <2>1, <2>2 DEF TypeOK, UsersTypeOK, tableVars
  <2>4. QED
    BY <2>2, <2>3 DEF TypeOK, UsersTypeOK, Progress
<1>7. CASE expire
  <2>1. SessionTypeOK'
    BY <1>7, ExpireType DEF expire, TypeOK, UsersTypeOK
  <2>2. QED
    BY <1>7, <2>1 DEF expire, TypeOK, UsersTypeOK, Progress, tableVars, requestVars
<1>8. CASE change_row
  <2>1. SessionTypeOK'
    BY <1>8 DEF change_row, TypeOK, UsersTypeOK, SessionTypeOK, sessionVars, Store!StoreTypeOK
  <2>2. /\ users_groups' \subseteq Users \X Groups
        /\ groups_permissions' \subseteq Groups \X Permissions
        /\ passwords' \in [Users -> Hashes]
    BY <1>8 DEF change_row, TypeOK, UsersTypeOK
  <2>3. QED
    BY <1>8, <2>1, <2>2 DEF change_row, TypeOK, UsersTypeOK, Progress, requestVars
<1>9. ASSUME NEW r \in Requests, decide_anonymous(r) PROVE PagesInv'
  <2>1. SessionTypeOK'
    BY <1>9 DEF decide_anonymous, TypeOK, SessionTypeOK, sessionVars, Store!StoreTypeOK
  <2>2. PICK a \in {"307", "500"} : Responds(r, a)
    BY <1>9 DEF decide_anonymous
  <2>3. ~inside[r] /\ UNCHANGED <<tableVars, page, visitor, inside, checked>>
    BY <1>9 DEF decide_anonymous, TypeOK, Progress
  <2>4. TypeOK'
    BY <2>1, <2>2, <2>3 DEF TypeOK, UsersTypeOK, Responds, Goes, tableVars
  <2>5. QED
    BY <1>9, <2>2, <2>3, <2>4 DEF decide_anonymous, TypeOK, UsersTypeOK, Progress, Responds, Goes
<1>10. QED
  BY <1>1, <1>2, <1>3, <1>4, <1>5, <1>6, <1>7, <1>8, <1>9 DEF AppNext

LEMMA NextInvStutter ==
  ASSUME PagesInv, [AppNext /\ NoteHeld]_<<appVars, ever>>
  PROVE  PagesInv'
<1>1. CASE UNCHANGED <<appVars, ever>>
  BY <1>1 DEF PagesInv, TypeOK, UsersTypeOK, Progress, appVars, sessionVars, tableVars,
              requestVars,
              SessionTypeOK, Store!StoreTypeOK
<1>2. QED
  BY <1>1, NextInv

\* Sessions, tables and requests keep to their types, and a page that shows a name
\* has one to show: behind a layer on permissions there is always a user.
THEOREM TypeCorrect == AppSpec => []TypeOK
<1>1. PagesInv => TypeOK
  BY DEF PagesInv
<1> QED
  BY <1>1, InitInv, NextInvStutter, PTL DEF AppSpec

-----------------------------------------------------------------------------
(* Who is served.                                                           *)

\* What a request may be served with is among what its visitor has had.
EverHas(r) ==
  /\ stage[r] \in {"decide", "groups"} /\ visitor[r] # None
       => GroupPermissions(visitor[r]) \subseteq ever[r]
  /\ stage[r] = "handler" => Required[page[r]] \in ever[r]
  /\ page[r] # None /\ response[r] = "200" => Required[page[r]] \in ever[r]

EverInv == \A r \in Requests : EverHas(r)

LEMMA NotedIsHeld ==
  ASSUME PagesInv', NoteHeld, NEW r \in Requests
  PROVE  /\ ever[r] \subseteq ever'[r]
         /\ visitor'[r] # None /\ stage[r] \notin {"handler", "answer", "done"}
              => GroupPermissions(visitor[r])' \subseteq ever'[r]
<1>1. ever[r] \subseteq ever'[r]
  BY DEF NoteHeld
<1>2. ASSUME visitor'[r] # None, stage[r] \notin {"handler", "answer", "done"},
             NEW p \in GroupPermissions(visitor[r])'
      PROVE  p \in ever'[r]
  <2>1. PICK gp \in groups_permissions' : <<visitor'[r], gp[1]>> \in users_groups' /\ p = gp[2]
    BY <1>2 DEF GroupPermissions
  <2>2. gp \in Groups \X Permissions
    BY <2>1 DEF PagesInv, TypeOK, UsersTypeOK
  <2>3. PICK g \in Groups, q \in Permissions : gp = <<g, q>>
    BY <2>2
  <2>4. /\ p \in Permissions
        /\ <<visitor'[r], g>> \in users_groups' /\ <<g, p>> \in groups_permissions'
    BY <2>1, <2>3
  <2>5. QED
    BY <1>2, <2>4 DEF NoteHeld
<1>3. QED
  BY <1>1, <1>2

Stays(r) ==
  /\ stage'[r] = stage[r] /\ page'[r] = page[r]
  /\ visitor'[r] = visitor[r] /\ response'[r] = response[r]

\* All that a step may do to a request, as far as EverInv can tell.
Moves(r) ==
  \/ Stays(r)
  \/ /\ stage'[r] \notin {"decide", "groups", "handler"}
     /\ page'[r] = page[r]
     /\ response'[r] \in {response[r], "303", "307", "403", "411", "413", "415", "422", "500",
                           "form"}
  \/ stage[r] = "new" /\ stage'[r] = "decide" /\ response'[r] = response[r]
  \/ /\ stage[r] = "decide" /\ stage'[r] = "groups"
     /\ page'[r] = page[r] /\ response'[r] = response[r]
  \/ /\ stage[r] = "groups" /\ stage'[r] = "handler"
     /\ page'[r] = page[r] /\ response'[r] = response[r]
     /\ visitor[r] # None /\ Required[page[r]] \in GroupPermissions(visitor[r])
  \/ stage[r] = "handler" /\ stage'[r] = "answer" /\ page'[r] = page[r]

LEMMA StepMoves ==
  ASSUME PagesInv, AppNext, NEW q \in Requests
  PROVE  Moves(q)
<1> USE DEF PagesInv, TypeOK, UsersTypeOK, Progress, Moves, Stays
<1>1. ASSUME NEW r \in Requests, NEW c \in Clients, NEW u \in Users, post_login(r, c, u)
      PROVE  Moves(q)
  BY <1>1 DEF post_login, ReadRow, Goes
<1>2. ASSUME NEW r \in Requests, NEW c \in Clients, NEW p \in Pages, visit(r, c, p)
      PROVE  Moves(q)
  BY <1>2 DEF visit, Goes
<1>3. ASSUME NEW r \in Requests, NEW c \in Clients, form_refused(r, c) \/ get_logout(r, c)
      PROVE  Moves(q)
  <2>1. PICK a \in {"413", "411", "415", "422", "303"} : Responds(r, a)
    BY <1>3 DEF form_refused, get_logout, form_config
  <2>2. UNCHANGED <<page, visitor>>
    BY <1>3 DEF form_refused, get_logout
  <2>3. QED
    BY <2>1, <2>2 DEF Responds, Goes
<1>4. ASSUME NEW r \in Requests, login_succeeds(r) \/ login_fails(r) \/ decide_anonymous(r)
      PROVE  Moves(q)
  BY <1>4 DEF login_succeeds, login_fails, decide_anonymous, Responds, Goes
<1>5. ASSUME NEW r \in Requests, get_user_permissions(r) \/ get_group_permissions(r)
      PROVE  Moves(q)
  BY <1>5 DEF get_user_permissions, get_group_permissions, Responds, Goes
<1>6. ASSUME NEW r \in Requests, permissions_fail(r) \/ handle(r) PROVE Moves(q)
  BY <1>6 DEF permissions_fail, handle, Responds, Goes
<1>7. ASSUME NEW r \in Requests, answer(r) \/ dropped(r) PROVE Moves(q)
  BY <1>7 DEF answer, dropped, Goes
<1>8. CASE expire \/ change_row
  BY <1>8 DEF expire, change_row, requestVars
<1>9. QED
  BY <1>1, <1>2, <1>3, <1>4, <1>5, <1>6, <1>7, <1>8 DEF AppNext

LEMMA EverStep ==
  ASSUME PagesInv, EverInv, [AppNext /\ NoteHeld]_<<appVars, ever>>
  PROVE  EverInv'
<1>1. CASE UNCHANGED <<appVars, ever>>
  BY <1>1 DEF EverInv, EverHas, GroupPermissions, appVars, tableVars, requestVars
<1>2. CASE AppNext /\ NoteHeld
  <2>1. PagesInv'
    BY <1>2, NextInv
  <2>2. ASSUME NEW r \in Requests PROVE EverHas(r)'
    <3>1. /\ ever[r] \subseteq ever'[r]
          /\ visitor'[r] # None /\ stage[r] \notin {"handler", "answer", "done"}
               => GroupPermissions(visitor[r])' \subseteq ever'[r]
      BY <1>2, <2>1, NotedIsHeld
    <3>2. EverHas(r) /\ Progress(r) /\ Progress(r)'
      BY <2>1 DEF EverInv, PagesInv
    <3>3. Moves(r)
      BY <1>2, StepMoves
    <3>4. /\ stage'[r] \in {"decide", "groups"} /\ visitor'[r] # None
               => GroupPermissions(visitor[r])' \subseteq ever'[r]
      BY <3>1, <3>3 DEF Moves, Stays
    <3>5. stage'[r] = "handler" => Required[page'[r]] \in ever'[r]
      BY <3>1, <3>2, <3>3 DEF EverHas, Moves, Stays
    <3>6. page'[r] # None /\ response'[r] = "200" => Required[page'[r]] \in ever'[r]
      BY <3>1, <3>2, <3>3, PermissionsAssumption DEF EverHas, Progress, Moves, Stays
    <3>7. QED
      BY <3>4, <3>5, <3>6 DEF EverHas
  <2>3. QED
    BY <2>2 DEF EverInv
<1>3. QED
  BY <1>1, <1>2

\* A page goes to users only who have been in a group with its permission since
\* they asked (src/examples/permissions), whatever the tables become.
THEOREM OnlyMembersAreServed == AppSpec => []ServedToMembers
<1>1. Init /\ ever = [r \in Requests |-> {}] => EverInv
  BY DEF Init, UsersInit, EverInv, EverHas
<1>2. EverInv => ServedToMembers
  BY DEF EverInv, EverHas, ServedToMembers
<1> QED
  BY <1>1, <1>2, InitInv, NextInvStutter, EverStep, PTL DEF AppSpec

-----------------------------------------------------------------------------
(* A page is a route of Require.                                            *)

mappedVars == <<StageOf, SessionOf, ServiceOf, ResponseOf>>

\* A step of r leaves what the other requests are mapped to.
Leaves(r) ==
  \A q \in Requests \ {r} :
    /\ stage'[q] = stage[q] /\ page'[q] = page[q] /\ visitor'[q] = visitor[q]
    /\ inside'[q] = inside[q] /\ response'[q] = response[q]

LEMMA MappedElsewhere ==
  ASSUME NEW r \in Requests, Leaves(r)
  PROVE  /\ StageOf' = [StageOf EXCEPT ![r] = StageOf'[r]]
         /\ SessionOf' = [SessionOf EXCEPT ![r] = SessionOf'[r]]
         /\ ServiceOf' = [ServiceOf EXCEPT ![r] = ServiceOf'[r]]
         /\ ResponseOf' = [ResponseOf EXCEPT ![r] = ResponseOf'[r]]
BY DEF Leaves, StageOf, SessionOf, ServiceOf, ResponseOf, Asked, RequireStage, RequireResponse

LEMMA Stutters ==
  ASSUME UNCHANGED <<mappedVars, Held>>
  PROVE  UNCHANGED Route!vars
BY DEF mappedVars, Route!vars, Route!backendVars, Route!requestVars, RouteOf, OwnOf, SeenOf

\* The layer that app.rs builds, and the route it makes.
LEMMA LayerIsBuilt ==
  /\ {RouteOf} \subseteq Seq(Route!Layers)
  /\ LayerOf(Watched) =
       Route!decision(Route!unauthorized(Route!unauthenticated(Route!builder,
                                                               Route!RedirectHandler),
                                         Route!text("403")),
                      Route!with_permissions(Route!PermissionsPredicate, {Required[Watched]}))
<1>1. Required[Watched] \in Permissions
  BY PermissionsAssumption DEF Required, Permissions, Pages
<1> DEFINE asking == [kind |-> "permissions", required |-> {Required[Watched]}, mode |-> "All"]
           base == Route!unauthenticated(Route!builder, Route!RedirectHandler)
           both == Route!unauthorized(base, Route!text("403"))
<1>2. Route!with_permissions(Route!PermissionsPredicate, {Required[Watched]}) = asking
  BY DEF Route!with_permissions, Route!PermissionsPredicate
<1>3. base = [decision |-> Route!DefaultAccess, unauthorized |-> {"403"},
              unauthenticated |-> {"307", "500"}]
  BY DEF Route!unauthenticated, Route!builder, Route!DefaultUnauthorized, Route!RedirectHandler
<1>4. both = [decision |-> Route!DefaultAccess,
              unauthorized |-> {"403"}, unauthenticated |-> {"307", "500"}]
  <2> HIDE DEF base
  <2>1. both = [base EXCEPT !.unauthorized = {"403"}]
    BY DEF Route!unauthorized, Route!text
  <2>2. QED
    BY <1>3, <2>1
<1>5. Route!decision(both, asking) = LayerOf(Watched)
  <2> HIDE DEF both
  <2>1. QED
    BY <1>4 DEF Route!decision, LayerOf
<1>6. LayerOf(Watched) \in Route!Layers
  <2>1. asking \in Route!Predicates
    BY <1>1 DEF Route!Predicates, Route!PermissionMatch
  <2>2. {"403"} \in Route!Handlers /\ {"307", "500"} \in Route!Handlers
    <3>1. \A x, y \in Route!Replies : {x} \in Route!Handlers /\ {x, y} \in Route!Handlers
      BY DEF Route!Handlers
    <3>2. {"403", "307", "500"} \subseteq Route!Replies
      BY DEF Route!Replies
    <3>3. QED
      BY <3>1, <3>2
  <2>3. QED
    BY <2>1, <2>2 DEF Route!Layers, LayerOf
<1>7. QED
  BY <1>2, <1>5, <1>6 DEF RouteOf

LEMMA HeldType ==
  ASSUME TypeOK
  PROVE  Held \in [Users -> SUBSET Permissions] /\ OwnOf \in [Users -> SUBSET Permissions]
<1>1. ASSUME NEW u \in Users PROVE GroupPermissions(u) \subseteq Permissions
  <2>1. ASSUME NEW p \in GroupPermissions(u) PROVE p \in Permissions
    <3>1. PICK gp \in groups_permissions : p = gp[2]
      BY DEF GroupPermissions
    <3>2. gp \in Groups \X Permissions
      BY <3>1 DEF TypeOK, UsersTypeOK
    <3>3. QED
      BY <3>1, <3>2
  <2>2. QED
    BY <2>1
<1>2. QED
  BY <1>1 DEF Held, OwnOf

LEMMA InitRoute == Init => Route!Init
<1> SUFFICES ASSUME Init PROVE Route!Init
  OBVIOUS
<1>1. RouteOf \in {RouteOf}
  OBVIOUS
<1>2. Held \in [Users -> SUBSET Permissions] /\ OwnOf \in [Users -> SUBSET Permissions]
  BY InitInv, HeldType DEF PagesInv
<1>3. /\ StageOf = [r \in Requests |-> "new"]
      /\ SessionOf = [r \in Requests |-> None]
      /\ ServiceOf = [r \in Requests |-> 1]
      /\ SeenOf = [r \in Requests |-> {}]
      /\ ResponseOf = [r \in Requests |-> None]
  BY PermissionsAssumption
     DEF Init, UsersInit, StageOf, SessionOf, ServiceOf, SeenOf, ResponseOf, Asked, Pages
<1>4. QED
  BY <1>1, <1>2, <1>3 DEF Route!Init

\* A step of r that leaves what r is mapped to as well.
LEMMA SameStutters ==
  ASSUME NEW r \in Requests, Leaves(r), UNCHANGED Held,
         StageOf'[r] = StageOf[r], SessionOf'[r] = SessionOf[r],
         ServiceOf'[r] = ServiceOf[r], ResponseOf'[r] = ResponseOf[r]
  PROVE  UNCHANGED Route!vars
<1>1. /\ StageOf' = [StageOf EXCEPT ![r] = StageOf[r]]
      /\ SessionOf' = [SessionOf EXCEPT ![r] = SessionOf[r]]
      /\ ServiceOf' = [ServiceOf EXCEPT ![r] = ServiceOf[r]]
      /\ ResponseOf' = [ResponseOf EXCEPT ![r] = ResponseOf[r]]
  BY MappedElsewhere
<1>2. StageOf' = StageOf
  BY <1>1 DEF StageOf
<1>3. SessionOf' = SessionOf
  BY <1>1 DEF SessionOf
<1>4. ServiceOf' = ServiceOf
  BY <1>1 DEF ServiceOf
<1>5. ResponseOf' = ResponseOf
  BY <1>1 DEF ResponseOf
<1>6. QED
  BY <1>2, <1>3, <1>4, <1>5, Stutters DEF mappedVars

\* A step of a request that asks for something else.
LEMMA ElsewhereStutters ==
  ASSUME NEW r \in Requests, Leaves(r), ~Asked(r), ~Asked(r)', UNCHANGED Held
  PROVE  UNCHANGED Route!vars
<1>1. /\ StageOf'[r] = StageOf[r] /\ SessionOf'[r] = SessionOf[r]
      /\ ServiceOf'[r] = ServiceOf[r] /\ ResponseOf'[r] = ResponseOf[r]
  BY DEF StageOf, SessionOf, ServiceOf, ResponseOf
<1>2. QED
  BY <1>1, SameStutters

\* The layer around the watched page, and what passing it does.
LEMMA LayerOfRoute ==
  ASSUME NEW r \in Requests, ServiceOf[r] = 1
  PROVE  /\ Len(RouteOf) = 1 /\ RouteOf[ServiceOf[r]] = LayerOf(Watched)
         /\ Route!predicate(r) = [kind |-> "permissions", required |-> {Required[Watched]},
                                 mode |-> "All"]
         /\ Route!Calls(1) = "decide" /\ Route!Calls(2) = "handler"
BY DEF RouteOf, LayerOf, Route!predicate, Route!Calls

LEMMA VisitArrives ==
  ASSUME PagesInv, NEW r \in Requests, NEW c \in Clients, visit(r, c, Watched)
  PROVE  Route!Next
<1>1. Leaves(r) /\ UNCHANGED Held
  BY DEF PagesInv, TypeOK, UsersTypeOK, visit, Goes, Leaves, tableVars, Held, GroupPermissions
<1>2. UserId(inner'[r].user) \in Opt(Users)
  BY Entered, UserIdType DEF PagesInv, visit
<1>3. /\ stage[r] = "new" /\ page[r] = None /\ ~inside[r] /\ response[r] = None
      /\ stage'[r] = "decide" /\ page'[r] = Watched /\ ~inside'[r] /\ response'[r] = None
      /\ visitor'[r] = UserId(inner'[r].user)
  BY DEF PagesInv, TypeOK, UsersTypeOK, Progress, visit, Goes
<1>4. /\ StageOf[r] = "new" /\ StageOf'[r] = "decide" /\ SessionOf'[r] = visitor'[r]
      /\ ServiceOf[r] = 1 /\ ServiceOf'[r] = 1 /\ ResponseOf[r] = None /\ ResponseOf'[r] = None
  BY <1>3, PermissionsAssumption
     DEF StageOf, SessionOf, ServiceOf, ResponseOf, Asked, RequireStage, RequireResponse, Pages
<1>5. /\ StageOf' = [StageOf EXCEPT ![r] = "decide"]
      /\ SessionOf' = [SessionOf EXCEPT ![r] = visitor'[r]]
      /\ ServiceOf' = [ServiceOf EXCEPT ![r] = ServiceOf[r]]
      /\ ResponseOf' = [ResponseOf EXCEPT ![r] = ResponseOf[r]]
  BY <1>1, <1>4, MappedElsewhere
<1>6. ServiceOf' = ServiceOf
  BY <1>5 DEF ServiceOf
<1>7. ResponseOf' = ResponseOf
  BY <1>5 DEF ResponseOf
<1>8. Route!Arrive(r, visitor'[r])
  BY <1>1, <1>4, <1>5, <1>6, <1>7, LayerOfRoute
     DEF Route!Arrive, Route!backendVars, SeenOf, OwnOf, RouteOf
<1>9. QED
  BY <1>2, <1>3, <1>8 DEF Route!Next, Route!Succeed, Opt

\* What the layer concludes from a decision d, as the page sees it.
Concluded(r, d) ==
  \/ /\ d = "Allow" /\ StageOf'[r] = "handler"
     /\ ServiceOf'[r] = 2 /\ ResponseOf'[r] = ResponseOf[r]
  \/ /\ d \in {"Unauthorized", "Unauthenticated"} /\ StageOf'[r] = "done"
     /\ ServiceOf'[r] = 1
     /\ ResponseOf'[r] \in IF d = "Unauthorized" THEN {"403"} ELSE {"307", "500"}

LEMMA Concludes ==
  ASSUME NEW r \in Requests, Leaves(r), UNCHANGED Held, ServiceOf[r] = 1,
         SessionOf'[r] = SessionOf[r], NEW d, Concluded(r, d)
  PROVE  Route!Conclude(r, d)
<1>1. /\ StageOf' = [StageOf EXCEPT ![r] = StageOf'[r]]
      /\ SessionOf' = [SessionOf EXCEPT ![r] = SessionOf[r]]
      /\ ServiceOf' = [ServiceOf EXCEPT ![r] = ServiceOf'[r]]
      /\ ResponseOf' = [ResponseOf EXCEPT ![r] = ResponseOf'[r]]
  BY MappedElsewhere
<1>2. SessionOf' = SessionOf
  BY <1>1 DEF SessionOf
<1>3. /\ UNCHANGED <<RouteOf, <<OwnOf, Held>>, SessionOf>>
      /\ SeenOf' = [SeenOf EXCEPT ![r] = {}]
  BY <1>2 DEF RouteOf, OwnOf, SeenOf
<1>4. CASE d = "Allow" /\ StageOf'[r] = "handler" /\ ServiceOf'[r] = 2
             /\ ResponseOf'[r] = ResponseOf[r]
  <2>1. ResponseOf' = ResponseOf
    BY <1>1, <1>4 DEF ResponseOf
  <2>2. ServiceOf' = [ServiceOf EXCEPT ![r] = @ + 1]
    BY <1>1, <1>4
  <2>3. StageOf' = [StageOf EXCEPT ![r] = Route!Calls(ServiceOf[r] + 1)]
    BY <1>1, <1>4, LayerOfRoute
  <2>4. QED
    BY <1>3, <1>4, <2>1, <2>2, <2>3 DEF Route!Conclude, Route!backendVars
<1>5. CASE d \in {"Unauthorized", "Unauthenticated"} /\ StageOf'[r] = "done"
             /\ ServiceOf'[r] = 1
             /\ ResponseOf'[r] \in IF d = "Unauthorized" THEN {"403"} ELSE {"307", "500"}
  <2>1. ServiceOf' = ServiceOf
    BY <1>1, <1>5 DEF ServiceOf
  <2>2. /\ RouteOf[ServiceOf[r]].unauthorized = {"403"}
        /\ RouteOf[ServiceOf[r]].unauthenticated = {"307", "500"}
    BY LayerOfRoute DEF LayerOf
  <2>3. CASE d = "Unauthorized"
    <3>1. Route!denied(r, {"403"})
      BY <1>1, <1>5, <2>1, <2>3 DEF Route!denied
    <3>2. QED
      BY <1>3, <2>2, <2>3, <3>1 DEF Route!Conclude, Route!backendVars
  <2>4. CASE d = "Unauthenticated"
    <3>1. Route!denied(r, {"307", "500"})
      BY <1>1, <1>5, <2>1, <2>4 DEF Route!denied
    <3>2. QED
      BY <1>3, <2>2, <2>4, <3>1 DEF Route!Conclude, Route!backendVars
  <2>5. QED
    BY <1>5, <2>3, <2>4
<1>6. QED
  BY <1>4, <1>5 DEF Concluded

\* What a request to the watched page is mapped to.
LEMMA AskedIs ==
  ASSUME NEW r \in Requests, Asked(r)
  PROVE  /\ StageOf[r] = RequireStage(r) /\ SessionOf[r] = visitor[r]
         /\ ServiceOf[r] = IF inside[r] THEN 2 ELSE 1
         /\ ResponseOf[r] = RequireResponse(response[r])
BY DEF StageOf, SessionOf, ServiceOf, ResponseOf

LEMMA AskedWillBe ==
  ASSUME NEW r \in Requests, Asked(r)'
  PROVE  /\ StageOf'[r] = RequireStage(r)' /\ SessionOf'[r] = visitor'[r]
         /\ ServiceOf'[r] = IF inside'[r] THEN 2 ELSE 1
         /\ ResponseOf'[r] = RequireResponse(response'[r])
BY DEF StageOf, SessionOf, ServiceOf, ResponseOf, RequireStage, RequireResponse

LEMMA AnonymousIsDecided ==
  ASSUME PagesInv, NEW r \in Requests, Asked(r), decide_anonymous(r)
  PROVE  Route!DecideAnonymous(r)
<1>1. /\ Leaves(r) /\ UNCHANGED Held /\ Asked(r)'
      /\ stage[r] = "decide" /\ visitor[r] = None /\ ~inside[r] /\ stage'[r] = "answer"
      /\ visitor'[r] = None /\ ~inside'[r] /\ response'[r] \in {"307", "500"}
  BY DEF PagesInv, TypeOK, UsersTypeOK, Progress, decide_anonymous, Responds, Goes, Leaves,
         tableVars, Held,
         GroupPermissions, Asked
<1>2. StageOf[r] = "decide" /\ SessionOf[r] = None /\ ServiceOf[r] = 1
  BY <1>1, AskedIs DEF RequireStage
<1>3. /\ StageOf'[r] = "done" /\ SessionOf'[r] = None /\ ServiceOf'[r] = 1
      /\ ResponseOf'[r] \in {"307", "500"}
  BY <1>1, AskedWillBe DEF RequireStage, RequireResponse
<1>4. Route!Conclude(r, "Unauthenticated")
  BY <1>1, <1>2, <1>3, Concludes DEF Concluded
<1>5. QED
  BY <1>2, <1>4, LayerOfRoute DEF Route!DecideAnonymous

LEMMA UserPermissionsAreRead ==
  ASSUME PagesInv, NEW r \in Requests, Asked(r), get_user_permissions(r)
  PROVE  Route!get_user_permissions(r)
<1>1. /\ Leaves(r) /\ UNCHANGED Held /\ Asked(r)'
      /\ stage[r] = "decide" /\ visitor[r] \in Users /\ ~inside[r] /\ stage'[r] = "groups"
      /\ visitor'[r] = visitor[r] /\ ~inside'[r] /\ response'[r] = response[r]
  BY DEF PagesInv, TypeOK, UsersTypeOK, Progress, get_user_permissions, Goes, Leaves, tableVars,
         Held,
         GroupPermissions, Asked, Opt
<1>2. StageOf[r] = "decide" /\ SessionOf[r] \in Users /\ ServiceOf[r] = 1
  BY <1>1, AskedIs DEF RequireStage
<1>3. /\ StageOf'[r] = "groups" /\ SessionOf'[r] = SessionOf[r]
      /\ ServiceOf'[r] = ServiceOf[r] /\ ResponseOf'[r] = ResponseOf[r]
  BY <1>1, AskedIs, AskedWillBe DEF RequireStage, RequireResponse
<1>4. /\ StageOf' = [StageOf EXCEPT ![r] = "groups"]
      /\ SessionOf' = [SessionOf EXCEPT ![r] = SessionOf[r]]
      /\ ServiceOf' = [ServiceOf EXCEPT ![r] = ServiceOf[r]]
      /\ ResponseOf' = [ResponseOf EXCEPT ![r] = ResponseOf[r]]
  BY <1>1, <1>3, MappedElsewhere
<1>5. SessionOf' = SessionOf
  BY <1>4 DEF SessionOf
<1>6. ServiceOf' = ServiceOf
  BY <1>4 DEF ServiceOf
<1>7. ResponseOf' = ResponseOf
  BY <1>4 DEF ResponseOf
<1>8. SeenOf' = [SeenOf EXCEPT ![r] = OwnOf[SessionOf[r]]]
  BY <1>2 DEF SeenOf, OwnOf
<1>9. QED
  BY <1>1, <1>2, <1>4, <1>5, <1>6, <1>7, <1>8, LayerOfRoute
     DEF Route!get_user_permissions, Route!backendVars, OwnOf, RouteOf

LEMMA GroupPermissionsAreRead ==
  ASSUME PagesInv, NEW r \in Requests, Asked(r),
         get_group_permissions(r) \/ permissions_fail(r)
  PROVE  Route!get_group_permissions(r) \/ Route!PermissionsFail(r)
<1>1. /\ Leaves(r) /\ UNCHANGED Held /\ Asked(r)'
      /\ stage[r] = "groups" /\ visitor[r] \in Users /\ ~inside[r] /\ visitor'[r] = visitor[r]
  BY DEF PagesInv, TypeOK, UsersTypeOK, Progress, get_group_permissions, permissions_fail,
         Responds, Goes,
         Leaves, tableVars, Held, GroupPermissions, Asked, Opt
<1>2. StageOf[r] = "groups" /\ SessionOf[r] = visitor[r] /\ ServiceOf[r] = 1
  BY <1>1, AskedIs DEF RequireStage
<1>3. SessionOf'[r] = SessionOf[r]
  BY <1>1, <1>2, AskedWillBe
<1>4. Route!Matches(Route!predicate(r), Route!AllPermissions(r))
        <=> Required[page[r]] \in GroupPermissions(visitor[r])
  <2>1. Route!AllPermissions(r) = GroupPermissions(visitor[r])
    BY <1>1, <1>2 DEF Route!AllPermissions, SeenOf, Held
  <2>2. page[r] = Watched
    BY DEF Asked
  <2>3. Route!predicate(r).mode = "All" /\ Route!predicate(r).required = {Required[Watched]}
    BY <1>2, LayerOfRoute
  <2>4. QED
    BY <2>1, <2>2, <2>3 DEF Route!Matches
<1>5. CASE get_group_permissions(r) /\ Required[page[r]] \in GroupPermissions(visitor[r])
  <2>1. stage'[r] = "handler" /\ inside'[r] /\ response'[r] = response[r]
    BY <1>5 DEF PagesInv, TypeOK, UsersTypeOK, get_group_permissions, Goes
  <2>2. StageOf'[r] = "handler" /\ ServiceOf'[r] = 2 /\ ResponseOf'[r] = ResponseOf[r]
    BY <1>1, <2>1, AskedIs, AskedWillBe DEF RequireStage, RequireResponse
  <2>3. Route!Conclude(r, "Allow")
    BY <1>1, <1>2, <1>3, <2>2, Concludes DEF Concluded
  <2>4. QED
    BY <1>2, <1>4, <1>5, <2>3 DEF Route!get_group_permissions
<1>6. CASE \/ get_group_permissions(r) /\ Required[page[r]] \notin GroupPermissions(visitor[r])
          \/ permissions_fail(r)
  <2>1. stage'[r] = "answer" /\ ~inside'[r] /\ response'[r] = "403"
    BY <1>1, <1>6
       DEF PagesInv, TypeOK, UsersTypeOK, get_group_permissions, permissions_fail, Responds, Goes
  <2>2. StageOf'[r] = "done" /\ ServiceOf'[r] = 1 /\ ResponseOf'[r] = "403"
    BY <1>1, <2>1, AskedWillBe DEF RequireStage, RequireResponse
  <2>3. Route!Conclude(r, "Unauthorized")
    BY <1>1, <1>2, <1>3, <2>2, Concludes DEF Concluded
  <2>4. QED
    BY <1>2, <2>3 DEF Route!PermissionsFail
<1>7. QED
  BY <1>5, <1>6

LEMMA PageIsHandled ==
  ASSUME PagesInv, NEW r \in Requests, Asked(r), handle(r)
  PROVE  Route!Handle(r)
<1>1. /\ Leaves(r) /\ UNCHANGED Held /\ Asked(r)'
      /\ stage[r] = "handler" /\ stage'[r] = "answer" /\ response'[r] = "200"
      /\ visitor'[r] = visitor[r] /\ inside'[r] = inside[r]
  BY DEF PagesInv, TypeOK, UsersTypeOK, Progress, handle, Responds, Goes, Leaves, tableVars, Held,
         GroupPermissions, Asked
<1>2. StageOf[r] = "handler"
  BY <1>1, AskedIs DEF RequireStage
<1>3. /\ StageOf'[r] = "done" /\ SessionOf'[r] = SessionOf[r]
      /\ ServiceOf'[r] = ServiceOf[r] /\ ResponseOf'[r] = "handled"
  BY <1>1, AskedIs, AskedWillBe DEF RequireStage, RequireResponse
<1>4. /\ StageOf' = [StageOf EXCEPT ![r] = "done"]
      /\ SessionOf' = [SessionOf EXCEPT ![r] = SessionOf[r]]
      /\ ServiceOf' = [ServiceOf EXCEPT ![r] = ServiceOf[r]]
      /\ ResponseOf' = [ResponseOf EXCEPT ![r] = "handled"]
  BY <1>1, <1>3, MappedElsewhere
<1>5. SessionOf' = SessionOf
  BY <1>4 DEF SessionOf
<1>6. ServiceOf' = ServiceOf
  BY <1>4 DEF ServiceOf
<1>7. QED
  BY <1>1, <1>2, <1>4, <1>5, <1>6
     DEF Route!Handle, Route!backendVars, OwnOf, RouteOf, SeenOf

LEMMA RequestEnds ==
  ASSUME PagesInv, NEW r \in Requests, Asked(r), answer(r) \/ dropped(r)
  PROVE  Route!Dropped(r) \/ UNCHANGED Route!vars
<1>1. /\ Leaves(r) /\ UNCHANGED Held /\ Asked(r)' /\ stage'[r] = "done"
      /\ visitor'[r] = visitor[r] /\ inside'[r] = inside[r] /\ response'[r] = response[r]
      /\ stage[r] \in {"decide", "groups", "handler", "answer", "done"}
  BY PermissionsAssumption
     DEF PagesInv, TypeOK, UsersTypeOK, Progress, answer, dropped, Goes, Leaves, tableVars, Held,
         GroupPermissions, Asked
<1>2. /\ StageOf'[r] = "done" /\ SessionOf'[r] = SessionOf[r]
      /\ ServiceOf'[r] = ServiceOf[r] /\ ResponseOf'[r] = ResponseOf[r]
  BY <1>1, AskedIs, AskedWillBe DEF RequireStage, RequireResponse
<1>3. CASE stage[r] \in {"answer", "done"}
  <2>1. StageOf[r] = "done"
    BY <1>3, AskedIs DEF RequireStage
  <2>2. QED
    BY <1>1, <1>2, <2>1, SameStutters
<1>4. CASE stage[r] \in {"decide", "groups", "handler"}
  <2>1. StageOf[r] \in {"decide", "groups", "handler"}
    BY <1>4, AskedIs DEF RequireStage
  <2>2. /\ StageOf' = [StageOf EXCEPT ![r] = "done"]
        /\ SessionOf' = [SessionOf EXCEPT ![r] = SessionOf[r]]
        /\ ServiceOf' = [ServiceOf EXCEPT ![r] = ServiceOf[r]]
        /\ ResponseOf' = [ResponseOf EXCEPT ![r] = ResponseOf[r]]
    BY <1>1, <1>2, MappedElsewhere
  <2>3. SessionOf' = SessionOf
    BY <2>2 DEF SessionOf
  <2>4. ServiceOf' = ServiceOf
    BY <2>2 DEF ServiceOf
  <2>5. ResponseOf' = ResponseOf
    BY <2>2 DEF ResponseOf
  <2>6. QED
    BY <1>1, <2>1, <2>2, <2>3, <2>4, <2>5
       DEF Route!Dropped, Route!backendVars, OwnOf, RouteOf, SeenOf
<1>5. QED
  BY <1>1, <1>3, <1>4

LEMMA RowsChangePermissions ==
  ASSUME PagesInv, change_row
  PROVE  Route!ChangePermissions
<1>1. PagesInv'
  BY NextInv DEF AppNext
<1>2. Held' \in [Users -> SUBSET Permissions]
  <2>1. ASSUME NEW u \in Users, NEW p \in GroupPermissions(u)' PROVE p \in Permissions
    <3>1. PICK gp \in groups_permissions' : p = gp[2]
      BY DEF GroupPermissions
    <3>2. gp \in Groups \X Permissions
      BY <1>1, <3>1 DEF PagesInv, TypeOK, UsersTypeOK
    <3>3. QED
      BY <3>1, <3>2
  <2>2. QED
    BY <2>1 DEF Held
<1>3. OwnOf' \in [Users -> SUBSET Permissions]
  BY DEF OwnOf
<1>4. UNCHANGED <<stage, page, visitor, inside, response>>
  BY DEF change_row, requestVars
<1>5. UNCHANGED <<StageOf, SessionOf, ServiceOf, ResponseOf, SeenOf, RouteOf>>
  BY <1>4 DEF StageOf, SessionOf, ServiceOf, ResponseOf, SeenOf, RouteOf, Asked, RequireStage,
              RequireResponse
<1>6. QED
  BY <1>2, <1>3, <1>5 DEF Route!ChangePermissions, Route!requestVars

\* A request that has not come in, or came for a form, asks for no page.
LEMMA OthersLeaveRoute ==
  ASSUME PagesInv, NEW r \in Requests,
         \/ \E c \in Clients : \/ \E u \in Users : post_login(r, c, u)
                             \/ form_refused(r, c) \/ get_logout(r, c)
         \/ \E c \in Clients : \E p \in Pages \ {Watched} : visit(r, c, p)
         \/ login_succeeds(r) \/ login_fails(r)
  PROVE  UNCHANGED Route!vars
<1>1. page[r] = None
  BY DEF PagesInv, Progress, post_login, ReadRow, form_refused, get_logout, visit, login_succeeds,
         login_fails
<1>2. CASE \E c \in Clients : \E p \in Pages \ {Watched} : visit(r, c, p)
  <2>1. /\ Leaves(r) /\ UNCHANGED tableVars /\ page'[r] # Watched
    BY <1>2 DEF PagesInv, TypeOK, UsersTypeOK, visit, Goes, Leaves
  <2>2. QED
    BY <1>1, <2>1, ElsewhereStutters, PermissionsAssumption
       DEF Asked, Held, GroupPermissions, tableVars
<1>3. CASE \/ \E c \in Clients : \/ \E u \in Users : post_login(r, c, u)
                               \/ form_refused(r, c) \/ get_logout(r, c)
          \/ login_succeeds(r) \/ login_fails(r)
  <2>1. UNCHANGED <<tableVars, page, visitor, inside>>
    BY <1>3 DEF post_login, ReadRow, form_refused, get_logout, login_succeeds, login_fails
  <2>2. \A q \in Requests \ {r} : stage'[q] = stage[q] /\ response'[q] = response[q]
    BY <1>3 DEF PagesInv, TypeOK, UsersTypeOK, post_login, ReadRow, form_refused, get_logout,
                login_succeeds,
                login_fails, Responds, Goes
  <2>3. Leaves(r) /\ ~Asked(r) /\ ~Asked(r)'
    BY <1>1, <2>1, <2>2, PermissionsAssumption DEF Leaves, Asked
  <2>4. QED
    BY <2>1, <2>3, ElsewhereStutters DEF Held, GroupPermissions, tableVars
<1>4. QED
  BY <1>2, <1>3

LEMMA NextRoute ==
  ASSUME PagesInv, AppNext
  PROVE  [Route!Next]_(Route!vars)
<1>1. ASSUME NEW r \in Requests, NEW c \in Clients, visit(r, c, Watched)
      PROVE  Route!Next
  BY <1>1, VisitArrives
<1>2. ASSUME NEW r \in Requests, Asked(r),
             \/ decide_anonymous(r) \/ get_user_permissions(r) \/ get_group_permissions(r)
             \/ permissions_fail(r) \/ handle(r)
      PROVE  Route!Next
  BY <1>2, AnonymousIsDecided, UserPermissionsAreRead, GroupPermissionsAreRead, PageIsHandled
     DEF Route!Next, Route!Succeed, Route!Decide
<1>3. ASSUME NEW r \in Requests, Asked(r), answer(r) \/ dropped(r)
      PROVE  [Route!Next]_(Route!vars)
  BY <1>3, RequestEnds DEF Route!Next, Route!Succeed
<1>4. ASSUME NEW r \in Requests, ~Asked(r),
             \/ decide_anonymous(r) \/ get_user_permissions(r) \/ get_group_permissions(r)
             \/ permissions_fail(r) \/ handle(r) \/ answer(r) \/ dropped(r)
      PROVE  UNCHANGED Route!vars
  <2>1. UNCHANGED <<tableVars, page>>
    BY <1>4 DEF decide_anonymous, get_user_permissions, get_group_permissions, permissions_fail,
                handle, answer, dropped
  <2>2. Leaves(r)
    BY <1>4 DEF PagesInv, TypeOK, UsersTypeOK, decide_anonymous, get_user_permissions,
                get_group_permissions, permissions_fail, handle, answer, dropped, Responds,
                Goes, Leaves
  <2>3. QED
    BY <1>4, <2>1, <2>2, ElsewhereStutters DEF Asked, Held, GroupPermissions, tableVars
<1>5. CASE change_row
  BY <1>5, RowsChangePermissions DEF Route!Next, Route!Succeed
<1>6. CASE expire
  BY <1>6, Stutters
     DEF expire, tableVars, requestVars, mappedVars, Held, GroupPermissions, StageOf, SessionOf,
         ServiceOf, ResponseOf, Asked, RequireStage, RequireResponse
<1>7. QED
  BY <1>1, <1>2, <1>3, <1>4, <1>5, <1>6, OthersLeaveRoute DEF AppNext

LEMMA StepRoute ==
  ASSUME PagesInv, [AppNext /\ NoteHeld]_<<appVars, ever>>
  PROVE  [Route!Next]_(Route!vars)
<1>1. CASE UNCHANGED <<appVars, ever>>
  BY <1>1, Stutters
     DEF appVars, tableVars, requestVars, mappedVars, Held, GroupPermissions, StageOf, SessionOf,
         ServiceOf, ResponseOf, Asked, RequireStage, RequireResponse
<1>2. QED
  BY <1>1, NextRoute

\* The requests to a page of src/examples/permissions are those of a route behind one
\* layer of Require, with the permissions that the join finds for the groups.
THEOREM PagesAreRoutes == AppSpec => PageImplementsRequire
<1> QED
  BY InitRoute, InitInv, NextInvStutter, StepRoute, PTL
     DEF AppSpec, PageImplementsRequire, Route!Spec

-----------------------------------------------------------------------------
(* The sqlite example: a flash message is seen until a request that has     *)
(* loaded it is answered, and by nobody after that; requests that have      *)
(* nothing to do with messages leave the sessions of others alone.          *)

\* The message the store has under key k, and the one in r's copy of its session.
Kept(k) == IF entry[k] = None THEN None ELSE entry[k].state.app
Copy(r) == load(inner[r].session)

\* What a request has made of its copy, by how far it has got: the handlers that
\* wait have not touched it, and those that have answered have cleared what they
\* loaded.
FlashProgress(r) ==
  /\ who[r] = None => step[r] = "idle" /\ shown[r] = None
  /\ step[r] # "answer" => outgoing[r] = None
  /\ step[r] = "verify" =>
       /\ Copy(r) = incoming[r] /\ Status(r) \in {"Unchanged", "Purged"}
       /\ Status(r) = "Purged" => Copy(r) = None
       /\ checked[r] # None
  /\ step[r] = "answer" =>
       /\ Copy(r) \in {None, outgoing[r]}
       /\ incoming[r] # None => Status(r) # "Unchanged"
       /\ incoming[r] = None /\ outgoing[r] = None => Status(r) \in {"Unchanged", "Purged"}

\* A message is with the request that sends it, and with nobody else, until that is
\* answered; then at most one key has it, and it is the key of whoever has loaded it.
Located ==
  /\ \A k \in Keys : Kept(k) \in Opt(sent) \ settled
  /\ \A r \in Requests : incoming[r] \in Opt(sent) /\ outgoing[r] \in Opt(sent) \ settled
  /\ \A k, l \in Keys : Kept(k) # None /\ Kept(k) = Kept(l) => k = l
  /\ \A r \in Requests, k \in Keys : outgoing[r] # None => Kept(k) # outgoing[r]
  /\ \A r, q \in Requests :
       outgoing[r] # None => incoming[q] # outgoing[r] /\ (outgoing[q] = outgoing[r] => q = r)
  /\ \A r \in Requests, k \in Keys : incoming[r] # None /\ Kept(k) = incoming[r] => k = key[r]

FlashInv == FlashTypeOK /\ Located /\ None \notin sent /\ \A r \in Requests : FlashProgress(r)

-----------------------------------------------------------------------------

(* The parts a step is made of.                                             *)

\* What a request loads is what the store has under the key it goes on with.
LEMMA IncomingMessage ==
  ASSUME FlashTypeOK, NEW c \in Clients
  PROVE  LET i == Incoming(c, get_user)
         IN  /\ i \in Inner /\ IncomingKey(c) \in Opt(Keys)
             /\ i.session.status \in {"Unchanged", "Purged"}
             /\ load(i.session) # None =>
                  IncomingKey(c) \in Keys /\ Kept(IncomingKey(c)) = load(i.session)
<1> DEFINE i == Incoming(c, get_user)
<1>1. i \in Inner /\ IncomingKey(c) \in Opt(Keys)
  BY IncomingType, get_userType DEF FlashTypeOK
<1>2. i.session.status \in {"Unchanged", "Purged"}
  BY DEF Incoming, NoInner, NewInner, Loaded, from_session, Purge
<1>3. ASSUME load(i.session) # None
      PROVE  IncomingKey(c) \in Keys /\ Kept(IncomingKey(c)) = load(i.session)
  <2>1. LoadedState(c) # None
    BY <1>3 DEF Incoming, NoInner, NewInner, Loaded, EmptyState, load
  <2>2. i.session.state = LoadedState(c)
    BY <1>3, <2>1 DEF Incoming, NewInner, Loaded, from_session, Purge, EmptyState, load
  <2>3. jar[c] # None /\ IncomingKey(c) = jar[c]
    BY <2>1 DEF LoadedState, IncomingKey
  <2>4. entry[jar[c]] # None /\ LoadedState(c) = entry[jar[c]].state
    BY <2>1, <2>3 DEF LoadedState, Store!Answer, Store!Live, Store!Held
  <2>5. QED
    BY <1>1, <2>2, <2>3, <2>4 DEF Kept, Opt, load
<1>4. QED
  BY <1>1, <1>2, <1>3

LEMMA IncomingPurged ==
  ASSUME NEW c, Incoming(c, get_user).session.status = "Purged"
  PROVE  load(Incoming(c, get_user).session) = None
BY DEF Incoming, NoInner, NewInner, Loaded, from_session, Purge, EmptyState, load

\* The framework leaves the new message, or nothing, and changes the session only if
\* there was one before or is one now.
LEMMA Stores ==
  ASSUME NEW session \in Session, NEW m \in Opt(Messages)
  PROVE  /\ store(session, m) \in Session
         /\ session.status # "Purged" => load(store(session, m)) = m
         /\ session.status = "Purged" => store(session, m) = session
         /\ m = None /\ load(session) = None => store(session, m) = session
         /\ load(session) # None => store(session, m).status # "Unchanged"
<1>1. session.state \in State
  BY DEF Session
<1> DEFINE state == [session.state EXCEPT !.app = m]
<1>2. state \in State /\ state.app = m
  BY <1>1 DEF State, Opt, Messages
<1>3. WithApp(session, m) = Write(session, state)
  BY DEF WithApp
<1> HIDE DEF state
<1>4. /\ Write(session, state) \in Session
      /\ session.status = "Purged" => Write(session, state) = session
      /\ session.status # "Purged" =>
           Write(session, state).state = state /\ Write(session, state).status # "Unchanged"
      /\ session.status = "Purged" => Write(session, state).status # "Unchanged"
  BY <1>2 DEF Write, Session, SessionStatus
<1>5. QED
  BY <1>2, <1>3, <1>4 DEF store, load

LEMMA LoginKeepsMessage ==
  ASSUME NEW i \in Inner, NEW user \in User
  PROVE  /\ login(i, user) \in Inner
         /\ load(login(i, user).session) = load(i.session)
         /\ login(i, user).session.status = "Purged" <=> i.session.status = "Purged"
<1>1. login(i, user) \in Inner
  BY CallType
<1>2. i.session \in Session /\ i.session.state \in State
  BY DEF Inner, Session
<1>3. /\ Renew(i.session).state = i.session.state /\ Renew(i.session) \in Session
      /\ Renew(i.session).status = "Purged" <=> i.session.status = "Purged"
  BY <1>2 DEF Renew, Session, SessionStatus
<1>4. \A session \in Session :
        /\ update_session(session, DataOf(user)).state.app = session.state.app
        /\ update_session(session, DataOf(user)).status = "Purged" <=> session.status = "Purged"
  BY DEF update_session, Write, Session, State
<1>5. QED
  BY <1>1, <1>2, <1>3, <1>4 DEF login, NewInner, load

\* What a response does to the record of its request, and to those of others.
LEMMA CommitClears ==
  ASSUME SessionTypeOK, NEW r \in Requests, NEW policy, Commit(r, policy), key[r] # None,
         Status(r) # "Unchanged"
  PROVE  entry'[key[r]] = None \/ entry'[key[r]].state = StateOf(r)
<1>1. key[r] \in Keys /\ entry \in [Keys -> Store!Entry \cup {None}]
  BY DEF SessionTypeOK, Store!StoreTypeOK, Opt
<1>2. CASE CommitChanged(r)
  BY <1>1, <1>2 DEF CommitChanged, Store!Update, Store!Put
<1>3. CASE CommitPurged(r)
  BY <1>1, <1>3 DEF CommitPurged, Store!Delete, Store!Drop
<1>4. CASE CommitRenewed(r)
  BY <1>1, <1>4 DEF CommitRenewed
<1>5. QED
  BY <1>2, <1>3, <1>4 DEF Commit, CommitNew, CommitUnchanged

LEMMA CommitSilent ==
  ASSUME SessionTypeOK, NEW r \in Requests, NEW policy, Commit(r, policy),
         Status(r) \in {"Unchanged", "Purged"}, NEW k \in Keys, entry[k] # None, entry'[k] # None
  PROVE  entry'[k].state = entry[k].state
<1>1. entry \in [Keys -> Store!Entry \cup {None}]
  BY DEF SessionTypeOK, Store!StoreTypeOK
<1>2. CASE CommitNew(r)
  BY <1>1, <1>2 DEF CommitNew, Fresh, Store!Save, Store!Put, Store!Held
<1>3. CASE CommitPurged(r)
  BY <1>1, <1>3 DEF CommitPurged, Store!Delete, Store!Drop
<1>4. CASE CommitUnchanged(r, policy)
  BY <1>1, <1>4 DEF CommitUnchanged, Store!UpdateTtl, Store!Put, Store!Held
<1>5. QED
  BY <1>2, <1>3, <1>4 DEF Commit, CommitChanged, CommitRenewed

-----------------------------------------------------------------------------
(* Every step keeps the invariant.                                          *)

\* A request comes in with the message of its session, and that stays where it is.
LEMMA EnterLocated ==
  ASSUME FlashInv, NEW r \in Requests, NEW c \in Clients, NEW i, Enter(r, c, i),
         incoming' = [incoming EXCEPT ![r] = load(Incoming(c, get_user).session)],
         UNCHANGED <<outgoing, sent, settled>>
  PROVE  Located'
<1> DEFINE m == load(Incoming(c, get_user).session)
<1>1. m # None => IncomingKey(c) \in Keys /\ Kept(IncomingKey(c)) = m
  BY IncomingMessage DEF FlashInv
<1> HIDE DEF m
<1>2. /\ key' = [key EXCEPT ![r] = IncomingKey(c)] /\ UNCHANGED entry
      /\ incoming' = [incoming EXCEPT ![r] = m]
  BY DEF Enter, m
<1>3. \A k \in Keys : Kept(k)' = Kept(k)
  BY <1>2 DEF Kept
<1>4. \A q \in Requests : incoming'[q] = (IF q = r THEN m ELSE incoming[q])
                          /\ key'[q] = (IF q = r THEN IncomingKey(c) ELSE key[q])
  BY <1>2 DEF FlashInv, FlashTypeOK, SessionTypeOK
<1>5. m # None => m \in sent
  BY <1>1 DEF FlashInv, Located, Opt
<1>6. \A q \in Requests : outgoing[q] # None => m # outgoing[q]
  BY <1>1 DEF FlashInv, Located
<1>7. \A k \in Keys : m # None /\ Kept(k) = m => k = IncomingKey(c)
  BY <1>1 DEF FlashInv, Located
<1>8. QED
  BY <1>3, <1>4, <1>5, <1>6, <1>7 DEF FlashInv, Located, Opt

LEMMA AnswersInv ==
  ASSUME FlashInv, NEW r \in Requests, NEW c \in Clients, NEW j \in Inner,
         \/ j.session = Incoming(c, get_user).session
         \/ j.session = Purge(EmptyState),
         NEW p \in {None, load(Incoming(c, get_user).session)},
         Answers(r, c, Incoming(c, get_user), j, p), UNCHANGED settled
  PROVE  FlashInv'
<1> DEFINE i == Incoming(c, get_user)
           session == store(j.session, None)
           a == [j EXCEPT !.session = session]
<1>1. /\ Enter(r, c, a) /\ incoming' = [incoming EXCEPT ![r] = load(i.session)]
      /\ shown' = [shown EXCEPT ![r] = p] /\ step' = [step EXCEPT ![r] = "answer"]
      /\ UNCHANGED <<passwords, checked, outgoing, sent, settled>>
  BY DEF Answers
<1>2. /\ i \in Inner /\ i.session \in Session /\ i.session.status \in {"Unchanged", "Purged"}
      /\ load(i.session) \in Opt(Messages)
  BY IncomingMessage DEF FlashInv, Inner, Session, State, load, Messages
<1>3. Located'
  BY <1>1, EnterLocated
<1> HIDE DEF i
<1>4. /\ j.session \in Session /\ session \in Session /\ load(session) = None
      /\ load(i.session) # None => session.status # "Unchanged"
      /\ load(i.session) = None => session.status \in {"Unchanged", "Purged"}
  <2>1. j.session \in Session /\ None \in Opt(Messages)
    BY DEF Inner, Opt
  <2>2. CASE j.session = i.session
    <3>1. i.session.status = "Purged" \/ i.session.status = "Unchanged"
      BY <1>2
    <3>2. CASE i.session.status = "Unchanged"
      BY <1>2, <2>1, <2>2, <3>2, Stores
    <3>3. CASE i.session.status = "Purged"
      <4>1. load(i.session) = None
        BY <3>3, IncomingPurged DEF i
      <4>2. QED
        BY <1>2, <2>1, <2>2, <3>3, <4>1, Stores
    <3>4. QED
      BY <3>1, <3>2, <3>3
  <2>3. CASE j.session = Purge(EmptyState)
    <3>1. j.session.status = "Purged" /\ load(j.session) = None
      BY <2>3 DEF Purge, EmptyState, load
    <3>2. session = j.session
      BY <2>1, <3>1, Stores
    <3>3. QED
      BY <2>1, <3>1, <3>2
  <2>4. QED
    BY <2>2, <2>3 DEF i
<1>5. a \in Inner /\ a.session = session
  BY <1>4 DEF Inner
<1> HIDE DEF a, session
<1>6. SessionTypeOK'
  BY <1>1, <1>5, EnterType, get_userType DEF FlashInv, FlashTypeOK
<1>7. FlashTypeOK'
  <2>1. p \in {None, load(i.session)}
    BY DEF i
  <2>2. /\ shown' \in [Requests -> Opt(Messages)]
        /\ \A q \in Requests : shown'[q] \in {None, incoming'[q]}
    BY <1>1, <1>2, <2>1 DEF FlashInv, FlashTypeOK, Opt
  <2>3. /\ UsersTypeOK' /\ step' \in [Requests -> {"idle", "verify", "answer"}]
        /\ incoming' \in [Requests -> Opt(Messages)]
    BY <1>1, <1>2 DEF FlashInv, FlashTypeOK, UsersTypeOK
  <2>4. QED
    BY <1>1, <1>6, <2>2, <2>3 DEF FlashInv, FlashTypeOK
<1>8. ASSUME NEW q \in Requests PROVE FlashProgress(q)'
  <2>1. CASE q = r
    <3>1. /\ inner'[q].session = session /\ who'[q] = c /\ step'[q] = "answer"
          /\ incoming'[q] = load(i.session) /\ outgoing'[q] = outgoing[q]
      BY <1>1, <1>5, <2>1 DEF Enter, FlashInv, FlashTypeOK, SessionTypeOK
    <3>2. outgoing[q] = None
      BY <1>1, <2>1 DEF FlashInv, FlashProgress, Enter
    <3>3. QED
      BY <1>4, <3>1, <3>2, SessionAssumption DEF FlashProgress, Copy, Status
  <2>2. CASE q # r
    BY <1>1, <2>2 DEF Enter, FlashInv, FlashTypeOK, SessionTypeOK, FlashProgress, Copy, Status, load
  <2>3. QED
    BY <2>1, <2>2
<1>9. QED
  BY <1>1, <1>3, <1>7, <1>8 DEF FlashInv

LEMMA PostLoginInv ==
  ASSUME FlashInv, NEW r \in Requests, NEW c \in Clients, NEW u \in Users,
         sqlite_post_login(r, c, u), UNCHANGED settled
  PROVE  FlashInv'
<1> DEFINE i == Incoming(c, get_user)
<1>1. /\ Enter(r, c, i) /\ incoming' = [incoming EXCEPT ![r] = load(i.session)]
      /\ checked' = [checked EXCEPT ![r] = get_user[u]]
      /\ step' = [step EXCEPT ![r] = "verify"]
      /\ UNCHANGED <<passwords, outgoing, shown, sent, settled>>
  BY DEF sqlite_post_login, ReadRow
<1>2. /\ i \in Inner /\ i.session.status \in {"Unchanged", "Purged"}
      /\ load(i.session) \in Opt(Messages)
  BY IncomingMessage DEF FlashInv, Inner, Session, State, load, Messages
<1>3. Located'
  BY <1>1, EnterLocated
<1>4. get_user[u] \in User /\ get_user[u] # None
  BY get_userType, SessionAssumption DEF FlashInv, FlashTypeOK
<1>5. SessionTypeOK'
  BY <1>1, <1>2, EnterType, get_userType DEF FlashInv, FlashTypeOK
<1> HIDE DEF i
<1>6. outgoing[r] = None /\ shown[r] = None
  BY <1>1 DEF FlashInv, FlashProgress, Enter
<1>7. FlashTypeOK'
  BY <1>1, <1>2, <1>4, <1>5, <1>6 DEF FlashInv, FlashTypeOK, UsersTypeOK, Opt
<1>8. i.session.status = "Purged" => load(i.session) = None
  BY IncomingPurged DEF i
<1>9. ASSUME NEW q \in Requests PROVE FlashProgress(q)'
  BY <1>1, <1>2, <1>4, <1>6, <1>8, SessionAssumption
     DEF Enter, FlashInv, FlashTypeOK, SessionTypeOK, UsersTypeOK, FlashProgress, Copy, Status, load
<1>10. QED
  BY <1>1, <1>3, <1>7, <1>9 DEF FlashInv

\* The handler of a form is done: its message is with it alone.
LEMMA SendsInv ==
  ASSUME FlashInv, NEW r \in Requests, NEW i \in Inner, NEW m \in Opt(Messages), m \notin sent,
         load(i.session) = Copy(r), i.session.status = "Purged" <=> Status(r) = "Purged",
         m = None => i = inner[r], Sends(r, i, m), UNCHANGED settled
  PROVE  FlashInv'
<1> DEFINE session == store(i.session, m)
           j == [i EXCEPT !.session = session]
<1>1. /\ step[r] = "verify" /\ inner' = [inner EXCEPT ![r] = j]
      /\ outgoing' = [outgoing EXCEPT ![r] = m] /\ sent' = sent \cup ({m} \ {None})
      /\ step' = [step EXCEPT ![r] = "answer"]
      /\ UNCHANGED <<entry, jar, who, key, passwords, checked, incoming, shown, settled>>
  BY DEF Sends
<1>2. /\ load(i.session) = incoming[r] /\ outgoing[r] = None /\ who[r] # None
      /\ Status(r) \in {"Unchanged", "Purged"} /\ (Status(r) = "Purged" => incoming[r] = None)
  BY <1>1 DEF FlashInv, FlashProgress
<1>3. i.session \in Session
  BY DEF Inner
<1>4. /\ session \in Session /\ load(session) \in {None, m}
      /\ incoming[r] # None => session.status # "Unchanged"
      /\ incoming[r] = None /\ m = None => session.status \in {"Unchanged", "Purged"}
  BY <1>2, <1>3, Stores DEF Status
<1>5. j \in Inner /\ j.session = session
  BY <1>4 DEF Inner
<1> HIDE DEF j, session
<1>6. FlashTypeOK'
  <2>1. SessionTypeOK'
    BY <1>1, <1>5 DEF FlashInv, FlashTypeOK, SessionTypeOK, Store!StoreTypeOK
  <2>2. QED
    BY <1>1, <2>1 DEF FlashInv, FlashTypeOK, UsersTypeOK
<1>7. Located'
  <2>1. /\ \A k \in Keys : Kept(k)' = Kept(k)
        /\ \A q \in Requests : outgoing'[q] = IF q = r THEN m ELSE outgoing[q]
    BY <1>1 DEF Kept, FlashInv, FlashTypeOK
  <2>2. /\ m \in Opt(sent') \ settled /\ sent \subseteq sent' /\ settled' = settled
        /\ incoming' = incoming /\ key' = key
    BY <1>1 DEF FlashInv, FlashTypeOK, Opt
  <2>3. \A k \in Keys : Kept(k)' \in Opt(sent') \ settled' /\ Kept(k) \in Opt(sent)
    BY <2>1, <2>2 DEF FlashInv, Located, Opt
  <2>4. \A q \in Requests : /\ incoming'[q] \in Opt(sent') /\ incoming[q] \in Opt(sent)
                            /\ outgoing'[q] \in Opt(sent') \ settled' /\ outgoing[q] \in Opt(sent)
    BY <2>1, <2>2 DEF FlashInv, Located, Opt
  <2>5. \A q \in Requests, k \in Keys : outgoing'[q] # None => Kept(k)' # outgoing'[q]
    BY <2>1, <2>3 DEF FlashInv, Located, Opt
  <2>6. \A q, p \in Requests :
          outgoing'[q] # None =>
            incoming'[p] # outgoing'[q] /\ (outgoing'[p] = outgoing'[q] => p = q)
    BY <2>1, <2>2, <2>4 DEF FlashInv, Located, Opt
  <2>7. QED
    BY <2>1, <2>2, <2>3, <2>4, <2>5, <2>6 DEF FlashInv, Located
<1>8. ASSUME NEW q \in Requests PROVE FlashProgress(q)'
  <2>1. CASE q = r
    <3>1. /\ inner'[q].session = session /\ who'[q] = who[q] /\ step'[q] = "answer"
          /\ incoming'[q] = incoming[q] /\ outgoing'[q] = m
      BY <1>1, <1>5, <2>1 DEF FlashInv, FlashTypeOK, SessionTypeOK
    <3>2. QED
      BY <1>2, <1>4, <2>1, <3>1 DEF FlashProgress, Copy, Status
  <2>2. CASE q # r
    BY <1>1, <2>2 DEF FlashInv, FlashTypeOK, SessionTypeOK, FlashProgress, Copy, Status, load
  <2>3. QED
    BY <2>1, <2>2
<1>9. QED
  BY <1>1, <1>6, <1>7, <1>8 DEF FlashInv

\* A request ends: what the store has by then is what it had, or what the request
\* leaves under one key.
LEMMA EndInv ==
  ASSUME FlashInv, NEW r \in Requests, NEW k \in Opt(Keys), CommitsAs(r, k), SessionTypeOK',
         k = None \/ step[r] = "answer", Forget(r),
         \/ UNCHANGED settled
         \/ /\ settled' = settled \cup ({incoming[r]} \ {None})
            /\ \A l \in Keys : incoming[r] # None => Kept(l)' # incoming[r]
  PROVE  FlashInv'
<1>1. /\ who' = [who EXCEPT ![r] = None] /\ key' = [key EXCEPT ![r] = None]
      /\ inner' = [inner EXCEPT ![r] = NoInner]
  BY DEF CommitsAs, End
<1>2. /\ step' = [step EXCEPT ![r] = "idle"] /\ checked' = [checked EXCEPT ![r] = None]
      /\ incoming' = [incoming EXCEPT ![r] = None] /\ shown' = [shown EXCEPT ![r] = None]
      /\ outgoing' = [outgoing EXCEPT ![r] = None] /\ UNCHANGED <<passwords, sent>>
  BY DEF Forget
<1>3. ASSUME NEW l \in Keys
      PROVE  \/ Kept(l)' = None \/ Kept(l)' = Kept(l)
             \/ l = k /\ Kept(l)' = outgoing[r]
  <2>1. \/ entry'[l] = None
        \/ entry[l] # None /\ entry'[l].state = entry[l].state
        \/ l = k /\ entry'[l].state = StateOf(r)
    BY DEF CommitsAs
  <2>2. CASE entry'[l] = None
    BY <2>2 DEF Kept
  <2>3. CASE entry'[l] # None /\ entry[l] # None /\ entry'[l].state = entry[l].state
    BY <2>3 DEF Kept
  <2>4. CASE entry'[l] # None /\ l = k /\ entry'[l].state = StateOf(r)
    <3>1. step[r] = "answer"
      BY <2>4, SessionAssumption
    <3>2. Copy(r) \in {None, outgoing[r]} /\ Kept(l)' = Copy(r)
      BY <2>4, <3>1 DEF FlashInv, FlashProgress, Copy, Kept, StateOf, load
    <3>3. QED
      BY <2>4, <3>2
  <2>5. QED
    BY <2>1, <2>2, <2>3, <2>4
<1>4. \A q \in Requests :
        /\ incoming'[q] = IF q = r THEN None ELSE incoming[q]
        /\ outgoing'[q] = IF q = r THEN None ELSE outgoing[q]
        /\ key'[q] = IF q = r THEN None ELSE key[q]
  BY <1>1, <1>2 DEF FlashInv, FlashTypeOK, SessionTypeOK
<1>5. /\ settled \subseteq settled' /\ settled' \subseteq settled \cup {incoming[r]}
      /\ None \notin settled' /\ settled' \subseteq sent
      /\ \A l \in Keys : Kept(l)' \notin settled' \ settled
  BY DEF FlashInv, FlashTypeOK, Located, Opt
<1>6. Located'
  <2>1. \A l \in Keys : Kept(l)' \in Opt(sent) \ settled'
    BY <1>3, <1>5 DEF FlashInv, Located, Opt
  <2>2. \A q \in Requests : incoming'[q] \in Opt(sent) /\ outgoing'[q] \in Opt(sent) \ settled'
    BY <1>4, <1>5 DEF FlashInv, Located, Opt
  <2>3. \A l, n \in Keys : Kept(l)' # None /\ Kept(l)' = Kept(n)' => l = n
    BY <1>3 DEF FlashInv, Located
  <2>4. \A q \in Requests, l \in Keys : outgoing'[q] # None => Kept(l)' # outgoing'[q]
    BY <1>3, <1>4 DEF FlashInv, Located
  <2>5. \A q, p \in Requests :
          outgoing'[q] # None =>
            incoming'[p] # outgoing'[q] /\ (outgoing'[p] = outgoing'[q] => p = q)
    BY <1>4 DEF FlashInv, Located
  <2>6. \A q \in Requests, l \in Keys :
          incoming'[q] # None /\ Kept(l)' = incoming'[q] => l = key'[q]
    BY <1>3, <1>4 DEF FlashInv, Located
  <2>7. QED
    BY <1>2, <2>1, <2>2, <2>3, <2>4, <2>5, <2>6 DEF Located
<1>7. FlashTypeOK'
  BY <1>2, <1>5 DEF FlashInv, FlashTypeOK, UsersTypeOK, Opt
<1>8. ASSUME NEW q \in Requests PROVE FlashProgress(q)'
  BY <1>1, <1>2
     DEF FlashInv, FlashTypeOK, SessionTypeOK, UsersTypeOK, FlashProgress, Copy, Status, load
<1>9. QED
  BY <1>2, <1>6, <1>7, <1>8 DEF FlashInv

\* What a request has loaded is gone from the store once it is answered.
LEMMA AnswerInv ==
  ASSUME FlashInv, NEW r \in Requests, sqlite_answer(r),
         settled' = settled \cup ({incoming[r]} \ {None})
  PROVE  FlashInv'
<1>1. step[r] = "answer" /\ Commit(r, "OnEveryRequest") /\ Forget(r) /\ SessionTypeOK
  BY DEF sqlite_answer, FlashInv, FlashTypeOK
<1>2. SessionTypeOK' /\ \E k \in Opt(Keys) : CommitsAs(r, k)
  BY <1>1, CommitType, CommitLeaves
<1>3. PICK k \in Opt(Keys) : CommitsAs(r, k)
  BY <1>2
<1>4. ASSUME incoming[r] # None, NEW l \in Keys, Kept(l)' = incoming[r]
      PROVE  FALSE
  <2>1. Copy(r) # incoming[r] /\ Status(r) # "Unchanged"
    BY <1>1, <1>4 DEF FlashInv, FlashProgress, Located
  <2>2. entry'[l] # None /\ entry'[l].state.app = incoming[r]
    BY <1>4 DEF Kept
  <2>3. entry'[l].state # StateOf(r)
    BY <2>1, <2>2 DEF Copy, StateOf, load
  <2>4. entry[l] # None /\ entry'[l].state = entry[l].state
    BY <1>3, <2>2, <2>3 DEF CommitsAs
  <2>5. l = key[r]
    BY <1>4, <2>2, <2>4 DEF FlashInv, Located, Kept
  <2>6. QED
    BY <1>1, <2>1, <2>2, <2>3, <2>5, CommitClears, SessionAssumption
<1>5. QED
  BY <1>1, <1>2, <1>3, <1>4, EndInv

LEMMA DroppedInv ==
  ASSUME FlashInv, NEW r \in Requests, sqlite_dropped(r), UNCHANGED settled
  PROVE  FlashInv'
<1>1. Fail(r) /\ Forget(r) /\ SessionTypeOK
  BY DEF sqlite_dropped, FlashInv, FlashTypeOK
<1>2. SessionTypeOK' /\ CommitsAs(r, None)
  BY <1>1, FailType, FailLeaves
<1>3. QED
  BY <1>1, <1>2, EndInv DEF Opt

\* The clock, and the users table.
LEMMA ElsewhereInv ==
  ASSUME FlashInv, UNCHANGED <<who, key, inner, jar, step, checked, incoming, outgoing>>,
         UNCHANGED <<shown, sent, settled>>, SessionTypeOK', passwords' \in [Users -> Hashes],
         \A k \in Keys : \/ entry'[k] = None
                         \/ entry[k] # None /\ entry'[k].state = entry[k].state
  PROVE  FlashInv'
<1>1. \A k \in Keys : Kept(k)' \in {None, Kept(k)}
  BY DEF Kept
<1>2. Located'
  BY <1>1 DEF FlashInv, Located, Opt, FlashTypeOK
<1>3. FlashTypeOK'
  BY DEF FlashInv, FlashTypeOK, UsersTypeOK
<1>4. ASSUME NEW q \in Requests PROVE FlashProgress(q)'
  BY DEF FlashInv, FlashProgress, Copy, Status, load
<1>5. QED
  BY <1>2, <1>3, <1>4 DEF FlashInv

LEMMA FlashInitInv == FlashInit => FlashInv
<1> SUFFICES ASSUME FlashInit PROVE FlashInv
  OBVIOUS
<1> USE DEF FlashInit, SessionInit, UsersInit, Store!StoreInit
<1>1. SessionTypeOK
  BY NoInnerType DEF SessionTypeOK, Store!StoreTypeOK, Opt
<1>2. FlashTypeOK
  BY <1>1 DEF FlashTypeOK, UsersTypeOK, Opt
<1>3. Located
  BY DEF Located, Kept, Opt
<1>4. \A r \in Requests : FlashProgress(r)
  BY DEF FlashProgress
<1>5. QED
  BY <1>2, <1>3, <1>4 DEF FlashInv

LEMMA QuietInv ==
  ASSUME FlashInv, Quiet, UNCHANGED settled
  PROVE  FlashInv'
<1>1. ASSUME NEW r \in Requests, NEW c \in Clients,
             get_login(r, c) \/ protected(r, c) \/ not_found(r, c)
      PROVE  FlashInv'
  <2> DEFINE i == Incoming(c, get_user)
  <2>1. i \in Inner
    BY IncomingMessage DEF FlashInv
  <2>2. PICK p \in {None, load(i.session)} : Answers(r, c, i, i, p)
    BY <1>1 DEF get_login, protected, not_found
  <2>3. QED
    BY <2>1, <2>2, AnswersInv
<1>2. ASSUME NEW r \in Requests, NEW c \in Clients, sqlite_get_logout(r, c)
      PROVE  FlashInv'
  <2> DEFINE i == Incoming(c, get_user)
  <2>1. i \in Inner
    BY IncomingMessage DEF FlashInv
  <2>2. logout(i) \in Inner /\ logout(i).session = Purge(EmptyState)
    BY <2>1, CallType DEF logout, Inner
  <2>3. Answers(r, c, i, logout(i), None)
    BY <1>2 DEF sqlite_get_logout
  <2>4. QED
    BY <2>2, <2>3, AnswersInv
<1>3. ASSUME NEW r \in Requests, NEW c \in Clients, NEW u \in Users, sqlite_post_login(r, c, u)
      PROVE  FlashInv'
  BY <1>3, PostLoginInv
<1>4. ASSUME NEW r \in Requests, NEW m \in Messages, sqlite_login_succeeds(r, m)
      PROVE  FlashInv'
  <2>1. m \notin sent /\ Sends(r, login(inner[r], checked[r]), m) /\ step[r] = "verify"
    BY <1>4 DEF sqlite_login_succeeds, Sends
  <2>2. inner[r] \in Inner /\ checked[r] \in User
    BY <2>1 DEF FlashInv, FlashTypeOK, SessionTypeOK, UsersTypeOK, FlashProgress, Opt
  <2>3. m # None /\ m \in Opt(Messages)
    BY SessionAssumption DEF Messages, Opt
  <2>4. QED
    BY <2>1, <2>2, <2>3, LoginKeepsMessage, SendsInv DEF Copy, Status
<1>5. ASSUME NEW r \in Requests, NEW m \in Opt(Messages), m \notin sent, Sends(r, inner[r], m)
      PROVE  FlashInv'
  <2>1. inner[r] \in Inner
    BY DEF FlashInv, FlashTypeOK, SessionTypeOK
  <2>2. QED
    BY <1>5, <2>1, SendsInv DEF Copy, Status
<1>6. ASSUME NEW r \in Requests, sqlite_dropped(r)
      PROVE  FlashInv'
  BY <1>6, DroppedInv
<1>7. CASE sqlite_expire
  <2>1. SessionTypeOK /\ Expire
    BY <1>7 DEF sqlite_expire, FlashInv, FlashTypeOK
  <2>2. SessionTypeOK'
    BY <2>1, ExpireType
  <2>3. /\ UNCHANGED <<jar, who, key, inner>>
        /\ \A k \in Keys : \/ entry'[k] = None
                           \/ entry[k] # None /\ entry'[k].state = entry[k].state
    BY <2>1, ExpireLeaves
  <2>4. /\ UNCHANGED <<step, checked, incoming, outgoing, shown, sent>>
        /\ passwords' \in [Users -> Hashes]
    BY <1>7 DEF sqlite_expire, FlashInv, FlashTypeOK, UsersTypeOK
  <2>5. QED
    BY <2>2, <2>3, <2>4, ElsewhereInv
<1>8. ASSUME NEW u \in Users, NEW p \in Hashes, change_password(u, p)
      PROVE  FlashInv'
  <2>1. passwords' \in [Users -> Hashes] /\ UNCHANGED sessionVars
    BY <1>8 DEF change_password, FlashInv, FlashTypeOK, UsersTypeOK
  <2>2. SessionTypeOK'
    BY <2>1 DEF sessionVars, FlashInv, FlashTypeOK, SessionTypeOK, Store!StoreTypeOK
  <2>3. QED
    BY <1>8, <2>1, <2>2, ElsewhereInv DEF change_password, sessionVars
<1>9. QED
  BY <1>1, <1>2, <1>3, <1>4, <1>5, <1>6, <1>7, <1>8
     DEF Quiet, login_refused, login_error, Opt, FlashInv

LEMMA Invariance == FlashSpec => []FlashInv
<1>1. FlashInit => FlashInv
  BY FlashInitInv
<1>2. FlashInv /\ [FlashNext]_flashVars => FlashInv'
  <2> SUFFICES ASSUME FlashInv, [FlashNext]_flashVars PROVE FlashInv'
    OBVIOUS
  <2>1. CASE FlashNext
    BY <2>1, QuietInv, AnswerInv DEF FlashNext
  <2>2. CASE UNCHANGED flashVars
    <3>1. UNCHANGED sessionVars /\ UNCHANGED <<passwords, checked, step, incoming, outgoing, shown>>
          /\ UNCHANGED <<sent, settled>>
      BY <2>2 DEF flashVars
    <3>2. SessionTypeOK'
      BY <3>1 DEF sessionVars, FlashInv, FlashTypeOK, SessionTypeOK, Store!StoreTypeOK
    <3>3. /\ UNCHANGED <<entry, jar, who, key, inner>> /\ passwords' \in [Users -> Hashes]
          /\ \A k \in Keys : \/ entry'[k] = None
                             \/ entry[k] # None /\ entry'[k].state = entry[k].state
      BY <3>1 DEF sessionVars, FlashInv, FlashTypeOK, UsersTypeOK
    <3>4. QED
      BY <3>1, <3>2, <3>3, ElsewhereInv
  <2>3. QED
    BY <2>1, <2>2
<1>3. QED
  BY <1>1, <1>2, PTL DEF FlashSpec

-----------------------------------------------------------------------------
(* The theorems.                                                            *)

\* Sessions keep auth data and a message, and a page shows no message that the
\* framework has not loaded.
THEOREM FlashTypeCorrect == FlashSpec => []FlashTypeOK
<1>1. FlashInv => FlashTypeOK
  BY DEF FlashInv
<1>2. QED
  BY <1>1, Invariance, PTL

\* Messages are cleared up for good: after the response of a request that has loaded
\* one no session holds it, whatever copies of the session other requests have taken
\* before and write back afterwards.
THEOREM SettledMessagesAreGone == FlashSpec => []SettledIsGone
<1>1. FlashInv => SettledIsGone
  BY DEF FlashInv, Located, SettledIsGone, Kept
<1>2. QED
  BY <1>1, Invariance, PTL

\* A request without messages, neither loaded nor sent, writes nothing to the session
\* of another, since clearing up what is not there does not mark its own as changed.
THEOREM SilenceKeepsSessions == FlashSpec => SilentRequestsKeepSessions
<1> DEFINE Silent ==
      \A r \in Requests :
        /\ step[r] # "idle" /\ step'[r] = "idle"
        /\ incoming[r] = None /\ outgoing[r] = None
        => \A k \in Keys :
             entry[k] # None /\ entry'[k] # None => entry'[k].state = entry[k].state
<1>1. FlashInv /\ [FlashNext]_flashVars => [Silent]_flashVars
  <2> SUFFICES ASSUME FlashInv, FlashNext, NEW r \in Requests,
                      step[r] # "idle", step'[r] = "idle", incoming[r] = None, outgoing[r] = None,
                      NEW k \in Keys, entry[k] # None, entry'[k] # None
               PROVE  entry'[k].state = entry[k].state
    BY DEF flashVars
  <2>1. PICK q \in Requests : sqlite_answer(q) \/ sqlite_dropped(q)
    BY DEF FlashNext, Quiet, get_login, sqlite_get_logout, protected, not_found, Answers,
           sqlite_post_login, Sends, sqlite_login_succeeds, login_refused, login_error,
           sqlite_expire, change_password, FlashInv, FlashTypeOK
  <2>2. q = r
    BY <2>1 DEF sqlite_answer, sqlite_dropped, Forget, FlashInv, FlashTypeOK
  <2>3. CASE sqlite_answer(r)
    <3>1. Status(r) \in {"Unchanged", "Purged"} /\ Commit(r, "OnEveryRequest") /\ SessionTypeOK
      BY <2>3 DEF sqlite_answer, FlashInv, FlashTypeOK, FlashProgress
    <3>2. QED
      BY <3>1, CommitSilent
  <2>4. CASE sqlite_dropped(r)
    BY <2>4 DEF sqlite_dropped, Fail, Store!Delete, Store!Drop, FlashInv, FlashTypeOK,
                SessionTypeOK, Store!StoreTypeOK
  <2>5. QED
    BY <2>1, <2>2, <2>3, <2>4
<1>2. QED
  BY <1>1, Invariance, PTL DEF FlashSpec, SilentRequestsKeepSessions
=============================================================================
