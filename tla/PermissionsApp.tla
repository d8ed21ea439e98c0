---------------------------- MODULE PermissionsApp ----------------------------
(***************************************************************************)
(* The permissions example (src/examples/permissions): a login form, and   *)
(* two pages behind Require layers that ask for a permission each.  Users  *)
(* have permissions through their groups only, by a join of three tables   *)
(* that an administrator may change row by row at any time.                *)
(***************************************************************************)
EXTENDS PasswordUsers, Integers

CONSTANTS Groups,
          Joined,       \* users_groups as the migration fills it
          Granted,      \* groups_permissions as the migration fills it
          MaxChanges,   \* bound on the rows that change
          Watched       \* the page that is compared with a Require route

VARIABLES users_groups, groups_permissions,
          changes,             \* how many rows have changed
          stage,               \* how far each request has got
          page,                \* what it asks for
          visitor,             \* the user it is seen as
          inside,              \* whether the layer has let it pass
          response,
          ever                 \* history: the permissions its visitor has had since it came

tableVars == <<passwords, users_groups, groups_permissions, changes>>
requestVars == <<stage, page, visitor, inside, checked, response>>
appVars == <<sessionVars, tableVars, requestVars>>

Pages == {"protected", "restricted"}

Permissions == {"protected.read", "restricted.read"}

\* app.rs: the permission each page requires.
Required == [protected |-> "protected.read", restricted |-> "restricted.read"]

ASSUME PermissionsAssumption ==
  /\ None \notin Pages \cup {"200", "403", "500"}
  /\ Joined \subseteq Users \X Groups /\ Granted \subseteq Groups \X Permissions
  /\ MaxChanges \in Nat
  /\ Watched \in Pages

Init ==
  /\ SessionInit /\ UsersInit
  /\ users_groups = Joined /\ groups_permissions = Granted /\ changes = 0
  /\ stage = [r \in Requests |-> "new"]
  /\ page = [r \in Requests |-> None]
  /\ visitor = [r \in Requests |-> None]
  /\ inside = [r \in Requests |-> FALSE]
  /\ response = [r \in Requests |-> None]

\* Mutant: the group is left out of the join's condition.
JoinedLoosely(u) == {gp[2] : gp \in groups_permissions}

\* The join over users_groups, groups_permissions and permissions.
GroupPermissions(u) ==
  {gp[2] : gp \in {gp \in groups_permissions : <<u, gp[1]>> \in users_groups}}

Held == [u \in Users |-> GroupPermissions(u)]

Goes(r, to) == stage' = [stage EXCEPT ![r] = to]

Responds(r, a) ==
  /\ Goes(r, "answer")
  /\ response' = [response EXCEPT ![r] = a]

-----------------------------------------------------------------------------
(* web/auth.rs                                                              *)

post_login(r, c, u) ==
  /\ stage[r] = "new"
  /\ Enter(r, c, Incoming(c, get_user))
  /\ ReadRow(r, u)
  /\ Goes(r, "verify")
  /\ UNCHANGED <<tableVars, page, visitor, inside, response>>

\* The password matched the row that was read.
login_succeeds(r) ==
  /\ stage[r] = "verify"
  /\ inner' = [inner EXCEPT ![r] = login(@, checked[r])]
  /\ Responds(r, "303")
  /\ UNCHANGED <<entry, jar, who, key, tableVars, page, visitor, inside, checked>>

\* It did not, or the check failed: the form again, or a 500.
login_fails(r) ==
  /\ stage[r] = "verify"
  /\ Responds(r, "form")
  /\ UNCHANGED <<sessionVars, tableVars, page, visitor, inside, checked>>

\* What the Form extractor answers to a body it cannot read.
form_config ==
  [Overflow |-> "413", UnknownLength |-> "411", ContentType |-> "415", Other |-> "422"]

\* The handler is not called.
form_refused(r, c) ==
  /\ stage[r] = "new"
  /\ Enter(r, c, Incoming(c, get_user))
  /\ \E err \in DOMAIN form_config : Responds(r, form_config[err])
  /\ UNCHANGED <<tableVars, page, visitor, inside, checked>>

get_logout(r, c) ==
  /\ stage[r] = "new"
  /\ Enter(r, c, logout(Incoming(c, get_user)))
  /\ Responds(r, "303")
  /\ UNCHANGED <<tableVars, page, visitor, inside, checked>>

-----------------------------------------------------------------------------
(* The pages and the layers around them.                                    *)

UserId(user) == IF user = None THEN None ELSE user.id

visit(r, c, p) ==
  /\ stage[r] = "new"
  /\ Enter(r, c, Incoming(c, get_user))
  /\ page' = [page EXCEPT ![r] = p]
  /\ visitor' = [visitor EXCEPT ![r] = UserId(inner'[r].user)]
  /\ Goes(r, "decide")
  /\ UNCHANGED <<tableVars, inside, checked, response>>

\* Mutant: a request without a user passes the layer.
decide_everybody(r) ==
  /\ stage[r] = "decide" /\ visitor[r] = None
  /\ Goes(r, "handler")
  /\ inside' = [inside EXCEPT ![r] = TRUE]
  /\ UNCHANGED <<sessionVars, tableVars, page, visitor, checked, response>>

\* PermissionsPredicate finds no user: RedirectHandler answers, with an error where
\* the URI becomes too long for a query.
decide_anonymous(r) ==
  /\ stage[r] = "decide" /\ visitor[r] = None
  /\ Responds(r, "307") \/ Responds(r, "500")
  /\ UNCHANGED <<sessionVars, tableVars, page, visitor, inside, checked>>

\* The trait's default: users have no permissions of their own.
get_user_permissions(r) ==
  /\ stage[r] = "decide" /\ visitor[r] # None
  /\ Goes(r, "groups")
  /\ UNCHANGED <<sessionVars, tableVars, page, visitor, inside, checked, response>>

\* The handler of the page, or SimpleResponseHandler with its "Forbidden".
get_group_permissions(r) ==
  /\ stage[r] = "groups"
  /\ \/ /\ Required[page[r]] \in GroupPermissions(visitor[r])
        /\ Goes(r, "handler")
        /\ inside' = [inside EXCEPT ![r] = TRUE]
        /\ UNCHANGED response
     \/ /\ Required[page[r]] \notin GroupPermissions(visitor[r])
        /\ Responds(r, "403")
        /\ UNCHANGED inside
  /\ UNCHANGED <<sessionVars, tableVars, page, visitor, checked>>

\* Mutant: a failing query lets the user pass.
permissions_fail_open(r) ==
  /\ stage[r] = "groups"
  /\ Goes(r, "handler")
  /\ inside' = [inside EXCEPT ![r] = TRUE]
  /\ UNCHANGED <<sessionVars, tableVars, page, visitor, checked, response>>

\* The query fails.
permissions_fail(r) ==
  /\ stage[r] = "groups"
  /\ Responds(r, "403")
  /\ UNCHANGED <<sessionVars, tableVars, page, visitor, inside, checked>>

\* protected and restricted are pages with the user's name.
handle(r) ==
  /\ stage[r] = "handler"
  /\ Responds(r, IF visitor[r] = None THEN "500" ELSE "200")
  /\ UNCHANGED <<sessionVars, tableVars, page, visitor, inside, checked>>

-----------------------------------------------------------------------------
answer(r) ==
  /\ stage[r] = "answer"
  /\ Commit(r, "OnStateChanges")
  /\ Goes(r, "done")
  /\ UNCHANGED <<tableVars, page, visitor, inside, checked, response>>

dropped(r) ==
  /\ Fail(r)
  /\ Goes(r, "done")
  /\ UNCHANGED <<tableVars, page, visitor, inside, checked, response>>

expire == Expire /\ UNCHANGED <<tableVars, requestVars>>

\* One row is inserted, deleted or updated.
change_row ==
  /\ changes < MaxChanges /\ changes' = changes + 1
  /\ \/ /\ \E u \in Users, g \in Groups :
             users_groups' \in {users_groups \cup {<<u, g>>}, users_groups \ {<<u, g>>}}
        /\ UNCHANGED <<passwords, groups_permissions>>
     \/ /\ \E g \in Groups, p \in Permissions :
             groups_permissions' \in
               {groups_permissions \cup {<<g, p>>}, groups_permissions \ {<<g, p>>}}
        /\ UNCHANGED <<passwords, users_groups>>
     \/ /\ \E u \in Users, w \in Hashes : passwords' = [passwords EXCEPT ![u] = w]
        /\ UNCHANGED <<users_groups, groups_permissions>>
  /\ UNCHANGED <<sessionVars, requestVars>>

AppNext ==
  \/ \E r \in Requests, c \in Clients :
       \/ \E u \in Users : post_login(r, c, u)
       \/ \E p \in Pages : visit(r, c, p)
       \/ form_refused(r, c) \/ get_logout(r, c)
  \/ \E r \in Requests :
       \/ login_succeeds(r) \/ login_fails(r)
       \/ decide_anonymous(r) \/ get_user_permissions(r) \/ get_group_permissions(r)
       \/ permissions_fail(r) \/ handle(r)
       \/ answer(r) \/ dropped(r)
  \/ expire \/ change_row

NoteHeld ==
  ever' = [r \in Requests |->
    IF visitor'[r] = None \/ stage[r] \in {"handler", "answer", "done"} THEN ever[r]
    ELSE ever[r] \cup {p \in Permissions : \E g \in Groups :
                     /\ <<visitor'[r], g>> \in users_groups'
                     /\ <<g, p>> \in groups_permissions'}]

AppSpec ==
  /\ Init /\ ever = [r \in Requests |-> {}]
  /\ [][AppNext /\ NoteHeld]_<<appVars, ever>>

-----------------------------------------------------------------------------
(* Properties.                                                              *)

\* Sessions, tables and requests keep to their types; no page is asked to show
\* the name of a user it does not have, which would be a 500.
TypeOK ==
  /\ SessionTypeOK /\ UsersTypeOK
  /\ users_groups \subseteq Users \X Groups
  /\ groups_permissions \subseteq Groups \X Permissions
  /\ stage \in [Requests ->
       {"new", "verify", "decide", "groups", "handler", "answer", "done"}]
  /\ page \in [Requests -> Opt(Pages)]
  /\ visitor \in [Requests -> Opt(Users)]
  /\ inside \in [Requests -> BOOLEAN]
  /\ response \in [Requests ->
       {None, "200", "303", "307", "403", "411", "413", "415", "422", "500", "form"}]
  /\ \A r \in Requests : response[r] = "500" => ~inside[r]

\* A page goes to users only who have been in a group with its permission since
\* they asked, whatever rows have changed in the meantime.
ServedToMembers ==
  \A r \in Requests :
    page[r] # None /\ response[r] = "200" => Required[page[r]] \in ever[r]

-----------------------------------------------------------------------------
(* The requests to the watched page are those of a Require route.           *)

\* app.rs: the layer around page p.
LayerOf(p) ==
  [decision |-> [kind |-> "permissions", required |-> {Required[p]}, mode |-> "All"],
   unauthorized |-> {"403"}, unauthenticated |-> {"307", "500"}]

RequireStage(r) == IF stage[r] = "answer" THEN "done" ELSE stage[r]

RequireResponse(a) == IF a = "200" THEN "handled" ELSE a

Asked(r) == page[r] = Watched

RouteOf == <<LayerOf(Watched)>>
OwnOf == [u \in Users |-> {}]
StageOf == [r \in Requests |-> IF Asked(r) THEN RequireStage(r) ELSE "new"]
SessionOf == [r \in Requests |-> IF Asked(r) THEN visitor[r] ELSE None]
ServiceOf == [r \in Requests |-> IF Asked(r) /\ inside[r] THEN 2 ELSE 1]
SeenOf == [r \in Requests |-> {}]
ResponseOf == [r \in Requests |-> IF Asked(r) THEN RequireResponse(response[r]) ELSE None]

Route ==
  INSTANCE Require WITH
    Missing <- "missing", Routes <- {RouteOf}, route <- RouteOf, own <- OwnOf, group <- Held,
    stage <- StageOf, session <- SessionOf, layer <- ServiceOf, seen <- SeenOf,
    response <- ResponseOf

\* A page is a route as Require has them, over the permissions the join finds:
\* the rows of a group change those of all its members in one step, and what a
\* request has read is not what it would read now.
PageImplementsRequire == Route!Spec
=============================================================================
