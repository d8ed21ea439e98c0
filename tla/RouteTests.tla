------------------------------ MODULE RouteTests ------------------------------
(***************************************************************************)
(* Tests of the Require middleware (in the tests modules of require.rs,    *)
(* middleware.rs, redirect.rs and of builder.rs, handler.rs and service.rs *)
(* under src/actix-login/src) as scenarios of Require and Redirect: the    *)
(* route is the one a test builds, the backend the one it builds it on,    *)
(* and the requests find a session with a user, without one, or none, in   *)
(* any order.  What the test asserts must be what the model answers.       *)
(***************************************************************************)
EXTENDS Require, TLC

CONSTANTS Characters,        \* that URLs are written in
          Reserved,          \* characters that are percent-encoded in a query
          Broken, Bare,      \* login URLs that cannot be parsed, or not be extended
          IsPathAndQuery(_), \* whether http's parser takes a text for a path and query
          Unasked            \* stands for an answer that a test does not look at

VARIABLE test       \* the test that is replayed

Urls == INSTANCE Redirect

testVars == <<vars, test>>

-----------------------------------------------------------------------------
(* How the tests write what they are about.                                 *)

Escapes == "%2F" :> "/" @@ "%3F" :> "?" @@ "%3D" :> "=" @@ "%26" :> "&"

Text(word) ==
  [i \in DOMAIN word |-> IF word[i] \in DOMAIN Escapes
                         THEN Urls!Depth(Escapes[word[i]], 1) ELSE Urls!Plain(word[i])]

UrlOf(word) == IF word = Broken THEN Broken ELSE Urls!ToUri(Text(word))

\* RedirectHandler and its setters.
new == [login_url |-> <<"/", "signin">>, redirect_field |-> <<"next">>]
login_url(handler, url) == [handler EXCEPT !.login_url = url]
redirect_field(handler, field) == [handler EXCEPT !.redirect_field = field]

Location(handler, uri) ==
  Urls!url_with_redirect_query(UrlOf(handler.login_url), Text(handler.redirect_field),
                               Urls!ToUri(Text(uri)))

\* A layer, its redirect handler, the URIs that are asked for, each with the location
\* it is sent to, and what a request is answered that finds no user, a user or no
\* AuthSession.  Below it, what may be special about a test: the function that the
\* layer's closure calls, and a service inside that fails.
Scenario(l, handler, sends, anonymous, user) ==
  [layer |-> l, handler |-> handler, sends |-> sends,
   anonymous |-> anonymous, user |-> user, missing |-> Unasked,
   body |-> None, inner |-> "handled"]

Calling(body, scenario) == [scenario EXCEPT !.body = body]
Failing(scenario) == [scenario EXCEPT !.inner = "error"]
Missed(scenario, answer) == [scenario EXCEPT !.missing = answer]

Root == <<"/">>
Login == login_url(new, <<"/", "login">>)
Signin == redirect_field(login_url(new, <<"/", "signin">>), <<"next_uri">>)
ToLogin == {<<Root, <<"/", "login", "?", "next", "=", "%2F">> >>}
ToSignin == {<<Root, <<"/", "signin", "?", "next_uri", "=", "%2F">> >>}
Somewhere == {<<Root, Unasked>>}

Answered(l, anonymous, user) == Scenario(l, new, Somewhere, anonymous, user)

\* The layer redirects requests without user.
Sent(l, handler, sends, user) ==
  Scenario(unauthenticated(l, RedirectHandler), handler, sends, "307", user)

Permitted(P) == decision(builder, with_permissions(PermissionsPredicate, P))
Moded(P, mode) ==
  decision(builder, with_mode(with_permissions(PermissionsPredicate, P), mode))

Gone == text("alternative")

\* The permissions of the tests' user, all of them its own.
TestBackend == {"test.read", "test.write"}

\* The functions that closures call, by what they answer to a request: its user's
\* permissions have one of P, there is a user, or always the same.
verify_permissions(P) == [of |-> "verify_permissions", required |-> P]
is_logged_in(denial) == [of |-> "is_logged_in", denial |-> denial]
always(d) == [of |-> "always", decision |-> d]

Verdict(r) ==
  CASE test.body.of = "always" -> test.body.decision
    [] test.body.of = "is_logged_in" ->
         IF session[r] = None THEN test.body.denial ELSE "Allow"
    [] test.body.of = "verify_permissions" ->
         IF session[r] = None THEN "Unauthenticated"
         ELSE IF test.body.required \cap own[session[r]] = {} THEN "Unauthorized"
         ELSE "Allow"

-----------------------------------------------------------------------------
(* require.rs                                                               *)

test_login_required == Answered(builder, "401", "handled")

test_login_required_with_login_url == Sent(builder, Login, ToLogin, "handled")

test_login_required_with_login_url_and_redirect_field ==
  Sent(builder, Signin, ToSignin, "handled")

test_login_required_with_response_fallback ==
  Answered(unauthenticated(unauthenticated(builder, Gone), Gone),
           "alternative", "handled")

test_login_required_with_custom_fallback ==
  Answered(unauthenticated(builder, Gone), "alternative", "handled")

test_permission_required == Answered(Permitted({"test.read"}), "401", "handled")

test_permission_required_multiple_permissions ==
  Answered(Permitted({"test.read", "test.write"}), "401", "handled")

test_permission_required_with_login_url ==
  Sent(Permitted({"test.read"}), Login, ToLogin, "handled")

test_permission_required_with_login_url_and_redirect_field ==
  Sent(Permitted({"test.read"}), Signin, ToSignin, "handled")

TooMany == Permitted({"test.read", "test.write", "admin.read"})

test_permission_required_missing_permissions == Answered(TooMany, "401", "403")

test_permission_required_custom_unauthorized_handler ==
  Answered(unauthorized(TooMany, Gone), "401", "alternative")

test_login_required_custom_unauthenticated_body ==
  Answered(unauthenticated(builder, Gone), "alternative", Unasked)

test_permission_required_any_mode ==
  Answered(Moded({"missing.read", "test.read"}, "Any"), Unasked, "handled")

test_permission_required_exact_mode_denies_extra_permissions ==
  Answered(Moded({"test.read"}, "Exact"), Unasked, "403")

test_redirect_uri_query ==
  Sent(builder, Login,
       {<< <<"/", "?", "foo", "=", "bar", "&", "foo", "=", "baz">>,
           <<"/", "login", "?", "next", "=", "%2F", "%3F", "foo", "%3D", "bar",
             "%26", "foo", "%3D", "baz">> >>}, Unasked)

FooBar == login_url(new,
  <<"/", "login", "?", "foo", "=", "bar", "&", "foo", "=", "baz">>)

test_login_url_query ==
  Sent(builder, FooBar,
       {<<Root, <<"/", "login", "?", "next", "=", "%2F",
                  "&", "foo", "=", "bar", "&", "foo", "=", "baz">> >>,
        << <<"/", "?", "a", "=", "b", "&", "a", "=", "c">>,
           <<"/", "login", "?", "next", "=", "%2F", "%3F", "a", "%3D", "b", "%26",
             "a", "%3D", "c", "&", "foo", "=", "bar", "&", "foo", "=", "baz">> >>},
       Unasked)

\* A login URL that has the redirect field already is where requests are sent.
Explicit(field) ==
  LET url == <<"/", "login", "?", field, "=", "%2F", "dashboard">>
      handler == redirect_field(login_url(new, url), <<field>>)
  IN  [handler |-> handler, sends |-> {<<Root, url>>}]

test_login_url_explicit_redirect(field) ==
  Sent(builder, Explicit(field).handler, Explicit(field).sends, Unasked)

ToNested == {<< <<"/", "nested", "/", "foo">>,
                <<"/", "login", "?", "next", "=", "%2F", "nested", "%2F", "foo">> >>}

test_scoped == Sent(builder, Login, ToNested, Unasked)

Verified == decision(builder, Closure(Decision))

\* Its handler of unauthorized requests answers 401.
test_login_required_perm_with_state ==
  Calling(verify_permissions({"test.read"}),
          Sent(unauthorized(Verified, text("401")), Login, Somewhere, "handled"))

test_login_url_explicit_redirect_with_permissions ==
  Calling(verify_permissions(TestBackend),
          Sent(Verified, Explicit("next_url").handler, Explicit("next_url").sends, "handled"))

requireTests ==
  {test_login_required, test_login_required_with_login_url,
   test_login_required_with_login_url_and_redirect_field,
   test_login_required_with_response_fallback,
   test_login_required_with_custom_fallback, test_permission_required,
   test_permission_required_multiple_permissions,
   test_permission_required_with_login_url,
   test_permission_required_with_login_url_and_redirect_field,
   test_permission_required_missing_permissions,
   test_permission_required_custom_unauthorized_handler,
   test_login_required_custom_unauthenticated_body,
   test_permission_required_any_mode,
   test_permission_required_exact_mode_denies_extra_permissions,
   test_redirect_uri_query, test_login_url_query,
   test_login_url_explicit_redirect("next_url"), test_login_url_explicit_redirect("next"),
   test_scoped, test_login_required_perm_with_state,
   test_login_url_explicit_redirect_with_permissions}

-----------------------------------------------------------------------------
(* middleware.rs: the macros, by their arms.                                *)

MacroLogin == builder
MacroLoginUrl == unauthenticated(builder, RedirectHandler)
MacroPermission(P) == Permitted(P)
MacroPermissionUrl(P) == unauthenticated(Permitted(P), RedirectHandler)
MacroPredicate ==
  decision(unauthenticated(unauthorized(builder, Gone), Gone),
           Closure({"Allow", "Unauthorized"}))
MacroPredicateUrl ==
  decision(unauthenticated(unauthorized(builder, RedirectHandler), RedirectHandler),
           Closure({"Allow", "Unauthenticated"}))

macro_login_required == Answered(MacroLogin, "401", "handled")

macro_login_required_with_login_url ==
  Scenario(MacroLoginUrl, Login, ToLogin, "307", "handled")

macro_login_required_with_login_url_and_redirect_field ==
  Scenario(MacroLoginUrl, Signin, ToSignin, "307", "handled")

macro_permission_required == Answered(MacroPermission({"test.read"}), "401", "handled")

macro_permission_required_multiple_permissions ==
  Answered(MacroPermission({"test.read", "test.write"}), "401", "handled")

macro_permission_required_with_login_url ==
  Scenario(MacroPermissionUrl({"test.read"}), Login, ToLogin, "307", "handled")

macro_permission_required_with_login_url_and_redirect_field ==
  Scenario(MacroPermissionUrl({"test.read"}), Signin, ToSignin, "307", "handled")

macro_permission_required_missing_permissions ==
  Answered(MacroPermission({"test.read", "test.write", "admin.read"}), "401", "403")

macro_redirect_uri_query ==
  Scenario(MacroLoginUrl, Login, test_redirect_uri_query.sends, "307", Unasked)

macro_login_url_query ==
  Scenario(MacroLoginUrl, FooBar, test_login_url_query.sends, "307", Unasked)

macro_login_url_explicit_redirect(field) ==
  Scenario(MacroLoginUrl, Explicit(field).handler, Explicit(field).sends, "307", Unasked)

macro_scoped == Scenario(MacroLoginUrl, Login, ToNested, "307", Unasked)

macro_predicate_required_alternative ==
  Calling(is_logged_in("Unauthorized"), Answered(MacroPredicate, "alternative", "handled"))

macro_predicate_required_login_url ==
  Calling(is_logged_in("Unauthenticated"),
          Scenario(MacroPredicateUrl, Login, ToLogin, "307", Unasked))

middlewareTests ==
  {macro_login_required, macro_login_required_with_login_url,
   macro_login_required_with_login_url_and_redirect_field, macro_permission_required,
   macro_permission_required_multiple_permissions,
   macro_permission_required_with_login_url,
   macro_permission_required_with_login_url_and_redirect_field,
   macro_permission_required_missing_permissions, macro_redirect_uri_query,
   macro_login_url_query, macro_login_url_explicit_redirect("next_url"),
   macro_login_url_explicit_redirect("next"), macro_scoped,
   macro_predicate_required_alternative, macro_predicate_required_login_url}

-----------------------------------------------------------------------------
(* redirect.rs and require/handler.rs: the redirect handler by itself.      *)

Redirects(url, uri, location) ==
  Sent(builder, login_url(new, url), {<<uri, location>>}, Unasked)

appends_redirect_when_query_contains_substring ==
  Redirects(<<"/", "login", "?", "context", "=", "1">>, <<"/", "dashboard">>,
            <<"/", "login", "?", "next", "=", "%2F", "dashboard", "&", "context", "=", "1">>)

Keeping == <<"/", "login", "?", "next", "=", "%2F", "keep">>

preserves_existing_redirect_param ==
  LET url == Keeping \o <<"&", "context", "=", "1">>
  IN  Redirects(url, <<"/", "dashboard">>, url)

test_redirect_handler_invalid_login_url ==
  Scenario(unauthenticated(builder, RedirectHandler), login_url(new, Broken),
           Somewhere, "500", Unasked)

test_redirect_handler_uses_request_uri ==
  Redirects(<<"/", "login">>, <<"/", "return">>,
            <<"/", "login", "?", "next", "=", "%2F", "return">>)

test_redirect_handler_defaults ==
  Sent(builder, new,
       {<<Root, <<"/", "signin", "?", "next", "=", "%2F">> >>}, Unasked)

test_redirect_handler_preserves_existing_redirect_param ==
  Redirects(Keeping, Root, Keeping)

handlerTests ==
  {appends_redirect_when_query_contains_substring, preserves_existing_redirect_param,
   test_redirect_handler_invalid_login_url, test_redirect_handler_uses_request_uri,
   test_redirect_handler_defaults, test_redirect_handler_preserves_existing_redirect_param}

-----------------------------------------------------------------------------
(* require/builder.rs and require/service.rs: predicates that decide the    *)
(* same for everybody.                                                      *)

\* A closure under the default handlers.  The test asks for the decision, which shows
\* here in the handler that answers.
builder_decision_override_is_used ==
  Calling(always("Unauthorized"),
          Answered(decision(builder, Closure({"Unauthorized"})), "403", "403"))

\* The handlers of service.rs, which answer as the default ones do.
Deciding(d) ==
  decision(unauthenticated(unauthorized(builder, text("403")), text("401")), Closure({d}))

allow_calls_inner ==
  Calling(always("Allow"), Answered(Deciding("Allow"), "handled", "handled"))

unauthorized_does_not_call_inner ==
  Calling(always("Unauthorized"), Answered(Deciding("Unauthorized"), "403", "403"))

unauthenticated_does_not_call_inner ==
  Calling(always("Unauthenticated"), Answered(Deciding("Unauthenticated"), "401", "401"))

missing_auth_session_returns_internal_error ==
  Missed(Calling(always("Allow"), Answered(Deciding("Allow"), Unasked, Unasked)), "500")

allow_propagates_inner_error ==
  Failing(Calling(always("Allow"), Answered(Deciding("Allow"), "error", "error")))

serviceTests ==
  {builder_decision_override_is_used, allow_calls_inner, unauthorized_does_not_call_inner,
   unauthenticated_does_not_call_inner, missing_auth_session_returns_internal_error,
   allow_propagates_inner_error}

-----------------------------------------------------------------------------
AllTests == requireTests \cup middlewareTests \cup handlerTests \cup serviceTests

TestInit ==
  /\ test \in AllTests
  /\ route = <<test.layer>>
  /\ own = [u \in Users |-> TestBackend]
  /\ group = [u \in Users |-> {}]
  /\ stage = [r \in Requests |-> "new"]
  /\ session = [r \in Requests |-> None]
  /\ layer = [r \in Requests |-> 1]
  /\ seen = [r \in Requests |-> {}]
  /\ response = [r \in Requests |-> None]

\* What Require leaves open, a test fixes: what its closure decides, whether there is
\* a location for its redirect handler, and what the service inside does.
Decides(r) ==
  /\ Decide(r)
  /\ session[r] # Missing /\ predicate(r).kind = "closure" => Conclude(r, Verdict(r))
  /\ response'[r] \in {"307", "500"} /\ session[r] # Missing =>
       \E sent \in test.sends :
         response'[r] = "500" <=> Location(test.handler, sent[1]) = None

Served(r) == IF test.inner = "error" THEN inner_fails(r) ELSE Handle(r)

TestNext ==
  \E r \in Requests :
    /\ (\E s \in Users \cup {None, Missing} : Arrive(r, s)) \/ Decides(r) \/ Served(r)
    /\ UNCHANGED test

TestSpec == TestInit /\ [][TestNext]_testVars

-----------------------------------------------------------------------------
\* What a test asserts of the answer to a request with this session.
Asserted(s) ==
  IF s = None THEN test.anonymous ELSE IF s = Missing THEN test.missing ELSE test.user

\* Each request is answered as the repository's test of the same name asserts,
\* whichever session it comes with and whatever another request is doing
\* meanwhile (src/actix-login/src/require.rs:576-1416, middleware.rs:234-663,
\* require/handler.rs:418-468, require/service.rs:272-343).
AnswersAsTested ==
  \A r \in Requests :
    stage[r] = "done" => Asserted(session[r]) \in {Unasked, response[r]}

\* A redirect goes to the location that the test spells out, character by
\* character, for the URI it asks for (e.g. require.rs:1228-1231, 1253-1264).
RedirectsAsTested ==
  \A r \in Requests : response[r] = "307" =>
    \A sent \in test.sends :
      sent[2] # Unasked =>
        Urls!to_string(Location(test.handler, sent[1])) = Text(sent[2])
=============================================================================
