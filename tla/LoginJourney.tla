---------------------------- MODULE LoginJourney ----------------------------
(***************************************************************************)
(* The way of a browser from a protected page through the login page and   *)
(* back: RedirectHandler (src/actix-login/src/require/handler.rs) and the  *)
(* login handlers of the example applications, which pass the page that    *)
(* was asked for along as the "next" parameter.  The login page is served  *)
(* under whatever URL the handler is configured with.                      *)
(***************************************************************************)
EXTENDS Redirect

CONSTANTS Pages,        \* the URIs of the protected pages that may be asked for
          LoginUrls,    \* the login URLs RedirectHandler may be configured with:
                        \* None stands for its default
          AfterFailure, \* what an application does on a failed login:
                        \* "render" the page again or "redirect" to it
          MaxFailures   \* bound on the failed logins

VARIABLES login_url,    \* RedirectHandler's
          on_failure,   \* the application's, one of AfterFailure
          page,         \* the page that was asked for
          stage,        \* where the browser is
          uri,          \* the URI it is on or has been sent to
          next,         \* the hidden field of the login form, or None
          failures      \* failed logins so far

journeyVars == <<login_url, on_failure, page, stage, uri, next, failures>>

ASSUME JourneyAssumption ==
  /\ {"/", "login", "signin", "next"} \subseteq Characters
  /\ \A u \in Pages \cup (LoginUrls \ {None, Broken, Bare}) : IsUri(u)
  /\ MaxFailures \in Nat

DEFAULT_LOGIN_URL == Uri(Written(<<"/", "signin">>), None)
DEFAULT_REDIRECT_FIELD == Written(<<"next">>)

\* The URL of the login page in the applications.
LoginPage == Written(<<"/", "login">>)

Home == Uri(Written(<<"/">>), None)

JourneyInit ==
  /\ login_url \in LoginUrls
  /\ on_failure \in AfterFailure
  /\ page \in Pages
  /\ stage = "protected" /\ uri = page
  /\ next = None /\ failures = 0

Url == IF login_url = None THEN DEFAULT_LOGIN_URL ELSE login_url

Location == url_with_redirect_query(Url, DEFAULT_REDIRECT_FIELD, uri)

\* Mutant: where there is no location, the request is redirected to where it is.
RedirectHandler_handleAnyway ==
  /\ stage = "protected"
  /\ uri' = IF Location = None THEN uri ELSE Location
  /\ stage' = "307"
  /\ UNCHANGED <<login_url, on_failure, page, next, failures>>

\* RedirectHandler::handle.
RedirectHandler_handle ==
  /\ stage = "protected"
  /\ \/ Location # None /\ uri' = Location /\ stage' = "307"
     \/ Location = None /\ stage' = "500" /\ UNCHANGED uri
  /\ UNCHANGED <<login_url, on_failure, page, next, failures>>

\* Where a query has its next fields, and what one of them holds.
NextFields(u) ==
  {i \in DOMAIN query_pairs(u) : query_pairs(u)[i].name = DEFAULT_REDIRECT_FIELD}

NextOf(u) == query_pairs(u)[CHOOSE i \in NextFields(u) : TRUE].value

\* get::login: the page with the login form.  The extractor refuses a query with
\* more than one next field.
login_page ==
  /\ stage = "307"
  /\ \/ Cardinality(NextFields(uri)) > 1 /\ stage' = "400" /\ UNCHANGED next
     \/ /\ Cardinality(NextFields(uri)) <= 1
        /\ next' = IF NextFields(uri) = {} THEN None ELSE NextOf(uri)
        /\ stage' = "form"
  /\ UNCHANGED <<login_url, on_failure, page, uri, failures>>

\* The hidden field travels in the body of the form.
SubmittedNext ==
  IF next = None THEN None
  ELSE parse(DEFAULT_REDIRECT_FIELD \o <<Plain("=")>> \o byte_serialize(next))[1].value

Attempt == stage = "form" /\ UNCHANGED <<login_url, on_failure, page>>

\* post::login where the page is rendered again (permissions, multi-auth).
login_fails_rendering ==
  /\ Attempt /\ on_failure = "render" /\ failures < MaxFailures
  /\ next' = SubmittedNext
  /\ failures' = failures + 1
  /\ UNCHANGED <<stage, uri>>

\* post::login where the browser is sent to the login page again (sqlite).
login_fails_redirecting ==
  /\ Attempt /\ on_failure = "redirect" /\ failures < MaxFailures
  /\ uri' = ToUri(IF SubmittedNext = None THEN LoginPage
                  ELSE LoginPage \o Written(<<"?", "next", "=">>) \o SubmittedNext)
  /\ stage' = "307"
  /\ failures' = failures + 1
  /\ UNCHANGED next

\* post::login with the right credentials.
login_succeeds ==
  /\ Attempt
  /\ uri' = IF SubmittedNext = None THEN Home ELSE ToUri(SubmittedNext)
  /\ stage' = "landed"
  /\ UNCHANGED <<next, failures>>

JourneyNext ==
  \/ RedirectHandler_handle \/ login_page
  \/ login_fails_rendering \/ login_fails_redirecting \/ login_succeeds

JourneySpec == JourneyInit /\ [][JourneyNext]_journeyVars

-----------------------------------------------------------------------------
\* The parameters of the configured login URL.
Parameters == query_pairs(Url)

Fixed == has_redirect(Url, DEFAULT_REDIRECT_FIELD)

\* The login URL with the page in its query.
Asking == to_string(Updated(Url, Query(DEFAULT_REDIRECT_FIELD, page)))

\* The login URL cannot be parsed, or the page has to be written into it and cannot be.
HandlerFails ==
  \/ login_url = Broken
  \/ ~Fixed /\ (login_url = Bare \/ ~IsPathAndQuery(Asking))

\* Stages, URIs and the form keep to their types, and a form always has a page to
\* come back to.  A browser is sent away with an error if the login URL cannot be
\* parsed, and otherwise only if the page has to be written into it and it is an
\* authority without a scheme or becomes a text that the URI parser refuses: where it
\* has a redirect field of its own, no page can make the handler fail.
JourneyTypeOK ==
  /\ login_url \in LoginUrls /\ on_failure \in AfterFailure /\ page \in Pages
  /\ stage \in {"protected", "307", "form", "landed", "400", "500"}
  /\ IsUri(uri)
  /\ next \in Opt(Text)
  /\ failures \in 0 .. MaxFailures
  /\ stage = "protected" => uri = page /\ next = None /\ failures = 0
  /\ stage = "form" => next # None
  /\ stage = "500" <=> stage # "protected" /\ HandlerFails

\* The text that the redirect field starts out with.
Carried == IF Fixed THEN NextOf(Url) ELSE to_string(page)

\* A text that means the same in a query whether it is encoded or not.
PlainInQueries(text) == Lacks(text, "&") /\ decode(text) = text

\* A browser that logs in after being sent away from a page comes back to that
\* very page, its query included, however many attempts it takes where the login
\* page is rendered again (permissions/src/web/auth.rs:72-76), or where the page's
\* URI has nothing to encode.  A login URL with a next field of its own keeps it.
LandsWhereItStarted ==
  stage = "landed" /\ (on_failure = "render" \/ failures = 0 \/ PlainInQueries(Carried)) =>
    IF Fixed THEN to_string(uri) = NextOf(Url) ELSE uri = page

\* "This allows us to extract the "next" field from the query string.  We use this
\* to redirect after log in" (src/examples/sqlite/src/web/auth.rs:15), whether or
\* not an attempt has failed before.
NextSurvivesFailure == stage = "landed" /\ ~Fixed => uri = page

\* Where the handler sends the browser, the login URL's own parameters arrive as
\* they were and in their order, behind the redirect field.
ParametersArrive ==
  stage = "307" /\ failures = 0 =>
    query_pairs(uri) =
      IF Fixed THEN Parameters
      ELSE <<Pair(DEFAULT_REDIRECT_FIELD, to_string(page))>> \o Parameters
=============================================================================
