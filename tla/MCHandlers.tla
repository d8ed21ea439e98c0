------------------------------ MODULE MCHandlers ------------------------------
(* What stands around the guard of a route, one setting at a time: the tests   *)
(* that replay it, a browser's way over a login page and back, a handler that  *)
(* is built and makes a response.  The pages of the journey have queries with  *)
(* whatever an encoding may trip over, the login URLs parameters of their own; *)
(* the handler has names in two spellings and parts that may not be sent.      *)
EXTENDS SimpleResponse, LoginJourney

CONSTANTS r1, r2, u1, Missing, Unasked,
          Users, Permissions, Requests             \* RouteTests'

OneUser == {u1}
TwoRequests == {r1, r2}
TestPermissions == {"test.read", "test.write", "admin.read", "missing.read"}

MCReserved == {"/", "?", "&", "=", "+", " "}
MCCharacters ==
  MCReserved \cup {"a", "x", "p", "login", "signin", "next", "context", "keep"}

Ingredients ==
  {Plain("a"), Plain("next"), Plain("&"), Plain("="), Plain("+"),
   Depth("&", 1), Depth("a", 1), Depth("&", 2), Depth(" ", 1), Depth("+", 1)}

MCQueries == {None} \cup UNION {[1 .. n -> Ingredients] : n \in 1 .. 3}

MCPages == [path : {Written(<<"/", "p">>)}, query : MCQueries]

LoginUrl(query) == Uri(Written(<<"/", "login">>), query)

MCLoginUrls ==
  {None, Broken, Bare,
   LoginUrl(Written(<<"context", "=", "a">>)),
   LoginUrl(Written(<<"context", "=", "+", "&", "x">>)),
   LoginUrl(Written(<<"x", "=">>) \o <<Depth("&", 1), Depth("=", 2)>>),
   LoginUrl(Written(<<"next", "=", "keep", "&", "context", "=", "a">>)),
   LoginUrl(Written(<<"x", "next", "=", "a">>))}

\* The parser takes texts of up to a length that some pages exceed once they are in
\* the query of a login URL, but those of the tests do not.
WrittenLength(t) == FoldLeft(LAMBDA n, c : n + 1 + 2 * c.depth, 0, t)
MCIsPathAndQuery(t) == WrittenLength(t) <= 32

LoginUrlOfSqlite == {LoginUrl(None)}

Either == {"render", "redirect"}
Redirecting == {"redirect"}

MCStatuses == {401, 403}
MCBodies == {"Authentication required", "page"}
MCContentTypes ==
  {"text/plain", "text/html; charset=utf-8", "text/plain; charset=utf-8",
   "application/xml", "\n"}
MCNames == {"x-good", "X-Good", "Content-Type", "bad header"}
MCValues == {"ok", "other", "\t\n"}
MCMaps == {[n \in MCNames |-> v] : v \in MCValues}
MCValid == (MCContentTypes \cup MCNames \cup MCValues) \ {"\n", "\t\n", "bad header"}
MCHeader ==
  [n \in MCNames |-> CASE n \in {"x-good", "X-Good"} -> "x-good"
                       [] n = "Content-Type" -> CONTENT_TYPE
                       [] OTHER -> "bad header"]

VARIABLES
  setting,                                                        \* of this behaviour
  route, own, group, session, layer, seen, test, tested, answers  \* RouteTests'

\* The tests as they are written, and as they are replayed on their own routes.
Source == INSTANCE RouteTests WITH stage <- tested, response <- answers, Routes <- {}

TestRoutes == {<<t.layer>> : t \in Source!AllTests}

Tests == INSTANCE RouteTests WITH stage <- tested, response <- answers, Routes <- TestRoutes

handlerVars == vars
testVars == <<route, own, group, session, layer, seen, test, tested, answers>>

\* Where a setting leaves the variables of the others: a handler and a journey stay
\* at their beginnings.
NoHandler == Init /\ made = default
NoJourney ==
  /\ login_url = CHOOSE u \in LoginUrls : TRUE
  /\ on_failure = CHOOSE f \in AfterFailure : TRUE
  /\ page = CHOOSE p \in Pages : TRUE
  /\ JourneyInit
NoTests ==
  /\ route = None /\ own = None /\ group = None /\ session = None /\ layer = None
  /\ seen = None /\ test = None /\ tested = None /\ answers = None

InitHandlers ==
  \/ setting = "response" /\ Init /\ NoJourney /\ NoTests
  \/ setting = "login" /\ NoHandler /\ JourneyInit /\ NoTests
  \/ setting = "tests" /\ NoHandler /\ NoJourney /\ Tests!TestInit

NextResponse ==
  setting = "response" /\ Next /\ UNCHANGED <<setting, journeyVars, testVars>>
NextLogin ==
  setting = "login" /\ JourneyNext /\ UNCHANGED <<setting, handlerVars, testVars>>
NextTests ==
  setting = "tests" /\ Tests!TestNext /\ UNCHANGED <<setting, handlerVars, journeyVars>>

HandlersSpec ==
  InitHandlers
  /\ [][NextResponse \/ NextLogin \/ NextTests]_<<setting, handlerVars, journeyVars, testVars>>

-----------------------------------------------------------------------------
\* Every request is answered as the repository's test of the same name asserts,
\* with another request under way at the same time.
AnswersAsTested == setting = "tests" => Tests!AnswersAsTested

\* Every redirect of the tests goes to the location they spell out.
RedirectsAsTested == setting = "tests" => Tests!RedirectsAsTested
=============================================================================
