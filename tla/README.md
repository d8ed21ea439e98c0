# A verification of axum-login / actix-login

TLA+ modules, TLC model checking and TLAPS proofs for the `actix-login` crate
(`src/actix-login`): user identification, authentication and authorization as
middleware for Actix Web. Source paths below are relative to `src/`.

## 1. The system

| Part | Code | State | Operations |
|---|---|---|---|
| AuthSession | `actix-login/src/session.rs` | per request: the actix `Session`, the user, a copy of the auth data (`Inner`, shared through an `Rc<RefCell>`) | `from_session`, `authenticate`, `login`, `logout`, `update_session` |
| AuthManager | `actix-login/src/service.rs` | none of its own; one `AuthSession` per request in its extensions | `call`: `from_session`, then the inner service |
| Session middleware | external (`actix-session`) | per request: session key, state, status | load by the cookie's key; after the handler commit by status: save, update, delete, delete + save, update_ttl |
| MemoryStore | `actix-login/src/session_store.rs` | a map from keys to state and expiry, under a mutex | `load`, `save`, `update`, `update_ttl`, `delete` |
| SqliteStore | `examples/sqlite/src/web/sessions.rs` | a table behind a pool of connections; a task that deletes expired rows | the same five, `delete_expired`, `continuously_delete_expired`; `App::serve` starts and ends the task |
| Backend traits | `actix-login/src/backend.rs` | the application's users and permissions | `authenticate`, `get_user`, `get_*_permissions`, `has_perm` |
| Require | `actix-login/src/require.rs`, `require/*` | immutable configuration; per request a decision in progress | `call`: extract, decide, allow or answer with a handler |
| Response handlers | `actix-login/src/require/handler.rs` | `SimpleResponseHandler` and `RedirectHandler`: what their builder calls have set | `handle` |
| Redirects | `actix-login/src/redirect.rs` | none | `url_with_redirect_query`, `update_query` |
| Route macros | `actix-login/src/middleware.rs` | none | expand to `RequireBuilder` calls |
| Extractor | `actix-login/src/extract.rs` | none | clones the request's `AuthSession`, or answers 500 |
| Flash messages | `examples/sqlite/src/web/sessions.rs` | a list of messages in the session | `load`, `store` around every handler of the example |
| sqlite, permissions | `examples/sqlite`, `examples/permissions` | users; groups and their permissions | login, logout, protected pages, forms that are refused |
| oauth2, multi-auth | `examples/oauth2`, `examples/multi-auth` | users with a password, a token or both; CSRF state and next page in the session | password login, OAuth login and callback, logout |

How they interact: the session middleware wraps `AuthManager`
(`service.rs:173-177`), which wraps `Require` and the handler. The middleware
loads the session named by the cookie from the store; `AuthManager` has
`from_session` ask the backend for the user the session names and compare the
hash in the session with the user's present hash, purging the session if they
differ; the handler reads and changes the request's copy of the session; when it
has answered the middleware writes that copy back and sets the cookie. Every
request works on its own copy, requests run concurrently, and each `await` (store
call, backend call, handler) is a point where other requests, the user base or
the clock may change what the request has already read.

The examples' handlers add state to the session (a CSRF state, the page to come
back to, flash messages) and so share it between the tabs of a browser.

What is hard about it, and the property for each part that makes it correct:

* **Stale copies.** Commits of concurrent requests meet in the store in any
  order, and `update` is an upsert. A session that is gone must stay gone as far
  as the code can see to it (`ClosedStaysClosed`); where it cannot, a logout is
  undone (`LogoutIsFinal`, violated). Flash messages that have been shown must not
  come back with another request's copy (`SettledIsGone`), nor may a request
  without messages become a writer (`SilentRequestsKeepSessions`).
* **Session fixation.** A login must move the session to a new key whatever else
  is going on under the old one (`NoSessionFixation`).
* **Freshness.** The user is read once per request; a change of password must
  end all sessions bound to the old hash by the next request
  (`OutdatedOnlyIfOvertaken`), and where a user may have a password, a token or
  both, the hash must be that of the row (`UserGoesByRow`).
* **Identity.** Through renewals, expiry, restarts and late writes, nobody may be
  seen as a user they have not authenticated as (`OnlyAuthenticatedUsers`), and
  keys must not move between clients (`KeysStayWithClients`).
* **Three copies of the truth.** `user`, `data` and the session's state inside
  one request must agree after any order of calls (`CopyMatchesData`,
  `ResponseCarriesUser`, and `LoginIsKept`, violated after a purge).
* **Time.** Expiry at the boundary, lazy dropping, revival by `update_ttl`
  (`ImplementsContract`). In SQLite a statement is bound to the time it was built
  at, waits for a connection, may time out and take effect all the same: loads
  must answer what was right at some moment of the call (`LoadsAnswerInTime`),
  changes must be those the contract allows (`ChangesFollowContract`), and the
  deletion task must take what is overdue (`OverdueAreDeleted`; it ends at its
  first error, `DeletesUntilCancelled`, violated).
* **Access decisions.** Permissions change between the two reads of one decision;
  whoever passes must have held what the layer requires (`PassedAreEntitled`), and
  whoever held it all along must not be refused (`RefusedLackPermissions`). The
  answer must come from the handler for the reason a layer has, a missing user or
  missing permissions, whichever layers a request has passed before
  (`StatusTellsWhy`). In
  the permissions example the two are a join over tables whose rows change one by
  one (`ServedToMembers`, `PageImplementsRequire`).
* **Sign-in attempts.** A callback may be followed twice, in another tab, by
  another browser, after the session was renewed, logged out or overwritten: it
  must sign in only where the attempt was begun (`OnlyOwnAttempts`), land on that
  attempt's page (`LandsOnOwnPage`) and be refused only when another attempt has
  taken its place (`RefusedOnlyIfOvertaken`).
* **Texts in texts.** The page to come back to is encoded into a query, decoded,
  put into a form and sent back: it must arrive as it was (`LandsWhereItStarted`;
  after a failed login in the sqlite example it does not, `NextSurvivesFailure`,
  violated), beside the login URL's own parameters (`ParametersArrive`).
* **Configuration by calls.** Builders may be called in any order and number, and
  headers are kept in an unordered map (`AnswersAsBuilt`).
* **Progress.** Deleted users, purged sessions, restarts: every request ends
  (`RequestsEnd`); routes without an `AuthSession` and failing permission reads are
  answered (`RequestsAreAnswered`).

Besides, 46 of the repository's own tests are replayed, those that ask a route or a
redirect for an answer or a location: what each asserts is what `Require` and
`Redirect` answer, with a second request under way (`AnswersAsTested`,
`RedirectsAsTested`; section 3 lists them and those that are not).

## 2. Modules

| Module | Models |
|---|---|
| `SessionStore` | the operations of a session store, time reduced to live and lapsed records; used by `AuthService` and `WebSession` |
| `StoreContract` | those operations as a specification of its own, with replies: the abstract store |
| `StoreParameters` | the constants of the two stores with clocks and the assumptions about them |
| `MemoryStore` | `session_store.rs` with a clock; implements `StoreContract` under `EntryView` |
| `SqliteStore` | the store of the sqlite example, its deletion task and the end of the server; step by step the operations of `SessionStore` under `RowsView` |
| `SqliteLoads` | `SqliteStore` with a record of the answers that were right since each load began |
| `ActixSession` | `actix_session::Session` as the crate uses it (external) |
| `AuthSession` | `session.rs`: what the methods do to one request's `Inner` |
| `AuthService` | requests of several clients through the session middleware and `AuthManager`, over one store and one backend |
| `Authentication`, `SessionFixation`, `UserFreshness`, `LogoutHistory` | `AuthService` with one history variable each, for the properties that speak of the past |
| `Require` | requests on their way through the layers of a route, over the permissions of an `AuthzBackend` that change at any time |
| `AccessDecisions` | `Require` with a record of the permissions each request's user has had since it came |
| `Options` | `Option`: a value or `None` |
| `Redirect` | `redirect.rs` and the encoders, parsers and URIs it calls |
| `LoginJourney` | a browser from a protected page over `RedirectHandler` and the login form back |
| `SimpleResponse` | `SimpleResponseHandler`: builder calls, and the response it makes |
| `RouteTests` | tests of `require.rs`, `middleware.rs`, `redirect.rs` and `require/` (`builder.rs`, `handler.rs`, `service.rs`) as scenarios of `Require` and `Redirect` |
| `WebSession` | what the examples stand on: a request that comes in with its session and goes out with a commit |
| `OAuthFlow` | the operations of the oauth2 example, the provider included |
| `MultiAuth` | the multi-auth example: `OAuthFlow` and the password login, as a specification |
| `PasswordUsers` | `WebSession` with the users table of the sqlite and permissions examples, and the row a login checks its password against |
| `PermissionsApp` | the permissions example; its pages implement `Require` |
| `FlashMessages` | the sqlite example with `SessionMessageStore` around its handlers |
| `MCInstances`, `MC*` | the small instances TLC checks; `MCStores`, `MCSessions`, `MCExamples` and `MCHandlers` put several modules into one |
| `*Proofs` | theorems and proofs |

### From code to model

`AuthSession` is pure: `from_session(session, user)`, `login(inner, user)`,
`logout(inner)` return what the Rust methods leave in `Inner`. A user is an id
with its `session_auth_hash`; `data` is `None` where both halves of Rust's `Data`
are `None` (no code path sets only one: `login` sets both, `from_session` resets
both). `logout` purges the session but leaves `data` and its hash, so a later
login in the same request does not renew; `from_session` keeps `data` for a user
the backend no longer has. Both are in the model.

`AuthService` advances each request one await at a time; `stage` says how far it
has got:

| `stage` | action | code |
|---|---|---|
| new | `Arrive` | the middleware reads the key from the cookie |
| load | `Load` | store `load`; a key without a live record is forgotten; `AuthManager::call` up to its await (`Begin`) |
| verify | `GetUser` | `get_user` answers, the rest of `from_session` |
| handle | `authenticate`, `Login`, `Logout`, `WriteAppData` | handlers, any order, any number of times |
| handle | `CommitNew/Changed/Purged/Renewed/Unchanged` | the middleware's commit by session status |
| save | `SaveRenewed` | the second half of a renewal |
| respond | `Deliver` | the response's `Set-Cookie` reaches the client |

`Fail` ends a request at any await: a store or backend error (`service.rs:78-86`
answers with an error before the middleware commits), or a lost connection that
drops the future. `ChangeUser` changes a hash, removes a user or adds one.
`TimePasses` lets records lapse and be swept, `Restart` empties the store and
kills all requests while clients keep their cookies. `owner` records the client a
key was made for: the generator draws 64 random characters, so a key is never
made twice (`SaveFresh` takes only keys without an owner).

The login handler keeps the authenticated user in `found` and passes it to
`login` later, so that the user base may change in between, as it may in the
examples' handlers (`examples/sqlite/src/web/auth.rs`).

`Require` takes over where `AuthService` has the handler: `Arrive` is a request
with its `AuthSession` (a user, none, or no `AuthSession` at all on a route that
`AuthManager` does not cover). `route` is the sequence of layers around the
handler, one of the constant `Routes`. A layer is the record the builder fills in
(`RequireState`), and `Layers` is all that `RequireBuilder` takes: any predicate with
any two handlers, since `decision`, `unauthorized` and `unauthenticated` are set
independently of one another. A closure is an application's code, known by the set of
decisions it may come to; it comes to any of them at any time. A handler of denials is
known by the set of answers it may give: 401 and 403 for the default ones, 307 or 500
for `RedirectHandler`, one status for a `SimpleResponseHandler`, any set for an
application's own. What the two of the crate answer beyond that is in `LoginJourney`
and `SimpleResponse`. `DecideDefault`, `DecideClosure` and `DecideAnonymous` decide in
one step; a predicate on permissions takes `get_user_permissions`, then
`get_group_permissions` with the comparison (`get_all_permissions` and the rest
of `PermissionsPredicate::decide`), or `PermissionsFail` at either read.
`Conclude` is the match on the decision in `RequireService::call`: on to the next
service (`Calls`) or a denial. The service inside may fail (`inner_fails`); its error
goes out through all layers (`service.rs:101`), as one step, since none of them looks
at it. `from_request_fails` is the extractor of a handler on a route without
`AuthManager`. The user's hash and the session play no part in a decision, so the
module is not composed with `AuthService`: what a request arrives with is arbitrary.

`MemoryStore`'s methods hold the mutex from beginning to end and read the clock
under it, so each is one step. Assumed: the clock does not run backwards, and
times to live are positive (they are configured as days). `len` and `is_empty`
only read.

In `SqliteStore` each method is two steps: the statement is built, with the clock
as it stands then (`Begin`), and later runs (`Execute`) or fails (`Fail`), which a
write may do before or after it took effect. A statement waits no longer than
`Patience`, the pool's time-out, which is shorter than any time to live (seconds
against a day): that is what makes the early reading of the clock harmless, and
`SqliteAssumption` says so. The deletion task is `delete_expired`, `SweepDone`,
`SweepFails`; `serve_ends` is the end of `App::serve`: with an error if the server or
the task's join gives one (the task is then dropped with the runtime), else with what
the task has come to. A key that
`save` has drawn and not yet returned is known to nobody (`Secret`).

A text in `Redirect` is a sequence of characters that know how many times each is
percent-encoded: `%2526` is `&` with depth 2. `encode` adds one to the depth of
every reserved or encoded character, `decode` takes one away, and a separator is
a separator only at depth 0; that is all the encoders do that a query can tell.
`Characters` and `Reserved` (those that both encoders encode) are constants: the
theorems hold for any, as long as the separators, a space and a plus sign are
reserved. A query is read piece by piece: a piece begins where a character that is
no `&` stands first or behind an `&`, and goes up to the next one. Each of the three
errors of `redirect.rs` ends in `None`, and `RedirectHandler` then answers 500: a login
URL that does not parse (line 23, the constant `Broken`); one that is an authority
without a scheme, as `login` without a slash, and so cannot be given a path
(`Uri::from_parts`, line 12, `Bare`); and a path and query that the parser refuses
once the page is in it, as one that is too long (line 10). What the parser takes is a
constant operator, `IsPathAndQuery`: the theorems hold for any, and TLC is given one
with a length that some of the pages exceed.

`WebSession` takes a request in with one step (`Enter`: the session is loaded and
checked against the backend) and out with another (`Commit`), with the awaits of
the handler between the two; the finer steps of the middleware are those of
`AuthService`. The `TtlExtensionPolicy` is a constant of `AuthService`,
`OnEveryRequest`, and an argument of `Commit`, which each example gives the policy
it is built with. In
`OAuthFlow` an attempt is the CSRF state that was drawn for it; the code the
provider sends back belongs to the attempt and to whoever has agreed, is good for
one token, and its link may be followed by anyone at any time. oauth2 is
`MultiAuth` as long as nobody in the table has a password: the two differ in
nothing else that touches the session. `PermissionsApp` follows a request through
`visit`, the layer's decision and the page; the refinement mapping of
`PageImplementsRequire` shows the requests for one page (`Watched`) as those of a
`Require` route of one layer over the permissions that the join finds.
`FlashMessages` puts the load of the messages before and the store of them after
every handler, in the same copy of the session. Both stand on `PasswordUsers`: a
login reads the row, and signs in what it has read even if the row has another
password by then.

A call on a `SimpleResponseHandler` is `Changes(h, part, value)`: it makes the
handler `h` and is noted in `calls`, of which `AnswersAsBuilt` asks what was said
last. The map of headers is walked one name at a time, in any order
(`handle_header`).

## 3. Runs

| Run | Instance | Distinct states | Shows |
|---|---|---|---|
| `stores` | memory: 2 keys, ttls 1 and 2; SQLite: 1 key, 2 callers, ttl 2, patience 1; 2 states, clock to 5 | 33 800 | both stores keep the contract; overdue rows are deleted |
| `logins` | 1 client, 2 requests, 2 users, 2 hashes | 540 000 | user, data and session agree; responses carry the user; outdated sessions end with the next request |
| `sessions` | 2 clients, 3 requests, 1 user, `OnEveryRequest` | 440 000 | nobody is seen as somebody else; no fixation; keys stay with clients; what is gone stays gone |
| `requests_end` | 1 client, 2 requests, 1 user, no symmetry | 38 000 | every request ends |
| `access_decisions` | 1 request, 1 user, 2 permissions, routes of up to 2 of 20 layers | 1 111 000 | who passes is entitled, who is refused lacks something; the handler for the reason answers; every request is answered |
| `sign_in` | 2 clients, 2 requests, 1 user, 2 attempts for 2 pages, 1 password, 1 token; bound below | 1 990 000 | sign-ins end where they began and nowhere else; sessions go by the row |
| `examples` | permissions: 2 users, 2 groups as migrated, 2 changes of rows, 2 keys; sqlite: 1 user, 2 passwords, 2 messages, 3 keys; 1 client, 2 requests | 301 000 | pages are served to members and are `Require` routes; messages that were shown are gone |
| `handlers` | journey: 1111 pages, 8 login URLs (2 of them unusable), 2 failures; handler: 3 calls, headers one by one or as a map; 46 tests with 2 requests | 966 000 | journeys end where they began, or with an error where they must; responses are as built; the tests' assertions |
| `late_write_after_logout` | 1 client, 3 requests | | **violated**: see findings |
| `login_after_purge` | 1 client, 2 requests, 2 hashes | | **violated**: see findings |
| `sweeping_ends_at_an_error` | as `stores`, clock to 4 | | **violated**: see findings |
| `failed_login_loses_the_query` | as `handlers`, with the sqlite example's login | | **violated**: see findings |

Several modules in one run. `MCStores`, `MCExamples` and `MCHandlers` choose at
the start which of two or three specifications they follow, and leave the
variables of the others in one of their initial states; their behaviours are those
of the modules one by
one. `MCSessions` takes `AuthService` with the histories of `Authentication` and
`SessionFixation` at the same time.

Bounds. In `AuthService` a request is used once and makes at most one key, so as
many keys as requests never block a commit. The interesting cases need at most
three requests: one to establish a session and two that work on it concurrently;
two suffice where the second request only has to find what the first has left. In
`MultiAuth` and `FlashMessages` requests are used again, so that two of them are two
concurrent requests with any past. Two users and two hashes make a switch of
users and a change of password possible; two messages tell an old message from a
new one. A clock up to 5 lets a record expire, be revived, rewritten by a late
statement, expire again and be swept. In `Require` requests read the backend and
write nothing the others see, so one request of one user is enough; two
permissions tell Any, All and Exact apart and can move between a user and its
groups; two layers are a layer before and a layer behind any other. They are what the
macros expand to, permissions of each mode, with the default handlers and with the
example's, and closures over the default handlers, over one of their own and with
every decision to choose from; the theorems are about all of `Layers`. The queries
of the journey's pages are all those of up to three of ten ingredients: names,
separators at depths 0, 1 and 2, plus signs and encoded spaces. Where a property
does not turn on the time-to-live policy the cheaper value of `OnEveryRequest` is
taken.

`sign_in` has a state constraint, `Bound`: two browsers and two attempts as long
as nobody has a password; once somebody has one, one browser at a time with one
attempt, which is what the password's row check and a token that replaces the
password under it need.

Symmetry. Clients, requests, keys, users, hashes and messages are interchangeable,
so the safety runs use symmetry; runs with a liveness property do not.
`MCAccessDecisions` does by hand what a symmetry set would (`P1First`): routes are
constant along a behaviour, so of two that differ in the names of the permissions
only it takes one.

Deadlock is checked in the runs of `AuthService`, `Require` and `MultiAuth`, where a
state in which every request is done still has a change of the backend. The stores
stop at the bound of the clock and when the server ends; the requests of
`PermissionsApp` are answered once; journeys land and tests are over.

A permission that moves from a user's groups to the user between the two reads is
seen by neither, so a user may be refused who held it at every moment. What the
code does promise is in the two properties of `AccessDecisions`: it counts as held
all along only if held from one and the same source, and to pass, each required
permission must have been held at some moment, not all of them at the same.

Fairness. `FairSpec` asks weak fairness of `Server(r)`, the part of a request
that does not depend on the client: store and backend answer, and a handler
returns. It is what the executor gives: a future whose await is ready is polled.
Arrivals, handler calls, failures and restarts are not fair; that a handler
returns is an assumption on the application. In `Require` it is a request's
decision (a success or a failure of the read it waits for) and its handler. In
`SqliteStore` it is the deletion task's interval and its statement
(`tokio::time::interval` goes on ticking, and a pool answers or times out), and
each caller's statement, which runs or fails; calls, the clock and the end of the
server are not fair.

### The tests that are replayed

`RouteTests` has one scenario for each of these, under the test's name
(`test_login_url_explicit_redirect` with both of its fields; `macro_` before those of
`middleware.rs`). What `Require` leaves open a scenario fixes: what the closure decides
(`Verdict` is the function the test's closure calls), whether the service inside fails,
and, for a redirect, the location, which `url_with_redirect_query` computes: 500 is
answered where it gives none, and only there.

* `require.rs`: the twenty tests of routes, `test_login_required` to
  `test_login_url_explicit_redirect_with_permissions`.
* `middleware.rs`: all fourteen.
* `redirect.rs`: both.
* `require/handler.rs`: the four of `RedirectHandler`.
* `require/builder.rs`: `builder_decision_override_is_used`; the test looks at the
  decision, the model at the answer it leads to.
* `require/service.rs`: `allow_calls_inner`, `unauthorized_does_not_call_inner`,
  `unauthenticated_does_not_call_inner`, `missing_auth_session_returns_internal_error`,
  `allow_propagates_inner_error`.

Statuses other than 401, 403, 307 and 500 that a test gives its handlers, as 410, are
`"alternative"`; bodies are left out. Several scenarios are the same as records, where
a macro and a builder make the same layer.

Not replayed: the five parity tests, which compare the macros with the builder
(`require.rs:607-746`; in `Require` the macros are builder calls, and `MacrosMakeLayers`
says that they make layers); `readiness_is_forwarded_to_inner`, as there is no
readiness in the model; `decision_is_evaluated_once_per_request`, which counts calls;
the three tests of `predicate.rs`, which are single steps of `Require`
(`DecideDefault`, `PermissionsFail`); the five of `handler.rs` about
`SimpleResponseHandler`, the default responses and closures as handlers, whose subject
is `SimpleResponse`; those of `session.rs`, whose subject is `AuthSession`; and tests of
`Debug` output, of the builder's state and of feature gates.

### Findings

* `LogoutIsFinal`: `tests/integration-test.rs:152` says that a client which keeps
  its cookie from before the logout "is still logged out: the session is destroyed
  in the store". A concurrent request that loaded the session before the logout
  and changes it (a flash message is enough) commits an `update`, which is an
  upsert (`session_store.rs:106-114`): the session is back under the old key,
  auth data included. `ClosedStaysClosed` says how far the promise does hold.
* `LoginIsKept`: `session.rs:174` says `login` "Updates the session such that the
  user is logged in". In a request whose session `from_session` has purged for an
  outdated hash (`session.rs:239-243`), `renew` and `insert` do nothing any more:
  `login` returns `Ok`, the request has its user, and the response removes the
  session and its cookie. A user who has changed the password elsewhere has to
  log in twice. The same happens to a login after a logout in one request.
* `DeletesUntilCancelled`: `examples/sqlite/src/web/sessions.rs:61` says that
  `continuously_delete_expired` runs the deletion "on the given interval until
  cancelled". Its loop leaves with `?` at the first error (`sessions.rs:71`), and
  `App::serve` looks at the task only when the server has ended (`app.rs:100-108`):
  after one busy or unreachable moment of the database rows stay overdue for good.
  `OverdueAreDeleted` is what does hold.
* `NextSurvivesFailure`: the sqlite example extracts the next field "to redirect
  after log in" (`examples/sqlite/src/web/auth.rs:15-16`). After a failed login it
  writes the decoded field into a URL as it is (`auth.rs:53-56`): a page whose query
  holds `&`, `+` or a percent sign is not the one the browser ends up on.
  `LandsWhereItStarted` holds for the examples that render the form again, and for
  every login that succeeds at once.

## 4. Proofs

TLAPS checks every leaf, for constants that are arbitrary sets. What is assumed of
them is named in the modules, and TLC evaluates it in every run:

* `None`, `"keep"` and the like are not among the values they stand beside
  (`AuthServiceAssumption`, `SessionAssumption`, `StoreAssumption`,
  `RequireAssumption`, `UriAssumption`, `MultiAuthAssumption`, and conjuncts of the
  others);
* a route is a sequence of layers that `RequireBuilder` can build
  (`RequireAssumption`);
* times to live are positive, and the pool's patience is shorter than any of them
  (`SqliteAssumption`);
* a hash is a password, a token or empty, the data the OAuth example keeps in a
  session are an attempt's, and `/` is not a page to come back to
  (`OAuthAssumption`); the rows of the migration are among the tables' types
  (`PermissionsAssumption`);
* what the ready-made responses set is among the values a response may have, and
  the content types they set may be sent (`SimpleAssumption`);
* the separators of a query are among the reserved characters
  (`RedirectAssumption`); pages, and the login URLs that parse and have a path, are
  URIs, whose path holds no question mark (`JourneyAssumption`).

The hard part of every proof is an invariant strong enough to be inductive. TLC
has checked each on its run's instance before it was proved; where it was not inductive at
first, what it lacked is named here, for it is what the code relies on.

* `AuthServiceProofs`. `IInv == TypeOK /\ CopyMatchesData /\ KeysStayWithClients`.
  `TypeOK` alone is not inductive: `GetUser` reads `state.auth.user_id`, which has a
  type only because a request in stage verify has auth data, a conjunct of
  `CopyMatchesData`. From `[]IInv`: `TypeCorrect`, `CopiesAgree`, `KeyIsolation`, and
  the action properties `GoneForGood` (a write under a key needs a request that
  holds it, or a key without owner) and `SessionOfTheUser`.
* `HistoriesProofs`, over `IInv`, one section for each history:
  * `NoImpersonation`, from `GrantedAlways`: every copy of auth data, in the store or
    a request, is covered by an authentication by the key's owner.
  * `FixationPrevented`. `NoSessionFixation` is strengthened to `KindOfKeyIsFixed`
    (`KeysKeepTheirKind`), which covers the copies in the requests' hands: the only
    step that turns a copy from anonymous to logged in is a login, and then the
    request holds no auth data, so the session is renewed and its old key deleted.
  * `NoStaleSessions`, from `AllFresh`, which extends the property to the user that
    has been authenticated but not yet logged in.
* `AccessDecisionsProofs`, for any routes of any length, whose layers have any predicate
  and any two handlers (`Layers`). `MacrosMakeLayers`: what the three macros expand to is
  among them. `RequireInv` gives `TypeCorrect` and `StatusIsRight`: it is the types, that
  a request between its reads is a user's in a permission layer, and `StatusTellsWhy`;
  the steps that stop a request are shown one by one to give a reason that the layer
  has for that session (`Concluded`, `StatusStays`). It says nothing of the statuses
  themselves: those are the handlers', and 401 and 403 mean what `CHANGELOG.md:28` says
  of them with the default handlers only. For `AccessIsEarned` and `RefusalIsDue` every
  step is shown to be one of three things to a request (`Moves`, `Passes`,
  `Refused`), and the set a layer compares to lie between the permissions held all
  along and those held at some moment (`Enclosed`), of which `MatchInBetween`
  says what a match or a mismatch is worth.
* `StoresProofs`:
  * `MemoryImplements`, the refinement of the contract by `MemoryStore` for any
    keys, states and times to live, and `MemoryTypeCorrect`. A tick maps to the lapse
    of exactly the records that expire with it.
  * `StoreInv` of `SqliteStore` is the types and, for each caller, `Bound`: what a
    pending statement carries was computed when it was called, no longer ago than
    `Patience`. `TypeCorrect` is its corollary. `FollowsContract` goes over the
    steps: a write's expiry is still ahead when it runs, because `Patience` is
    shorter than every time to live; what a deletion takes has expired, because its
    date has passed. `LoadsInTime` needs the history as well: if the row a load would
    answer with has lapsed since, then it was live at some earlier moment of the
    call, and what was right then is in `seen`.
* `WebSessionProofs`: lemmas for all three examples. What a session goes through on
  its way in and out keeps its types (`EnterType`, `CommitType`, ...) and `KeysApart`:
  requests of different clients never have the same key, nor is a client's cookie
  another's, since a key is only drawn when nobody has heard of it.
* `MultiAuthProofs`, of the OAuth sign-in and the password form over one table.
  `FlowInv` is the types, `KeysApart` and
  * `BegunHere`: an attempt in a session, stored or in a request's hands, was begun by
    the client whose session it is, and its page is there as long as nobody has come
    back for it: without it nothing ties the state a callback compares to a browser;
  * `Carries`: what a callback holds at each of its awaits. That the states agreed
    was checked before the code went to the provider, and must still be known after
    it;
  * `RowIsRead`: the row a password is checked against is the present one, or the
    request is among those overtaken by a change;
  * `UserGoesByRow` itself.

  `FlowTypeCorrect`, `MultiTypeCorrect`, `CallbacksAnswerOwnAttempts`, `UsersGoByRow`
  and `RefusalsAreOvertaken` are corollaries; the action property
  `CallbacksLandOnOwnPage` uses `Carries` for the attempt that a callback ends.
* `ExamplesProofs`, of the permissions and the sqlite example over `PasswordUsers`:
  * `PagesInv` is the types and `Progress`, what a request has been given at each
    stage; it gives `TypeCorrect`. `OnlyMembersAreServed` adds `EverHas`: until the
    join is read, the permissions its visitor has now are among those noted.
    `PagesAreRoutes` is the refinement: a lemma for each kind of step says which step
    of the route it is (`Concludes` for all outcomes of the layer), and requests for
    anything but the watched page leave the route alone (`OthersLeaveRoute`).
  * `FlashInv` is the types, `FlashProgress` and `Located`. That a settled message is
    in no session is not inductive: a concurrent request may have its own copy and
    write it back. `Located` says why that does no harm: a message is with the one
    request that sends it until that is answered, then under at most one key, which
    is the key of whoever has loaded it; and `FlashProgress` that whoever has loaded
    one ends with a session that is changed, renewed or purged, never `Unchanged`.
    `SettledMessagesAreGone`, `FlashTypeCorrect` and the action property
    `SilenceKeepsSessions` follow.
* `HandlersProofs`:
  * `HandlersAnswerAsBuilt`. `HandlerInv == Built /\ Answering`: each part of the
    handler is what the calls said of it last (`Built`), and a response on its way
    agrees with it in the headers that have been walked (`Answering`): under each
    header stands one of the values of the names walked so far that spell it, or
    what the content type left there.
  * About `Redirect`, for texts of any length, encoded any number of times.
    `PageComesBack`: a form parser finds the very page under the field that
    `url_with_redirect_query` writes it behind; so it does when the login form sends
    it on; neither text has a separator in it at which a query could be cut; and the
    browser that is sent to the page asks for it. `ExtendedComesBack`: whatever pairs
    `update_query` appends to whatever query, a form parser finds them behind what
    the query had, in their order. They rest on `DecodeUndoesEncode`, on `CutAtFirst`
    (what the first separator divides can be told apart again) and on `ParseGrows`: a
    piece that is appended begins last, so that the pieces before it keep their ranks
    (`RanksGrow`). The loop over the pairs is a recursive function; that there is one
    such function (`WritingExists`), and what it has written after each pair, is shown
    by looking at the first pair that would go wrong.
  * About `LoginJourney`, for any pages and login URLs, with any parameters of their
    own. `JourneyInv` is the types and three facts, none of which is inductive alone:
    a browser on its way to the login page carries a next field (without it the form
    could come up with no page to come back to); before the first failure its URI is
    the one that `RedirectHandler` made; and as long as nothing can have spoilt it
    (`Kept`: the page is rendered again, or nothing has failed yet, or there is
    nothing to encode), the text to come back to is the same in the URI, in the form
    and where the browser lands. `SentType` says when `RedirectHandler` has no location
    (`HandlerFails`: the login URL cannot be parsed, or the page must be written into it
    and cannot be), and what it has otherwise; `JourneyTypeCorrect`, `BrowserLandsWhereItStarted`
    and `LoginParametersArrive` follow; `SubmittedComesBack` is the lemma about the
    form, `AgainType` and `RedirectingKeeps` those about the URL the sqlite example
    writes by hand.

Only model-checked:

* liveness (`RequestsEnd`, `RequestsAreAnswered`, `OverdueAreDeleted`), which is out of
  the prover's reach;
* `AnswersAsTested` and `RedirectsAsTested`: 46 scenarios, one for each test that is
  replayed;
* the four violated properties.

Every other property of a passing run is stated by a theorem, and `MemoryTypeCorrect`
states the types of `MemoryStore`, which the runs leave to it. One refinement that
suggests itself does not hold and is not claimed: `WebSession` takes a request in
with one step (`Enter`), but in `AuthService` the session is loaded at one moment and
the user at a later one, with other requests in between, so that no single step of
`WebSession` shows both. The examples are therefore checked and proved over
`WebSession` itself, and what hangs on the two moments over `AuthService`.

## 5. Not modelled, and the plan

Left out for good: wording, logging and tracing; serialization errors of the
session's JSON; a poisoned mutex; the cookie's signature (a client holds only
keys it was given); typing in route macros and builders; the markup of pages and
templates. `main.rs` of the examples (environment, migrations, logging) does
nothing after the start. The crate's documentation, its benches and the
feature-gate tests have no behaviour; the process-level integration test drives
the examples over HTTP, and what it asserts is quoted where a property states it.
The provider of `OAuthFlow` is one await that succeeds or fails, not a protocol.

Hazards without a property (a response with the old key that overtakes the login's;
records nobody reads again in `MemoryStore`; `with_permissions` replacing its set; a
sign-in begun, or a message sent, in a request whose session was purged) are those
the code promises nothing about; the models contain them, except the second call
of `with_permissions`, which no caller makes.

What could come next: proofs that the examples' sessions keep the promises of
`AuthService`, freshness (`OutdatedOnlyIfOvertaken`) and the renewal at login, over
`WebSessionProofs`.
