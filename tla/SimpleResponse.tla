---------------------------- MODULE SimpleResponse ----------------------------
(***************************************************************************)
(* SimpleResponseHandler (src/actix-login/src/require/handler.rs): it is   *)
(* built by a series of calls, shared by the requests it denies, and makes *)
(* each of them a response.  Its headers are kept in a HashMap, which is   *)
(* walked in any order, under the names they were given; those of a        *)
(* response do not tell upper from lower case.                             *)
(***************************************************************************)
EXTENDS Options, Sequences, Integers, Functions

CONSTANTS Statuses, Bodies, ContentTypes,
          Names, Values,   \* of headers
          Maps,            \* the maps of headers that may be added at once
          Valid,           \* the content types, names and values that may be sent
          Header,          \* the header of a response each name is for
          MaxCalls         \* bound on the calls to the handler under construction

VARIABLES handler,   \* the SimpleResponseHandler
          made,      \* how it was made
          calls,     \* history: the calls it has been changed with
          response,  \* the response under way
          pending    \* the names left to be looked at

vars == <<handler, made, calls, response, pending>>

CONTENT_TYPE == "content-type"

HeaderMaps == UNION {[N -> Values] : N \in SUBSET Names}

Response ==
  [status : Statuses, body : Bodies,
   headers : [{CONTENT_TYPE} \cup Range(Header)
                -> Opt(Valid \cap (Values \cup ContentTypes))]]

\* A map with a name in two spellings is what Header is for; an error page is a
\* body like any other.
ASSUME SimpleAssumption ==
  /\ None \notin Response \cup Names \cup Values \cup ContentTypes
  /\ Maps \subseteq HeaderMaps
  /\ Valid \subseteq ContentTypes \cup Names \cup Values
  /\ {"text/plain", "text/html; charset=utf-8", "text/plain; charset=utf-8",
      "application/xml"} \subseteq ContentTypes \cap Valid
  /\ Header \in [Names -> STRING]
  /\ {401} \subseteq Statuses /\ {"Authentication required", "page"} \subseteq Bodies
  /\ MaxCalls \in Nat

-----------------------------------------------------------------------------
(* Making a handler.                                                        *)

default == [status_code |-> 401, body |-> "Authentication required",
            content_type |-> "text/plain", headers |-> << >>]

status_code(h, status) == [h EXCEPT !.status_code = status]
body(h, b) == [h EXCEPT !.body = b]
content_type(h, type) == [h EXCEPT !.content_type = type]

\* Mutant: headers that are there already stay.
extendWhereMissing(map, more) ==
  [n \in DOMAIN map \cup DOMAIN more |-> IF n \in DOMAIN map THEN map[n] ELSE more[n]]

\* HashMap::extend.
extend(map, more) ==
  [n \in DOMAIN map \cup DOMAIN more |-> IF n \in DOMAIN more THEN more[n] ELSE map[n]]

Single(name, value) == [n \in {name} |-> value]

header(h, name, value) == [h EXCEPT !.headers = extend(@, Single(name, value))]
headers(h, map) == [h EXCEPT !.headers = extend(@, map)]

html(status, b) == body(content_type(status_code(default, status), "text/html; charset=utf-8"), b)
text(status, b) == body(content_type(status_code(default, status), "text/plain; charset=utf-8"), b)
xml(status, b) == body(content_type(status_code(default, status), "application/xml"), b)

\* The page is laid out from a title and a message.
error_page(status) == html(status, "page")

Made == {default} \cup {error_page(s) : s \in Statuses}
          \cup {html(s, "page") : s \in Statuses} \cup {text(s, "page") : s \in Statuses}
          \cup {xml(s, "page") : s \in Statuses}

Init ==
  /\ made \in Made /\ handler = made
  /\ calls = << >> /\ response = None /\ pending = {}

\* A call about part `of' changes the handler into h.
Changes(h, of, value) ==
  /\ response = None /\ Len(calls) < MaxCalls
  /\ handler' = h
  /\ calls' = Append(calls, [of |-> of, value |-> value])
  /\ UNCHANGED <<made, response, pending>>

Build ==
  \/ \E s \in Statuses : Changes(status_code(handler, s), "status_code", s)
  \/ \E b \in Bodies : Changes(body(handler, b), "body", b)
  \/ \E t \in ContentTypes : Changes(content_type(handler, t), "content_type", t)
  \/ \E n \in Names, v \in Values : Changes(header(handler, n, v), "headers", Single(n, v))
  \/ \E map \in Maps : Changes(headers(handler, map), "headers", map)

-----------------------------------------------------------------------------
(* A request is denied.                                                     *)

NoHeaders == [h \in {CONTENT_TYPE} \cup Range(Header) |-> None]

handle ==
  /\ response = None
  /\ response' = [status |-> handler.status_code, body |-> handler.body,
                  headers |-> [NoHeaders EXCEPT ![CONTENT_TYPE] =
                    IF handler.content_type \in Valid THEN handler.content_type ELSE None]]
  /\ pending' = DOMAIN handler.headers
  /\ UNCHANGED <<handler, made, calls>>

\* Mutant: whether the value is a valid one is not asked.
insertUnchecked(sofar, n) ==
  IF n \in Valid THEN [sofar EXCEPT ![Header[n]] = handler.headers[n]] ELSE sofar

\* What the header under name n makes of those so far.
insert(sofar, n) ==
  IF n \in Valid /\ handler.headers[n] \in Valid
  THEN [sofar EXCEPT ![Header[n]] = handler.headers[n]]
  ELSE sofar

handle_header ==
  \E n \in pending :
    /\ response' = [response EXCEPT !.headers = insert(@, n)]
    /\ pending' = pending \ {n}
    /\ UNCHANGED <<handler, made, calls>>

Next == Build \/ handle \/ handle_header

Spec == Init /\ [][Next]_vars

-----------------------------------------------------------------------------
(* Properties.                                                              *)

\* The handler keeps to its types, and only what may be sent is ever put into a
\* response.
TypeOK ==
  /\ handler \in [status_code : Statuses, body : Bodies, content_type : ContentTypes,
                  headers : HeaderMaps]
  /\ pending \subseteq Names
  /\ response \in Opt(Response)

Latest(I) == CHOOSE i \in I : \A j \in I : j <= i

\* What the last of the calls said about a part has given.
Said(said, of, otherwise) ==
  LET about == {i \in DOMAIN said : said[i].of = of}
  IN  IF about = {} THEN otherwise ELSE said[Latest(about)].value

\* The last value given under a header's name, alone or among others.
Given(said, n) ==
  LET about == {i \in DOMAIN said : said[i].of = "headers" /\ n \in DOMAIN said[i].value}
  IN  IF about = {} THEN None ELSE said[Latest(about)].value[n]

\* What a response must have under header h, according to the calls: the value
\* of a spelling of its name, each of which the latest call decides; for want of
\* any, the content type.
Expected(h) ==
  LET sendable == {Given(calls, n) : n \in {n \in Names \cap Valid : Header[n] = h}} \cap Valid
      type == Said(calls, "content_type", made.content_type)
  IN  IF sendable # {} THEN sendable
      ELSE IF h = CONTENT_TYPE /\ type \in Valid THEN {type} ELSE {None}

\* The denied request gets what the calls that built its SimpleResponseHandler
\* have said last, in whatever order the map is walked: a valid Content-Type among
\* the headers outdoes the handler's content type, invalid ones are left out ("Set
\* content type, skipping it when it isn't a valid header value", handler.rs:366),
\* and only where a name has been given in two spellings may the response go
\* either way.
AnswersAsBuilt ==
  response # None /\ pending = {} =>
    /\ response.status = Said(calls, "status_code", made.status_code)
    /\ response.body = Said(calls, "body", made.body)
    /\ \A h \in DOMAIN response.headers : response.headers[h] \in Expected(h)
=============================================================================
