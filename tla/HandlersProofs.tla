---------------------------- MODULE HandlersProofs ----------------------------
(***************************************************************************)
(* What a SimpleResponseHandler answers, for any series of calls that      *)
(* build it and any order in which the map of its headers is walked; and   *)
(* that the page a RedirectHandler puts into a query comes out of it, for  *)
(* any pages and login URLs, at the end of a browser's journey too.        *)
(***************************************************************************)
EXTENDS SimpleResponse, LoginJourney, FiniteSetTheorems, SequenceTheorems,
        WellFoundedInduction, TLAPS

-----------------------------------------------------------------------------
(* The last call.                                                           *)

LEMMA LatestIsLast ==
  ASSUME NEW n \in Nat, NEW I \in SUBSET (1 .. n), I # {}
  PROVE  Latest(I) \in I /\ \A j \in I : j <= Latest(I)
<1> DEFINE D == {n - i : i \in I}
<1>1. D \subseteq Nat /\ D # {}
  <2>1. \A i \in I : n - i \in Nat
    OBVIOUS
  <2>2. QED
    BY <2>1
<1>2. PICK x \in D : \A y \in D : <<y, x>> \notin OpToRel(<, Nat)
  BY <1>1, NatLessThanWellFounded, WFMin
<1>3. PICK i \in I : x = n - i
  BY <1>2
<1>4. ASSUME NEW j \in I
      PROVE  j <= i
  <2>1. n - j \in D /\ n - j \in Nat /\ n - i \in Nat
    OBVIOUS
  <2>2. ~ (n - j < n - i)
    BY <1>2, <1>3, <2>1 DEF OpToRel
  <2>3. QED
    BY <2>1, <2>2
<1>5. QED
  BY <1>4 DEF Latest

LEMMA LatestGrows ==
  ASSUME NEW n \in Nat, NEW I \in SUBSET (1 .. n)
  PROVE  Latest(I \cup {n + 1}) = n + 1
<1> DEFINE last == Latest(I \cup {n + 1})
<1>1. last \in I \cup {n + 1} /\ n + 1 <= last
  BY LatestIsLast, n + 1 \in Nat, I \cup {n + 1} \in SUBSET (1 .. n + 1)
<1>2. \A i \in I : i \in Int /\ i <= n
  OBVIOUS
<1> HIDE DEF last
<1>3. last = n + 1
  BY <1>1, <1>2
<1>4. QED
  BY <1>3 DEF last

\* The calls of the builder.
Calls ==
  [of : {"status_code"}, value : Statuses] \cup [of : {"body"}, value : Bodies]
    \cup [of : {"content_type"}, value : ContentTypes] \cup [of : {"headers"}, value : HeaderMaps]

LEMMA SaidNext ==
  ASSUME NEW said \in Seq(Calls), NEW c \in Calls, NEW of, NEW otherwise
  PROVE  Said(Append(said, c), of, otherwise) =
           IF c.of = of THEN c.value ELSE Said(said, of, otherwise)
<1> DEFINE n == Len(said)
           more == Append(said, c)
           before == {i \in DOMAIN said : said[i].of = of}
           after == {i \in DOMAIN more : more[i].of = of}
<1>1. /\ n \in Nat /\ DOMAIN said = 1 .. n /\ DOMAIN more = 1 .. n + 1
      /\ more[n + 1] = c /\ \A i \in 1 .. n : more[i] = said[i]
  OBVIOUS
<1>2. before \in SUBSET (1 .. n)
  BY <1>1
<1>3. CASE c.of = of
  <2>1. after = before \cup {n + 1}
    BY <1>1, <1>3
  <2>2. Latest(after) = n + 1
    BY <1>1, <1>2, <2>1, LatestGrows
  <2>3. QED
    BY <1>1, <1>3, <2>1, <2>2 DEF Said
<1>4. CASE c.of # of
  <2>1. after = before
    BY <1>1, <1>4
  <2>2. before # {} => Latest(before) \in 1 .. n
    BY <1>1, <1>2, LatestIsLast
  <2>3. QED
    BY <1>1, <1>4, <2>1, <2>2 DEF Said
<1>5. QED
  BY <1>3, <1>4

LEMMA GivenNext ==
  ASSUME NEW said \in Seq(Calls), NEW c \in Calls, NEW name
  PROVE  Given(Append(said, c), name) =
           IF c.of = "headers" /\ name \in DOMAIN c.value THEN c.value[name]
           ELSE Given(said, name)
<1> DEFINE n == Len(said)
           more == Append(said, c)
           before == {i \in DOMAIN said :
                        said[i].of = "headers" /\ name \in DOMAIN said[i].value}
           after == {i \in DOMAIN more :
                       more[i].of = "headers" /\ name \in DOMAIN more[i].value}
<1>1. /\ n \in Nat /\ DOMAIN said = 1 .. n /\ DOMAIN more = 1 .. n + 1
      /\ more[n + 1] = c /\ \A i \in 1 .. n : more[i] = said[i]
  OBVIOUS
<1>2. before \in SUBSET (1 .. n)
  BY <1>1
<1>3. CASE c.of = "headers" /\ name \in DOMAIN c.value
  <2>1. after = before \cup {n + 1}
    BY <1>1, <1>3
  <2>2. Latest(after) = n + 1
    BY <1>1, <1>2, <2>1, LatestGrows
  <2>3. QED
    BY <1>1, <1>3, <2>1, <2>2 DEF Given
<1>4. CASE ~(c.of = "headers" /\ name \in DOMAIN c.value)
  <2>1. after = before
    BY <1>1, <1>4
  <2>2. before # {} => Latest(before) \in 1 .. n
    BY <1>1, <1>2, LatestIsLast
  <2>3. QED
    BY <1>1, <1>4, <2>1, <2>2 DEF Given
<1>5. QED
  BY <1>3, <1>4

-----------------------------------------------------------------------------
(* The handler is what the calls have made of it.                           *)

Handlers == [status_code : Statuses, body : Bodies, content_type : ContentTypes,
             headers : HeaderMaps]

\* Each part is what the last call about it has said, or what it was made with;
\* there are headers under the names that some call has given, and no others.
Built ==
  /\ calls \in Seq(Calls) /\ made \in Handlers /\ handler \in Handlers
  /\ handler.status_code = Said(calls, "status_code", made.status_code)
  /\ handler.body = Said(calls, "body", made.body)
  /\ handler.content_type = Said(calls, "content_type", made.content_type)
  /\ \A n \in Names : IF n \in DOMAIN handler.headers
                      THEN handler.headers[n] = Given(calls, n)
                      ELSE Given(calls, n) = None

\* The names that have been looked at and give a response its header h.
Put(h) ==
  {n \in DOMAIN handler.headers \ pending :
     n \in Valid /\ handler.headers[n] \in Valid /\ Header[n] = h}

\* A response under way has the handler's parts, and of its headers those under the
\* names looked at.
Answering ==
  /\ response \in Opt(Response)
  /\ pending \subseteq DOMAIN handler.headers
  /\ response = None => pending = {}
  /\ response # None =>
       /\ response.status = handler.status_code /\ response.body = handler.body
       /\ \A h \in DOMAIN response.headers :
            IF Put(h) # {} THEN response.headers[h] \in {handler.headers[n] : n \in Put(h)}
            ELSE response.headers[h] =
                   IF h = CONTENT_TYPE /\ handler.content_type \in Valid
                   THEN handler.content_type ELSE None

HandlerInv == Built /\ Answering

LEMMA HeaderMapType ==
  /\ << >> \in HeaderMaps
  /\ \A map \in HeaderMaps : DOMAIN map \subseteq Names /\ \A n \in DOMAIN map : map[n] \in Values
  /\ \A map, more \in HeaderMaps : extend(map, more) \in HeaderMaps
  /\ \A n \in Names, v \in Values : Single(n, v) \in HeaderMaps
<1>1. << >> \in HeaderMaps
  <2>1. << >> \in [{} -> Values]
    OBVIOUS
  <2>2. QED
    BY <2>1 DEF HeaderMaps
<1>2. \A map \in HeaderMaps : DOMAIN map \subseteq Names /\ \A n \in DOMAIN map : map[n] \in Values
  BY DEF HeaderMaps
<1>3. ASSUME NEW map \in HeaderMaps, NEW more \in HeaderMaps
      PROVE  extend(map, more) \in HeaderMaps
  <2>1. extend(map, more) \in [DOMAIN map \cup DOMAIN more -> Values]
    BY <1>2 DEF extend
  <2>2. QED
    BY <1>2, <2>1 DEF HeaderMaps
<1>4. ASSUME NEW n \in Names, NEW v \in Values
      PROVE  Single(n, v) \in HeaderMaps
  <2>1. Single(n, v) \in [{n} -> Values]
    BY DEF Single
  <2>2. QED
    BY <2>1 DEF HeaderMaps
<1>5. QED
  BY <1>1, <1>2, <1>3, <1>4

LEMMA MadeType == \A h \in Made : h \in Handlers /\ h.headers = << >>
<1> DEFINE New == {h \in Handlers : h.headers = << >>}
<1>1. default \in New
  BY HeaderMapType, SimpleAssumption DEF default, Handlers
<1>2. ASSUME NEW h \in New, NEW s \in Statuses, NEW t \in ContentTypes
      PROVE  body(content_type(status_code(h, s), t), "page") \in New
  BY SimpleAssumption DEF body, content_type, status_code, Handlers
<1> HIDE DEF New
<1>3. \A s \in Statuses :
        /\ html(s, "page") \in New /\ text(s, "page") \in New /\ xml(s, "page") \in New
        /\ error_page(s) \in New
  BY <1>1, <1>2, SimpleAssumption DEF html, text, xml, error_page
<1>4. Made \subseteq New
  BY <1>1, <1>3 DEF Made
<1>5. QED
  BY <1>4 DEF New

LEMMA HandlerInit == Init => HandlerInv
<1> SUFFICES ASSUME Init PROVE HandlerInv
  OBVIOUS
<1>1. made \in Handlers /\ handler = made /\ calls = << >>
  BY MadeType DEF Init
<1>2. \A of, otherwise : Said(calls, of, otherwise) = otherwise
  BY <1>1 DEF Said
<1>3. \A n : Given(calls, n) = None
  BY <1>1 DEF Given
<1>4. handler.headers = << >>
  BY <1>1, MadeType DEF Init
<1>5. Built
  BY <1>1, <1>2, <1>3, <1>4 DEF Built
<1>6. Answering
  BY DEF Init, Answering, Opt
<1>7. QED
  BY <1>5, <1>6 DEF HandlerInv

\* A call replaces one part and leaves the others as they were.
LEMMA BuildInv ==
  ASSUME HandlerInv, Build
  PROVE  HandlerInv'
<1> USE DEF HandlerInv
<1>1. /\ response = None /\ pending = {} /\ UNCHANGED <<made, response, pending>>
      /\ made \in Handlers /\ handler \in Handlers /\ calls \in Seq(Calls)
  BY DEF Build, Changes, Built, Answering, Opt
<1>2. Answering'
  BY <1>1 DEF Answering, Opt
<1>3. ASSUME NEW s \in Statuses, Changes(status_code(handler, s), "status_code", s)
      PROVE  Built'
  <2> DEFINE c == [of |-> "status_code", value |-> s]
  <2>1. c \in Calls /\ calls' = Append(calls, c) /\ handler' = [handler EXCEPT !.status_code = s]
    BY <1>3 DEF Calls, Changes, status_code
  <2>2. QED
    BY <1>1, <2>1, SaidNext, GivenNext DEF Built, Handlers
<1>4. ASSUME NEW b \in Bodies, Changes(body(handler, b), "body", b)
      PROVE  Built'
  <2> DEFINE c == [of |-> "body", value |-> b]
  <2>1. c \in Calls /\ calls' = Append(calls, c) /\ handler' = [handler EXCEPT !.body = b]
    BY <1>4 DEF Calls, Changes, body
  <2>2. QED
    BY <1>1, <2>1, SaidNext, GivenNext DEF Built, Handlers
<1>5. ASSUME NEW t \in ContentTypes, Changes(content_type(handler, t), "content_type", t)
      PROVE  Built'
  <2> DEFINE c == [of |-> "content_type", value |-> t]
  <2>1. c \in Calls /\ calls' = Append(calls, c) /\ handler' = [handler EXCEPT !.content_type = t]
    BY <1>5 DEF Calls, Changes, content_type
  <2>2. QED
    BY <1>1, <2>1, SaidNext, GivenNext DEF Built, Handlers
<1>6. ASSUME NEW map \in HeaderMaps, Changes(headers(handler, map), "headers", map)
      PROVE  Built'
  <2> DEFINE c == [of |-> "headers", value |-> map]
  <2>1. /\ c \in Calls /\ calls' = Append(calls, c)
        /\ handler' = [handler EXCEPT !.headers = extend(handler.headers, map)]
    BY <1>6 DEF Calls, Changes, headers
  <2>2. handler.headers \in HeaderMaps /\ extend(handler.headers, map) \in HeaderMaps
    BY <1>1, HeaderMapType DEF Handlers
  <2>3. \A n \in Names : IF n \in DOMAIN handler'.headers
                         THEN handler'.headers[n] = Given(calls', n)
                         ELSE Given(calls', n) = None
    BY <1>1, <2>1, <2>2, GivenNext DEF Built, Handlers, extend
  <2>4. QED
    BY <1>1, <2>1, <2>2, <2>3, SaidNext DEF Built, Handlers
<1>7. ASSUME NEW n \in Names, NEW v \in Values,
             Changes(header(handler, n, v), "headers", Single(n, v))
      PROVE  Built'
  BY <1>6, <1>7, HeaderMapType DEF header, headers
<1>8. QED
  BY <1>2, <1>3, <1>4, <1>5, <1>6, <1>7, SimpleAssumption DEF Build

-----------------------------------------------------------------------------
(* The response is what the handler says.                                   *)

LEMMA HandleInv ==
  ASSUME HandlerInv, handle
  PROVE  HandlerInv'
<1> USE DEF HandlerInv
<1> DEFINE type == IF handler.content_type \in Valid THEN handler.content_type ELSE None
           fields == [NoHeaders EXCEPT ![CONTENT_TYPE] = type]
<1>1. /\ response' = [status |-> handler.status_code, body |-> handler.body, headers |-> fields]
      /\ pending' = DOMAIN handler.headers /\ UNCHANGED <<handler, made, calls>>
  BY DEF handle
<1>2. Built'
  BY <1>1 DEF Built
<1>3. /\ fields \in [{CONTENT_TYPE} \cup Range(Header)
                       -> Opt(Valid \cap (Values \cup ContentTypes))]
      /\ \A h \in DOMAIN fields : fields[h] = IF h = CONTENT_TYPE THEN type ELSE None
  BY DEF NoHeaders, Built, Handlers, Opt
<1>4. response' \in Response
  BY <1>1, <1>3 DEF Response, Opt, Built, Handlers
<1>5. \A h : Put(h)' = {}
  BY <1>1 DEF Put
<1>6. Answering'
  BY <1>1, <1>3, <1>4, <1>5, SimpleAssumption DEF Answering, Opt
<1>7. QED
  BY <1>2, <1>6

\* A name that is looked at decides its header, for the time being, or is passed
\* over.
LEMMA HandleHeaderInv ==
  ASSUME HandlerInv, handle_header
  PROVE  HandlerInv'
<1> USE DEF HandlerInv
<1>1. PICK n \in pending : /\ response' = [response EXCEPT !.headers = insert(@, n)]
                           /\ pending' = pending \ {n} /\ UNCHANGED <<handler, made, calls>>
  BY DEF handle_header
<1>2. Built'
  BY <1>1 DEF Built
<1> DEFINE sent == n \in Valid /\ handler.headers[n] \in Valid
           fields == response.headers
<1>3. /\ response \in Response /\ response # None
      /\ n \in DOMAIN handler.headers /\ n \in Names /\ handler.headers[n] \in Values
      /\ pending' \subseteq DOMAIN handler'.headers
  BY <1>1, HeaderMapType DEF Answering, Opt, Built, Handlers
<1>4. Header[n] \in DOMAIN fields
  BY <1>3, SimpleAssumption DEF Response, Opt, Range
<1>5. /\ response'.status = response.status /\ response'.body = response.body
      /\ response'.headers = insert(fields, n) /\ response' \in Response
  <2>1. insert(fields, n) \in [{CONTENT_TYPE} \cup Range(Header)
                                 -> Opt(Valid \cap (Values \cup ContentTypes))]
    BY <1>3, <1>4 DEF Response, Opt, insert
  <2>2. QED
    BY <1>1, <1>3, <2>1 DEF Response, Opt
<1>6. ASSUME NEW h \in DOMAIN response'.headers
      PROVE  IF Put(h)' # {} THEN response'.headers[h] \in {handler'.headers[m] : m \in Put(h)'}
             ELSE response'.headers[h] =
                    IF h = CONTENT_TYPE /\ handler'.content_type \in Valid
                    THEN handler'.content_type ELSE None
  <2>1. h \in DOMAIN fields
    BY <1>3, <1>5, <1>6 DEF Response, Opt
  <2>2. CASE sent /\ Header[n] = h
    <3>1. Put(h)' = Put(h) \cup {n}
      BY <1>1, <1>3, <2>2 DEF Put
    <3>2. response'.headers[h] = handler.headers[n]
      BY <1>5, <2>1, <2>2, <1>3 DEF insert, Response, Opt
    <3>3. QED
      BY <1>1, <3>1, <3>2
  <2>3. CASE ~(sent /\ Header[n] = h)
    <3>1. Put(h)' = Put(h)
      BY <1>1, <1>3, <2>3 DEF Put
    <3>2. response'.headers[h] = fields[h]
      BY <1>3, <1>4, <1>5, <2>1, <2>3 DEF insert, Response, Opt
    <3>3. QED
      BY <1>1, <1>3, <2>1, <3>1, <3>2 DEF Answering, Opt
  <2>4. QED
    BY <2>2, <2>3
<1>7. response' # None
  BY <1>5, SimpleAssumption
<1>8. Answering'
  BY <1>1, <1>3, <1>5, <1>6, <1>7 DEF Answering, Opt
<1>9. QED
  BY <1>2, <1>8

LEMMA HandlerStep ==
  ASSUME HandlerInv, [Next]_vars
  PROVE  HandlerInv'
<1>1. CASE UNCHANGED vars
  BY <1>1 DEF vars, HandlerInv, Built, Answering, Opt, Put
<1>2. QED
  BY <1>1, BuildInv, HandleInv, HandleHeaderInv DEF Next

THEOREM HandlerAlways == Spec => []HandlerInv
<1> QED
  BY HandlerInit, HandlerStep, PTL DEF Spec

\* The types of SimpleResponseHandler and of what it answers: content types, names
\* and values that may not be sent (handler.rs:366-382) are in no response.
THEOREM HandlerTypeCorrect == Spec => []TypeOK
<1>1. HandlerInv => TypeOK
  BY HeaderMapType DEF HandlerInv, Built, Answering, Handlers, TypeOK, Opt
<1>2. QED
  BY <1>1, HandlerAlways, PTL

LEMMA InvAnswers == HandlerInv => AnswersAsBuilt
<1> SUFFICES ASSUME HandlerInv, response # None, pending = {}
             PROVE  /\ response.status = Said(calls, "status_code", made.status_code)
                    /\ response.body = Said(calls, "body", made.body)
                    /\ \A h \in DOMAIN response.headers : response.headers[h] \in Expected(h)
  BY DEF AnswersAsBuilt
<1>1. Built /\ Answering
  BY DEF HandlerInv
<1>2. ASSUME NEW h \in DOMAIN response.headers
      PROVE  response.headers[h] \in Expected(h)
  <2> DEFINE sendable ==
        {Given(calls, n) : n \in {n \in Names \cap Valid : Header[n] = h}} \cap Valid
  <2>1. sendable = {handler.headers[n] : n \in Put(h)}
    <3>1. DOMAIN handler.headers \subseteq Names
      BY <1>1, HeaderMapType DEF Built, Handlers
    <3>2. None \notin Valid
      BY SimpleAssumption
    <3>3. QED
      BY <1>1, <3>1, <3>2 DEF Built, Put
  <2>2. CASE Put(h) # {}
    BY <1>1, <2>1, <2>2 DEF Answering, Expected
  <2>3. CASE Put(h) = {}
    BY <1>1, <2>1, <2>3 DEF Answering, Expected, Built
  <2>4. QED
    BY <2>2, <2>3
<1>3. QED
  BY <1>1, <1>2 DEF Answering, Built

\* A denied request gets what the calls have said last, in whatever order the map of
\* headers is walked: SimpleResponseHandler::handle (handler.rs:357-388).
THEOREM HandlersAnswerAsBuilt == Spec => []AnswersAsBuilt
<1> QED
  BY HandlerAlways, InvAnswers, PTL

-----------------------------------------------------------------------------
(* Texts in texts: redirect.rs, for texts of any length.                    *)

Char == [ch : Characters, depth : Nat]

Space == " "
Plus == "+"
Equals == "="
And == "&"
Question == "?"

LEMMA Signs ==
  /\ Space # Plus /\ Equals # Plus /\ And # Plus /\ Equals # And /\ Equals # Space
  /\ Question # And /\ Question # Equals /\ Question # Plus /\ And # Space
  /\ Space \in Reserved /\ Plus \in Reserved /\ Equals \in Reserved
  /\ And \in Reserved /\ Question \in Reserved
  /\ Space \in Characters /\ Plus \in Characters /\ Equals \in Characters
  /\ And \in Characters /\ Question \in Characters
BY Zenon, RedirectAssumption DEF Space, Plus, Equals, And, Question

LEMMA TextElements ==
  ASSUME NEW t \in Text
  PROVE  /\ t \in Seq(Char) /\ Len(t) \in Nat /\ DOMAIN t = 1 .. Len(t)
         /\ t = [i \in DOMAIN t |-> t[i]]
         /\ \A i \in DOMAIN t : t[i] \in Char
         /\ \A i \in DOMAIN t : \E c \in Characters, n \in Nat : t[i] = [ch |-> c, depth |-> n]
<1>1. t \in Seq(Char)
  BY DEF Text, Char
<1>2. \A c \in Char : \E k \in Characters, n \in Nat : c = [ch |-> k, depth |-> n]
  BY DEF Char
<1>3. Len(t) \in Nat /\ DOMAIN t = 1 .. Len(t) /\ \A i \in DOMAIN t : t[i] \in Char
  BY <1>1
<1>4. t = [i \in DOMAIN t |-> t[i]]
  BY <1>1
<1>5. QED
  BY <1>1, <1>2, <1>3, <1>4

LEMMA CodedAt ==
  ASSUME NEW t, NEW i \in DOMAIN t, NEW ch, NEW n \in Nat, t[i] = [ch |-> ch, depth |-> n]
  PROVE  /\ ch \in Reserved \/ n > 0 => encode(t)[i] = [ch |-> ch, depth |-> n + 1]
         /\ ch \notin Reserved /\ n = 0 => encode(t)[i] = t[i]
         /\ ch = Space /\ n = 0 => byte_serialize(t)[i] = [ch |-> Plus, depth |-> 0]
         /\ ch # Space \/ n > 0 => byte_serialize(t)[i] = encode(t)[i]
<1>1. t[i].ch = ch /\ t[i].depth = n
  OBVIOUS
<1>2. t[i] = [ch |-> Space, depth |-> 0] <=> ch = Space /\ n = 0
  OBVIOUS
<1>3. encode(t)[i] = IF ch \in Reserved \/ n > 0 THEN [ch |-> ch, depth |-> n + 1] ELSE t[i]
  BY <1>1 DEF encode, Depth
<1>4. byte_serialize(t)[i] =
        IF t[i] = [ch |-> Space, depth |-> 0] THEN [ch |-> Plus, depth |-> 0] ELSE encode(t)[i]
  BY Zenon DEF byte_serialize, Plain, Depth, Space, Plus
<1>5. QED
  BY <1>2, <1>3, <1>4

LEMMA DecodedAt ==
  ASSUME NEW t, NEW i \in DOMAIN t, NEW ch, NEW n \in Nat, t[i] = [ch |-> ch, depth |-> n]
  PROVE  /\ n > 0 => decode(t)[i] = [ch |-> ch, depth |-> n - 1]
         /\ ch = Plus /\ n = 0 => decode(t)[i] = [ch |-> Space, depth |-> 0]
         /\ ch # Plus /\ n = 0 => decode(t)[i] = t[i]
<1>1. t[i].ch = ch /\ t[i].depth = n
  OBVIOUS
<1>2. t[i] = [ch |-> Plus, depth |-> 0] <=> ch = Plus /\ n = 0
  OBVIOUS
<1>3. decode(t)[i] = CASE t[i] = [ch |-> Plus, depth |-> 0] -> [ch |-> Space, depth |-> 0]
                         [] t[i].depth > 0 -> [ch |-> t[i].ch, depth |-> t[i].depth - 1]
                         [] OTHER -> t[i]
  BY Zenon DEF decode, Depth, Plain, Space, Plus
<1>4. decode(t)[i] =
        IF t[i] = [ch |-> Plus, depth |-> 0] THEN [ch |-> Space, depth |-> 0]
        ELSE IF n > 0 THEN [ch |-> ch, depth |-> n - 1] ELSE t[i]
  BY <1>1, <1>2, <1>3
<1>5. CASE n > 0
  BY <1>2, <1>4, <1>5
<1>6. CASE n = 0
  BY <1>2, <1>4, <1>6
<1>7. QED
  BY <1>5, <1>6

LEMMA PlainStays ==
  ASSUME NEW t, NEW i \in DOMAIN t, NEW ch, t[i] = [ch |-> ch, depth |-> 0], ch # Plus
  PROVE  decode(t)[i] = t[i]
<1>1. 0 \in Nat
  OBVIOUS
<1>2. QED
  BY <1>1, DecodedAt

LEMMA DecodeUndoesEncode ==
  ASSUME NEW t \in Text
  PROVE  decode(encode(t)) = t /\ decode(byte_serialize(t)) = t
<1> DEFINE e == encode(t)
           b == byte_serialize(t)
<1>1. t = [i \in DOMAIN t |-> t[i]] /\ \A i \in DOMAIN t : t[i] \in Char
  BY TextElements
<1>2. DOMAIN e = DOMAIN t /\ DOMAIN b = DOMAIN t
  BY DEF encode, byte_serialize
<1>3. /\ decode(e) = [i \in DOMAIN e |-> decode(e)[i]]
      /\ decode(b) = [i \in DOMAIN b |-> decode(b)[i]]
  BY DEF decode
<1>4. ASSUME NEW i \in DOMAIN t
      PROVE  decode(e)[i] = t[i] /\ decode(b)[i] = t[i]
  <2>1. PICK ch \in Characters, n \in Nat : t[i] = [ch |-> ch, depth |-> n]
    BY TextElements
  <2> HIDE DEF e, b
  <2>2. CASE ch \in Reserved \/ n > 0
    <3>1. e[i] = [ch |-> ch, depth |-> n + 1]
      BY <2>1, <2>2, CodedAt DEF e
    <3>2. decode(e)[i] = [ch |-> ch, depth |-> n]
      BY <1>2, <3>1, DecodedAt, n + 1 \in Nat, n + 1 > 0, n + 1 - 1 = n
    <3>3. CASE ch = Space /\ n = 0
      <4>1. b[i] = [ch |-> Plus, depth |-> 0]
        BY <2>1, <3>3, CodedAt DEF b
      <4>2. decode(b)[i] = [ch |-> Space, depth |-> 0]
        BY <1>2, <4>1, DecodedAt
      <4>3. QED
        BY <2>1, <3>2, <3>3, <4>2
    <3>4. CASE ch # Space \/ n > 0
      <4>1. b[i] = e[i]
        BY <2>1, <3>4, CodedAt DEF b, e
      <4>2. decode(b)[i] = [ch |-> ch, depth |-> n]
        BY <1>2, <3>1, <4>1, DecodedAt, n + 1 \in Nat, n + 1 > 0, n + 1 - 1 = n
      <4>3. QED
        BY <2>1, <3>2, <4>2
    <3>5. QED
      BY <3>3, <3>4
  <2>3. CASE ch \notin Reserved /\ n = 0
    <3>1. ch # Space /\ ch # Plus
      BY <2>3, Signs
    <3>2. e[i] = t[i] /\ b[i] = t[i]
      BY <2>1, <2>3, <3>1, CodedAt DEF e, b
    <3>3. decode(e)[i] = t[i] /\ decode(b)[i] = t[i]
      <4>1. /\ i \in DOMAIN e /\ e[i] = [ch |-> ch, depth |-> 0]
            /\ i \in DOMAIN b /\ b[i] = [ch |-> ch, depth |-> 0] /\ 0 \in Nat
        BY <1>2, <2>1, <2>3, <3>2
      <4>2. QED
        BY <3>1, <3>2, <4>1, DecodedAt
    <3>4. QED
      BY <3>3
  <2>4. QED
    BY <2>2, <2>3
<1>5. QED
  BY <1>1, <1>2, <1>3, <1>4

LEMMA CodedType ==
  ASSUME NEW t \in Text
  PROVE  encode(t) \in Text /\ byte_serialize(t) \in Text /\ decode(t) \in Text
<1> DEFINE e == encode(t)
           b == byte_serialize(t)
           d == decode(t)
<1>1. /\ \A i \in DOMAIN t : t[i] \in Char
      /\ DOMAIN t = 1 .. Len(t) /\ Len(t) \in Nat
  BY TextElements
<1>2. /\ e = [i \in DOMAIN t |-> e[i]] /\ b = [i \in DOMAIN t |-> b[i]]
      /\ d = [i \in DOMAIN t |-> d[i]]
  <2>1. e = [i \in DOMAIN t |-> e[i]] /\ b = [i \in DOMAIN t |-> b[i]]
    BY Zenon DEF encode, byte_serialize
  <2>2. d = [i \in DOMAIN t |-> d[i]]
    BY DEF decode
  <2>3. QED
    BY <2>1, <2>2
<1>3. ASSUME NEW i \in DOMAIN t
      PROVE  e[i] \in Char /\ b[i] \in Char /\ d[i] \in Char
  <2>1. PICK ch \in Characters, n \in Nat : t[i] = [ch |-> ch, depth |-> n]
    BY TextElements
  <2>2. \A c \in Characters, m \in Nat : [ch |-> c, depth |-> m] \in Char
    BY DEF Char
  <2>3. Plus \in Characters /\ Space \in Characters
    BY Signs
  <2> HIDE DEF e, b, d
  <2>4. e[i] \in {[ch |-> ch, depth |-> n + 1], [ch |-> ch, depth |-> n]}
    <3>1. \/ e[i] = [ch |-> ch, depth |-> n + 1]
          \/ e[i] = t[i]
      BY <2>1, CodedAt DEF e
    <3>2. QED
      BY <2>1, <3>1
  <2>5. b[i] \in {[ch |-> Plus, depth |-> 0], e[i]}
    <3>1. CASE ch = Space /\ n = 0
      BY <2>1, <3>1, CodedAt DEF b
    <3>2. CASE ch # Space \/ n > 0
      <4>1. b[i] = e[i]
        BY <2>1, <3>2, CodedAt DEF b, e
      <4>2. QED
        BY <4>1
    <3>3. QED
      BY <3>1, <3>2
  <2>6. \/ n > 0 /\ d[i] = [ch |-> ch, depth |-> n - 1]
        \/ d[i] = [ch |-> Space, depth |-> 0]
        \/ d[i] = t[i]
    BY <2>1, DecodedAt DEF d
  <2>7. n + 1 \in Nat /\ (n > 0 => n - 1 \in Nat) /\ 0 \in Nat
    OBVIOUS
  <2>8. QED
    BY <2>1, <2>2, <2>3, <2>4, <2>5, <2>6, <2>7
<1> HIDE DEF e, b, d
<1>4. e \in Seq(Char) /\ b \in Seq(Char) /\ d \in Seq(Char)
  BY <1>1, <1>2, <1>3
<1>5. QED
  BY <1>4 DEF e, b, d, Char, Text

LEMMA EncodedLacks ==
  ASSUME NEW t \in Text, NEW ch \in Reserved
  PROVE  /\ Lacks(encode(t), ch)
         /\ ch # Plus => Lacks(byte_serialize(t), ch)
<1>1. /\ DOMAIN encode(t) = DOMAIN t /\ DOMAIN byte_serialize(t) = DOMAIN t
      /\ \A i \in DOMAIN t : t[i] \in Char
  BY TextElements DEF encode, byte_serialize
<1>2. ASSUME NEW i \in DOMAIN t
      PROVE  /\ encode(t)[i] # [ch |-> ch, depth |-> 0]
             /\ ch # Plus => byte_serialize(t)[i] # [ch |-> ch, depth |-> 0]
  <2>1. PICK c \in Characters, n \in Nat : t[i] = [ch |-> c, depth |-> n]
    BY TextElements
  <2>2. encode(t)[i] # [ch |-> ch, depth |-> 0]
    <3>1. CASE c \in Reserved \/ n > 0
      <4>1. encode(t)[i] = [ch |-> c, depth |-> n + 1]
        BY <2>1, <3>1, CodedAt
      <4>2. QED
        BY <4>1
    <3>2. CASE c \notin Reserved /\ n = 0
      <4>1. encode(t)[i] = [ch |-> c, depth |-> n]
        BY <2>1, <3>2, CodedAt
      <4>2. QED
        BY <3>2, <4>1
    <3>3. QED
      BY <3>1, <3>2
  <2>3. CASE c = Space /\ n = 0
    <3>1. byte_serialize(t)[i] = [ch |-> Plus, depth |-> 0]
      BY <2>1, <2>3, CodedAt
    <3>2. QED
      BY <2>2, <3>1
  <2>4. CASE c # Space \/ n > 0
    <3>1. byte_serialize(t)[i] = encode(t)[i]
      BY <2>1, <2>4, CodedAt
    <3>2. QED
      BY <2>2, <3>1
  <2>5. QED
    BY <2>3, <2>4
<1>3. QED
  BY <1>1, <1>2 DEF Lacks, Plain, Depth

LEMMA LeastOf ==
  ASSUME NEW n \in Nat, NEW I \in SUBSET (1 .. n), I # {}
  PROVE  Min(I) \in I /\ \A j \in I : Min(I) <= j
<1>1. I \subseteq Nat
  OBVIOUS
<1>2. PICK i \in I : \A y \in I : <<y, i>> \notin OpToRel(<, Nat)
  BY <1>1, NatLessThanWellFounded, WFMin
<1>3. \A j \in I : ~ (j < i)
  BY <1>1, <1>2 DEF OpToRel
<1>4. \A j \in I : i <= j
  BY <1>1, <1>3
<1>5. QED
  BY <1>4 DEF Min

LEMMA FirstIsFirst ==
  ASSUME NEW t \in Text, NEW ch, ~ Lacks(t, ch)
  PROVE  /\ FirstAt(t, ch) \in 1 .. Len(t) /\ t[FirstAt(t, ch)] = Plain(ch)
         /\ \A i \in 1 .. Len(t) : t[i] = Plain(ch) => FirstAt(t, ch) <= i
<1> DEFINE cut == Plain(ch)
           I == {i \in 1 .. Len(t) : t[i] = cut}
<1>1. Len(t) \in Nat /\ DOMAIN t = 1 .. Len(t)
  BY TextElements
<1>2. I \in SUBSET (1 .. Len(t)) /\ I # {}
  BY <1>1 DEF Lacks
<1>3. Min(I) \in I /\ \A j \in I : Min(I) <= j
  BY <1>1, <1>2, LeastOf
<1>4. FirstAt(t, ch) = Min(I)
  BY <1>2 DEF FirstAt, SelectInSeq
<1> HIDE DEF cut
<1>5. QED
  BY <1>3, <1>4 DEF cut

\* What a separator comes between.
Between(before, ch, after) == before \o <<Plain(ch)>> \o after

LEMMA BetweenElements ==
  ASSUME NEW ch \in Characters, NEW before \in Text, NEW after \in Text
  PROVE  /\ Between(before, ch, after) \in Text
         /\ Len(Between(before, ch, after)) = Len(before) + 1 + Len(after)
         /\ Between(before, ch, after)[Len(before) + 1] = Plain(ch)
         /\ \A i \in 1 .. Len(before) : Between(before, ch, after)[i] = before[i]
         /\ \A i \in 1 .. Len(after) : Between(before, ch, after)[Len(before) + 1 + i] = after[i]
<1> DEFINE n == Len(before)
           cut == Plain(ch)
           left == before \o <<cut>>
           whole == Between(before, ch, after)
<1>1. /\ cut \in Char /\ before \in Seq(Char) /\ after \in Seq(Char) /\ n \in Nat
      /\ whole = left \o after
  BY TextElements DEF Plain, Depth, Char, Between
<1> HIDE DEF cut, whole
<1>2. /\ left \in Seq(Char) /\ Len(left) = n + 1 /\ left[n + 1] = cut
      /\ \A i \in 1 .. n : left[i] = before[i]
  BY <1>1
<1> HIDE DEF left
<1>3. /\ whole \in Seq(Char) /\ Len(whole) = n + 1 + Len(after)
      /\ \A i \in 1 .. n + 1 : whole[i] = left[i]
      /\ \A i \in 1 .. Len(after) : whole[n + 1 + i] = after[i]
  <2>1. whole \in Seq(Char) /\ Len(whole) = Len(left) + Len(after)
    BY <1>1, <1>2, ConcatProperties
  <2>2. \A i \in 1 .. Len(left) : whole[i] = left[i]
    BY <1>1, <1>2
  <2>3. \A i \in 1 .. Len(after) : whole[Len(left) + i] = after[i]
    BY <1>1, <1>2
  <2> HIDE DEF n
  <2>4. QED
    BY <1>2, <2>1, <2>2, <2>3
<1>4. n + 1 \in 1 .. n + 1 /\ \A i \in 1 .. n : i \in 1 .. n + 1
  BY <1>1
<1>5. whole[n + 1] = cut /\ \A i \in 1 .. n : whole[i] = before[i]
  BY <1>2, <1>3, <1>4
<1>6. whole \in Text
  BY <1>3 DEF Text, Char
<1>7. QED
  BY <1>3, <1>5, <1>6 DEF whole, cut

\* A text is cut at its first ch.
Cut(whole, ch, before, after) ==
  whole \in Text /\ ~ Lacks(whole, ch) /\ UpTo(whole, ch) = before /\ Behind(whole, ch) = after

\* What the first separator divides can be told apart again.
LEMMA CutAtFirst ==
  ASSUME NEW ch \in Characters, NEW before \in Text, NEW after \in Text, Lacks(before, ch)
  PROVE  Cut(Between(before, ch, after), ch, before, after)
<1> DEFINE whole == Between(before, ch, after)
           cut == Plain(ch)
           n == Len(before)
<1>1. /\ whole \in Text /\ Len(whole) = n + 1 + Len(after)
      /\ whole[n + 1] = cut /\ \A i \in 1 .. n : whole[i] = before[i]
      /\ \A i \in 1 .. Len(after) : whole[n + 1 + i] = after[i]
  BY BetweenElements
<1> HIDE DEF whole, cut
<1>2. /\ before \in Seq(Char) /\ after \in Seq(Char) /\ whole \in Seq(Char) /\ n \in Nat
      /\ Len(after) \in Nat /\ DOMAIN before = 1 .. n /\ DOMAIN whole = 1 .. Len(whole)
  BY <1>1, TextElements
<1>3. \A i \in 1 .. n : before[i] # cut
  BY <1>2 DEF Lacks, cut
<1>4. ~ Lacks(whole, ch)
  BY <1>1, <1>2 DEF Lacks, cut
<1>5. FirstAt(whole, ch) = n + 1
  <2> DEFINE f == FirstAt(whole, ch)
  <2>1. /\ f \in 1 .. Len(whole) /\ whole[f] = cut
        /\ \A i \in 1 .. Len(whole) : whole[i] = cut => f <= i
    BY <1>1, <1>4, FirstIsFirst DEF cut
  <2> HIDE DEF f
  <2>2. f <= n + 1
    BY <1>1, <1>2, <2>1
  <2>3. ~ f \in 1 .. n
    BY <1>1, <1>3, <2>1
  <2>4. f = n + 1
    BY <1>1, <1>2, <2>1, <2>2, <2>3
  <2>5. QED
    BY <2>4 DEF f
<1>6. SubSeq(whole, 1, n) = before
  BY <1>1, <1>2
<1>7. SubSeq(whole, n + 2, Len(whole)) = after
  BY <1>1, <1>2
<1>8. n + 1 - 1 = n /\ n + 1 + 1 = n + 2
  BY <1>2
<1>9. UpTo(whole, ch) = before /\ Behind(whole, ch) = after
  <2>1. /\ UpTo(whole, ch) = SubSeq(whole, 1, FirstAt(whole, ch) - 1)
        /\ Behind(whole, ch) = SubSeq(whole, FirstAt(whole, ch) + 1, Len(whole))
    BY <1>4, Zenon DEF UpTo, Behind
  <2> HIDE DEF n
  <2>2. FirstAt(whole, ch) - 1 = n /\ FirstAt(whole, ch) + 1 = n + 2
    BY <1>2, <1>5
  <2>3. QED
    BY <1>6, <1>7, <2>1, <2>2, Zenon
<1>10. QED
  BY <1>1, <1>4, <1>9 DEF Cut, whole

\* What is behind the first separator and what is before it make up a text.
LEMMA CutSides ==
  ASSUME NEW ch \in Characters, NEW t \in Text, ~ Lacks(t, ch)
  PROVE  /\ UpTo(t, ch) \in Text /\ Lacks(UpTo(t, ch), ch) /\ Behind(t, ch) \in Text
         /\ t = Between(UpTo(t, ch), ch, Behind(t, ch))
<1> DEFINE f == FirstAt(t, ch)
           n == Len(t)
           before == SubSeq(t, 1, f - 1)
           after == SubSeq(t, f + 1, n)
           cut == Plain(ch)
           whole == Between(before, ch, after)
<1>1. /\ f \in 1 .. n /\ t[f] = cut /\ \A i \in 1 .. n : t[i] = cut => f <= i
      /\ t \in Seq(Char) /\ n \in Nat /\ DOMAIN t = 1 .. n
  BY FirstIsFirst, TextElements
<1> HIDE DEF f, cut, whole
<1>2. /\ before \in Seq(Char) /\ after \in Seq(Char)
      /\ Len(before) = f - 1 /\ Len(after) = n - f
      /\ \A i \in 1 .. f - 1 : before[i] = t[i]
      /\ \A i \in 1 .. n - f : after[i] = t[f + i]
  <2>1. before \in Seq(Char) /\ Len(before) = f - 1 /\ \A i \in 1 .. f - 1 : before[i] = t[i]
    BY <1>1
  <2>2. after \in Seq(Char) /\ Len(after) = n - f
    <3>1. f + 1 \in Int /\ n \in Int /\ \A i \in f + 1 .. n : t[i] \in Char
      BY <1>1
    <3>2. after \in Seq(Char) /\ Len(after) = IF f + 1 <= n THEN n - (f + 1) + 1 ELSE 0
      BY <3>1, SubSeqProperties
    <3> HIDE DEF after, n
    <3>3. QED
      BY <1>1, <3>2
  <2>3. \A i \in 1 .. n - f : after[i] = t[f + i]
    BY <1>1
  <2>4. QED
    BY <2>1, <2>2, <2>3
<1> HIDE DEF before, after, n
<1>3. before \in Text /\ after \in Text
  BY <1>2 DEF Text, Char
<1>4. Lacks(before, ch)
  BY <1>1, <1>2 DEF Lacks, cut
<1>5. /\ whole \in Text /\ Len(whole) = f - 1 + 1 + (n - f)
      /\ whole[f - 1 + 1] = cut
      /\ \A i \in 1 .. f - 1 : whole[i] = before[i]
      /\ \A i \in 1 .. n - f : whole[f - 1 + 1 + i] = after[i]
  <2>1. /\ whole \in Text /\ Len(whole) = Len(before) + 1 + Len(after)
        /\ whole[Len(before) + 1] = cut
        /\ \A i \in 1 .. Len(before) : whole[i] = before[i]
        /\ \A i \in 1 .. Len(after) : whole[Len(before) + 1 + i] = after[i]
    BY <1>3, BetweenElements DEF cut, whole
  <2>2. QED
    BY <1>2, <2>1
<1>6. whole = t
  <2>1. whole \in Seq(Char) /\ Len(whole) = n /\ whole[f] = t[f]
    BY <1>1, <1>5, TextElements
  <2>2. ASSUME NEW i \in 1 .. n
        PROVE  whole[i] = t[i]
    <3>1. CASE i < f
      BY <1>1, <1>2, <1>5, <3>1
    <3>2. CASE i > f
      <4>1. i - f \in 1 .. n - f /\ f - 1 + 1 + (i - f) = i /\ f + (i - f) = i
        BY <1>1, <3>2
      <4>2. whole[f - 1 + 1 + (i - f)] = after[i - f] /\ after[i - f] = t[f + (i - f)]
        BY <1>2, <1>5, <4>1
      <4>3. QED
        BY <4>1, <4>2
    <3>3. QED
      BY <1>1, <2>1, <3>1, <3>2
  <2>3. QED
    BY <1>1, <2>1, <2>2
<1>7. UpTo(t, ch) = before /\ Behind(t, ch) = after
  BY DEF UpTo, Behind, before, after, f, n
<1>8. QED
  BY <1>3, <1>4, <1>6, <1>7 DEF whole

LEMMA UpToType ==
  ASSUME NEW ch \in Characters, NEW t \in Text
  PROVE  UpTo(t, ch) \in Text /\ Lacks(UpTo(t, ch), ch)
<1>1. CASE Lacks(t, ch)
  BY <1>1 DEF UpTo
<1>2. QED
  BY <1>1, CutSides

LEMMA BetweenAssociates ==
  ASSUME NEW ch \in Characters, NEW c \in Characters,
         NEW t \in Text, NEW u \in Text, NEW v \in Text
  PROVE  Between(Between(t, ch, u), c, v) = Between(t, ch, Between(u, c, v))
<1> DEFINE x == <<Plain(ch)>>
           y == <<Plain(c)>>
<1>1. x \in Seq(Char) /\ y \in Seq(Char) /\ t \in Seq(Char) /\ u \in Seq(Char) /\ v \in Seq(Char)
  <2>1. Plain(ch) \in Char /\ Plain(c) \in Char
    BY DEF Plain, Depth, Char
  <2>2. QED
    BY <2>1, TextElements
<1> HIDE DEF x, y
<1>2. t \o x \o u \o y \o v = t \o x \o (u \o y \o v)
  BY <1>1
<1>3. QED
  BY <1>2 DEF Between, x, y

\* Where a text is cut does not depend on what comes behind another separator.
LEMMA UpToStays ==
  ASSUME NEW ch \in Characters, NEW t \in Text, NEW p \in Text
  PROVE  UpTo(Between(t, ch, p), ch) = UpTo(t, ch)
<1>1. CASE Lacks(t, ch)
  BY <1>1, CutAtFirst DEF Cut, UpTo
<1>2. CASE ~ Lacks(t, ch)
  <2> DEFINE b == UpTo(t, ch)
             a == Behind(t, ch)
  <2>1. b \in Text /\ Lacks(b, ch) /\ a \in Text /\ t = Between(b, ch, a)
    BY <1>2, CutSides
  <2> HIDE DEF b, a
  <2>2. Between(t, ch, p) = Between(b, ch, Between(a, ch, p)) /\ Between(a, ch, p) \in Text
    BY <2>1, BetweenAssociates, BetweenElements
  <2>3. Cut(Between(b, ch, Between(a, ch, p)), ch, b, Between(a, ch, p))
    BY <2>1, <2>2, CutAtFirst
  <2>4. QED
    BY <2>2, <2>3 DEF Cut, b
<1>3. QED
  BY <1>1, <1>2

LEMMA SmallSets ==
  ASSUME NEW n \in Nat, NEW S \in SUBSET (1 .. n)
  PROVE  IsFiniteSet(S) /\ Cardinality(S) \in Nat
<1>1. IsFiniteSet(1 .. n)
  BY FS_Interval
<1>2. IsFiniteSet(S)
  BY <1>1, FS_Subset
<1>3. QED
  BY <1>2, FS_CardinalityType

\* Added to a set, a number comes last and leaves the others their ranks.
ComesLast(S, m) ==
  /\ Cardinality(S \cup {m}) = Cardinality(S) + 1
  /\ \A k \in 1 .. Cardinality(S) : Ranked(S \cup {m}, k) = Ranked(S, k)
  /\ Ranked(S \cup {m}, Cardinality(S) + 1) = {m}

LEMMA RanksGrow ==
  ASSUME NEW n \in Nat, NEW S \in SUBSET (1 .. n), NEW m \in Nat, n < m
  PROVE  ComesLast(S, m)
<1> DEFINE B == S \cup {m}
           c == Cardinality(S)
<1>1. IsFiniteSet(S) /\ c \in Nat
  BY SmallSets
<1>2. m \notin S /\ \A i \in S : i \in Nat /\ i < m
  OBVIOUS
<1>3. Cardinality(B) = c + 1
  BY <1>1, <1>2, FS_AddElement
<1>4. ASSUME NEW i \in S
      PROVE  {j \in B : j <= i} = {j \in S : j <= i}
  BY <1>2
<1>5. {j \in B : j <= m} = B
  <2>1. \A j \in B : j <= m
    BY <1>2
  <2>2. QED
    BY <2>1
<1>6. ASSUME NEW i \in S
      PROVE  Cardinality({j \in S : j <= i}) # c + 1
  <2> DEFINE below == {j \in S : j <= i}
  <2>1. below \in SUBSET S /\ below \in SUBSET (1 .. n)
    OBVIOUS
  <2>2. Cardinality(below) \in Nat
    BY <2>1, SmallSets
  <2>3. Cardinality(below) <= c
    BY <1>1, <2>1, FS_Subset
  <2> HIDE DEF below, c
  <2>4. QED
    BY <1>1, <2>2, <2>3 DEF below
<1>7. ASSUME NEW k \in 1 .. c
      PROVE  Ranked(B, k) = Ranked(S, k)
  <2>1. ASSUME NEW i \in B
        PROVE  Cardinality({j \in B : j <= i}) = k <=>
                 i \in S /\ Cardinality({j \in S : j <= i}) = k
    <3>1. CASE i \in S
      BY <1>4, <3>1, Zenon
    <3>2. CASE i = m
      <4>1. Cardinality({j \in B : j <= i}) = c + 1
        BY <1>3, <1>5, <3>2, Zenon
      <4> HIDE DEF c
      <4>2. c + 1 # k
        BY <1>1
      <4>3. QED
        BY <1>2, <3>2, <4>1, <4>2
    <3>3. QED
      BY <3>1, <3>2
  <2>2. QED
    BY <2>1 DEF Ranked
<1>8. Ranked(B, c + 1) = {m}
  <2>1. ASSUME NEW i \in B
        PROVE  Cardinality({j \in B : j <= i}) = c + 1 <=> i = m
    <3>1. CASE i \in S
      BY <1>2, <1>4, <1>6, <3>1
    <3>2. CASE i = m
      BY <1>3, <1>5, <3>2, Zenon
    <3>3. QED
      BY <3>1, <3>2
  <2>2. QED
    BY <2>1 DEF Ranked
<1>9. QED
  BY <1>3, <1>7, <1>8 DEF ComesLast

\* Every rank is taken.
LEMMA RanksTaken ==
  ASSUME NEW n \in Nat, NEW S \in SUBSET (1 .. n), NEW k \in 1 .. Cardinality(S)
  PROVE  Ranked(S, k) # {}
<1> DEFINE Gap(T) == \E r \in 1 .. Cardinality(T) : Ranked(T, r) = {}
           D == {Cardinality(T) : T \in {T \in SUBSET (1 .. n) : Gap(T)}}
<1> SUFFICES ASSUME D # {} PROVE FALSE
  OBVIOUS
<1>1. D \subseteq Nat
  BY SmallSets
<1>2. PICK d \in D : \A y \in D : <<y, d>> \notin OpToRel(<, Nat)
  BY <1>1, NatLessThanWellFounded, WFMin
<1>3. PICK T \in SUBSET (1 .. n) : d = Cardinality(T) /\ Gap(T)
  OBVIOUS
<1>4. IsFiniteSet(T) /\ d \in Nat /\ T # {}
  <2>1. IsFiniteSet(T) /\ d \in Nat
    BY <1>3, SmallSets
  <2>2. d # 0
    BY <1>3, <2>1
  <2>3. QED
    BY <1>3, <2>1, <2>2, FS_EmptySet
<1> DEFINE m == Latest(T)
           U == T \ {m}
<1>5. m \in T /\ \A j \in T : j <= m
  BY <1>4, LatestIsLast
<1> HIDE DEF m
<1>6. /\ m \in Nat /\ m - 1 \in Nat /\ m - 1 < m /\ T = U \cup {m}
      /\ U \in SUBSET (1 .. m - 1) /\ U \in SUBSET (1 .. n)
  BY <1>5
<1> HIDE DEF U
<1>7. /\ Cardinality(T) = Cardinality(U) + 1 /\ Cardinality(U) \in Nat
      /\ \A r \in 1 .. Cardinality(U) : Ranked(T, r) = Ranked(U, r)
      /\ Ranked(T, Cardinality(U) + 1) = {m}
  <2>1. Cardinality(U) \in Nat
    BY <1>6, SmallSets
  <2>2. /\ Cardinality(U \cup {m}) = Cardinality(U) + 1
        /\ \A r \in 1 .. Cardinality(U) : Ranked(U \cup {m}, r) = Ranked(U, r)
        /\ Ranked(U \cup {m}, Cardinality(U) + 1) = {m}
    <3>1. ComesLast(U, m)
      BY <1>6, RanksGrow
    <3>2. QED
      BY <3>1 DEF ComesLast
  <2>3. QED
    BY <1>6, <2>1, <2>2
<1>8. PICK r \in 1 .. d : Ranked(T, r) = {}
  BY <1>3
<1>9. r \in 1 .. Cardinality(U) /\ Ranked(U, r) = {}
  <2>1. r # Cardinality(U) + 1
    BY <1>7, <1>8
  <2>2. r \in 1 .. Cardinality(U)
    BY <1>3, <1>7, <1>8, <2>1
  <2>3. QED
    BY <1>7, <1>8, <2>2
<1>10. Cardinality(U) \in D
  BY <1>6, <1>9
<1>11. Cardinality(U) < d
  BY <1>3, <1>7
<1> HIDE DEF D
<1>12. QED
  BY <1>2, <1>4, <1>7, <1>10, <1>11 DEF OpToRel

LEMMA InOrderType ==
  ASSUME NEW n \in Nat, NEW S \in SUBSET (1 .. n)
  PROVE  /\ DOMAIN InOrder(S) = 1 .. Cardinality(S)
         /\ \A k \in 1 .. Cardinality(S) : InOrder(S)[k] \in S
<1>1. ASSUME NEW k \in 1 .. Cardinality(S)
      PROVE  InOrder(S)[k] \in S
  <2>1. InOrder(S)[k] \in Ranked(S, k)
    BY RanksTaken DEF InOrder
  <2>2. QED
    BY <2>1 DEF Ranked
<1>2. QED
  BY <1>1 DEF InOrder

LaidOut(S, m) ==
  /\ DOMAIN InOrder(S \cup {m}) = 1 .. Cardinality(S) + 1
  /\ \A k \in 1 .. Cardinality(S) : InOrder(S \cup {m})[k] = InOrder(S)[k]
  /\ InOrder(S \cup {m})[Cardinality(S) + 1] = m

LEMMA InOrderGrows ==
  ASSUME NEW n \in Nat, NEW S \in SUBSET (1 .. n), NEW m \in Nat, n < m
  PROVE  LaidOut(S, m)
<1> DEFINE B == S \cup {m}
           c == Cardinality(S)
<1>1. /\ c \in Nat /\ Cardinality(B) = c + 1
      /\ \A k \in 1 .. c : Ranked(B, k) = Ranked(S, k)
      /\ Ranked(B, c + 1) = {m}
  <2>1. c \in Nat
    BY SmallSets
  <2>2. QED
    <3>1. ComesLast(S, m)
      BY RanksGrow
    <3>2. QED
      BY <2>1, <3>1 DEF ComesLast
<1>2. DOMAIN InOrder(B) = 1 .. c + 1 /\ DOMAIN InOrder(S) = 1 .. c
  BY <1>1, Zenon DEF InOrder
<1>3. /\ \A k \in 1 .. c + 1 : InOrder(B)[k] = CHOOSE i \in Ranked(B, k) : TRUE
      /\ \A k \in 1 .. c : InOrder(S)[k] = CHOOSE i \in Ranked(S, k) : TRUE
  BY <1>1, Zenon DEF InOrder
<1> HIDE DEF B, c
<1>4. c + 1 \in 1 .. c + 1 /\ \A k \in 1 .. c : k \in 1 .. c + 1
  BY <1>1
<1>5. InOrder(B)[c + 1] = m
  BY <1>1, <1>3, <1>4
<1>6. \A k \in 1 .. c : InOrder(B)[k] = InOrder(S)[k]
  BY <1>1, <1>3, <1>4, Zenon
<1>7. QED
  BY <1>2, <1>5, <1>6 DEF B, c, LaidOut

Pairs == [name : Text, value : Text]

LEMMA PieceType ==
  ASSUME NEW q \in Text, NEW i \in DOMAIN q
  PROVE  SubSeq(q, i, Len(q)) \in Text /\ PieceAt(q, i) \in Text
<1>1. q \in Seq(Char) /\ Len(q) \in Nat /\ i \in 1 .. Len(q) /\ \A j \in 1 .. Len(q) : q[j] \in Char
  BY TextElements
<1>2. \A j \in i .. Len(q) : q[j] \in Char
  BY <1>1
<1>3. SubSeq(q, i, Len(q)) \in Seq(Char)
  BY <1>1, <1>2, SubSeqProperties, i \in Int, Len(q) \in Int
<1>4. SubSeq(q, i, Len(q)) \in Text
  BY <1>3 DEF Text, Char
<1>5. UpTo(SubSeq(q, i, Len(q)), And) \in Text
  BY <1>4, UpToType, Signs
<1>6. PieceAt(q, i) = UpTo(SubSeq(q, i, Len(q)), And)
  BY Zenon DEF PieceAt, And
<1>7. QED
  BY <1>4, <1>5, <1>6

LEMMA ParsePairType ==
  ASSUME NEW t \in Text
  PROVE  ParsePair(t) \in Pairs
<1>1. ParsePair(t) = Pair(decode(UpTo(t, Equals)),
                          IF Lacks(t, Equals) THEN << >> ELSE decode(Behind(t, Equals)))
  BY Zenon DEF ParsePair, Equals
<1>2. decode(UpTo(t, Equals)) \in Text
  BY UpToType, CodedType, Signs
<1>3. << >> \in Text
  BY DEF Text
<1>4. ~ Lacks(t, Equals) => decode(Behind(t, Equals)) \in Text
  BY CutSides, CodedType, Signs
<1>5. QED
  BY <1>1, <1>2, <1>3, <1>4 DEF Pair, Pairs

LEMMA BeginsAt ==
  ASSUME NEW q \in Text
  PROVE  /\ Begins(q) \in SUBSET (1 .. Len(q)) /\ Len(q) \in Nat /\ DOMAIN q = 1 .. Len(q)
         /\ \A i \in 1 .. Len(q) :
              i \in Begins(q) <=> q[i] # Plain(And) /\ (i = 1 \/ q[i - 1] = Plain(And))
<1>1. Begins(q) = {i \in DOMAIN q : /\ q[i] # Plain(And)
                                    /\ i = 1 \/ q[i - 1] = Plain(And)}
  BY Zenon DEF Begins, And
<1>2. QED
  BY <1>1, TextElements

LEMMA ParseType ==
  ASSUME NEW q \in Text
  PROVE  /\ parse(q) \in Seq(Pairs) /\ Len(parse(q)) = Cardinality(Begins(q))
         /\ Cardinality(Begins(q)) \in Nat
         /\ \A k \in 1 .. Cardinality(Begins(q)) :
              /\ InOrder(Begins(q))[k] \in Begins(q)
              /\ parse(q)[k] = ParsePair(PieceAt(q, InOrder(Begins(q))[k]))
<1> DEFINE c == Cardinality(Begins(q))
           begins == InOrder(Begins(q))
<1>1. c \in Nat /\ DOMAIN begins = 1 .. c /\ \A k \in 1 .. c : begins[k] \in Begins(q)
  BY BeginsAt, SmallSets, InOrderType
<1>2. parse(q) = [k \in 1 .. c |-> ParsePair(PieceAt(q, begins[k]))]
  BY <1>1, Zenon DEF parse
<1>3. \A k \in 1 .. c : begins[k] \in DOMAIN q
  BY <1>1, BeginsAt
<1> HIDE DEF begins, c
<1>4. \A k \in 1 .. c : ParsePair(PieceAt(q, begins[k])) \in Pairs
  BY <1>3, PieceType, ParsePairType
<1>5. parse(q) \in Seq(Pairs) /\ Len(parse(q)) = c
  BY <1>1, <1>2, <1>4
<1>6. QED
  BY <1>1, <1>2, <1>5 DEF begins, c

LEMMA PieceWhole ==
  ASSUME NEW q \in Text, q # << >>
  PROVE  SubSeq(q, 1, Len(q)) = q /\ 1 \in 1 .. Len(q) /\ PieceAt(q, 1) = UpTo(q, And)
<1>1. q \in Seq(Char) /\ Len(q) \in Nat
  BY TextElements
<1>2. SubSeq(q, 1, Len(q)) = q /\ 1 \in 1 .. Len(q)
  BY <1>1
<1>3. QED
  BY <1>2, Zenon DEF PieceAt, And

\* The first piece of a query that does not begin with a separator.
LEMMA ParseFirst ==
  ASSUME NEW q \in Text, q # << >>, q[1] # Plain(And)
  PROVE  1 \in DOMAIN parse(q) /\ parse(q)[1] = ParsePair(UpTo(q, And))
<1> DEFINE S == Begins(q)
<1>1. 1 \in S /\ S \in SUBSET (1 .. Len(q)) /\ Len(q) \in Nat
  BY BeginsAt, PieceWhole
<1>2. Cardinality(S) \in Nat /\ IsFiniteSet(S)
  BY <1>1, SmallSets
<1>3. Cardinality(S) # 0
  BY <1>1, <1>2, FS_EmptySet
<1>4. 1 \in 1 .. Cardinality(S)
  BY <1>2, <1>3
<1> HIDE DEF S
<1>5. Ranked(S, 1) # {}
  BY <1>1, <1>4, RanksTaken
<1>6. ASSUME NEW i \in Ranked(S, 1)
      PROVE  i = 1
  <2> DEFINE below == {j \in S : j <= i}
  <2>1. i \in S /\ Cardinality(below) = 1
    BY DEF Ranked
  <2>2. 1 \in below /\ i \in below /\ below \in SUBSET (1 .. Len(q))
    <3>1. i \in 1 .. Len(q) /\ 1 <= i /\ i <= i
      BY <1>1, <2>1
    <3>2. QED
      BY <1>1, <2>1, <3>1
  <2> HIDE DEF below
  <2>3. IsFiniteSet(below)
    BY <1>1, <2>2, SmallSets
  <2>4. PICK x : below = {x}
    BY <2>1, <2>3, FS_Singleton
  <2>5. QED
    BY <2>2, <2>4
<1>7. InOrder(S)[1] = 1
  <2>1. InOrder(S)[1] = CHOOSE i \in Ranked(S, 1) : TRUE
    BY <1>4, Zenon DEF InOrder
  <2>2. QED
    BY <1>5, <1>6, <2>1
<1>8. Len(parse(q)) = Cardinality(S) /\ parse(q) \in Seq(Pairs)
      /\ parse(q)[1] = ParsePair(PieceAt(q, 1))
  BY <1>4, <1>7, ParseType DEF S
<1>9. QED
  BY <1>4, <1>8, PieceWhole

\* A query of one piece.
LEMMA ParseOne ==
  ASSUME NEW q \in Text, q # << >>, Lacks(q, And)
  PROVE  parse(q) = <<ParsePair(q)>>
<1>1. /\ DOMAIN q = 1 .. Len(q) /\ 1 \in 1 .. Len(q) /\ Len(q) \in Nat
      /\ \A i \in 1 .. Len(q) : q[i] # Plain(And)
  BY PieceWhole, TextElements DEF Lacks
<1>2. Begins(q) = {1}
  <2>1. \A i \in 1 .. Len(q) : i # 1 => i - 1 \in 1 .. Len(q)
    BY <1>1
  <2>2. QED
    BY <1>1, <2>1, BeginsAt
<1>3. Cardinality(Begins(q)) = 1
  BY <1>2, FS_Singleton
<1>4. Len(parse(q)) = 1 /\ parse(q) \in Seq(Pairs)
  BY <1>3, ParseType
<1>5. parse(q)[1] = ParsePair(q)
  BY <1>1, ParseFirst DEF UpTo
<1>6. QED
  BY <1>4, <1>5

LEMMA SuffixGrows ==
  ASSUME NEW C, NEW t \in Seq(C), NEW p \in Seq(C), NEW cut \in C, NEW i \in 1 .. Len(t)
  PROVE  SubSeq(t \o <<cut>> \o p, i, Len(t \o <<cut>> \o p)) = SubSeq(t, i, Len(t)) \o <<cut>> \o p
<1> DEFINE u == <<cut>> \o p
<1>1. u \in Seq(C) /\ t \o <<cut>> \o p = t \o u
      /\ SubSeq(t, i, Len(t)) \o <<cut>> \o p = SubSeq(t, i, Len(t)) \o u
  OBVIOUS
<1> HIDE DEF u
<1>2. SubSeq(t \o u, i, Len(t \o u)) = SubSeq(t, i, Len(t)) \o u
  BY <1>1
<1>3. QED
  BY <1>1, <1>2

\* A piece that is appended is found behind the others.
LEMMA ParseGrows ==
  ASSUME NEW t \in Text, NEW p \in Text, p # << >>, Lacks(p, And)
  PROVE  parse(Between(t, And, p)) = Append(parse(t), ParsePair(p))
<1> DEFINE w == Between(t, And, p)
           n == Len(t)
           cut == Plain(And)
           m == n + 2
           S == Begins(t)
           c == Cardinality(S)
<1>1. /\ w \in Text /\ Len(w) = n + 1 + Len(p) /\ w[n + 1] = cut
      /\ \A i \in 1 .. n : w[i] = t[i]
      /\ \A i \in 1 .. Len(p) : w[n + 1 + i] = p[i]
  BY BetweenElements, Signs
<1>2. /\ n \in Nat /\ Len(p) \in Nat /\ 1 \in 1 .. Len(p)
      /\ \A i \in 1 .. Len(p) : p[i] # cut
  BY PieceWhole, TextElements DEF Lacks
<1>3. /\ S \in SUBSET (1 .. n)
      /\ \A i \in 1 .. n : i \in S <=> t[i] # cut /\ (i = 1 \/ t[i - 1] = cut)
      /\ Begins(w) \in SUBSET (1 .. Len(w))
      /\ \A i \in 1 .. Len(w) : i \in Begins(w) <=> w[i] # cut /\ (i = 1 \/ w[i - 1] = cut)
  BY <1>1, BeginsAt
<1> HIDE DEF w, cut, S
<1>4. Begins(w) = S \cup {m}
  <2> HIDE DEF n
  <2>1. ASSUME NEW i \in 1 .. n
        PROVE  i \in Begins(w) <=> i \in S
    BY <1>1, <1>2, <1>3
  <2>2. n + 1 \notin Begins(w)
    BY <1>1, <1>2, <1>3
  <2>3. m \in Begins(w)
    <3>1. m \in 1 .. Len(w) /\ m - 1 = n + 1 /\ m = n + 1 + 1
      BY <1>1, <1>2
    <3>2. w[m] = p[1] /\ w[m - 1] = cut
      BY <1>1, <1>2, <3>1
    <3>3. QED
      BY <1>2, <1>3, <3>1, <3>2
  <2>4. ASSUME NEW i \in Begins(w), i > m
        PROVE  FALSE
    <3>1. /\ i - 1 # 0 /\ i \in 1 .. Len(w) /\ i - 1 = n + 1 + (i - 1 - n - 1)
          /\ i - 1 - n - 1 \in 1 .. Len(p)
      BY <1>1, <1>2, <1>3, <2>4
    <3>2. w[i - 1] # cut
      BY <1>1, <1>2, <3>1
    <3>3. QED
      BY <1>3, <3>1, <3>2
  <2>5. \A i \in Begins(w) \cup S : i \in Nat /\ (i \in 1 .. n \/ i = n + 1 \/ i = m \/ i > m)
    <3>1. \A i \in Begins(w) \cup S : i \in Nat
      <4>1. \A i \in 1 .. Len(w) : i \in Nat
        OBVIOUS
      <4>2. \A i \in 1 .. n : i \in Nat
        OBVIOUS
      <4>3. Begins(w) \subseteq 1 .. Len(w) /\ S \subseteq 1 .. n
        BY <1>3
      <4>4. QED
        BY <4>1, <4>2, <4>3
    <3>2. \A i \in Nat : i \in 1 .. n \/ i = n + 1 \/ i = m \/ i > m \/ i = 0
      BY <1>2
    <3>3. 0 \notin Begins(w) \cup S
      BY <1>3
    <3>4. QED
      BY <3>1, <3>2, <3>3
  <2>6. QED
    BY <1>2, <1>3, <2>1, <2>2, <2>3, <2>4, <2>5
<1>5. /\ c \in Nat /\ DOMAIN InOrder(Begins(w)) = 1 .. c + 1
      /\ \A k \in 1 .. c : InOrder(Begins(w))[k] = InOrder(S)[k]
      /\ InOrder(Begins(w))[c + 1] = m /\ Cardinality(Begins(w)) = c + 1
  <2>1. c \in Nat
    BY <1>2, <1>3, SmallSets
  <2>2. m \in Nat /\ n < m
    BY <1>2
  <2>3. ComesLast(S, m)
    BY <1>2, <1>3, <2>2, RanksGrow
  <2>4. LaidOut(S, m)
    BY <1>2, <1>3, <2>2, InOrderGrows
  <2>5. QED
    BY <1>4, <2>1, <2>3, <2>4 DEF ComesLast, LaidOut
<1>6. ASSUME NEW i \in S
      PROVE  PieceAt(w, i) = PieceAt(t, i)
  <2> DEFINE rest == SubSeq(t, i, n)
  <2>1. rest \in Text
    BY <1>2, <1>3, PieceType, TextElements
  <2>2. SubSeq(w, i, Len(w)) = Between(rest, And, p)
    <3>1. /\ t \in Seq(Char) /\ p \in Seq(Char) /\ w \in Seq(Char) /\ cut \in Char /\ i \in 1 .. n
          /\ w = t \o <<cut>> \o p
      BY <1>1, <1>3, Signs, TextElements DEF w, cut, Plain, Depth, Char, Between
    <3>2. SubSeq(t \o <<cut>> \o p, i, Len(t \o <<cut>> \o p)) =
            SubSeq(t, i, Len(t)) \o <<cut>> \o p
      BY <3>1, SuffixGrows
    <3>3. QED
      BY <3>1, <3>2 DEF Between, cut
  <2>3. UpTo(Between(rest, And, p), And) = UpTo(rest, And)
    BY <2>1, UpToStays, Signs
  <2>4. QED
    BY <2>2, <2>3, Zenon DEF PieceAt, And
<1>7. PieceAt(w, m) = p
  <2>1. SubSeq(w, m, Len(w)) = p
    <3>1. w \in Seq(Char) /\ p \in Seq(Char)
      BY <1>1, TextElements
    <3> HIDE DEF n
    <3>2. QED
      BY <1>1, <1>2, <3>1
  <2>2. UpTo(p, And) = p
    BY DEF UpTo
  <2>3. QED
    BY <2>1, <2>2, Zenon DEF PieceAt, And
<1>8. /\ parse(w) \in Seq(Pairs) /\ Len(parse(w)) = c + 1
      /\ \A k \in 1 .. c + 1 : parse(w)[k] = ParsePair(PieceAt(w, InOrder(Begins(w))[k]))
  BY <1>1, <1>5, ParseType
<1>9. /\ parse(t) \in Seq(Pairs) /\ Len(parse(t)) = c
      /\ \A k \in 1 .. c : InOrder(S)[k] \in S
      /\ \A k \in 1 .. c : parse(t)[k] = ParsePair(PieceAt(t, InOrder(S)[k]))
  BY ParseType DEF S
<1> HIDE DEF c, m
<1>10. \A k \in 1 .. c : parse(w)[k] = parse(t)[k]
  <2>1. \A k \in 1 .. c : k \in 1 .. c + 1
    BY <1>5
  <2>2. QED
    BY <1>5, <1>6, <1>8, <1>9, <2>1
<1>11. parse(w)[c + 1] = ParsePair(p)
  BY <1>5, <1>7, <1>8, c + 1 \in 1 .. c + 1
<1>12. ParsePair(p) \in Pairs
  BY ParsePairType
<1>13. parse(w) = Append(parse(t), ParsePair(p))
  BY <1>5, <1>8, <1>9, <1>10, <1>11, <1>12
<1>14. QED
  BY <1>13 DEF w

LEMMA LacksBetween ==
  ASSUME NEW ch \in Characters, NEW c \in Characters, ch # c,
         NEW before \in Text, NEW after \in Text, Lacks(before, c), Lacks(after, c)
  PROVE  Lacks(Between(before, ch, after), c)
<1> DEFINE w == Between(before, ch, after)
           n == Len(before)
           cut == Plain(c)
<1>1. /\ w \in Text /\ Len(w) = n + 1 + Len(after) /\ w[n + 1] = Plain(ch)
      /\ \A i \in 1 .. n : w[i] = before[i]
      /\ \A i \in 1 .. Len(after) : w[n + 1 + i] = after[i]
  BY BetweenElements
<1>2. /\ n \in Nat /\ Len(after) \in Nat /\ DOMAIN w = 1 .. Len(w)
      /\ DOMAIN before = 1 .. n /\ DOMAIN after = 1 .. Len(after)
  BY <1>1, TextElements
<1>3. Plain(ch) # cut
  BY DEF Plain, Depth
<1>4. (\A i \in 1 .. n : before[i] # cut) /\ (\A i \in 1 .. Len(after) : after[i] # cut)
  BY <1>2 DEF Lacks
<1> HIDE DEF w, n, cut
<1>5. ASSUME NEW i \in 1 .. Len(w)
      PROVE  w[i] # cut
  <2>1. CASE i \in 1 .. n
    BY <1>1, <1>4, <2>1
  <2>2. CASE i = n + 1
    BY <1>1, <1>3, <2>2
  <2>3. CASE i > n + 1
    <3>1. i - n - 1 \in 1 .. Len(after) /\ n + 1 + (i - n - 1) = i
      BY <1>1, <1>2, <2>3
    <3>2. w[n + 1 + (i - n - 1)] = after[i - n - 1]
      BY <1>1, <3>1
    <3>3. QED
      BY <1>4, <3>1, <3>2
  <2>4. QED
    BY <1>2, <2>1, <2>2, <2>3
<1>6. QED
  BY <1>2, <1>5 DEF Lacks, w, cut

\* A piece gives back what was encoded on either side of its equals sign.
LEMMA PieceComesBack ==
  ASSUME NEW field \in Text, NEW coded \in Text, Lacks(field, Equals)
  PROVE  ParsePair(Between(field, Equals, coded)) = Pair(decode(field), decode(coded))
<1> DEFINE w == Between(field, Equals, coded)
<1>1. Cut(w, Equals, field, coded)
  BY CutAtFirst, Signs
<1> HIDE DEF w
<1>2. ParsePair(w) = Pair(decode(UpTo(w, Equals)),
                          IF Lacks(w, Equals) THEN << >> ELSE decode(Behind(w, Equals)))
  BY Zenon DEF ParsePair, Equals
<1>3. ParsePair(w) = Pair(decode(field), decode(coded))
  BY <1>1, <1>2 DEF Cut
<1>4. QED
  BY <1>3 DEF w

LEMMA BetweenIsNotEmpty ==
  ASSUME NEW ch \in Characters, NEW before \in Text, NEW after \in Text
  PROVE  Between(before, ch, after) # << >>
<1>1. Len(Between(before, ch, after)) = Len(before) + 1 + Len(after)
      /\ Len(before) \in Nat /\ Len(after) \in Nat
  BY BetweenElements, TextElements
<1>2. Len(Between(before, ch, after)) # 0
  BY <1>1
<1>3. QED
  BY <1>2

LEMMA WrittenComesBack ==
  ASSUME NEW pair \in Pairs
  PROVE  /\ WrittenPair(pair) \in Text /\ WrittenPair(pair) # << >> /\ Lacks(WrittenPair(pair), And)
         /\ ParsePair(WrittenPair(pair)) = pair
<1> DEFINE before == byte_serialize(pair.name)
           after == byte_serialize(pair.value)
<1>1. pair.name \in Text /\ pair.value \in Text /\ pair = Pair(pair.name, pair.value)
  BY DEF Pairs, Pair
<1>2. WrittenPair(pair) = Between(before, Equals, after)
  BY Zenon DEF WrittenPair, Between, Equals
<1>3. /\ before \in Text /\ decode(before) = pair.name /\ Lacks(before, Equals)
      /\ Lacks(before, And) /\ after \in Text /\ decode(after) = pair.value /\ Lacks(after, And)
  BY <1>1, CodedType, DecodeUndoesEncode, EncodedLacks, Signs
<1> HIDE DEF before, after
<1>4. ParsePair(Between(before, Equals, after)) = pair
  BY <1>1, <1>3, PieceComesBack
<1>5. /\ Between(before, Equals, after) \in Text /\ Between(before, Equals, after) # << >>
      /\ Lacks(Between(before, Equals, after), And)
  BY <1>3, BetweenElements, BetweenIsNotEmpty, LacksBetween, Signs
<1>6. QED
  BY <1>2, <1>4, <1>5

\* What is written while the first n pairs are appended to a query.
IsWriting(g, t, pairs, n) ==
  g = [i \in 0 .. n |->
         IF i = 0 THEN t ELSE g[i - 1] \o <<Plain("&")>> \o WrittenPair(pairs[i])]

LEMMA WritingExists ==
  ASSUME NEW t, NEW pairs, NEW n \in Nat
  PROVE  \E g : IsWriting(g, t, pairs, n)
<1> DEFINE D == {k \in 1 .. n : ~ \E g : IsWriting(g, t, pairs, k)}
           added(g, k) == g[k] \o <<Plain(And)>> \o WrittenPair(pairs[k + 1])
<1>1. \A g, k : IsWriting(g, t, pairs, k) <=>
        g = [i \in 0 .. k |->
               IF i = 0 THEN t ELSE g[i - 1] \o <<Plain(And)>> \o WrittenPair(pairs[i])]
  BY Zenon DEF IsWriting, And
<1>2. \E g : IsWriting(g, t, pairs, 0)
  <2> DEFINE g == [i \in 0 .. 0 |-> t]
  <2>1. \A i \in 0 .. 0 : i = 0
    OBVIOUS
  <2>2. g = [i \in 0 .. 0 |->
               IF i = 0 THEN t ELSE g[i - 1] \o <<Plain(And)>> \o WrittenPair(pairs[i])]
    BY <2>1, Zenon
  <2> HIDE DEF g
  <2>3. IsWriting(g, t, pairs, 0)
    BY <1>1, <2>2, Zenon
  <2>4. QED
    BY <2>3
<1>3. ASSUME NEW k \in Nat, NEW g, IsWriting(g, t, pairs, k)
      PROVE  \E h : IsWriting(h, t, pairs, k + 1)
  <2> DEFINE h == [i \in 0 .. k + 1 |-> IF i = k + 1 THEN added(g, k) ELSE g[i]]
  <2>1. \A i \in 0 .. k : i \in 0 .. k + 1 /\ i # k + 1
    OBVIOUS
  <2>2. /\ h[k + 1] = added(g, k) /\ \A i \in 0 .. k : h[i] = g[i]
        /\ h = [i \in 0 .. k + 1 |-> h[i]]
    BY <2>1
  <2> HIDE DEF h
  <2>3. \A i \in 0 .. k :
          g[i] = IF i = 0 THEN t ELSE g[i - 1] \o <<Plain(And)>> \o WrittenPair(pairs[i])
    BY <1>1, <1>3, Zenon
  <2>4. ASSUME NEW i \in 0 .. k + 1
        PROVE  h[i] = IF i = 0 THEN t ELSE h[i - 1] \o <<Plain(And)>> \o WrittenPair(pairs[i])
    <3>1. CASE i = k + 1
      <4>1. i - 1 = k /\ k \in 0 .. k /\ i # 0
        BY <3>1
      <4>2. QED
        BY <2>2, <3>1, <4>1
    <3>2. CASE i \in 0 .. k
      <4>1. i # 0 => i - 1 \in 0 .. k
        BY <3>2
      <4>2. QED
        BY <2>2, <2>3, <3>2, <4>1
    <3>3. QED
      BY <3>1, <3>2
  <2>5. h = [i \in 0 .. k + 1 |->
               IF i = 0 THEN t ELSE h[i - 1] \o <<Plain(And)>> \o WrittenPair(pairs[i])]
    BY <2>2, <2>4, Zenon
  <2>6. IsWriting(h, t, pairs, k + 1)
    BY <1>1, <2>5, Zenon
  <2>7. QED
    BY <2>6
<1>4. CASE D = {}
  <2>1. n = 0 \/ n \in 1 .. n
    OBVIOUS
  <2>2. QED
    BY <1>2, <1>4, <2>1
<1>5. CASE D # {}
  <2> DEFINE k == Min(D)
  <2>1. k \in D /\ \A j \in D : k <= j
    BY <1>5, LeastOf, D \in SUBSET (1 .. n)
  <2> HIDE DEF k
  <2>2. k - 1 \notin D /\ k - 1 \in Nat /\ k - 1 + 1 = k /\ (k - 1 = 0 \/ k - 1 \in 1 .. n)
    BY <2>1
  <2>3. \E g : IsWriting(g, t, pairs, k - 1)
    BY <1>2, <2>2
  <2>4. \E h : IsWriting(h, t, pairs, k - 1 + 1)
    BY <1>3, <2>2, <2>3
  <2>5. QED
    BY <2>1, <2>2, <2>4
<1>6. QED
  BY <1>4, <1>5

\* update_query (redirect.rs:3-13): whatever pairs are appended to whatever query, a form
\* parser finds them behind what the query had, each with its name and value and in their
\* order.
THEOREM ExtendedComesBack ==
  ASSUME NEW t \in Text, NEW pairs \in Seq(Pairs)
  PROVE  /\ extend_pairs(t, pairs) \in Text
         /\ parse(extend_pairs(t, pairs)) = parse(t) \o pairs
<1> DEFINE n == Len(pairs)
           g == CHOOSE g : IsWriting(g, t, pairs, n)
           Right(k) == g[k] \in Text /\ parse(g[k]) = parse(t) \o SubSeq(pairs, 1, k)
           D == {k \in 1 .. n : ~ Right(k)}
<1>1. n \in Nat /\ IsWriting(g, t, pairs, n)
  BY WritingExists
<1>2. extend_pairs(t, pairs) = g[n]
  BY Zenon DEF extend_pairs, IsWriting
<1>3. /\ g[0] = t
      /\ \A k \in 1 .. n : g[k] = Between(g[k - 1], And, WrittenPair(pairs[k]))
  <2>1. g = [i \in 0 .. n |->
               IF i = 0 THEN t ELSE g[i - 1] \o <<Plain(And)>> \o WrittenPair(pairs[i])]
    BY <1>1, Zenon DEF IsWriting, And
  <2> HIDE DEF g, n
  <2>2. 0 \in 0 .. n /\ \A k \in 1 .. n : k \in 0 .. n /\ k # 0
    BY <1>1
  <2>3. \A i \in 0 .. n :
          g[i] = IF i = 0 THEN t ELSE g[i - 1] \o <<Plain(And)>> \o WrittenPair(pairs[i])
    BY <2>1, Zenon
  <2>4. QED
    BY <2>2, <2>3 DEF Between
<1> HIDE DEF g
<1>4. Right(0)
  <2>1. parse(t) \in Seq(Pairs)
    BY ParseType
  <2>2. parse(t) \o SubSeq(pairs, 1, 0) = parse(t)
    BY <2>1
  <2>3. QED
    BY <1>3, <2>2
<1>5. ASSUME NEW k \in 1 .. n, Right(k - 1)
      PROVE  Right(k)
  <2> DEFINE p == WrittenPair(pairs[k])
  <2>1. /\ pairs[k] \in Pairs /\ p \in Text /\ p # << >> /\ Lacks(p, And) /\ ParsePair(p) = pairs[k]
    BY WrittenComesBack
  <2> HIDE DEF p
  <2>2. g[k] = Between(g[k - 1], And, p)
    BY <1>3 DEF p
  <2>3. g[k] \in Text /\ parse(g[k]) = Append(parse(g[k - 1]), pairs[k])
    <3> DEFINE q == g[k - 1]
    <3>1. q \in Text
      BY <1>5
    <3> HIDE DEF q
    <3>2. Between(q, And, p) \in Text
      BY <2>1, <3>1, BetweenElements, Signs
    <3>3. parse(Between(q, And, p)) = Append(parse(q), ParsePair(p))
      BY <2>1, <3>1, ParseGrows
    <3>4. QED
      BY <2>1, <2>2, <3>2, <3>3 DEF q
  <2>4. parse(t) \in Seq(Pairs)
    BY ParseType
  <2>5. Append(parse(t) \o SubSeq(pairs, 1, k - 1), pairs[k]) = parse(t) \o SubSeq(pairs, 1, k)
    BY <2>1, <2>4
  <2>6. QED
    BY <1>5, <2>3, <2>5
<1> HIDE DEF Right
<1>6. D = {}
  <2> SUFFICES ASSUME D # {} PROVE FALSE
    OBVIOUS
  <2> DEFINE k == Min(D)
  <2>1. k \in D /\ \A j \in D : k <= j
    BY <1>1, LeastOf, D \in SUBSET (1 .. n)
  <2> HIDE DEF k
  <2>2. k \in 1 .. n /\ k - 1 \notin D /\ (k - 1 = 0 \/ k - 1 \in 1 .. n)
    BY <2>1
  <2>3. QED
    BY <1>4, <1>5, <2>1, <2>2
<1>7. Right(n)
  <2>1. n = 0 \/ n \in 1 .. n
    BY <1>1
  <2>2. QED
    BY <1>4, <1>6, <2>1
<1>8. QED
  BY <1>2, <1>7, SubSeq(pairs, 1, n) = pairs DEF Right

NextWord == "next"
Field == DEFAULT_REDIRECT_FIELD

LEMMA WrittenOne == \A word : Written(<<word>>) = <<Plain(word)>>
BY DEF Written

\* The name of the redirect field has nothing to encode.
LEMMA FieldIsPlain ==
  /\ Field \in Text /\ Field # << >> /\ Field[1] # Plain(And)
  /\ Lacks(Field, And) /\ Lacks(Field, Equals) /\ Lacks(Field, Question) /\ decode(Field) = Field
<1>1. /\ NextWord # And /\ NextWord # Equals /\ NextWord # Question /\ NextWord # Plus
      /\ NextWord \in Characters
  BY Zenon, JourneyAssumption DEF NextWord, And, Equals, Question, Plus
<1>2. Field = Written(<<NextWord>>)
  BY Zenon DEF Field, DEFAULT_REDIRECT_FIELD, NextWord
<1>3. Field = <<[ch |-> NextWord, depth |-> 0]>>
  BY <1>2, WrittenOne DEF Plain, Depth
<1> HIDE DEF Field
<1>4. [ch |-> NextWord, depth |-> 0] \in Char
  BY <1>1 DEF Char
<1>5. /\ Field \in Text /\ Field # << >> /\ DOMAIN Field = {1}
      /\ Field[1] = [ch |-> NextWord, depth |-> 0]
  BY <1>3, <1>4 DEF Text, Char
<1>6. \A c : c # NextWord => Field[1] # Plain(c)
  BY <1>5 DEF Plain, Depth
<1>7. decode(Field) = Field
  <2>1. decode(Field)[1] = Field[1]
    BY <1>1, <1>5, PlainStays
  <2>2. decode(Field) \in Text /\ DOMAIN decode(Field) = {1}
    BY <1>5, CodedType DEF decode
  <2>3. /\ decode(Field) = [i \in DOMAIN decode(Field) |-> decode(Field)[i]]
        /\ Field = [i \in DOMAIN Field |-> Field[i]]
    BY <1>5, <2>2, TextElements
  <2>4. QED
    BY <1>5, <2>1, <2>2, <2>3
<1>8. QED
  BY <1>1, <1>5, <1>6, <1>7 DEF Lacks

\* A query of the redirect field and a text with no ampersand.
LEMMA FieldAndText ==
  ASSUME NEW coded \in Text, Lacks(coded, And)
  PROVE  parse(Between(Field, Equals, coded)) = <<Pair(Field, decode(coded))>>
<1> DEFINE q == Between(Field, Equals, coded)
<1>1. q \in Text /\ q # << >> /\ Lacks(q, And)
  BY FieldIsPlain, Signs, BetweenElements, BetweenIsNotEmpty, LacksBetween
<1>2. ParsePair(q) = Pair(Field, decode(coded))
  BY FieldIsPlain, PieceComesBack
<1> HIDE DEF q
<1>3. parse(q) = <<Pair(Field, decode(coded))>>
  BY <1>1, <1>2, ParseOne
<1>4. QED
  BY <1>3 DEF q

\* Whatever text follows, the first parameter is the redirect field.
LEMMA FieldComesFirst ==
  ASSUME NEW t \in Text
  PROVE  LET q == Between(Field, Equals, t)
         IN  q \in Text /\ 1 \in DOMAIN parse(q) /\ parse(q)[1].name = Field
<1> DEFINE q == Between(Field, Equals, t)
<1>1. q \in Text /\ q # << >>
  BY FieldIsPlain, Signs, BetweenElements, BetweenIsNotEmpty
<1>2. q[1] # Plain(And)
  <2>1. 1 \in 1 .. Len(Field)
    BY FieldIsPlain, PieceWhole
  <2>2. q[1] = Field[1]
    BY <2>1, FieldIsPlain, Signs, BetweenElements
  <2>3. QED
    BY <2>2, FieldIsPlain
<1>3. \E u \in Text : UpTo(q, And) = Between(Field, Equals, u)
  <2>1. CASE Lacks(t, And)
    <3>1. Lacks(q, And)
      BY <2>1, FieldIsPlain, Signs, LacksBetween
    <3>2. QED
      BY <3>1 DEF UpTo
  <2>2. CASE ~ Lacks(t, And)
    <3> DEFINE b == UpTo(t, And)
               a == Behind(t, And)
    <3>1. b \in Text /\ Lacks(b, And) /\ a \in Text /\ t = Between(b, And, a)
      BY <2>2, CutSides, Signs
    <3> HIDE DEF b, a
    <3>2. Between(Between(Field, Equals, b), And, a) = Between(Field, Equals, Between(b, And, a))
      BY <3>1, FieldIsPlain, Signs, BetweenAssociates
    <3>3. Between(Field, Equals, b) \in Text /\ Lacks(Between(Field, Equals, b), And)
      BY <3>1, FieldIsPlain, Signs, BetweenElements, LacksBetween
    <3>4. Cut(Between(Between(Field, Equals, b), And, a), And, Between(Field, Equals, b), a)
      BY <3>1, <3>3, Signs, CutAtFirst
    <3>5. UpTo(q, And) = Between(Field, Equals, b)
      BY <3>1, <3>2, <3>4 DEF Cut
    <3>6. QED
      BY <3>1, <3>5
  <2>3. QED
    BY <2>1, <2>2
<1>4. PICK u \in Text : UpTo(q, And) = Between(Field, Equals, u)
  BY <1>3
<1>5. ParsePair(Between(Field, Equals, u)) = Pair(Field, decode(u))
  BY FieldIsPlain, PieceComesBack
<1> HIDE DEF q
<1>6. 1 \in DOMAIN parse(q) /\ parse(q)[1] = Pair(Field, decode(u))
  BY <1>1, <1>2, <1>4, <1>5, ParseFirst
<1>7. q \in Text /\ 1 \in DOMAIN parse(q) /\ parse(q)[1].name = Field
  BY <1>1, <1>6 DEF Pair
<1>8. QED
  BY <1>7 DEF q

-----------------------------------------------------------------------------
(* URIs.                                                                    *)

LEMMA UriParts ==
  \A path, query : Uri(path, query).path = path /\ Uri(path, query).query = query
BY DEF Uri

\* A URI is one that can be parsed and has a scheme if it needs one.
LEMMA UriIs ==
  ASSUME NEW u
  PROVE  /\ IsUri(u) <=> /\ u = Uri(u.path, u.query) /\ u.path \in Text
                         /\ Lacks(u.path, Question) /\ u.query \in Opt(Text)
         /\ IsUri(u) => u # None /\ u # Broken /\ u # Bare
<1>1. u \in Uris <=> u = Uri(u.path, u.query) /\ u.path \in Text /\ u.query \in Opt(Text)
  BY DEF Uris, Uri
<1>2. IsUri(u) <=> u \in Uris /\ Lacks(u.path, Question)
  BY Zenon DEF IsUri, Question
<1>3. u \in Uris => u # None /\ u # Broken /\ u # Bare
  BY UriAssumption
<1>4. QED
  BY <1>1, <1>2, <1>3

LEMMA ToStringType ==
  ASSUME NEW u, IsUri(u)
  PROVE  /\ to_string(u) \in Text
         /\ to_string(u) = IF u.query = None THEN u.path ELSE Between(u.path, Question, u.query)
         /\ u.path \in Text /\ Lacks(u.path, Question) /\ u.query \in Opt(Text)
         /\ u = Uri(u.path, u.query) /\ query_pairs(u) \in Seq(Pairs)
<1>1. /\ u.path \in Text /\ Lacks(u.path, Question) /\ u.query \in Opt(Text)
      /\ u = Uri(u.path, u.query) /\ u # Bare
  BY UriIs
<1>2. to_string(u) = IF u.query = None THEN u.path ELSE Between(u.path, Question, u.query)
  BY Zenon DEF to_string, Between, Question
<1>3. u.query # None => u.query \in Text
  BY <1>1 DEF Opt
<1>4. to_string(u) \in Text
  BY <1>1, <1>2, <1>3, BetweenElements, Signs
<1>5. query_pairs(u) \in Seq(Pairs)
  BY <1>1, <1>3, ParseType DEF query_pairs
<1>6. QED
  BY <1>1, <1>2, <1>4, <1>5

LEMMA ToUriIs ==
  \A t : ToUri(t) = Uri(UpTo(t, Question), IF Lacks(t, Question) THEN None ELSE Behind(t, Question))
BY Zenon DEF ToUri, Question

\* A browser that is sent to a URI's text asks for the URI.
LEMMA UriComesBack ==
  ASSUME NEW u, IsUri(u)
  PROVE  ToUri(to_string(u)) = u
<1>1. CASE u.query = None
  BY <1>1, ToStringType, ToUriIs DEF UpTo
<1>2. CASE u.query # None
  <2>1. u.query \in Text
    BY <1>2, ToStringType DEF Opt
  <2>2. Cut(Between(u.path, Question, u.query), Question, u.path, u.query)
    BY <2>1, ToStringType, Signs, CutAtFirst
  <2>3. to_string(u) = Between(u.path, Question, u.query) /\ u = Uri(u.path, u.query)
    BY <1>2, ToStringType
  <2>4. QED
    BY <2>2, <2>3, ToUriIs DEF Cut
<1>3. QED
  BY <1>1, <1>2

\* What a browser asks for has the text it was sent to.
LEMMA TextComesBack ==
  ASSUME NEW t \in Text
  PROVE  IsUri(ToUri(t)) /\ to_string(ToUri(t)) = t
<1> DEFINE path == UpTo(t, Question)
           query == IF Lacks(t, Question) THEN None ELSE Behind(t, Question)
           u == ToUri(t)
<1>1. u.path = path /\ u.query = query /\ u = Uri(u.path, u.query)
  BY ToUriIs, UriParts
<1>2. path \in Text /\ Lacks(path, Question)
  BY UpToType, Signs
<1>3. ~ Lacks(t, Question) => Behind(t, Question) \in Text /\ t = Between(path, Question, query)
  BY CutSides, Signs
<1>4. query \in Opt(Text) /\ None \notin Text
  BY <1>3, UriAssumption DEF Opt
<1> HIDE DEF u
<1>5. IsUri(u)
  BY <1>1, <1>2, <1>4, UriIs
<1>6. to_string(u) = IF query = None THEN path ELSE Between(path, Question, query)
  BY <1>1, <1>5, ToStringType
<1>7. to_string(u) = t
  <2>1. CASE Lacks(t, Question)
    BY <1>6, <2>1 DEF UpTo
  <2>2. CASE ~ Lacks(t, Question)
    <3>1. query # None
      BY <1>3, <1>4, <2>2
    <3>2. QED
      BY <1>3, <1>6, <2>2, <3>1
  <2>3. QED
    BY <2>1, <2>2
<1>8. QED
  BY <1>5, <1>7 DEF u

\* The page that RedirectHandler writes behind its field (url_with_redirect_query,
\* redirect.rs:34) is what a form parser finds under that field, whatever the page's
\* query holds and however often that is encoded; so it is again when the login form
\* sends it on; neither text holds a separator a query could be cut at; and a browser
\* that is sent there asks for the very page.
THEOREM PageComesBack ==
  ASSUME NEW field \in Text, NEW asked, IsUri(asked),
         Lacks(field, Equals), decode(field) = field
  PROVE  LET t == to_string(asked)
         IN  /\ ParsePair(Between(field, Equals, encode(t))) = Pair(field, t)
             /\ ParsePair(Between(field, Equals, byte_serialize(t))) = Pair(field, t)
             /\ \A ch \in Reserved : Lacks(encode(t), ch)
             /\ \A ch \in Reserved \ {Plus} : Lacks(byte_serialize(t), ch)
             /\ ToUri(t) = asked
<1> DEFINE t == to_string(asked)
<1>1. t \in Text /\ ToUri(t) = asked
  BY ToStringType, UriComesBack
<1> HIDE DEF t
<1>2. /\ decode(encode(t)) = t /\ decode(byte_serialize(t)) = t
      /\ encode(t) \in Text /\ byte_serialize(t) \in Text
  BY <1>1, DecodeUndoesEncode, CodedType
<1>3. /\ ParsePair(Between(field, Equals, encode(t))) = Pair(field, t)
      /\ ParsePair(Between(field, Equals, byte_serialize(t))) = Pair(field, t)
  BY <1>2, PieceComesBack
<1>4. /\ \A ch \in Reserved : Lacks(encode(t), ch)
      /\ \A ch \in Reserved \ {Plus} : Lacks(byte_serialize(t), ch)
  BY <1>1, EncodedLacks
<1>5. QED
  BY <1>1, <1>3, <1>4 DEF t

\* url_with_redirect_query (redirect.rs:18-38): when it fails, and what it makes.
LEMMA RedirectQuery ==
  ASSUME NEW url, NEW asked, IsUri(url), IsUri(asked)
  PROVE  LET sent == url_with_redirect_query(url, Field, asked)
             asking == Updated(url, Query(Field, asked))
         IN  /\ has_redirect(url, Field) => sent = url
             /\ ~ has_redirect(url, Field) =>
                  /\ sent = IF IsPathAndQuery(to_string(asking)) THEN asking ELSE None
                  /\ IsUri(asking)
                  /\ query_pairs(asking) =
                       <<Pair(Field, to_string(asked))>> \o query_pairs(url)
<1> DEFINE sent == url_with_redirect_query(url, Field, asked)
           t == encode(to_string(asked))
           q == Between(Field, Equals, t)
           asking == Updated(url, Query(Field, asked))
<1>1. url # Broken /\ url # Bare
  BY UriIs
<1>2. CASE has_redirect(url, Field)
  BY <1>1, <1>2 DEF url_with_redirect_query
<1>3. CASE ~ has_redirect(url, Field)
  <2>1. /\ t \in Text /\ Lacks(t, And) /\ decode(t) = to_string(asked)
    BY ToStringType, CodedType, EncodedLacks, DecodeUndoesEncode, Signs
  <2>2. Query(Field, asked) = q
    BY Zenon DEF Query, Between, Equals
  <2> HIDE DEF t
  <2>3. q \in Text
    BY <2>1, FieldIsPlain, Signs, BetweenElements
  <2>4. parse(q) = <<Pair(Field, to_string(asked))>>
    BY <2>1, FieldAndText
  <2> HIDE DEF q
  <2>5. asking = Uri(url.path, extend_pairs(q, query_pairs(url)))
    BY <2>2 DEF Updated
  <2>6. sent = IF IsPathAndQuery(to_string(asking)) THEN asking ELSE None
    BY <1>1, <1>3, Zenon DEF url_with_redirect_query, update_query
  <2>7. /\ extend_pairs(q, query_pairs(url)) \in Text
        /\ parse(extend_pairs(q, query_pairs(url))) = parse(q) \o query_pairs(url)
    BY <2>3, ToStringType, ExtendedComesBack
  <2> HIDE DEF sent, asking
  <2>8. asking.path = url.path /\ asking.query = extend_pairs(q, query_pairs(url))
    BY <2>5, UriParts
  <2>9. asking.query # None /\ asking.query \in Opt(Text)
    BY <2>7, <2>8, UriAssumption DEF Opt
  <2>10. IsUri(asking)
    BY <2>5, <2>8, <2>9, UriIs, ToStringType
  <2>11. asking # Bare
    BY <2>10, UriIs
  <2>12. query_pairs(asking) = <<Pair(Field, to_string(asked))>> \o query_pairs(url)
    BY <2>4, <2>7, <2>8, <2>9, <2>11 DEF query_pairs
  <2>13. QED
    BY <1>3, <2>6, <2>10, <2>12 DEF sent, asking
<1>4. QED
  BY <1>2, <1>3

-----------------------------------------------------------------------------
(* The journey of a browser, for any pages and login URLs.                  *)

Slash == "/"
Login == "login"
Signin == "signin"

LEMMA WrittenType ==
  /\ \A a \in Characters : a # Question =>
       Written(<<a>>) \in Text /\ Lacks(Written(<<a>>), Question)
  /\ \A a, b \in Characters :
       a # Question /\ b # Question =>
         Written(<<a, b>>) \in Text /\ Lacks(Written(<<a, b>>), Question)
<1>1. \A a, b : Written(<<a>>) = <<Plain(a)>> /\ Written(<<a, b>>) = <<Plain(a), Plain(b)>>
  BY DEF Written
<1>2. \A a : a # Question => Plain(a) # Plain(Question)
  BY DEF Plain, Depth
<1>3. \A a \in Characters : Plain(a) \in Char
  BY DEF Plain, Depth, Char
<1>4. ASSUME NEW a \in Characters, NEW b \in Characters, a # Question, b # Question
      PROVE  /\ <<Plain(a)>> \in Text /\ Lacks(<<Plain(a)>>, Question)
             /\ <<Plain(a), Plain(b)>> \in Text /\ Lacks(<<Plain(a), Plain(b)>>, Question)
  <2>1. Plain(a) # Plain(Question) /\ Plain(b) # Plain(Question)
    BY <1>2, <1>4
  <2>2. Plain(a) \in Char /\ Plain(b) \in Char
    BY <1>3
  <2>3. <<Plain(a)>> \in Text /\ <<Plain(a), Plain(b)>> \in Text
    BY <2>2 DEF Text, Char
  <2>4. QED
    BY <2>1, <2>3 DEF Lacks
<1>5. QED
  BY <1>1, <1>4

LEMMA PlacesType ==
  /\ IsUri(DEFAULT_LOGIN_URL) /\ IsUri(Home)
  /\ LoginPage \in Text /\ Lacks(LoginPage, Question)
<1>1. /\ Slash \in Characters /\ Login \in Characters /\ Signin \in Characters
      /\ Slash # Question /\ Login # Question /\ Signin # Question
  BY Zenon, JourneyAssumption DEF Slash, Login, Signin, Question
<1>2. /\ DEFAULT_LOGIN_URL = Uri(Written(<<Slash, Signin>>), None)
      /\ Home = Uri(Written(<<Slash>>), None) /\ LoginPage = Written(<<Slash, Login>>)
  BY Zenon DEF DEFAULT_LOGIN_URL, Home, LoginPage, Slash, Login, Signin
<1>3. ASSUME NEW path \in Text, Lacks(path, Question)
      PROVE  IsUri(Uri(path, None))
  <2>1. None \in Opt(Text)
    BY DEF Opt
  <2>2. QED
    BY <1>3, <2>1, UriIs, UriParts
<1>4. QED
  BY <1>1, <1>2, <1>3, WrittenType

LEMMA UrlType ==
  ASSUME login_url \in LoginUrls
  PROVE  /\ Url \in {Broken, Bare} \/ IsUri(Url)
         /\ Url = Broken <=> login_url = Broken
         /\ Url = Bare <=> login_url = Bare
BY PlacesType, UriIs, UriAssumption, JourneyAssumption DEF Url

LEMMA NextFieldsAre ==
  ASSUME NEW u
  PROVE  /\ NextFields(u) = {i \in DOMAIN query_pairs(u) : query_pairs(u)[i].name = Field}
         /\ has_redirect(u, Field) <=> NextFields(u) # {}
BY DEF NextFields, Field, has_redirect

LEMMA NextType ==
  ASSUME NEW u, IsUri(u), NextFields(u) # {}
  PROVE  NextOf(u) \in Text
<1>1. query_pairs(u) \in Seq(Pairs)
  BY ToStringType
<1>2. NextOf(u) = query_pairs(u)[CHOOSE i \in NextFields(u) : TRUE].value
  BY DEF NextOf
<1>3. (CHOOSE i \in NextFields(u) : TRUE) \in DOMAIN query_pairs(u)
  BY NextFieldsAre
<1> DEFINE i == CHOOSE i \in NextFields(u) : TRUE
<1> HIDE DEF i
<1>4. query_pairs(u)[i] \in Pairs
  BY <1>1, <1>3 DEF i
<1>5. query_pairs(u)[i].value \in Text
  BY <1>4 DEF Pairs
<1>6. QED
  BY <1>2, <1>5 DEF i

\* The one redirect field, in front of parameters of other names.
LEMMA NextInFront ==
  ASSUME NEW u, NEW value, NEW rest \in Seq(Pairs),
         query_pairs(u) = <<Pair(Field, value)>> \o rest,
         \A i \in DOMAIN rest : rest[i].name # Field
  PROVE  NextFields(u) = {1} /\ NextOf(u) = value
<1> DEFINE p == Pair(Field, value)
           all == <<p>> \o rest
<1>1. p.name = Field /\ p.value = value
  BY DEF Pair
<1> HIDE DEF p
<1>2. /\ DOMAIN all = 1 .. Len(rest) + 1 /\ Len(rest) \in Nat /\ DOMAIN rest = 1 .. Len(rest)
      /\ all[1] = p /\ \A i \in 2 .. Len(rest) + 1 : all[i] = rest[i - 1]
  OBVIOUS
<1>3. query_pairs(u) = all
  BY DEF p
<1> HIDE DEF all
<1>4. \A i \in 2 .. Len(rest) + 1 : all[i].name # Field
  BY <1>2
<1>5. 1 \in DOMAIN all /\ \A i \in DOMAIN all : i = 1 \/ i \in 2 .. Len(rest) + 1
  BY <1>2
<1>6. NextFields(u) = {1}
  <2>1. all[1].name = Field
    BY <1>1, <1>2
  <2>2. {i \in DOMAIN all : all[i].name = Field} = {1}
    BY <1>4, <1>5, <2>1
  <2>3. NextFields(u) = {i \in DOMAIN all : all[i].name = Field}
    BY <1>3, NextFieldsAre, Zenon
  <2>4. QED
    BY <2>2, <2>3
<1>7. QED
  BY <1>1, <1>2, <1>3, <1>6 DEF NextOf

\* What RedirectHandler sends the browser to, and when there is nothing.
LEMMA SentType ==
  ASSUME login_url \in LoginUrls, page \in Pages
  PROVE  LET sent == url_with_redirect_query(Url, Field, page)
         IN  /\ sent = None <=> HandlerFails
             /\ ~ HandlerFails =>
                  /\ IsUri(sent) /\ NextFields(sent) # {} /\ NextOf(sent) = Carried
                  /\ Carried \in Text
                  /\ query_pairs(sent) = IF Fixed THEN Parameters
                                         ELSE <<Pair(Field, to_string(page))>> \o Parameters
<1> DEFINE sent == url_with_redirect_query(Url, Field, page)
           asking == Updated(Url, Query(Field, page))
<1>1. /\ Fixed <=> has_redirect(Url, Field)
      /\ Asking = to_string(asking) /\ IsUri(page)
  BY JourneyAssumption DEF Fixed, Asking, Field
<1>2. CASE login_url = Broken
  <2>1. sent = None /\ HandlerFails
    BY <1>2, UrlType DEF url_with_redirect_query, HandlerFails
  <2>2. QED
    BY <2>1
<1>3. CASE login_url = Bare
  <2>1. Url = Bare /\ Bare # Broken
    BY <1>3, UrlType, UriAssumption
  <2>2. query_pairs(Url) = << >>
    BY <2>1 DEF query_pairs
  <2>3. ~ has_redirect(Url, Field)
    BY <2>2 DEF has_redirect
  <2>4. update_query(Url, Query(Field, page)) = None
    BY <2>1, Zenon DEF update_query
  <2>5. sent = None /\ HandlerFails
    BY <1>1, <1>3, <2>1, <2>3, <2>4, Zenon DEF url_with_redirect_query, HandlerFails
  <2>6. QED
    BY <2>5
<1>4. CASE login_url # Broken /\ login_url # Bare
  <2>1. IsUri(Url)
    BY <1>4, UrlType
  <2>2. /\ has_redirect(Url, Field) => sent = Url
        /\ ~ has_redirect(Url, Field) =>
             /\ sent = IF IsPathAndQuery(to_string(asking)) THEN asking ELSE None
             /\ IsUri(asking)
             /\ query_pairs(asking) = <<Pair(Field, to_string(page))>> \o query_pairs(Url)
    BY <1>1, <2>1, RedirectQuery
  <2> HIDE DEF sent, asking
  <2>3. CASE Fixed
    <3>1. NextFields(Url) # {} /\ sent = Url
      BY <1>1, <2>2, <2>3, NextFieldsAre
    <3>2. Carried = NextOf(Url) /\ query_pairs(sent) = Parameters
      BY <2>3, <3>1 DEF Carried, Parameters
    <3>3. NextOf(Url) \in Text
      BY <2>1, <3>1, NextType
    <3>4. ~ HandlerFails /\ sent # None
      BY <1>4, <2>1, <2>3, <3>1, UriIs DEF HandlerFails
    <3>5. QED
      BY <2>1, <2>3, <3>1, <3>2, <3>3, <3>4 DEF sent
  <2>4. CASE ~ Fixed
    <3>1. /\ IsUri(asking) /\ asking # None
          /\ sent = IF IsPathAndQuery(to_string(asking)) THEN asking ELSE None
          /\ query_pairs(asking) = <<Pair(Field, to_string(page))>> \o query_pairs(Url)
      BY <1>1, <2>2, <2>4, UriIs
    <3>2. HandlerFails <=> ~ IsPathAndQuery(to_string(asking))
      BY <1>1, <1>4, <2>4, Zenon DEF HandlerFails
    <3>3. Carried = to_string(page) /\ Carried \in Text
      BY <1>1, <2>4, ToStringType DEF Carried
    <3>4. query_pairs(Url) \in Seq(Pairs)
      BY <2>1, ToStringType
    <3>5. \A i \in DOMAIN query_pairs(Url) : query_pairs(Url)[i].name # Field
      BY <1>1, <2>4 DEF has_redirect
    <3>6. NextFields(asking) = {1} /\ NextOf(asking) = to_string(page)
      BY <3>1, <3>4, <3>5, NextInFront
    <3>7. CASE IsPathAndQuery(to_string(asking))
      <4>1. sent = asking /\ sent # None /\ ~ HandlerFails
        BY <3>1, <3>2, <3>7
      <4>2. QED
        BY <2>4, <3>1, <3>3, <3>6, <4>1 DEF sent, Parameters
    <3>8. CASE ~ IsPathAndQuery(to_string(asking))
      <4>1. sent = None /\ HandlerFails
        BY <3>1, <3>2, <3>8
      <4>2. QED
        BY <4>1 DEF sent
    <3>9. QED
      BY <3>7, <3>8
  <2>5. QED
    BY <2>3, <2>4
<1>5. QED
  BY <1>2, <1>3, <1>4

\* The login form sends on what it was given.
LEMMA SubmittedComesBack ==
  ASSUME next \in Text
  PROVE  SubmittedNext = next
<1> DEFINE b == byte_serialize(next)
<1>1. next # None
  BY UriAssumption
<1>2. b \in Text /\ Lacks(b, And) /\ decode(b) = next
  BY CodedType, EncodedLacks, DecodeUndoesEncode, Signs
<1>3. SubmittedNext = IF next = None THEN None ELSE parse(Between(Field, Equals, b))[1].value
  BY Zenon DEF SubmittedNext, Between, Equals, Field
<1> HIDE DEF b
<1>4. parse(Between(Field, Equals, b)) = <<Pair(Field, next)>>
  BY <1>2, FieldAndText
<1>5. QED
  BY <1>1, <1>3, <1>4 DEF Pair

LEMMA OneByOne ==
  ASSUME NEW C, NEW x \in C, NEW y \in C, NEW z \in C
  PROVE  <<x, y, z>> = <<x>> \o (<<y>> \o <<z>>) /\ <<y>> \o <<z>> \in Seq(C) /\ <<x>> \in Seq(C)
<1> DEFINE v == <<y>> \o <<z>>
           w == <<x>> \o v
<1>1. v \in Seq(C) /\ Len(v) = 2 /\ v[1] = y /\ v[2] = z
  <2>1. <<y>> \in Seq(C) /\ <<z>> \in Seq(C) /\ Len(<<y>>) = 1 /\ Len(<<z>>) = 1
        /\ <<y>>[1] = y /\ <<z>>[1] = z
    OBVIOUS
  <2>2. v \in Seq(C) /\ Len(v) = Len(<<y>>) + Len(<<z>>)
        /\ \A i \in 1 .. Len(<<y>>) + Len(<<z>>) :
             v[i] = IF i <= Len(<<y>>) THEN <<y>>[i] ELSE <<z>>[i - Len(<<y>>)]
    BY <2>1, ConcatProperties
  <2> HIDE DEF v
  <2>3. 1 \in 1 .. 2 /\ 2 \in 1 .. 2 /\ 2 - 1 = 1 /\ ~ 2 <= 1
    OBVIOUS
  <2>4. QED
    BY <2>1, <2>2, <2>3
<1> HIDE DEF v
<1>2. w \in Seq(C) /\ Len(w) = 3 /\ w[1] = x /\ w[2] = y /\ w[3] = z
  <2>1. <<x>> \in Seq(C) /\ Len(<<x>>) = 1 /\ <<x>>[1] = x
    OBVIOUS
  <2>2. w \in Seq(C) /\ Len(w) = Len(<<x>>) + Len(v)
        /\ \A i \in 1 .. Len(<<x>>) + Len(v) :
             w[i] = IF i <= Len(<<x>>) THEN <<x>>[i] ELSE v[i - Len(<<x>>)]
    BY <1>1, <2>1, ConcatProperties
  <2> HIDE DEF w
  <2>3. \A i \in 1 .. 3 : w[i] = IF i <= 1 THEN <<x>>[i] ELSE v[i - 1]
    BY <1>1, <2>1, <2>2
  <2>4. QED
    BY <1>1, <2>1, <2>2, <2>3
<1> HIDE DEF w
<1>3. w = <<x, y, z>>
  BY <1>2
<1>4. <<x>> \in Seq(C)
  OBVIOUS
<1>5. QED
  BY <1>1, <1>3, <1>4, Zenon DEF v, w

\* The login page as the sqlite application names it after a failed login.
Again(t) == ToUri(LoginPage \o Written(<<"?", "next", "=">>) \o t)

LEMMA AgainType ==
  ASSUME NEW t \in Text
  PROVE  /\ IsUri(Again(t)) /\ NextFields(Again(t)) # {}
         /\ PlainInQueries(t) => NextOf(Again(t)) = t
<1> DEFINE q == Between(Field, Equals, t)
           whole == Between(LoginPage, Question, q)
           u == ToUri(whole)
<1>1. q \in Text /\ 1 \in DOMAIN parse(q) /\ parse(q)[1].name = Field
  BY FieldComesFirst
<1>2. Again(t) = u
  <2>1. Again(t) = ToUri(LoginPage \o Written(<<Question, NextWord, Equals>>) \o t)
    BY Zenon DEF Again, Question, NextWord, Equals
  <2> DEFINE x == Plain(Question)
             y == Plain(NextWord)
             z == Plain(Equals)
  <2>2. Written(<<Question, NextWord, Equals>>) = <<x, y, z>>
    BY DEF Written
  <2>3. Field = <<y>>
    <3>1. Field = Written(<<NextWord>>)
      BY Zenon DEF Field, DEFAULT_REDIRECT_FIELD, NextWord
    <3>2. QED
      BY <3>1, WrittenOne
  <2>4. /\ x \in Char /\ y \in Char /\ z \in Char /\ t \in Seq(Char) /\ LoginPage \in Seq(Char)
    <3>1. Question \in Characters /\ NextWord \in Characters /\ Equals \in Characters
      BY Signs, Zenon, JourneyAssumption DEF NextWord
    <3>2. x \in Char /\ y \in Char /\ z \in Char
      BY <3>1 DEF Plain, Depth, Char
    <3>3. QED
      BY <3>2, PlacesType, TextElements
  <2> HIDE DEF x, y, z
  <2>5. LoginPage \o <<x, y, z>> \o t = LoginPage \o <<x>> \o (<<y>> \o <<z>> \o t)
    <3> DEFINE l == LoginPage
               v == <<y>> \o <<z>>
    <3>1. <<x, y, z>> = <<x>> \o v /\ v \in Seq(Char) /\ <<x>> \in Seq(Char)
      BY <2>4, OneByOne, Zenon
    <3> HIDE DEF v
    <3>2. l \o (<<x>> \o v) = (l \o <<x>>) \o v /\ l \o <<x>> \in Seq(Char)
      BY <2>4, <3>1
    <3>3. ((l \o <<x>>) \o v) \o t = (l \o <<x>>) \o (v \o t)
      BY <2>4, <3>1, <3>2, ConcatAssociative
    <3>4. QED
      BY <3>1, <3>2, <3>3, Zenon DEF v
  <2>6. whole = LoginPage \o <<x>> \o (<<y>> \o <<z>> \o t)
    BY <2>3, Zenon DEF Between, x, z
  <2> HIDE DEF whole
  <2>7. QED
    BY <2>1, <2>2, <2>5, <2>6, Zenon
<1>3. Cut(whole, Question, LoginPage, q)
  BY <1>1, PlacesType, Signs, CutAtFirst
<1> HIDE DEF q
<1>4. IsUri(u) /\ u = Uri(LoginPage, q)
  BY <1>3, TextComesBack, ToUriIs DEF Cut
<1> HIDE DEF u, whole
<1>5. query_pairs(u) = parse(q)
  BY <1>1, <1>4, UriIs, UriParts, UriAssumption DEF query_pairs
<1>6. 1 \in NextFields(u)
  BY <1>1, <1>5, NextFieldsAre
<1>7. ASSUME PlainInQueries(t)
      PROVE  NextOf(u) = t
  <2>1. Lacks(t, And) /\ decode(t) = t
    BY <1>7, Zenon DEF PlainInQueries, And
  <2>2. parse(q) = <<Pair(Field, t)>>
    BY <2>1, FieldAndText DEF q
  <2>3. query_pairs(u) = <<Pair(Field, t)>> \o << >> /\ << >> \in Seq(Pairs)
    BY <1>5, <2>2
  <2>4. \A i \in DOMAIN << >> : << >>[i].name # Field
    OBVIOUS
  <2>5. QED
    BY <2>3, <2>4, NextInFront
<1>8. QED
  BY <1>2, <1>4, <1>6, <1>7

\* As long as no failed attempt has sent the browser to a URL that is not encoded, or
\* there is nothing to encode, the page to come back to is where the browser is.
Kept == on_failure = "render" \/ failures = 0 \/ PlainInQueries(Carried)

JourneyInv ==
  /\ JourneyTypeOK
  /\ stage = "307" => NextFields(uri) # {}
  /\ stage = "307" /\ failures = 0 => uri = url_with_redirect_query(Url, Field, page)
  /\ Kept => /\ stage = "307" => NextOf(uri) = Carried
             /\ stage = "form" => next = Carried
             /\ stage = "landed" => uri = ToUri(Carried)

LEMMA CarriedStays ==
  ASSUME UNCHANGED <<login_url, page>>
  PROVE  UNCHANGED <<Url, Carried, Fixed, HandlerFails>>
<1>1. UNCHANGED <<Url, Fixed>>
  BY DEF Url, Fixed
<1>2. UNCHANGED <<Carried, Asking>>
  BY <1>1 DEF Carried, Asking
<1>3. UNCHANGED HandlerFails
  BY <1>1, <1>2 DEF HandlerFails
<1>4. QED
  BY <1>1, <1>2, <1>3

LEMMA JourneyStarts == JourneyInit => JourneyInv
<1> SUFFICES ASSUME JourneyInit PROVE JourneyInv
  OBVIOUS
<1>1. IsUri(page) /\ MaxFailures \in Nat
  BY JourneyAssumption DEF JourneyInit
<1>2. None \in Opt(Text)
  BY DEF Opt
<1>3. JourneyTypeOK
  BY <1>1, <1>2 DEF JourneyInit, JourneyTypeOK
<1>4. QED
  BY <1>3 DEF JourneyInit, JourneyInv

LEMMA HandleKeeps ==
  ASSUME JourneyInv, RedirectHandler_handle
  PROVE  JourneyInv'
<1>1. /\ JourneyTypeOK /\ stage = "protected" /\ uri = page /\ next = None /\ failures = 0
      /\ UNCHANGED <<login_url, on_failure, page, next, failures>>
  BY DEF JourneyInv, JourneyTypeOK, RedirectHandler_handle
<1>2. UNCHANGED <<Url, Carried, Fixed, HandlerFails>>
  BY <1>1, CarriedStays
<1> DEFINE sent == url_with_redirect_query(Url, Field, page)
<1>3. /\ Location = sent /\ login_url \in LoginUrls /\ page \in Pages
      /\ \/ sent # None /\ uri' = sent /\ stage' = "307"
         \/ sent = None /\ uri' = uri /\ stage' = "500"
  BY <1>1 DEF Location, RedirectHandler_handle, Field, JourneyTypeOK
<1>4. /\ sent = None <=> HandlerFails
      /\ ~ HandlerFails => IsUri(sent) /\ NextFields(sent) # {} /\ NextOf(sent) = Carried
  BY <1>3, SentType
<1> HIDE DEF sent
<1>5. CASE sent = None
  <2>1. stage' = "500" /\ uri' = uri /\ HandlerFails'
    BY <1>2, <1>3, <1>4, <1>5
  <2>2. QED
    BY <1>1, <2>1 DEF JourneyInv, JourneyTypeOK
<1>6. CASE sent # None
  <2>1. stage' = "307" /\ uri' = sent /\ ~ HandlerFails'
    BY <1>2, <1>3, <1>4, <1>6
  <2>2. uri' = url_with_redirect_query(Url', Field, page')
    BY <1>1, <1>2, <2>1 DEF sent
  <2>3. IsUri(uri') /\ NextFields(uri') # {} /\ NextOf(uri') = Carried'
    BY <1>2, <1>4, <1>6, <2>1
  <2>4. JourneyTypeOK'
    BY <1>1, <2>1, <2>3 DEF JourneyTypeOK
  <2>5. QED
    BY <1>1, <2>1, <2>2, <2>3, <2>4 DEF JourneyInv
<1>7. QED
  BY <1>5, <1>6

LEMMA LoginPageKeeps ==
  ASSUME JourneyInv, login_page
  PROVE  JourneyInv'
<1>1. /\ JourneyTypeOK /\ stage = "307" /\ ~ HandlerFails /\ NextFields(uri) # {}
      /\ UNCHANGED <<login_url, on_failure, page, uri, failures>>
  BY DEF JourneyInv, JourneyTypeOK, login_page
<1>2. UNCHANGED <<Url, Carried, Fixed, HandlerFails>>
  BY <1>1, CarriedStays
<1>3. CASE stage' = "400"
  <2>1. next' = next
    BY <1>1, <1>3 DEF login_page
  <2>2. QED
    BY <1>1, <1>2, <1>3, <2>1 DEF JourneyInv, JourneyTypeOK
<1>4. CASE stage' # "400"
  <2>1. stage' = "form" /\ next' = NextOf(uri)
    BY <1>1, <1>4 DEF login_page
  <2>2. NextOf(uri) \in Text
    BY <1>1, NextType DEF JourneyTypeOK
  <2>3. next' # None /\ next' \in Opt(Text)
    BY <2>1, <2>2, UriAssumption DEF Opt
  <2>4. JourneyTypeOK'
    BY <1>1, <1>2, <2>1, <2>3 DEF JourneyTypeOK
  <2>5. Kept' = Kept
    BY <1>1, <1>2 DEF Kept
  <2>6. QED
    BY <1>1, <1>2, <2>1, <2>4, <2>5 DEF JourneyInv
<1>5. QED
  BY <1>3, <1>4

\* What the form submits is what it was given.
LEMMA AttemptType ==
  ASSUME JourneyInv, Attempt
  PROVE  /\ JourneyTypeOK /\ stage = "form" /\ ~ HandlerFails /\ next \in Text /\ next # None
         /\ SubmittedNext = next /\ (Kept => next = Carried)
         /\ UNCHANGED <<login_url, on_failure, page, Url, Carried, Fixed, HandlerFails>>
<1>1. /\ JourneyTypeOK /\ stage = "form" /\ ~ HandlerFails /\ next \in Text /\ next # None
      /\ (Kept => next = Carried)
  BY DEF JourneyInv, JourneyTypeOK, Attempt, Opt
<1>2. SubmittedNext = next
  BY <1>1, SubmittedComesBack
<1>3. UNCHANGED <<login_url, on_failure, page>>
  BY DEF Attempt
<1>4. UNCHANGED <<Url, Carried, Fixed, HandlerFails>>
  BY <1>3, CarriedStays
<1>5. QED
  BY <1>1, <1>2, <1>3, <1>4

LEMMA RenderingKeeps ==
  ASSUME JourneyInv, login_fails_rendering
  PROVE  JourneyInv'
<1>1. /\ Attempt /\ on_failure = "render" /\ failures < MaxFailures /\ failures' = failures + 1
      /\ next' = SubmittedNext /\ UNCHANGED <<stage, uri>>
  BY DEF login_fails_rendering
<1>2. /\ JourneyTypeOK /\ stage = "form" /\ next' = next /\ Carried' = Carried
      /\ UNCHANGED <<login_url, on_failure, page, HandlerFails>> /\ ~ HandlerFails
      /\ next = Carried
  BY <1>1, AttemptType DEF Kept
<1>3. failures' \in 0 .. MaxFailures
  BY <1>1, <1>2, JourneyAssumption DEF JourneyTypeOK
<1>4. JourneyTypeOK'
  BY <1>1, <1>2, <1>3 DEF JourneyTypeOK
<1>5. QED
  BY <1>1, <1>2, <1>4 DEF JourneyInv

LEMMA RedirectingKeeps ==
  ASSUME JourneyInv, login_fails_redirecting
  PROVE  JourneyInv'
<1>1. /\ Attempt /\ on_failure = "redirect" /\ failures < MaxFailures /\ failures' = failures + 1
      /\ stage' = "307" /\ UNCHANGED next
      /\ uri' = IF SubmittedNext = None THEN ToUri(LoginPage) ELSE Again(SubmittedNext)
  BY Zenon DEF login_fails_redirecting, Again
<1>2. /\ JourneyTypeOK /\ stage = "form" /\ next \in Text /\ next # None /\ SubmittedNext = next
      /\ ~ HandlerFails
      /\ UNCHANGED <<login_url, on_failure, page, Carried, HandlerFails>>
      /\ (Kept => next = Carried)
  BY <1>1, AttemptType
<1>3. failures' \in 0 .. MaxFailures /\ failures' # 0
  BY <1>1, <1>2, JourneyAssumption DEF JourneyTypeOK
<1>4. uri' = Again(next)
  BY <1>1, <1>2
<1>5. IsUri(uri') /\ NextFields(uri') # {} /\ (PlainInQueries(next) => NextOf(uri') = next)
  BY <1>2, <1>4, AgainType
<1>6. JourneyTypeOK'
  BY <1>1, <1>2, <1>3, <1>5 DEF JourneyTypeOK
<1>7. Kept' => NextOf(uri') = Carried'
  <2> SUFFICES ASSUME Kept' PROVE NextOf(uri') = Carried'
    OBVIOUS
  <2>1. PlainInQueries(Carried)
    BY <1>1, <1>2, <1>3 DEF Kept
  <2>2. next = Carried
    BY <1>2, <2>1 DEF Kept
  <2>3. QED
    BY <1>2, <1>5, <2>1, <2>2
<1>8. QED
  BY <1>1, <1>3, <1>5, <1>6, <1>7 DEF JourneyInv

LEMMA SuccessKeeps ==
  ASSUME JourneyInv, login_succeeds
  PROVE  JourneyInv'
<1>1. /\ Attempt /\ stage' = "landed" /\ UNCHANGED <<next, failures>>
      /\ uri' = IF SubmittedNext = None THEN Home ELSE ToUri(SubmittedNext)
  BY DEF login_succeeds
<1>2. /\ JourneyTypeOK /\ next \in Text /\ next # None /\ SubmittedNext = next
      /\ ~ HandlerFails /\ stage = "form"
      /\ UNCHANGED <<login_url, on_failure, page, Carried, HandlerFails>>
      /\ (Kept => next = Carried)
  BY <1>1, AttemptType
<1>3. uri' = ToUri(next) /\ IsUri(uri')
  BY <1>1, <1>2, TextComesBack
<1>4. JourneyTypeOK'
  BY <1>1, <1>2, <1>3 DEF JourneyTypeOK
<1>5. Kept' = Kept
  BY <1>1, <1>2 DEF Kept
<1>6. QED
  BY <1>1, <1>2, <1>3, <1>4, <1>5 DEF JourneyInv

LEMMA JourneyStep ==
  ASSUME JourneyInv, [JourneyNext]_journeyVars
  PROVE  JourneyInv'
<1>1. CASE UNCHANGED journeyVars
  BY <1>1 DEF journeyVars, JourneyInv, JourneyTypeOK, Kept, Carried, Fixed, Url,
              HandlerFails, Asking
<1>2. QED
  BY <1>1, HandleKeeps, LoginPageKeeps, RenderingKeeps, RedirectingKeeps, SuccessKeeps
     DEF JourneyNext

THEOREM JourneyAlways == JourneySpec => []JourneyInv
<1> QED
  BY JourneyStarts, JourneyStep, PTL DEF JourneySpec

\* The types of the journey, for any pages, any login URLs and any limits of the URI
\* parser.  The login form always has a page to come back to, a text that a query can
\* hold.  The handler answers an error (RedirectHandler::handle, handler.rs:157-185)
\* exactly if the login URL cannot be parsed (redirect.rs:23), or has no redirect field
\* of its own and is an authority without a scheme (redirect.rs:12) or a text that the
\* parser refuses once the page is in it (redirect.rs:10).
THEOREM JourneyTypeCorrect == JourneySpec => []JourneyTypeOK
<1> QED
  BY JourneyAlways, PTL DEF JourneyInv

LEMMA InvLands == JourneyInv => LandsWhereItStarted
<1> SUFFICES ASSUME JourneyInv, stage = "landed", Kept
             PROVE  IF Fixed THEN to_string(uri) = NextOf(Url) ELSE uri = page
  BY DEF LandsWhereItStarted, Kept
<1>1. /\ uri = ToUri(Carried) /\ login_url \in LoginUrls /\ ~ HandlerFails /\ page \in Pages
  BY DEF JourneyInv, JourneyTypeOK
<1>2. Carried \in Text /\ IsUri(page)
  BY <1>1, SentType, JourneyAssumption
<1>3. CASE Fixed
  BY <1>1, <1>2, <1>3, TextComesBack DEF Carried
<1>4. CASE ~ Fixed
  BY <1>1, <1>2, <1>4, UriComesBack DEF Carried
<1>5. QED
  BY <1>3, <1>4

\* For pages and login URLs of any length, with anything in their queries: a browser
\* that logs in comes back to the very page it was sent away from, through
\* url_with_redirect_query (redirect.rs:18-38), the login form and any number of failed
\* attempts where the form is rendered again, or where there is nothing to encode.
THEOREM BrowserLandsWhereItStarted == JourneySpec => []LandsWhereItStarted
<1> QED
  BY JourneyAlways, InvLands, PTL

LEMMA InvParameters == JourneyInv => ParametersArrive
<1> SUFFICES ASSUME JourneyInv, stage = "307", failures = 0
             PROVE  query_pairs(uri) = IF Fixed THEN Parameters
                                       ELSE <<Pair(Field, to_string(page))>> \o Parameters
  BY DEF ParametersArrive, Field
<1>1. /\ uri = url_with_redirect_query(Url, Field, page)
      /\ login_url \in LoginUrls /\ ~ HandlerFails /\ page \in Pages
  BY DEF JourneyInv, JourneyTypeOK
<1>2. QED
  BY <1>1, SentType

\* Whatever parameters a login URL has, and however many, they arrive at the login page
\* as they were and in their order, behind the redirect field (update_query,
\* redirect.rs:3-13).
THEOREM LoginParametersArrive == JourneySpec => []ParametersArrive
<1> QED
  BY JourneyAlways, InvParameters, PTL
=============================================================================
