------------------------------ MODULE Redirect ------------------------------
(***************************************************************************)
(* src/actix-login/src/redirect.rs: how the URI a request asked for gets   *)
(* into the query of a login URL, and what a form parser gets out of it.   *)
(* A text is a sequence of characters, each with the number of times it is *)
(* percent-encoded: %2526 is the character & with depth 2.                 *)
(***************************************************************************)
EXTENDS Options, Integers, Sequences, FiniteSets, SequencesExt

CONSTANTS Characters, Reserved,  \* all there are; those that both encoders encode
          Broken,                \* a URL that cannot be parsed
          Bare,                  \* a URL that is an authority without a scheme, as "login"
          IsPathAndQuery(_)      \* whether http's parser takes a text for a path and query

ASSUME RedirectAssumption ==
  {"&", "=", "+", " ", "?"} \subseteq Reserved /\ Reserved \subseteq Characters

Depth(ch, n) == [ch |-> ch, depth |-> n]

Plain(ch) == Depth(ch, 0)

Text == Seq([ch : Characters, depth : Nat])

\* A text written out of plain characters.
Written(word) == [i \in DOMAIN word |-> Plain(word[i])]

Lacks(text, ch) == \A i \in DOMAIN text : text[i] # Plain(ch)

\* Where a separator comes first, or 0; what stands before it, and behind it.
FirstAt(text, ch) == SelectInSeq(text, LAMBDA c : c = Plain(ch))

UpTo(text, ch) ==
  IF Lacks(text, ch) THEN text ELSE SubSeq(text, 1, FirstAt(text, ch) - 1)

Behind(text, ch) == SubSeq(text, FirstAt(text, ch) + 1, Len(text))

\* Numbers by their ranks.
Ranked(S, n) == {i \in S : Cardinality({j \in S : j <= i}) = n}

InOrder(S) == [n \in 1 .. Cardinality(S) |-> CHOOSE i \in Ranked(S, n) : TRUE]

-----------------------------------------------------------------------------
(* The libraries.                                                           *)

\* Mutant: what is encoded already is left alone.
encodeOnce(text) ==
  [i \in DOMAIN text |-> IF text[i].ch \in Reserved /\ text[i].depth = 0
                         THEN Depth(text[i].ch, 1) ELSE text[i]]

\* urlencoding::encode: the percent sign of an encoded character is reserved too.
encode(text) ==
  [i \in DOMAIN text |-> IF text[i].ch \in Reserved \/ text[i].depth > 0
                         THEN Depth(text[i].ch, text[i].depth + 1) ELSE text[i]]

\* form_urlencoded's encoder differs in how it writes a space.
byte_serialize(text) ==
  [i \in DOMAIN text |-> IF text[i] = Plain(" ") THEN Plain("+") ELSE encode(text)[i]]

decode(text) ==
  [i \in DOMAIN text |->
     CASE text[i] = Plain("+") -> Plain(" ")
       [] text[i].depth > 0    -> Depth(text[i].ch, text[i].depth - 1)
       [] OTHER                -> text[i]]

Pair(name, value) == [name |-> name, value |-> value]

\* A piece of a query is cut at its first equals sign.
ParsePair(piece) ==
  Pair(decode(UpTo(piece, "=")),
       IF Lacks(piece, "=") THEN << >> ELSE decode(Behind(piece, "=")))

\* A piece begins at the start or behind a separator; one that is empty is none.
Begins(query) ==
  {i \in DOMAIN query : /\ query[i] # Plain("&")
                        /\ i = 1 \/ query[i - 1] = Plain("&")}

PieceAt(query, i) == UpTo(SubSeq(query, i, Len(query)), "&")

\* form_urlencoded::parse.
parse(query) ==
  LET begins == InOrder(Begins(query))
  IN  [n \in DOMAIN begins |-> ParsePair(PieceAt(query, begins[n]))]

WrittenPair(pair) == byte_serialize(pair.name) \o <<Plain("=")>> \o byte_serialize(pair.value)

\* form_urlencoded::Serializer, which has a query to append to.
extend_pairs(query, pairs) ==
  LET appended[n \in 0 .. Len(pairs)] ==
        IF n = 0 THEN query
        ELSE appended[n - 1] \o <<Plain("&")>> \o WrittenPair(pairs[n])
  IN  appended[Len(pairs)]

-----------------------------------------------------------------------------
(* redirect.rs.  A URI is a path and a query, or no query; None stands for an *)
(* error.                                                                     *)

Uri(path, query) == [path |-> path, query |-> query]

Uris == [path : Text, query : Opt(Text)]

ASSUME UriAssumption ==
  /\ None \notin Text
  /\ {None, Broken, Bare} \cap Uris = {}
  /\ None # Broken /\ None # Bare /\ Broken # Bare

IsUri(uri) == uri \in Uris /\ Lacks(uri.path, "?")

to_string(uri) ==
  IF uri.query = None THEN uri.path ELSE uri.path \o <<Plain("?")>> \o uri.query

\* What a browser asks for when it is sent to a text.
ToUri(text) ==
  Uri(UpTo(text, "?"), IF Lacks(text, "?") THEN None ELSE Behind(text, "?"))

query_pairs(uri) == IF uri = Bare \/ uri.query = None THEN << >> ELSE parse(uri.query)

\* What update_query writes.
Updated(uri, new_query) == Uri(uri.path, extend_pairs(new_query, query_pairs(uri)))

\* Mutant: the parameters the URL had are dropped.
updateQueryAlone(uri, new_query) ==
  IF uri = Bare \/ ~IsPathAndQuery(to_string(Uri(uri.path, new_query))) THEN None
  ELSE Uri(uri.path, new_query)

\* The parser may refuse what has been written, as too long for instance, and an
\* authority cannot have a path and query without a scheme.
update_query(uri, new_query) ==
  IF uri = Bare \/ ~IsPathAndQuery(to_string(Updated(uri, new_query))) THEN None
  ELSE Updated(uri, new_query)

has_redirect(uri, field) ==
  \E i \in DOMAIN query_pairs(uri) : query_pairs(uri)[i].name = field

Query(redirect_field, redirect_uri) ==
  redirect_field \o <<Plain("=")>> \o encode(to_string(redirect_uri))

url_with_redirect_query(url, redirect_field, redirect_uri) ==
  IF url = Broken THEN None
  ELSE IF has_redirect(url, redirect_field) THEN url
  ELSE update_query(url, Query(redirect_field, redirect_uri))
=============================================================================
