--------------------------- MODULE MCHttpExchange ---------------------------
(* Small texts for HttpExchange. *)
EXTENDS HttpExchange

MCCapital == [c |-> "C", l |-> "L", t |-> "T", e |-> "E", h |-> "H"]

MCCode == [a |-> 97, b |-> 98] @@
  (" " :> 32) @@ ("/" :> 47) @@ ("%" :> 37) @@ ("+" :> 43) @@ ("." :> 46) @@ ("0" :> 48) @@
  ("\t" :> 9) @@ ("e acute" :> -23) @@ ("y diaeresis" :> -1)

MCNumber == ("0" :> 0) @@ ("1" :> 1) @@ ("2" :> 2) @@ ("3" :> 3) @@ ("80" :> 80) @@
  ("443" :> 443) @@ ("65616" :> 65616) @@ ("25" :> 25) @@ ("110" :> 110) @@ ("143" :> 143) @@
  ("5671" :> 5671) @@ ("5672" :> 5672)

MCCharacter == DOMAIN MCNumber \cup
  {"u", "w", "h", "g", "a", "b", "q", "x", "f", "/", ":", "@", "?", "#"}

(* URIs: with and without each part, and parts that look like another. *)
UriOf(scheme, user, port, path, query, fragment) ==
  [scheme |-> scheme, user |-> user, password |-> IF user = <<>> THEN <<>> ELSE <<"w">>,
   host |-> <<"h">>, port |-> port, path |-> path, query |-> query, fragment |-> fragment]

Uris ==
  {UriOf(scheme, user, port, path, query, fragment) :
     scheme \in {"http", "https", "HTTPS"}, user \in {<<>>, <<"u">>},
     port \in {<<>>, <<"80">>, <<"443">>, <<"65616">>},
     path \in {<<>>, <<"/">>, <<"/", "a", ":", "b">>, <<"/", "a", "@", "b">>},
     query \in {<<>>, <<"q">>, <<"/", "?", ":", "@", "x">>},
     fragment \in {<<>>, <<"f", "#", "?">>}}

Simple(scheme) == UriOf(scheme, <<>>, <<>>, <<"/">>, <<>>, <<>>)
Other == [Simple("http") EXCEPT !.host = <<"g">>]

Params == {<<"a">>} \X {<<"a", "%", "+">>, <<"a", "/", " ">>, <<"\t">>, <<"e acute", "b">>}

Setters ==
  [op : {"add_header", "set_header"}, name : {<<"c", "-", "L">>}, text : {<<"3">>}] \cup
  [op : {"body", "append_body"}, name : {<<>>}, text : {<<>>, <<"x", "y">>}]

(* Answers of every kind, the body in one piece, in several, or empty. *)
Answers ==
  [status : {"2"}, lines : {<<>>, << <<"c", ":", "close">> >>},
   kind : {"length", "chunked", "both", "trailer", "none"},
   pieces : {<<>>, << <<"x", "\r">>, <<"\n">> >>}]

Ok == [status |-> "2", lines |-> <<>>, kind |-> "length", pieces |-> << <<"x">> >>]

(* Statuses that are no number or too large, a header line without a name, *)
(* and a value to be trimmed. *)
OddAnswers ==
  {[Ok EXCEPT !.status = s] : s \in {"x", "65616"}} \cup
  {[Ok EXCEPT !.lines = <<l>>] : l \in {<<"x">>, <<"c", ":", "\t", "close", " ">>}}

Plainly == [uri |-> Simple("http"), param |-> <<>>, setters |-> <<>>, method |-> "GET",
            answer |-> Ok, parts |-> FALSE]

MCWork == <<
  {[Plainly EXCEPT !.uri = u] : u \in Uris} \cup
  {[Plainly EXCEPT !.uri.query = q, !.param = p] : q \in {<<>>, <<"q">>}, p \in Params} \cup
  {[Plainly EXCEPT !.setters = f] : f \in UNION {[1..n -> Setters] : n \in 1..3}} \cup
  {[Plainly EXCEPT !.answer = a, !.method = m, !.parts = TRUE] : a \in Answers \cup OddAnswers, m \in {"GET", "HEAD"}},
  {[Plainly EXCEPT !.uri = u] : u \in {Simple("http"), Simple("https"), Other}} >>
=============================================================================
