---------------------------- MODULE HttpExchange ----------------------------
(***************************************************************************)
(* What is said over HTTP, request by request: a caller writes a URI and   *)
(* makes a request of it, the client finds the pool of its endpoint, the   *)
(* server hears the request and answers, and the connection reads the      *)
(* answer piece by piece into the response. An attempt that fails may be   *)
(* tried again with the same response, on another connection.              *)
(*                                                                         *)
(* HttpClient has the pool, the connections and the timers in full and     *)
(* leaves out what is said; here the caller makes one request at a time    *)
(* and a connection that fails has nothing left to report.                 *)
(***************************************************************************)
EXTENDS HttpMessage

CONSTANTS
  Character,       \* what the parts of a URI are made of
  Work,            \* Work[n]: what the n-th request may be, a set of records:
                   \* the parts of a uri, a param for its query (or <<>>), the
                   \* calls of setters, the method, the answer, and whether
                   \* that may arrive in parts
  MaxConnections,  \* what max_connections may be set to
  MaxRetry         \* bound: retries, per request

ASSUME CharactersOfUris ==
  /\ {":", "/", "@", "?", "#"} \cup DOMAIN Number \subseteq Character
  /\ WhiteSpace \cap Character = {}

(* What separates headers is no letter, and those of their names that the  *)
(* code knows have their capitals.                                         *)
ASSUME LettersOfNames ==
  /\ \A c \in DOMAIN Capital : {c, Capital[c]} \cap {":", Space, "\r", "\n"} = {}
  /\ \A p \in {<<"c", "C">>, <<"l", "L">>, <<"t", "T">>, <<"e", "E">>, <<"h", "H">>} :
       p[1] \in DOMAIN Capital /\ Capital[p[1]] = p[2]

(* What a caller writes has its parts from the syntax of a URI, each of    *)
(* them free of the characters that end it.                                *)
Text == Seq(Character)
Free(s, C) == \A i \in 1..Len(s) : s[i] \notin C

WellFormed(c) ==
  /\ c \in [scheme : STRING, user : Text, password : Text, host : Text, port : Text,
             path : Text, query : Text, fragment : Text]
  /\ Free(c.user, {":"}) /\ Free(c.password, {"@"})
  /\ c.user = <<>> => c.password = <<>>
  /\ Free(c.host, {":", "/"}) /\ c.host # <<>>
  /\ c.port # <<>> => \E d \in DOMAIN Number : c.port = <<d>>
  /\ Free(c.path, {"?", "#"}) /\ (c.path # <<>> => c.path[1] = "/")
  /\ Free(c.query, {"#"})

(* What goes into a header is one line, and its value has no white space   *)
(* at its beginning and none at its end; characters have codes, and        *)
(* lengths can be written.                                                 *)
IsText(x) == Len(x) \in Nat /\ x = [i \in 1..Len(x) |-> x[i]]
OneLine(x) == IsText(x) /\ Free(x, {"\r", "\n"})

WellSet(f) ==
  /\ IsText(f.text)
  /\ f.op \in {"add_header", "set_header"} =>
       OneLine(f.name) /\ Free(f.name, {":"}) /\ OneLine(f.text) /\ Trim(f.text) = f.text
  /\ f.op = "body" => \E d \in DOMAIN Number : Number[d] = Len(f.text)

ASSUME WorkWellFormed ==
  /\ Len(Work) \in Nat
  /\ \A n \in 1..Len(Work) : \A w \in Work[n] :
       /\ WellFormed(w.uri)
       /\ w.param # <<>> => {w.param[1], w.param[2]} \subseteq Seq(DOMAIN Code)
       /\ Len(w.setters) \in Nat /\ \A i \in 1..Len(w.setters) : WellSet(w.setters[i])
       /\ w.method \notin {Space, "\r", "\n"}

(* What a server answers: pieces of a body that are not empty, and header  *)
(* lines of its own that are not empty either and do not tell how long the *)
(* body is.                                                                *)
WellAnswer(a) ==
  /\ a.status \notin {Space, "\r", "\n"}
  /\ IsText(a.lines)
  /\ \A i \in 1..Len(a.lines) :
       /\ OneLine(a.lines[i]) /\ a.lines[i] # <<>>
       /\ \A k \in {<<"C", "-", "L">>, <<"T", "-", "E">>} : ~Matches(ParseHeaderLine(a.lines[i]), k)
  /\ IsText(a.pieces)
  /\ \A i \in 1..Len(a.pieces) :
       /\ IsText(a.pieces[i]) /\ a.pieces[i] # <<>>
       /\ \E d \in DOMAIN Number : Number[d] = Len(a.pieces[i])
  /\ \E d \in DOMAIN Number : Number[d] = Len(FlattenSeq(a.pieces))

ASSUME AnswersWellFormed ==
  /\ \A n \in 1..Len(Work) : \A w \in Work[n] : WellAnswer(w.answer)
  /\ "0" \in DOMAIN Number /\ Number["0"] = 0

VARIABLES
  stage,       \* how far the present request is
  requests,    \* the number of requests made
  asked,       \* what the present one is to be, one of Work[requests]
  uri,         \* the URI as the client understands it
  added,       \* whether the parameter has been added to its query
  req,         \* the request
  calls,       \* the number of setters called
  attempt,
  limits,      \* max_connections_ and limit_connections_ of the client
  endpoints,   \* endpoints_: the limits of each pool
  sentTo,      \* whom requests were for, and the pool they went to
  conn,        \* the pool of the present connection
  clean,       \* whether all answers on it were of a kind the client reads
  heard,       \* the request as the server hears it
  net,         \* what the server has sent and the connection not yet read
  in,          \* in_
  phase,       \* what the connection waits to read
  expected,    \* expected_bytes_
  chunked,     \* transfer_mode_
  res          \* the response

askVars == <<requests, asked, uri, added, req, calls>>
poolVars == <<limits, endpoints, sentTo>>
connVars == <<conn, clean, net, in, phase, expected, chunked>>
vars == <<stage, askVars, attempt, poolVars, connVars, heard, res>>

Empty == [version |-> <<>>, headers |-> <<>>, body |-> <<>>, status |-> 0, message |-> <<>>]

NoRequest == [method |-> <<>>, path |-> <<>>, version |-> <<>>, headers |-> <<>>, body |-> <<>>]

Init ==
  /\ stage = "idle"
  /\ requests = 0
  /\ asked = <<>> /\ uri = <<>> /\ added = FALSE
  /\ req = NoRequest
  /\ calls = 0
  /\ attempt = 0
  /\ limits = [max |-> 8, limit |-> TRUE]
  /\ endpoints = <<>> /\ sentTo = {}
  /\ conn = <<>> /\ clean = TRUE
  /\ heard = <<>>
  /\ net = <<>> /\ in = <<>>
  /\ phase = "closed" /\ expected = 0 /\ chunked = FALSE
  /\ res = Empty

-----------------------------------------------------------------------------
(* The caller.                                                             *)

(* A URI as it is written, from its parts.                                 *)
Written(c) ==
  (IF c.user = <<>> THEN <<>> ELSE c.user \o <<":">> \o c.password \o <<"@">>)
    \o c.host \o (IF c.port = <<>> THEN <<>> ELSE <<":">> \o c.port) \o c.path
    \o (IF c.query = <<>> THEN <<>> ELSE <<"?">> \o c.query)
    \o (IF c.fragment = <<>> THEN <<>> ELSE <<"#">> \o c.fragment)

WriteUri ==
  /\ stage = "idle" /\ requests < Len(Work)
  /\ requests' = requests + 1
  /\ \E w \in Work[requests + 1] :
       /\ asked' = w
       /\ LET text == Written(w.uri)
          IN IF Parses(w.uri.scheme, text)
               THEN stage' = "uri" /\ uri' = Parse(w.uri.scheme, text)
               ELSE stage' = "refused" /\ UNCHANGED uri
  /\ UNCHANGED <<added, req, calls, attempt, poolVars, connVars, heard, res>>

AddParam ==
  /\ stage = "uri" /\ asked.param # <<>> /\ ~added
  /\ added' = TRUE
  /\ uri' = AddQuery(uri, asked.param[1], asked.param[2])
  /\ UNCHANGED <<stage, requests, asked, req, calls, attempt, poolVars, connVars, heard, res>>

(* request(uri)                                                            *)
NewRequestBareMutant(u) ==
  [NoRequest EXCEPT !.path = u.path \o (IF u.query = <<>> THEN <<>> ELSE <<"?">> \o u.query),
                    !.version = <<"HTTP/1.1">>,
                    !.headers = AddHeader(<<>>, <<"H">>, u.host)]

NewRequest(u) ==
  [NoRequest EXCEPT !.path = (IF u.path = <<>> THEN <<"/">> ELSE u.path)
                               \o (IF u.query = <<>> THEN <<>> ELSE <<"?">> \o u.query),
                    !.version = <<"HTTP/1.1">>,
                    !.headers = AddHeader(<<>>, <<"H">>, u.host)]

MakeRequest ==
  /\ stage = "uri" /\ (asked.param = <<>> \/ added)
  /\ stage' = "request"
  /\ req' = NewRequest(uri)
  /\ UNCHANGED <<requests, asked, uri, added, calls, attempt, poolVars, connVars, heard, res>>

(* The next setter to be called is op.                                     *)
Setter == asked.setters[calls + 1]
CallSetter(op) ==
  /\ stage = "request"
  /\ calls < Len(asked.setters) /\ Setter.op = op
  /\ calls' = calls + 1
  /\ UNCHANGED <<stage, requests, asked, uri, added, attempt, poolVars, connVars, heard, res>>

CallAddHeader ==
  /\ CallSetter("add_header")
  /\ req' = [req EXCEPT !.headers = AddHeader(@, Setter.name, Setter.text)]

CallSetHeader ==
  /\ CallSetter("set_header")
  /\ req' = [req EXCEPT !.headers = SetHeader(@, Setter.name, Setter.text)]

CallBody == CallSetter("body") /\ req' = Body(req, Setter.text)

CallAppendBody == CallSetter("append_body") /\ req' = AppendBody(req, Setter.text)

-----------------------------------------------------------------------------
(* The client.                                                             *)

(* details(uri) and details::string()                                      *)
Details(u) == [tls |-> u.scheme = "https", host |-> u.host, port |-> u.port]
KeyPlainMutant(d) == d.host \o <<":", Numeral(d.port)>>
Key(d) ==
  <<IF d.tls THEN "https://" ELSE "http://">> \o d.host \o <<":", Numeral(d.port)>>

(* client::max_connections(n), client::limit_connections(limit). The bound *)
(* on their calls: between the first request and the second.               *)
SetLimits(l) ==
  /\ limits' = l
  /\ endpoints' = [k \in DOMAIN endpoints |-> l]
  /\ UNCHANGED <<stage, askVars, attempt, sentTo, connVars, heard, res>>

SetMaxConnections(n) == requests = 1 /\ stage = "idle" /\ SetLimits([limits EXCEPT !.max = n])
SetLimitConnections(on) == requests = 1 /\ stage = "idle" /\ SetLimits([limits EXCEPT !.limit = on])

(* A connection to write to: the present one, if it is open and of the     *)
(* pool, or a new one, which waits for a status line at once.              *)
Connect(key) ==
  /\ conn' = key
  /\ IF conn = key /\ phase # "closed"
       THEN UNCHANGED <<clean, net, in, phase, expected, chunked>>
       ELSE /\ clean' = TRUE /\ net' = <<>> /\ in' = <<>> /\ phase' = "status"
            /\ expected' = 0 /\ chunked' = FALSE

(* client::GET and the others, client::request and endpoint_for.           *)
Request ==
  LET key == Key(Details(uri))
  IN /\ stage = "request" /\ calls = Len(asked.setters)
     /\ stage' = "sent"
     /\ req' = [req EXCEPT !.method = <<asked.method>>]
     /\ endpoints' = [k \in DOMAIN endpoints \cup {key} |->
                       IF k \in DOMAIN endpoints THEN endpoints[k] ELSE limits]
     /\ sentTo' = sentTo \cup {<<Details(uri), key>>}
     /\ res' = Empty
     /\ Connect(key)
     /\ UNCHANGED <<requests, asked, uri, added, calls, attempt, limits, heard>>

(* response::reset(): the status line is not cleared, but read again.      *)
ResetKeepsBodyMutant(r) == [r EXCEPT !.headers = <<>>, !.version = <<>>]
Reset(r) == [r EXCEPT !.headers = <<>>, !.version = <<>>, !.body = <<>>]

Retry ==
  /\ stage = "failed"
  /\ attempt < MaxRetry
  /\ attempt' = attempt + 1
  /\ stage' = "sent"
  /\ res' = Reset(res)
  /\ Connect(conn)
  /\ UNCHANGED <<askVars, poolVars, heard>>

(* The caller is done with a request.                                      *)
Finish ==
  /\ stage \in {"refused", "done", "failed", "untold"}
  /\ stage' = "idle"
  /\ asked' = <<>> /\ uri' = <<>> /\ added' = FALSE
  /\ req' = NoRequest
  /\ calls' = 0
  /\ attempt' = 0
  /\ heard' = <<>>
  /\ res' = Empty
  /\ UNCHANGED <<requests, poolVars, connVars>>

-----------------------------------------------------------------------------
(* The server.                                                             *)

RequestBytes(r) ==
  r.method \o <<Space>> \o r.path \o <<Space>> \o r.version \o NewLine
    \o HeaderBytes(r.headers) \o r.body

(* It hears what request::parse_data makes of the bytes.                   *)
Hear ==
  /\ stage = "sent"
  /\ stage' = "heard"
  /\ \E text \in {RequestBytes(req)} : \E lines \in {Lines(text)} :
       LET line == Parts(lines[1])
       IN heard' = [method |-> line[1], path |-> line[2], version |-> line[3],
                    headers |-> ParsedHeaders(Tail(lines))]
  /\ UNCHANGED <<askVars, attempt, poolVars, connVars, res>>

(* The header lines of an answer, its own and those that tell how long the *)
(* body is, spelled as a server may.                                       *)
AnswerLines(a) ==
  a.lines \o
    (IF a.kind \in {"length", "both"}
       THEN << <<"c", "-", "l", ":", Numeral(Len(FlattenSeq(a.pieces)))>> >> ELSE <<>>) \o
    (IF a.kind \in {"chunked", "trailer", "both"}
       THEN << <<"T", "-", "e", ":", Space, "chunked", Space>> >> ELSE <<>>)

(* The body: as it is, or each piece as a chunk.                           *)
AnswerBody(a) ==
  IF a.kind \in {"length", "none"} THEN FlattenSeq(a.pieces)
  ELSE FlattenSeq([i \in 1..Len(a.pieces) |->
                     <<Numeral(Len(a.pieces[i]))>> \o NewLine \o a.pieces[i] \o NewLine])
         \o <<"0">> \o NewLine
         \o (IF a.kind = "trailer" THEN <<"t", ":", "x">> \o NewLine ELSE <<>>) \o NewLine

AnswerBytes(a) ==
  <<"HTTP/1.1", Space, a.status, Space, "all", Space, "right">> \o NewLine
    \o FlattenSeq([i \in 1..Len(AnswerLines(a)) |-> AnswerLines(a)[i] \o NewLine]) \o NewLine
    \o (IF heard.method = <<"HEAD">> THEN <<>> ELSE AnswerBody(a))

(* The answers the client can read: a status of 16 bits, header lines that *)
(* have a name, a length or chunks, but not both, no header lines after    *)
(* the chunks, and nothing left out after HEAD.                            *)
Readable(a) ==
  /\ a.status \in DOMAIN Number /\ Number[a.status] < 65536
  /\ \A i \in 1..Len(a.lines) : HasName(a.lines[i])
  /\ a.kind \in {"length", "chunked"}
  /\ heard.method = <<"HEAD">> => a.kind = "length" /\ FlattenSeq(a.pieces) = <<>>

Answer ==
  /\ stage = "heard"
  /\ stage' = "answered"
  /\ net' = net \o AnswerBytes(asked.answer)
  /\ clean' = (clean /\ Readable(asked.answer))
  /\ UNCHANGED <<askVars, attempt, poolVars, conn, in, phase, expected, chunked, heard, res>>

-----------------------------------------------------------------------------
(* The connection.                                                         *)

HasLine == LineEnd(in, 1) <= Len(in)
Line == SubSeq(in, 1, LineEnd(in, 1) - 1)
TakeLine == in' = SubSeq(in, LineEnd(in, 1) + 2, Len(in))

(* What read(wanted) waits for.                                            *)
Wanted == IF phase = "chunk" THEN expected + 2 ELSE expected

(* Some of what the server has sent comes into in_, or all of it that is   *)
(* wanted: a read_delimited may go past the line it waits for, a read      *)
(* stops at what it lacks.                                                 *)
MostButOneMutant ==
  Min({Len(net), IF phase \in {"chunk", "body"} THEN Wanted - Len(in) - 1 ELSE Len(net)})

Most == Min({Len(net), IF phase \in {"chunk", "body"} THEN Wanted - Len(in) ELSE Len(net)})

Receive(n) ==
  /\ \/ phase \in {"status", "header", "size", "last"} /\ ~HasLine
     \/ phase \in {"chunk", "body"} /\ Len(in) < Wanted
  /\ n \in 1..Most
  /\ n < Most => asked # <<>> /\ asked.parts
  /\ in' = in \o SubSeq(net, 1, n)
  /\ net' = SubSeq(net, n + 1, Len(net))
  /\ UNCHANGED <<stage, askVars, attempt, poolVars, conn, clean, phase, expected, chunked,
                 heard, res>>

(* res_ is set, from write_request to the end of the body.                 *)
HasResponse == stage \in {"sent", "heard", "answered"}

(* A line has been read in phase p.                                        *)
ReadLine(p) ==
  /\ phase = p /\ HasLine
  /\ TakeLine
  /\ UNCHANGED <<askVars, attempt, poolVars, conn, clean, net, heard>>

(* response::parse_initial_line: the version ends at the first space, the  *)
(* status at the second. It throws when one is missing, or std::stoi does  *)
(* when the status does not begin with a number, or with none of an int.   *)
(* The response keeps 16 bits of it.                                       *)
MaxInt == 2147483647

HasVersion(line) == Find(line, {Space}, 1) <= Len(line)

HasStatus(line) ==
  /\ HasVersion(line) /\ Find(line, {Space}, Find(line, {Space}, 1) + 1) <= Len(line)
  /\ Parts(line)[2] # <<>> /\ Parts(line)[2][1] \in DOMAIN Number
  /\ Number[Parts(line)[2][1]] <= MaxInt

WithStatusLine(r, line) ==
  LET parts == Parts(line)
  IN [r EXCEPT !.version = parts[1], !.status = Number[parts[2][1]] % 65536,
               !.message = parts[3]]

(* What is thrown while a line is parsed is caught by no handler. Whatever *)
(* the future that called it makes of that, the connection is stuck: it    *)
(* reads no more, and the stall timer is left to fail the response.        *)
StatusLine ==
  /\ ReadLine("status")
  /\ HasResponse
  /\ IF HasStatus(Line)
       THEN phase' = "header" /\ res' = WithStatusLine(res, Line)
       ELSE /\ phase' = "stuck"
            /\ res' = IF HasVersion(Line) THEN [res EXCEPT !.version = Parts(Line)[1]] ELSE res
  /\ UNCHANGED <<stage, expected, chunked>>

StrayLine ==
  /\ ReadLine("status")
  /\ ~HasResponse
  /\ phase' = "closed"
  /\ UNCHANGED <<stage, expected, chunked, res>>

HeaderLine ==
  /\ ReadLine("header")
  /\ Line # <<>>
  /\ IF HasName(Line)
       THEN /\ res' = [res EXCEPT !.headers = Append(@, ParseHeaderLine(Line))]
            /\ UNCHANGED phase
       ELSE phase' = "stuck" /\ UNCHANGED res
  /\ UNCHANGED <<stage, expected, chunked>>

(* The empty line after the headers: Content-Length if it is there, or     *)
(* Transfer-Encoding, or the response fails.                               *)
HeadersEnd ==
  /\ ReadLine("header")
  /\ Line = <<>>
  /\ IF HaveHeader(res.headers, <<"C", "-", "L">>)
       THEN /\ expected' = Number[HeaderValue(res.headers, <<"C", "-", "L">>)[1]]
            /\ chunked' = FALSE /\ phase' = "body" /\ UNCHANGED stage
     ELSE IF /\ HaveHeader(res.headers, <<"T", "-", "E">>)
             /\ \E i \in 1..Len(HeaderValue(res.headers, <<"T", "-", "E">>)) :
                  HeaderValue(res.headers, <<"T", "-", "E">>)[i] = "chunked"
       THEN /\ expected' = 0
            /\ chunked' = TRUE /\ phase' = "size" /\ UNCHANGED stage
       ELSE phase' = "closed" /\ stage' = "failed" /\ UNCHANGED <<expected, chunked>>
  /\ UNCHANGED res

ChunkSize ==
  /\ ReadLine("size")
  /\ LET size == Number[Line[1]]
     IN IF size > 0 THEN expected' = size /\ phase' = "chunk"
                    ELSE phase' = "last" /\ UNCHANGED expected
  /\ UNCHANGED <<stage, chunked, res>>

(* The chunk and the two characters after it.                              *)
ChunkData ==
  /\ phase = "chunk" /\ Len(in) >= Wanted
  /\ in' = SubSeq(in, Wanted + 1, Len(in))
  /\ res' = AppendBody(res, SubSeq(in, 1, Wanted - 2))
  /\ phase' = "size"
  /\ UNCHANGED <<stage, askVars, attempt, poolVars, conn, clean, net, heard, expected, chunked>>

(* extract_next_body_chunk(data): the response is done, and the next one   *)
(* is waited for unless the server wants to close.                         *)
Extract(data) ==
  LET r == IF chunked THEN res ELSE Body(res, data)
      closing == /\ HaveHeader(r.headers, <<"C">>)
                 /\ HeaderValue(r.headers, <<"C">>) = <<"close">>
  IN /\ res' = r
     /\ stage' = "done"
     /\ phase' = IF closing THEN "closed" ELSE "status"

LastLine == ReadLine("last") /\ Extract(<<>>) /\ UNCHANGED <<expected, chunked>>

ReadBody ==
  /\ phase = "body" /\ Len(in) >= Wanted
  /\ in' = SubSeq(in, Wanted + 1, Len(in))
  /\ Extract(SubSeq(in, 1, Wanted))
  /\ UNCHANGED <<askVars, attempt, poolVars, conn, clean, net, heard, expected, chunked>>

(* The connection is lost or the stall timer expires: close(), and the     *)
(* response fails, unless the read that was lost tells nobody.             *)
Fail ==
  /\ HasResponse
  /\ phase' = "closed" /\ in' = <<>> /\ net' = <<>>
  /\ \/ stage' = "failed"
     \/ phase \in {"size", "last"} /\ stage' = "untold"
  /\ UNCHANGED <<askVars, attempt, poolVars, conn, clean, expected, chunked, heard, res>>

-----------------------------------------------------------------------------
Caller ==
  \/ WriteUri
  \/ AddParam
  \/ MakeRequest
  \/ CallAddHeader
  \/ CallSetHeader
  \/ CallBody
  \/ CallAppendBody
  \/ \E n \in MaxConnections : SetMaxConnections(n)
  \/ \E on \in BOOLEAN : SetLimitConnections(on)
  \/ Request
  \/ Retry
  \/ Finish

Server == Hear \/ Answer

Receiving == \E n \in 1..Len(net) : Receive(n)

Read ==
  \/ StatusLine
  \/ StrayLine
  \/ HeaderLine
  \/ HeadersEnd
  \/ ChunkSize
  \/ ChunkData
  \/ LastLine
  \/ ReadBody

Next ==
  \/ Caller
  \/ Server
  \/ Receiving
  \/ Read
  \/ Fail

(* The server answers what it hears, and what it sends arrives.            *)
Spec ==
  /\ Init /\ [][Next]_vars
  /\ WF_vars(Server)
  /\ WF_vars(Receiving)
  /\ WF_vars(Read)

-----------------------------------------------------------------------------
(* Properties.                                                             *)

PortOf(c) == IF c.port = <<>> THEN DefaultPort[c.scheme] ELSE Number[c.port[1]]

(* The URIs whose parts the expression tells apart. In the others a ":"    *)
(* and an "@" further on pass for a user and a password, a "?" or "#" next *)
(* to the host passes for a part of it, a port is truncated, or a known    *)
(* scheme is written in capitals.                                          *)
Plain(c) ==
  /\ c.user = <<>> => ~ \E i, j \in 1..Len(Written(c)) :
                           i < j /\ Written(c)[i] = ":" /\ Written(c)[j] = "@"
  /\ c.path = <<>> /\ c.port = <<>> => c.query = <<>> /\ c.fragment = <<>>
  /\ c.scheme \in DOMAIN DefaultPort
  /\ PortOf(c) < 65536

(* A plain URI is taken apart into what it was made of, and what string()  *)
(* makes of that names the same resource again, where it is plain without  *)
(* its user and its default port.                                          *)
UriUnderstood ==
  stage \in {"uri", "refused"} /\ ~added /\ Plain(asked.uri) =>
    LET c == asked.uri
        short == [c EXCEPT !.user = <<>>, !.password = <<>>, !.fragment = <<>>,
                           !.port = IF IsDefaultPort(uri) THEN <<>> ELSE @]
    IN /\ stage = "uri"
       /\ uri = [c EXCEPT !.port = PortOf(c)]
       /\ Plain(short) => Parse(c.scheme, UriString(uri)) = [short EXCEPT !.port = uri.port]

(* The lowest code in a text.                                              *)
LowestCode(s) == Min({Code[s[i]] : i \in 1..Len(s)} \cup {127})

(* What uri::encoded makes of a text is decoded to it if, and only if, all *)
(* of it is ASCII; query::escape is also broken up by control characters,  *)
(* whose first digit is a space. A server understands the others.          *)
ParamUnderstood ==
  added =>
    LET v == asked.param[2]
    IN /\ LowestCode(v) >= 0 <=> Decoded(Encoded(v)) = v
       /\ stage = "heard" /\ LowestCode(asked.param[1] \o v) >= 16 =>
            LET last == Max({i \in 1..Len(heard.path) : heard.path[i] = "="})
            IN Decoded(SubSeq(heard.path, last + 1, Len(heard.path))) = v

(* The call of a setter for the header of some name.                       *)
Names(f, op, name) == f.op = op /\ SameName(f.name, name)

(* A server hears what the URI asks for: the path, the query with what was *)
(* added to it and nothing of the user or the fragment; the host, unless   *)
(* the caller sets another; and the headers as they were given.            *)
RequestHeard ==
  /\ stage = "heard" /\ Plain(asked.uri)
  /\ added => LowestCode(asked.param[1] \o asked.param[2]) >= 16
  =>
    LET c == asked.uri
        more == IF added THEN Escape(asked.param[1]) \o <<"=">> \o Escape(asked.param[2]) ELSE <<>>
        query == c.query \o (IF c.query = <<>> \/ more = <<>> THEN <<>> ELSE <<"&">>) \o more
    IN /\ heard.path = (IF c.path = <<>> THEN <<"/">> ELSE c.path)
                          \o (IF query = <<>> THEN <<>> ELSE <<"?">> \o query)
       /\ heard.method = <<asked.method>>
       /\ (\A i \in 1..Len(asked.setters) : ~Names(asked.setters[i], "set_header", <<"h">>)) =>
            HeaderValue(heard.headers, <<"h">>) = c.host
       /\ heard.headers = req.headers

OfLength(f) ==
  \/ f.op \in {"body", "append_body"}
  \/ \E op \in {"add_header", "set_header"} : Names(f, op, <<"c", "-", "l">>)

(* The length a server goes by is that of the body, if the last call that  *)
(* had to do with it was body(): neither headers set before nor an earlier *)
(* body() get in the way.                                                  *)
LengthAnnounced ==
  stage = "heard" =>
    \A i \in 1..Len(asked.setters) :
      /\ asked.setters[i].op = "body"
      /\ \A j \in i + 1..Len(asked.setters) : ~OfLength(asked.setters[j])
      => Number[HeaderValue(heard.headers, <<"c", "-", "l">>)[1]] = Len(req.body)

(* Two requests go to the same pool just when their hosts, ports and use   *)
(* of TLS are the same, a plain URI to that of its own endpoint, and the   *)
(* pools have the limits of the client, whenever those are set.            *)
OwnPool ==
  /\ \A k \in DOMAIN endpoints : endpoints[k] = limits
  /\ \A s, t \in sentTo : s[1] = t[1] <=> s[2] = t[2]
  /\ HasResponse /\ Plain(asked.uri) =>
       LET c == asked.uri
       IN <<[tls |-> c.scheme = "https", host |-> c.host, port |-> PortOf(c)], conn>> \in sentTo

(* A response has what the server said, all of it, and nothing of an       *)
(* earlier attempt or answer; and the connection has read all of it, so    *)
(* that the next answer will be read from its beginning. This holds while  *)
(* the server sends what the client can read.                              *)
AnswerRead ==
  stage = "done" /\ clean =>
    LET a == asked.answer
    IN /\ res = [version |-> <<"HTTP/1.1">>, status |-> Number[a.status],
                 message |-> <<"all", Space, "right">>, body |-> FlattenSeq(a.pieces),
                 headers |-> ParsedHeaders(AnswerLines(a))]
       /\ phase = "status" => in = <<>> /\ net = <<>>

(* Such an answer is read to its end, however it is cut up on its way, or  *)
(* the connection fails.                                                   *)
EveryAnswerRead == (stage = "answered" /\ clean) ~> stage \in {"done", "failed", "untold"}
=============================================================================
