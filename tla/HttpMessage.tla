---------------------------- MODULE HttpMessage ----------------------------
(***************************************************************************)
(* What requests and responses have in common (net::http::message): the    *)
(* headers, the body, and a message taken apart and put together as text.  *)
(***************************************************************************)
EXTENDS HttpHeader, Uri

NewLine == <<"\r", "\n">>

(* Where the first line end at or after b is, or past the end.             *)
LineEnd(s, b) ==
  IF \E i \in b..Len(s) - 1 : s[i] = "\r" /\ s[i + 1] = "\n"
    THEN CHOOSE i \in b..Len(s) - 1 :
           s[i] = "\r" /\ s[i + 1] = "\n" /\ \A j \in b..i - 1 : SubSeq(s, j, j + 1) # NewLine
    ELSE Len(s) + 1

(* boost::algorithm::trim, which takes all white space.                    *)
WhiteSpace == {Space, "\t", "\n", "\f", "\r"}

Trim(s) ==
  LET solid == {i \in 1..Len(s) : s[i] \notin WhiteSpace}
  IN IF solid = {} THEN <<>> ELSE SubSeq(s, Min(solid), Max(solid))

-----------------------------------------------------------------------------
(* Headers: the first one that matches counts.                             *)
Matching(hs, k) == {i \in 1..Len(hs) : Matches(hs[i], k)}

HaveHeader(hs, k) == Matching(hs, k) # {}

HeaderValue(hs, k) == hs[Min(Matching(hs, k))].value

AddHeader(hs, k, v) == Append(hs, Header(k, v))

SetHeader(hs, k, v) ==
  IF HaveHeader(hs, k) THEN [hs EXCEPT ![Min(Matching(hs, k))].value = v]
                       ELSE AddHeader(hs, k, v)

(* message::body(in) announces the length, append_body(in) does not.       *)
BodyUnsetMutant(m, b) ==
  [m EXCEPT !.body = b,
            !.headers = AddHeader(@, <<"C", "-", "L">>, <<Numeral(Len(b))>>)]

Body(m, b) ==
  [m EXCEPT !.body = b,
            !.headers = SetHeader(@, <<"C", "-", "L">>, <<Numeral(Len(b))>>)]

AppendBody(m, b) == [m EXCEPT !.body = @ \o b]

-----------------------------------------------------------------------------
(* message::parse_header_line: the name ends at the first colon. A line    *)
(* without one has no name: the function throws.                           *)
HasName(line) == \E i \in 1..Len(line) : line[i] = ":"

ParseHeaderLine(line) ==
  LET colon == Find(line, {":"}, 1)
  IN Header(SubSeq(line, 1, colon - 1), Trim(SubSeq(line, colon + 1, Len(line))))

(* message::parse_data: the lines of a text up to the first empty one, the *)
(* initial line first.                                                     *)
Lines(s) ==
  LET from[b \in 1..Len(s) + 3] ==
        IF LineEnd(s, b) <= b THEN <<>>
        ELSE <<SubSeq(s, b, LineEnd(s, b) - 1)>> \o from[LineEnd(s, b) + 2]
  IN from[1]

ParsedHeaders(lines) == [i \in 1..Len(lines) |-> ParseHeaderLine(lines[i])]

(* A line of three parts, the last of which may have spaces of its own.    *)
Parts(line) ==
  LET first == Find(line, {Space}, 1)
      second == Find(line, {Space}, first + 1)
  IN <<SubSeq(line, 1, first - 1), SubSeq(line, first + 1, second - 1),
       SubSeq(line, second + 1, Len(line))>>

(* The headers as request::bytes prints them, and an empty line.           *)
HeaderBytes(hs) ==
  FlattenSeq([i \in 1..Len(hs) |-> hs[i].key \o <<":", Space>> \o hs[i].value \o NewLine])
    \o NewLine
=============================================================================
