-------------------------------- MODULE Uri --------------------------------
(***************************************************************************)
(* URIs (net::http::uri): how one is taken apart and put together again,   *)
(* and how the characters of a query are escaped.                          *)
(*                                                                         *)
(* A text is a sequence of characters; a run of digits counts as one, and  *)
(* so does a word nothing looks into. The scheme stands by itself, what    *)
(* follows "://" is the text.                                              *)
(***************************************************************************)
EXTENDS Integers, SequencesExt, FiniteSetsExt

CONSTANTS
  Code,     \* the code of each character a query may hold, a signed char
  Number    \* the value of each run of digits

ASSUME CharactersCoded ==
  /\ \A c \in DOMAIN Code : Code[c] \in -128..127
  /\ \A c, d \in DOMAIN Code : Code[c] = Code[d] => c = d
  /\ \A d \in DOMAIN Number : Number[d] \in Nat

DefaultPort == [amqp |-> 5672, amqps |-> 5671, http |-> 80, https |-> 443,
                imap |-> 143, pop3 |-> 110, smtp |-> 25]

(* The port a number stands for can be written, and no run of digits is    *)
(* one of the characters between the parts of a URI.                       *)
ASSUME PortsCanBeWritten ==
  /\ \A scheme \in DOMAIN DefaultPort :
       \E d \in DOMAIN Number : Number[d] = DefaultPort[scheme]
  /\ \A d \in DOMAIN Number : \E e \in DOMAIN Number : Number[e] = Number[d] % 65536
  /\ {":", "@"} \cap DOMAIN Number = {}

Space == " "

(* The characters that mean something have their ASCII codes.              *)
ASSUME SeparatorsCoded ==
  \A p \in {<<"\n", 10>>, <<"\r", 13>>, <<Space, 32>>, <<"%", 37>>, <<"+", 43>>, <<"=", 61>>} :
    p[1] \in DOMAIN Code => Code[p[1]] = p[2]

(* Each definition whose name ends in Mutant is the one after it with a    *)
(* plausible slip; the checks make sure that a property notices it.        *)

(* The first place at or after b with a character of C, or past the end.   *)
Find(s, C, b) == Min({i \in b..Len(s) : s[i] \in C} \cup {Len(s) + 1})

Is(s, i, C) == i \in 1..Len(s) /\ s[i] \in C

Numeral(n) == CHOOSE d \in DOMAIN Number : Number[d] = n

-----------------------------------------------------------------------------
(* The parts of the expression that follow a host which ends before h:     *)
(* where its port, its path and its query end.                             *)
EndsNoPortMutant(s, h) ==
  LET path == IF Is(s, h, {"/"}) THEN Find(s, {"?", "#"}, h) ELSE h
  IN [port |-> h, path |-> path,
      query |-> IF Is(s, path, {"?"}) THEN Find(s, {"#"}, path) ELSE path]

Ends(s, h) ==
  LET port == IF Is(s, h, {":"}) /\ Is(s, h + 1, DOMAIN Number) THEN h + 2 ELSE h
      path == IF Is(s, port, {"/"}) THEN Find(s, {"?", "#"}, port) ELSE port
  IN [port |-> port, path |-> path,
      query |-> IF Is(s, path, {"?"}) THEN Find(s, {"#"}, path) ELSE path]

(* Where a host that begins at b may end: it has no ":" and no "/", and    *)
(* after the other parts there is nothing, or a fragment.                  *)
HostEnds(s, b) ==
  {h \in b + 1..Find(s, {":", "/"}, b) :
     Ends(s, h).query > Len(s) \/ Is(s, Ends(s, h).query, {"#"})}

(* The user, up to the first ":", and the password, up to the first "@"    *)
(* after that, are taken whenever what is left has a host.                 *)
UserEnds(s) == Find(s, {":"}, 1)
PasswordEnds(s) == Find(s, {"@"}, UserEnds(s) + 1)
HasUser(s) == HostEnds(s, PasswordEnds(s) + 1) # {}
HostBegins(s) == IF HasUser(s) THEN PasswordEnds(s) + 1 ELSE 1

(* uri(in) throws unless the expression matches and the port is known.     *)
(* What the expression may take in more than one way is as long as it can  *)
(* be, the user before the host.                                           *)
Parses(scheme, s) ==
  /\ HostEnds(s, HostBegins(s)) # {}
  /\ \/ scheme \in DOMAIN DefaultPort
     \/ LET h == Max(HostEnds(s, HostBegins(s))) IN Ends(s, h).port > h

Parse(scheme, s) ==
  LET b == HostBegins(s)
      h == Max(HostEnds(s, b))
      ends == Ends(s, h)
  IN [scheme |-> scheme,
      user |-> IF HasUser(s) THEN SubSeq(s, 1, UserEnds(s) - 1) ELSE <<>>,
      password |-> IF HasUser(s) THEN SubSeq(s, UserEnds(s) + 1, b - 2) ELSE <<>>,
      host |-> SubSeq(s, b, h - 1),
      port |-> IF ends.port > h THEN Number[s[h + 1]] % 65536 ELSE DefaultPort[scheme],
      path |-> SubSeq(s, ends.port, ends.path - 1),
      query |-> SubSeq(s, ends.path + 1, ends.query - 1),
      fragment |-> SubSeq(s, ends.query + 1, Len(s))]

(* uri::string() without the scheme: the port only if it is not the one    *)
(* of the scheme, and neither user, password nor fragment.                 *)
IsDefaultPort(u) == u.scheme \in DOMAIN DefaultPort /\ DefaultPort[u.scheme] = u.port

UriString(u) ==
  u.host \o (IF IsDefaultPort(u) THEN <<>> ELSE <<":", Numeral(u.port)>>)
         \o u.path \o (IF u.query = <<>> THEN <<>> ELSE <<"?">> \o u.query)

-----------------------------------------------------------------------------
(* Letters, digits and ". _ ~ -" stand for themselves in a query.          *)
UnreservedPlusMutant(c) ==
  Code[c] \in (48..57) \cup (65..90) \cup (97..122) \cup {43, 45, 46, 95, 126}

Unreserved(c) ==
  Code[c] \in (48..57) \cup (65..90) \cup (97..122) \cup {45, 46, 95, 126}

HexDigits == <<"0", "1", "2", "3", "4", "5", "6", "7",
               "8", "9", "a", "b", "c", "d", "e", "f">>

(* A code as std::hex prints it with std::setw(2). It is an int by then: a *)
(* negative one has eight digits.                                          *)
Hex(n, fill) ==
  IF n < 0 THEN <<"f", "f", "f", "f", "f", "f">>
                  \o <<HexDigits[(n + 256) \div 16 + 1], HexDigits[(n % 16) + 1]>>
  ELSE <<IF n < 16 THEN fill ELSE HexDigits[n \div 16 + 1], HexDigits[(n % 16) + 1]>>

Escaped(s, fill) ==
  FlattenSeq([i \in 1..Len(s) |->
                IF Unreserved(s[i]) THEN <<s[i]>> ELSE <<"%">> \o Hex(Code[s[i]], fill)])

(* query::escape leaves the width filled with spaces, uri::encoded has it  *)
(* filled with zeros.                                                      *)
Escape(s) == Escaped(s, Space)
Encoded(s) == Escaped(s, "0")

(* What std::stoi makes of two digits in base 16, leading spaces skipped,  *)
(* as a char.                                                              *)
HexChar(a, b) ==
  LET Digit(c) == IF c = Space THEN 0 ELSE (CHOOSE i \in 1..16 : HexDigits[i] = c) - 1
      n == 16 * Digit(a) + Digit(b)
  IN CHOOSE c \in DOMAIN Code : Code[c] = IF n > 127 THEN n - 256 ELSE n

(* uri::decoded                                                            *)
Decoded(s) ==
  LET from[i \in 1..Len(s) + 3] ==
        IF i > Len(s) THEN <<>>
        ELSE IF s[i] = "%" THEN <<HexChar(s[i + 1], s[i + 2])>> \o from[i + 3]
        ELSE <<IF s[i] = "+" THEN Space ELSE s[i]>> \o from[i + 1]
  IN from[1]

(* uri << query(k, v)                                                      *)
AddQuery(u, k, v) ==
  [u EXCEPT !.query = (IF @ = <<>> THEN @ ELSE Append(@, "&"))
                        \o Escape(k) \o <<"=">> \o Escape(v)]
=============================================================================
