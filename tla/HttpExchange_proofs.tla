------------------------ MODULE HttpExchange_proofs ------------------------
(***************************************************************************)
(* A URI that is taken apart, the pool that a request for it goes to, what *)
(* a server hears of the request, and what a connection makes of the       *)
(* answer.                                                                 *)
(*                                                                         *)
(* The expression for URIs takes as much as it can of what it may take in  *)
(* more than one way. Its matches are found by the places where the parts  *)
(* of a text lie: those of what a caller wrote are the ones that Parse     *)
(* finds again, as long as the URI is plain. A request then keeps the host *)
(* and the port of its URI until it has been answered, and the name of the *)
(* pool tells the one from every other.                                    *)
(*                                                                         *)
(* What the caller adds to the URI and sets in the request is made of      *)
(* characters that no line end, and in a query no space, is among: so the  *)
(* text that is sent has its lines and their parts where they were put,    *)
(* and the server finds them there.                                        *)
(*                                                                         *)
(* The answer is read as it comes: what has come in and what is still on   *)
(* its way are together always the rest of it that the phase expects, and  *)
(* the response has the part before.                                       *)
(***************************************************************************)
EXTENDS HttpExchange, HttpMessage_proofs

(* The parts of a URI, each with the character that begins or ends it.     *)
UserPart(c) == IF c.user = <<>> THEN <<>> ELSE c.user \o <<":">> \o c.password \o <<"@">>
PortPart(c) == IF c.port = <<>> THEN <<>> ELSE <<":">> \o c.port
QueryPart(c) == IF c.query = <<>> THEN <<>> ELSE <<"?">> \o c.query
FragmentPart(c) == IF c.fragment = <<>> THEN <<>> ELSE <<"#">> \o c.fragment

LEMMA PartsAreTexts ==
  ASSUME NEW c, WellFormed(c)
  PROVE  /\ UserPart(c) \in Text /\ c.host \in Text
         /\ PortPart(c) \in Text /\ c.path \in Text
         /\ QueryPart(c) \in Text /\ FragmentPart(c) \in Text
<1>1. /\ c.user \in Text /\ c.password \in Text /\ c.host \in Text
      /\ c.port \in Text /\ c.path \in Text
      /\ c.query \in Text /\ c.fragment \in Text
  BY DEF WellFormed
<1>2. <<":">> \in Text /\ <<"@">> \in Text /\ <<"?">> \in Text
      /\ <<"#">> \in Text /\ <<>> \in Text
  <2>1. \A x \in Character : <<x>> \in Seq(Character)  OBVIOUS
  <2>2. ":" \in Character /\ "@" \in Character /\ "?" \in Character /\ "#" \in Character
    BY CharactersOfUris
  <2>3. <<>> \in Seq(Character)  OBVIOUS
  <2> QED  BY <2>1, <2>2, <2>3 DEF Text
<1>3. \A x, y \in Text : x \o y \in Text  BY DEF Text
<1>4. UserPart(c) \in Text
  <2>1. c.user \o <<":">> \in Text  BY <1>1, <1>2, <1>3
  <2>2. (c.user \o <<":">>) \o c.password \in Text  BY <1>1, <1>3, <2>1
  <2>3. ((c.user \o <<":">>) \o c.password) \o <<"@">> \in Text  BY <1>2, <1>3, <2>2
  <2> QED  BY <1>2, <2>3 DEF UserPart
<1>5. PortPart(c) \in Text  BY <1>1, <1>2, <1>3 DEF PortPart
<1>6. QueryPart(c) \in Text  BY <1>1, <1>2, <1>3 DEF QueryPart
<1>7. FragmentPart(c) \in Text  BY <1>1, <1>2, <1>3 DEF FragmentPart
<1> QED  BY <1>1, <1>4, <1>5, <1>6, <1>7

(* They follow one another.                                                *)
LEMMA WrittenParts ==
  ASSUME NEW c, WellFormed(c)
  PROVE  LET s == Written(c)
             h == Len(UserPart(c))
             p == h + Len(c.host)
             t == p + Len(PortPart(c))
             q == t + Len(c.path)
             f == q + Len(QueryPart(c))
         IN /\ s \in Text /\ Len(s) = f + Len(FragmentPart(c))
            /\ At(s, 0, UserPart(c)) /\ At(s, h, c.host) /\ At(s, p, PortPart(c))
            /\ At(s, t, c.path) /\ At(s, q, QueryPart(c)) /\ At(s, f, FragmentPart(c))
<1> DEFINE u == UserPart(c)  hh == c.host  pp == PortPart(c)  tt == c.path
           qq == QueryPart(c)  ff == FragmentPart(c)
           s2 == u \o hh  s3 == s2 \o pp  s4 == s3 \o tt  s5 == s4 \o qq  s6 == s5 \o ff
<1>1. /\ u \in Text /\ hh \in Text /\ pp \in Text
      /\ tt \in Text /\ qq \in Text /\ ff \in Text
  BY PartsAreTexts
<1>2. Written(c) = s6  BY DEF Written, UserPart, PortPart, QueryPart, FragmentPart
<1> HIDE DEF u, hh, pp, tt, qq, ff
<1>3. s2 \in Text /\ Len(s2) = Len(u) + Len(hh) /\ At(s2, 0, u) /\ At(s2, Len(u), hh)
  BY <1>1, Joined DEF Text
<1> HIDE DEF s2
<1>4. /\ s3 \in Text /\ Len(s3) = Len(u) + Len(hh) + Len(pp)
      /\ At(s3, 0, u) /\ At(s3, Len(u), hh) /\ At(s3, Len(u) + Len(hh), pp)
  <2>1. s3 \in Text /\ Len(s3) = Len(s2) + Len(pp) /\ At(s3, Len(s2), pp)
    BY <1>1, <1>3, Joined DEF Text
  <2>2. At(s3, 0, u) /\ At(s3, Len(u), hh)  BY <1>1, <1>3, AtJoined DEF Text
  <2> QED  BY <1>3, <2>1, <2>2
<1> HIDE DEF s3
<1>5. /\ s4 \in Text /\ Len(s4) = Len(u) + Len(hh) + Len(pp) + Len(tt)
      /\ At(s4, 0, u) /\ At(s4, Len(u), hh) /\ At(s4, Len(u) + Len(hh), pp)
      /\ At(s4, Len(u) + Len(hh) + Len(pp), tt)
  <2>1. s4 \in Text /\ Len(s4) = Len(s3) + Len(tt) /\ At(s4, Len(s3), tt)
    BY <1>1, <1>4, Joined DEF Text
  <2>2. At(s4, 0, u) /\ At(s4, Len(u), hh) /\ At(s4, Len(u) + Len(hh), pp)
    BY <1>1, <1>4, AtJoined DEF Text
  <2> QED  BY <1>4, <2>1, <2>2
<1> HIDE DEF s4
<1>6. /\ s5 \in Text /\ Len(s5) = Len(u) + Len(hh) + Len(pp) + Len(tt) + Len(qq)
      /\ At(s5, 0, u) /\ At(s5, Len(u), hh) /\ At(s5, Len(u) + Len(hh), pp)
      /\ At(s5, Len(u) + Len(hh) + Len(pp), tt)
      /\ At(s5, Len(u) + Len(hh) + Len(pp) + Len(tt), qq)
  <2>1. s5 \in Text /\ Len(s5) = Len(s4) + Len(qq) /\ At(s5, Len(s4), qq)
    BY <1>1, <1>5, Joined DEF Text
  <2>2. /\ At(s5, 0, u) /\ At(s5, Len(u), hh) /\ At(s5, Len(u) + Len(hh), pp)
        /\ At(s5, Len(u) + Len(hh) + Len(pp), tt)
    BY <1>1, <1>5, AtJoined DEF Text
  <2> QED  BY <1>5, <2>1, <2>2
<1> HIDE DEF s5
<1>7. /\ s6 \in Text
      /\ Len(s6) = Len(u) + Len(hh) + Len(pp) + Len(tt) + Len(qq) + Len(ff)
      /\ At(s6, 0, u) /\ At(s6, Len(u), hh) /\ At(s6, Len(u) + Len(hh), pp)
      /\ At(s6, Len(u) + Len(hh) + Len(pp), tt)
      /\ At(s6, Len(u) + Len(hh) + Len(pp) + Len(tt), qq)
      /\ At(s6, Len(u) + Len(hh) + Len(pp) + Len(tt) + Len(qq), ff)
  <2>1. s6 \in Text /\ Len(s6) = Len(s5) + Len(ff) /\ At(s6, Len(s5), ff)
    BY <1>1, <1>6, Joined DEF Text
  <2>2. /\ At(s6, 0, u) /\ At(s6, Len(u), hh) /\ At(s6, Len(u) + Len(hh), pp)
        /\ At(s6, Len(u) + Len(hh) + Len(pp), tt)
        /\ At(s6, Len(u) + Len(hh) + Len(pp) + Len(tt), qq)
    BY <1>1, <1>6, AtJoined DEF Text
  <2> QED  BY <1>6, <2>1, <2>2
<1> HIDE DEF s6
<1> QED  BY <1>2, <1>7 DEF u, hh, pp, tt, qq, ff
-----------------------------------------------------------------------------
(* Where the parts of an expression end, if the characters between them    *)
(* are in their places: the host before h, the port before p, the path     *)
(* before t and the query before q.                                        *)
Shape(s, h, p, t, q) ==
  /\ h \in Nat \ {0} /\ p \in Nat /\ t \in Nat /\ q \in Nat
  /\ h <= p /\ p <= t /\ t <= q /\ q <= Len(s) + 1
  /\ p # h => p = h + 2 /\ s[h] = ":" /\ s[h + 1] \in DOMAIN Number
  /\ p = h /\ h <= Len(s) => s[h] # ":"
  /\ t # p => s[p] = "/"
  /\ t = p /\ p <= Len(s) => s[p] # "/"
  /\ \A i \in Nat : p <= i /\ i < t => s[i] \notin {"?", "#"}
  /\ t <= Len(s) => s[t] \in {"?", "#"}
  /\ q # t => s[t] = "?"
  /\ q = t /\ t <= Len(s) => s[t] # "?"
  /\ \A i \in Nat : t <= i /\ i < q => s[i] # "#"
  /\ q <= Len(s) => s[q] = "#"

LEMMA EndsAre ==
  ASSUME NEW S, NEW s \in Seq(S), NEW h, NEW p, NEW t, NEW q, Shape(s, h, p, t, q)
  PROVE  Ends(s, h) = [port |-> p, path |-> t, query |-> q]
<1>0. Len(s) \in Nat /\ h \in Nat \ {0} /\ p \in Nat \ {0} /\ t \in Nat \ {0} /\ q \in Nat
  BY DEF Shape
<1>1. (IF Is(s, h, {":"}) /\ Is(s, h + 1, DOMAIN Number) THEN h + 2 ELSE h) = p
  BY <1>0 DEF Shape, Is
<1>2. (IF Is(s, p, {"/"}) THEN Find(s, {"?", "#"}, p) ELSE p) = t
  <2>1. CASE t = p  BY <1>0, <2>1 DEF Shape, Is
  <2>2. CASE t # p
    <3>1. Find(s, {"?", "#"}, p) = t
      <4>1. p <= t /\ t <= Len(s) + 1 /\ (t <= Len(s) => s[t] \in {"?", "#"})
        BY <1>0 DEF Shape
      <4>2. \A i \in Nat : p <= i /\ i < t => s[i] \notin {"?", "#"}  BY DEF Shape
      <4> QED  BY <1>0, <4>1, <4>2, FindsAt
    <3>2. s[p] \in {"/"} /\ p \in 1..Len(s)  BY <1>0, <2>2 DEF Shape
    <3> QED  BY <3>1, <3>2 DEF Is
  <2> QED  BY <2>1, <2>2
<1>3. (IF Is(s, t, {"?"}) THEN Find(s, {"#"}, t) ELSE t) = q
  <2>1. CASE q = t  BY <1>0, <2>1 DEF Shape, Is
  <2>2. CASE q # t
    <3>1. Find(s, {"#"}, t) = q
      <4>1. t <= q /\ q <= Len(s) + 1 /\ (q <= Len(s) => s[q] \in {"#"})
        BY <1>0 DEF Shape
      <4>2. \A i \in Nat : t <= i /\ i < q => s[i] \notin {"#"}  BY DEF Shape
      <4> QED  BY <1>0, <4>1, <4>2, FindsAt
    <3>2. s[t] \in {"?"} /\ t \in 1..Len(s)  BY <1>0, <2>2 DEF Shape
    <3> QED  BY <3>1, <3>2 DEF Is
  <2> QED  BY <2>1, <2>2
<1> QED  BY <1>1, <1>2, <1>3 DEF Ends

LEMMA HostEndsAt ==
  ASSUME NEW S, NEW s \in Seq(S), NEW b \in Nat \ {0}, NEW h, NEW p, NEW t, NEW q,
         Shape(s, h, p, t, q), b < h,
         \A i \in Nat : b <= i /\ i < h => s[i] \notin {":", "/"},
         h <= Len(s) => s[h] \in {":", "/"}
  PROVE  HostEnds(s, b) # {} /\ Max(HostEnds(s, b)) = h
<1>0. Len(s) \in Nat /\ h \in Nat /\ q \in Nat /\ h <= Len(s) + 1  BY DEF Shape
<1>1. Find(s, {":", "/"}, b) = h  BY <1>0, FindsAt
<1>2. Ends(s, h).query = q  BY EndsAre
<1>3. Ends(s, h).query > Len(s) \/ Is(s, Ends(s, h).query, {"#"})
  <2>1. q \in 1..Len(s) => s[q] \in {"#"}  BY DEF Shape
  <2>2. q >= 1  BY DEF Shape
  <2> QED  BY <1>0, <1>2, <2>1, <2>2 DEF Is
<1>4. HostEnds(s, b) \subseteq b + 1..h  BY <1>1 DEF HostEnds
<1>5. h \in HostEnds(s, b)
  <2>1. h \in b + 1..h  BY <1>0
  <2> QED  BY <1>1, <1>3, <2>1 DEF HostEnds
<1> DEFINE T == HostEnds(s, b)
<1>6. T \subseteq Int /\ \A y \in T : y <= h  BY <1>0, <1>4
<1> HIDE DEF T
<1>7. Max(T) = h
  <2>1. h \in T  BY <1>5 DEF T
  <2> QED  BY <1>6, <2>1, GreatestUnique
<1> QED  BY <1>5, <1>7 DEF T

(* The text of a plain URI has this shape.                                 *)
LEMMA WrittenShape ==
  ASSUME NEW c, WellFormed(c), Plain(c)
  PROVE  LET s == Written(c)
             b == Len(UserPart(c)) + 1
             h == b + Len(c.host)
             p == h + Len(PortPart(c))
             t == p + Len(c.path)
             q == t + Len(QueryPart(c))
         IN /\ Shape(s, h, p, t, q) /\ b \in Nat \ {0} /\ b < h
            /\ \A i \in Nat : b <= i /\ i < h => s[i] \notin {":", "/"}
            /\ h <= Len(s) => s[h] \in {":", "/"}
<1> DEFINE s == Written(c)
           n0 == Len(UserPart(c))
           n1 == Len(c.host)
           n2 == Len(PortPart(c))
           n3 == Len(c.path)
           n4 == Len(QueryPart(c))
           n5 == Len(FragmentPart(c))
           b == n0 + 1
           h == b + n1
           p == h + n2
           t == p + n3
           q == t + n4
<1>1. /\ s \in Text /\ Len(s) = n0 + n1 + n2 + n3 + n4 + n5
      /\ At(s, n0, c.host) /\ At(s, n0 + n1, PortPart(c)) /\ At(s, n0 + n1 + n2, c.path)
      /\ At(s, n0 + n1 + n2 + n3, QueryPart(c))
      /\ At(s, n0 + n1 + n2 + n3 + n4, FragmentPart(c))
  BY WrittenParts
<1>2. n0 \in Nat /\ n1 \in Nat /\ n2 \in Nat /\ n3 \in Nat /\ n4 \in Nat /\ n5 \in Nat
  BY <1>1, PartsAreTexts DEF Text
<1>21. /\ Len(c.host) = n1 /\ Len(PortPart(c)) = n2 /\ Len(c.path) = n3
      /\ Len(QueryPart(c)) = n4 /\ Len(FragmentPart(c)) = n5
  OBVIOUS
<1> HIDE DEF s, n0, n1, n2, n3, n4, n5
<1>3. n1 > 0
  <2>1. c.host \in Seq(Character) /\ c.host # <<>>  BY DEF WellFormed, Text
  <2> QED  BY <1>21, <2>1
<1>4. n2 # 0 => n2 = 2 /\ s[h] = ":" /\ s[h + 1] \in DOMAIN Number
  <2>1. CASE c.port = <<>>
    <3>1. PortPart(c) = <<>>  BY <2>1 DEF PortPart
    <3>2. n2 = Len(<<>>)  BY <1>21, <3>1, Zenon
    <3> QED  BY <3>2
  <2>2. CASE c.port # <<>>
    <3>1. PICK d \in DOMAIN Number : c.port = <<d>>  BY <2>2 DEF WellFormed
    <3> DEFINE x == PortPart(c)
               o == n0 + n1
    <3>2. x = <<":">> \o <<d>>  BY <2>2, <3>1 DEF PortPart
    <3>3. x[1] = ":" /\ x[2] = d /\ Len(x) = 2  BY <3>2
    <3> HIDE DEF x, o
    <3>4. At(s, o, x)  BY <1>1 DEF x, o
    <3>5. s[o + 1] = ":" /\ s[o + 2] = d  BY <3>3, <3>4 DEF At
    <3>6. h = o + 1 /\ h + 1 = o + 2  BY <1>2 DEF o
    <3> QED  BY <1>21, <3>1, <3>3, <3>5, <3>6 DEF x
  <2> QED  BY <2>1, <2>2
<1>5. n3 = 0 \/ s[p] = "/"
  <2>1. CASE c.path = <<>>  BY <1>21, <2>1
  <2>2. CASE c.path # <<>>
    <3> DEFINE o == n0 + n1 + n2
    <3>1. c.path[1] = "/"  BY <2>2 DEF WellFormed
    <3>2. At(s, o, c.path)  BY <1>1
    <3>3. c.path \in Seq(Character)  BY DEF WellFormed, Text
    <3>4. 1 \in 1..Len(c.path)  BY <2>2, <3>3
    <3>5. p = o + 1  BY <1>2
    <3> HIDE DEF o
    <3>6. s[o + 1] = "/"  BY <3>1, <3>2, <3>4 DEF At
    <3> QED  BY <3>5, <3>6
  <2> QED  BY <2>1, <2>2
<1>6. \A i \in Nat : p <= i /\ i < t => s[i] \notin {"?", "#"}
  <2> SUFFICES ASSUME NEW i \in Nat, p <= i, i < t PROVE s[i] \notin {"?", "#"}  OBVIOUS
  <2> DEFINE o == n0 + n1 + n2
             j == i - o
  <2>1. At(s, o, c.path) /\ o \in Nat  BY <1>1, <1>2
  <2>2. j \in 1..n3 /\ i = o + j  BY <1>2
  <2>3. c.path[j] \notin {"?", "#"}  BY <1>21, <2>2 DEF WellFormed, Free
  <2> HIDE DEF o, j
  <2>4. s[o + j] = c.path[j]  BY <1>21, <2>1, <2>2 DEF At
  <2> QED  BY <2>2, <2>3, <2>4
<1>7. \A i \in Nat : b <= i /\ i < h => s[i] \notin {":", "/"}
  <2> SUFFICES ASSUME NEW i \in Nat, b <= i, i < h PROVE s[i] \notin {":", "/"}  OBVIOUS
  <2> DEFINE o == n0
             j == i - o
  <2>1. At(s, o, c.host) /\ o \in Nat  BY <1>1, <1>2
  <2>2. j \in 1..n1 /\ i = o + j  BY <1>2
  <2>3. c.host[j] \notin {":", "/"}  BY <1>21, <2>2 DEF WellFormed, Free
  <2> HIDE DEF o, j
  <2>4. s[o + j] = c.host[j]  BY <1>21, <2>1, <2>2 DEF At
  <2> QED  BY <2>2, <2>3, <2>4
<1>8. n4 = 0 \/ s[t] = "?"
  <2>1. CASE c.query = <<>>  BY <1>21, <2>1 DEF QueryPart
  <2>2. CASE c.query # <<>>
    <3> DEFINE o == n0 + n1 + n2 + n3
               x == QueryPart(c)
    <3>1. x = <<"?">> \o c.query /\ c.query \in Seq(Character)
      BY <2>2 DEF QueryPart, WellFormed, Text
    <3>2. x[1] = "?" /\ 1 \in 1..Len(x)  BY <3>1
    <3>3. At(s, o, x)  BY <1>1
    <3>4. t = o + 1  BY <1>2
    <3> HIDE DEF o, x
    <3>5. s[o + 1] = "?"  BY <3>2, <3>3 DEF At
    <3> QED  BY <3>4, <3>5
  <2> QED  BY <2>1, <2>2
<1>9. \A i \in Nat : t <= i /\ i < q => s[i] # "#"
  <2> SUFFICES ASSUME NEW i \in Nat, t <= i, i < q PROVE s[i] # "#"  OBVIOUS
  <2> DEFINE o == n0 + n1 + n2 + n3
             j == i - o
             x == QueryPart(c)
  <2>1. At(s, o, x) /\ o \in Nat  BY <1>1, <1>2
  <2>2. j \in 1..n4 /\ i = o + j  BY <1>2
  <2>3. x[j] # "#"
    <3>1. c.query # <<>> /\ c.query \in Seq(Character) /\ \A k \in 1..Len(c.query) : c.query[k] # "#"
      BY <1>21, <2>2 DEF QueryPart, WellFormed, Free, Text
    <3>2. x = <<"?">> \o c.query  BY <3>1 DEF QueryPart
    <3>0. x[1] = "?"  BY <3>1, <3>2
    <3>3. \A k \in 1..Len(x) : x[k] = "?" \/ \E m \in 1..Len(c.query) : x[k] = c.query[m]
      <4> SUFFICES ASSUME NEW k \in 1..Len(x), k # 1
                   PROVE  \E m \in 1..Len(c.query) : x[k] = c.query[m]
        BY <3>0
      <4>1. Len(x) = Len(c.query) + 1 /\ k - 1 \in 1..Len(c.query)  BY <3>1, <3>2
      <4>2. x[k] = c.query[k - 1]  BY <3>1, <3>2, <4>1
      <4> QED  BY <4>1, <4>2
    <3> QED  BY <1>21, <2>2, <3>1, <3>3
  <2> HIDE DEF o, j, x
  <2>4. s[o + j] = x[j]  BY <1>21, <2>1, <2>2 DEF At, x
  <2> QED  BY <2>2, <2>3, <2>4
<1>10. n5 = 0 \/ s[q] = "#"
  <2>1. CASE c.fragment = <<>>  BY <1>21, <2>1 DEF FragmentPart
  <2>2. CASE c.fragment # <<>>
    <3> DEFINE o == n0 + n1 + n2 + n3 + n4
               x == FragmentPart(c)
    <3>1. x = <<"#">> \o c.fragment /\ c.fragment \in Seq(Character)
      BY <2>2 DEF FragmentPart, WellFormed, Text
    <3>2. x[1] = "#" /\ 1 \in 1..Len(x)  BY <3>1
    <3>3. At(s, o, x)  BY <1>1
    <3>4. q = o + 1  BY <1>2
    <3> HIDE DEF o, x
    <3>5. s[o + 1] = "#"  BY <3>2, <3>3 DEF At
    <3> QED  BY <3>4, <3>5
  <2> QED  BY <2>1, <2>2
<1>11. n2 = 0 /\ n3 = 0 => n4 = 0 /\ n5 = 0
  <2> SUFFICES ASSUME n2 = 0, n3 = 0 PROVE n4 = 0 /\ n5 = 0  OBVIOUS
  <2>1. c.port = <<>>
    <3>1. c.port \in Seq(Character)  BY DEF WellFormed, Text
    <3>2. c.port # <<>> => n2 > 0  BY <1>21, <3>1 DEF PortPart
    <3> QED  BY <3>2
  <2>2. c.path = <<>>
    <3>1. c.path \in Seq(Character)  BY DEF WellFormed, Text
    <3> QED  BY <1>21, <3>1
  <2>3. c.query = <<>> /\ c.fragment = <<>>  BY <2>1, <2>2 DEF Plain
  <2> QED  BY <1>21, <2>3 DEF QueryPart, FragmentPart
<1>12. Len(s) = q + n5 - 1
  <2>1. /\ n0 \in Nat /\ n1 \in Nat /\ n2 \in Nat /\ n3 \in Nat /\ n4 \in Nat /\ n5 \in Nat
        /\ Len(s) = n0 + n1 + n2 + n3 + n4 + n5
    BY <1>1, <1>2
  <2> QED  BY <1>2, <2>1
<1>13. q <= Len(s) => s[q] = "#"  BY <1>2, <1>10, <1>12
<1>14. t <= Len(s) => s[t] \in {"?", "#"}
  <2>1. n4 = 0 => q = t  BY <1>2
  <2> QED  BY <1>8, <1>13, <2>1
<1>15. p <= Len(s) => s[p] \in {"/", "?", "#"}
  <2>1. n3 = 0 => t = p  BY <1>2
  <2> QED  BY <1>5, <1>14, <2>1
<1>16. h <= Len(s) => s[h] \in {":", "/"}
  <2>1. n2 = 0 /\ n3 = 0 => ~(h <= Len(s))  BY <1>2, <1>11, <1>12
  <2>2. n2 = 0 => p = h  BY <1>2
  <2> HIDE DEF h, p
  <2> QED  BY <1>4, <1>5, <2>1, <2>2
<1>17. Shape(s, h, p, t, q)
  <2>1. /\ h \in Nat \ {0} /\ p \in Nat /\ t \in Nat /\ q \in Nat
        /\ h <= p /\ p <= t /\ t <= q /\ q <= Len(s) + 1
    BY <1>2, <1>12
  <2>2. p # h => p = h + 2 /\ s[h] = ":" /\ s[h + 1] \in DOMAIN Number  BY <1>2, <1>4
  <2>3. p = h /\ h <= Len(s) => s[h] # ":"  BY <1>15
  <2>4. (t # p => s[p] = "/") /\ (q # t => s[t] = "?")  BY <1>2, <1>5, <1>8
  <2>5. t = p /\ p <= Len(s) => s[p] # "/"  BY <1>14
  <2>6. q = t /\ t <= Len(s) => s[t] # "?"  BY <1>13
  <2> HIDE DEF h, p, t, q
  <2> QED  BY <2>1, <2>2, <2>3, <2>4, <2>5, <2>6, <1>6, <1>9, <1>13, <1>14 DEF Shape
<1>18. b \in Nat \ {0} /\ b < h  BY <1>2, <1>3
<1> QED  BY <1>7, <1>16, <1>17, <1>18 DEF s, n0, n1, n2, n3, n4, n5
(* Where the user and the password end.                                    *)
LEMMA HostBeginsAt ==
  ASSUME NEW c, WellFormed(c), Plain(c)
  PROVE  LET s == Written(c) IN
           /\ HasUser(s) <=> c.user # <<>>
           /\ HostBegins(s) = Len(UserPart(c)) + 1
           /\ c.user # <<>> => /\ UserEnds(s) = Len(c.user) + 1
                               /\ Len(UserPart(c)) = Len(c.user) + Len(c.password) + 2
                               /\ At(s, 0, c.user) /\ At(s, Len(c.user) + 1, c.password)
<1> DEFINE s == Written(c)
           n == Len(UserPart(c))
           u == Len(c.user)
           w == Len(c.password)
<1>1. s \in Seq(Character) /\ Len(s) \in Nat /\ At(s, 0, UserPart(c)) /\ n <= Len(s) /\ n \in Nat
  <2>1. s \in Seq(Character) /\ At(s, 0, UserPart(c))  BY WrittenParts DEF Text
  <2> HIDE DEF s
  <2>2. 0 + n <= Len(s) /\ n \in Nat  BY <2>1 DEF At
  <2> QED  BY <2>1, <2>2
<1>2. c.user \in Seq(Character) /\ c.password \in Seq(Character) /\ u \in Nat /\ w \in Nat
  BY DEF WellFormed, Text
<1>3. HostEnds(s, n + 1) # {}
  BY <1>1, WrittenShape, HostEndsAt
<1>20. n = Len(UserPart(c)) /\ u = Len(c.user) /\ w = Len(c.password)  OBVIOUS
<1>21. c.user = <<>> => ~ \E i, j \in 1..Len(s) : i < j /\ s[i] = ":" /\ s[j] = "@"
  BY DEF Plain
<1> HIDE DEF s, n, u, w
<1>4. CASE c.user # <<>>
  <2> DEFINE x1 == c.user \o <<":">>
             x2 == x1 \o c.password
             x3 == x2 \o <<"@">>
  <2>1. UserPart(c) = x3  BY <1>4 DEF UserPart
  <2>2. <<":">> \in Seq(Character) /\ <<"@">> \in Seq(Character)
        /\ Len(<<":">>) = 1 /\ Len(<<"@">>) = 1
    <3>1. \A x \in Character : <<x>> \in Seq(Character)  OBVIOUS
    <3>2. ":" \in Character /\ "@" \in Character  BY CharactersOfUris
    <3> QED  BY <3>1, <3>2
  <2>3. x1 \in Seq(Character) /\ Len(x1) = u + 1 /\ At(x1, 0, c.user) /\ At(x1, u, <<":">>)
    BY <1>2, <1>20, <2>2, Joined
  <2> HIDE DEF x1
  <2>4. /\ x2 \in Seq(Character) /\ Len(x2) = u + 1 + w
        /\ At(x2, 0, c.user) /\ At(x2, u, <<":">>) /\ At(x2, u + 1, c.password)
    <3>1. x2 \in Seq(Character) /\ Len(x2) = Len(x1) + w /\ At(x2, Len(x1), c.password)
      BY <1>2, <1>20, <2>3, Joined
    <3>2. At(x2, 0, c.user) /\ At(x2, u, <<":">>)  BY <1>2, <2>2, <2>3, AtJoined
    <3> QED  BY <2>3, <3>1, <3>2
  <2> HIDE DEF x2
  <2>5. /\ x3 \in Seq(Character) /\ Len(x3) = u + 1 + w + 1
        /\ At(x3, 0, c.user) /\ At(x3, u, <<":">>) /\ At(x3, u + 1, c.password)
        /\ At(x3, u + 1 + w, <<"@">>)
    <3> DEFINE y == <<"@">>
    <3>0. y \in Seq(Character) /\ Len(y) = 1 /\ x3 = x2 \o y  BY <2>2
    <3> HIDE DEF y, x3
    <3>1. x3 \in Seq(Character) /\ Len(x3) = Len(x2) + 1 /\ At(x3, Len(x2), y)
      BY <2>4, <3>0, Joined
    <3>2. At(x3, 0, c.user) /\ At(x3, u, <<":">>) /\ At(x3, u + 1, c.password)
      BY <1>2, <2>2, <2>4, <3>0, AtJoined
    <3> QED  BY <2>4, <3>1, <3>2 DEF y
  <2> HIDE DEF x3
  <2>6. n = u + w + 2
    <3>1. Len(x3) = u + 1 + w + 1  BY <2>5
    <3>2. n = Len(x3)  BY <1>20, <2>1
    <3> QED  BY <1>2, <3>1, <3>2
  <2>7. \A i \in 1..n : s[i] = x3[i]
    <3>1. \A i \in 1..n : s[0 + i] = x3[i]  BY <1>1, <1>20, <2>1 DEF At
    <3> QED  BY <1>1, <3>1
  <2>8. \A i \in 1..u : s[i] = c.user[i]
    <3>1. \A i \in 1..u : x3[0 + i] = c.user[i]  BY <1>20, <2>5 DEF At
    <3> QED  BY <1>2, <2>6, <2>7, <3>1
  <2>9. s[u + 1] = ":"
    <3> DEFINE y == <<":">>
    <3>0. y[1] = ":" /\ Len(y) = 1 /\ At(x3, u, y)  BY <2>5
    <3> HIDE DEF y
    <3>1. x3[u + 1] = ":"  BY <3>0 DEF At
    <3> QED  BY <1>2, <2>6, <2>7, <3>1
  <2>10. \A i \in 1..w : s[u + 1 + i] = c.password[i]
    <3>1. \A i \in 1..w : x3[u + 1 + i] = c.password[i]  BY <1>20, <2>5 DEF At
    <3> QED  BY <1>2, <2>6, <2>7, <3>1
  <2>11. s[n] = "@"
    <3> DEFINE y == <<"@">>
    <3>0. y[1] = "@" /\ Len(y) = 1 /\ At(x3, u + 1 + w, y)  BY <2>5
    <3> HIDE DEF y
    <3>1. x3[u + 1 + w + 1] = "@"  BY <3>0 DEF At
    <3>2. n = u + 1 + w + 1 /\ n \in 1..n  BY <1>2, <2>6
    <3> QED  BY <2>7, <3>1, <3>2
  <2>12. (\A i \in 1..u : c.user[i] # ":") /\ (\A i \in 1..w : c.password[i] # "@")
    BY <1>20 DEF WellFormed, Free
  <2>13. At(s, 0, c.user) /\ At(s, u + 1, c.password)
    <3>1. 0 + u <= Len(s) /\ u + 1 + w <= Len(s)  BY <1>1, <1>2, <2>6
    <3>2. At(s, 0, c.user)
      <4>1. \A i \in 1..u : s[0 + i] = c.user[i]  BY <1>2, <2>8
      <4> QED  BY <1>2, <1>20, <3>1, <4>1 DEF At
    <3>3. At(s, u + 1, c.password)
      <4>1. u + 1 \in Nat  BY <1>2
      <4> QED  BY <1>2, <1>20, <2>10, <3>1, <4>1 DEF At
    <3> QED  BY <3>2, <3>3
  <2>14. UserEnds(s) = u + 1
    <3>1. \A i \in Nat : 1 <= i /\ i < u + 1 => s[i] \notin {":"}
      BY <1>2, <2>8, <2>12
    <3>2. u + 1 \in Nat /\ 1 <= u + 1 /\ u + 1 <= Len(s) + 1  BY <1>1, <1>2, <2>6
    <3> QED  BY <1>1, <2>9, <3>1, <3>2, FindsAt DEF UserEnds
  <2>15. PasswordEnds(s) = n
    <3>1. \A i \in Nat : u + 2 <= i /\ i < n => s[i] \notin {"@"}
      <4> SUFFICES ASSUME NEW i \in Nat, u + 2 <= i, i < n PROVE s[i] # "@"  OBVIOUS
      <4> DEFINE j == i - (u + 1)
      <4>1. j \in 1..w /\ i = u + 1 + j  BY <1>2, <2>6
      <4> HIDE DEF j
      <4> QED  BY <2>10, <2>12, <4>1
    <3>2. u + 2 \in Nat \ {0} /\ u + 2 <= n /\ n <= Len(s) + 1  BY <1>1, <1>2, <2>6
    <3>3. Find(s, {"@"}, u + 2) = n  BY <1>1, <2>11, <3>1, <3>2, FindsAt
    <3>4. UserEnds(s) + 1 = u + 2  BY <1>2, <2>14
    <3> QED  BY <3>3, <3>4 DEF PasswordEnds
  <2>16. HasUser(s) /\ HostBegins(s) = n + 1  BY <1>3, <2>15 DEF HasUser, HostBegins
  <2> QED  BY <1>4, <2>6, <2>13, <2>14, <2>16 DEF s, n, u, w
<1>5. CASE c.user = <<>>
  <2>1. UserPart(c) = <<>>  BY <1>5 DEF UserPart
  <2>2. n = 0
    <3>1. n = Len(<<>>)  BY <1>20, <2>1, Zenon
    <3> QED  BY <3>1
  <2>3. ~ \E i, j \in 1..Len(s) : i < j /\ s[i] = ":" /\ s[j] = "@"  BY <1>5, <1>21
  <2>4. PasswordEnds(s) = Len(s) + 1
    <3> DEFINE T == {i \in 1..Len(s) : s[i] \in {":"}}
               e == UserEnds(s)
    <3>1. e \in Nat \ {0} /\ \A j \in e + 1..Len(s) : s[j] \notin {"@"}
      <4>1. CASE T = {}
        <5>1. e = Len(s) + 1  BY <1>1, <4>1, FindsNothing DEF UserEnds
        <5> QED  BY <1>1, <5>1
      <4>2. CASE T # {}
        <5>1. PICK k \in T : k = Min(T)
          <6>1. T \subseteq Nat  OBVIOUS
          <6> HIDE DEF T
          <6> QED  BY <4>2, <6>1, LeastPlace
        <5>2. k \in 1..Len(s) /\ s[k] = ":" /\ \A i \in Nat : 1 <= i /\ i < k => s[i] \notin {":"}
          <6>1. T \subseteq Nat  OBVIOUS
          <6>2. \A i \in T : k <= i
            <7> HIDE DEF T
            <7> QED  BY <4>2, <5>1, <6>1, LeastPlace
          <6> SUFFICES ASSUME NEW i \in Nat, 1 <= i, i < k PROVE s[i] \notin {":"}  OBVIOUS
          <6>3. i \notin T  BY <6>2
          <6> QED  BY <1>1, <6>3
        <5>3. k \in Nat /\ 1 <= k /\ k <= Len(s) + 1  BY <1>1, <5>2
        <5>4. e = k  BY <1>1, <5>2, <5>3, FindsAt DEF UserEnds
        <5> HIDE DEF e
        <5>5. \A j \in k + 1..Len(s) : s[j] \notin {"@"}  BY <1>1, <2>3, <5>2
        <5> QED  BY <5>2, <5>4, <5>5
      <4> QED  BY <4>1, <4>2
    <3> HIDE DEF e
    <3>2. e + 1 \in Nat \ {0}  BY <3>1
    <3>3. Find(s, {"@"}, e + 1) = Len(s) + 1  BY <1>1, <3>1, <3>2, FindsNothing
    <3> QED  BY <3>3 DEF PasswordEnds, e
  <2>5. HostEnds(s, Len(s) + 2) = {}
    <3>1. Len(s) + 2 \in Nat \ {0} /\ \A i \in Len(s) + 2..Len(s) : s[i] \notin {":", "/"}
      BY <1>1
    <3>2. Find(s, {":", "/"}, Len(s) + 2) = Len(s) + 1  BY <1>1, <3>1, FindsNothing
    <3>3. (Len(s) + 2) + 1..Len(s) + 1 = {}  BY <1>1
    <3> QED  BY <3>2, <3>3 DEF HostEnds
  <2>6. ~HasUser(s)
    <3>1. PasswordEnds(s) + 1 = Len(s) + 2  BY <1>1, <2>4
    <3> QED  BY <2>5, <3>1 DEF HasUser
  <2>7. HostBegins(s) = n + 1  BY <2>2, <2>6 DEF HostBegins
  <2> QED  BY <1>5, <2>6, <2>7 DEF s, n
<1> QED  BY <1>4, <1>5

(* A plain URI is taken apart into what it was made of, whatever parts it  *)
(* has and however long they are.                                          *)
THEOREM ParseWritten ==
  ASSUME NEW c, WellFormed(c), Plain(c)
  PROVE  /\ Parses(c.scheme, Written(c))
         /\ Parse(c.scheme, Written(c)) = [c EXCEPT !.port = PortOf(c)]
<1> DEFINE s == Written(c)
           n == Len(UserPart(c))
           n1 == Len(c.host)
           n2 == Len(PortPart(c))
           n3 == Len(c.path)
           n4 == Len(QueryPart(c))
           n5 == Len(FragmentPart(c))
           b == n + 1
           h == b + n1
           p == h + n2
           t == p + n3
           q == t + n4
<1>1. /\ s \in Seq(Character)
      /\ Len(s) = n + n1 + n2 + n3 + n4 + n5
      /\ At(s, n, c.host) /\ At(s, n + n1, PortPart(c)) /\ At(s, n + n1 + n2, c.path)
      /\ At(s, n + n1 + n2 + n3, QueryPart(c))
      /\ At(s, n + n1 + n2 + n3 + n4, FragmentPart(c))
  BY WrittenParts DEF Text
<1>2. /\ n \in Nat /\ n1 \in Nat /\ n2 \in Nat /\ n3 \in Nat
      /\ n4 \in Nat /\ n5 \in Nat /\ Len(s) \in Nat
  <2>1. \A x \in Text : Len(x) \in Nat  BY DEF Text
  <2>2. s \in Text  BY <1>1 DEF Text
  <2> QED  BY <2>1, <2>2, PartsAreTexts
<1>17. /\ n1 = Len(c.host) /\ n2 = Len(PortPart(c)) /\ n3 = Len(c.path)
       /\ n4 = Len(QueryPart(c)) /\ n5 = Len(FragmentPart(c)) /\ n = Len(UserPart(c))
       /\ s = Written(c)
  OBVIOUS
<1>18. /\ Shape(s, h, p, t, q) /\ b \in Nat \ {0} /\ b < h
       /\ \A i \in Nat : b <= i /\ i < h => s[i] \notin {":", "/"}
       /\ h <= Len(s) => s[h] \in {":", "/"}
  BY WrittenShape
<1>5. HostBegins(s) = b  BY HostBeginsAt
<1> HIDE DEF s, n, n1, n2, n3, n4, n5
<1>3. HostEnds(s, b) # {} /\ Max(HostEnds(s, b)) = h
  <2> HIDE DEF b, h, p, t, q
  <2> QED  BY <1>1, <1>18, HostEndsAt
<1>4. Ends(s, h) = [port |-> p, path |-> t, query |-> q]
  <2> HIDE DEF b, h, p, t, q
  <2> QED  BY <1>1, <1>18, EndsAre
<1>6. c.scheme \in DOMAIN DefaultPort /\ PortOf(c) < 65536  BY DEF Plain
<1>7. Parses(c.scheme, s)  BY <1>3, <1>5, <1>6 DEF Parses
<1>8. /\ c.host \in Seq(Character) /\ c.path \in Seq(Character)
      /\ c.query \in Seq(Character) /\ c.fragment \in Seq(Character)
      /\ c.user \in Seq(Character) /\ c.password \in Seq(Character)
  BY DEF WellFormed, Text
<1>9. SubSeq(s, b, h - 1) = c.host
  <2>0. SubSeq(s, n + 1, n + Len(c.host)) = c.host  BY <1>1, <1>8, PartAt
  <2>1. SubSeq(s, n + 1, n + n1) = c.host  BY <1>17, <2>0
  <2>2. h - 1 = n + n1  BY <1>2
  <2> QED  BY <2>1, <2>2
<1>10. SubSeq(s, p, t - 1) = c.path
  <2> DEFINE o == n + n1 + n2
  <2>1. At(s, o, c.path) /\ p = o + 1 /\ t - 1 = o + n3  BY <1>1, <1>2
  <2> HIDE DEF p, t, o
  <2>2. SubSeq(s, o + 1, o + n3) = c.path
    <3>1. s \in Seq(Character) /\ c.path \in Seq(Character)  BY <1>1, <1>8
    <3>2. SubSeq(s, o + 1, o + Len(c.path)) = c.path  BY <2>1, <3>1, PartAt
    <3> QED  BY <1>17, <3>2
  <2> QED  BY <2>1, <2>2
<1>11. SubSeq(s, t + 1, q - 1) = c.query
  <2>1. CASE c.query = <<>>
    <3>1. QueryPart(c) = <<>>  BY <2>1 DEF QueryPart
    <3>2. n4 = Len(<<>>)  BY <1>17, <3>1, Zenon
    <3>3. q = t /\ t \in Nat  BY <1>2, <3>2
    <3> HIDE DEF q, t
    <3>4. SubSeq(s, t + 1, q - 1) = <<>>  BY <1>1, <3>3
    <3> QED  BY <2>1, <3>4
  <2>2. CASE c.query # <<>>
    <3> DEFINE o == n + n1 + n2 + n3
               x == QueryPart(c)
    <3>1. x = <<"?">> \o c.query  BY <2>2 DEF QueryPart
    <3>2. Len(x) = Len(c.query) + 1 /\ \A i \in 1..Len(c.query) : x[1 + i] = c.query[i]
      BY <1>8, <3>1
    <3> DEFINE w == Len(c.query)
    <3>3. At(s, o, x) /\ o \in Nat /\ n4 = Len(x) /\ w \in Nat
      <4>1. At(s, o, x) /\ o \in Nat  BY <1>1, <1>2
      <4>2. n4 = Len(x)  BY <1>17
      <4>3. w \in Nat  BY <1>8
      <4> HIDE DEF o, x, w
      <4> QED  BY <4>1, <4>2, <4>3
    <3>6. Len(x) = w + 1  BY <3>2
    <3> HIDE DEF x, w
    <3>4. t + 1 = (o + 1) + 1 /\ q - 1 = (o + 1) + w
      BY <1>2, <3>3, <3>6
    <3> HIDE DEF o, t, q
    <3>5. At(s, o + 1, c.query)
      <4>1. o + 1 \in Nat /\ w \in Nat /\ o + 1 + w <= Len(s)
        <5>1. o + Len(x) <= Len(s)  BY <3>3 DEF At
        <5> QED  BY <1>2, <3>3, <3>6, <5>1
      <4>2. ASSUME NEW i \in 1..w PROVE s[o + 1 + i] = c.query[i]
        <5>1. 1 + i \in 1..Len(x) /\ o + (1 + i) = o + 1 + i  BY <3>3, <3>6
        <5>2. s[o + (1 + i)] = x[1 + i]  BY <3>3, <5>1 DEF At
        <5> QED  BY <3>2, <5>1, <5>2 DEF w
      <4> QED  BY <4>1, <4>2 DEF At, w
    <3>7. SubSeq(s, o + 1 + 1, o + 1 + w) = c.query  BY <1>1, <1>8, <3>5, PartAt DEF w
    <3> QED  BY <3>4, <3>7
  <2> QED  BY <2>1, <2>2
<1>12. SubSeq(s, q + 1, Len(s)) = c.fragment
  <2>1. CASE c.fragment = <<>>
    <3>1. FragmentPart(c) = <<>>  BY <2>1 DEF FragmentPart
    <3>2. n5 = Len(<<>>)  BY <1>17, <3>1, Zenon
    <3>3. q = Len(s) + 1  BY <1>1, <1>2, <3>2
    <3> HIDE DEF q
    <3>4. SubSeq(s, q + 1, Len(s)) = <<>>  BY <1>1, <3>3
    <3> QED  BY <2>1, <3>4
  <2>2. CASE c.fragment # <<>>
    <3> DEFINE o == n + n1 + n2 + n3 + n4
               x == FragmentPart(c)
    <3>1. x = <<"#">> \o c.fragment  BY <2>2 DEF FragmentPart
    <3>2. Len(x) = Len(c.fragment) + 1 /\ \A i \in 1..Len(c.fragment) : x[1 + i] = c.fragment[i]
      BY <1>8, <3>1
    <3> DEFINE w == Len(c.fragment)
    <3>3. At(s, o, x) /\ o \in Nat /\ n5 = Len(x) /\ w \in Nat
      <4>1. At(s, o, x) /\ o \in Nat  BY <1>1, <1>2
      <4>2. n5 = Len(x)  BY <1>17
      <4>3. w \in Nat  BY <1>8
      <4> HIDE DEF o, x, w
      <4> QED  BY <4>1, <4>2, <4>3
    <3>6. Len(x) = w + 1  BY <3>2
    <3> HIDE DEF x, w
    <3>4. q + 1 = (o + 1) + 1 /\ Len(s) = (o + 1) + w
      BY <1>1, <1>2, <3>3, <3>6
    <3> HIDE DEF o, q
    <3>5. At(s, o + 1, c.fragment)
      <4>1. o + 1 \in Nat /\ w \in Nat /\ o + 1 + w <= Len(s)
        <5>1. o + Len(x) <= Len(s)  BY <3>3 DEF At
        <5> QED  BY <1>2, <3>3, <3>6, <5>1
      <4>2. ASSUME NEW i \in 1..w PROVE s[o + 1 + i] = c.fragment[i]
        <5>1. 1 + i \in 1..Len(x) /\ o + (1 + i) = o + 1 + i  BY <3>3, <3>6
        <5>2. s[o + (1 + i)] = x[1 + i]  BY <3>3, <5>1 DEF At
        <5> QED  BY <3>2, <5>1, <5>2 DEF w
      <4> QED  BY <4>1, <4>2 DEF At, w
    <3>7. SubSeq(s, o + 1 + 1, o + 1 + w) = c.fragment  BY <1>1, <1>8, <3>5, PartAt DEF w
    <3> QED  BY <3>4, <3>7
  <2> QED  BY <2>1, <2>2
<1>13. /\ (IF HasUser(s) THEN SubSeq(s, 1, UserEnds(s) - 1) ELSE <<>>) = c.user
       /\ (IF HasUser(s) THEN SubSeq(s, UserEnds(s) + 1, b - 2) ELSE <<>>) = c.password
  <2>1. CASE c.user # <<>>
    <3>1. /\ HasUser(s) /\ UserEnds(s) = Len(c.user) + 1
          /\ n = Len(c.user) + Len(c.password) + 2
          /\ At(s, 0, c.user) /\ At(s, Len(c.user) + 1, c.password)
      BY <1>17, <2>1, HostBeginsAt
    <3>2. SubSeq(s, 0 + 1, 0 + Len(c.user)) = c.user  BY <1>1, <1>8, <3>1, PartAt
    <3> DEFINE o == Len(c.user) + 1
    <3>3. SubSeq(s, o + 1, o + Len(c.password)) = c.password  BY <1>1, <1>8, <3>1, PartAt
    <3>4. Len(c.user) \in Nat /\ Len(c.password) \in Nat  BY <1>8
    <3> DEFINE u == Len(c.user)
               w == Len(c.password)
    <3>7. UserEnds(s) = u + 1 /\ n = u + w + 2  BY <3>1
    <3>8. u \in Nat /\ w \in Nat  BY <3>4
    <3> HIDE DEF u, w
    <3>9. 0 + 1 = 1 /\ 0 + u = UserEnds(s) - 1  BY <3>7, <3>8
    <3>10. UserEnds(s) + 1 = u + 1 + 1 /\ b - 2 = u + 1 + w  BY <3>7, <3>8
    <3>5. 0 + 1 = 1 /\ 0 + Len(c.user) = UserEnds(s) - 1  BY <3>9 DEF u
    <3>6. UserEnds(s) + 1 = o + 1 /\ b - 2 = o + Len(c.password)  BY <3>10 DEF u, w
    <3> HIDE DEF b, o
    <3> QED  BY <3>1, <3>2, <3>3, <3>5, <3>6
  <2>2. CASE c.user = <<>>
    <3>1. ~HasUser(s) /\ c.password = <<>>  BY <1>17, <2>2, HostBeginsAt DEF WellFormed
    <3> QED  BY <2>2, <3>1
  <2> QED  BY <2>1, <2>2
<1>14. (IF p > h THEN Number[s[h + 1]] % 65536 ELSE DefaultPort[c.scheme]) = PortOf(c)
  <2>1. CASE c.port = <<>>
    <3>1. PortPart(c) = <<>>  BY <2>1 DEF PortPart
    <3>2. n2 = Len(<<>>)  BY <1>17, <3>1, Zenon
    <3>3. ~(p > h)  BY <1>2, <3>2
    <3> HIDE DEF p, h
    <3> QED  BY <2>1, <3>3 DEF PortOf
  <2>2. CASE c.port # <<>>
    <3>1. PICK d \in DOMAIN Number : c.port = <<d>>  BY <2>2 DEF WellFormed
    <3> DEFINE x == PortPart(c)
               o == n + n1
    <3>2. x = <<":">> \o <<d>>  BY <2>2, <3>1 DEF PortPart
    <3>3. x[2] = d /\ Len(x) = 2  BY <3>2
    <3>4. At(s, o, x) /\ o \in Nat /\ n2 = Len(x)  BY <1>1, <1>2, <1>17
    <3> HIDE DEF x
    <3>5. h + 1 = o + 2 /\ p > h  BY <1>2, <3>3, <3>4
    <3> HIDE DEF o, h, p
    <3>6. s[h + 1] = d  BY <3>3, <3>4, <3>5 DEF At
    <3>7. PortOf(c) = Number[d] /\ Number[d] \in Nat /\ Number[d] < 65536
      BY <1>6, <2>2, <3>1, CharactersCoded DEF PortOf
    <3>8. Number[d] % 65536 = Number[d]  BY <3>7
    <3> QED  BY <3>5, <3>6, <3>7, <3>8
  <2> QED  BY <2>1, <2>2
<1> HIDE DEF b, h, p, t, q
<1>15. Parse(c.scheme, s) =
         [scheme |-> c.scheme, user |-> c.user, password |-> c.password, host |-> c.host,
          port |-> PortOf(c), path |-> c.path, query |-> c.query, fragment |-> c.fragment]
  <2>1. /\ HostBegins(s) = b /\ Max(HostEnds(s, b)) = h
        /\ Ends(s, h).port = p /\ Ends(s, h).path = t /\ Ends(s, h).query = q
    BY <1>3, <1>4, <1>5
  <2> DEFINE us == IF HasUser(s) THEN SubSeq(s, 1, UserEnds(s) - 1) ELSE <<>>
             pw == IF HasUser(s) THEN SubSeq(s, UserEnds(s) + 1, b - 2) ELSE <<>>
             ho == SubSeq(s, b, h - 1)
             po == IF p > h THEN Number[s[h + 1]] % 65536 ELSE DefaultPort[c.scheme]
             pa == SubSeq(s, p, t - 1)
             qu == SubSeq(s, t + 1, q - 1)
             fr == SubSeq(s, q + 1, Len(s))
  <2>2. Parse(c.scheme, s) = [scheme |-> c.scheme, user |-> us, password |-> pw, host |-> ho,
                              port |-> po, path |-> pa, query |-> qu, fragment |-> fr]
    BY <2>1 DEF Parse
  <2>3. us = c.user /\ pw = c.password  BY <1>13
  <2>4. po = PortOf(c)  BY <1>14
  <2>5. ho = c.host /\ pa = c.path /\ qu = c.query /\ fr = c.fragment
    BY <1>9, <1>10, <1>11, <1>12
  <2> HIDE DEF us, pw, ho, po, pa, qu, fr
  <2> QED  BY <2>2, <2>3, <2>4, <2>5
<1>16. [c EXCEPT !.port = PortOf(c)] =
         [scheme |-> c.scheme, user |-> c.user, password |-> c.password, host |-> c.host,
          port |-> PortOf(c), path |-> c.path, query |-> c.query, fragment |-> c.fragment]
  BY DEF WellFormed
<1> QED  BY <1>7, <1>15, <1>16, <1>17
-----------------------------------------------------------------------------
(* What is left of a URI without its user, its fragment and, when it is    *)
(* the one of its scheme, its port.                                        *)
Shortened(c, port) ==
  [c EXCEPT !.user = <<>>, !.password = <<>>, !.fragment = <<>>, !.port = port]

LEMMA NumeralOf ==
  ASSUME NEW n, \E d \in DOMAIN Number : Number[d] = n
  PROVE  Numeral(n) \in DOMAIN Number /\ Number[Numeral(n)] = n
BY DEF Numeral

LEMMA ShortenedParts ==
  ASSUME NEW c, WellFormed(c), NEW port \in Text,
         port # <<>> => \E d \in DOMAIN Number : port = <<d>>
  PROVE  LET k == Shortened(c, port) IN
         /\ WellFormed(k)
         /\ k.scheme = c.scheme /\ k.user = <<>> /\ k.password = <<>> /\ k.host = c.host
         /\ k.port = port /\ k.path = c.path /\ k.query = c.query /\ k.fragment = <<>>
         /\ Written(k) = c.host \o (IF port = <<>> THEN <<>> ELSE <<":">> \o port)
                           \o c.path \o QueryPart(c)
<1> DEFINE k == Shortened(c, port)
<1>1. c \in [scheme : STRING, user : Text, password : Text, host : Text, port : Text,
             path : Text, query : Text, fragment : Text]
  BY DEF WellFormed
<1>2. <<>> \in Text  BY DEF Text
<1>3. k = [c EXCEPT !.user = <<>>, !.password = <<>>, !.fragment = <<>>, !.port = port]
  BY DEF Shortened
<1> HIDE DEF k
<1>4. /\ k.scheme = c.scheme /\ k.user = <<>> /\ k.password = <<>> /\ k.host = c.host
      /\ k.port = port /\ k.path = c.path /\ k.query = c.query /\ k.fragment = <<>>
  BY <1>1, <1>3
<1>5. WellFormed(k)
  <2>1. k \in [scheme : STRING, user : Text, password : Text, host : Text, port : Text,
               path : Text, query : Text, fragment : Text]
    BY <1>1, <1>2, <1>3
  <2>2. Free(<<>>, {":"}) /\ Free(<<>>, {"@"})  BY DEF Free
  <2> QED  BY <1>4, <2>1, <2>2 DEF WellFormed
<1>6. Written(k) = c.host \o (IF port = <<>> THEN <<>> ELSE <<":">> \o port)
                      \o c.path \o QueryPart(c)
  <2>1. /\ UserPart(k) = <<>> /\ FragmentPart(k) = <<>> /\ QueryPart(k) = QueryPart(c)
        /\ PortPart(k) = IF port = <<>> THEN <<>> ELSE <<":">> \o port
    BY <1>4 DEF UserPart, FragmentPart, QueryPart, PortPart
  <2>2. Written(k) = UserPart(k) \o k.host \o PortPart(k) \o k.path \o QueryPart(k)
                       \o FragmentPart(k)
    BY DEF Written, UserPart, FragmentPart, QueryPart, PortPart
  <2> DEFINE x == k.host  y == PortPart(k)  z == k.path  q == QueryPart(k)
  <2>3. x \in Seq(Character) /\ y \in Seq(Character) /\ z \in Seq(Character) /\ q \in Seq(Character)
    BY <1>5, PartsAreTexts DEF Text
  <2>4. Written(k) = <<>> \o x \o y \o z \o q \o <<>>  BY <2>1, <2>2
  <2> HIDE DEF x, y, z, q
  <2>5. <<>> \o x = x  BY <2>3
  <2>6. x \o y \in Seq(Character)  BY <2>3
  <2>7. (x \o y) \o z \in Seq(Character)  BY <2>3, <2>6
  <2>8. ((x \o y) \o z) \o q \in Seq(Character)  BY <2>3, <2>7
  <2>9. \A t \in Seq(Character) : t \o <<>> = t  OBVIOUS
  <2>10. Written(k) = x \o y \o z \o q  BY <2>4, <2>5, <2>8, <2>9
  <2> QED  BY <1>4, <2>1, <2>10 DEF x, y, z, q
<1> QED  BY <1>4, <1>5, <1>6 DEF k

LEMMA PairJoined ==
  ASSUME NEW a, NEW b
  PROVE  <<a>> \o <<b>> = <<a, b>>
<1> DEFINE v == <<a>> \o <<b>>
           w == <<a, b>>
<1>1. v \in Seq({a, b}) /\ Len(v) = 2 /\ v[1] = a /\ v[2] = b  OBVIOUS
<1>2. w \in Seq({a, b}) /\ Len(w) = 2 /\ w[1] = a /\ w[2] = b  OBVIOUS
<1> HIDE DEF v, w
<1>3. \A i \in 1..2 : v[i] = w[i]  BY <1>1, <1>2
<1>4. v = w  BY <1>1, <1>2, <1>3
<1> QED  BY <1>4 DEF v, w

(* Texts that differ in one place, with the same before or after them.     *)
Differ(a, b, k, d, e) ==
  /\ a \in Seq(Character) /\ b \in Seq(Character) /\ Len(a) = Len(b)
  /\ k \in 1..Len(a) /\ a[k] = d /\ b[k] = e
  /\ \A i \in 1..Len(a) : i # k => a[i] = b[i]

LEMMA DifferBefore ==
  ASSUME NEW a, NEW b, NEW k, NEW d, NEW e, Differ(a, b, k, d, e), NEW p \in Seq(Character)
  PROVE  Differ(a \o p, b \o p, k, d, e)
<1> DEFINE v == a \o p
           w == b \o p
<1>1. a \in Seq(Character) /\ b \in Seq(Character) /\ Len(a) = Len(b) /\ Len(a) \in Nat
      /\ Len(p) \in Nat /\ k \in 1..Len(a)
  BY DEF Differ
<1>2. v \in Seq(Character) /\ Len(v) = Len(a) + Len(p)
      /\ (\A i \in 1..Len(a) : v[i] = a[i]) /\ \A i \in 1..Len(p) : v[Len(a) + i] = p[i]
  BY <1>1
<1>3. w \in Seq(Character) /\ Len(w) = Len(a) + Len(p)
      /\ (\A i \in 1..Len(a) : w[i] = b[i]) /\ \A i \in 1..Len(p) : w[Len(a) + i] = p[i]
  BY <1>1
<1> HIDE DEF v, w
<1>4. ASSUME NEW i \in 1..Len(v), i # k PROVE v[i] = w[i]
  <2>1. CASE i \in 1..Len(a)  BY <1>2, <1>3, <1>4, <2>1 DEF Differ
  <2>2. CASE i \notin 1..Len(a)
    <3> DEFINE j == i - Len(a)
    <3>1. j \in 1..Len(p) /\ i = Len(a) + j  BY <1>1, <1>2, <2>2
    <3> HIDE DEF j
    <3> QED  BY <1>2, <1>3, <3>1
  <2> QED  BY <2>1, <2>2
<1>5. k \in 1..Len(v) /\ v[k] = d /\ w[k] = e  BY <1>1, <1>2, <1>3 DEF Differ
<1>6. Len(v) = Len(w)  BY <1>2, <1>3
<1>7. Differ(v, w, k, d, e)  BY <1>2, <1>3, <1>4, <1>5, <1>6 DEF Differ
<1> QED  BY <1>7 DEF v, w

LEMMA DifferAfter ==
  ASSUME NEW a, NEW b, NEW k, NEW d, NEW e, Differ(a, b, k, d, e), NEW p \in Seq(Character)
  PROVE  Differ(p \o a, p \o b, Len(p) + k, d, e)
<1> DEFINE v == p \o a
           w == p \o b
<1>1. a \in Seq(Character) /\ b \in Seq(Character) /\ Len(a) = Len(b) /\ Len(a) \in Nat
      /\ Len(p) \in Nat /\ k \in 1..Len(a)
  BY DEF Differ
<1>2. v \in Seq(Character) /\ Len(v) = Len(p) + Len(a)
      /\ (\A i \in 1..Len(p) : v[i] = p[i]) /\ \A i \in 1..Len(a) : v[Len(p) + i] = a[i]
  BY <1>1
<1>3. w \in Seq(Character) /\ Len(w) = Len(p) + Len(a)
      /\ (\A i \in 1..Len(p) : w[i] = p[i]) /\ \A i \in 1..Len(a) : w[Len(p) + i] = b[i]
  BY <1>1
<1> HIDE DEF v, w
<1>4. ASSUME NEW i \in 1..Len(v), i # Len(p) + k PROVE v[i] = w[i]
  <2>1. CASE i \in 1..Len(p)  BY <1>2, <1>3, <2>1
  <2>2. CASE i \notin 1..Len(p)
    <3> DEFINE j == i - Len(p)
    <3>1. j \in 1..Len(a) /\ i = Len(p) + j /\ j # k  BY <1>1, <1>2, <1>4, <2>2
    <3> HIDE DEF j
    <3>2. a[j] = b[j]  BY <3>1 DEF Differ
    <3> QED  BY <1>2, <1>3, <3>1, <3>2
  <2> QED  BY <2>1, <2>2
<1>5. Len(p) + k \in 1..Len(v) /\ v[Len(p) + k] = d /\ w[Len(p) + k] = e
  <2>1. Len(p) + k \in 1..Len(v)  BY <1>1, <1>2
  <2>2. a[k] = d /\ b[k] = e  BY DEF Differ
  <2>3. v[Len(p) + k] = a[k] /\ w[Len(p) + k] = b[k]  BY <1>1, <1>2, <1>3
  <2> QED  BY <2>1, <2>2, <2>3
<1>6. Len(v) = Len(w)  BY <1>2, <1>3
<1>7. Differ(v, w, Len(p) + k, d, e)  BY <1>2, <1>3, <1>4, <1>5, <1>6 DEF Differ
<1> QED  BY <1>7 DEF v, w

(* Which numeral stands for a port makes a URI no less plain.              *)
LEMMA PlainAnyNumeral ==
  ASSUME NEW c, WellFormed(c), NEW d \in DOMAIN Number, NEW e \in DOMAIN Number,
         Number[d] = Number[e],
         Plain(Shortened(c, <<d>>))
  PROVE  Plain(Shortened(c, <<e>>))
<1> DEFINE k == Shortened(c, <<d>>)
           m == Shortened(c, <<e>>)
           s == Written(k)
           t == Written(m)
           p == QueryPart(c)
<1>1. <<d>> \in Text /\ <<e>> \in Text
  <2>1. d \in Character /\ e \in Character  BY CharactersOfUris
  <2> QED  BY <2>1 DEF Text
<1>2. /\ k.scheme = c.scheme /\ k.port = <<d>> /\ k.user = <<>>
      /\ s = c.host \o (<<":">> \o <<d>>) \o c.path \o p
  BY <1>1, ShortenedParts
<1>3. /\ m.scheme = c.scheme /\ m.port = <<e>> /\ m.user = <<>>
      /\ t = c.host \o (<<":">> \o <<e>>) \o c.path \o p
  BY <1>1, ShortenedParts
<1>4. c.host \in Seq(Character) /\ c.path \in Seq(Character) /\ p \in Seq(Character)
  BY PartsAreTexts DEF Text
<1>5. ":" \in Character /\ d \in Character /\ e \in Character  BY CharactersOfUris
<1> HIDE DEF k, m, s, t, p
<1>6. Differ(s, t, Len(c.host) + 2, d, e)
  <2> DEFINE a == <<":">> \o <<d>>
             b == <<":">> \o <<e>>
  <2>1. a \in Seq(Character) /\ Len(a) = 2 /\ a[1] = ":" /\ a[2] = d  BY <1>5
  <2>2. b \in Seq(Character) /\ Len(b) = 2 /\ b[1] = ":" /\ b[2] = e  BY <1>5
  <2> HIDE DEF a, b
  <2>3. Differ(a, b, 2, d, e)  BY <2>1, <2>2 DEF Differ
  <2>4. Differ(c.host \o a, c.host \o b, Len(c.host) + 2, d, e)  BY <1>4, <2>3, DifferAfter
  <2>5. Differ((c.host \o a) \o c.path, (c.host \o b) \o c.path, Len(c.host) + 2, d, e)
    BY <1>4, <2>4, DifferBefore
  <2>6. Differ(((c.host \o a) \o c.path) \o p, ((c.host \o b) \o c.path) \o p,
               Len(c.host) + 2, d, e)
    BY <1>4, <2>5, DifferBefore
  <2> QED  BY <1>2, <1>3, <2>6 DEF a, b
<1>7. {d, e} \cap {":", "@"} = {}  BY PortsCanBeWritten
<1>8. ~ \E i, j \in 1..Len(s) : i < j /\ s[i] = ":" /\ s[j] = "@"  BY <1>2 DEF Plain, k, s
<1>9. ~ \E i, j \in 1..Len(t) : i < j /\ t[i] = ":" /\ t[j] = "@"  BY <1>6, <1>7, <1>8 DEF Differ
<1>10. PortOf(m) = PortOf(k)  BY <1>2, <1>3 DEF PortOf
<1>11. k.scheme \in DOMAIN DefaultPort /\ PortOf(k) < 65536  BY DEF Plain, k
<1>12. m.port # <<>>  BY <1>3
<1> QED  BY <1>2, <1>3, <1>9, <1>10, <1>11, <1>12 DEF Plain, m, t

(* What string() makes of a plain URI names the same resource again, where *)
(* that is plain without the parts that string() leaves out.               *)
THEOREM StringUnderstood ==
  ASSUME NEW c, WellFormed(c), Plain(c),
         NEW u, u = [c EXCEPT !.port = PortOf(c)],
         NEW k, k = Shortened(c, IF IsDefaultPort(u) THEN <<>> ELSE c.port), Plain(k)
  PROVE  Parse(c.scheme, UriString(u)) = [k EXCEPT !.port = u.port]
<1>1. /\ u.scheme = c.scheme /\ u.host = c.host /\ u.port = PortOf(c)
      /\ u.path = c.path /\ u.query = c.query
  BY DEF WellFormed
<1>2. c.scheme \in DOMAIN DefaultPort /\ PortOf(c) < 65536  BY DEF Plain
<1> DEFINE e == Numeral(PortOf(c))
           port == IF IsDefaultPort(u) THEN <<>> ELSE <<e>>
           m == Shortened(c, port)
<1>3. \E d \in DOMAIN Number : Number[d] = PortOf(c)
  <2>1. CASE c.port = <<>>  BY <1>2, <2>1, PortsCanBeWritten DEF PortOf
  <2>2. CASE c.port # <<>>  BY <2>2 DEF PortOf, WellFormed
  <2> QED  BY <2>1, <2>2
<1>4. e \in DOMAIN Number /\ Number[e] = PortOf(c) /\ e \in Character  BY <1>3, NumeralOf, CharactersOfUris
<1> HIDE DEF e
<1>5. port \in Text /\ (port # <<>> => \E d \in DOMAIN Number : port = <<d>>)
  <2>1. <<e>> \in Text /\ <<>> \in Text  BY <1>4 DEF Text
  <2> QED  BY <1>4, <2>1
<1>6. /\ WellFormed(m) /\ m.scheme = c.scheme /\ m.port = port
      /\ Written(m) = c.host \o (IF port = <<>> THEN <<>> ELSE <<":">> \o port)
                        \o c.path \o QueryPart(c)
  BY <1>5, ShortenedParts
<1>7. (IF port = <<>> THEN <<>> ELSE <<":">> \o port)
        = IF IsDefaultPort(u) THEN <<>> ELSE <<":", e>>
  <2>1. <<e>> # <<>>  OBVIOUS
  <2>2. <<":">> \o <<e>> = <<":", e>>  BY PairJoined
  <2> QED  BY <2>1, <2>2, Zenon
<1>8. UriString(u) = Written(m)
  <2>1. (IF u.query = <<>> THEN <<>> ELSE <<"?">> \o u.query) = QueryPart(c)
    BY <1>1 DEF QueryPart
  <2> HIDE DEF port, m
  <2> QED  BY <1>1, <1>6, <1>7, <2>1 DEF UriString, e
<1>9. Plain(m) /\ PortOf(m) = PortOf(c)
  <2>1. CASE IsDefaultPort(u)
    <3>1. m = k  BY <2>1
    <3>2. PortOf(m) = DefaultPort[c.scheme]  BY <1>6, <2>1 DEF PortOf
    <3>3. DefaultPort[c.scheme] = PortOf(c)  BY <1>1, <2>1 DEF IsDefaultPort
    <3> QED  BY <3>1, <3>2, <3>3
  <2>2. CASE ~IsDefaultPort(u)
    <3>1. c.port # <<>>  BY <1>1, <1>2, <2>2 DEF IsDefaultPort, PortOf
    <3>2. PICK d \in DOMAIN Number : c.port = <<d>>  BY <3>1 DEF WellFormed
    <3>3. Number[d] = PortOf(c)  BY <3>1, <3>2 DEF PortOf
    <3>4. Plain(Shortened(c, <<d>>))  BY <2>2, <3>2
    <3>5. Plain(Shortened(c, <<e>>))  BY <1>4, <3>3, <3>4, PlainAnyNumeral
    <3>6. m = Shortened(c, <<e>>)  BY <2>2
    <3>7. m.port = <<e>>  BY <1>6, <2>2
    <3>8. PortOf(m) = Number[e]
      <4>1. <<e>> # <<>> /\ <<e>>[1] = e  OBVIOUS
      <4> HIDE DEF m
      <4> QED  BY <3>7, <4>1 DEF PortOf
    <3> QED  BY <1>4, <3>5, <3>6, <3>8
  <2> QED  BY <2>1, <2>2
<1>10. Parse(m.scheme, Written(m)) = [m EXCEPT !.port = PortOf(m)]
  <2> HIDE DEF m
  <2> QED  BY <1>6, <1>9, ParseWritten
<1>11. [m EXCEPT !.port = PortOf(c)] = [k EXCEPT !.port = PortOf(c)]
  BY DEF Shortened, WellFormed
<1> QED  BY <1>1, <1>6, <1>8, <1>9, <1>10, <1>11
-----------------------------------------------------------------------------
(* What is taken apart, plain or not, gives a text for the host and a port *)
(* that can be written.                                                    *)
HasParts(u) ==
  /\ {"scheme", "host", "port", "query"} \subseteq DOMAIN u
  /\ u.host \in Text
  /\ \E d \in DOMAIN Number : Number[d] = u.port

LEMMA FindsWithin ==
  ASSUME NEW S, NEW s \in Seq(S), NEW C, NEW b \in Nat \ {0}
  PROVE  Find(s, C, b) \in Nat \ {0} /\ Find(s, C, b) <= Len(s) + 1
<1> DEFINE T == {i \in b..Len(s) : s[i] \in C} \cup {Len(s) + 1}
<1>1. T \subseteq Nat \ {0} /\ Len(s) + 1 \in T /\ Len(s) \in Nat  OBVIOUS
<1>2. Min(T) \in T /\ \A y \in T : Min(T) <= y  BY <1>1, LeastPlace
<1>3. Find(s, C, b) = Min(T)  BY DEF Find
<1> HIDE DEF T
<1> QED  BY <1>1, <1>2, <1>3

LEMMA ParsedHostEnds ==
  ASSUME NEW scheme, NEW s \in Text, Parses(scheme, s)
  PROVE  LET b == HostBegins(s) IN b \in Nat \ {0} /\ Max(HostEnds(s, b)) \in b + 1..Len(s) + 1
<1> DEFINE b == HostBegins(s)
           H == HostEnds(s, b)
           h == Max(H)
<1>1. s \in Seq(Character) /\ Len(s) \in Nat  BY DEF Text
<1>2. b \in Nat \ {0}
  <2> DEFINE ue == UserEnds(s)
             pe == PasswordEnds(s)
  <2>1. ue \in Nat \ {0}  BY <1>1, FindsWithin DEF UserEnds
  <2>2. ue + 1 \in Nat \ {0}  BY <2>1
  <2>3. pe = Find(s, {"@"}, ue + 1)  BY DEF PasswordEnds
  <2> HIDE DEF ue, pe
  <2>4. pe \in Nat \ {0}  BY <1>1, <2>2, <2>3, FindsWithin
  <2>5. b = IF HasUser(s) THEN pe + 1 ELSE 1  BY DEF HostBegins, pe
  <2> HIDE DEF b
  <2> QED  BY <2>4, <2>5
<1> HIDE DEF b
<1>3. H # {} /\ H \subseteq b + 1..Len(s) + 1
  <2>1. H # {}  BY DEF Parses, b
  <2>2. Find(s, {":", "/"}, b) \in Nat \ {0} /\ Find(s, {":", "/"}, b) <= Len(s) + 1
    BY <1>1, <1>2, FindsWithin
  <2>3. H \subseteq b + 1..Find(s, {":", "/"}, b)  BY DEF HostEnds
  <2> HIDE DEF H
  <2> QED  BY <1>1, <1>2, <2>1, <2>2, <2>3
<1>4. h \in b + 1..Len(s) + 1
  <2> DEFINE n == Len(s) + 1
  <2>1. n \in Nat /\ H \subseteq 0..n  BY <1>1, <1>2, <1>3
  <2> HIDE DEF n
  <2>2. h \in H  BY <1>3, <2>1, GreatestPlace
  <2> QED  BY <1>3, <2>2
<1> QED  BY <1>2, <1>4 DEF b

LEMMA ParsedHasParts ==
  ASSUME NEW scheme, NEW s \in Text, Parses(scheme, s)
  PROVE  HasParts(Parse(scheme, s)) /\ Parse(scheme, s).scheme = scheme
<1> DEFINE u == Parse(scheme, s)
           b == HostBegins(s)
           h == Max(HostEnds(s, b))
           p == Ends(s, h).port
<1>1. s \in Seq(Character) /\ Len(s) \in Nat  BY DEF Text
<1>2. b \in Nat \ {0} /\ h \in b + 1..Len(s) + 1  BY ParsedHostEnds
<1> HIDE DEF b
<1>3. h \in Nat  BY <1>1, <1>2
<1>4. SubSeq(s, b, h - 1) \in Text
  BY <1>1, <1>2, <1>3 DEF Text
<1>5. p > h => Is(s, h + 1, DOMAIN Number)
  BY <1>2, <1>3 DEF Ends
<1>6. p > h \/ scheme \in DOMAIN DefaultPort
  BY DEF Parses, b
<1>7. u.port = IF p > h THEN Number[s[h + 1]] % 65536 ELSE DefaultPort[scheme]
  BY DEF Parse, b
<1>8. \E d \in DOMAIN Number : Number[d] = u.port
  BY <1>5, <1>6, <1>7, PortsCanBeWritten DEF Is
<1>9. u.host = SubSeq(s, b, h - 1) /\ u.scheme = scheme
  <2> DEFINE x1 == IF HasUser(s) THEN SubSeq(s, 1, UserEnds(s) - 1) ELSE <<>>
             x2 == IF HasUser(s) THEN SubSeq(s, UserEnds(s) + 1, b - 2) ELSE <<>>
             x3 == SubSeq(s, b, h - 1)
             x4 == IF p > h THEN Number[s[h + 1]] % 65536 ELSE DefaultPort[scheme]
             x5 == SubSeq(s, p, Ends(s, h).path - 1)
             x6 == SubSeq(s, Ends(s, h).path + 1, Ends(s, h).query - 1)
             x7 == SubSeq(s, Ends(s, h).query + 1, Len(s))
  <2>1. u = [scheme |-> scheme, user |-> x1, password |-> x2, host |-> x3, port |-> x4,
             path |-> x5, query |-> x6, fragment |-> x7]
    BY DEF Parse, b
  <2> HIDE DEF u, x1, x2, x3, x4, x5, x6, x7
  <2>2. u.host = x3 /\ u.scheme = scheme  BY <2>1
  <2> QED  BY <2>2 DEF x3
<1>10. {"scheme", "host", "port", "query"} \subseteq DOMAIN u
  <2>1. DOMAIN u = {"scheme", "user", "password", "host", "port", "path", "query", "fragment"}
    BY DEF Parse
  <2> QED  BY <2>1
<1> QED  BY <1>4, <1>8, <1>9, <1>10 DEF HasParts

(* The key of an endpoint tells it from every other.                       *)
LEMMA KeyTells ==
  ASSUME NEW u, HasParts(u), NEW v, HasParts(v), Key(Details(u)) = Key(Details(v))
  PROVE  Details(u) = Details(v)
<1> DEFINE a == IF u.scheme = "https" THEN "https://" ELSE "http://"
           b == IF v.scheme = "https" THEN "https://" ELSE "http://"
           m == Numeral(u.port)
           n == Numeral(v.port)
           j == Key(Details(u))
           k == Key(Details(v))
           S == Character \cup {a, b, m, n}
           x == u.host
           y == v.host
<1>1. u.host \in Seq(Character) /\ v.host \in Seq(Character) /\ ":" \in Character
  BY CharactersOfUris DEF HasParts, Text
<1>2. Number[m] = u.port /\ Number[n] = v.port
  BY NumeralOf DEF HasParts
<1>3. j = <<a>> \o x \o <<":", m>> /\ k = <<b>> \o y \o <<":", n>>
  BY DEF Key, Details
<1> HIDE DEF a, b, m, n, j, k, x, y
<1>4. x \in Seq(S) /\ y \in Seq(S) /\ <<a>> \in Seq(S) /\ <<b>> \in Seq(S)
      /\ <<":", m>> \in Seq(S) /\ <<":", n>> \in Seq(S)
  <2>1. x \in Seq(Character) /\ y \in Seq(Character)  BY <1>1 DEF x, y
  <2>2. Character \subseteq S /\ {a, b, m, n, ":"} \subseteq S  BY <1>1
  <2> HIDE DEF S
  <2> QED  BY <2>1, <2>2
<1>0. a \in S /\ b \in S /\ m \in S /\ n \in S  OBVIOUS
<1> HIDE DEF S
<1>12. ASSUME NEW d \in S, NEW e \in S, NEW z \in Seq(S), <<d>> \in Seq(S),
              <<":", e>> \in Seq(S), NEW t, t = <<d>> \o z \o <<":", e>>
       PROVE  /\ Len(t) = Len(z) + 3 /\ Len(z) \in Nat /\ t[1] = d /\ t[Len(z) + 3] = e
              /\ \A i \in 1..Len(z) : t[i + 1] = z[i]
  <2> DEFINE f == <<d>>
             g == f \o z
             w == <<":", e>>
  <2>1. f \in Seq(S) /\ Len(f) = 1 /\ f[1] = d /\ w \in Seq(S) /\ Len(w) = 2 /\ w[2] = e
    BY <1>12
  <2> HIDE DEF f, w
  <2>2. g \in Seq(S) /\ Len(g) = Len(f) + Len(z) /\ Len(z) \in Nat /\ At(g, 0, f)
        /\ At(g, Len(f), z)
    BY <2>1, Joined
  <2> HIDE DEF g
  <2>3. t = g \o w  BY <1>12 DEF f, g, w
  <2>4. Len(t) = Len(g) + Len(w) /\ At(t, 0, g) /\ At(t, Len(g), w) /\ At(t, 0, f)
        /\ At(t, Len(f), z)
    BY <2>1, <2>2, <2>3, Joined, AtJoined
  <2>5. t[1] = d  BY <2>1, <2>4 DEF At
  <2>6. t[Len(z) + 3] = e  BY <2>1, <2>2, <2>4 DEF At
  <2>7. \A i \in 1..Len(z) : t[i + 1] = z[i]  BY <2>1, <2>2, <2>4 DEF At
  <2> QED  BY <2>1, <2>2, <2>4, <2>5, <2>6, <2>7
<1>5. /\ Len(j) = Len(x) + 3 /\ Len(x) \in Nat /\ j[1] = a /\ j[Len(x) + 3] = m
      /\ \A i \in 1..Len(x) : j[i + 1] = x[i]
  <2>1. a \in S /\ m \in S /\ x \in Seq(S) /\ <<a>> \in Seq(S) /\ <<":", m>> \in Seq(S)
    BY <1>0, <1>4
  <2>2. j = <<a>> \o x \o <<":", m>>  BY <1>3
  <2> HIDE DEF a, b, m, n, j, k, x, y
  <2> QED  BY <2>1, <2>2, <1>12
<1>6. /\ Len(k) = Len(y) + 3 /\ Len(y) \in Nat /\ k[1] = b /\ k[Len(y) + 3] = n
      /\ \A i \in 1..Len(y) : k[i + 1] = y[i]
  BY <1>0, <1>3, <1>4, <1>12
<1>7. j = k  BY DEF j, k
<1>8. a = b /\ m = n /\ Len(x) = Len(y) /\ \A i \in 1..Len(x) : x[i] = y[i]
  BY <1>5, <1>6, <1>7
<1>9. x = y  BY <1>4, <1>8
<1>10. (u.scheme = "https") = (v.scheme = "https")  BY <1>8 DEF a, b
<1> QED  BY <1>2, <1>8, <1>9, <1>10 DEF Details, x, y
-----------------------------------------------------------------------------
(* The inductive invariant: how far the request is, what the client knows  *)
(* of its URI, and where requests went.                                    *)
StageInv ==
  /\ stage \in {"idle", "uri", "refused", "request", "sent", "heard", "answered",
                "done", "failed", "untold"}
  /\ requests \in Nat
  /\ stage = "idle" => ~added
  /\ phase \in {"header", "size", "chunk", "last", "body", "stuck"} => HasResponse

AskedInv ==
  stage # "idle" =>
    /\ WellFormed(asked.uri)
    /\ stage # "refused" => HasParts(uri)
    /\ Plain(asked.uri) =>
         /\ stage # "refused"
         /\ uri.scheme = asked.uri.scheme /\ uri.host = asked.uri.host
         /\ uri.port = PortOf(asked.uri)
         /\ ~added => uri = [asked.uri EXCEPT !.port = PortOf(asked.uri)]

SentInv ==
  /\ \A k \in DOMAIN endpoints : endpoints[k] = limits
  /\ \A s \in sentTo : \E u : HasParts(u) /\ s = <<Details(u), Key(Details(u))>>
  /\ stage \in {"sent", "heard", "answered", "done", "failed", "untold"} =>
       <<Details(uri), conn>> \in sentTo

ExchangeInv == StageInv /\ AskedInv /\ SentInv

LEMMA InitExchange == Init => ExchangeInv
BY DEF Init, ExchangeInv, StageInv, AskedInv, SentInv

(* The steps between a request's being sent and its end.                   *)
Underway ==
  /\ UNCHANGED <<askVars, poolVars, conn>>
  /\ HasResponse
  /\ stage' \in {"sent", "heard", "answered", "done", "failed", "untold"}
  /\ phase' \in {"header", "size", "chunk", "last", "body", "stuck"} =>
       stage' \in {"sent", "heard", "answered"}

LEMMA UnderwayKeeps == ASSUME ExchangeInv, Underway PROVE ExchangeInv'
<1>1. StageInv'
  BY DEF ExchangeInv, StageInv, Underway, HasResponse, askVars
<1>2. AskedInv'
  BY DEF ExchangeInv, AskedInv, Underway, HasResponse, askVars
<1>3. SentInv'
  BY DEF ExchangeInv, SentInv, Underway, HasResponse, askVars, poolVars
<1> QED  BY <1>1, <1>2, <1>3 DEF ExchangeInv

LEMMA WriteUriKeeps == ASSUME ExchangeInv, WriteUri PROVE ExchangeInv'
<1> DEFINE w == asked'
           c == w.uri
           s == Written(c)
<1>1. /\ stage = "idle" /\ requests' = requests + 1 /\ w \in Work[requests + 1]
      /\ UNCHANGED <<added, poolVars, conn, phase>>
      /\ ~added
      /\ IF Parses(c.scheme, s) THEN stage' = "uri" /\ uri' = Parse(c.scheme, s)
                                ELSE stage' = "refused"
  BY DEF WriteUri, poolVars, connVars, ExchangeInv, StageInv
<1>2. requests \in Nat /\ requests + 1 \in 1..Len(Work)
  BY WorkWellFormed DEF WriteUri, ExchangeInv, StageInv
<1>3. WellFormed(c)  BY <1>1, <1>2, WorkWellFormed
<1>4. s \in Text
  BY <1>3, WrittenParts
<1> HIDE DEF w, c, s
<1>5. Parses(c.scheme, s) => HasParts(uri') /\ uri'.scheme = c.scheme
  BY <1>1, <1>4, ParsedHasParts
<1>6. Plain(c) => Parses(c.scheme, s) /\ uri' = [c EXCEPT !.port = PortOf(c)]
  BY <1>1, <1>3, ParseWritten DEF s
<1>7. Plain(c) => /\ uri'.scheme = c.scheme /\ uri'.host = c.host /\ uri'.port = PortOf(c)
  BY <1>3, <1>6 DEF WellFormed
<1>8. StageInv'
  BY <1>1, <1>2 DEF ExchangeInv, StageInv, HasResponse
<1>9. AskedInv'
  BY <1>1, <1>3, <1>5, <1>6, <1>7 DEF AskedInv, c, w, Plain, PortOf
<1>10. SentInv'
  BY <1>1 DEF ExchangeInv, SentInv, poolVars
<1> QED  BY <1>8, <1>9, <1>10 DEF ExchangeInv

LEMMA AddParamKeeps == ASSUME ExchangeInv, AddParam PROVE ExchangeInv'
<1>1. /\ stage = "uri" /\ added' = TRUE
      /\ UNCHANGED <<stage, requests, asked, poolVars, conn, phase>>
      /\ HasParts(uri)
  BY DEF AddParam, poolVars, connVars, ExchangeInv, AskedInv
<1>2. PICK q : uri' = [uri EXCEPT !.query = q]  BY DEF AddParam, AddQuery
<1>3. /\ DOMAIN uri' = DOMAIN uri
      /\ uri'.scheme = uri.scheme /\ uri'.host = uri.host /\ uri'.port = uri.port
  BY <1>1, <1>2 DEF HasParts
<1>4. HasParts(uri')  BY <1>1, <1>3 DEF HasParts
<1>5. StageInv'  BY <1>1 DEF ExchangeInv, StageInv, HasResponse
<1>6. AskedInv'  BY <1>1, <1>3, <1>4 DEF ExchangeInv, AskedInv
<1>7. SentInv'  BY <1>1 DEF ExchangeInv, SentInv, poolVars
<1> QED  BY <1>5, <1>6, <1>7 DEF ExchangeInv

LEMMA RequestKeeps == ASSUME ExchangeInv, Request PROVE ExchangeInv'
<1> DEFINE key == Key(Details(uri))
<1>1. /\ stage = "request" /\ stage' = "sent"
      /\ UNCHANGED <<requests, asked, uri, added, limits>>
      /\ endpoints' = [k \in DOMAIN endpoints \cup {key} |->
                        IF k \in DOMAIN endpoints THEN endpoints[k] ELSE limits]
      /\ sentTo' = sentTo \cup {<<Details(uri), key>>} /\ conn' = key
  BY DEF Request, Connect
<1>2. HasParts(uri)  BY <1>1 DEF ExchangeInv, AskedInv
<1> HIDE DEF key
<1>3. \A k \in DOMAIN endpoints' : endpoints'[k] = limits'
  BY <1>1 DEF ExchangeInv, SentInv
<1>4. \A s \in sentTo' : \E u : HasParts(u) /\ s = <<Details(u), Key(Details(u))>>
  BY <1>1, <1>2 DEF ExchangeInv, SentInv, key
<1>5. StageInv'  BY <1>1 DEF ExchangeInv, StageInv, HasResponse
<1>6. AskedInv'  BY <1>1 DEF ExchangeInv, AskedInv
<1>7. <<Details(uri), conn>>' \in sentTo'  BY <1>1 DEF Details
<1>8. SentInv'  BY <1>3, <1>4, <1>7 DEF SentInv
<1> QED  BY <1>5, <1>6, <1>8 DEF ExchangeInv

LEMMA SetLimitsKeeps == ASSUME ExchangeInv, NEW l, SetLimits(l) PROVE ExchangeInv'
<1>1. /\ limits' = l /\ endpoints' = [k \in DOMAIN endpoints |-> l]
      /\ UNCHANGED <<stage, askVars, sentTo, conn, phase>>
  BY DEF SetLimits, connVars
<1>2. StageInv'  BY <1>1 DEF ExchangeInv, StageInv, HasResponse, askVars
<1>3. AskedInv'  BY <1>1 DEF ExchangeInv, AskedInv, askVars
<1>4. SentInv'  BY <1>1 DEF ExchangeInv, SentInv, askVars
<1> QED  BY <1>2, <1>3, <1>4 DEF ExchangeInv

LEMMA RetryKeeps == ASSUME ExchangeInv, Retry PROVE ExchangeInv'
<1>1. /\ stage = "failed" /\ stage' = "sent" /\ conn' = conn
      /\ UNCHANGED <<askVars, poolVars>>
  BY DEF Retry, Connect
<1>2. StageInv'  BY <1>1 DEF ExchangeInv, StageInv, HasResponse, askVars
<1>3. AskedInv'  BY <1>1 DEF ExchangeInv, AskedInv, askVars
<1>4. SentInv'  BY <1>1 DEF ExchangeInv, SentInv, askVars, poolVars
<1> QED  BY <1>2, <1>3, <1>4 DEF ExchangeInv

(* The steps that leave the URI and the connections as they are.           *)
Aside ==
  /\ UNCHANGED <<requests, asked, uri, added, poolVars, conn, phase>>
  /\ stage \in {"uri", "request"} /\ stage' \in {stage, "request"}

LEMMA AsideKeeps == ASSUME ExchangeInv, Aside PROVE ExchangeInv'
<1>1. StageInv'  BY DEF ExchangeInv, StageInv, Aside, HasResponse
<1>2. AskedInv'  BY DEF ExchangeInv, AskedInv, Aside
<1>3. SentInv'  BY DEF ExchangeInv, SentInv, Aside, poolVars
<1> QED  BY <1>1, <1>2, <1>3 DEF ExchangeInv

LEMMA FinishKeeps == ASSUME ExchangeInv, Finish PROVE ExchangeInv'
<1>1. /\ stage \in {"refused", "done", "failed", "untold"} /\ stage' = "idle" /\ ~added'
      /\ UNCHANGED <<requests, poolVars, conn, phase>>
  BY DEF Finish, connVars
<1>2. StageInv'  BY <1>1 DEF ExchangeInv, StageInv, HasResponse
<1>3. AskedInv'  BY <1>1 DEF ExchangeInv, AskedInv
<1>4. SentInv'  BY <1>1 DEF ExchangeInv, SentInv, poolVars
<1> QED  BY <1>2, <1>3, <1>4 DEF ExchangeInv

LEMMA CallerKeeps == ASSUME ExchangeInv, Caller PROVE ExchangeInv'
<1>1. CASE WriteUri  BY <1>1, WriteUriKeeps
<1>2. CASE AddParam  BY <1>2, AddParamKeeps
<1>3. CASE MakeRequest
  <2>1. Aside  BY <1>3 DEF MakeRequest, Aside, poolVars, connVars
  <2> QED  BY <2>1, AsideKeeps
<1>4. CASE CallAddHeader \/ CallSetHeader \/ CallBody \/ CallAppendBody
  <2>1. \E op : CallSetter(op)
    BY <1>4 DEF CallAddHeader, CallSetHeader, CallBody, CallAppendBody
  <2>2. Aside  BY <2>1 DEF CallSetter, Aside, poolVars, connVars
  <2> QED  BY <2>2, AsideKeeps
<1>5. CASE \E n \in MaxConnections : SetMaxConnections(n)
  BY <1>5, SetLimitsKeeps DEF SetMaxConnections
<1>6. CASE \E on \in BOOLEAN : SetLimitConnections(on)
  BY <1>6, SetLimitsKeeps DEF SetLimitConnections
<1>7. CASE Request  BY <1>7, RequestKeeps
<1>8. CASE Retry  BY <1>8, RetryKeeps
<1>9. CASE Finish  BY <1>9, FinishKeeps
<1> QED  BY <1>1, <1>2, <1>3, <1>4, <1>5, <1>6, <1>7, <1>8, <1>9 DEF Caller

(* What the server and the network do is a step of a request underway,     *)
(* unless nothing was asked for: then what comes in changes nothing here.  *)
Stray ==
  /\ UNCHANGED <<stage, askVars, poolVars, conn>>
  /\ phase' \in {phase, "closed"}

LEMMA StrayKeeps == ASSUME ExchangeInv, Stray PROVE ExchangeInv'
<1>1. StageInv'  BY DEF ExchangeInv, StageInv, Stray, HasResponse, askVars
<1>2. AskedInv'  BY DEF ExchangeInv, AskedInv, Stray, askVars
<1>3. SentInv'  BY DEF ExchangeInv, SentInv, Stray, askVars, poolVars
<1> QED  BY <1>1, <1>2, <1>3 DEF ExchangeInv

LEMMA ReadKeeps == ASSUME ExchangeInv, Read PROVE ExchangeInv'
<1>0. ASSUME NEW p, ReadLine(p)
      PROVE  UNCHANGED <<askVars, poolVars, conn>> /\ phase = p
  BY <1>0 DEF ReadLine
<1>1. CASE StatusLine
  <2>1. Underway  BY <1>0, <1>1 DEF StatusLine, Underway, HasResponse
  <2> QED  BY <2>1, UnderwayKeeps
<1>2. CASE StrayLine
  <2>1. Stray  BY <1>0, <1>2 DEF StrayLine, Stray
  <2> QED  BY <2>1, StrayKeeps
<1>3. CASE HeaderLine
  <2>1. ReadLine("header") /\ stage' = stage  BY <1>3 DEF HeaderLine
  <2>2. HasResponse  BY <1>0, <2>1 DEF ExchangeInv, StageInv
  <2>3. Underway  BY <1>0, <2>1, <2>2 DEF Underway, HasResponse
  <2> QED  BY <2>3, UnderwayKeeps
<1>4. CASE HeadersEnd
  <2>1. ReadLine("header") /\ (\/ stage' = "failed" /\ phase' = "closed"
                               \/ stage' = stage)
    BY <1>4 DEF HeadersEnd
  <2>2. HasResponse  BY <1>0, <2>1 DEF ExchangeInv, StageInv
  <2>3. Underway  BY <1>0, <2>1, <2>2 DEF Underway, HasResponse
  <2> QED  BY <2>3, UnderwayKeeps
<1>5. CASE ChunkSize
  <2>1. ReadLine("size") /\ stage' = stage  BY <1>5 DEF ChunkSize
  <2>2. HasResponse  BY <1>0, <2>1 DEF ExchangeInv, StageInv
  <2>3. Underway  BY <1>0, <2>1, <2>2 DEF Underway, HasResponse
  <2> QED  BY <2>3, UnderwayKeeps
<1>6. CASE ChunkData
  <2>1. phase = "chunk" /\ stage' = stage /\ UNCHANGED <<askVars, poolVars, conn>>
    BY <1>6 DEF ChunkData
  <2>2. HasResponse  BY <2>1 DEF ExchangeInv, StageInv
  <2>3. Underway  BY <2>1, <2>2 DEF Underway, HasResponse
  <2> QED  BY <2>3, UnderwayKeeps
<1>7. ASSUME NEW data, Extract(data) PROVE stage' = "done" /\ phase' \in {"closed", "status"}
  BY <1>7 DEF Extract
<1>8. CASE LastLine
  <2>1. ReadLine("last") /\ stage' = "done" /\ phase' \in {"closed", "status"}
    BY <1>7, <1>8 DEF LastLine
  <2>2. HasResponse  BY <1>0, <2>1 DEF ExchangeInv, StageInv
  <2>3. Underway  BY <1>0, <2>1, <2>2 DEF Underway
  <2> QED  BY <2>3, UnderwayKeeps
<1>9. CASE ReadBody
  <2>1. /\ phase = "body" /\ UNCHANGED <<askVars, poolVars, conn>>
        /\ stage' = "done" /\ phase' \in {"closed", "status"}
    BY <1>7, <1>9 DEF ReadBody
  <2>2. HasResponse  BY <2>1 DEF ExchangeInv, StageInv
  <2>3. Underway  BY <2>1, <2>2 DEF Underway
  <2> QED  BY <2>3, UnderwayKeeps
<1> QED  BY <1>1, <1>2, <1>3, <1>4, <1>5, <1>6, <1>8, <1>9 DEF Read

LEMMA NextKeeps == ASSUME ExchangeInv, [Next]_vars PROVE ExchangeInv'
<1>1. CASE Caller  BY <1>1, CallerKeeps
<1>2. CASE Server
  <2>1. Underway
    BY <1>2 DEF Server, Hear, Answer, Underway, HasResponse, connVars, ExchangeInv, StageInv
  <2> QED  BY <2>1, UnderwayKeeps
<1>3. CASE Receiving
  <2>1. Stray  BY <1>3 DEF Receiving, Receive, Stray
  <2> QED  BY <2>1, StrayKeeps
<1>4. CASE Read  BY <1>4, ReadKeeps
<1>5. CASE Fail
  <2>1. Underway  BY <1>5 DEF Fail, Underway
  <2> QED  BY <2>1, UnderwayKeeps
<1>6. CASE UNCHANGED vars
  <2>1. Stray  BY <1>6 DEF vars, connVars, Stray
  <2> QED  BY <2>1, StrayKeeps
<1> QED  BY <1>1, <1>2, <1>3, <1>4, <1>5, <1>6 DEF Next

LEMMA Exchange == Spec => []ExchangeInv
<1>1. Init => ExchangeInv  BY InitExchange
<1>2. ExchangeInv /\ [Next]_vars => ExchangeInv'  BY NextKeeps
<1> QED  BY <1>1, <1>2, PTL DEF Spec

(* A plain URI is taken apart into what it was made of, for whatever parts *)
(* the caller gives it, and string() makes a URI of the same resource.     *)
THEOREM UriAlwaysUnderstood == Spec => []UriUnderstood
<1>1. ASSUME ExchangeInv PROVE UriUnderstood
  <2> SUFFICES ASSUME stage \in {"uri", "refused"}, ~added, Plain(asked.uri)
               PROVE  LET c == asked.uri
                          short == [c EXCEPT !.user = <<>>, !.password = <<>>, !.fragment = <<>>,
                                             !.port = IF IsDefaultPort(uri) THEN <<>> ELSE @]
                      IN /\ stage = "uri"
                         /\ uri = [c EXCEPT !.port = PortOf(c)]
                         /\ Plain(short) =>
                              Parse(c.scheme, UriString(uri)) = [short EXCEPT !.port = uri.port]
    BY DEF UriUnderstood
  <2> DEFINE c == asked.uri
             short == [c EXCEPT !.user = <<>>, !.password = <<>>, !.fragment = <<>>,
                                !.port = IF IsDefaultPort(uri) THEN <<>> ELSE @]
             k == Shortened(c, IF IsDefaultPort(uri) THEN <<>> ELSE c.port)
  <2>1. WellFormed(c) /\ stage = "uri" /\ uri = [c EXCEPT !.port = PortOf(c)]
    BY <1>1 DEF ExchangeInv, AskedInv
  <2>2. short = k  BY DEF Shortened
  <2> HIDE DEF c, short, k
  <2>3. Plain(c)  BY DEF c
  <2>4. Plain(k) => Parse(c.scheme, UriString(uri)) = [k EXCEPT !.port = uri.port]
    BY <2>1, <2>3, StringUnderstood DEF k
  <2> QED  BY <2>1, <2>2, <2>4 DEF c, short
<1> QED  BY <1>1, Exchange, PTL

(* Requests share a pool just when they are for the same host, port and    *)
(* use of TLS, whatever the host is called; a plain URI leads to the pool  *)
(* of its own endpoint; and the limits of a pool are those of the client,  *)
(* made before they were set or after.                                     *)
THEOREM EveryEndpointItsPool == Spec => []OwnPool
<1>1. ASSUME ExchangeInv PROVE OwnPool
  <2>1. \A k \in DOMAIN endpoints : endpoints[k] = limits
    BY <1>1 DEF ExchangeInv, SentInv
  <2>2. ASSUME NEW s \in sentTo, NEW t \in sentTo PROVE s[1] = t[1] <=> s[2] = t[2]
    <3>1. PICK u : HasParts(u) /\ s = <<Details(u), Key(Details(u))>>
      BY <1>1 DEF ExchangeInv, SentInv
    <3>2. PICK v : HasParts(v) /\ t = <<Details(v), Key(Details(v))>>
      BY <1>1 DEF ExchangeInv, SentInv
    <3>3. Key(Details(u)) = Key(Details(v)) => Details(u) = Details(v)
      BY <3>1, <3>2, KeyTells
    <3> QED  BY <3>1, <3>2, <3>3
  <2>3. ASSUME HasResponse, Plain(asked.uri)
        PROVE  LET c == asked.uri
               IN <<[tls |-> c.scheme = "https", host |-> c.host, port |-> PortOf(c)], conn>>
                    \in sentTo
    <3>1. <<Details(uri), conn>> \in sentTo
      BY <1>1, <2>3 DEF ExchangeInv, SentInv, HasResponse
    <3>2. /\ uri.scheme = asked.uri.scheme /\ uri.host = asked.uri.host
          /\ uri.port = PortOf(asked.uri)
      BY <1>1, <2>3 DEF ExchangeInv, AskedInv, HasResponse
    <3> QED  BY <3>1, <3>2 DEF Details
  <2> QED  BY <2>1, <2>2, <2>3 DEF OwnPool
<1> QED  BY <1>1, Exchange, PTL

-----------------------------------------------------------------------------
(* What the server hears.                                                  *)

(* The path and the query of a URI are of its characters, plain or not.    *)
LEMMA ParsedTexts ==
  ASSUME NEW scheme, NEW s \in Text, Parses(scheme, s)
  PROVE  Parse(scheme, s).path \in Text /\ Parse(scheme, s).query \in Text
         /\ DOMAIN Parse(scheme, s) = {"scheme", "user", "password", "host", "port", "path",
                                       "query", "fragment"}
<1> DEFINE u == Parse(scheme, s)
           b == HostBegins(s)
           h == Max(HostEnds(s, b))
           p == Ends(s, h).port
           t == Ends(s, h).path
           q == Ends(s, h).query
           m == Len(s) + 1
<1>1. s \in Seq(Character) /\ Len(s) \in Nat  BY DEF Text
<1>2. h \in Nat \ {0} /\ h <= m
  <2>1. b \in Nat \ {0} /\ h \in b + 1..m  BY ParsedHostEnds
  <2> HIDE DEF b, h
  <2> QED  BY <1>1, <2>1
<1> HIDE DEF h
<1>3. p = (IF Is(s, h, {":"}) /\ Is(s, h + 1, DOMAIN Number) THEN h + 2 ELSE h)
      /\ t = (IF Is(s, p, {"/"}) THEN Find(s, {"?", "#"}, p) ELSE p)
      /\ q = (IF Is(s, t, {"?"}) THEN Find(s, {"#"}, t) ELSE t)
  BY DEF Ends
<1> HIDE DEF p, t, q
<1>4. p \in Nat \ {0} /\ p <= m
  <2>1. Is(s, h + 1, DOMAIN Number) => h + 1 \in 1..Len(s)  BY DEF Is
  <2> QED  BY <1>1, <1>2, <1>3, <2>1
<1>5. t \in Nat \ {0} /\ t <= m
  <2>1. Find(s, {"?", "#"}, p) \in Nat \ {0} /\ Find(s, {"?", "#"}, p) <= m
    BY <1>1, <1>4, FindsWithin
  <2> QED  BY <1>3, <1>4, <2>1
<1>6. q \in Nat \ {0} /\ q <= m
  <2>1. Find(s, {"#"}, t) \in Nat \ {0} /\ Find(s, {"#"}, t) <= m
    BY <1>1, <1>5, FindsWithin
  <2> QED  BY <1>3, <1>5, <2>1
<1>7. SubSeq(s, p, t - 1) \in Text /\ SubSeq(s, t + 1, q - 1) \in Text
  <2>1. \A i, j \in Nat : i >= 1 /\ j <= m => SubSeq(s, i, j - 1) \in Seq(Character)
    <3> SUFFICES ASSUME NEW i \in Nat, NEW j \in Nat, i >= 1, j <= m
                 PROVE  SubSeq(s, i, j - 1) \in Seq(Character)
      OBVIOUS
    <3>1. \A n \in i..j - 1 : n \in 1..Len(s)  BY <1>1
    <3>2. CASE j = 0
      <4>1. SubSeq(s, i, j - 1) = <<>>  BY <1>1, <3>2
      <4> QED  BY <4>1
    <3>3. CASE j # 0
      <4>1. i \in 1..Len(s) + 2 \/ i > Len(s) + 2  BY <1>1
      <4>2. j - 1 \in 0..Len(s)  BY <1>1, <3>3
      <4> QED  BY <1>1, <4>2
    <3> QED  BY <3>2, <3>3
  <2>2. t + 1 \in Nat /\ t + 1 >= 1 /\ p >= 1  BY <1>4, <1>5
  <2> QED  BY <1>4, <1>5, <1>6, <2>1, <2>2 DEF Text
<1>8. u.path = SubSeq(s, p, t - 1) /\ u.query = SubSeq(s, t + 1, q - 1)
      /\ DOMAIN u = {"scheme", "user", "password", "host", "port", "path", "query", "fragment"}
  <2> DEFINE x1 == IF HasUser(s) THEN SubSeq(s, 1, UserEnds(s) - 1) ELSE <<>>
             x2 == IF HasUser(s) THEN SubSeq(s, UserEnds(s) + 1, b - 2) ELSE <<>>
             x3 == SubSeq(s, b, h - 1)
             x4 == IF p > h THEN Number[s[h + 1]] % 65536 ELSE DefaultPort[scheme]
             x5 == SubSeq(s, p, t - 1)
             x6 == SubSeq(s, t + 1, q - 1)
             x7 == SubSeq(s, q + 1, Len(s))
  <2>1. u = [scheme |-> scheme, user |-> x1, password |-> x2, host |-> x3, port |-> x4,
             path |-> x5, query |-> x6, fragment |-> x7]
    BY DEF Parse, p, t, q, h
  <2> HIDE DEF u, x1, x2, x3, x4, x5, x6, x7
  <2>2. u.path = x5 /\ u.query = x6
        /\ DOMAIN u = {"scheme", "user", "password", "host", "port", "path", "query", "fragment"}
    BY <2>1
  <2> QED  BY <2>2 DEF x5, x6
<1> QED  BY <1>7, <1>8

(* Codes and the lowest of them.                                           *)
LEMMA LowestIs ==
  ASSUME NEW s \in Seq(DOMAIN Code), NEW m \in Int, m <= 127
  PROVE  LowestCode(s) >= m <=> \A i \in 1..Len(s) : Code[s[i]] >= m
<1> DEFINE T == {Code[s[i]] : i \in 1..Len(s)} \cup {127}
           U == {x + 128 : x \in T}
<1>1. \A i \in 1..Len(s) : s[i] \in DOMAIN Code  OBVIOUS
<1>2. \A x \in T : x \in Int /\ x >= -128  BY <1>1, CodeIs
<1>3. 127 \in T /\ \A i \in 1..Len(s) : Code[s[i]] \in T  OBVIOUS
<1>4. \A x \in T : x = 127 \/ \E i \in 1..Len(s) : x = Code[s[i]]  OBVIOUS
<1>5. LowestCode(s) = Min(T)  BY DEF LowestCode
<1> HIDE DEF T
<1>6. PICK z \in T : \A y \in T : z <= y
  <2>1. U \subseteq Nat /\ U # {}
    <3>1. \A x \in T : x + 128 \in Nat  BY <1>2
    <3> QED  BY <1>3, <3>1
  <2>2. Min(U) \in U /\ \A y \in U : Min(U) <= y
    <3> HIDE DEF U
    <3> QED  BY <2>1, LeastPlace
  <2>3. PICK z \in T : Min(U) = z + 128  BY <2>2
  <2>4. ASSUME NEW y \in T PROVE z <= y
    <3>1. y + 128 \in U  OBVIOUS
    <3>2. z + 128 <= y + 128  BY <2>2, <2>3, <3>1
    <3> QED  BY <1>2, <3>2
  <2> QED  BY <2>4
<1>7. Min(T) \in T /\ \A y \in T : Min(T) <= y  BY <1>6 DEF Min
<1>8. Min(T) \in Int /\ Min(T) <= 127  BY <1>2, <1>3, <1>7
<1> DEFINE l == Min(T)
<1> HIDE DEF l
<1>9. ASSUME l >= m, NEW i \in 1..Len(s) PROVE Code[s[i]] >= m
  <2>1. l <= Code[s[i]] /\ Code[s[i]] \in Int /\ l \in Int  BY <1>2, <1>3, <1>7, <1>8 DEF l
  <2> QED  BY <1>9, <2>1
<1>10. ASSUME \A i \in 1..Len(s) : Code[s[i]] >= m PROVE l >= m
  <2>1. l = 127 \/ \E i \in 1..Len(s) : l = Code[s[i]]  BY <1>4, <1>7 DEF l
  <2> QED  BY <1>10, <2>1
<1> QED  BY <1>5, <1>9, <1>10 DEF l

(* What the texts of a request are made of: a query, a path with control   *)
(* characters escaped in it, and all of the request.                       *)
QuerySet == Character \cup EscapeSet \cup {"&", "="}
Blank == QuerySet \cup {Space}

SettersOfWork == UNION {UNION {{w.setters[i] : i \in 1..Len(w.setters)} : w \in Work[n]} : n \in 1..Len(Work)}

GlyphsOf(f) == {f.text[i] : i \in 1..Len(f.text)} \cup {f.name[i] : i \in 1..Len(f.name)}

Ordinary ==
  Blank \cup DOMAIN Number \cup DOMAIN Capital \cup {Capital[c] : c \in DOMAIN Capital}
    \cup {":", "\r", "\n", "HTTP/1.1", "H", "C", "-", "L"}
    \cup UNION {{w.method : w \in Work[n]} : n \in 1..Len(Work)}

Glyph == Ordinary \cup UNION {GlyphsOf(f) : f \in SettersOfWork}

LEMMA QuerySetIs ==
  /\ {Space, "\r", "\n"} \cap QuerySet = {} /\ {"\r", "\n"} \cap Blank = {}
  /\ QuerySet \subseteq Blank /\ Blank \subseteq Glyph
  /\ Character \subseteq QuerySet /\ EscapeSet \subseteq QuerySet
  /\ {"&", "=", "?", "/"} \subseteq QuerySet
<1>1. Space \notin {"&", "=", "\r", "\n"}  BY Zenon DEF Space
<1>2. {"&", "="} \cap {"\r", "\n"} = {}  OBVIOUS
<1>3. {Space, "\r", "\n"} \cap QuerySet = {}
  BY <1>1, <1>2, CharactersOfUris, SpacesAreWhite, EscapeSetIs DEF QuerySet
<1>4. {"?", "/"} \subseteq Character  BY CharactersOfUris
<1>5. QuerySet \subseteq Blank /\ Character \subseteq QuerySet /\ EscapeSet \subseteq QuerySet
      /\ {"&", "="} \subseteq QuerySet
  BY DEF QuerySet, Blank
<1>6. Blank \subseteq Glyph  BY DEF Glyph, Ordinary
<1>7. {"\r", "\n"} \cap Blank = {}  BY <1>1, <1>3 DEF Blank
<1> QED  BY <1>3, <1>4, <1>5, <1>6, <1>7

(* A text that is written out is one of its own characters.                *)
LEMMA TextIs ==
  ASSUME NEW x, IsText(x), NEW S, \A i \in 1..Len(x) : x[i] \in S
  PROVE  x \in Seq(S)
<1>1. Len(x) \in Nat /\ x = [i \in 1..Len(x) |-> x[i]]  BY DEF IsText
<1> DEFINE n == Len(x)
<1>2. x \in [1..n -> S]  BY <1>1
<1> HIDE DEF n
<1> QED  BY <1>1, <1>2 DEF n

LEMMA SetterTexts ==
  ASSUME NEW f \in SettersOfWork, WellSet(f)
  PROVE  /\ f.text \in Seq(Glyph)
         /\ f.op \in {"add_header", "set_header"} => f.name \in Seq(Glyph)
<1>1. GlyphsOf(f) \subseteq Glyph
  <2> DEFINE G == UNION {GlyphsOf(g) : g \in SettersOfWork}
  <2>1. G \subseteq Glyph  BY DEF Glyph
  <2>2. GlyphsOf(f) \subseteq G
    <3> HIDE DEF Glyph
    <3> QED  BY Zenon
  <2> QED  BY <2>1, <2>2
<1>2. \A i \in 1..Len(f.text) : f.text[i] \in Glyph  BY <1>1 DEF GlyphsOf
<1>3. \A i \in 1..Len(f.name) : f.name[i] \in Glyph  BY <1>1 DEF GlyphsOf
<1> QED  BY <1>2, <1>3, TextIs DEF WellSet, OneLine

(* Nothing that may be in a URI is white space.                            *)
LEMMA CharactersAreSolid ==
  /\ \A c \in Character : c \notin WhiteSpace /\ c # Space /\ c # "\r"
  /\ DOMAIN Number \subseteq Character
<1>1. WhiteSpace \cap Character = {} /\ DOMAIN Number \subseteq Character  BY CharactersOfUris
<1>2. Space \in WhiteSpace /\ "\r" \in WhiteSpace  BY SpacesAreWhite
<1> QED  BY <1>1, <1>2

(* What has no white space keeps its ends.                                 *)
LEMMA TrimNothing ==
  ASSUME NEW S, NEW v \in Seq(S), \A i \in 1..Len(v) : v[i] \notin WhiteSpace
  PROVE  Trim(v) = v
<1> DEFINE n == Len(v)
           T == {i \in 1..n : v[i] \notin WhiteSpace}
<1>1. n \in Nat /\ T = 1..n  OBVIOUS
<1>2. Trim(v) = IF T = {} THEN <<>> ELSE SubSeq(v, Min(T), Max(T))  BY DEF Trim
<1>3. CASE n = 0
  <2>1. v = <<>> /\ T = {}  BY <1>1, <1>3
  <2> QED  BY <1>2, <2>1
<1>4. CASE n # 0
  <2>1. 1 \in T /\ n \in T /\ (\A y \in T : 1 <= y /\ y <= n) /\ T \subseteq Nat /\ T \subseteq Int
    BY <1>1, <1>4
  <2>2. SubSeq(v, 1, n) = v  OBVIOUS
  <2> HIDE DEF T, n
  <2>3. Min(T) = 1 /\ Max(T) = n  BY <2>1, LeastUnique, GreatestUnique
  <2>4. T # {}  BY <2>1
  <2> QED  BY <1>2, <2>2, <2>3, <2>4
<1> QED  BY <1>3, <1>4

(* The name of a header, normalised, is of the same characters and of      *)
(* letters.                                                                *)
LEMMA NormalLetters ==
  ASSUME NEW k \in Seq(Glyph), \A i \in 1..Len(k) : k[i] \notin {":", "\r"}
  PROVE  /\ Normalise(k) \in Seq(Glyph)
         /\ \A i \in 1..Len(Normalise(k)) : Normalise(k)[i] \notin {":", "\r"}
<1> DEFINE n == Len(k)
           C == {":", "\r"}
<1>1. n \in Nat /\ (\A i \in 1..n : k[i] \in Glyph /\ k[i] \notin C)  OBVIOUS
<1>2. \A c \in DOMAIN Capital : c \notin C /\ Capital[c] \notin C /\ c \in Glyph /\ Capital[c] \in Glyph
  BY LettersOfNames DEF Glyph, Ordinary
<1> HIDE DEF C
<1>3. ASSUME NEW c, c \in Glyph, c \notin C
      PROVE  /\ Upper(c) \in Glyph /\ Upper(c) \notin C /\ Lower(c) \in Glyph /\ Lower(c) \notin C
  <2>1. Upper(c) = c \/ (c \in DOMAIN Capital /\ Upper(c) = Capital[c])  BY DEF Upper
  <2>2. Lower(c) = c \/ Lower(c) \in DOMAIN Capital  BY DEF Lower
  <2> QED  BY <1>2, <1>3, <2>1, <2>2
<1> DEFINE N == Normalise(k)
<1>4. N = [i \in 1..n |-> IF Begins(k, i) THEN Upper(k[i]) ELSE Lower(k[i])]
  BY DEF Normalise, Begins
<1>5. \A i \in 1..n : N[i] \in Glyph /\ N[i] \notin C  BY <1>1, <1>3, <1>4
<1>6. N = [i \in 1..n |-> N[i]]  BY <1>4
<1> HIDE DEF N, n
<1>7. N \in [1..n -> Glyph]  BY <1>5, <1>6
<1>8. N \in Seq(Glyph) /\ Len(N) = n  BY <1>1, <1>6, <1>7
<1> QED  BY <1>5, <1>8 DEF N, C

LEMMA HeaderPrintable ==
  ASSUME NEW k \in Seq(Glyph), \A i \in 1..Len(k) : k[i] \notin {":", "\r"},
         NEW v \in Seq(Glyph), \A i \in 1..Len(v) : v[i] # "\r", Trim(v) = v
  PROVE  Header(k, v) \in Printable(Glyph)
<1>1. Normalise(k) \in Seq(Glyph) /\ Normalise(Normalise(k)) = Normalise(k)
      /\ \A i \in 1..Len(Normalise(k)) : Normalise(k)[i] \notin {":", "\r"}
  BY NormalLetters, NormaliseOnce
<1> QED  BY <1>1 DEF Header, Printable

(* Headers that can be printed still can when one is added or set.         *)
LEMMA HeadersPrintable ==
  ASSUME NEW hs \in Seq(Printable(Glyph)),
         NEW k \in Seq(Glyph), \A i \in 1..Len(k) : k[i] \notin {":", "\r"},
         NEW v \in Seq(Glyph), \A i \in 1..Len(v) : v[i] # "\r", Trim(v) = v
  PROVE  /\ AddHeader(hs, k, v) \in Seq(Printable(Glyph))
         /\ SetHeader(hs, k, v) \in Seq(Printable(Glyph))
<1>1. Header(k, v) \in Printable(Glyph)  BY HeaderPrintable
<1>2. AddHeader(hs, k, v) \in Seq(Printable(Glyph))
  <2> HIDE DEF Header
  <2> QED  BY <1>1 DEF AddHeader
<1>3. CASE HaveHeader(hs, k)
  <2> DEFINE m == Min(Matching(hs, k))
             K == Seq(Glyph)
             R == [key : K, value : K]
             P == Printable(Glyph)
             new == SetHeader(hs, k, v)
             n == Len(hs)
  <2>1. P \subseteq R /\ hs \in Seq(P)  BY DEF Printable
  <2>2. hs \in Seq(R)
    <3> HIDE DEF P, R, K
    <3> QED  BY <2>1
  <2>3. hs \in Headers(K, K) /\ v \in K  BY <2>2 DEF Headers
  <2> HIDE DEF K
  <2>4. /\ m \in Matching(hs, k) /\ Len(new) = n
        /\ (\A i \in 1..n : new[i].key = hs[i].key) /\ new[m].value = v
        /\ \A i \in 1..n : i # m => new[i] = hs[i]
    BY <1>3, <2>3, ReplacedHeader
  <2>5. n \in Nat /\ m \in 1..n  BY <2>3, <2>4, MatchingBounds
  <2>6. new = [hs EXCEPT ![m].value = v]  BY <1>3 DEF SetHeader
  <2>7. hs \in [1..n -> R]
    <3> HIDE DEF R
    <3> QED  BY <2>2
  <2> HIDE DEF m
  <2>8. [hs[m] EXCEPT !.value = v] \in R /\ DOMAIN hs = 1..n
    BY <2>3, <2>5, <2>7
  <2>9. new = [i \in 1..n |-> IF i = m THEN [hs[m] EXCEPT !.value = v] ELSE hs[i]]
    <3> HIDE DEF new, n, R
    <3> QED  BY <2>5, <2>6, <2>8
  <2>10. new \in [1..n -> R]
    <3> HIDE DEF R
    <3> QED  BY <2>7, <2>8, <2>9
  <2> HIDE DEF new, n
  <2>11. ASSUME NEW i \in 1..n PROVE new[i] \in P
    <3>1. new[i] \in R /\ hs[i] \in P
      <4> HIDE DEF P, R
      <4> QED  BY <2>1, <2>10 DEF n
    <3>2. CASE i = m
      <4>1. new[i].key = hs[i].key /\ new[i].value = v  BY <2>4, <2>5, <3>2
      <4> QED  BY <3>1, <4>1 DEF Printable, K
    <3>3. CASE i # m  BY <2>4, <3>1, <3>3
    <3> QED  BY <3>2, <3>3
  <2> HIDE DEF P, R
  <2>12. new \in [1..n -> P]
    <3>1. new = [i \in 1..n |-> new[i]]  BY <2>10
    <3> QED  BY <2>11, <3>1
  <2>13. new \in Seq(P)  BY <2>5, <2>12
  <2> QED  BY <1>2, <2>13 DEF new, P
<1>4. CASE ~HaveHeader(hs, k)  BY <1>2, <1>4 DEF SetHeader
<1> QED  BY <1>2, <1>3, <1>4

-----------------------------------------------------------------------------
(* Texts joined.                                                           *)
LEMMA SeqWithin == ASSUME NEW S, NEW T, S \subseteq T PROVE Seq(S) \subseteq Seq(T)
OBVIOUS

(* The query that a request asks for: that of its URI and what was added.  *)
MoreOf(p, yes) == IF yes THEN Escape(p[1]) \o <<"=">> \o Escape(p[2]) ELSE <<>>
QueryOf(q, more) == q \o (IF q = <<>> \/ more = <<>> THEN <<>> ELSE <<"&">>) \o more
PathOf(p, q) == (IF p = <<>> THEN <<"/">> ELSE p) \o (IF q = <<>> THEN <<>> ELSE <<"?">> \o q)

Extended(q) == IF q = <<>> THEN q ELSE Append(q, "&")

LEMMA QueryAlone == ASSUME NEW S, NEW q \in Seq(S) PROVE QueryOf(q, <<>>) = q
BY NothingJoined DEF QueryOf

QueriesJoin(S) ==
  \A q, k, v \in Seq(S) : Extended(q) \o k \o <<"=">> \o v = QueryOf(q, k \o <<"=">> \o v)

LEMMA QueryWith == ASSUME NEW S, {"&", "="} \subseteq S PROVE QueriesJoin(S)
<1> SUFFICES ASSUME NEW q \in Seq(S), NEW k \in Seq(S), NEW v \in Seq(S)
             PROVE  Extended(q) \o k \o <<"=">> \o v = QueryOf(q, k \o <<"=">> \o v)
  BY DEF QueriesJoin
<1>0. Associative(S)  BY JoiningAssociates
<1> DEFINE e == <<"=">>
           a == <<"&">>
           ke == k \o e
           more == ke \o v
<1>1. e \in Seq(S) /\ Len(e) = 1 /\ a \in Seq(S)  OBVIOUS
<1>2. Append(q, "&") = q \o a  OBVIOUS
<1> HIDE DEF e, a
<1>3. ke \in Seq(S) /\ Len(ke) = Len(k) + 1 /\ Len(k) \in Nat  BY <1>1, Joined
<1> HIDE DEF ke
<1>4. more \in Seq(S) /\ Len(more) = Len(ke) + Len(v) /\ Len(v) \in Nat  BY <1>3, Joined
<1> HIDE DEF more
<1>5. more # <<>>  BY <1>3, <1>4
<1>6. CASE q = <<>>
  <2>1. (q \o k) \o e = ke  BY <1>6, NothingJoined DEF ke
  <2>2. QueryOf(q, more) = more
    <3>1. QueryOf(q, more) = (q \o <<>>) \o more  BY <1>6 DEF QueryOf
    <3>2. q \o <<>> = q /\ q \o more = more  BY <1>4, <1>6, NothingJoined
    <3> QED  BY <3>1, <3>2
  <2> QED  BY <1>6, <2>1, <2>2 DEF more, ke, e, Extended
<1>7. CASE q # <<>>
  <2> DEFINE p == q \o a
  <2>1. p \in Seq(S)  BY <1>1, Joined
  <2>2. QueryOf(q, more) = p \o more  BY <1>5, <1>7 DEF QueryOf, a
  <2> HIDE DEF p
  <2>3. (p \o k) \o e = p \o ke  BY <1>0, <1>1, <2>1 DEF Associative, ke
  <2>4. (p \o ke) \o v = p \o more  BY <1>0, <1>3, <2>1 DEF Associative, more
  <2> QED  BY <1>2, <1>7, <2>2, <2>3, <2>4 DEF p, more, ke, e, Extended
<1> QED  BY <1>6, <1>7

(* What query::escape makes of a text.                                     *)
LEMMA EscapeIs ==
  ASSUME NEW s \in Seq(DOMAIN Code)
  PROVE  /\ Escape(s) \in Seq(Blank)
         /\ (\A i \in 1..Len(s) : Code[s[i]] >= 16) =>
               Escape(s) \in Seq(EscapeSet) /\ Escape(s) = Encoded(s)
<1> DEFINE B == EscapeSet \cup {Space}
<1>1. Escape(s) \in Seq(B)  BY EscapedMadeOf DEF Escape
<1>2. B \subseteq Blank  BY DEF Blank, QuerySet
<1> HIDE DEF B
<1>3. Escape(s) \in Seq(Blank)  BY <1>1, <1>2, SeqWithin
<1> QED  BY <1>3, EscapedMadeOf DEF Escape, Encoded

LEMMA LowestOfJoined ==
  ASSUME NEW s \in Seq(DOMAIN Code), NEW t \in Seq(DOMAIN Code), LowestCode(s \o t) >= 16
  PROVE  /\ \A i \in 1..Len(s) : Code[s[i]] >= 16
         /\ \A i \in 1..Len(t) : Code[t[i]] >= 16
<1> DEFINE u == s \o t
<1>1. u \in Seq(DOMAIN Code) /\ Len(u) = Len(s) + Len(t) /\ Len(s) \in Nat /\ Len(t) \in Nat
      /\ At(u, 0, s) /\ At(u, Len(s), t)
  BY Joined
<1> HIDE DEF u
<1>2. \A i \in 1..Len(u) : Code[u[i]] >= 16
  <2>1. LowestCode(u) >= 16  BY DEF u
  <2>2. u \in Seq(DOMAIN Code) /\ 16 \in Int /\ 16 <= 127  BY <1>1
  <2>3. LowestCode(u) >= 16 <=> \A i \in 1..Len(u) : Code[u[i]] >= 16
    BY ONLY <2>2, LowestIs
  <2> QED  BY <2>1, <2>3
<1>3. ASSUME NEW i \in 1..Len(s) PROVE Code[s[i]] >= 16
  <2>1. u[0 + i] = s[i] /\ 0 + i \in 1..Len(u)  BY <1>1 DEF At
  <2> QED  BY <1>2, <2>1
<1>4. ASSUME NEW i \in 1..Len(t) PROVE Code[t[i]] >= 16
  <2>1. u[Len(s) + i] = t[i] /\ Len(s) + i \in 1..Len(u)  BY <1>1 DEF At
  <2> QED  BY <1>2, <2>1
<1> QED  BY <1>3, <1>4

-----------------------------------------------------------------------------
(* The invariant of a request, from the URI to what the server hears.      *)

(* All that was added is understood: no control characters.                *)
Hearable == added => LowestCode(asked.param[1] \o asked.param[2]) >= 16

(* The value that was added is what follows the last "=".                  *)
EndsWith(s, v) == \E x \in Seq(Blank) : s = x \o <<"=">> \o Escape(v)

AskedPart ==
  /\ stage # "idle" => requests \in 1..Len(Work) /\ asked \in Work[requests]
  /\ added => asked.param # <<>>
  /\ stage \in {"idle", "uri", "refused"} => calls = 0

UriPart ==
  stage = "uri" =>
    /\ "path" \in DOMAIN uri /\ uri.path \in Text /\ uri.query \in Seq(Blank)
    /\ Hearable => uri.query \in Seq(QuerySet)
    /\ Plain(asked.uri) =>
         /\ uri.path = asked.uri.path
         /\ uri.query = QueryOf(asked.uri.query, MoreOf(asked.param, added))
    /\ added => EndsWith(uri.query, asked.param[2])

Begun == stage \in {"request", "sent", "heard", "answered", "done", "failed", "untold"}

ReqPart ==
  Begun =>
    /\ req \in [method : Seq(Glyph), path : Seq(Blank), version : {<<"HTTP/1.1">>},
                headers : Seq(Printable(Glyph)), body : Seq(Glyph)]
    /\ stage # "request" => req.method = <<asked.method>> /\ calls = Len(asked.setters)
    /\ Hearable => req.path \in Seq(QuerySet)
    /\ Plain(asked.uri) =>
         req.path = PathOf(asked.uri.path, QueryOf(asked.uri.query, MoreOf(asked.param, added)))
    /\ added => EndsWith(req.path, asked.param[2])

HeadersPart ==
  Begun =>
    /\ calls \in 0..Len(asked.setters)
    /\ Plain(asked.uri) /\ (\A i \in 1..calls : ~Names(asked.setters[i], "set_header", <<"h">>)) =>
         HaveHeader(req.headers, <<"h">>) /\ HeaderValue(req.headers, <<"h">>) = asked.uri.host
    /\ \A i \in 1..calls :
         /\ asked.setters[i].op = "body"
         /\ \A j \in i + 1..calls : ~OfLength(asked.setters[j])
         => /\ HaveHeader(req.headers, <<"c", "-", "l">>)
            /\ HeaderValue(req.headers, <<"c", "-", "l">>) = <<Numeral(Len(req.body))>>
            /\ \E d \in DOMAIN Number : Number[d] = Len(req.body)

HeardPart ==
  stage = "heard" =>
    /\ heard.headers = req.headers
    /\ Hearable => heard.path = req.path /\ heard.method = req.method

ServerInv == AskedPart /\ UriPart /\ ReqPart /\ HeadersPart /\ HeardPart

(* What was asked for is well-formed, and all of it is of glyphs.          *)
LEMMA AskedIs ==
  ASSUME AskedPart, stage # "idle"
  PROVE  /\ WellFormed(asked.uri)
         /\ added => asked.param[1] \in Seq(DOMAIN Code) /\ asked.param[2] \in Seq(DOMAIN Code)
         /\ Len(asked.setters) \in Nat
         /\ \A i \in 1..Len(asked.setters) :
              WellSet(asked.setters[i]) /\ asked.setters[i] \in SettersOfWork
         /\ asked.method \notin {Space, "\r", "\n"} /\ <<asked.method>> \in Seq(Glyph)
<1>1. requests \in 1..Len(Work) /\ asked \in Work[requests] /\ (added => asked.param # <<>>)
  BY DEF AskedPart
<1>2. /\ WellFormed(asked.uri)
      /\ asked.param # <<>> => {asked.param[1], asked.param[2]} \subseteq Seq(DOMAIN Code)
      /\ Len(asked.setters) \in Nat /\ \A i \in 1..Len(asked.setters) : WellSet(asked.setters[i])
      /\ asked.method \notin {Space, "\r", "\n"}
  BY <1>1, WorkWellFormed
<1>3. ASSUME NEW i \in 1..Len(asked.setters) PROVE asked.setters[i] \in SettersOfWork
  BY <1>1 DEF SettersOfWork
<1>4. asked.method \in Glyph
  <2> DEFINE M == UNION {{w.method : w \in Work[n]} : n \in 1..Len(Work)}
  <2>1. M \subseteq Ordinary  BY DEF Ordinary
  <2>2. asked.method \in M  BY <1>1
  <2> HIDE DEF M
  <2> QED  BY <2>1, <2>2 DEF Glyph
<1> QED  BY <1>1, <1>2, <1>3, <1>4

LEMMA InitServer == Init => ServerInv
BY DEF Init, ServerInv, AskedPart, UriPart, ReqPart, HeadersPart, HeardPart, Begun

(* The steps that leave the request, and what was heard of it, alone.      *)
Quiet ==
  /\ UNCHANGED <<askVars, heard>>
  /\ \/ UNCHANGED stage
     \/ /\ stage \in {"sent", "heard", "answered", "done", "failed", "untold"}
        /\ stage' \in {"sent", "answered", "done", "failed", "untold"}

LEMMA QuietServer == ASSUME ServerInv, Quiet PROVE ServerInv'
<1>1. AskedPart'  BY DEF ServerInv, AskedPart, Quiet, askVars
<1>2. UriPart'  BY DEF ServerInv, UriPart, Quiet, askVars, Hearable, EndsWith
<1>3. ReqPart'  BY DEF ServerInv, ReqPart, Quiet, askVars, Hearable, EndsWith, Begun
<1>4. HeadersPart'  BY DEF ServerInv, HeadersPart, Quiet, askVars, Begun
<1>5. HeardPart'  BY DEF ServerInv, HeardPart, Quiet, askVars, Hearable
<1> QED  BY <1>1, <1>2, <1>3, <1>4, <1>5 DEF ServerInv

LEMMA FinishServer == ASSUME Finish PROVE ServerInv'
BY DEF Finish, ServerInv, AskedPart, UriPart, ReqPart, HeadersPart, HeardPart, Begun

LEMMA WriteUriServer == ASSUME ExchangeInv, ServerInv, WriteUri PROVE ServerInv'
<1> DEFINE w == asked'
           c == w.uri
           s == Written(c)
<1>1. /\ stage = "idle" /\ requests' = requests + 1 /\ w \in Work[requests + 1]
      /\ ~added' /\ UNCHANGED calls /\ requests \in Nat /\ requests + 1 \in 1..Len(Work)
      /\ IF Parses(c.scheme, s) THEN stage' = "uri" /\ uri' = Parse(c.scheme, s)
                                ELSE stage' = "refused"
  BY WorkWellFormed DEF WriteUri, ExchangeInv, StageInv
<1>2. WellFormed(c)  BY <1>1, WorkWellFormed
<1>3. s \in Text  BY <1>2, WrittenParts
<1> HIDE DEF w, c, s
<1>4. AskedPart'  BY <1>1 DEF ServerInv, AskedPart, w
<1>5. UriPart'
  <2> SUFFICES ASSUME stage' = "uri"
               PROVE  /\ "path" \in DOMAIN uri' /\ uri'.path \in Text /\ uri'.query \in Seq(Blank)
                      /\ uri'.query \in Seq(QuerySet)
                      /\ Plain(c) => /\ uri'.path = c.path
                                     /\ uri'.query = QueryOf(c.query, <<>>)
    BY <1>1 DEF UriPart, MoreOf, c, w
  <2>1. Parses(c.scheme, s) /\ uri' = Parse(c.scheme, s)  BY <1>1
  <2>2. "path" \in DOMAIN uri' /\ uri'.path \in Text /\ uri'.query \in Text
    BY <1>3, <2>1, ParsedTexts
  <2>3. Text \subseteq Seq(QuerySet) /\ Text \subseteq Seq(Blank)
    BY QuerySetIs, SeqWithin DEF Text
  <2>4. Plain(c) => uri' = [c EXCEPT !.port = PortOf(c)]  BY <1>2, <2>1, ParseWritten DEF s
  <2>5. Plain(c) => uri'.path = c.path /\ uri'.query = c.query  BY <1>2, <2>4 DEF WellFormed
  <2>6. QueryOf(c.query, <<>>) = c.query  BY <1>2, QueryAlone DEF WellFormed, Text
  <2> QED  BY <2>2, <2>3, <2>5, <2>6
<1>6. ReqPart' /\ HeadersPart' /\ HeardPart'  BY <1>1 DEF ReqPart, HeadersPart, HeardPart, Begun
<1> QED  BY <1>4, <1>5, <1>6 DEF ServerInv

LEMMA AddParamServer == ASSUME ExchangeInv, ServerInv, AddParam PROVE ServerInv'
<1> DEFINE p == asked.param
           q == uri.query
           k == Escape(p[1])
           v == Escape(p[2])
           pre == Extended(q)
           new == pre \o k \o <<"=">> \o v
<1>1. /\ stage = "uri" /\ p # <<>> /\ ~added /\ added' = TRUE
      /\ UNCHANGED <<stage, requests, asked, req, calls, heard>>
      /\ uri' = [uri EXCEPT !.query = new]
  BY DEF AddParam, AddQuery, Extended
<1>2. AskedPart'  BY <1>1 DEF ServerInv, AskedPart
<1>3. /\ HasParts(uri) /\ WellFormed(asked.uri)
      /\ "path" \in DOMAIN uri /\ uri.path \in Text /\ q \in Seq(QuerySet)
      /\ Plain(asked.uri) => /\ uri.path = asked.uri.path
                             /\ q = QueryOf(asked.uri.query, <<>>)
  BY <1>1 DEF ExchangeInv, AskedInv, ServerInv, UriPart, Hearable, MoreOf
<1>4. p[1] \in Seq(DOMAIN Code) /\ p[2] \in Seq(DOMAIN Code)
  <2>1. added' => /\ asked'.param[1] \in Seq(DOMAIN Code) /\ asked'.param[2] \in Seq(DOMAIN Code)
    <3>1. requests \in 1..Len(Work) /\ asked \in Work[requests]
      BY <1>1 DEF ServerInv, AskedPart
    <3> QED  BY <1>1, <3>1, WorkWellFormed
  <2> QED  BY <1>1, <2>1
<1>5. uri'.query = new /\ uri'.path = uri.path /\ DOMAIN uri' = DOMAIN uri
  BY <1>1, <1>3 DEF HasParts
<1> DEFINE x == pre \o k
<1>6. k \in Seq(Blank) /\ v \in Seq(Blank) /\ q \in Seq(Blank)
  BY <1>3, <1>4, EscapeIs, QuerySetIs, SeqWithin
<1>7. {"&", "="} \subseteq QuerySet /\ {"&", "="} \subseteq Blank  BY QuerySetIs
<1> HIDE DEF p, q, k, v
<1>8. pre \in Seq(Blank) /\ pre \in Seq(QuerySet)
  BY <1>3, <1>6, <1>7 DEF Extended
<1>9. new = x \o <<"=">> \o v  OBVIOUS
<1> HIDE DEF pre
<1>10. x \in Seq(Blank) /\ new \in Seq(Blank)
  <2>1. x \in Seq(Blank)  BY <1>6, <1>8
  <2>2. <<"=">> \in Seq(Blank)  BY <1>7
  <2> HIDE DEF x
  <2>3. x \o <<"=">> \in Seq(Blank)  BY <2>1, <2>2, Joined
  <2>4. (x \o <<"=">>) \o v \in Seq(Blank)  BY <1>6, <2>3, Joined
  <2> QED  BY <1>9, <2>1, <2>4
<1>11. ASSUME Hearable' PROVE new \in Seq(QuerySet)
  <2>1. LowestCode(p[1] \o p[2]) >= 16  BY <1>1, <1>11 DEF Hearable, p
  <2>2. k \in Seq(EscapeSet) /\ v \in Seq(EscapeSet)
    BY <1>4, <2>1, LowestOfJoined, EscapeIs DEF k, v
  <2>3. k \in Seq(QuerySet) /\ v \in Seq(QuerySet)  BY <2>2, QuerySetIs, SeqWithin
  <2>4. <<"=">> \in Seq(QuerySet)  BY <1>7
  <2>5. x \in Seq(QuerySet)  BY <1>8, <2>3, Joined
  <2> HIDE DEF x, new
  <2>6. x \o <<"=">> \in Seq(QuerySet)  BY <2>4, <2>5, Joined
  <2>7. (x \o <<"=">>) \o v \in Seq(QuerySet)  BY <2>3, <2>6, Joined
  <2> QED  BY <1>9, <2>7
<1>12. ASSUME Plain(asked.uri) PROVE new = QueryOf(asked.uri.query, MoreOf(p, TRUE))
  <2>1. q = asked.uri.query  BY <1>3, <1>12, QueryAlone DEF WellFormed, Text
  <2>0. QueriesJoin(Blank)  BY <1>7, QueryWith
  <2>2. Extended(q) \o k \o <<"=">> \o v = QueryOf(q, k \o <<"=">> \o v)
    BY <1>6, <2>0 DEF QueriesJoin
  <2> QED  BY <2>1, <2>2 DEF MoreOf, k, v, new, pre
<1>13. EndsWith(new, p[2])
  <2> HIDE DEF new, x
  <2> QED  BY <1>9, <1>10 DEF EndsWith, v
<1>14. UriPart'
  <2> HIDE DEF new, x
  <2> QED  BY <1>1, <1>3, <1>5, <1>10, <1>11, <1>12, <1>13 DEF UriPart, p
<1>15. ReqPart' /\ HeadersPart' /\ HeardPart'  BY <1>1 DEF ReqPart, HeadersPart, HeardPart, Begun
<1> QED  BY <1>2, <1>14, <1>15 DEF ServerInv

-----------------------------------------------------------------------------
(* A request is made of the URI.                                           *)
LEMMA EndsKept ==
  ASSUME NEW w, Escape(w) \in Seq(Blank), NEW q, EndsWith(q, w), NEW b \in Seq(Blank)
  PROVE  EndsWith(b \o q, w)
<1> DEFINE v == Escape(w)
<1>1. PICK x \in Seq(Blank) : q = x \o <<"=">> \o v  BY DEF EndsWith
<1> DEFINE e == <<"=">>
           m == x \o e
           y == b \o x
<1>2. e \in Seq(Blank)  BY QuerySetIs
<1> HIDE DEF e, v
<1>0. Associative(Blank)  BY JoiningAssociates
<1>3. b \o m = y \o e  BY <1>0, <1>2 DEF Associative
<1>4. m \in Seq(Blank) /\ y \in Seq(Blank)  BY <1>2, Joined
<1> HIDE DEF m, y
<1>5. v \in Seq(Blank)  BY DEF v
<1>6. b \o (m \o v) = (b \o m) \o v
  <2>1. m \in Seq(Blank) /\ b \in Seq(Blank) /\ v \in Seq(Blank)  BY <1>4, <1>5
  <2> QED  BY ONLY <1>0, <2>1 DEF Associative
<1>7. b \o q = y \o e \o v  BY <1>1, <1>3, <1>6 DEF m, e
<1> QED  BY <1>4, <1>7 DEF EndsWith, e, v

(* Where a header is added, the first of each name stays.                  *)
LEMMA AddKeepsFirst ==
  ASSUME NEW K, NEW V, NEW hs \in Headers(K, V), NEW k, NEW v, NEW j, HaveHeader(hs, j)
  PROVE  /\ HaveHeader(AddHeader(hs, k, v), j)
         /\ HeaderValue(AddHeader(hs, k, v), j) = HeaderValue(hs, j)
<1> DEFINE new == AddHeader(hs, k, v)
           n == Len(hs)
           m == Min(Matching(hs, j))
<1>1. Len(new) = n + 1 /\ \A i \in 1..n : new[i] = hs[i]  BY AddedHeader
<1>2. m \in Matching(hs, j) /\ (\A y \in Matching(hs, j) : m <= y) /\ n \in Nat
      /\ Matching(hs, j) \subseteq 1..n
  BY MatchingBounds, LeastPlace DEF HaveHeader
<1> HIDE DEF new, m, n
<1>3. m \in 1..n /\ new[m] = hs[m]  BY <1>1, <1>2
<1>4. m \in Matching(new, j) /\ \A y \in Matching(new, j) : y \in Matching(hs, j) \/ y = n + 1
  BY <1>1, <1>2 DEF Matching, Matches, n
<1>5. Matching(new, j) \subseteq Nat /\ \A y \in Matching(new, j) : m <= y
  <2> SUFFICES ASSUME NEW y \in Matching(new, j) PROVE y \in Nat /\ m <= y
    OBVIOUS
  <2>1. CASE y \in Matching(hs, j)
    <3>1. m <= y /\ y \in 1..n  BY <1>2, <2>1
    <3> QED  BY <3>1
  <2>2. CASE y = n + 1  BY <1>2, <1>3, <2>2
  <2> QED  BY <1>4, <2>1, <2>2
<1>6. Min(Matching(new, j)) = m  BY <1>4, <1>5, LeastUnique
<1> QED  BY <1>3, <1>4, <1>6 DEF HaveHeader, HeaderValue, new, m

(* The names that a client gives headers, and those a server looks for.    *)
LEMMA KnownNames ==
  /\ <<"H">> \in Seq(Glyph) /\ <<"h">> \in Seq(Glyph)
  /\ <<"C", "-", "L">> \in Seq(Glyph) /\ <<"c", "-", "l">> \in Seq(Glyph)
  /\ Normalise(<<"h">>) = Normalise(<<"H">>)
  /\ Normalise(<<"c", "-", "l">>) = Normalise(<<"C", "-", "L">>)
  /\ Normalise(<<"h">>) # Normalise(<<"C", "-", "L">>)
<1>1. /\ "h" \in DOMAIN Capital /\ Capital["h"] = "H"
      /\ "c" \in DOMAIN Capital /\ Capital["c"] = "C"
      /\ "l" \in DOMAIN Capital /\ Capital["l"] = "L"
  <2>1. \A p \in {<<"c", "C">>, <<"l", "L">>, <<"t", "T">>, <<"e", "E">>, <<"h", "H">>} :
          p[1] \in DOMAIN Capital /\ Capital[p[1]] = p[2]
    BY LettersOfNames
  <2>2. <<"h", "H">>[1] \in DOMAIN Capital /\ Capital[<<"h", "H">>[1]] = <<"h", "H">>[2]
    BY <2>1
  <2>3. <<"c", "C">>[1] \in DOMAIN Capital /\ Capital[<<"c", "C">>[1]] = <<"c", "C">>[2]
    BY <2>1
  <2>4. <<"l", "L">>[1] \in DOMAIN Capital /\ Capital[<<"l", "L">>[1]] = <<"l", "L">>[2]
    BY <2>1
  <2> QED  BY <2>2, <2>3, <2>4
<1>2. {"H", "C", "L", "-", "h", "c", "l"} \subseteq Glyph
  <2>1. {"H", "C", "L", "-"} \subseteq Ordinary /\ DOMAIN Capital \subseteq Ordinary
    BY DEF Ordinary
  <2> QED  BY <1>1, <2>1 DEF Glyph
<1>3. <<"H">> \in Seq(Glyph) /\ <<"h">> \in Seq(Glyph)  BY <1>2
<1>4. <<"C", "-", "L">> \in Seq(Glyph) /\ <<"c", "-", "l">> \in Seq(Glyph)  BY <1>2
<1>5. Lower("H") = Lower("h") /\ Lower("C") = Lower("c") /\ Lower("L") = Lower("l")
  <2>1. Upper("h") = "H" /\ Upper("c") = "C" /\ Upper("l") = "L"  BY <1>1 DEF Upper
  <2> QED  BY <2>1, LowerOfUpper
<1>6. SameName(<<"h">>, <<"H">>)
  <2>1. \A i \in 1..1 : i = 1  OBVIOUS
  <2> QED  BY <1>5, <2>1 DEF SameName
<1>7. SameName(<<"c", "-", "l">>, <<"C", "-", "L">>)
  <2>1. \A i \in 1..3 : i = 1 \/ i = 2 \/ i = 3  OBVIOUS
  <2> QED  BY <1>5, <2>1 DEF SameName
<1> DEFINE h == <<"h">>
           H == <<"H">>
           c == <<"c", "-", "l">>
           C == <<"C", "-", "L">>
<1>8. Len(h) = 1 /\ Len(C) = 3  OBVIOUS
<1> HIDE DEF h, H, c, C
<1>9. Normalise(h) = Normalise(H)  BY <1>3, <1>6, SameNameNormalised DEF h, H
<1>10. Normalise(c) = Normalise(C)  BY <1>4, <1>7, SameNameNormalised DEF c, C
<1>11. h \in Seq(Glyph) /\ C \in Seq(Glyph)  BY <1>3, <1>4 DEF h, C
<1>12. Normalise(h) # Normalise(C)
  <2>1. Len(Normalise(h)) = 1  BY <1>8, <1>11, NormaliseKeepsLetters
  <2>2. Len(Normalise(C)) = 3  BY <1>8, <1>11, NormaliseKeepsLetters
  <2> QED  BY <2>1, <2>2
<1> QED  BY <1>3, <1>4, <1>9, <1>10, <1>12 DEF h, H, c, C

LEMMA SameNamesFind ==
  ASSUME NEW hs, NEW j, NEW k, Normalise(j) = Normalise(k)
  PROVE  HaveHeader(hs, j) = HaveHeader(hs, k) /\ HeaderValue(hs, j) = HeaderValue(hs, k)
BY DEF HaveHeader, HeaderValue, Matching, Matches

LEMMA PrintableAreHeaders ==
  ASSUME NEW hs \in Seq(Printable(Glyph))
  PROVE  hs \in Headers(Seq(Glyph), Seq(Glyph))
<1> DEFINE P == Printable(Glyph)
           R == [key : Seq(Glyph), value : Seq(Glyph)]
<1>1. P \subseteq R  BY DEF Printable
<1>2. hs \in Seq(R)
  <2> HIDE DEF P, R
  <2> QED  BY <1>1, SeqWithin DEF P
<1> QED  BY <1>2 DEF Headers

LEMMA MakeRequestServer == ASSUME ExchangeInv, ServerInv, MakeRequest PROVE ServerInv'
<1> DEFINE c == asked.uri
           host == uri.host
           path == PathOf(uri.path, uri.query)
           hs == AddHeader(<<>>, <<"H">>, host)
<1>1. /\ stage = "uri" /\ stage' = "request"
      /\ UNCHANGED <<requests, asked, uri, added, calls, heard>>
      /\ req' = NewRequest(uri)
  BY DEF MakeRequest
<1>2. NewRequest(uri) = [method |-> <<>>, path |-> path, version |-> <<"HTTP/1.1">>,
                         headers |-> hs, body |-> <<>>]
  <2> HIDE DEF hs, path
  <2>1. NewRequest(uri) = [NoRequest EXCEPT !.path = path, !.version = <<"HTTP/1.1">>,
                                            !.headers = hs]
    BY DEF NewRequest, PathOf, path, hs, host
  <2> QED  BY <2>1 DEF NoRequest
<1>3. /\ HasParts(uri) /\ uri.path \in Text /\ uri.query \in Seq(Blank)
      /\ Hearable => uri.query \in Seq(QuerySet)
      /\ Plain(c) => /\ uri.path = c.path /\ uri.host = c.host
                     /\ uri.query = QueryOf(c.query, MoreOf(asked.param, added))
      /\ added => EndsWith(uri.query, asked.param[2])
  BY <1>1 DEF ExchangeInv, AskedInv, ServerInv, UriPart
<1>4. AskedPart /\ calls = 0 /\ AskedPart'  BY <1>1 DEF ServerInv, AskedPart
<1>5. /\ Len(asked.setters) \in Nat
      /\ added => asked.param[2] \in Seq(DOMAIN Code)
  BY <1>1, <1>4, AskedIs
<1> DEFINE start == IF uri.path = <<>> THEN <<"/">> ELSE uri.path
<1>6. start \in Seq(QuerySet) /\ start \in Seq(Blank)
  <2>1. <<"/">> \in Seq(QuerySet)  BY QuerySetIs
  <2>2. uri.path \in Seq(QuerySet)  BY <1>3, QuerySetIs, SeqWithin DEF Text
  <2>3. start \in Seq(QuerySet)  BY <2>1, <2>2
  <2> HIDE DEF start
  <2> QED  BY <2>3, QuerySetIs, SeqWithin
<1>7. path = start \o (IF uri.query = <<>> THEN <<>> ELSE <<"?">> \o uri.query)
  BY DEF PathOf
<1>8. <<"?">> \in Seq(QuerySet) /\ <<"?">> \in Seq(Blank)  BY QuerySetIs
<1> HIDE DEF start, path
<1>9. \A S : /\ start \in Seq(S) /\ uri.query \in Seq(S) /\ <<"?">> \in Seq(S)
             => path \in Seq(S)
  BY <1>7
<1>10. path \in Seq(Blank) /\ (Hearable => path \in Seq(QuerySet))
  BY <1>3, <1>6, <1>8, <1>9
<1>11. ASSUME added PROVE EndsWith(path, asked.param[2])
  <2> DEFINE w == asked.param[2]
             q == uri.query
             tail == <<"?">> \o q
  <2>1. Escape(w) \in Seq(Blank) /\ EndsWith(q, w)  BY <1>3, <1>5, <1>11, EscapeIs
  <2>2. q # <<>>
    <3>1. PICK x \in Seq(Blank) : q = x \o <<"=">> \o Escape(w)  BY <2>1 DEF EndsWith
    <3> DEFINE y == x \o <<"=">>
               v == Escape(w)
    <3>2. y \in Seq(Blank) /\ Len(y) > 0  BY QuerySetIs
    <3> HIDE DEF y, v
    <3>3. Len(y \o v) > 0
      <4>1. v \in Seq(Blank)  BY <2>1 DEF v
      <4> QED  BY <3>2, <4>1, Joined
    <3> QED  BY <3>1, <3>3 DEF y, v
  <2>3. path = start \o tail  BY <1>7, <2>2
  <2> HIDE DEF tail, w, q
  <2>4. EndsWith(tail, w)
    <3> DEFINE mark == <<"?">>
    <3>1. mark \in Seq(Blank) /\ tail = mark \o q  BY <1>8 DEF tail
    <3> HIDE DEF mark
    <3> QED  BY <2>1, <3>1, EndsKept
  <2>5. EndsWith(start \o tail, w)  BY <1>6, <2>1, <2>4, EndsKept
  <2> QED  BY <2>3, <2>5 DEF w
<1>12. host \in Text /\ host \in Seq(Glyph) /\ Trim(host) = host
       /\ \A i \in 1..Len(host) : host[i] # "\r"
  <2>1. host \in Text  BY <1>3 DEF HasParts
  <2> HIDE DEF host
  <2>2. \A i \in 1..Len(host) : host[i] \in Character  BY <2>1 DEF Text
  <2>3. \A x \in Character : x \notin WhiteSpace /\ x # "\r"  BY CharactersAreSolid
  <2>4. \A i \in 1..Len(host) : host[i] \notin WhiteSpace /\ host[i] # "\r"  BY <2>2, <2>3
  <2>5. Trim(host) = host  BY <2>1, <2>4, TrimNothing DEF Text
  <2>6. Text \subseteq Seq(Glyph)
    <3>1. Character \subseteq Glyph  BY QuerySetIs
    <3> QED  BY <3>1, SeqWithin DEF Text
  <2> QED  BY <2>1, <2>4, <2>5, <2>6
<1> HIDE DEF host
<1>13. hs \in Seq(Printable(Glyph)) /\ HaveHeader(hs, <<"h">>) /\ HeaderValue(hs, <<"h">>) = host
  <2> DEFINE none == <<>>
             H == <<"H">>
  <2>1. none \in Seq(Printable(Glyph)) /\ none \in Headers(Seq(Glyph), Seq(Glyph))
    BY DEF Headers
  <2>2. H \in Seq(Glyph) /\ \A i \in 1..Len(H) : H[i] \notin {":", "\r"}
    <3>1. H \in Seq(Glyph)  BY KnownNames
    <3> QED  BY <3>1
  <2>3. ~HaveHeader(none, H)  BY DEF HaveHeader, Matching
  <2>4. hs = AddHeader(none, H, host)  OBVIOUS
  <2> HIDE DEF none, H, hs
  <2>5. hs \in Seq(Printable(Glyph))  BY <1>12, <2>1, <2>2, <2>4, HeadersPrintable
  <2>6. hs = SetHeader(none, H, host)  BY <2>3, <2>4 DEF SetHeader
  <2>7. HaveHeader(hs, H) /\ HeaderValue(hs, H) = host  BY <1>12, <2>1, <2>6, SetHeaderIsRead
  <2>8. Normalise(<<"h">>) = Normalise(H)  BY KnownNames DEF H
  <2> QED  BY <2>5, <2>7, <2>8, SameNamesFind
<1> HIDE DEF hs
<1>14. ReqPart'
  <2> DEFINE r == [method |-> <<>>, path |-> path, version |-> <<"HTTP/1.1">>,
                   headers |-> hs, body |-> <<>>]
  <2>1. r.path = path /\ r \in [method : Seq(Glyph), path : Seq(Blank), version : {<<"HTTP/1.1">>},
                                headers : Seq(Printable(Glyph)), body : Seq(Glyph)]
    BY <1>10, <1>13
  <2>2. req' = r /\ (Hearable' = Hearable)  BY <1>1, <1>2 DEF Hearable
  <2> HIDE DEF r
  <2>3. req'.path = path  BY <2>1, <2>2
  <2>4. Plain(c) => path = PathOf(c.path, QueryOf(c.query, MoreOf(asked.param, added)))
    BY <1>3 DEF path
  <2> QED  BY <1>1, <1>10, <1>11, <2>1, <2>2, <2>3, <2>4 DEF ReqPart
<1>15. HeadersPart'
  <2>1. req'.headers = hs  BY <1>1, <1>2
  <2>2. \A i \in 1..calls' : FALSE  BY <1>1, <1>4
  <2>3. calls' \in 0..Len(asked.setters)  BY <1>1, <1>4, <1>5
  <2> QED  BY <1>1, <1>3, <1>13, <2>1, <2>2, <2>3 DEF HeadersPart, host
<1>16. UriPart' /\ HeardPart'  BY <1>1 DEF UriPart, HeardPart
<1> QED  BY <1>4, <1>14, <1>15, <1>16 DEF ServerInv

-----------------------------------------------------------------------------
(* A setter leaves a request that can be printed; its host and the length  *)
(* of its body stay what they are, unless the setter is about them.        *)
Sets(op, hs, b) ==
  /\ req' = [req EXCEPT !.headers = hs, !.body = b]
  /\ HaveHeader(req.headers, <<"h">>) /\ ~Names(Setter, "set_header", <<"h">>) =>
       HaveHeader(hs, <<"h">>) /\ HeaderValue(hs, <<"h">>) = HeaderValue(req.headers, <<"h">>)
  /\ HaveHeader(req.headers, <<"c", "-", "l">>) /\ ~OfLength(Setter) =>
       /\ b = req.body /\ HaveHeader(hs, <<"c", "-", "l">>)
       /\ HeaderValue(hs, <<"c", "-", "l">>) = HeaderValue(req.headers, <<"c", "-", "l">>)
  /\ op = "body" => /\ HaveHeader(hs, <<"c", "-", "l">>)
                    /\ HeaderValue(hs, <<"c", "-", "l">>) = <<Numeral(Len(b))>>
                    /\ \E d \in DOMAIN Number : Number[d] = Len(b)

LEMMA SetterServer ==
  ASSUME ServerInv, NEW op, CallSetter(op), NEW hs \in Seq(Printable(Glyph)), NEW b \in Seq(Glyph),
         Sets(op, hs, b)
  PROVE  ServerInv'
<1> DEFINE R == [method : Seq(Glyph), path : Seq(Blank), version : {<<"HTTP/1.1">>},
                 headers : Seq(Printable(Glyph)), body : Seq(Glyph)]
           h == <<"h">>
           l == <<"c", "-", "l">>
           fs == asked.setters
           n == Len(fs)
           Kept(i, m) == fs[i].op = "body" /\ \A j \in i + 1..m : ~OfLength(fs[j])
<1>1. /\ stage = "request" /\ calls < n /\ Setter.op = op /\ Setter = fs[calls + 1]
      /\ calls' = calls + 1 /\ UNCHANGED <<stage, requests, asked, uri, added, heard>>
  BY DEF CallSetter, Setter
<1>2. Begun /\ Begun'  BY <1>1 DEF Begun
<1>3. req \in R  BY <1>2 DEF ServerInv, ReqPart
<1>4. /\ req' \in R /\ req'.headers = hs /\ req'.body = b /\ req'.path = req.path
  BY <1>3 DEF Sets
<1>5. AskedPart'  BY <1>1 DEF ServerInv, AskedPart
<1>6. UriPart' /\ HeardPart'  BY <1>1 DEF UriPart, HeardPart
<1>7. ReqPart'
  <2>1. /\ Hearable => req.path \in Seq(QuerySet)
        /\ Plain(asked.uri) =>
             req.path = PathOf(asked.uri.path, QueryOf(asked.uri.query, MoreOf(asked.param, added)))
        /\ added => EndsWith(req.path, asked.param[2])
    BY <1>2 DEF ServerInv, ReqPart
  <2>2. Hearable' = Hearable  BY <1>1 DEF Hearable
  <2> HIDE DEF R
  <2> QED  BY <1>1, <1>4, <2>1, <2>2 DEF ReqPart, R
<1> HIDE DEF R, h, l, fs, n
<1>8. /\ calls \in 0..n
      /\ Plain(asked.uri) /\ (\A i \in 1..calls : ~Names(fs[i], "set_header", h)) =>
           HaveHeader(req.headers, h) /\ HeaderValue(req.headers, h) = asked.uri.host
      /\ \A i \in 1..calls : Kept(i, calls) =>
           /\ HaveHeader(req.headers, l) /\ HeaderValue(req.headers, l) = <<Numeral(Len(req.body))>>
           /\ \E d \in DOMAIN Number : Number[d] = Len(req.body)
  BY <1>2 DEF ServerInv, HeadersPart, h, l, fs, n
<1>9. n \in Nat
  <2>1. AskedPart  BY DEF ServerInv
  <2> QED  BY <1>1, <2>1, AskedIs DEF n, fs
<1>10. calls' \in 0..n /\ calls + 1 \in 1..calls' /\ \A i \in 1..calls' : i \in 1..calls \/ i = calls + 1
  BY <1>1, <1>8, <1>9
<1>11. ASSUME Plain(asked.uri), \A i \in 1..calls' : ~Names(fs[i], "set_header", h)
       PROVE  HaveHeader(hs, h) /\ HeaderValue(hs, h) = asked.uri.host
  <2>1. ~Names(Setter, "set_header", h)  BY <1>1, <1>10, <1>11
  <2>2. \A i \in 1..calls : i \in 1..calls'  BY <1>1, <1>8
  <2>3. HaveHeader(req.headers, h) /\ HeaderValue(req.headers, h) = asked.uri.host
    BY <1>8, <1>11, <2>2
  <2> QED  BY <2>1, <2>3 DEF h, Sets
<1>12. ASSUME NEW i \in 1..calls', Kept(i, calls')
       PROVE  /\ HaveHeader(hs, l) /\ HeaderValue(hs, l) = <<Numeral(Len(b))>>
              /\ \E d \in DOMAIN Number : Number[d] = Len(b)
  <2>1. CASE i = calls + 1
    <3>1. op = "body"  BY <1>1, <1>12, <2>1
    <3> QED  BY <3>1 DEF l, Sets
  <2>2. CASE i \in 1..calls
    <3>1. calls + 1 \in i + 1..calls' /\ \A j \in i + 1..calls : j \in i + 1..calls'
      BY <1>1, <1>8, <2>2
    <3>2. ~OfLength(Setter) /\ Kept(i, calls)  BY <1>1, <1>12, <3>1
    <3>3. /\ HaveHeader(req.headers, l)
          /\ HeaderValue(req.headers, l) = <<Numeral(Len(req.body))>>
          /\ \E d \in DOMAIN Number : Number[d] = Len(req.body)
      <4> HIDE DEF Kept
      <4> QED  BY <1>8, <2>2, <3>2
    <3>4. b = req.body /\ HaveHeader(hs, l) /\ HeaderValue(hs, l) = HeaderValue(req.headers, l)
      BY <3>2, <3>3 DEF l, Sets
    <3> QED  BY <3>3, <3>4
  <2> QED  BY <1>10, <2>1, <2>2
<1>13. HeadersPart'
  <2>1. calls' \in 0..Len(fs)  BY <1>10 DEF n
  <2>2. fs' = fs  BY <1>1 DEF fs
  <2> SUFFICES
        /\ calls' \in 0..Len(fs')
        /\ Plain(asked'.uri) /\ (\A i \in 1..calls' : ~Names(fs'[i], "set_header", h)) =>
             HaveHeader(req'.headers, h) /\ HeaderValue(req'.headers, h) = asked'.uri.host
        /\ \A i \in 1..calls' :
             fs'[i].op = "body" /\ (\A j \in i + 1..calls' : ~OfLength(fs'[j])) =>
               /\ HaveHeader(req'.headers, l) /\ HeaderValue(req'.headers, l) = <<Numeral(Len(req'.body))>>
               /\ \E d \in DOMAIN Number : Number[d] = Len(req'.body)
    BY DEF HeadersPart, fs, h, l
  <2> QED  BY <1>1, <1>4, <1>11, <1>12, <2>1, <2>2
<1> QED  BY <1>5, <1>6, <1>7, <1>13 DEF ServerInv

(* What a setter is called with.                                           *)
LEMMA SetterIs ==
  ASSUME ServerInv, NEW op, CallSetter(op)
  PROVE  /\ WellSet(Setter) /\ Setter.op = op /\ Setter.text \in Seq(Glyph)
         /\ op \in {"add_header", "set_header"} => Setter.name \in Seq(Glyph)
         /\ req \in [method : Seq(Glyph), path : Seq(Blank), version : {<<"HTTP/1.1">>},
                     headers : Seq(Printable(Glyph)), body : Seq(Glyph)]
<1>1. /\ stage = "request" /\ calls < Len(asked.setters) /\ Setter.op = op
      /\ Setter = asked.setters[calls + 1]
  BY DEF CallSetter, Setter
<1>2. AskedPart /\ calls \in 0..Len(asked.setters)
      /\ req \in [method : Seq(Glyph), path : Seq(Blank), version : {<<"HTTP/1.1">>},
                  headers : Seq(Printable(Glyph)), body : Seq(Glyph)]
  BY <1>1 DEF ServerInv, ReqPart, HeadersPart, Begun
<1>3. Len(asked.setters) \in Nat
      /\ \A i \in 1..Len(asked.setters) :
           WellSet(asked.setters[i]) /\ asked.setters[i] \in SettersOfWork
  BY <1>1, <1>2, AskedIs
<1>4. calls + 1 \in 1..Len(asked.setters)  BY <1>1, <1>2, <1>3
<1>5. WellSet(Setter) /\ Setter \in SettersOfWork  BY <1>1, <1>3, <1>4
<1> HIDE DEF Setter
<1>6. Setter.text \in Seq(Glyph)
      /\ (Setter.op \in {"add_header", "set_header"} => Setter.name \in Seq(Glyph))
  BY <1>5, SetterTexts
<1> QED  BY <1>1, <1>2, <1>5, <1>6

(* One that is about a header gives a name and a line.                     *)
LEMMA NamedSetterIs ==
  ASSUME ServerInv, NEW op \in {"add_header", "set_header"}, CallSetter(op)
  PROVE  LET k == Setter.name
             v == Setter.text
         IN /\ k \in Seq(Glyph) /\ \A i \in 1..Len(k) : k[i] \notin {":", "\r"}
            /\ v \in Seq(Glyph) /\ (\A i \in 1..Len(v) : v[i] # "\r") /\ Trim(v) = v
<1>1. WellSet(Setter) /\ Setter.op = op /\ Setter.text \in Seq(Glyph) /\ Setter.name \in Seq(Glyph)
  BY SetterIs
<1>2. OneLine(Setter.name) /\ Free(Setter.name, {":"}) /\ OneLine(Setter.text)
      /\ Trim(Setter.text) = Setter.text
  BY <1>1 DEF WellSet
<1> QED  BY <1>1, <1>2 DEF OneLine, Free

LEMMA AddHeaderServer == ASSUME ServerInv, CallAddHeader PROVE ServerInv'
<1> DEFINE f == Setter
           hs == AddHeader(req.headers, f.name, f.text)
           R == [method : Seq(Glyph), path : Seq(Blank), version : {<<"HTTP/1.1">>},
                 headers : Seq(Printable(Glyph)), body : Seq(Glyph)]
<1>1. CallSetter("add_header") /\ req' = [req EXCEPT !.headers = hs]  BY DEF CallAddHeader
<1>2. req \in R /\ f.op = "add_header"  BY <1>1, SetterIs
<1>3. /\ f.name \in Seq(Glyph) /\ \A i \in 1..Len(f.name) : f.name[i] \notin {":", "\r"}
      /\ f.text \in Seq(Glyph) /\ (\A i \in 1..Len(f.text) : f.text[i] # "\r")
      /\ Trim(f.text) = f.text
  BY <1>1, NamedSetterIs
<1>4. req.headers \in Seq(Printable(Glyph)) /\ req.body \in Seq(Glyph)  BY <1>2
<1>5. hs \in Seq(Printable(Glyph))
  <2> HIDE DEF f
  <2> QED  BY <1>3, <1>4, HeadersPrintable
<1>6. req.headers \in Headers(Seq(Glyph), Seq(Glyph))  BY <1>4, PrintableAreHeaders
<1>7. \A j : HaveHeader(req.headers, j) =>
               HaveHeader(hs, j) /\ HeaderValue(hs, j) = HeaderValue(req.headers, j)
  <2> HIDE DEF f
  <2> QED  BY <1>6, AddKeepsFirst
<1> HIDE DEF hs
<1>8. req' = [req EXCEPT !.headers = hs, !.body = req.body]
  BY <1>1, <1>2
<1> HIDE DEF f, R
<1>9. Sets("add_header", hs, req.body)  BY <1>7, <1>8 DEF Sets
<1> QED  BY <1>1, <1>4, <1>5, <1>9, SetterServer

LEMMA SetHeaderServer == ASSUME ServerInv, CallSetHeader PROVE ServerInv'
<1> DEFINE f == Setter
           hs == SetHeader(req.headers, f.name, f.text)
           R == [method : Seq(Glyph), path : Seq(Blank), version : {<<"HTTP/1.1">>},
                 headers : Seq(Printable(Glyph)), body : Seq(Glyph)]
<1>1. CallSetter("set_header") /\ req' = [req EXCEPT !.headers = hs]  BY DEF CallSetHeader
<1>2. req \in R /\ f.op = "set_header"  BY <1>1, SetterIs
<1>3. /\ f.name \in Seq(Glyph) /\ \A i \in 1..Len(f.name) : f.name[i] \notin {":", "\r"}
      /\ f.text \in Seq(Glyph) /\ (\A i \in 1..Len(f.text) : f.text[i] # "\r")
      /\ Trim(f.text) = f.text
  BY <1>1, NamedSetterIs
<1>4. req.headers \in Seq(Printable(Glyph)) /\ req.body \in Seq(Glyph)  BY <1>2
<1>5. hs \in Seq(Printable(Glyph))
  <2> HIDE DEF f
  <2> QED  BY <1>3, <1>4, HeadersPrintable
<1>6. req.headers \in Headers(Seq(Glyph), Seq(Glyph))  BY <1>4, PrintableAreHeaders
<1>7. ASSUME NEW j \in Seq(Glyph), HaveHeader(req.headers, j), ~SameName(f.name, j)
      PROVE  HaveHeader(hs, j) /\ HeaderValue(hs, j) = HeaderValue(req.headers, j)
  <2> HIDE DEF f
  <2>1. Normalise(j) # Normalise(f.name)  BY <1>3, <1>7, NormaliseForgetsCase
  <2> QED  BY <1>3, <1>6, <1>7, <2>1, SetHeaderKeepsOthers
<1> HIDE DEF hs
<1>8. req' = [req EXCEPT !.headers = hs, !.body = req.body]  BY <1>1, <1>2
<1>9. <<"h">> \in Seq(Glyph) /\ <<"c", "-", "l">> \in Seq(Glyph)  BY KnownNames
<1>10. ASSUME ~Names(f, "set_header", <<"h">>) PROVE ~SameName(f.name, <<"h">>)
  BY <1>2, <1>10 DEF Names
<1>11. ASSUME ~OfLength(f) PROVE ~SameName(f.name, <<"c", "-", "l">>)
  BY <1>2, <1>11 DEF OfLength, Names
<1>12. HaveHeader(req.headers, <<"h">>) /\ ~Names(Setter, "set_header", <<"h">>) =>
         /\ HaveHeader(hs, <<"h">>)
         /\ HeaderValue(hs, <<"h">>) = HeaderValue(req.headers, <<"h">>)
  <2> DEFINE h == <<"h">>
  <2>1. ~SameName(f.name, h) /\ HaveHeader(req.headers, h) =>
          HaveHeader(hs, h) /\ HeaderValue(hs, h) = HeaderValue(req.headers, h)
    <3>1. h \in Seq(Glyph)  BY <1>9
    <3> HIDE DEF h, f
    <3> QED  BY <1>7, <3>1
  <2> QED  BY <1>10, <2>1
<1>13. HaveHeader(req.headers, <<"c", "-", "l">>) /\ ~OfLength(Setter) =>
         /\ req.body = req.body /\ HaveHeader(hs, <<"c", "-", "l">>)
         /\ HeaderValue(hs, <<"c", "-", "l">>) = HeaderValue(req.headers, <<"c", "-", "l">>)
  <2> DEFINE l == <<"c", "-", "l">>
  <2>1. ~SameName(f.name, l) /\ HaveHeader(req.headers, l) =>
          HaveHeader(hs, l) /\ HeaderValue(hs, l) = HeaderValue(req.headers, l)
    <3>1. l \in Seq(Glyph)  BY <1>9
    <3> HIDE DEF l, f
    <3> QED  BY <1>7, <3>1
  <2> QED  BY <1>11, <2>1
<1> HIDE DEF f, R
<1>14. Sets("set_header", hs, req.body)  BY <1>8, <1>12, <1>13 DEF Sets
<1> QED  BY <1>1, <1>4, <1>5, <1>14, SetterServer

LEMMA BodyServer == ASSUME ServerInv, CallBody PROVE ServerInv'
<1> DEFINE f == Setter
           b == f.text
           C == <<"C", "-", "L">>
           v == <<Numeral(Len(b))>>
           hs == SetHeader(req.headers, C, v)
           R == [method : Seq(Glyph), path : Seq(Blank), version : {<<"HTTP/1.1">>},
                 headers : Seq(Printable(Glyph)), body : Seq(Glyph)]
<1>1. CallSetter("body") /\ req' = Body(req, b)  BY DEF CallBody
<1>2. req \in R /\ f.op = "body" /\ WellSet(f) /\ b \in Seq(Glyph)  BY <1>1, SetterIs
<1>3. Body(req, b) = [req EXCEPT !.headers = hs, !.body = b]
  <2> HIDE DEF hs
  <2>1. Body(req, b) = [req EXCEPT !.body = b, !.headers = hs]
    <3>1. [req EXCEPT !.body = b].headers = req.headers  BY <1>2
    <3> QED  BY <1>2, <3>1 DEF Body, hs
  <2> QED  BY <1>2, <2>1
<1>4. req.headers \in Seq(Printable(Glyph)) /\ req.headers \in Headers(Seq(Glyph), Seq(Glyph))
  BY <1>2, PrintableAreHeaders
<1>5. PICK d \in DOMAIN Number : Number[d] = Len(b)  BY <1>2 DEF WellSet
<1>6. Numeral(Len(b)) \in DOMAIN Number  BY <1>5 DEF Numeral
<1>7. v \in Seq(Glyph) /\ Trim(v) = v /\ \A i \in 1..Len(v) : v[i] # "\r"
  <2>1. DOMAIN Number \subseteq Glyph
    <3>1. DOMAIN Number \subseteq Ordinary  BY DEF Ordinary
    <3> QED  BY <3>1 DEF Glyph
  <2>2. \A x \in DOMAIN Number : x \notin WhiteSpace /\ x # "\r"  BY CharactersAreSolid
  <2> DEFINE x == Numeral(Len(b))
  <2>3. x \in Glyph /\ x \notin WhiteSpace /\ x # "\r"  BY <1>6, <2>1, <2>2
  <2> HIDE DEF x
  <2> DEFINE w == <<x>>
  <2>4. w \in Seq(Glyph) /\ \A i \in 1..Len(w) : w[i] \notin WhiteSpace /\ w[i] # "\r"  BY <2>3
  <2> HIDE DEF w
  <2>5. Trim(w) = w  BY <2>4, TrimNothing
  <2> QED  BY <2>4, <2>5 DEF w, x
<1>8. C \in Seq(Glyph) /\ \A i \in 1..Len(C) : C[i] \notin {":", "\r"}
  <2>1. C \in Seq(Glyph)  BY KnownNames
  <2>2. Len(C) = 3 /\ C[1] = "C" /\ C[2] = "-" /\ C[3] = "L"  OBVIOUS
  <2>3. \A i \in 1..3 : i = 1 \/ i = 2 \/ i = 3  OBVIOUS
  <2> HIDE DEF C
  <2> QED  BY <2>1, <2>2, <2>3
<1>9. Normalise(<<"c", "-", "l">>) = Normalise(C) /\ Normalise(<<"h">>) # Normalise(C)
  BY KnownNames
<1> HIDE DEF f, v, C
<1>10. hs \in Seq(Printable(Glyph))  BY <1>4, <1>7, <1>8, HeadersPrintable
<1>11. HaveHeader(hs, C) /\ HeaderValue(hs, C) = v  BY <1>4, <1>7, SetHeaderIsRead
<1>12. \A j : Normalise(j) # Normalise(C) /\ HaveHeader(req.headers, j) =>
                HaveHeader(hs, j) /\ HeaderValue(hs, j) = HeaderValue(req.headers, j)
  BY <1>4, <1>7, SetHeaderKeepsOthers
<1> HIDE DEF hs
<1>13. HaveHeader(hs, <<"c", "-", "l">>) /\ HeaderValue(hs, <<"c", "-", "l">>) = v
  BY <1>9, <1>11, SameNamesFind
<1>14. HaveHeader(req.headers, <<"h">>) =>
         HaveHeader(hs, <<"h">>) /\ HeaderValue(hs, <<"h">>) = HeaderValue(req.headers, <<"h">>)
  BY <1>9, <1>12
<1>15. OfLength(Setter)  BY <1>2 DEF OfLength, f
<1>16. HaveHeader(hs, <<"c", "-", "l">>) /\ HeaderValue(hs, <<"c", "-", "l">>) = <<Numeral(Len(b))>>
       /\ \E e \in DOMAIN Number : Number[e] = Len(b)
  BY <1>5, <1>13 DEF v
<1>17. req' = [req EXCEPT !.headers = hs, !.body = b] /\ b \in Seq(Glyph)  BY <1>1, <1>2, <1>3
<1> HIDE DEF b, R
<1>18. Sets("body", hs, b)  BY <1>14, <1>15, <1>16, <1>17 DEF Sets
<1> QED  BY <1>1, <1>10, <1>17, <1>18, SetterServer

LEMMA AppendBodyServer == ASSUME ServerInv, CallAppendBody PROVE ServerInv'
<1> DEFINE f == Setter
           b == req.body \o f.text
           R == [method : Seq(Glyph), path : Seq(Blank), version : {<<"HTTP/1.1">>},
                 headers : Seq(Printable(Glyph)), body : Seq(Glyph)]
<1>1. CallSetter("append_body") /\ req' = [req EXCEPT !.body = b]
  BY DEF CallAppendBody, AppendBody
<1>2. req \in R /\ f.op = "append_body" /\ f.text \in Seq(Glyph)  BY <1>1, SetterIs
<1>3. req.headers \in Seq(Printable(Glyph)) /\ req.body \in Seq(Glyph)  BY <1>2
<1>4. b \in Seq(Glyph)  BY <1>2, <1>3, Joined
<1>5. OfLength(Setter)  BY <1>2 DEF OfLength
<1> HIDE DEF b, f
<1>6. req' = [req EXCEPT !.headers = req.headers, !.body = b]  BY <1>1, <1>2
<1> HIDE DEF R
<1>7. Sets("append_body", req.headers, b)  BY <1>5, <1>6 DEF Sets
<1> QED  BY <1>1, <1>3, <1>4, <1>7, SetterServer

-----------------------------------------------------------------------------
(* The request is sent, and heard.                                         *)
LEMMA RequestServer == ASSUME ServerInv, Request PROVE ServerInv'
<1> DEFINE m == <<asked.method>>
           R == [method : Seq(Glyph), path : Seq(Blank), version : {<<"HTTP/1.1">>},
                 headers : Seq(Printable(Glyph)), body : Seq(Glyph)]
<1>1. /\ stage = "request" /\ stage' = "sent" /\ calls = Len(asked.setters)
      /\ UNCHANGED <<requests, asked, uri, added, calls, heard>>
      /\ req' = [req EXCEPT !.method = m]
  BY DEF Request
<1>2. Begun /\ AskedPart  BY <1>1 DEF Begun, ServerInv
<1>3. req \in R /\ m \in Seq(Glyph)  BY <1>1, <1>2, AskedIs DEF ServerInv, ReqPart
<1> HIDE DEF m
<1>4. /\ req' \in R /\ req'.method = m /\ req'.path = req.path
      /\ req'.headers = req.headers /\ req'.body = req.body
  BY <1>1, <1>3
<1>5. AskedPart'  BY <1>1 DEF ServerInv, AskedPart
<1>6. UriPart' /\ HeardPart'  BY <1>1 DEF UriPart, HeardPart
<1>7. ReqPart'
  <2>1. /\ Hearable => req.path \in Seq(QuerySet)
        /\ Plain(asked.uri) =>
             req.path = PathOf(asked.uri.path, QueryOf(asked.uri.query, MoreOf(asked.param, added)))
        /\ added => EndsWith(req.path, asked.param[2])
    BY <1>2 DEF ServerInv, ReqPart
  <2>2. Hearable' = Hearable  BY <1>1 DEF Hearable
  <2>3. req'.method = <<asked'.method>>  BY <1>1, <1>4 DEF m
  <2> HIDE DEF R
  <2> QED  BY <1>1, <1>4, <2>1, <2>2, <2>3 DEF ReqPart, R
<1>8. HeadersPart'
  <2> HIDE DEF R
  <2> QED  BY <1>1, <1>2, <1>4 DEF ServerInv, HeadersPart
<1> QED  BY <1>5, <1>6, <1>7, <1>8 DEF ServerInv

LEMMA HearServer == ASSUME ServerInv, Hear PROVE ServerInv'
<1> DEFINE text == RequestBytes(req)
           lines == Lines(text)
           line == Parts(lines[1])
           sp == <<Space>>
           first == req.method \o sp \o req.path \o sp \o req.version
<1>1. /\ stage = "sent" /\ stage' = "heard" /\ UNCHANGED askVars
      /\ heard' = [method |-> line[1], path |-> line[2], version |-> line[3],
                   headers |-> ParsedHeaders(Tail(lines))]
  BY DEF Hear
<1>2. Begun /\ AskedPart  BY <1>1 DEF Begun, ServerInv
<1>3. /\ req \in [method : Seq(Glyph), path : Seq(Blank), version : {<<"HTTP/1.1">>},
                  headers : Seq(Printable(Glyph)), body : Seq(Glyph)]
      /\ req.method = <<asked.method>>
      /\ Hearable => req.path \in Seq(QuerySet)
  BY <1>1, <1>2 DEF ServerInv, ReqPart
<1>4. asked.method \notin {Space, "\r", "\n"}  BY <1>1, <1>2, AskedIs
<1> DEFINE m == req.method
           p == req.path
           v == req.version
           hs == req.headers
           b == req.body
<1>5. m \in Seq(Glyph) /\ p \in Seq(Blank) /\ v = <<"HTTP/1.1">> /\ hs \in Seq(Printable(Glyph))
      /\ b \in Seq(Glyph)
  BY <1>3
<1>6. text = first \o NewLine \o HeaderBytes(hs) \o b  BY DEF RequestBytes
<1> HIDE DEF text
<1>7. Len(m) = 1 /\ \A i \in 1..Len(m) : m[i] # Space /\ m[i] # "\r"  BY <1>3, <1>4
<1>8. p \in Seq(Glyph) /\ \A i \in 1..Len(p) : p[i] # "\r"
  <2>1. \A x \in Blank : x # "\r"  BY QuerySetIs
  <2>2. \A i \in 1..Len(p) : p[i] \in Blank  BY <1>5
  <2>3. p \in Seq(Glyph)  BY <1>5, QuerySetIs, SeqWithin
  <2> QED  BY <2>1, <2>2, <2>3
<1>9. {":", Space, "\r", "\n", "HTTP/1.1"} \subseteq Glyph
  <2>1. {":", "\r", "\n", "HTTP/1.1"} \subseteq Ordinary  BY DEF Ordinary
  <2>2. Space \in Ordinary  BY DEF Ordinary, Blank
  <2> QED  BY <2>1, <2>2 DEF Glyph
<1>10. v \in Seq(Glyph) /\ Len(v) = 1 /\ \A i \in 1..Len(v) : v[i] # "\r"  BY <1>5, <1>9
<1>11. sp \in Seq(Glyph) /\ Len(sp) = 1 /\ \A i \in 1..Len(sp) : sp[i] # "\r"
  <2>1. Space # "\r"  BY Zenon DEF Space
  <2> QED  BY <1>9, <2>1
<1> HIDE DEF m, p, v, hs, b, sp
<1>12. ASSUME NEW x \in Seq(Glyph), NEW y \in Seq(Glyph),
              \A i \in 1..Len(x) : x[i] # "\r", \A i \in 1..Len(y) : y[i] # "\r"
       PROVE  /\ x \o y \in Seq(Glyph) /\ Len(x \o y) = Len(x) + Len(y)
              /\ \A i \in 1..Len(x \o y) : (x \o y)[i] # "\r"
  <2> DEFINE z == x \o y
             n == Len(x)
  <2>1. z \in Seq(Glyph) /\ Len(z) = n + Len(y) /\ n \in Nat /\ Len(y) \in Nat
        /\ (\A i \in 1..n : z[i] = x[i]) /\ \A i \in 1..Len(y) : z[n + i] = y[i]
    OBVIOUS
  <2> HIDE DEF z, n
  <2>2. ASSUME NEW i \in 1..Len(z) PROVE z[i] # "\r"
    <3>1. CASE i \in 1..n  BY <1>12, <2>1, <3>1 DEF n
    <3>2. CASE i \notin 1..n
      <4> DEFINE j == i - n
      <4>1. j \in 1..Len(y) /\ i = n + j  BY <2>1, <3>2
      <4> HIDE DEF j
      <4> QED  BY <1>12, <2>1, <4>1
    <3> QED  BY <3>1, <3>2
  <2> QED  BY <2>1, <2>2 DEF z, n
<1>13. first \in Seq(Glyph) /\ Len(first) > 0 /\ \A i \in 1..Len(first) : first[i] # "\r"
  <2> DEFINE a1 == m \o sp
             a2 == a1 \o p
             a3 == a2 \o sp
             a4 == a3 \o v
  <2>1. a1 \in Seq(Glyph) /\ Len(a1) = 2 /\ \A i \in 1..Len(a1) : a1[i] # "\r"
    <3>1. m \in Seq(Glyph) /\ (\A i \in 1..Len(m) : m[i] # "\r") /\ Len(m) + Len(sp) = 2
      BY <1>5, <1>7, <1>11
    <3> QED  BY <1>11, <1>12, <3>1
  <2> HIDE DEF a1
  <2>2. a2 \in Seq(Glyph) /\ Len(a2) > 0 /\ \A i \in 1..Len(a2) : a2[i] # "\r"
    <3>1. Len(p) \in Nat  BY <1>8
    <3> QED  BY <1>8, <1>12, <2>1, <3>1
  <2> HIDE DEF a2
  <2>3. a3 \in Seq(Glyph) /\ Len(a3) > 0 /\ \A i \in 1..Len(a3) : a3[i] # "\r"
    <3>1. Len(a2) \in Nat  BY <2>2
    <3> QED  BY <1>11, <1>12, <2>2, <3>1
  <2> HIDE DEF a3
  <2>4. a4 \in Seq(Glyph) /\ Len(a4) > 0 /\ \A i \in 1..Len(a4) : a4[i] # "\r"
    <3>1. Len(a3) \in Nat  BY <2>3
    <3> QED  BY <1>10, <1>12, <2>3, <3>1
  <2>5. first = a4  BY DEF a1, a2, a3, a4, m, p, v
  <2> QED  BY <2>4, <2>5
<1>14. lines[1] = first /\ ParsedHeaders(Tail(lines)) = hs
  <2> HIDE DEF first
  <2> QED  BY <1>5, <1>6, <1>9, <1>13, HeadersHeard
<1>15. ASSUME Hearable PROVE line = <<m, p, v>>
  <2>1. p \in Seq(QuerySet)  BY <1>3, <1>15 DEF p
  <2>2. \A x \in QuerySet : x # Space  BY QuerySetIs
  <2>3. \A i \in 1..Len(p) : p[i] # Space  BY <2>1, <2>2
  <2>4. Parts(m \o <<Space>> \o p \o <<Space>> \o v) = <<m, p, v>>
    BY <1>5, <1>7, <1>8, <1>9, <1>10, <2>3, PartsFound
  <2> QED  BY <1>14, <2>4 DEF sp, m, p, v
<1>16. HeardPart'
  <2> HIDE DEF line, lines
  <2>1. heard'.headers = hs /\ heard'.path = line[2] /\ heard'.method = line[1]
    BY <1>1, <1>14
  <2>2. Hearable => line[1] = m /\ line[2] = p  BY <1>15
  <2>3. UNCHANGED <<req, added, asked>>  BY <1>1 DEF askVars
  <2> QED  BY <2>1, <2>2, <2>3 DEF HeardPart, Hearable, m, p, hs
<1>17. AskedPart' /\ UriPart' /\ ReqPart' /\ HeadersPart'
  <2>1. stage = "sent" /\ stage' = "heard" /\ UNCHANGED <<requests, asked, uri, added, req, calls>>
    BY <1>1 DEF askVars
  <2>2. AskedPart' /\ UriPart'  BY <2>1 DEF ServerInv, AskedPart, UriPart
  <2>3. ReqPart'  BY <2>1 DEF ServerInv, ReqPart, Begun, Hearable
  <2>4. HeadersPart'  BY <2>1 DEF ServerInv, HeadersPart, Begun
  <2> QED  BY <2>2, <2>3, <2>4
<1> QED  BY <1>16, <1>17 DEF ServerInv

LEMMA NextServer == ASSUME ExchangeInv, ServerInv, [Next]_vars PROVE ServerInv'
<1>0. ASSUME NEW p, ReadLine(p) PROVE UNCHANGED <<askVars, heard>>
  BY <1>0 DEF ReadLine
<1>1. CASE Caller
  <2>1. CASE WriteUri  BY <2>1, WriteUriServer
  <2>2. CASE AddParam  BY <2>2, AddParamServer
  <2>3. CASE MakeRequest  BY <2>3, MakeRequestServer
  <2>4. CASE CallAddHeader  BY <2>4, AddHeaderServer
  <2>5. CASE CallSetHeader  BY <2>5, SetHeaderServer
  <2>6. CASE CallBody  BY <2>6, BodyServer
  <2>7. CASE CallAppendBody  BY <2>7, AppendBodyServer
  <2>8. CASE \E l : SetLimits(l)
    <3>1. Quiet  BY <2>8 DEF SetLimits, Quiet
    <3> QED  BY <3>1, QuietServer
  <2>9. CASE Request  BY <2>9, RequestServer
  <2>10. CASE Retry
    <3>1. Quiet  BY <2>10 DEF Retry, Quiet
    <3> QED  BY <3>1, QuietServer
  <2>11. CASE Finish  BY <2>11, FinishServer
  <2>12. (\E n \in MaxConnections : SetMaxConnections(n)) \/ (\E on \in BOOLEAN : SetLimitConnections(on))
           => \E l : SetLimits(l)
    BY DEF SetMaxConnections, SetLimitConnections
  <2> QED
    BY <1>1, <2>1, <2>2, <2>3, <2>4, <2>5, <2>6, <2>7, <2>8, <2>9, <2>10, <2>11, <2>12 DEF Caller
<1>2. CASE Server
  <2>1. CASE Hear  BY <2>1, HearServer
  <2>2. CASE Answer
    <3>1. Quiet  BY <2>2 DEF Answer, Quiet
    <3> QED  BY <3>1, QuietServer
  <2> QED  BY <1>2, <2>1, <2>2 DEF Server
<1>3. CASE Receiving
  <2>1. Quiet  BY <1>3 DEF Receiving, Receive, Quiet
  <2> QED  BY <2>1, QuietServer
<1>4. CASE Read
  <2>1. HasResponse => stage \in {"sent", "heard", "answered"}  BY DEF HasResponse
  <2>2. CASE StatusLine \/ StrayLine \/ HeaderLine \/ ChunkSize
    <3>1. Quiet  BY <1>0, <2>2 DEF StatusLine, StrayLine, HeaderLine, ChunkSize, Quiet
    <3> QED  BY <3>1, QuietServer
  <2>3. CASE HeadersEnd
    <3>1. ReadLine("header") /\ (stage' = "failed" \/ stage' = stage)  BY <2>3 DEF HeadersEnd
    <3>2. phase = "header"  BY <3>1 DEF ReadLine
    <3>3. HasResponse  BY <3>2 DEF ExchangeInv, StageInv
    <3>4. Quiet  BY <1>0, <2>1, <3>1, <3>3 DEF Quiet
    <3> QED  BY <3>4, QuietServer
  <2>4. CASE ChunkData
    <3>1. Quiet  BY <2>4 DEF ChunkData, Quiet
    <3> QED  BY <3>1, QuietServer
  <2>5. ASSUME NEW data, Extract(data) PROVE stage' = "done"  BY <2>5 DEF Extract
  <2>6. CASE LastLine
    <3>1. ReadLine("last") /\ stage' = "done"  BY <2>5, <2>6 DEF LastLine
    <3>2. phase = "last"  BY <3>1 DEF ReadLine
    <3>3. HasResponse  BY <3>2 DEF ExchangeInv, StageInv
    <3>4. Quiet  BY <1>0, <2>1, <3>1, <3>3 DEF Quiet
    <3> QED  BY <3>4, QuietServer
  <2>7. CASE ReadBody
    <3>1. phase = "body" /\ UNCHANGED <<askVars, heard>> /\ stage' = "done"
      BY <2>5, <2>7 DEF ReadBody
    <3>2. HasResponse  BY <3>1 DEF ExchangeInv, StageInv
    <3>3. Quiet  BY <2>1, <3>1, <3>2 DEF Quiet
    <3> QED  BY <3>3, QuietServer
  <2> QED  BY <1>4, <2>2, <2>3, <2>4, <2>6, <2>7 DEF Read
<1>5. CASE Fail
  <2>1. Quiet  BY <1>5 DEF Fail, HasResponse, Quiet
  <2> QED  BY <2>1, QuietServer
<1>6. CASE UNCHANGED vars
  <2>1. Quiet  BY <1>6 DEF vars, Quiet
  <2> QED  BY <2>1, QuietServer
<1> QED  BY <1>1, <1>2, <1>3, <1>4, <1>5, <1>6 DEF Next

LEMMA Served == Spec => []ServerInv
<1>1. Init => ServerInv  BY InitServer
<1>2. ExchangeInv /\ ServerInv /\ [Next]_vars => ServerInv'  BY NextServer
<1> QED  BY <1>1, <1>2, Exchange, PTL DEF Spec

(* A server hears what the URI asks for, with the query that was added to  *)
(* it, the host the URI names and every header as it was given, whatever   *)
(* setters the caller has called and in whatever order.                    *)
THEOREM EveryRequestHeard == Spec => []RequestHeard
<1>1. ASSUME ServerInv PROVE RequestHeard
  <2> SUFFICES ASSUME stage = "heard", Plain(asked.uri), Hearable
               PROVE  LET c == asked.uri
                          query == QueryOf(c.query, MoreOf(asked.param, added))
                      IN /\ heard.path = PathOf(c.path, query)
                         /\ heard.method = <<asked.method>>
                         /\ (\A i \in 1..Len(asked.setters) :
                               ~Names(asked.setters[i], "set_header", <<"h">>)) =>
                              HeaderValue(heard.headers, <<"h">>) = c.host
                         /\ heard.headers = req.headers
    BY DEF RequestHeard, QueryOf, PathOf, MoreOf, Hearable
  <2>1. Begun  BY DEF Begun
  <2>2. /\ req.method = <<asked.method>> /\ calls = Len(asked.setters)
        /\ req.path = PathOf(asked.uri.path, QueryOf(asked.uri.query, MoreOf(asked.param, added)))
    BY <1>1, <2>1 DEF ServerInv, ReqPart
  <2>3. heard.headers = req.headers /\ heard.path = req.path /\ heard.method = req.method
    BY <1>1 DEF ServerInv, HeardPart
  <2>4. (\A i \in 1..calls : ~Names(asked.setters[i], "set_header", <<"h">>)) =>
          HeaderValue(req.headers, <<"h">>) = asked.uri.host
    BY <1>1, <2>1 DEF ServerInv, HeadersPart
  <2> QED  BY <2>2, <2>3, <2>4
<1> QED  BY <1>1, Served, PTL

(* A server that goes by the length takes all of the body for the body and *)
(* no more, when the last call that had to do with it was body().          *)
THEOREM LengthAlwaysAnnounced == Spec => []LengthAnnounced
<1>1. ASSUME ServerInv PROVE LengthAnnounced
  <2> DEFINE l == <<"c", "-", "l">>
  <2> SUFFICES ASSUME stage = "heard", NEW i \in 1..Len(asked.setters),
                      asked.setters[i].op = "body",
                      \A j \in i + 1..Len(asked.setters) : ~OfLength(asked.setters[j])
               PROVE  Number[HeaderValue(heard.headers, l)[1]] = Len(req.body)
    BY DEF LengthAnnounced
  <2>1. Begun  BY DEF Begun
  <2>2. calls = Len(asked.setters)  BY <1>1, <2>1 DEF ServerInv, ReqPart
  <2>3. /\ HeaderValue(req.headers, l) = <<Numeral(Len(req.body))>>
        /\ \E d \in DOMAIN Number : Number[d] = Len(req.body)
    BY <1>1, <2>1, <2>2 DEF ServerInv, HeadersPart
  <2>4. heard.headers = req.headers  BY <1>1 DEF ServerInv, HeardPart
  <2>5. Number[Numeral(Len(req.body))] = Len(req.body)  BY <2>3 DEF Numeral
  <2> HIDE DEF l
  <2> QED  BY <2>3, <2>4, <2>5
<1> QED  BY <1>1, Served, PTL

(* The value that was added to a query is what a server decodes of it,     *)
(* unless it has control characters in it; and what uri::encoded makes of  *)
(* a value is decoded to it just when it is ASCII.                         *)
THEOREM ParamAlwaysUnderstood == Spec => []ParamUnderstood
<1>1. ASSUME ExchangeInv, ServerInv PROVE ParamUnderstood
  <2> SUFFICES ASSUME added
               PROVE  LET v == asked.param[2]
                      IN /\ LowestCode(v) >= 0 <=> Decoded(Encoded(v)) = v
                         /\ stage = "heard" /\ LowestCode(asked.param[1] \o v) >= 16 =>
                              LET last == Max({i \in 1..Len(heard.path) : heard.path[i] = "="})
                              IN Decoded(SubSeq(heard.path, last + 1, Len(heard.path))) = v
    BY DEF ParamUnderstood
  <2> DEFINE v == asked.param[2]
  <2>1. AskedPart /\ stage # "idle"
    <3>1. AskedPart  BY <1>1 DEF ServerInv
    <3> QED  BY <1>1, <3>1 DEF ExchangeInv, StageInv
  <2>2. v \in Seq(DOMAIN Code) /\ asked.param[1] \in Seq(DOMAIN Code)  BY <2>1, AskedIs
  <2>3. LowestCode(v) >= 0 <=> \A i \in 1..Len(v) : Code[v[i]] >= 0
    <3> HIDE DEF v
    <3> QED  BY <2>2, LowestIs
  <2>4. Decoded(Encoded(v)) = v <=> \A i \in 1..Len(v) : Code[v[i]] >= 0
    <3> HIDE DEF v
    <3> QED  BY <2>2, OnlyAsciiSurvives
  <2>5. ASSUME stage = "heard", LowestCode(asked.param[1] \o v) >= 16
        PROVE  LET last == Max({i \in 1..Len(heard.path) : heard.path[i] = "="})
               IN Decoded(SubSeq(heard.path, last + 1, Len(heard.path))) = v
    <3> DEFINE s == heard.path
               w == Escape(v)
               T == {i \in 1..Len(s) : s[i] = "="}
    <3>1. Hearable /\ Begun  BY <2>5 DEF Hearable, Begun
    <3>2. EndsWith(s, v)
      BY <1>1, <2>5, <3>1 DEF ServerInv, HeardPart, ReqPart
    <3>3. \A i \in 1..Len(v) : Code[v[i]] >= 16
      <4> HIDE DEF v
      <4> QED  BY <2>2, <2>5, LowestOfJoined
    <3>4. w \in Seq(Blank) /\ w \in Seq(EscapeSet) /\ w = Encoded(v)
      <4> HIDE DEF v
      <4> QED  BY <2>2, <3>3, EscapeIs
    <3>5. Decoded(w) = v
      <4>1. \A i \in 1..Len(v) : Code[v[i]] \in Int
        <5> HIDE DEF v
        <5> QED  BY <2>2, CodeIs
      <4>2. \A i \in 1..Len(v) : Code[v[i]] >= 0  BY <3>3, <4>1
      <4> HIDE DEF v, w
      <4> QED  BY <2>4, <3>4, <4>2
    <3>6. PICK x \in Seq(Blank) : s = x \o <<"=">> \o w  BY <3>2 DEF EndsWith
    <3> DEFINE e == <<"=">>
               y == x \o e
               m == Len(x) + 1
    <3>7. y \in Seq(Blank) /\ m \in Nat \ {0} /\ Len(y) = m /\ y[m] = "="
      BY QuerySetIs
    <3> HIDE DEF v, w, y, m
    <3>8. s = y \o w  BY <3>6 DEF y
    <3>9. s \in Seq(Blank) /\ Len(s) = m + Len(w) /\ Len(w) \in Nat /\ At(s, 0, y) /\ At(s, m, w)
      <4>1. y \in Seq(Blank) /\ w \in Seq(Blank) /\ Len(y) = m  BY <3>4, <3>7
      <4> DEFINE z == y \o w
      <4>2. z \in Seq(Blank) /\ Len(z) = m + Len(w) /\ Len(w) \in Nat /\ At(z, 0, y) /\ At(z, m, w)
        BY ONLY <4>1, Joined
      <4> QED  BY <3>8, <4>2
    <3> HIDE DEF s
    <3>10. s[m] = "=" /\ \A i \in 1..Len(w) : s[m + i] # "="
      <4>1. s[0 + m] = y[m] /\ 0 + m = m  BY <3>7, <3>9 DEF At
      <4>2. \A c \in EscapeSet : c # "="  BY EscapeSetIs
      <4>3. \A i \in 1..Len(w) : s[m + i] = w[i] /\ w[i] \in EscapeSet  BY <3>4, <3>9 DEF At
      <4> QED  BY <3>7, <4>1, <4>2, <4>3
    <3>11. m \in T /\ T \subseteq Int /\ \A i \in T : i <= m
      <4>1. m \in T /\ T \subseteq Int  BY <3>7, <3>9, <3>10
      <4>2. ASSUME NEW i \in T, i > m PROVE FALSE
        <5> DEFINE j == i - m
        <5>1. j \in 1..Len(w) /\ i = m + j  BY <3>7, <3>9, <4>2
        <5> HIDE DEF j
        <5> QED  BY <3>10, <5>1
      <4> QED  BY <3>7, <4>1, <4>2
    <3> HIDE DEF T
    <3>12. Max(T) = m  BY <3>11, GreatestUnique
    <3>13. SubSeq(s, m + 1, m + Len(w)) = w  BY <3>4, <3>9, PartAt
    <3>14. Decoded(SubSeq(s, Max(T) + 1, Len(s))) = v  BY <3>5, <3>9, <3>12, <3>13
    <3> QED  BY <3>14 DEF T, s, v
  <2> QED  BY <2>3, <2>4, <2>5
<1> QED  BY <1>1, Exchange, Served, PTL

-----------------------------------------------------------------------------
(***************************************************************************)
(* The answer.                                                             *)
(*                                                                         *)
(* While an answer is read, what is in in_ and what is still on its way    *)
(* make the rest of it: this is the invariant, one part for each phase. To *)
(* read a line, a chunk or the body is to take the beginning of this rest, *)
(* however it has been cut up, and leaves what is the rest in the next     *)
(* phase.                                                                  *)
(***************************************************************************)

(* All that answers are made of.                                           *)
AnswersOfWork == UNION {{w.answer : w \in Work[n]} : n \in 1..Len(Work)}

SignsIn(X) == UNION {{X[i][j] : j \in 1..Len(X[i])} : i \in 1..Len(X)}
SignsOf(a) == {a.status} \cup SignsIn(a.lines) \cup SignsIn(a.pieces)

Sign ==
  {Space, "\r", "\n", ":", "-", "HTTP/1.1", "all", "right", "c", "l", "T", "e", "C", "L", "E",
   "chunked", "0"}
    \cup DOMAIN Number \cup UNION {SignsOf(a) : a \in AnswersOfWork}

LEMMA TextsAre ==
  ASSUME NEW X, IsText(X), \A i \in 1..Len(X) : IsText(X[i]), NEW S, SignsIn(X) \subseteq S
  PROVE  X \in Seq(Seq(S))
<1>1. ASSUME NEW i \in 1..Len(X) PROVE X[i] \in Seq(S)
  <2> DEFINE G == {X[i][j] : j \in 1..Len(X[i])}
  <2>1. G \subseteq SignsIn(X)  BY Zenon DEF SignsIn
  <2>2. \A j \in 1..Len(X[i]) : X[i][j] \in G  BY Zenon
  <2> HIDE DEF G
  <2>3. \A j \in 1..Len(X[i]) : X[i][j] \in S  BY ONLY <2>1, <2>2, SignsIn(X) \subseteq S
  <2> QED  BY <2>3, TextIs
<1> DEFINE T == Seq(S)
<1> HIDE DEF T
<1>2. \A i \in 1..Len(X) : X[i] \in T  BY <1>1 DEF T
<1>3. X \in Seq(T)  BY <1>2, TextIs
<1> QED  BY <1>3 DEF T

LEMMA AnswerTexts ==
  ASSUME NEW a \in AnswersOfWork, WellAnswer(a)
  PROVE  /\ a.status \in Sign
         /\ a.lines \in Seq(Seq(Sign)) /\ a.pieces \in Seq(Seq(Sign))
<1>1. SignsOf(a) \subseteq Sign
  <2> DEFINE G == UNION {SignsOf(b) : b \in AnswersOfWork}
  <2>1. G \subseteq Sign  BY DEF Sign
  <2>2. SignsOf(a) \subseteq G
    <3> HIDE DEF Sign
    <3> QED  BY Zenon
  <2> QED  BY <2>1, <2>2
<1>2. a.status \in SignsOf(a)  BY DEF SignsOf
<1>3. SignsIn(a.lines) \subseteq Sign /\ SignsIn(a.pieces) \subseteq Sign
  BY ONLY <1>1 DEF SignsOf
<1>4. IsText(a.lines) /\ \A i \in 1..Len(a.lines) : IsText(a.lines[i])
  BY DEF WellAnswer, OneLine
<1>5. IsText(a.pieces) /\ \A i \in 1..Len(a.pieces) : IsText(a.pieces[i])
  BY DEF WellAnswer
<1>6. a.lines \in Seq(Seq(Sign))  BY ONLY <1>3, <1>4, TextsAre
<1>7. a.pieces \in Seq(Seq(Sign))  BY ONLY <1>3, <1>5, TextsAre
<1> QED  BY ONLY <1>1, <1>2, <1>6, <1>7

LEMMA SignsAre ==
  /\ {Space, "\r", "\n", ":"} \subseteq Sign /\ NewLine \in Seq(Sign)
  /\ DOMAIN Number \subseteq Sign
  /\ {"c", "-", "l", "T", "e", "C", "L", "E", "chunked", "0", "HTTP/1.1", "all", "right"} \subseteq Sign
<1>1. /\ {Space, "\r", "\n", ":"} \subseteq Sign
      /\ DOMAIN Number \subseteq Sign
      /\ {"c", "-", "l", "T", "e", "C", "L", "E", "chunked", "0", "HTTP/1.1", "all", "right"} \subseteq Sign
  BY DEF Sign
<1>2. \A S : {"\r", "\n"} \subseteq S => NewLine \in Seq(S)  BY DEF NewLine
<1>3. {"\r", "\n"} \subseteq Sign  BY ONLY <1>1
<1> QED  BY ONLY <1>1, <1>2, <1>3

(* A header line in general, and the two that tell how long the body is.   *)
LEMMA HeaderLineParsed ==
  ASSUME NEW S, ":" \in S, NEW k \in Seq(S), NEW v \in Seq(S),
         \A i \in 1..Len(k) : k[i] # ":"
  PROVE  ParseHeaderLine((k \o <<":">>) \o v) = Header(k, Trim(v))
<1> DEFINE n == Len(k)
           c == <<":">>
           a == k \o c
           s == a \o v
<1>1. n \in Nat /\ c \in Seq(S) /\ Len(c) = 1 /\ c[1] = ":"  OBVIOUS
<1> HIDE DEF c
<1>2. a \in Seq(S) /\ Len(a) = n + 1 /\ At(a, 0, k) /\ At(a, n, c)  BY <1>1, Joined
<1> HIDE DEF a
<1>3. /\ s \in Seq(S) /\ Len(s) = (n + 1) + Len(v) /\ Len(v) \in Nat
      /\ At(s, 0, k) /\ At(s, n, c) /\ At(s, n + 1, v)
  <2>1. s \in Seq(S) /\ Len(s) = (n + 1) + Len(v) /\ Len(v) \in Nat /\ At(s, n + 1, v)
    BY ONLY <1>2, Joined, v \in Seq(S)
  <2>2. At(s, 0, k) /\ At(s, n, c)  BY ONLY <1>1, <1>2, AtJoined, v \in Seq(S), k \in Seq(S)
  <2> QED  BY ONLY <2>1, <2>2
<1> HIDE DEF s
<1>4. s[n + 1] = ":"  BY ONLY <1>1, <1>3 DEF At
<1>5. \A i \in 1..n : s[0 + i] # ":"  BY <1>3 DEF At
<1>6. Find(s, {":"}, 1) = n + 1
  <2> DEFINE e == n + 1
  <2>1. e \in Nat /\ 1 <= e /\ e <= Len(s) + 1  BY ONLY <1>1, <1>3
  <2>2. s[e] \in {":"}  BY <1>4
  <2>3. \A i \in Nat : 1 <= i /\ i < e => s[i] \notin {":"}
    <3> SUFFICES ASSUME NEW i \in Nat, 1 <= i, i < e PROVE s[i] # ":"  OBVIOUS
    <3>1. i \in 1..n /\ 0 + i = i  BY ONLY <1>1, i \in Nat, 1 <= i, i < e
    <3> QED  BY ONLY <1>5, <3>1
  <2> HIDE DEF e
  <2>4. Find(s, {":"}, 1) = e  BY ONLY <1>3, <2>1, <2>2, <2>3, FindsAt
  <2> QED  BY ONLY <2>4 DEF e
<1>7. SubSeq(s, 1, n) = k
  <2>1. SubSeq(s, 0 + 1, 0 + n) = k  BY ONLY <1>3, PartAt, k \in Seq(S) DEF n
  <2>2. 0 + 1 = 1 /\ 0 + n = n  BY ONLY <1>1
  <2> QED  BY ONLY <2>1, <2>2
<1>8. SubSeq(s, n + 2, Len(s)) = v
  <2>1. SubSeq(s, (n + 1) + 1, (n + 1) + Len(v)) = v  BY ONLY <1>3, PartAt, v \in Seq(S)
  <2>2. (n + 1) + 1 = n + 2 /\ (n + 1) + Len(v) = Len(s)  BY ONLY <1>1, <1>3
  <2> QED  BY ONLY <2>1, <2>2
<1>9. (n + 1) - 1 = n /\ (n + 1) + 1 = n + 2  BY ONLY <1>1
<1> HIDE DEF n
<1>10. ParseHeaderLine(s) = Header(SubSeq(s, 1, (n + 1) - 1), Trim(SubSeq(s, (n + 1) + 1, Len(s))))
  BY ONLY <1>6 DEF ParseHeaderLine
<1>11. ParseHeaderLine(s) = Header(k, Trim(v))  BY ONLY <1>7, <1>8, <1>9, <1>10
<1> QED  BY ONLY <1>11 DEF s, a, c

(* The header that tells how long the body is, and its line.               *)
HowLong(a) ==
  IF a.kind = "length" THEN <<"c", "-", "l", ":", Numeral(Len(FlattenSeq(a.pieces)))>>
                       ELSE <<"T", "-", "e", ":", Space, "chunked", Space>>

OfKind(a) ==
  /\ a \in AnswersOfWork /\ WellAnswer(a) /\ a.kind \in {"length", "chunked"}
  /\ a.status \in DOMAIN Number /\ Number[a.status] < 65536
  /\ \A i \in 1..Len(a.lines) : HasName(a.lines[i])

LEMMA KnownKinds ==
  /\ Normalise(<<"T", "-", "e">>) = Normalise(<<"T", "-", "E">>)
  /\ Normalise(<<"C", "-", "L">>) # Normalise(<<"T", "-", "E">>)
  /\ Normalise(<<"c", "-", "l">>) = Normalise(<<"C", "-", "L">>)
<1>1. \A p \in {<<"c", "C">>, <<"l", "L">>, <<"t", "T">>, <<"e", "E">>, <<"h", "H">>} :
        p[1] \in DOMAIN Capital /\ Capital[p[1]] = p[2]
  BY LettersOfNames
<1>2. <<"c", "C">>[1] \in DOMAIN Capital /\ Capital[<<"c", "C">>[1]] = <<"c", "C">>[2]  BY <1>1
<1>3. <<"t", "T">>[1] \in DOMAIN Capital /\ Capital[<<"t", "T">>[1]] = <<"t", "T">>[2]  BY <1>1
<1>4. <<"e", "E">>[1] \in DOMAIN Capital /\ Capital[<<"e", "E">>[1]] = <<"e", "E">>[2]  BY <1>1
<1>5. /\ "c" \in DOMAIN Capital /\ Capital["c"] = "C"
      /\ "t" \in DOMAIN Capital /\ Capital["t"] = "T"
      /\ "e" \in DOMAIN Capital /\ Capital["e"] = "E"
  BY ONLY <1>2, <1>3, <1>4
<1>6. Lower("E") = Lower("e")
  <2>1. Upper("e") = "E"  BY ONLY <1>5 DEF Upper
  <2> QED  BY ONLY <2>1, LowerOfUpper
<1> DEFINE t == <<"T", "-", "e">>
           T == <<"T", "-", "E">>
           C == <<"C", "-", "L">>
<1>7. t \in Seq(Sign) /\ T \in Seq(Sign) /\ Len(C) = 3 /\ Len(T) = 3 /\ C[1] = "C" /\ T[1] = "T"
  <2>1. {"T", "-", "e", "E"} \subseteq Sign  BY SignsAre
  <2>2. t \in Seq(Sign)  BY ONLY <2>1
  <2>3. T \in Seq(Sign)  BY ONLY <2>1
  <2>4. Len(C) = 3 /\ C[1] = "C"  OBVIOUS
  <2>5. Len(T) = 3 /\ T[1] = "T"  OBVIOUS
  <2> QED  BY ONLY <2>2, <2>3, <2>4, <2>5
<1>8. SameName(t, T)
  <2>1. \A i \in 1..3 : i = 1 \/ i = 2 \/ i = 3  OBVIOUS
  <2>2. Len(t) = 3 /\ Len(T) = 3  OBVIOUS
  <2>3. t[1] = T[1] /\ t[2] = T[2] /\ Lower(t[3]) = Lower(T[3])  BY <1>6
  <2> HIDE DEF t, T
  <2> QED  BY ONLY <2>1, <2>2, <2>3 DEF SameName
<1> HIDE DEF t, T, C
<1>9. Normalise(t) = Normalise(T)  BY ONLY <1>7, <1>8, SameNameNormalised
<1>10. Normalise(C)[1] = Upper("C") /\ Normalise(T)[1] = Upper("T")
  <2>1. 1 \in 1..3  OBVIOUS
  <2> QED  BY ONLY <1>7, <2>1 DEF Normalise
<1>11. Upper("C") = "C" /\ Upper("T") = "T"
  <2>1. Capital["c"] \notin DOMAIN Capital /\ Capital["t"] \notin DOMAIN Capital
    BY <1>5, CapitalIsBijective
  <2> QED  BY <1>5, <2>1 DEF Upper
<1>12. Normalise(C) # Normalise(T)
  <2>1. "C" # "T"  OBVIOUS
  <2> QED  BY ONLY <1>10, <1>11, <2>1
<1> QED  BY ONLY <1>9, <1>12, KnownNames DEF t, T, C

LEMMA TrimOne ==
  ASSUME NEW x, x \notin WhiteSpace
  PROVE  Trim(<<Space, x, Space>>) = <<x>>
<1> DEFINE v == <<Space, x, Space>>
           T == {i \in 1..Len(v) : v[i] \notin WhiteSpace}
<1>0. Space \in WhiteSpace  BY SpacesAreWhite
<1>1. Len(v) = 3 /\ v[1] = Space /\ v[2] = x /\ v[3] = Space  OBVIOUS
<1>2. SubSeq(v, 2, 2) = <<x>>
  <2> DEFINE y == <<x>>
  <2>1. Len(y) = 1 /\ y[1] = x  OBVIOUS
  <2>2. v \in Seq({Space, x}) /\ y \in Seq({Space, x})  OBVIOUS
  <2> HIDE DEF v, y
  <2>3. \A i \in 1..1 : i = 1  OBVIOUS
  <2>4. At(v, 1, y)  BY ONLY <1>1, <2>1, <2>3 DEF At
  <2>5. SubSeq(v, 1 + 1, 1 + Len(y)) = y  BY ONLY <2>2, <2>4, PartAt
  <2> QED  BY ONLY <2>1, <2>5 DEF y
<1>3. Trim(v) = IF T = {} THEN <<>> ELSE SubSeq(v, Min(T), Max(T))  BY DEF Trim
<1> HIDE DEF v
<1>4. T = {2}
  <2>1. \A i \in 1..3 : i = 1 \/ i = 2 \/ i = 3  OBVIOUS
  <2> QED  BY ONLY <1>0, <1>1, <2>1, x \notin WhiteSpace
<1> HIDE DEF T
<1>5. Min(T) = 2 /\ Max(T) = 2
  <2>1. 2 \in T /\ T \subseteq Nat /\ T \subseteq Int /\ \A y \in T : 2 <= y /\ y <= 2  BY ONLY <1>4
  <2> QED  BY ONLY <2>1, LeastUnique, GreatestUnique
<1>6. T # {}  BY ONLY <1>4
<1> QED  BY ONLY <1>2, <1>3, <1>5, <1>6 DEF v

LEMMA LengthLineIs ==
  ASSUME NEW x \in DOMAIN Number
  PROVE  LET l == <<"c", "-", "l", ":", x>>
         IN /\ l \in Seq(Sign) /\ NoReturn(l) /\ l # <<>>
            /\ ParseHeaderLine(l) = Header(<<"c", "-", "l">>, <<x>>)
<1> DEFINE l == <<"c", "-", "l", ":", x>>
           k == <<"c", "-", "l">>
<1>1. x \in Sign /\ {":", "c", "-", "l"} \subseteq Sign  BY SignsAre
<1>2. x \notin WhiteSpace /\ x # "\r"  BY CharactersAreSolid
<1>3. k \in Seq(Sign) /\ <<x>> \in Seq(Sign) /\ l \in Seq(Sign)  BY ONLY <1>1
<1>4. l = (k \o <<":">>) \o <<x>>  OBVIOUS
<1>5. Trim(<<x>>) = <<x>>
  <2>1. \A i \in 1..Len(<<x>>) : <<x>>[i] \notin WhiteSpace  BY ONLY <1>2
  <2> QED  BY ONLY <1>3, <2>1, TrimNothing
<1>6. \A i \in 1..Len(k) : k[i] # ":"
  <2>1. Len(k) = 3 /\ k[1] = "c" /\ k[2] = "-" /\ k[3] = "l"  OBVIOUS
  <2>2. \A i \in 1..3 : i = 1 \/ i = 2 \/ i = 3  OBVIOUS
  <2>3. "c" # ":" /\ "-" # ":" /\ "l" # ":"  OBVIOUS
  <2> HIDE DEF k
  <2> QED  BY ONLY <2>1, <2>2, <2>3
<1>7. NoReturn(l)
  <2>1. Len(l) = 5 /\ l[1] = "c" /\ l[2] = "-" /\ l[3] = "l" /\ l[4] = ":" /\ l[5] = x  OBVIOUS
  <2>2. \A i \in 1..5 : i = 1 \/ i = 2 \/ i = 3 \/ i = 4 \/ i = 5  OBVIOUS
  <2>3. "c" # "\r" /\ "-" # "\r" /\ "l" # "\r" /\ ":" # "\r"  OBVIOUS
  <2> HIDE DEF l
  <2> QED  BY ONLY <1>2, <2>1, <2>2, <2>3 DEF NoReturn
<1>8. l # <<>>  OBVIOUS
<1> DEFINE v == <<x>>
<1> HIDE DEF k, v
<1>9. ParseHeaderLine((k \o <<":">>) \o v) = Header(k, Trim(v))
  BY ONLY <1>1, <1>3, <1>6, HeaderLineParsed DEF v
<1>10. ParseHeaderLine(l) = Header(k, v)
  <2> HIDE DEF l
  <2> QED  BY ONLY <1>4, <1>5, <1>9 DEF v
<1> QED  BY ONLY <1>3, <1>7, <1>8, <1>10 DEF k, v

LEMMA ChunkedLineIs ==
  LET l == <<"T", "-", "e", ":", Space, "chunked", Space>>
  IN /\ l \in Seq(Sign) /\ NoReturn(l) /\ l # <<>>
     /\ ParseHeaderLine(l) = Header(<<"T", "-", "e">>, <<"chunked">>)
<1> DEFINE l == <<"T", "-", "e", ":", Space, "chunked", Space>>
           k == <<"T", "-", "e">>
           v == <<Space, "chunked", Space>>
<1>1. {":", "T", "-", "e", "chunked", Space} \subseteq Sign  BY SignsAre
<1>2. "chunked" \notin WhiteSpace /\ Space # "\r"  BY Zenon DEF Space, WhiteSpace
<1>3. k \in Seq(Sign) /\ v \in Seq(Sign) /\ l \in Seq(Sign)  BY ONLY <1>1
<1>4. l = (k \o <<":">>) \o v  OBVIOUS
<1>5. Trim(v) = <<"chunked">>  BY <1>2, TrimOne
<1>6. \A i \in 1..Len(k) : k[i] # ":"
  <2>1. Len(k) = 3 /\ k[1] = "T" /\ k[2] = "-" /\ k[3] = "e"  OBVIOUS
  <2>2. \A i \in 1..3 : i = 1 \/ i = 2 \/ i = 3  OBVIOUS
  <2>3. "T" # ":" /\ "-" # ":" /\ "e" # ":"  OBVIOUS
  <2> HIDE DEF k
  <2> QED  BY ONLY <2>1, <2>2, <2>3
<1>7. NoReturn(l)
  <2>1. Len(l) = 7 /\ l[1] = "T" /\ l[2] = "-" /\ l[3] = "e" /\ l[4] = ":" /\ l[5] = Space
        /\ l[6] = "chunked" /\ l[7] = Space
    OBVIOUS
  <2>2. \A i \in 1..7 : i = 1 \/ i = 2 \/ i = 3 \/ i = 4 \/ i = 5 \/ i = 6 \/ i = 7  OBVIOUS
  <2>3. "T" # "\r" /\ "-" # "\r" /\ "e" # "\r" /\ ":" # "\r" /\ "chunked" # "\r"  OBVIOUS
  <2> HIDE DEF l
  <2> QED  BY ONLY <1>2, <2>1, <2>2, <2>3 DEF NoReturn
<1>8. l # <<>>  OBVIOUS
<1> HIDE DEF k, v
<1>9. ParseHeaderLine((k \o <<":">>) \o v) = Header(k, Trim(v))
  BY ONLY <1>1, <1>3, <1>6, HeaderLineParsed
<1>10. ParseHeaderLine(l) = Header(k, <<"chunked">>)
  <2> HIDE DEF l
  <2> QED  BY ONLY <1>4, <1>5, <1>9
<1> QED  BY ONLY <1>3, <1>7, <1>8, <1>10 DEF k

(* Of headers that end with the first of some name.                        *)
NoneIs(L, k) == \A i \in 1..Len(L) : ~Matches(ParseHeaderLine(L[i]), k)

LEMMA LastHeader ==
  ASSUME NEW T, NEW L \in Seq(T), NEW l \in T, NEW k, NoneIs(L, k)
  PROVE  LET hs == ParsedHeaders(L \o <<l>>)
             v == ParseHeaderLine(l).value
         IN /\ ~Matches(ParseHeaderLine(l), k) => ~HaveHeader(hs, k)
            /\ Matches(ParseHeaderLine(l), k) =>
                 HaveHeader(hs, k) /\ HeaderValue(hs, k) = v /\ SetHeader(hs, k, v) = hs
<1> DEFINE n == Len(L)
           M == L \o <<l>>
           hs == ParsedHeaders(M)
           h == ParseHeaderLine(l)
<1>1. n \in Nat /\ M \in Seq(T) /\ Len(M) = n + 1 /\ (\A i \in 1..n : M[i] = L[i]) /\ M[n + 1] = l
  OBVIOUS
<1> HIDE DEF M
<1>2. hs = [i \in 1..n + 1 |-> ParseHeaderLine(M[i])]  BY ONLY <1>1 DEF ParsedHeaders
<1> HIDE DEF n
<1>3. \A i \in 1..n : i \in 1..n + 1  BY ONLY <1>1
<1>4. n + 1 \in 1..n + 1  BY ONLY <1>1
<1> HIDE DEF h, hs
<1>5. hs[n + 1] = h  BY ONLY <1>1, <1>2, <1>4 DEF h
<1>6. \A i \in 1..n : ~Matches(hs[i], k)
  <2>1. \A i \in 1..n : ~Matches(ParseHeaderLine(L[i]), k)  BY DEF NoneIs, n
  <2>2. \A i \in 1..n : hs[i] = ParseHeaderLine(L[i])  BY ONLY <1>1, <1>2, <1>3
  <2> QED  BY ONLY <2>1, <2>2
<1>7. Len(hs) = n + 1 /\ DOMAIN hs = 1..n + 1  BY ONLY <1>1, <1>2
<1>8. Matching(hs, k) = {i \in 1..n + 1 : Matches(hs[i], k)}  BY ONLY <1>7 DEF Matching
<1>9. \A i \in 1..n + 1 : i \in 1..n \/ i = n + 1  BY ONLY <1>1
<1>10. CASE ~Matches(h, k)
  <2>1. \A i \in 1..n + 1 : ~Matches(hs[i], k)  BY ONLY <1>5, <1>6, <1>9, <1>10
  <2>2. ~HaveHeader(hs, k)  BY ONLY <1>8, <2>1 DEF HaveHeader
  <2> QED  BY ONLY <1>10, <2>2 DEF h, hs, M
<1>11. CASE Matches(h, k)
  <2> DEFINE m == n + 1
  <2> HIDE DEF m
  <2>1. \A i \in 1..m : Matches(hs[i], k) <=> i = m
    BY ONLY <1>5, <1>6, <1>9, <1>11 DEF m
  <2>2. m \in Nat /\ m \in 1..m  BY ONLY <1>1 DEF m
  <2>3. Matching(hs, k) = {m}  BY ONLY <1>8, <2>1, <2>2 DEF m
  <2>4. Min(Matching(hs, k)) = m
    <3>1. {m} \subseteq Nat /\ m \in {m} /\ \A y \in {m} : m <= y  BY ONLY <2>2
    <3>2. Min({m}) = m  BY ONLY <3>1, LeastUnique
    <3> QED  BY ONLY <2>3, <3>2
  <2>5. HaveHeader(hs, k)  BY ONLY <2>3 DEF HaveHeader
  <2>6. hs[m] = h  BY ONLY <1>5 DEF m
  <2>7. HeaderValue(hs, k) = h.value  BY ONLY <2>4, <2>6 DEF HeaderValue
  <2>8. SetHeader(hs, k, h.value) = hs
    <3>1. SetHeader(hs, k, h.value) = [hs EXCEPT ![m].value = h.value]
      BY ONLY <2>4, <2>5 DEF SetHeader
    <3>2. [h EXCEPT !.value = h.value] = h  BY DEF h, ParseHeaderLine, Header
    <3>3. [hs EXCEPT ![m] = h] = hs
      <4>1. hs = [i \in 1..m |-> hs[i]]  BY ONLY <1>2, <1>7 DEF m
      <4> QED  BY ONLY <2>2, <2>6, <4>1
    <3>4. [hs EXCEPT ![m].value = h.value] = [hs EXCEPT ![m] = [hs[m] EXCEPT !.value = h.value]]
      OBVIOUS
    <3> QED  BY ONLY <2>6, <3>1, <3>2, <3>3, <3>4
  <2> QED  BY ONLY <1>11, <2>5, <2>7, <2>8 DEF h, hs, M
<1> QED  BY ONLY <1>10, <1>11 DEF h, hs, M

(* What the headers of an answer tell the connection.                      *)
LEMMA AnswerLinesAre ==
  ASSUME NEW a, OfKind(a)
  PROVE  /\ AnswerLines(a) = a.lines \o <<HowLong(a)>>
         /\ AnswerLines(a) \in Seq(Seq(Sign))
         /\ \A i \in 1..Len(AnswerLines(a)) :
              /\ AnswerLines(a)[i] # <<>> /\ NoReturn(AnswerLines(a)[i])
              /\ HasName(AnswerLines(a)[i])
<1> DEFINE T == Seq(Sign)
           l == HowLong(a)
           k == <<"T", "-", "e", ":", Space, "chunked", Space>>
           m == <<"c", "-", "l", ":", Numeral(Len(FlattenSeq(a.pieces)))>>
<1>1. a.lines \in Seq(T)  BY AnswerTexts DEF OfKind
<1>2. \A i \in 1..Len(a.lines) :
        a.lines[i] # <<>> /\ NoReturn(a.lines[i]) /\ HasName(a.lines[i])
  BY DEF OfKind, WellAnswer, OneLine, Free, NoReturn
<1>3. k \in T /\ NoReturn(k) /\ k # <<>> /\ HasName(k)
  <2>1. HasName(k)  BY Len(k) = 7, k[4] = ":", 4 \in 1..7 DEF HasName
  <2> QED  BY ONLY <2>1, ChunkedLineIs
<1>4. m \in T /\ NoReturn(m) /\ m # <<>> /\ HasName(m)
  <2>1. Numeral(Len(FlattenSeq(a.pieces))) \in DOMAIN Number
    BY NumeralOf DEF OfKind, WellAnswer
  <2>2. HasName(m)  BY Len(m) = 5, m[4] = ":", 4 \in 1..5 DEF HasName
  <2> QED  BY ONLY <2>1, <2>2, LengthLineIs
<1> HIDE DEF k, m
<1>5. l \in T /\ NoReturn(l) /\ l # <<>> /\ HasName(l)  BY <1>3, <1>4 DEF HowLong, k, m
<1> HIDE DEF T
<1>6. AnswerLines(a) = a.lines \o <<l>>
  <2>1. a.lines \o <<l>> \in Seq(T)  BY ONLY <1>1, <1>5
  <2>2. CASE a.kind = "length"
    <3>1. l = m  BY <2>2 DEF HowLong, m
    <3>2. AnswerLines(a) = (a.lines \o <<m>>) \o <<>>  BY <2>2 DEF AnswerLines, m
    <3> QED  BY ONLY <2>1, <3>1, <3>2, NothingJoined
  <2>3. CASE a.kind = "chunked"
    <3>1. l = k  BY <2>3 DEF HowLong, k
    <3>2. AnswerLines(a) = (a.lines \o <<>>) \o <<k>>  BY <2>3 DEF AnswerLines, k
    <3>3. a.lines \o <<>> = a.lines  BY ONLY <1>1, NothingJoined
    <3> QED  BY ONLY <3>1, <3>2, <3>3
  <2> QED  BY <2>2, <2>3 DEF OfKind
<1> HIDE DEF l
<1> DEFINE L == a.lines
           n == Len(L)
           M == L \o <<l>>
<1>7. n \in Nat /\ M \in Seq(T) /\ Len(M) = n + 1 /\ (\A i \in 1..n : M[i] = L[i]) /\ M[n + 1] = l
  <2> HIDE DEF L
  <2>1. L \in Seq(T) /\ l \in T  BY ONLY <1>1, <1>5 DEF L
  <2> QED  BY ONLY <2>1
<1>8. \A i \in 1..n : L[i] # <<>> /\ NoReturn(L[i]) /\ HasName(L[i])  BY ONLY <1>2
<1> HIDE DEF L, n, M
<1>9. \A i \in 1..n + 1 : i \in 1..n \/ i = n + 1  BY ONLY <1>7
<1>10. \A i \in 1..n + 1 : M[i] # <<>> /\ NoReturn(M[i]) /\ HasName(M[i])
  BY ONLY <1>5, <1>7, <1>8, <1>9
<1>11. AnswerLines(a) = M  BY ONLY <1>6 DEF M, L
<1> QED  BY ONLY <1>6, <1>7, <1>10, <1>11 DEF l, T

LEMMA HeadersTell ==
  ASSUME NEW a, OfKind(a)
  PROVE  LET hs == ParsedHeaders(AnswerLines(a))
             x == Numeral(Len(FlattenSeq(a.pieces)))
         IN /\ a.kind = "length" =>
                 /\ HaveHeader(hs, <<"C", "-", "L">>)
                 /\ HeaderValue(hs, <<"C", "-", "L">>) = <<x>>
                 /\ SetHeader(hs, <<"C", "-", "L">>, <<x>>) = hs
                 /\ Number[x] = Len(FlattenSeq(a.pieces))
            /\ a.kind = "chunked" =>
                 /\ ~HaveHeader(hs, <<"C", "-", "L">>)
                 /\ HaveHeader(hs, <<"T", "-", "E">>)
                 /\ HeaderValue(hs, <<"T", "-", "E">>) = <<"chunked">>
<1> DEFINE T == Seq(Sign)
           L == a.lines
           l == HowLong(a)
           h == ParseHeaderLine(l)
           C == <<"C", "-", "L">>
           E == <<"T", "-", "E">>
           x == Numeral(Len(FlattenSeq(a.pieces)))
           hs == ParsedHeaders(L \o <<l>>)
<1>1. AnswerLines(a) = L \o <<l>>  BY AnswerLinesAre
<1>2. L \in Seq(T)  BY AnswerTexts DEF OfKind
<1>3. x \in DOMAIN Number /\ Number[x] = Len(FlattenSeq(a.pieces))
  BY NumeralOf DEF OfKind, WellAnswer
<1>4. NoneIs(L, C) /\ NoneIs(L, E)
  <2>1. \A i \in 1..Len(L) : \A k \in {C, E} : ~Matches(ParseHeaderLine(L[i]), k)
    BY DEF OfKind, WellAnswer
  <2> HIDE DEF L, C, E
  <2> QED  BY ONLY <2>1 DEF NoneIs
<1>5. CASE a.kind = "length"
  <2>1. l = <<"c", "-", "l", ":", x>>  BY <1>5 DEF HowLong
  <2>2. l \in T /\ h = Header(<<"c", "-", "l">>, <<x>>)
    <3> HIDE DEF x
    <3> QED  BY ONLY <1>3, <2>1, LengthLineIs DEF h
  <2>3. Matches(h, C) /\ h.value = <<x>>
    <3> HIDE DEF h, l, x
    <3> QED  BY ONLY <2>2, KnownKinds DEF Header, Matches
  <2> HIDE DEF L, l, C, E, T
  <2>4. HaveHeader(hs, C) /\ HeaderValue(hs, C) = h.value /\ SetHeader(hs, C, h.value) = hs
    BY ONLY <1>2, <1>4, <2>2, <2>3, LastHeader
  <2>5. HaveHeader(hs, C) /\ HeaderValue(hs, C) = <<x>> /\ SetHeader(hs, C, <<x>>) = hs
    <3> HIDE DEF h, x, hs
    <3> QED  BY ONLY <2>3, <2>4
  <2> QED  BY ONLY <1>1, <1>3, <1>5, <2>5 DEF L, l, C
<1>6. CASE a.kind = "chunked"
  <2>1. l = <<"T", "-", "e", ":", Space, "chunked", Space>>  BY <1>6 DEF HowLong
  <2>2. l \in T /\ h = Header(<<"T", "-", "e">>, <<"chunked">>)
    BY ONLY <2>1, ChunkedLineIs DEF h
  <2>3. Matches(h, E) /\ ~Matches(h, C) /\ h.value = <<"chunked">>
    <3> HIDE DEF h, l
    <3> QED  BY ONLY <2>2, KnownKinds DEF Header, Matches
  <2> HIDE DEF L, l, C, E, T
  <2>4. HaveHeader(hs, E) /\ HeaderValue(hs, E) = h.value
    BY ONLY <1>2, <1>4, <2>2, <2>3, LastHeader
  <2>5. ~HaveHeader(hs, C)  BY ONLY <1>2, <1>4, <2>2, <2>3, LastHeader
  <2>6. HeaderValue(hs, E) = <<"chunked">>
    <3> HIDE DEF h, hs
    <3> QED  BY ONLY <2>3, <2>4
  <2> QED  BY ONLY <1>1, <1>6, <2>4, <2>5, <2>6 DEF L, l, C, E
<1> QED  BY <1>5, <1>6 DEF OfKind

(* What is left of an answer from a header line, or from a chunk, on.      *)
HeaderTexts(a) == [i \in 1..Len(AnswerLines(a)) |-> AnswerLines(a)[i] \o NewLine]

Chunks(a) ==
  [i \in 1..Len(a.pieces) |->
     <<Numeral(Len(a.pieces[i]))>> \o NewLine \o a.pieces[i] \o NewLine]

HeadersFrom(a, k) == From(Sign, HeaderTexts(a), k) \o (NewLine \o AnswerBody(a))
ChunksFrom(a, k) == From(Sign, Chunks(a), k) \o (<<"0">> \o (NewLine \o NewLine))
ChunkFrom(a, k) == a.pieces[k] \o (NewLine \o ChunksFrom(a, k + 1))
BodyUpto(a, k) == Upto(Sign, a.pieces)[k]

LEMMA TextsMapped ==
  ASSUME NEW T, NEW n \in Nat, NEW f, \A i \in 1..n : f[i] \in T
  PROVE  [i \in 1..n |-> f[i]] \in Seq(T) /\ Len([i \in 1..n |-> f[i]]) = n
OBVIOUS

LEMMA HeaderTextsAre ==
  ASSUME NEW a, OfKind(a)
  PROVE  HeaderTexts(a) \in Seq(Seq(Sign)) /\ Len(HeaderTexts(a)) = Len(AnswerLines(a))
<1> DEFINE T == Seq(Sign)
           L == AnswerLines(a)
           n == Len(L)
           f == HeaderTexts(a)
<1>1. L \in Seq(T)  BY AnswerLinesAre
<1> HIDE DEF L
<1>2. n \in Nat /\ \A i \in 1..n : L[i] \in T
  <2> HIDE DEF T
  <2> QED  BY <1>1
<1>3. NewLine \in T  BY SignsAre
<1>4. ASSUME NEW i \in 1..n PROVE L[i] \o NewLine \in T
  <2>1. L[i] \in Seq(Sign)  BY <1>2
  <2> QED  BY ONLY <1>3, <2>1
<1>5. f = [i \in 1..n |-> L[i] \o NewLine]  BY DEF HeaderTexts, L
<1> HIDE DEF n, T, f
<1>6. DOMAIN f = 1..n /\ \A i \in 1..n : f[i] = L[i] \o NewLine  BY ONLY <1>5
<1>7. \A i \in 1..n : f[i] \in T  BY ONLY <1>4, <1>6
<1>8. f = [i \in 1..n |-> f[i]]  BY ONLY <1>5
<1>9. f \in Seq(T) /\ Len(f) = n  BY ONLY <1>2, <1>7, <1>8, TextsMapped
<1> QED  BY ONLY <1>9 DEF f, T, n, L

LEMMA PieceIsText ==
  ASSUME NEW a, OfKind(a), NEW k \in 1..Len(a.pieces)
  PROVE  /\ a.pieces[k] \in Seq(Sign) /\ Len(a.pieces[k]) \in Nat \ {0}
         /\ Numeral(Len(a.pieces[k])) \in DOMAIN Number
         /\ Number[Numeral(Len(a.pieces[k]))] = Len(a.pieces[k])
         /\ <<Numeral(Len(a.pieces[k]))>> \in Seq(Sign)
<1> DEFINE p == a.pieces[k]
           T == Seq(Sign)
<1>1. a.pieces \in Seq(T)  BY AnswerTexts DEF OfKind
<1>2. p \in T
  <2> HIDE DEF T
  <2> QED  BY <1>1
<1>3. p # <<>> /\ \E d \in DOMAIN Number : Number[d] = Len(p)  BY DEF OfKind, WellAnswer
<1> HIDE DEF p
<1>4. Len(p) \in Nat \ {0}  BY ONLY <1>2, <1>3
<1>5. Numeral(Len(p)) \in DOMAIN Number /\ Number[Numeral(Len(p))] = Len(p)
  BY ONLY <1>3, NumeralOf
<1>6. DOMAIN Number \subseteq Sign  BY SignsAre
<1> DEFINE x == Numeral(Len(p))
<1>7. x \in Sign  BY ONLY <1>5, <1>6
<1> HIDE DEF x
<1>8. <<x>> \in Seq(Sign)  BY ONLY <1>7
<1> QED  BY ONLY <1>2, <1>4, <1>5, <1>8 DEF p, x

LEMMA ChunksAre ==
  ASSUME NEW a, OfKind(a)
  PROVE  Chunks(a) \in Seq(Seq(Sign)) /\ Len(Chunks(a)) = Len(a.pieces) /\ Len(a.pieces) \in Nat
<1> DEFINE T == Seq(Sign)
           p == a.pieces
           n == Len(p)
           f == Chunks(a)
<1>1. n \in Nat
  <2>1. p \in Seq(T)  BY AnswerTexts DEF OfKind
  <2> HIDE DEF T, p
  <2> QED  BY <2>1
<1>2. NewLine \in T  BY SignsAre
<1>3. ASSUME NEW i \in 1..n PROVE <<Numeral(Len(p[i]))>> \o NewLine \o p[i] \o NewLine \in T
  <2> DEFINE x == <<Numeral(Len(p[i]))>>
             y == p[i]
  <2>1. x \in Seq(Sign) /\ y \in Seq(Sign)  BY PieceIsText
  <2> HIDE DEF x, y
  <2>2. x \o NewLine \in Seq(Sign)  BY ONLY <1>2, <2>1
  <2>3. (x \o NewLine) \o y \in Seq(Sign)  BY ONLY <2>1, <2>2
  <2>4. ((x \o NewLine) \o y) \o NewLine \in Seq(Sign)  BY ONLY <1>2, <2>3
  <2> QED  BY ONLY <2>4 DEF x, y
<1>4. f = [i \in 1..n |-> <<Numeral(Len(p[i]))>> \o NewLine \o p[i] \o NewLine]  BY DEF Chunks
<1> HIDE DEF n, T, f, p
<1>5. \A i \in 1..n : f[i] = <<Numeral(Len(p[i]))>> \o NewLine \o p[i] \o NewLine  BY ONLY <1>4
<1>6. \A i \in 1..n : f[i] \in T  BY ONLY <1>3, <1>5
<1>7. f = [i \in 1..n |-> f[i]]  BY ONLY <1>4
<1>8. f \in Seq(T) /\ Len(f) = n  BY ONLY <1>1, <1>6, <1>7, TextsMapped
<1> QED  BY ONLY <1>1, <1>8 DEF f, T, n, p

(* The header lines, one after the other, and what comes after them.       *)
LEMMA HeadersLeft ==
  ASSUME NEW a, OfKind(a)
  PROVE  LET n == Len(AnswerLines(a))
         IN /\ n \in Nat /\ AnswerBody(a) \in Seq(Sign)
            /\ \A k \in 1..n + 1 : HeadersFrom(a, k) \in Seq(Sign)
            /\ \A k \in 1..n : HeadersFrom(a, k) = AnswerLines(a)[k] \o (NewLine \o HeadersFrom(a, k + 1))
            /\ HeadersFrom(a, n + 1) = NewLine \o AnswerBody(a)
            /\ HeadersFrom(a, 1) = FlattenSeq(HeaderTexts(a)) \o (NewLine \o AnswerBody(a))
            /\ a.kind = "length" => AnswerBody(a) = FlattenSeq(a.pieces)
            /\ a.kind = "chunked" => AnswerBody(a) = ChunksFrom(a, 1)
<1> DEFINE T == Seq(Sign)
           L == AnswerLines(a)
           n == Len(L)
           H == HeaderTexts(a)
           C == Chunks(a)
           b == AnswerBody(a)
           z == <<"0">>
           e == z \o (NewLine \o NewLine)
           F(k) == From(Sign, H, k)
<1>1. NewLine \in Seq(Sign) /\ z \in Seq(Sign)
  <2>1. NewLine \in Seq(Sign) /\ "0" \in Sign  BY SignsAre
  <2> QED  BY ONLY <2>1
<1>2. Associative(Sign)  BY JoiningAssociates
<1> HIDE DEF z
<1>3. H \in Seq(T) /\ Len(H) = n  BY HeaderTextsAre
<1>4. C \in Seq(T) /\ a.pieces \in Seq(T)  BY ChunksAre, AnswerTexts DEF OfKind
<1> HIDE DEF H, C
<1>5. OneByOne(Sign, H) /\ OneByOne(Sign, C) /\ OneByOne(Sign, a.pieces)
  BY ONLY <1>3, <1>4, JoinedOneByOne
<1>6. L \in Seq(T) /\ n \in Nat
  <2>1. L \in Seq(T)  BY AnswerLinesAre
  <2> HIDE DEF T, L
  <2> QED  BY ONLY <2>1 DEF n
<1>7. FlattenSeq(C) \in Seq(Sign) /\ From(Sign, C, 1) = FlattenSeq(C)
  <2>1. 1 \in 1..Len(C) + 1
    <3> HIDE DEF T
    <3> QED  BY ONLY <1>4
  <2> QED  BY ONLY <1>5, <2>1 DEF OneByOne
<1>8. FlattenSeq(a.pieces) \in Seq(Sign)
  <2>1. 1 \in 1..Len(a.pieces) + 1
    <3> HIDE DEF T
    <3> QED  BY ONLY <1>4
  <2> QED  BY ONLY <1>5, <2>1 DEF OneByOne
<1>9. a.kind = "length" => b = FlattenSeq(a.pieces)  BY DEF AnswerBody
<1>10. NewLine \o NewLine \in Seq(Sign) /\ e \in Seq(Sign)
  <2>1. NewLine \o NewLine \in Seq(Sign)  BY ONLY <1>1
  <2> QED  BY ONLY <1>1, <2>1
<1>11. a.kind = "chunked" => b = FlattenSeq(C) \o e
  <2> SUFFICES ASSUME a.kind = "chunked" PROVE b = FlattenSeq(C) \o e  OBVIOUS
  <2> DEFINE c == FlattenSeq(C)
  <2>1. b = (((c \o z) \o NewLine) \o <<>>) \o NewLine  BY DEF AnswerBody, C, Chunks, z
  <2>2. c \in Seq(Sign)  BY <1>7
  <2> HIDE DEF c, b
  <2>3. c \o z \in Seq(Sign)  BY ONLY <1>1, <2>2
  <2>4. (c \o z) \o NewLine \in Seq(Sign)  BY ONLY <1>1, <2>3
  <2>5. ((c \o z) \o NewLine) \o <<>> = (c \o z) \o NewLine  BY ONLY <2>4, NothingJoined
  <2>6. ((c \o z) \o NewLine) \o NewLine = (c \o z) \o (NewLine \o NewLine)
    BY ONLY <1>1, <1>2, <2>3 DEF Associative
  <2>7. (c \o z) \o (NewLine \o NewLine) = c \o (z \o (NewLine \o NewLine))
    BY ONLY <1>1, <1>2, <1>10, <2>2 DEF Associative
  <2> QED  BY ONLY <2>1, <2>5, <2>6, <2>7 DEF c
<1>12. a.kind = "chunked" => b = ChunksFrom(a, 1)  BY <1>7, <1>11 DEF ChunksFrom, C, z
<1>13. b \in Seq(Sign)
  <2>1. FlattenSeq(C) \o e \in Seq(Sign)
    <3> HIDE DEF e
    <3> QED  BY ONLY <1>7, <1>10
  <2> HIDE DEF b, e
  <2>2. a.kind \in {"length", "chunked"}  BY DEF OfKind
  <2> QED  BY ONLY <1>8, <1>9, <1>11, <2>1, <2>2
<1> HIDE DEF b
<1> DEFINE r == NewLine \o b
<1>14. r \in Seq(Sign)  BY ONLY <1>1, <1>13
<1> HIDE DEF r
<1>15. \A k \in 1..n + 1 : F(k) \in Seq(Sign)  BY ONLY <1>3, <1>5 DEF OneByOne
<1>16. \A k \in 1..n : F(k) = H[k] \o F(k + 1)  BY ONLY <1>3, <1>5 DEF OneByOne
<1>17. F(n + 1) = <<>> /\ F(1) = FlattenSeq(H)  BY ONLY <1>3, <1>5 DEF OneByOne
<1>18. \A k : HeadersFrom(a, k) = F(k) \o r  BY DEF HeadersFrom, H, r, b
<1>19. \A k \in 1..n : H[k] = L[k] \o NewLine  BY DEF H, HeaderTexts
<1>20. \A k \in 1..n : L[k] \in Seq(Sign)
  <2> HIDE DEF L
  <2>1. \A k \in 1..n : L[k] \in T
    <3> HIDE DEF T
    <3> QED  BY ONLY <1>6 DEF n
  <2> QED  BY <2>1
<1> HIDE DEF F, n, L
<1>21. ASSUME NEW k \in 1..n + 1 PROVE HeadersFrom(a, k) \in Seq(Sign)
  <2>1. F(k) \in Seq(Sign)  BY ONLY <1>15, k \in 1..n + 1
  <2>2. F(k) \o r \in Seq(Sign)  BY ONLY <1>14, <2>1
  <2> QED  BY ONLY <1>18, <2>2
<1>22. ASSUME NEW k \in 1..n PROVE HeadersFrom(a, k) = L[k] \o (NewLine \o HeadersFrom(a, k + 1))
  <2>1. k + 1 \in 1..n + 1  BY ONLY <1>6, k \in 1..n
  <2> DEFINE x == L[k]
             y == F(k + 1)
  <2>2. x \in Seq(Sign) /\ y \in Seq(Sign) /\ F(k) = (x \o NewLine) \o y
    BY ONLY <1>15, <1>16, <1>19, <1>20, <2>1, k \in 1..n
  <2>3. HeadersFrom(a, k) = F(k) \o r /\ HeadersFrom(a, k + 1) = y \o r  BY ONLY <1>18
  <2> HIDE DEF x, y
  <2>4. x \o NewLine \in Seq(Sign) /\ y \o r \in Seq(Sign)  BY ONLY <1>1, <1>14, <2>2
  <2>5. ((x \o NewLine) \o y) \o r = (x \o NewLine) \o (y \o r)
    <3> DEFINE w == x \o NewLine
    <3>1. w \in Seq(Sign) /\ y \in Seq(Sign) /\ r \in Seq(Sign)  BY ONLY <1>14, <2>2, <2>4
    <3> HIDE DEF w
    <3>2. (w \o y) \o r = w \o (y \o r)  BY ONLY <1>2, <3>1 DEF Associative
    <3> QED  BY ONLY <3>2 DEF w
  <2> DEFINE s == y \o r
  <2> HIDE DEF s
  <2>7. x \in Seq(Sign) /\ s \in Seq(Sign)  BY ONLY <2>2, <2>4 DEF s
  <2>8. (x \o NewLine) \o s = x \o (NewLine \o s)
    BY ONLY <1>1, <1>2, <2>7 DEF Associative
  <2>6. (x \o NewLine) \o (y \o r) = x \o (NewLine \o (y \o r))  BY ONLY <2>8 DEF s
  <2> QED  BY ONLY <2>2, <2>3, <2>5, <2>6 DEF x
<1>23. HeadersFrom(a, n + 1) = r
  <2>1. <<>> \o r = r  BY ONLY <1>14, NothingJoined
  <2> QED  BY ONLY <1>17, <1>18, <2>1
<1>24. HeadersFrom(a, 1) = FlattenSeq(H) \o r  BY ONLY <1>17, <1>18
<1> QED  BY ONLY <1>6, <1>9, <1>12, <1>13, <1>21, <1>22, <1>23, <1>24 DEF n, L, r, b, H

(* The chunks, and what has been made of the body before each of them.     *)
LEMMA ChunksLeft ==
  ASSUME NEW a, OfKind(a)
  PROVE  LET n == Len(a.pieces)
         IN /\ n \in Nat
            /\ \A k \in 1..n + 1 : ChunksFrom(a, k) \in Seq(Sign)
            /\ \A k \in 1..n : /\ ChunkFrom(a, k) \in Seq(Sign)
                               /\ ChunksFrom(a, k) =
                                    <<Numeral(Len(a.pieces[k]))>> \o (NewLine \o ChunkFrom(a, k))
            /\ ChunksFrom(a, n + 1) = <<"0">> \o (NewLine \o NewLine)
            /\ BodyUpto(a, 0) = <<>> /\ BodyUpto(a, n) = FlattenSeq(a.pieces)
            /\ \A k \in 1..n : BodyUpto(a, k) = BodyUpto(a, k - 1) \o a.pieces[k]
            /\ FlattenSeq(a.pieces) \in Seq(Sign)
<1> DEFINE T == Seq(Sign)
           n == Len(a.pieces)
           C == Chunks(a)
           z == <<"0">>
           e == z \o (NewLine \o NewLine)
           F(k) == From(Sign, C, k)
           U == Upto(Sign, a.pieces)
<1>1. NewLine \in Seq(Sign) /\ z \in Seq(Sign)
  <2>1. NewLine \in Seq(Sign) /\ "0" \in Sign  BY SignsAre
  <2> QED  BY ONLY <2>1
<1>2. Associative(Sign)  BY JoiningAssociates
<1> HIDE DEF z
<1>3. C \in Seq(T) /\ Len(C) = n /\ n \in Nat  BY ChunksAre
<1>4. a.pieces \in Seq(T)  BY AnswerTexts DEF OfKind
<1>5. U \in [0..n -> T] /\ JoinedUp(a.pieces, U) /\ FlattenSeq(a.pieces) = U[n]
  BY ONLY <1>4, UptoIs
<1> HIDE DEF U, T
<1>6. U[0] = <<>> /\ \A k \in 1..n : U[k] = U[k - 1] \o a.pieces[k]
  BY ONLY <1>5 DEF JoinedUp, n
<1>7. FlattenSeq(a.pieces) \in T
  <2> HIDE DEF n
  <2>1. n \in 0..n  BY ONLY <1>3
  <2> QED  BY ONLY <1>5, <2>1
<1>8. \A k : BodyUpto(a, k) = U[k]  BY DEF BodyUpto, U
<1>9. e \in Seq(Sign)
  <2>1. NewLine \o NewLine \in Seq(Sign)  BY ONLY <1>1
  <2> QED  BY ONLY <1>1, <2>1
<1>10. \A k : ChunksFrom(a, k) = F(k) \o e  BY DEF ChunksFrom, C, e, z
<1> HIDE DEF e, C
<1>11. OneByOne(Sign, C)
  <2>1. C \in Seq(Seq(Sign))  BY ONLY <1>3 DEF T
  <2> QED  BY ONLY <2>1, JoinedOneByOne
<1>12. (\A k \in 1..n + 1 : F(k) \in Seq(Sign)) /\ (\A k \in 1..n : F(k) = C[k] \o F(k + 1))
       /\ F(n + 1) = <<>>
  BY ONLY <1>3, <1>11 DEF OneByOne
<1>13. ASSUME NEW k \in 1..n
       PROVE  /\ <<Numeral(Len(a.pieces[k]))>> \in Seq(Sign) /\ a.pieces[k] \in Seq(Sign)
              /\ C[k] = <<Numeral(Len(a.pieces[k]))>> \o NewLine \o a.pieces[k] \o NewLine
  <2>1. <<Numeral(Len(a.pieces[k]))>> \in Seq(Sign) /\ a.pieces[k] \in Seq(Sign)
    BY PieceIsText
  <2>2. C[k] = <<Numeral(Len(a.pieces[k]))>> \o NewLine \o a.pieces[k] \o NewLine
    BY DEF C, Chunks
  <2> QED  BY ONLY <2>1, <2>2
<1> HIDE DEF F, n
<1>14. ASSUME NEW k \in 1..n + 1 PROVE ChunksFrom(a, k) \in Seq(Sign)
  <2>1. F(k) \in Seq(Sign)  BY ONLY <1>12, k \in 1..n + 1
  <2>2. F(k) \o e \in Seq(Sign)  BY ONLY <1>9, <2>1
  <2> QED  BY ONLY <1>10, <2>2
<1>15. ASSUME NEW k \in 1..n
       PROVE  /\ ChunkFrom(a, k) \in Seq(Sign)
              /\ ChunksFrom(a, k) = <<Numeral(Len(a.pieces[k]))>> \o (NewLine \o ChunkFrom(a, k))
  <2>1. k + 1 \in 1..n + 1  BY ONLY <1>3, k \in 1..n
  <2> DEFINE x == <<Numeral(Len(a.pieces[k]))>>
             p == a.pieces[k]
             f == F(k + 1)
             s == ChunksFrom(a, k + 1)
             c == ChunkFrom(a, k)
  <2>2. x \in Seq(Sign) /\ p \in Seq(Sign) /\ C[k] = ((x \o NewLine) \o p) \o NewLine  BY <1>13
  <2>3. f \in Seq(Sign) /\ F(k) = C[k] \o f  BY ONLY <1>12, <2>1, k \in 1..n
  <2>4. ChunksFrom(a, k) = F(k) \o e /\ s = f \o e  BY ONLY <1>10
  <2>5. s \in Seq(Sign)  BY ONLY <1>14, <2>1
  <2>6. c = p \o (NewLine \o s)  BY ONLY DEF ChunkFrom
  <2> HIDE DEF x, p, f, s, c
  <2>7. x \o NewLine \in Seq(Sign) /\ NewLine \o s \in Seq(Sign)  BY ONLY <1>1, <2>2, <2>5
  <2>8. (x \o NewLine) \o p \in Seq(Sign)  BY ONLY <2>2, <2>7
  <2>9. C[k] \in Seq(Sign)  BY ONLY <1>1, <2>2, <2>8
  <2>10. c \in Seq(Sign)  BY ONLY <2>2, <2>6, <2>7
  <2>11. (C[k] \o f) \o e = C[k] \o s
    <3>1. (C[k] \o f) \o e = C[k] \o (f \o e)  BY ONLY <1>2, <1>9, <2>3, <2>9 DEF Associative
    <3> QED  BY ONLY <2>4, <3>1
  <2> DEFINE y == (x \o NewLine) \o p
             v == NewLine \o s
             w == x \o NewLine
  <2>12. C[k] = y \o NewLine /\ y = w \o p  BY ONLY <2>2
  <2>13. c = p \o v  BY ONLY <2>6
  <2>14. y \in Seq(Sign) /\ v \in Seq(Sign) /\ w \in Seq(Sign)  BY ONLY <2>7, <2>8
  <2>15. v = NewLine \o s /\ w = x \o NewLine  OBVIOUS
  <2> HIDE DEF y, v, w
  <2>16. (y \o NewLine) \o s = y \o (NewLine \o s)
    <3>1. y \in Seq(Sign) /\ NewLine \in Seq(Sign) /\ s \in Seq(Sign)  BY ONLY <1>1, <2>5, <2>14
    <3> QED  BY ONLY <1>2, <3>1 DEF Associative
  <2>17. (w \o p) \o v = w \o (p \o v)
    BY ONLY <1>2, <2>2, <2>14 DEF Associative
  <2>18. (x \o NewLine) \o c = x \o (NewLine \o c)
    BY ONLY <1>1, <1>2, <2>2, <2>10 DEF Associative
  <2>19. ChunksFrom(a, k) = x \o (NewLine \o c)
    BY ONLY <2>3, <2>4, <2>11, <2>12, <2>13, <2>15, <2>16, <2>17, <2>18
  <2> QED  BY ONLY <2>10, <2>19 DEF x, c
<1>16. ChunksFrom(a, n + 1) = e
  <2>1. <<>> \o e = e  BY ONLY <1>9, NothingJoined
  <2> QED  BY ONLY <1>10, <1>12, <2>1
<1> QED  BY ONLY <1>3, <1>5, <1>6, <1>7, <1>8, <1>14, <1>15, <1>16 DEF n, e, z, T

(* One more at the end of a text.                                          *)
OneMore(S, s, x, t) ==
  /\ t \in Seq(S) /\ Len(t) = Len(s) + 1 /\ t[Len(s) + 1] = x
  /\ \A i \in 1..Len(s) : t[i] = s[i]

LEMMA OneMoreJoined ==
  ASSUME NEW S, NEW s \in Seq(S), NEW x \in S
  PROVE  OneMore(S, s, x, s \o <<x>>)
<1>1. s \o <<x>> = Append(s, x)  OBVIOUS
<1>2. Append(s, x) \in Seq(S) /\ Len(Append(s, x)) = Len(s) + 1  OBVIOUS
<1>3. Append(s, x)[Len(s) + 1] = x /\ \A i \in 1..Len(s) : Append(s, x)[i] = s[i]  OBVIOUS
<1> QED  BY ONLY <1>1, <1>2, <1>3 DEF OneMore

PartsInOrder(a, b, c, d, e) ==
  <<a, b, c, b, d, b, e>> = (((<<a>> \o <<b>>) \o <<c>>) \o <<b>>) \o <<d, b, e>>

LEMMA PartsJoined ==
  ASSUME NEW S, NEW a \in S, NEW b \in S, NEW c \in S, NEW d \in S, NEW e \in S
  PROVE  PartsInOrder(a, b, c, d, e)
<1> DEFINE s == <<a, b, c, b, d, b, e>>
           w == <<d, b, e>>
           t1 == <<a>> \o <<b>>
           t2 == t1 \o <<c>>
           t3 == t2 \o <<b>>
           t == t3 \o w
<1>1. <<a>> \in Seq(S) /\ Len(<<a>>) = 1 /\ <<a>>[1] = a  OBVIOUS
<1>2. t1 \in Seq(S) /\ Len(t1) = 2 /\ t1[1] = a /\ t1[2] = b  BY ONLY <1>1, OneMoreJoined, b \in S DEF OneMore
<1> HIDE DEF t1
<1>3. t2 \in Seq(S) /\ Len(t2) = 3 /\ t2[1] = a /\ t2[2] = b /\ t2[3] = c
  <2>1. t1 \in Seq(S)  BY ONLY <1>2
  <2>2. OneMore(S, t1, c, t2)  BY ONLY <2>1, OneMoreJoined, c \in S
  <2> HIDE DEF t2
  <2> QED  BY ONLY <1>2, <2>2 DEF OneMore
<1> HIDE DEF t2
<1>4. t3 \in Seq(S) /\ Len(t3) = 4 /\ t3[1] = a /\ t3[2] = b /\ t3[3] = c /\ t3[4] = b
  <2>1. t2 \in Seq(S)  BY ONLY <1>3
  <2>2. OneMore(S, t2, b, t3)  BY ONLY <2>1, OneMoreJoined, b \in S
  <2> HIDE DEF t3
  <2> QED  BY ONLY <1>3, <2>2 DEF OneMore
<1> HIDE DEF t3
<1>5. w \in Seq(S) /\ Len(w) = 3 /\ w[1] = d /\ w[2] = b /\ w[3] = e  OBVIOUS
<1> HIDE DEF w
<1>6. t \in Seq(S) /\ Len(t) = 7
      /\ (\A i \in 1..4 : t[i] = t3[i]) /\ t[4 + 1] = w[1] /\ t[4 + 2] = w[2] /\ t[4 + 3] = w[3]
  <2>1. t3 \in Seq(S) /\ w \in Seq(S) /\ Len(t3) = 4 /\ Len(w) = 3  BY ONLY <1>4, <1>5
  <2>2. /\ t \in Seq(S) /\ Len(t) = Len(t3) + Len(w)
        /\ At(t, 0, t3) /\ At(t, Len(t3), w)
    BY ONLY <2>1, Joined
  <2> HIDE DEF t
  <2> QED  BY ONLY <2>1, <2>2 DEF At
<1> HIDE DEF t
<1>7. t[1] = a /\ t[2] = b /\ t[3] = c /\ t[4] = b /\ t[5] = d /\ t[6] = b /\ t[7] = e
  BY ONLY <1>4, <1>5, <1>6
<1>8. s \in Seq(S) /\ Len(s) = 7 /\ s[1] = a /\ s[2] = b /\ s[3] = c /\ s[4] = b
      /\ s[5] = d /\ s[6] = b /\ s[7] = e
  OBVIOUS
<1> HIDE DEF s
<1>9. \A i \in 1..7 : i = 1 \/ i = 2 \/ i = 3 \/ i = 4 \/ i = 5 \/ i = 6 \/ i = 7  OBVIOUS
<1>10. \A i \in 1..Len(s) : s[i] = t[i]  BY ONLY <1>7, <1>8, <1>9
<1>11. s = t  BY ONLY <1>6, <1>8, <1>10, SameText
<1> QED  BY ONLY <1>11 DEF s, t, t3, t2, t1, w, PartsInOrder

(* What the server sends.                                                  *)
First(a) == <<"HTTP/1.1", Space, a.status, Space, "all", Space, "right">>

LEMMA FirstIs ==
  ASSUME NEW a, OfKind(a)
  PROVE  /\ First(a) \in Seq(Sign) /\ NoReturn(First(a))
         /\ Parts(First(a)) = << <<"HTTP/1.1">>, <<a.status>>, <<"all", Space, "right">> >>
         /\ HasStatus(First(a)) /\ Number[a.status] % 65536 = Number[a.status]
<1> DEFINE f == First(a)
           x == a.status
<1>1. x \in Sign /\ x # Space /\ x # "\r"  BY AnswerTexts DEF OfKind, WellAnswer
<1>2. {"HTTP/1.1", "all", "right", Space} \subseteq Sign  BY SignsAre
<1> HIDE DEF x
<1>3. f = <<"HTTP/1.1", Space, x, Space, "all", Space, "right">>  BY DEF First, x
<1> HIDE DEF f
<1>4. f \in Seq(Sign)  BY ONLY <1>1, <1>2, <1>3
<1>5. Space # "\r"  BY Zenon DEF Space
<1>6. NoReturn(f)
  <2>1. Len(f) = 7 /\ f[1] = "HTTP/1.1" /\ f[2] = Space /\ f[3] = x /\ f[4] = Space
        /\ f[5] = "all" /\ f[6] = Space /\ f[7] = "right"
    BY ONLY <1>3
  <2>2. \A i \in 1..7 : i = 1 \/ i = 2 \/ i = 3 \/ i = 4 \/ i = 5 \/ i = 6 \/ i = 7  OBVIOUS
  <2>3. "HTTP/1.1" # "\r" /\ "all" # "\r" /\ "right" # "\r"  OBVIOUS
  <2> QED  BY ONLY <1>1, <1>5, <2>1, <2>2, <2>3 DEF NoReturn
<1> DEFINE u == <<"HTTP/1.1">>
           v == <<x>>
           w == <<"all", Space, "right">>
<1>7. u \in Seq(Sign) /\ v \in Seq(Sign) /\ w \in Seq(Sign)  BY ONLY <1>1, <1>2
<1>8. f = (((u \o <<Space>>) \o v) \o <<Space>>) \o w
  <2>1. "HTTP/1.1" \in Sign /\ Space \in Sign /\ "all" \in Sign /\ "right" \in Sign
    BY ONLY <1>2
  <2>2. x \in Sign  BY ONLY <1>1
  <2>3. PartsInOrder("HTTP/1.1", Space, x, "all", "right")  BY ONLY <2>1, <2>2, PartsJoined
  <2> QED  BY ONLY Zenon, <1>3, <2>3 DEF u, v, w, PartsInOrder
<1>9. (\A i \in 1..Len(u) : u[i] # Space) /\ (\A i \in 1..Len(v) : v[i] # Space)
  <2>1. "HTTP/1.1" # Space  BY Zenon DEF Space
  <2> QED  BY ONLY <1>1, <2>1
<1> HIDE DEF u, v, w
<1>10. Parts((((u \o <<Space>>) \o v) \o <<Space>>) \o w) = <<u, v, w>>
  BY ONLY <1>2, <1>7, <1>9, PartsFound
<1>11. Parts(f) = <<u, v, w>>  BY ONLY <1>8, <1>10
<1>12. /\ Len(f) = 7 /\ f[1] # Space /\ f[2] = Space /\ f[3] # Space /\ f[4] = Space
  <2>1. Len(f) = 7 /\ f[1] = "HTTP/1.1" /\ f[2] = Space /\ f[3] = x /\ f[4] = Space
    BY ONLY <1>3
  <2>2. "HTTP/1.1" # Space  BY Zenon DEF Space
  <2> QED  BY ONLY <1>1, <2>1, <2>2
<1>13. Find(f, {Space}, 1) = 2
  <2>1. \A i \in Nat : 1 <= i /\ i < 2 => i = 1  OBVIOUS
  <2>2. \A i \in Nat : 1 <= i /\ i < 2 => f[i] \notin {Space}  BY ONLY <1>12, <2>1
  <2> QED  BY <1>4, <1>12, <2>2, FindsAt
<1>14. Find(f, {Space}, 3) = 4
  <2>1. \A i \in Nat : 3 <= i /\ i < 4 => i = 3  OBVIOUS
  <2>2. \A i \in Nat : 3 <= i /\ i < 4 => f[i] \notin {Space}  BY ONLY <1>12, <2>1
  <2> QED  BY <1>4, <1>12, <2>2, FindsAt
<1>15. x \in DOMAIN Number /\ Number[x] < 65536 /\ Number[x] \in Nat
  BY CharactersCoded DEF OfKind, x
<1>16. Parts(f)[2] = v /\ v # <<>> /\ v[1] = x  BY ONLY <1>11 DEF v
<1>17. HasStatus(f)
  <2>1. HasVersion(f)  BY ONLY <1>12, <1>13 DEF HasVersion
  <2>2. Find(f, {Space}, Find(f, {Space}, 1) + 1) <= Len(f)
    <3>1. 2 + 1 = 3  OBVIOUS
    <3> QED  BY ONLY <1>12, <1>13, <1>14, <3>1
  <2>3. Parts(f)[2] # <<>> /\ Parts(f)[2][1] = x  BY ONLY <1>16
  <2>4. Number[x] <= MaxInt  BY ONLY <1>15 DEF MaxInt
  <2> QED  BY ONLY <1>15, <2>1, <2>2, <2>3, <2>4 DEF HasStatus
<1>18. Number[x] % 65536 = Number[x]  BY ONLY <1>15
<1> QED  BY ONLY <1>4, <1>6, <1>11, <1>17, <1>18 DEF f, u, v, w, x

LEMMA BytesAre ==
  ASSUME NEW a, OfKind(a), Readable(a)
  PROVE  /\ AnswerBytes(a) = First(a) \o (NewLine \o HeadersFrom(a, 1))
         /\ AnswerBytes(a) \in Seq(Sign)
<1> DEFINE f == First(a)
           h == FlattenSeq(HeaderTexts(a))
           b == AnswerBody(a)
           g == HeadersFrom(a, 1)
<1>1. NewLine \in Seq(Sign) /\ f \in Seq(Sign)  BY SignsAre, FirstIs
<1>2. Associative(Sign)  BY JoiningAssociates
<1>3. b \in Seq(Sign) /\ g = h \o (NewLine \o b)  BY HeadersLeft
<1>4. g \in Seq(Sign)
  <2>1. 1 \in 1..Len(AnswerLines(a)) + 1  BY HeadersLeft
  <2> QED  BY <2>1, HeadersLeft
<1>5. h \in Seq(Sign)
  <2>1. OneByOne(Sign, HeaderTexts(a))  BY HeaderTextsAre, JoinedOneByOne
  <2>2. 1 \in 1..Len(HeaderTexts(a)) + 1  BY HeaderTextsAre, HeadersLeft
  <2> QED  BY ONLY <2>1, <2>2 DEF OneByOne
<1>6. heard.method = <<"HEAD">> => b = <<>>
  <2>1. heard.method = <<"HEAD">> => a.kind = "length" /\ FlattenSeq(a.pieces) = <<>>
    BY DEF Readable
  <2> QED  BY <2>1 DEF AnswerBody
<1>7. AnswerBytes(a) = (((f \o NewLine) \o h) \o NewLine) \o b
  <2>1. AnswerBytes(a) = (((f \o NewLine) \o h) \o NewLine)
                           \o (IF heard.method = <<"HEAD">> THEN <<>> ELSE b)
    BY DEF AnswerBytes, First, HeaderTexts
  <2> HIDE DEF f, h, b
  <2> QED  BY ONLY <1>6, <2>1
<1> HIDE DEF f, h, b, g
<1>8. f \o NewLine \in Seq(Sign) /\ NewLine \o b \in Seq(Sign)  BY ONLY <1>1, <1>3
<1>9. (f \o NewLine) \o h \in Seq(Sign)  BY ONLY <1>5, <1>8
<1>10. (((f \o NewLine) \o h) \o NewLine) \o b = ((f \o NewLine) \o h) \o (NewLine \o b)
  BY ONLY <1>1, <1>2, <1>3, <1>9 DEF Associative
<1>11. ((f \o NewLine) \o h) \o (NewLine \o b) = (f \o NewLine) \o (h \o (NewLine \o b))
  BY ONLY <1>2, <1>5, <1>8 DEF Associative
<1>12. (f \o NewLine) \o g = f \o (NewLine \o g)  BY ONLY <1>1, <1>2, <1>4 DEF Associative
<1>13. AnswerBytes(a) = f \o (NewLine \o g)  BY ONLY <1>3, <1>7, <1>10, <1>11, <1>12
<1>14. f \o (NewLine \o g) \in Seq(Sign)
  <2>1. NewLine \o g \in Seq(Sign)  BY ONLY <1>1, <1>4
  <2> QED  BY ONLY <1>1, <2>1
<1> QED  BY ONLY <1>13, <1>14 DEF f, g

(* The response when it has been told the status, and all of the headers.  *)
Told(a, r) ==
  /\ r.version = <<"HTTP/1.1">> /\ r.status = Number[a.status]
  /\ r.message = <<"all", Space, "right">>

AllHeaders(a, r) == Told(a, r) /\ r.headers = ParsedHeaders(AnswerLines(a))

HeadersTo(a, k) == ParsedHeaders(SubSeq(AnswerLines(a), 1, k))

(* What is left of the answer in each phase, and what is in the response.  *)
AtStatus(a, s, r) ==
  s = First(a) \o (NewLine \o HeadersFrom(a, 1)) /\ r.headers = <<>> /\ r.body = <<>>

AtHeader(a, s, r) ==
  /\ Told(a, r) /\ r.body = <<>>
  /\ \E k \in 1..Len(AnswerLines(a)) + 1 :
       s = HeadersFrom(a, k) /\ r.headers = HeadersTo(a, k - 1)

AtBody(a, s, r, e) ==
  /\ a.kind = "length" /\ AllHeaders(a, r) /\ r.body = <<>>
  /\ s = FlattenSeq(a.pieces) /\ e = Len(s)

AtSize(a, s, r) ==
  /\ a.kind = "chunked" /\ AllHeaders(a, r)
  /\ \E k \in 1..Len(a.pieces) + 1 : s = ChunksFrom(a, k) /\ r.body = BodyUpto(a, k - 1)

AtChunk(a, s, r, e) ==
  /\ a.kind = "chunked" /\ AllHeaders(a, r)
  /\ \E k \in 1..Len(a.pieces) :
       s = ChunkFrom(a, k) /\ r.body = BodyUpto(a, k - 1) /\ e = Len(a.pieces[k])

AtLast(a, s, r) ==
  a.kind = "chunked" /\ AllHeaders(a, r) /\ s = NewLine /\ r.body = FlattenSeq(a.pieces)

Coming(a, s, r, e, c, p) ==
  \/ p = "status" /\ AtStatus(a, s, r)
  \/ p = "header" /\ AtHeader(a, s, r)
  \/ p = "body" /\ ~c /\ AtBody(a, s, r, e)
  \/ p = "size" /\ c /\ AtSize(a, s, r)
  \/ p = "chunk" /\ c /\ AtChunk(a, s, r, e)
  \/ p = "last" /\ c /\ AtLast(a, s, r)

LEMMA HeadersSoFar ==
  ASSUME NEW a, OfKind(a)
  PROVE  LET n == Len(AnswerLines(a))
         IN /\ HeadersTo(a, 0) = <<>> /\ HeadersTo(a, n) = ParsedHeaders(AnswerLines(a))
            /\ \A k \in 1..n :
                 HeadersTo(a, k) = Append(HeadersTo(a, k - 1), ParseHeaderLine(AnswerLines(a)[k]))
<1> DEFINE T == Seq(Sign)
           L == AnswerLines(a)
           n == Len(L)
           g(i) == ParseHeaderLine(L[i])
<1>1. L \in Seq(T)  BY AnswerLinesAre
<1> HIDE DEF L, T
<1>2. n \in Nat  BY ONLY <1>1
<1>3. ASSUME NEW k \in 0..n PROVE ParsedHeaders(SubSeq(L, 1, k)) = [i \in 1..k |-> g(i)]
  <2>1. Len(SubSeq(L, 1, k)) = k /\ \A i \in 1..k : SubSeq(L, 1, k)[i] = L[i]
    BY ONLY <1>1, k \in 0..Len(L)
  <2> QED  BY ONLY <2>1 DEF ParsedHeaders
<1>4. \A k \in 0..n : HeadersTo(a, k) = [i \in 1..k |-> g(i)]
  BY ONLY <1>3 DEF HeadersTo, L
<1> HIDE DEF n, g
<1>5. HeadersTo(a, 0) = <<>>
  <2>1. 0 \in 0..n  BY ONLY <1>2
  <2>2. HeadersTo(a, 0) = [i \in 1..0 |-> g(i)]  BY ONLY <1>4, <2>1
  <2> QED  BY ONLY <2>2
<1>6. HeadersTo(a, n) = ParsedHeaders(L)
  <2>1. n \in 0..n  BY ONLY <1>2
  <2>2. HeadersTo(a, n) = [i \in 1..n |-> g(i)]  BY ONLY <1>4, <2>1
  <2> QED  BY ONLY <2>2 DEF ParsedHeaders, n, g
<1>7. ASSUME NEW k \in 1..n PROVE HeadersTo(a, k) = Append(HeadersTo(a, k - 1), g(k))
  <2>1. k \in 0..n /\ k - 1 \in 0..n /\ k \in Nat \ {0}  BY ONLY <1>2, k \in 1..n
  <2>2. HeadersTo(a, k) = [i \in 1..k |-> g(i)]  BY ONLY <1>4, <2>1
  <2>3. HeadersTo(a, k - 1) = [i \in 1..k - 1 |-> g(i)]  BY ONLY <1>4, <2>1
  <2>4. [i \in 1..k |-> g(i)] = Append([i \in 1..k - 1 |-> g(i)], g(k))  BY ONLY <2>1
  <2> QED  BY ONLY <2>2, <2>3, <2>4
<1> QED  BY ONLY <1>5, <1>6, <1>7 DEF n, L, g

(* Nothing but nothing makes nothing, and no line is in it.                *)
LEMMA NothingLeft ==
  ASSUME NEW S, NEW i \in Seq(S), NEW n \in Seq(S), i \o n = <<>>
  PROVE  i = <<>> /\ n = <<>>
<1>1. Len(i \o n) = Len(i) + Len(n) /\ Len(i) \in Nat /\ Len(n) \in Nat  OBVIOUS
<1>2. Len(i \o n) = 0  OBVIOUS
<1> QED  BY <1>1, <1>2

LEMMA NoLineInNothing == ~(LineEnd(<<>>, 1) <= Len(<<>>))
<1>1. ~ \E i \in 1..Len(<<>>) - 1 : <<>>[i] = "\r" /\ <<>>[i + 1] = "\n"  OBVIOUS
<1>2. LineEnd(<<>>, 1) = Len(<<>>) + 1  BY <1>1 DEF LineEnd
<1>3. Len(<<>>) = 0  OBVIOUS
<1> QED  BY ONLY <1>2, <1>3

(* A line of the answer is read, and what is after it.                     *)
LineOf(i) == SubSeq(i, 1, LineEnd(i, 1) - 1)
AfterLine(i) == SubSeq(i, LineEnd(i, 1) + 2, Len(i))
BeginsWithLine(i) == LineEnd(i, 1) <= Len(i)

Takes(i, n) ==
  \A l, r \in Seq(Sign) :
    i \o n = l \o (NewLine \o r) /\ NoReturn(l) =>
      LineOf(i) = l /\ AfterLine(i) \in Seq(Sign) /\ AfterLine(i) \o n = r

LEMMA FirstLine ==
  ASSUME NEW i \in Seq(Sign), NEW n \in Seq(Sign), BeginsWithLine(i)
  PROVE  Takes(i, n)
<1>1. {"\r", "\n"} \subseteq Sign  BY SignsAre
<1>2. LineEnd(i, 1) <= Len(i)  BY DEF BeginsWithLine
<1>3. LeavesLine(Sign, i, n)
  BY ONLY <1>1, <1>2, LineTaken, i \in Seq(Sign), n \in Seq(Sign)
<1> QED  BY ONLY <1>3 DEF LeavesLine, Takes, LineOf, AfterLine

(* A response of the right shape, and the parts that it has.               *)
Shaped(r) ==
  r = [version |-> r.version, headers |-> r.headers, body |-> r.body,
       status |-> r.status, message |-> r.message]

Has(q, v, hs, b, s, m) ==
  Shaped(q) /\ q.version = v /\ q.headers = hs /\ q.body = b /\ q.status = s /\ q.message = m

LEMMA PartsOfResponse ==
  ASSUME NEW v, NEW hs, NEW b, NEW s, NEW m
  PROVE  Has([version |-> v, headers |-> hs, body |-> b, status |-> s, message |-> m], v, hs, b, s, m)
BY DEF Has, Shaped

LEMMA PartChanged ==
  ASSUME NEW r, Shaped(r), NEW x
  PROVE  /\ Has([r EXCEPT !.version = x], x, r.headers, r.body, r.status, r.message)
         /\ Has([r EXCEPT !.headers = x], r.version, x, r.body, r.status, r.message)
         /\ Has([r EXCEPT !.body = x], r.version, r.headers, x, r.status, r.message)
         /\ Has([r EXCEPT !.status = x], r.version, r.headers, r.body, x, r.message)
         /\ Has([r EXCEPT !.message = x], r.version, r.headers, r.body, r.status, x)
<1> DEFINE R(w, h, c, t, n) ==
             [version |-> w, headers |-> h, body |-> c, status |-> t, message |-> n]
<1>1. r = R(r.version, r.headers, r.body, r.status, r.message)  BY DEF Shaped
<1>2. [r EXCEPT !.version = x] = R(x, r.headers, r.body, r.status, r.message)  BY ONLY <1>1
<1>3. [r EXCEPT !.headers = x] = R(r.version, x, r.body, r.status, r.message)  BY ONLY <1>1
<1>4. [r EXCEPT !.body = x] = R(r.version, r.headers, x, r.status, r.message)  BY ONLY <1>1
<1>5. [r EXCEPT !.status = x] = R(r.version, r.headers, r.body, x, r.message)  BY ONLY <1>1
<1>6. [r EXCEPT !.message = x] = R(r.version, r.headers, r.body, r.status, x)  BY ONLY <1>1
<1>7. \A w, h, c, t, n : Has(R(w, h, c, t, n), w, h, c, t, n)  BY ONLY PartsOfResponse
<1> HIDE DEF R
<1>8. Has([r EXCEPT !.version = x], x, r.headers, r.body, r.status, r.message)
  BY ONLY <1>2, <1>7
<1>9. Has([r EXCEPT !.headers = x], r.version, x, r.body, r.status, r.message)
  BY ONLY <1>3, <1>7
<1>10. Has([r EXCEPT !.body = x], r.version, r.headers, x, r.status, r.message)
  BY ONLY <1>4, <1>7
<1>11. Has([r EXCEPT !.status = x], r.version, r.headers, r.body, x, r.message)
  BY ONLY <1>5, <1>7
<1>12. Has([r EXCEPT !.message = x], r.version, r.headers, r.body, r.status, x)
  BY ONLY <1>6, <1>7
<1> QED  BY ONLY <1>8, <1>9, <1>10, <1>11, <1>12

WithStatus(r, p) ==
  [r EXCEPT !.version = p[1], !.status = Number[p[2][1]] % 65536, !.message = p[3]]

LEMMA StatusLineTold ==
  ASSUME NEW r, NEW line
  PROVE  WithStatusLine(r, line) = WithStatus(r, Parts(line))
BY DEF WithStatusLine, WithStatus

WithHeader(r, h) == [r EXCEPT !.headers = Append(@, h)]

LEMMA StatusHeld ==
  ASSUME NEW r, Shaped(r), NEW p
  PROVE  Has(WithStatus(r, p), p[1], r.headers, r.body, Number[p[2][1]] % 65536, p[3])
<1> DEFINE v == p[1]  s == Number[p[2][1]] % 65536  m == p[3]
           r1 == [r EXCEPT !.version = v]
           r2 == [r1 EXCEPT !.status = s]
           r3 == [r2 EXCEPT !.message = m]
<1>1. WithStatus(r, p) = r3  BY DEF WithStatus
<1> HIDE DEF v, s, m
<1>2. Has(r1, v, r.headers, r.body, r.status, r.message)  BY PartChanged
<1> HIDE DEF r1
<1>3. Shaped(r1)  BY ONLY <1>2 DEF Has
<1>4. Has(r2, r1.version, r1.headers, r1.body, s, r1.message)  BY ONLY <1>3, PartChanged
<1> HIDE DEF r2
<1>5. Shaped(r2)  BY ONLY <1>4 DEF Has
<1>6. Has(r3, r2.version, r2.headers, r2.body, r2.status, m)  BY ONLY <1>5, PartChanged
<1> HIDE DEF r3
<1>7. Has(r3, v, r.headers, r.body, s, m)  BY ONLY <1>2, <1>4, <1>6 DEF Has
<1> QED  BY ONLY <1>1, <1>7 DEF v, s, m

LEMMA HeaderHeld ==
  ASSUME NEW r, Shaped(r), NEW h
  PROVE  Has(WithHeader(r, h), r.version, Append(r.headers, h), r.body, r.status, r.message)
<1> DEFINE hs == Append(r.headers, h)
<1>1. WithHeader(r, h) = [r EXCEPT !.headers = hs]  BY DEF WithHeader
<1> HIDE DEF hs
<1>2. Has([r EXCEPT !.headers = hs], r.version, hs, r.body, r.status, r.message)  BY PartChanged
<1> QED  BY ONLY <1>1, <1>2 DEF hs

LEMMA BodyHeld ==
  ASSUME NEW r, Shaped(r), NEW b
  PROVE  /\ Has(AppendBody(r, b), r.version, r.headers, r.body \o b, r.status, r.message)
         /\ Has(Body(r, b), r.version,
                SetHeader(r.headers, <<"C", "-", "L">>, <<Numeral(Len(b))>>), b, r.status, r.message)
<1> DEFINE c == r.body \o b
           hs == SetHeader(r.headers, <<"C", "-", "L">>, <<Numeral(Len(b))>>)
<1>1. AppendBody(r, b) = [r EXCEPT !.body = c]  BY DEF AppendBody
<1> DEFINE r1 == [r EXCEPT !.body = b]
           r2 == [r1 EXCEPT !.headers = hs]
<1>2. Has(r1, r.version, r.headers, b, r.status, r.message)  BY PartChanged
<1>3. Body(r, b) = [r1 EXCEPT !.headers = SetHeader(@, <<"C", "-", "L">>, <<Numeral(Len(b))>>)]
  BY DEF Body
<1>4. r1.headers = r.headers /\ Shaped(r1)  BY ONLY <1>2 DEF Has
<1> HIDE DEF r1
<1>5. Body(r, b) = r2  BY ONLY <1>3, <1>4
<1> HIDE DEF c, hs
<1>6. Has([r EXCEPT !.body = c], r.version, r.headers, c, r.status, r.message)  BY PartChanged
<1>7. Has(r2, r1.version, hs, r1.body, r1.status, r1.message)  BY ONLY <1>4, PartChanged
<1> HIDE DEF r2
<1>8. Has(r2, r.version, hs, b, r.status, r.message)  BY ONLY <1>2, <1>7 DEF Has
<1> QED  BY ONLY <1>1, <1>5, <1>6, <1>8 DEF c, hs

LEMMA StatusRead ==
  ASSUME NEW a, OfKind(a), NEW i \in Seq(Sign), NEW n \in Seq(Sign), BeginsWithLine(i),
         NEW r, Shaped(r), AtStatus(a, i \o n, r)
  PROVE  /\ AfterLine(i) \in Seq(Sign)
         /\ HasStatus(LineOf(i))
         /\ AtHeader(a, AfterLine(i) \o n, WithStatusLine(r, LineOf(i)))
<1> DEFINE l == First(a)
           s == HeadersFrom(a, 1)
           p == Parts(l)
           q == WithStatus(r, p)
           m == Len(AnswerLines(a))
<1>1. /\ l \in Seq(Sign) /\ NoReturn(l) /\ HasStatus(l)
      /\ p = << <<"HTTP/1.1">>, <<a.status>>, <<"all", Space, "right">> >>
      /\ Number[a.status] % 65536 = Number[a.status]
  BY FirstIs
<1>2. m \in Nat /\ \A k \in 1..m + 1 : HeadersFrom(a, k) \in Seq(Sign)  BY HeadersLeft
<1>3. 1 \in 1..m + 1  BY ONLY <1>2
<1>4. s \in Seq(Sign)  BY ONLY <1>2, <1>3
<1>5. i \o n = l \o (NewLine \o s) /\ r.headers = <<>> /\ r.body = <<>>  BY DEF AtStatus
<1> HIDE DEF l, s
<1>6. LineOf(i) = l /\ AfterLine(i) \in Seq(Sign) /\ AfterLine(i) \o n = s
  <2>1. Takes(i, n)  BY FirstLine
  <2>2. l \in Seq(Sign) /\ NoReturn(l)  BY ONLY <1>1
  <2> QED  BY ONLY <1>4, <1>5, <2>1, <2>2 DEF Takes
<1>7. /\ q.version = p[1] /\ q.status = Number[p[2][1]] % 65536 /\ q.message = p[3]
      /\ q.headers = r.headers /\ q.body = r.body
  <2> HIDE DEF p
  <2>1. Has(q, p[1], r.headers, r.body, Number[p[2][1]] % 65536, p[3])  BY StatusHeld
  <2> HIDE DEF q
  <2> QED  BY ONLY <2>1 DEF Has
<1> HIDE DEF q, p
<1>8. Told(a, q)
  <2>1. p[1] = <<"HTTP/1.1">> /\ p[2][1] = a.status /\ p[3] = <<"all", Space, "right">>
    BY ONLY <1>1
  <2> QED  BY ONLY <1>1, <1>7, <2>1 DEF Told
<1>9. q.headers = HeadersTo(a, 1 - 1)
  <2>1. 1 - 1 = 0  OBVIOUS
  <2>2. HeadersTo(a, 0) = <<>>  BY HeadersSoFar
  <2> QED  BY ONLY <1>5, <1>7, <2>1, <2>2
<1>10. AtHeader(a, s, q)  BY ONLY <1>3, <1>5, <1>7, <1>8, <1>9 DEF AtHeader, s, m
<1>11. WithStatusLine(r, l) = q  BY StatusLineTold DEF q, p
<1> QED  BY ONLY <1>1, <1>6, <1>10, <1>11

LEMMA HeaderRead ==
  ASSUME NEW a, OfKind(a), NEW i \in Seq(Sign), NEW n \in Seq(Sign), BeginsWithLine(i),
         NEW r, Shaped(r), AtHeader(a, i \o n, r)
  PROVE  /\ AfterLine(i) \in Seq(Sign)
         /\ LineOf(i) # <<>> =>
              /\ HasName(LineOf(i))
              /\ AtHeader(a, AfterLine(i) \o n, WithHeader(r, ParseHeaderLine(LineOf(i))))
         /\ LineOf(i) = <<>> =>
              AllHeaders(a, r) /\ r.body = <<>> /\ AfterLine(i) \o n = AnswerBody(a)
<1> DEFINE L == AnswerLines(a)
           m == Len(L)
<1>1. m \in Nat /\ AnswerBody(a) \in Seq(Sign)
      /\ (\A k \in 1..m + 1 : HeadersFrom(a, k) \in Seq(Sign))
      /\ (\A k \in 1..m : HeadersFrom(a, k) = L[k] \o (NewLine \o HeadersFrom(a, k + 1)))
      /\ HeadersFrom(a, m + 1) = NewLine \o AnswerBody(a)
  BY HeadersLeft
<1>2. PICK k \in 1..m + 1 : i \o n = HeadersFrom(a, k) /\ r.headers = HeadersTo(a, k - 1)
  BY DEF AtHeader
<1>3. Told(a, r) /\ r.body = <<>>  BY DEF AtHeader
<1>4. L \in Seq(Seq(Sign)) /\ \A j \in 1..m : L[j] # <<>> /\ NoReturn(L[j]) /\ HasName(L[j])
  BY AnswerLinesAre
<1>5. HeadersTo(a, m) = ParsedHeaders(L)
      /\ \A j \in 1..m : HeadersTo(a, j) = Append(HeadersTo(a, j - 1), ParseHeaderLine(L[j]))
  BY HeadersSoFar
<1> HIDE DEF L
<1>6. CASE k = m + 1
  <2> DEFINE l == <<>>  b == AnswerBody(a)
  <2>1. l \in Seq(Sign) /\ NoReturn(l)  BY DEF NoReturn
  <2>2. NewLine \o b \in Seq(Sign)
    <3>1. NewLine \in Seq(Sign)  BY SignsAre
    <3> QED  BY ONLY <1>1, <3>1
  <2>3. l \o (NewLine \o b) = NewLine \o b  BY ONLY <2>2, NothingJoined
  <2>4. i \o n = l \o (NewLine \o b)  BY ONLY <1>1, <1>2, <1>6, <2>3
  <2>5. b \in Seq(Sign)  BY ONLY <1>1
  <2> HIDE DEF l, b
  <2>6. LineOf(i) = l /\ AfterLine(i) \in Seq(Sign) /\ AfterLine(i) \o n = b
    <3>1. Takes(i, n)  BY FirstLine
    <3> QED  BY ONLY <2>1, <2>4, <2>5, <3>1 DEF Takes
  <2>7. (m + 1) - 1 = m  BY ONLY <1>1
  <2>8. AllHeaders(a, r)  BY ONLY <1>2, <1>3, <1>5, <1>6, <2>7 DEF AllHeaders, L
  <2> QED  BY ONLY <1>3, <2>6, <2>8 DEF l, b
<1>7. CASE k \in 1..m
  <2> DEFINE l == L[k]  s == HeadersFrom(a, k + 1)
             h == ParseHeaderLine(l)
             q == WithHeader(r, h)
  <2>1. l \in Seq(Sign)
    <3> DEFINE T == Seq(Sign)
    <3>1. L \in Seq(T)  BY ONLY <1>4
    <3> HIDE DEF T
    <3>2. l \in T  BY ONLY <1>7, <3>1
    <3> QED  BY ONLY <3>2 DEF T
  <2>2. l # <<>> /\ NoReturn(l) /\ HasName(l)  BY ONLY <1>4, <1>7
  <2>3. k + 1 \in 1..m + 1 /\ (k + 1) - 1 = k  BY ONLY <1>1, <1>7
  <2>4. s \in Seq(Sign) /\ i \o n = l \o (NewLine \o s)  BY ONLY <1>1, <1>2, <1>7, <2>3
  <2>5. HeadersTo(a, k) = Append(r.headers, h)  BY ONLY <1>2, <1>5, <1>7
  <2> HIDE DEF l, s, h
  <2>6. LineOf(i) = l /\ AfterLine(i) \in Seq(Sign) /\ AfterLine(i) \o n = s
    <3>1. Takes(i, n)  BY FirstLine
    <3> QED  BY ONLY <2>1, <2>2, <2>4, <3>1 DEF Takes
  <2>7. /\ q.version = r.version /\ q.status = r.status
        /\ q.message = r.message /\ q.headers = Append(r.headers, h) /\ q.body = r.body
    BY HeaderHeld DEF Has
  <2> HIDE DEF q
  <2>8. Told(a, q) /\ q.body = <<>>  BY ONLY <1>3, <2>7 DEF Told
  <2>9. q.headers = HeadersTo(a, (k + 1) - 1)  BY ONLY <2>3, <2>5, <2>7
  <2>10. AtHeader(a, s, q)  BY ONLY <2>3, <2>8, <2>9 DEF AtHeader, s, m, L
  <2> QED  BY ONLY <2>2, <2>6, <2>10 DEF q, h
<1>8. k \in 1..m \/ k = m + 1  BY ONLY <1>1, k \in 1..m + 1
<1> QED  BY ONLY <1>6, <1>7, <1>8

(* The size of a chunk is read, and there is a chunk unless it is zero.    *)
LEMMA OneSign ==
  ASSUME NEW x \in DOMAIN Number
  PROVE  <<x>> \in Seq(Sign) /\ NoReturn(<<x>>) /\ <<x>>[1] = x
<1>1. x \in Sign  BY SignsAre
<1>2. x # "\r"  BY CharactersAreSolid
<1>3. <<x>> \in Seq(Sign) /\ Len(<<x>>) = 1 /\ <<x>>[1] = x  BY ONLY <1>1
<1> QED  BY ONLY <1>2, <1>3 DEF NoReturn

SizeOf(i) == Number[LineOf(i)[1]]

LEMMA SizeRead ==
  ASSUME NEW a, OfKind(a), NEW i \in Seq(Sign), NEW n \in Seq(Sign), BeginsWithLine(i),
         NEW r, AtSize(a, i \o n, r)
  PROVE  /\ AfterLine(i) \in Seq(Sign)
         /\ SizeOf(i) > 0 => AtChunk(a, AfterLine(i) \o n, r, SizeOf(i))
         /\ ~(SizeOf(i) > 0) => AtLast(a, AfterLine(i) \o n, r)
<1> DEFINE m == Len(a.pieces)
<1>1. m \in Nat
      /\ (\A k \in 1..m : /\ ChunkFrom(a, k) \in Seq(Sign)
                          /\ ChunksFrom(a, k) =
                               <<Numeral(Len(a.pieces[k]))>> \o (NewLine \o ChunkFrom(a, k)))
      /\ ChunksFrom(a, m + 1) = <<"0">> \o (NewLine \o NewLine)
      /\ BodyUpto(a, m) = FlattenSeq(a.pieces)
  BY ChunksLeft
<1>2. PICK k \in 1..m + 1 : i \o n = ChunksFrom(a, k) /\ r.body = BodyUpto(a, k - 1)
  BY DEF AtSize
<1>3. a.kind = "chunked" /\ AllHeaders(a, r)  BY DEF AtSize
<1>4. Takes(i, n)  BY FirstLine
<1>5. CASE k = m + 1
  <2> DEFINE l == <<"0">>
  <2>1. "0" \in DOMAIN Number /\ Number["0"] = 0  BY AnswersWellFormed
  <2>2. l \in Seq(Sign) /\ NoReturn(l) /\ l[1] = "0"  BY <2>1, OneSign
  <2>3. NewLine \in Seq(Sign)  BY SignsAre
  <2>4. i \o n = l \o (NewLine \o NewLine)  BY ONLY <1>1, <1>2, <1>5
  <2> HIDE DEF l
  <2>5. LineOf(i) = l /\ AfterLine(i) \in Seq(Sign) /\ AfterLine(i) \o n = NewLine
    BY ONLY <1>4, <2>2, <2>3, <2>4 DEF Takes
  <2>6. SizeOf(i) = 0  BY ONLY <2>1, <2>2, <2>5 DEF SizeOf
  <2>7. (m + 1) - 1 = m  BY ONLY <1>1
  <2>8. r.body = FlattenSeq(a.pieces)  BY ONLY <1>1, <1>2, <1>5, <2>7
  <2>9. AtLast(a, AfterLine(i) \o n, r)  BY ONLY <1>3, <2>5, <2>8 DEF AtLast
  <2>10. ~(SizeOf(i) > 0)  BY ONLY <2>6
  <2> QED  BY ONLY <2>5, <2>9, <2>10
<1>6. CASE k \in 1..m
  <2> DEFINE p == a.pieces[k]
             x == Numeral(Len(p))
             l == <<x>>
             c == ChunkFrom(a, k)
  <2>1. Len(p) \in Nat \ {0} /\ x \in DOMAIN Number /\ Number[x] = Len(p)
    BY <1>6, PieceIsText
  <2>2. c \in Seq(Sign) /\ i \o n = l \o (NewLine \o c)  BY ONLY <1>1, <1>2, <1>6
  <2> HIDE DEF c, x
  <2>3. l \in Seq(Sign) /\ NoReturn(l) /\ l[1] = x  BY <2>1, OneSign
  <2> HIDE DEF l
  <2>4. LineOf(i) = l /\ AfterLine(i) \in Seq(Sign) /\ AfterLine(i) \o n = c
    BY ONLY <1>4, <2>2, <2>3 DEF Takes
  <2>5. SizeOf(i) = Len(p)  BY ONLY <2>1, <2>3, <2>4 DEF SizeOf
  <2>6. AtChunk(a, AfterLine(i) \o n, r, SizeOf(i))
    BY ONLY <1>2, <1>3, <1>6, <2>4, <2>5 DEF AtChunk, c, p, m
  <2>7. SizeOf(i) > 0  BY ONLY <2>1, <2>5
  <2> QED  BY ONLY <2>4, <2>6, <2>7
<1>7. k \in 1..m \/ k = m + 1  BY ONLY <1>1, k \in 1..m + 1
<1> QED  BY ONLY <1>5, <1>6, <1>7

(* A chunk is read with the two characters after it.                       *)
LineBetween(x, y) ==
  /\ x \o NewLine \in Seq(Sign) /\ NewLine \o y \in Seq(Sign)
  /\ Len(x \o NewLine) = Len(x) + 2 /\ Len(x) \in Nat
  /\ x \o (NewLine \o y) = (x \o NewLine) \o y

LEMMA LinesBetween ==
  ASSUME NEW x \in Seq(Sign), NEW y \in Seq(Sign)
  PROVE  LineBetween(x, y)
<1>1. NewLine \in Seq(Sign) /\ Len(NewLine) = 2
  <2>1. NewLine \in Seq(Sign)  BY SignsAre
  <2>2. Len(NewLine) = 2  BY DEF NewLine
  <2> QED  BY ONLY <2>1, <2>2
<1>2. x \o NewLine \in Seq(Sign) /\ Len(x \o NewLine) = Len(x) + Len(NewLine) /\ Len(x) \in Nat
  BY ONLY <1>1, Joined, x \in Seq(Sign)
<1>3. NewLine \o y \in Seq(Sign)  BY ONLY <1>1, y \in Seq(Sign)
<1>4. Associative(Sign)  BY ONLY JoiningAssociates
<1>5. (x \o NewLine) \o y = x \o (NewLine \o y)
  BY ONLY <1>1, <1>4, x \in Seq(Sign), y \in Seq(Sign) DEF Associative
<1> QED  BY ONLY <1>1, <1>2, <1>3, <1>5 DEF LineBetween

AfterFirst(i, w) == SubSeq(i, w + 1, Len(i))

LEMMA ChunkRead ==
  ASSUME NEW a, OfKind(a), NEW i \in Seq(Sign), NEW n \in Seq(Sign),
         NEW r, Shaped(r), NEW e, AtChunk(a, i \o n, r, e), Len(i) >= e + 2
  PROVE  /\ AfterFirst(i, e + 2) \in Seq(Sign)
         /\ AtSize(a, AfterFirst(i, e + 2) \o n, AppendBody(r, SubSeq(i, 1, (e + 2) - 2)))
<1> DEFINE m == Len(a.pieces)
<1>1. m \in Nat
      /\ (\A k \in 1..m + 1 : ChunksFrom(a, k) \in Seq(Sign))
      /\ (\A k \in 1..m : BodyUpto(a, k) = BodyUpto(a, k - 1) \o a.pieces[k])
  BY ChunksLeft
<1>2. PICK k \in 1..m : i \o n = ChunkFrom(a, k) /\ r.body = BodyUpto(a, k - 1) /\ e = Len(a.pieces[k])
  BY DEF AtChunk
<1>3. a.kind = "chunked" /\ AllHeaders(a, r)  BY DEF AtChunk
<1>4. k + 1 \in 1..m + 1 /\ (k + 1) - 1 = k  BY ONLY <1>1, k \in 1..m
<1> DEFINE p == a.pieces[k]
           s == ChunksFrom(a, k + 1)
           t == p \o NewLine
           v == NewLine \o s
<1>5. p \in Seq(Sign)  BY PieceIsText
<1>6. s \in Seq(Sign)  BY ONLY <1>1, <1>4
<1>7. i \o n = p \o v  BY ONLY <1>2 DEF ChunkFrom
<1>8. e = Len(p)  BY ONLY <1>2
<1>9. BodyUpto(a, k) = r.body \o p  BY ONLY <1>1, <1>2, k \in 1..m
<1> HIDE DEF p, s
<1>10. LineBetween(p, s)
  <2>1. p \in Seq(Sign) /\ s \in Seq(Sign)  BY ONLY <1>5, <1>6
  <2> QED  BY ONLY <2>1, LinesBetween
<1>11. t \in Seq(Sign) /\ v \in Seq(Sign) /\ Len(t) = Len(p) + 2 /\ Len(p) \in Nat
       /\ p \o v = t \o s
  BY ONLY <1>10 DEF LineBetween
<1> HIDE DEF t, v
<1>12. LeavesRest(Sign, i, n)  BY RestIsLeft
<1>13. i \o n = t \o s  BY ONLY <1>7, <1>11
<1>14. e + 2 = Len(t) /\ (e + 2) - 2 = Len(p)  BY ONLY <1>8, <1>11
<1>15. Len(i) >= Len(t)  BY ONLY <1>14, Len(i) >= e + 2
<1>16. Len(i) >= Len(p)
  <2>1. Len(i) \in Nat  OBVIOUS
  <2> QED  BY ONLY <1>11, <1>15, <2>1
<1>17. SubSeq(i, 1, Len(p)) = p
  BY ONLY <1>5, <1>7, <1>11, <1>12, <1>16 DEF LeavesRest
<1>18. AfterFirst(i, Len(t)) \in Seq(Sign) /\ AfterFirst(i, Len(t)) \o n = s
  BY ONLY <1>6, <1>11, <1>12, <1>13, <1>15 DEF LeavesRest, AfterFirst
<1> DEFINE q == AppendBody(r, p)
<1>19. q.version = r.version /\ q.headers = r.headers /\ q.body = r.body \o p
       /\ q.status = r.status /\ q.message = r.message
  <2>1. Has(q, r.version, r.headers, r.body \o p, r.status, r.message)  BY BodyHeld
  <2> HIDE DEF q
  <2> QED  BY ONLY <2>1 DEF Has
<1> HIDE DEF q
<1>20. AllHeaders(a, q)  BY ONLY <1>3, <1>19 DEF AllHeaders, Told
<1>21. q.body = BodyUpto(a, (k + 1) - 1)  BY ONLY <1>4, <1>9, <1>19
<1>22. AtSize(a, s, q)  BY ONLY <1>3, <1>4, <1>20, <1>21 DEF AtSize, s, m
<1> QED  BY ONLY <1>14, <1>17, <1>18, <1>22 DEF q

(* The empty line after the last chunk is the end of the answer.           *)
LEMMA LastRead ==
  ASSUME NEW a, OfKind(a), NEW i \in Seq(Sign), NEW n \in Seq(Sign), BeginsWithLine(i),
         NEW r, AtLast(a, i \o n, r)
  PROVE  AfterLine(i) = <<>> /\ n = <<>>
<1> DEFINE l == <<>>
<1>1. l \in Seq(Sign) /\ NoReturn(l)  BY DEF NoReturn
<1>2. NewLine \in Seq(Sign)  BY SignsAre
<1>3. l \o (NewLine \o l) = NewLine
  <2>1. NewLine \o <<>> = NewLine /\ <<>> \o NewLine = NewLine  BY ONLY <1>2, NothingJoined
  <2> QED  BY ONLY <2>1
<1>4. i \o n = l \o (NewLine \o l)  BY ONLY <1>3, AtLast(a, i \o n, r) DEF AtLast
<1>5. Takes(i, n)  BY FirstLine
<1> HIDE DEF l
<1>6. AfterLine(i) \in Seq(Sign) /\ AfterLine(i) \o n = l  BY ONLY <1>1, <1>4, <1>5 DEF Takes
<1> QED  BY ONLY <1>6, NothingLeft, n \in Seq(Sign) DEF l

(* All of the body is read at once, and the length that message::body()    *)
(* sets is the one that the server has told.                               *)
LEMMA BodyRead ==
  ASSUME NEW a, OfKind(a), NEW i \in Seq(Sign), NEW n \in Seq(Sign),
         NEW r, Shaped(r), NEW e, AtBody(a, i \o n, r, e), Len(i) >= e
  PROVE  /\ AfterFirst(i, e) = <<>> /\ n = <<>>
         /\ LET q == Body(r, SubSeq(i, 1, e))
            IN Shaped(q) /\ AllHeaders(a, q) /\ q.body = FlattenSeq(a.pieces)
<1> DEFINE f == FlattenSeq(a.pieces)
           z == <<>>
<1>1. a.kind = "length" /\ AllHeaders(a, r) /\ i \o n = f /\ e = Len(f)
  <2>1. a.kind = "length" /\ AllHeaders(a, r) /\ i \o n = f /\ e = Len(i \o n)  BY DEF AtBody
  <2> HIDE DEF f
  <2> QED  BY ONLY <2>1
<1>2. f \in Seq(Sign)  BY ChunksLeft
<1>3. SetHeader(ParsedHeaders(AnswerLines(a)), <<"C", "-", "L">>, <<Numeral(Len(f))>>)
        = ParsedHeaders(AnswerLines(a))
  BY <1>1, HeadersTell
<1> HIDE DEF f
<1>4. f \o z = f /\ z \in Seq(Sign)  BY ONLY <1>2, NothingJoined
<1> HIDE DEF z
<1>5. LeavesRest(Sign, i, n)  BY RestIsLeft
<1>6. i \o n = f \o z /\ Len(i) >= Len(f)  BY ONLY <1>1, <1>4, Len(i) >= e
<1>7. SubSeq(i, 1, Len(f)) = f /\ AfterFirst(i, Len(f)) \in Seq(Sign)
      /\ AfterFirst(i, Len(f)) \o n = z
  BY ONLY <1>2, <1>4, <1>5, <1>6 DEF LeavesRest, AfterFirst
<1>8. AfterFirst(i, Len(f)) = <<>> /\ n = <<>>
  BY ONLY <1>7, NothingLeft, n \in Seq(Sign) DEF z
<1> DEFINE q == Body(r, f)
<1>9. Has(q, r.version, SetHeader(r.headers, <<"C", "-", "L">>, <<Numeral(Len(f))>>), f,
          r.status, r.message)
  BY BodyHeld
<1> HIDE DEF q
<1>10. Shaped(q) /\ AllHeaders(a, q) /\ q.body = f
  BY ONLY <1>1, <1>3, <1>9 DEF Has, AllHeaders, Told
<1> QED  BY ONLY <1>1, <1>7, <1>8, <1>10 DEF q, f

(* The invariant of the connection and the response.                       *)
Phases == {"closed", "status", "header", "size", "chunk", "body", "last", "stuck"}

PhasePart ==
  /\ phase \in Phases
  /\ Shaped(res)

(* The response is new, or has been reset, when a request is sent.         *)
FreshPart ==
  clean /\ stage \in {"sent", "heard"} =>
    phase = "status" /\ res.headers = <<>> /\ res.body = <<>>

(* Nothing comes in but what was asked for.                                *)
DrainedPart ==
  clean /\ phase = "status" /\ stage # "answered" => in = <<>> /\ net = <<>>

ReadingPart ==
  clean /\ stage = "answered" =>
    /\ Readable(asked.answer)
    /\ in \in Seq(Sign) /\ net \in Seq(Sign)
    /\ Coming(asked.answer, in \o net, res, expected, chunked, phase)

ReadPart ==
  clean /\ stage = "done" =>
    AllHeaders(asked.answer, res) /\ res.body = FlattenSeq(asked.answer.pieces)

AnswerInv == PhasePart /\ FreshPart /\ DrainedPart /\ ReadingPart /\ ReadPart

LEMMA InitAnswer == Init => AnswerInv
<1> SUFFICES ASSUME Init PROVE AnswerInv  OBVIOUS
<1>1. stage = "idle" /\ phase = "closed" /\ res = Empty  BY DEF Init
<1>2. Shaped(Empty)  BY DEF Empty, Shaped
<1> QED  BY <1>1, <1>2 DEF AnswerInv, PhasePart, FreshPart, DrainedPart, ReadingPart, ReadPart, Phases

(* While an answer is read it is one of those the client reads, and what   *)
(* is in the phase is what comes.                                          *)
Now ==
  /\ clean /\ stage = "answered" /\ Readable(asked.answer) /\ OfKind(asked.answer)
  /\ in \in Seq(Sign) /\ net \in Seq(Sign) /\ Shaped(res)
  /\ Coming(asked.answer, in \o net, res, expected, chunked, phase)

LEMMA AnswerAsked ==
  ASSUME AskedPart, stage # "idle"
  PROVE  asked.answer \in AnswersOfWork /\ WellAnswer(asked.answer)
<1>1. requests \in 1..Len(Work) /\ asked \in Work[requests]  BY DEF AskedPart
<1>2. WellAnswer(asked.answer)  BY <1>1, AnswersWellFormed
<1>3. asked.answer \in {w.answer : w \in Work[requests]}  BY Zenon, <1>1
<1>4. asked.answer \in AnswersOfWork  BY Zenon, <1>1, <1>3 DEF AnswersOfWork
<1> QED  BY <1>2, <1>4

LEMMA ReadingNow ==
  ASSUME ExchangeInv, ServerInv, AnswerInv, clean,
         \/ phase \in {"header", "size", "chunk", "body", "last"}
         \/ phase = "status" /\ HasResponse /\ HasLine
         \/ stage = "answered"
  PROVE  Now
<1>1. stage = "answered"
  <2>1. CASE phase \in {"header", "size", "chunk", "body", "last"}
    <3>1. HasResponse  BY <2>1 DEF ExchangeInv, StageInv
    <3> QED  BY <2>1, <3>1 DEF HasResponse, AnswerInv, FreshPart
  <2>2. CASE phase = "status" /\ HasResponse /\ HasLine
    <3>1. in # <<>>  BY <2>2, NoLineInNothing DEF HasLine
    <3> QED  BY <2>2, <3>1 DEF AnswerInv, DrainedPart
  <2> QED  BY <2>1, <2>2
<1>2. /\ Readable(asked.answer) /\ in \in Seq(Sign) /\ net \in Seq(Sign)
      /\ Coming(asked.answer, in \o net, res, expected, chunked, phase)
  BY <1>1 DEF AnswerInv, ReadingPart
<1>3. asked.answer \in AnswersOfWork /\ WellAnswer(asked.answer)
  BY <1>1, AnswerAsked DEF ServerInv
<1>4. OfKind(asked.answer)  BY <1>2, <1>3 DEF OfKind, Readable
<1> QED  BY <1>1, <1>2, <1>4 DEF Now, AnswerInv, PhasePart

(* A step that goes on with the answer keeps what is to come.              *)
GoesOn ==
  /\ UNCHANGED <<stage, asked, heard, clean>> /\ stage = "answered"
  /\ phase' \in Phases
  /\ Shaped(res')
  /\ clean => /\ Readable(asked.answer)
              /\ in' \in Seq(Sign) /\ net' \in Seq(Sign)
              /\ Coming(asked.answer, in' \o net', res', expected', chunked', phase')

LEMMA GoesOnKeeps == ASSUME GoesOn PROVE AnswerInv'
<1>1. stage' = "answered" /\ asked' = asked /\ heard' = heard /\ clean' = clean  BY DEF GoesOn
<1>2. PhasePart'  BY DEF GoesOn, PhasePart
<1>3. FreshPart' /\ DrainedPart' /\ ReadPart'  BY <1>1 DEF FreshPart, DrainedPart, ReadPart
<1>4. Readable(asked.answer)' <=> Readable(asked.answer)  BY <1>1 DEF Readable
<1>5. ReadingPart'  BY <1>1, <1>4 DEF GoesOn, ReadingPart
<1> QED  BY <1>2, <1>3, <1>5 DEF AnswerInv

(* A step on a connection that has been spoiled.                           *)
LEMMA SpoiledKeeps ==
  ASSUME ~clean', phase' \in Phases,
         Shaped(res')
  PROVE  AnswerInv'
BY DEF AnswerInv, PhasePart, FreshPart, DrainedPart, ReadingPart, ReadPart

(* A step of the caller, which leaves the connection alone, or a failure.  *)
Apart ==
  /\ UNCHANGED clean
  /\ phase' \in {phase, "closed"}
  /\ stage # "answered" \/ phase' = "closed"
  /\ stage' \notin {"sent", "heard", "answered", "done"}
  /\ phase' = "closed" \/ UNCHANGED <<in, net>>
  /\ res' \in {res, Empty}

LEMMA ApartKeeps == ASSUME AnswerInv, Apart PROVE AnswerInv'
<1>1. Shaped(Empty)  BY DEF Empty, Shaped
<1>2. PhasePart'  BY <1>1 DEF Apart, AnswerInv, PhasePart, Phases
<1>3. FreshPart' /\ ReadingPart' /\ ReadPart'  BY DEF Apart, FreshPart, ReadingPart, ReadPart
<1>4. DrainedPart'  BY DEF Apart, AnswerInv, DrainedPart
<1> QED  BY <1>2, <1>3, <1>4 DEF AnswerInv

(* Nothing of all this changes.                                            *)
Still == UNCHANGED <<stage, asked, heard, connVars, res>>

LEMMA StillKeeps == ASSUME AnswerInv, Still PROVE AnswerInv'
<1>1. UNCHANGED <<stage, asked, heard, clean, net, in, phase, expected, chunked, res>>
  BY DEF Still, connVars
<1>2. PhasePart' /\ FreshPart' /\ DrainedPart'
  BY <1>1 DEF AnswerInv, PhasePart, FreshPart, DrainedPart
<1>3. Readable(asked.answer)' <=> Readable(asked.answer)  BY <1>1 DEF Readable
<1>4. ReadingPart'  BY <1>1, <1>3 DEF AnswerInv, ReadingPart
<1>5. ReadPart'  BY <1>1 DEF AnswerInv, ReadPart
<1> QED  BY <1>2, <1>4, <1>5 DEF AnswerInv

(* A request is sent, or sent again.                                       *)
LEMMA ConnectKeeps ==
  ASSUME ExchangeInv, AnswerInv, ~HasResponse, NEW key, Connect(key), stage' = "sent",
         Shaped(res'), res'.headers = <<>>, res'.body = <<>>
  PROVE  AnswerInv'
<1>1. phase' \in {phase, "status"}  BY DEF Connect
<1>2. PhasePart'  BY <1>1 DEF AnswerInv, PhasePart, Phases
<1>3. clean' => phase' = "status" /\ in' = <<>> /\ net' = <<>>
  <2>1. CASE conn = key /\ phase # "closed"
    <3>1. UNCHANGED <<clean, net, in, phase>>  BY <2>1 DEF Connect
    <3>2. phase = "status"  BY <2>1 DEF AnswerInv, PhasePart, ExchangeInv, StageInv, Phases
    <3>3. stage # "answered"  BY DEF HasResponse
    <3> QED  BY <3>1, <3>2, <3>3 DEF AnswerInv, DrainedPart
  <2>2. CASE ~(conn = key /\ phase # "closed")  BY <2>2 DEF Connect
  <2> QED  BY <2>1, <2>2
<1>4. FreshPart' /\ DrainedPart' /\ ReadingPart' /\ ReadPart'
  BY <1>3 DEF FreshPart, DrainedPart, ReadingPart, ReadPart
<1> QED  BY <1>2, <1>4 DEF AnswerInv

LEMMA CallerAnswers == ASSUME ExchangeInv, AnswerInv, Caller PROVE AnswerInv'
<1>1. CASE WriteUri
  <2>1. Apart  BY <1>1 DEF WriteUri, Apart, connVars
  <2> QED  BY <2>1, ApartKeeps
<1>2. CASE AddParam \/ MakeRequest
  <2>1. Apart  BY <1>2 DEF AddParam, MakeRequest, Apart, connVars
  <2> QED  BY <2>1, ApartKeeps
<1>3. CASE CallAddHeader \/ CallSetHeader \/ CallBody \/ CallAppendBody
  <2>1. \E op : CallSetter(op)
    BY <1>3 DEF CallAddHeader, CallSetHeader, CallBody, CallAppendBody
  <2>2. Apart  BY <2>1 DEF CallSetter, Apart, connVars
  <2> QED  BY <2>2, ApartKeeps
<1>4. CASE (\E n \in MaxConnections : SetMaxConnections(n)) \/ (\E on \in BOOLEAN : SetLimitConnections(on))
  <2>1. \E l : SetLimits(l)  BY <1>4 DEF SetMaxConnections, SetLimitConnections
  <2>2. Still  BY <2>1 DEF SetLimits, Still, askVars
  <2> QED  BY <2>2, StillKeeps
<1>5. CASE Request
  <2>1. stage = "request" /\ stage' = "sent" /\ res' = Empty /\ Connect(Key(Details(uri)))
    BY <1>5 DEF Request
  <2>2. Shaped(res') /\ res'.headers = <<>> /\ res'.body = <<>>  BY <2>1 DEF Empty, Shaped
  <2>3. ~HasResponse  BY <2>1 DEF HasResponse
  <2> QED  BY <2>1, <2>2, <2>3, ConnectKeeps
<1>6. CASE Retry
  <2>1. stage = "failed" /\ stage' = "sent" /\ res' = Reset(res) /\ Connect(conn)
    BY <1>6 DEF Retry
  <2>2. Shaped(res)  BY DEF AnswerInv, PhasePart
  <2> DEFINE r1 == [res EXCEPT !.headers = <<>>]
             r2 == [r1 EXCEPT !.version = <<>>]
             r3 == [r2 EXCEPT !.body = <<>>]
  <2>3. res' = r3  BY <2>1 DEF Reset
  <2>4. Has(r1, res.version, <<>>, res.body, res.status, res.message)  BY <2>2, PartChanged
  <2> HIDE DEF r1
  <2>5. Shaped(r1) /\ r1.headers = <<>>  BY ONLY <2>4 DEF Has
  <2>6. Has(r2, <<>>, r1.headers, r1.body, r1.status, r1.message)  BY ONLY <2>5, PartChanged
  <2> HIDE DEF r2
  <2>7. Shaped(r2) /\ r2.headers = <<>>  BY ONLY <2>5, <2>6 DEF Has
  <2>8. Has(r3, r2.version, r2.headers, <<>>, r2.status, r2.message)  BY ONLY <2>7, PartChanged
  <2> HIDE DEF r3
  <2>9. Shaped(res') /\ res'.headers = <<>> /\ res'.body = <<>>  BY ONLY <2>3, <2>7, <2>8 DEF Has
  <2>10. ~HasResponse  BY <2>1 DEF HasResponse
  <2> QED  BY <2>1, <2>9, <2>10, ConnectKeeps
<1>7. CASE Finish
  <2>1. Apart  BY <1>7 DEF Finish, Apart, connVars
  <2> QED  BY <2>1, ApartKeeps
<1> QED  BY <1>1, <1>2, <1>3, <1>4, <1>5, <1>6, <1>7 DEF Caller

(* The server hears, and answers; what it sends comes in.                  *)
LEMMA HearAnswers == ASSUME AnswerInv, Hear PROVE AnswerInv'
<1>1. /\ stage = "sent" /\ stage' = "heard"
      /\ UNCHANGED <<clean, net, in, phase, res>>
  BY DEF Hear, connVars
<1>2. PhasePart' /\ FreshPart' /\ DrainedPart' /\ ReadingPart' /\ ReadPart'
  BY <1>1 DEF AnswerInv, PhasePart, FreshPart, DrainedPart, ReadingPart, ReadPart
<1> QED  BY <1>2 DEF AnswerInv

LEMMA AnswerAnswers == ASSUME ServerInv, AnswerInv, Answer PROVE AnswerInv'
<1> DEFINE a == asked.answer
           b == AnswerBytes(a)
<1>1. /\ stage = "heard" /\ stage' = "answered"
      /\ net' = net \o b /\ clean' = (clean /\ Readable(a))
      /\ UNCHANGED <<asked, heard, in, phase, expected, chunked, res>>
  BY DEF Answer, askVars
<1>2. PhasePart'  BY <1>1 DEF AnswerInv, PhasePart
<1>3. FreshPart' /\ DrainedPart' /\ ReadPart'  BY <1>1 DEF FreshPart, DrainedPart, ReadPart
<1>4. ReadingPart'
  <2> SUFFICES ASSUME clean'
               PROVE  /\ Readable(asked.answer)'
                      /\ in' \in Seq(Sign) /\ net' \in Seq(Sign)
                      /\ Coming(asked.answer, in \o net, res, expected, chunked, phase)'
    BY DEF ReadingPart
  <2>1. clean /\ Readable(a)  BY <1>1
  <2>2. Readable(asked.answer)' <=> Readable(a)  BY <1>1 DEF Readable
  <2>3. a \in AnswersOfWork /\ WellAnswer(a)  BY <1>1, AnswerAsked DEF ServerInv
  <2>4. OfKind(a)  BY <2>1, <2>3 DEF OfKind, Readable
  <2>5. b = First(a) \o (NewLine \o HeadersFrom(a, 1)) /\ b \in Seq(Sign)
    BY <2>1, <2>4, BytesAre
  <2>6. phase = "status" /\ res.headers = <<>> /\ res.body = <<>>
    BY <1>1, <2>1 DEF AnswerInv, FreshPart
  <2>7. in = <<>> /\ net = <<>>  BY <1>1, <2>1, <2>6 DEF AnswerInv, DrainedPart
  <2> HIDE DEF b
  <2>8. <<>> \o b = b /\ <<>> \in Seq(Sign)  BY ONLY <2>5, NothingJoined
  <2>9. in' = <<>> /\ net' = b  BY ONLY <1>1, <2>7, <2>8
  <2>10. in' \o net' = b  BY ONLY <2>8, <2>9
  <2>11. AtStatus(a, b, res)  BY ONLY <2>5, <2>6 DEF AtStatus
  <2>12. Coming(a, in' \o net', res', expected', chunked', phase')
    BY <1>1, <2>6, <2>10, <2>11 DEF Coming
  <2>13. asked'.answer = a  BY <1>1
  <2> QED  BY <2>1, <2>2, <2>5, <2>8, <2>9, <2>12, <2>13
<1> QED  BY <1>2, <1>3, <1>4 DEF AnswerInv

Received(i, n, b, c) == i \o b \in Seq(Sign) /\ c \in Seq(Sign) /\ (i \o b) \o c = i \o n

LEMMA PartReceived ==
  ASSUME NEW i \in Seq(Sign), NEW n \in Seq(Sign), NEW k \in 1..Len(n)
  PROVE  Received(i, n, SubSeq(n, 1, k), SubSeq(n, k + 1, Len(n)))
<1> DEFINE b == SubSeq(n, 1, k)
           c == SubSeq(n, k + 1, Len(n))
<1>1. Len(n) \in Nat /\ k \in Nat  OBVIOUS
<1>2. b \in Seq(Sign) /\ Len(b) = k /\ \A j \in 1..k : b[j] = n[j]  BY <1>1
<1>3. c \in Seq(Sign) /\ Len(c) = Len(n) - k /\ \A j \in 1..Len(n) - k : c[j] = n[k + j]
  BY <1>1
<1> HIDE DEF b, c
<1>4. b \o c \in Seq(Sign) /\ Len(b \o c) = Len(n)
  <2>1. b \in Seq(Sign) /\ c \in Seq(Sign)  BY ONLY <1>2, <1>3
  <2>2. b \o c \in Seq(Sign) /\ Len(b \o c) = Len(b) + Len(c)  BY ONLY <2>1, Joined
  <2>3. k + (Len(n) - k) = Len(n)  BY ONLY <1>1
  <2> QED  BY ONLY <1>2, <1>3, <2>2, <2>3
<1>5. \A j \in 1..Len(n) : (b \o c)[j] = IF j <= k THEN b[j] ELSE c[j - k]
  BY ONLY <1>1, <1>2, <1>3
<1>6. \A j \in 1..Len(b \o c) : (b \o c)[j] = n[j]
  <2> TAKE j \in 1..Len(b \o c)
  <2>1. j \in 1..Len(n)  BY ONLY <1>4, j \in 1..Len(b \o c)
  <2>2. CASE j <= k
    <3>1. j \in 1..k  BY ONLY <1>1, <2>1, <2>2
    <3> QED  BY ONLY <1>2, <1>5, <2>1, <2>2, <3>1
  <2>3. CASE ~(j <= k)
    <3>1. j - k \in 1..Len(n) - k /\ k + (j - k) = j  BY ONLY <1>1, <2>1, <2>3
    <3> QED  BY ONLY <1>3, <1>5, <2>1, <2>3, <3>1
  <2> QED  BY ONLY <2>2, <2>3
<1>7. b \o c = n  BY ONLY <1>4, <1>6, SameText, n \in Seq(Sign)
<1>8. i \o b \in Seq(Sign)  BY ONLY <1>2, i \in Seq(Sign)
<1>9. Associative(Sign)  BY JoiningAssociates
<1>10. (i \o b) \o c = i \o (b \o c)  BY ONLY <1>2, <1>3, <1>9, i \in Seq(Sign) DEF Associative
<1> QED  BY ONLY <1>3, <1>7, <1>8, <1>10 DEF b, c, Received

LEMMA ReceivingAnswers ==
  ASSUME ExchangeInv, ServerInv, AnswerInv, Receiving
  PROVE  AnswerInv'
<1>1. PICK k \in 1..Len(net) : Receive(k)  BY DEF Receiving
<1>2. /\ in' = in \o SubSeq(net, 1, k) /\ net' = SubSeq(net, k + 1, Len(net))
      /\ UNCHANGED <<stage, asked, heard, clean, phase, expected, chunked, res>>
      /\ phase \in {"status", "header", "size", "last", "chunk", "body"}
  BY <1>1 DEF Receive, askVars
<1>3. phase' \in Phases /\ Shaped(res')
  BY <1>2 DEF AnswerInv, PhasePart
<1>4. CASE ~clean  BY <1>2, <1>3, <1>4, SpoiledKeeps
<1>5. CASE clean /\ phase = "status" /\ stage # "answered"
  <2>1. net = <<>>  BY <1>5 DEF AnswerInv, DrainedPart
  <2>2. Len(<<>>) = 0 /\ \A j \in 1..0 : FALSE  OBVIOUS
  <2> QED  BY <1>1, <2>1, <2>2
<1>6. CASE clean /\ ~(phase = "status" /\ stage # "answered")
  <2>1. phase \in {"header", "size", "chunk", "body", "last"} \/ stage = "answered"
    BY <1>2, <1>6
  <2>2. Now  BY <1>6, <2>1, ReadingNow
  <2>3. in \in Seq(Sign) /\ net \in Seq(Sign)  BY <2>2 DEF Now
  <2>4. in' \in Seq(Sign) /\ net' \in Seq(Sign) /\ in' \o net' = in \o net
    <3>1. Received(in, net, SubSeq(net, 1, k), SubSeq(net, k + 1, Len(net)))
      BY ONLY <2>3, PartReceived, k \in 1..Len(net)
    <3> QED  BY ONLY <1>2, <3>1 DEF Received
  <2>5. Coming(asked.answer, in' \o net', res', expected', chunked', phase')
    BY <1>2, <2>2, <2>4 DEF Now
  <2>6. GoesOn  BY <1>2, <1>3, <2>2, <2>4, <2>5 DEF GoesOn, Now
  <2> QED  BY <2>6, GoesOnKeeps
<1> QED  BY <1>4, <1>5, <1>6

(* The connection reads.                                                   *)
LEMMA LineIs ==
  ASSUME NEW p, ReadLine(p)
  PROVE  /\ phase = p /\ HasLine /\ BeginsWithLine(in)
         /\ Line = LineOf(in) /\ in' = AfterLine(in) /\ net' = net
         /\ UNCHANGED <<asked, heard, clean>>
BY DEF ReadLine, HasLine, TakeLine, Line, BeginsWithLine, LineOf, AfterLine, askVars

LEMMA StatusLineAnswers ==
  ASSUME ExchangeInv, ServerInv, AnswerInv, StatusLine
  PROVE  AnswerInv'
<1>1. /\ phase = "status" /\ HasLine /\ BeginsWithLine(in)
      /\ Line = LineOf(in) /\ in' = AfterLine(in) /\ net' = net
      /\ UNCHANGED <<asked, heard, clean>>
  BY LineIs DEF StatusLine
<1>2. /\ HasResponse /\ phase' \in {"header", "stuck"} /\ UNCHANGED <<stage, expected, chunked>>
      /\ \/ res' = WithStatusLine(res, Line)
         \/ res' = [res EXCEPT !.version = Parts(Line)[1]]
         \/ res' = res
  BY DEF StatusLine
<1>3. Shaped(res')
  <2>1. Shaped(res)  BY DEF AnswerInv, PhasePart
  <2>2. CASE res' = WithStatusLine(res, Line)
    <3>1. Shaped(WithStatus(res, Parts(Line)))  BY <2>1, StatusHeld DEF Has
    <3> QED  BY <2>2, <3>1, StatusLineTold
  <2>3. CASE res' = [res EXCEPT !.version = Parts(Line)[1]]
    <3> DEFINE v == Parts(Line)[1]
    <3>1. res' = [res EXCEPT !.version = v]  BY <2>3
    <3> HIDE DEF v
    <3>2. Shaped([res EXCEPT !.version = v])  BY <2>1, PartChanged DEF Has
    <3> QED  BY ONLY <3>1, <3>2
  <2> QED  BY <1>2, <2>1, <2>2, <2>3
<1>4. CASE ~clean  BY <1>1, <1>2, <1>3, <1>4, SpoiledKeeps DEF Phases
<1>5. CASE clean
  <2>1. Now  BY <1>1, <1>2, <1>5, ReadingNow
  <2>2. AtStatus(asked.answer, in \o net, res)  BY <1>1, <2>1 DEF Now, Coming
  <2>3. /\ AfterLine(in) \in Seq(Sign) /\ HasStatus(LineOf(in))
        /\ AtHeader(asked.answer, AfterLine(in) \o net, WithStatusLine(res, LineOf(in)))
    BY <1>1, <2>1, <2>2, StatusRead DEF Now
  <2>4. phase' = "header" /\ res' = WithStatusLine(res, Line)
    BY <1>1, <2>3 DEF StatusLine
  <2>5. AtHeader(asked.answer, in' \o net', res')  BY <1>1, <2>3, <2>4
  <2>6. Coming(asked.answer, in' \o net', res', expected', chunked', phase')
    BY <2>4, <2>5 DEF Coming
  <2>7. GoesOn  BY <1>1, <1>2, <1>3, <2>1, <2>3, <2>6 DEF GoesOn, Now, Phases
  <2> QED  BY <2>7, GoesOnKeeps
<1> QED  BY <1>4, <1>5

LEMMA StrayLineAnswers == ASSUME AnswerInv, StrayLine PROVE AnswerInv'
<1>1. UNCHANGED <<asked, clean>>  BY LineIs DEF StrayLine
<1>2. phase' = "closed" /\ ~HasResponse /\ UNCHANGED <<stage, res>>  BY DEF StrayLine
<1>3. stage' \notin {"sent", "heard", "answered"}  BY <1>2 DEF HasResponse
<1>4. PhasePart' /\ FreshPart' /\ DrainedPart' /\ ReadingPart' /\ ReadPart'
  BY <1>1, <1>2, <1>3 DEF AnswerInv, PhasePart, FreshPart, DrainedPart, ReadingPart, ReadPart, Phases
<1> QED  BY <1>4 DEF AnswerInv

LEMMA HeaderLineAnswers ==
  ASSUME ExchangeInv, ServerInv, AnswerInv, HeaderLine
  PROVE  AnswerInv'
<1>1. /\ phase = "header" /\ BeginsWithLine(in)
      /\ Line = LineOf(in) /\ in' = AfterLine(in) /\ net' = net
      /\ UNCHANGED <<asked, heard, clean>>
  BY LineIs DEF HeaderLine
<1>2. /\ Line # <<>> /\ UNCHANGED <<stage, expected, chunked>> /\ phase' \in {phase, "stuck"}
      /\ \/ res' = WithHeader(res, ParseHeaderLine(Line))
         \/ res' = res
  BY DEF HeaderLine, WithHeader
<1>3. Shaped(res')
  <2>1. Shaped(res)  BY DEF AnswerInv, PhasePart
  <2> QED  BY <1>2, <2>1, HeaderHeld DEF Has
<1>4. CASE ~clean  BY <1>1, <1>2, <1>3, <1>4, SpoiledKeeps DEF Phases
<1>5. CASE clean
  <2>1. Now  BY <1>1, <1>5, ReadingNow
  <2>2. AtHeader(asked.answer, in \o net, res)  BY <1>1, <2>1 DEF Now, Coming
  <2>3. /\ AfterLine(in) \in Seq(Sign)
        /\ LineOf(in) # <<>> =>
             /\ HasName(LineOf(in))
             /\ AtHeader(asked.answer, AfterLine(in) \o net,
                         WithHeader(res, ParseHeaderLine(LineOf(in))))
    BY <1>1, <2>1, <2>2, HeaderRead DEF Now
  <2>4. phase' = phase /\ res' = WithHeader(res, ParseHeaderLine(Line))
    BY <1>1, <1>2, <2>3 DEF HeaderLine, WithHeader
  <2>5. AtHeader(asked.answer, in' \o net', res')  BY <1>1, <1>2, <2>3, <2>4
  <2>6. Coming(asked.answer, in' \o net', res', expected', chunked', phase')
    BY <1>1, <2>4, <2>5 DEF Coming
  <2>7. GoesOn  BY <1>1, <1>2, <1>3, <2>1, <2>3, <2>6 DEF GoesOn, Now, Phases
  <2> QED  BY <2>7, GoesOnKeeps
<1> QED  BY <1>4, <1>5

LEMMA HeadersEndAnswers ==
  ASSUME ExchangeInv, ServerInv, AnswerInv, HeadersEnd
  PROVE  AnswerInv'
<1> DEFINE C == <<"C", "-", "L">>
           E == <<"T", "-", "E">>
           InChunks == /\ HaveHeader(res.headers, E)
                       /\ \E i \in 1..Len(HeaderValue(res.headers, E)) :
                            HeaderValue(res.headers, E)[i] = "chunked"
<1>1. /\ phase = "header" /\ BeginsWithLine(in)
      /\ Line = LineOf(in) /\ in' = AfterLine(in) /\ net' = net
      /\ UNCHANGED <<asked, heard, clean>>
  BY LineIs DEF HeadersEnd
<1>2. /\ Line = <<>> /\ UNCHANGED res
      /\ HaveHeader(res.headers, C) =>
           /\ expected' = Number[HeaderValue(res.headers, C)[1]]
           /\ chunked' = FALSE /\ phase' = "body" /\ UNCHANGED stage
      /\ ~HaveHeader(res.headers, C) /\ InChunks =>
           expected' = 0 /\ chunked' = TRUE /\ phase' = "size" /\ UNCHANGED stage
      /\ phase' \in {"body", "size", "closed"}
  BY DEF HeadersEnd
<1>3. Shaped(res')  BY <1>2 DEF AnswerInv, PhasePart
<1>4. CASE ~clean  BY <1>1, <1>2, <1>3, <1>4, SpoiledKeeps DEF Phases
<1>5. CASE clean
  <2> DEFINE a == asked.answer
             f == FlattenSeq(a.pieces)
             x == Numeral(Len(f))
             s == in' \o net'
  <2>1. Now  BY <1>1, <1>5, ReadingNow
  <2>2. OfKind(a) /\ AtHeader(a, in \o net, res)  BY <1>1, <2>1 DEF Now, Coming
  <2>3. /\ AfterLine(in) \in Seq(Sign)
        /\ LineOf(in) = <<>> =>
             AllHeaders(a, res) /\ res.body = <<>> /\ AfterLine(in) \o net = AnswerBody(a)
    BY <1>1, <2>1, <2>2, HeaderRead DEF Now
  <2>4. in' \in Seq(Sign) /\ AllHeaders(a, res') /\ res'.body = <<>> /\ s = AnswerBody(a)
    BY ONLY <1>1, <1>2, <2>3
  <2>5. res.headers = ParsedHeaders(AnswerLines(a))  BY <1>2, <2>4 DEF AllHeaders
  <2>6. a.kind \in {"length", "chunked"}  BY <2>2 DEF OfKind
  <2>7. ASSUME a.kind = "length"
        PROVE  UNCHANGED stage /\ Coming(a, s, res', expected', chunked', phase')
    <3>1. HaveHeader(res.headers, C) /\ HeaderValue(res.headers, C) = <<x>> /\ Number[x] = Len(f)
      BY <2>2, <2>5, <2>7, HeadersTell
    <3>2. AnswerBody(a) = f  BY <2>2, <2>7, HeadersLeft
    <3> HIDE DEF a, f, x, s, C, E
    <3>3. <<x>>[1] = x  OBVIOUS
    <3>4. expected' = Len(f) /\ chunked' = FALSE /\ phase' = "body" /\ UNCHANGED stage
      BY ONLY <1>2, <3>1, <3>3
    <3>5. AtBody(a, s, res', expected')  BY ONLY <2>4, <2>7, <3>2, <3>4 DEF AtBody, f
    <3>6. Coming(a, s, res', expected', chunked', phase')  BY ONLY <3>4, <3>5 DEF Coming
    <3> QED  BY ONLY <3>4, <3>6
  <2>8. ASSUME a.kind = "chunked"
        PROVE  UNCHANGED stage /\ Coming(a, s, res', expected', chunked', phase')
    <3>1. ~HaveHeader(res.headers, C) /\ HaveHeader(res.headers, E)
          /\ HeaderValue(res.headers, E) = <<"chunked">>
      BY <2>2, <2>5, <2>8, HeadersTell
    <3>2. AnswerBody(a) = ChunksFrom(a, 1)  BY <2>2, <2>8, HeadersLeft
    <3>3. BodyUpto(a, 0) = <<>> /\ Len(a.pieces) \in Nat  BY <2>2, ChunksLeft
    <3>4. InChunks
      <4>1. Len(<<"chunked">>) = 1 /\ <<"chunked">>[1] = "chunked" /\ 1 \in 1..1  OBVIOUS
      <4> QED  BY ONLY <3>1, <4>1
    <3> HIDE DEF a, f, x, s, C, E, InChunks
    <3>5. chunked' = TRUE /\ phase' = "size" /\ UNCHANGED stage  BY ONLY <1>2, <3>1, <3>4
    <3>6. 1 \in 1..Len(a.pieces) + 1 /\ 1 - 1 = 0  BY ONLY <3>3
    <3>7. AtSize(a, s, res')  BY ONLY <2>4, <2>8, <3>2, <3>3, <3>6 DEF AtSize
    <3>8. Coming(a, s, res', expected', chunked', phase')  BY ONLY <3>5, <3>7 DEF Coming
    <3> QED  BY ONLY <3>5, <3>8
  <2>9. UNCHANGED stage /\ Coming(a, s, res', expected', chunked', phase')
    BY ONLY <2>6, <2>7, <2>8
  <2>10. GoesOn  BY <1>1, <1>2, <1>3, <2>1, <2>4, <2>9 DEF GoesOn, Now, Phases
  <2> QED  BY <2>10, GoesOnKeeps
<1> QED  BY <1>4, <1>5

LEMMA ChunkSizeAnswers ==
  ASSUME ExchangeInv, ServerInv, AnswerInv, ChunkSize
  PROVE  AnswerInv'
<1>1. /\ phase = "size" /\ BeginsWithLine(in)
      /\ Line = LineOf(in) /\ in' = AfterLine(in) /\ net' = net
      /\ UNCHANGED <<asked, heard, clean>>
  BY LineIs DEF ChunkSize
<1>2. /\ UNCHANGED <<stage, chunked, res>>
      /\ SizeOf(in) > 0 => expected' = SizeOf(in) /\ phase' = "chunk"
      /\ ~(SizeOf(in) > 0) => phase' = "last"
      /\ phase' \in {"chunk", "last"}
  BY <1>1 DEF ChunkSize, SizeOf
<1>3. Shaped(res')  BY <1>2 DEF AnswerInv, PhasePart
<1>4. CASE ~clean  BY <1>1, <1>2, <1>3, <1>4, SpoiledKeeps DEF Phases
<1>5. CASE clean
  <2> DEFINE a == asked.answer
             s == in' \o net'
             z == SizeOf(in)
  <2>1. Now  BY <1>1, <1>5, ReadingNow
  <2>2. chunked /\ AtSize(a, in \o net, res)  BY <1>1, <2>1 DEF Now, Coming
  <2>3. /\ AfterLine(in) \in Seq(Sign)
        /\ z > 0 => AtChunk(a, AfterLine(in) \o net, res, z)
        /\ ~(z > 0) => AtLast(a, AfterLine(in) \o net, res)
    BY <1>1, <2>1, <2>2, SizeRead DEF Now
  <2>4. in' \in Seq(Sign) /\ s = AfterLine(in) \o net /\ res' = res /\ chunked'
    BY ONLY <1>1, <1>2, <2>2, <2>3
  <2> HIDE DEF a, s, z
  <2>5. Coming(a, s, res', expected', chunked', phase')
    <3>1. CASE z > 0
      <4>1. AtChunk(a, s, res', expected') /\ phase' = "chunk"
        BY ONLY <1>2, <2>3, <2>4, <3>1 DEF z
      <4> QED  BY ONLY <2>4, <4>1 DEF Coming
    <3>2. CASE ~(z > 0)
      <4>1. AtLast(a, s, res') /\ phase' = "last"  BY ONLY <1>2, <2>3, <2>4, <3>2 DEF z
      <4> QED  BY ONLY <2>4, <4>1 DEF Coming
    <3> QED  BY ONLY <3>1, <3>2
  <2>6. GoesOn  BY <1>1, <1>2, <1>3, <2>1, <2>4, <2>5 DEF GoesOn, Now, a, s, Phases
  <2> QED  BY <2>6, GoesOnKeeps
<1> QED  BY <1>4, <1>5

LEMMA ChunkDataAnswers ==
  ASSUME ExchangeInv, ServerInv, AnswerInv, ChunkData
  PROVE  AnswerInv'
<1>1. /\ phase = "chunk" /\ Len(in) >= expected + 2
      /\ in' = AfterFirst(in, expected + 2)
      /\ res' = AppendBody(res, SubSeq(in, 1, (expected + 2) - 2))
      /\ phase' = "size"
      /\ UNCHANGED <<stage, asked, clean, net, heard, chunked>>
  BY DEF ChunkData, Wanted, AfterFirst, askVars
<1>2. Shaped(res')
  <2>1. Shaped(res)  BY DEF AnswerInv, PhasePart
  <2> QED  BY <1>1, <2>1, BodyHeld DEF Has
<1>3. CASE ~clean  BY <1>1, <1>2, <1>3, SpoiledKeeps DEF Phases
<1>4. CASE clean
  <2>1. Now  BY <1>1, <1>4, ReadingNow
  <2>2. chunked /\ AtChunk(asked.answer, in \o net, res, expected)  BY <1>1, <2>1 DEF Now, Coming
  <2>3. in' \in Seq(Sign) /\ AtSize(asked.answer, in' \o net, res')
    BY <1>1, <2>1, <2>2, ChunkRead DEF Now
  <2>4. Coming(asked.answer, in' \o net', res', expected', chunked', phase')
    BY <1>1, <2>2, <2>3 DEF Coming
  <2>5. GoesOn  BY <1>1, <1>2, <2>1, <2>3, <2>4 DEF GoesOn, Now, Phases
  <2> QED  BY <2>5, GoesOnKeeps
<1> QED  BY <1>3, <1>4

(* The last step of reading an answer leaves nothing of it.                *)
LEMMA DoneKeeps ==
  ASSUME stage' = "done", phase' \in {"closed", "status"}, Shaped(res'),
         clean' => /\ in' = <<>> /\ net' = <<>>
                   /\ AllHeaders(asked.answer, res)' /\ res'.body = FlattenSeq(asked.answer.pieces)'
  PROVE  AnswerInv'
BY DEF AnswerInv, PhasePart, FreshPart, DrainedPart, ReadingPart, ReadPart, Phases

LEMMA LastLineAnswers ==
  ASSUME ExchangeInv, ServerInv, AnswerInv, LastLine
  PROVE  AnswerInv'
<1>1. /\ phase = "last" /\ BeginsWithLine(in)
      /\ in' = AfterLine(in) /\ net' = net
      /\ UNCHANGED <<asked, heard, clean>>
  BY LineIs DEF LastLine
<1>2. /\ res' = IF chunked THEN res ELSE Body(res, <<>>)
      /\ stage' = "done" /\ phase' \in {"closed", "status"}
  BY DEF LastLine, Extract
<1>3. Shaped(res')
  <2>1. Shaped(res)  BY DEF AnswerInv, PhasePart
  <2>2. Shaped(Body(res, <<>>))  BY <2>1, BodyHeld DEF Has
  <2> QED  BY <1>2, <2>1, <2>2
<1>4. ASSUME clean
      PROVE  /\ in' = <<>> /\ net' = <<>> /\ res' = res
             /\ AllHeaders(asked.answer, res) /\ res.body = FlattenSeq(asked.answer.pieces)
  <2>1. Now  BY <1>1, <1>4, ReadingNow
  <2>2. chunked /\ AtLast(asked.answer, in \o net, res)  BY <1>1, <2>1 DEF Now, Coming
  <2>3. AfterLine(in) = <<>> /\ net = <<>>  BY <1>1, <2>1, <2>2, LastRead DEF Now
  <2> QED  BY <1>1, <1>2, <2>2, <2>3 DEF AtLast
<1>5. clean' => AllHeaders(asked.answer, res)' /\ res'.body = FlattenSeq(asked.answer.pieces)'
  BY <1>1, <1>4 DEF AllHeaders, Told, AnswerLines
<1> QED  BY <1>1, <1>2, <1>3, <1>4, <1>5, DoneKeeps

LEMMA ReadBodyAnswers ==
  ASSUME ExchangeInv, ServerInv, AnswerInv, ReadBody
  PROVE  AnswerInv'
<1> DEFINE q == Body(res, SubSeq(in, 1, expected))
<1>1. /\ phase = "body" /\ Len(in) >= expected /\ in' = AfterFirst(in, expected)
      /\ res' = (IF chunked THEN res ELSE q)
      /\ stage' = "done" /\ phase' \in {"closed", "status"}
      /\ UNCHANGED <<asked, heard, clean, net>>
  BY DEF ReadBody, Extract, Wanted, AfterFirst, askVars
<1>2. Shaped(res')
  <2>1. Shaped(res)  BY DEF AnswerInv, PhasePart
  <2>2. Shaped(q)  BY <2>1, BodyHeld DEF Has
  <2> QED  BY <1>1, <2>1, <2>2
<1>3. ASSUME clean
      PROVE  /\ in' = <<>> /\ net' = <<>> /\ res' = q
             /\ AllHeaders(asked.answer, q) /\ q.body = FlattenSeq(asked.answer.pieces)
  <2>1. Now  BY <1>1, <1>3, ReadingNow
  <2>2. ~chunked /\ AtBody(asked.answer, in \o net, res, expected)  BY <1>1, <2>1 DEF Now, Coming
  <2>3. /\ AfterFirst(in, expected) = <<>> /\ net = <<>>
        /\ AllHeaders(asked.answer, q) /\ q.body = FlattenSeq(asked.answer.pieces)
    BY <1>1, <2>1, <2>2, BodyRead DEF Now
  <2> QED  BY <1>1, <2>2, <2>3
<1>4. clean' => AllHeaders(asked.answer, res)' /\ res'.body = FlattenSeq(asked.answer.pieces)'
  <2> HIDE DEF q
  <2> QED  BY <1>1, <1>3 DEF AllHeaders, Told, AnswerLines
<1> QED  BY <1>1, <1>2, <1>3, <1>4, DoneKeeps

LEMMA NextAnswers == ASSUME ExchangeInv, ServerInv, AnswerInv, [Next]_vars PROVE AnswerInv'
<1>1. CASE Caller  BY <1>1, CallerAnswers
<1>2. CASE Server  BY <1>2, HearAnswers, AnswerAnswers DEF Server
<1>3. CASE Receiving  BY <1>3, ReceivingAnswers
<1>4. CASE Read
  BY <1>4, StatusLineAnswers, StrayLineAnswers, HeaderLineAnswers, HeadersEndAnswers,
     ChunkSizeAnswers, ChunkDataAnswers, LastLineAnswers, ReadBodyAnswers DEF Read
<1>5. CASE Fail
  <2>1. Apart  BY <1>5 DEF Fail, Apart
  <2> QED  BY <2>1, ApartKeeps
<1>6. CASE UNCHANGED vars
  <2>1. Still  BY <1>6 DEF vars, Still, askVars
  <2> QED  BY <2>1, StillKeeps
<1> QED  BY <1>1, <1>2, <1>3, <1>4, <1>5, <1>6 DEF Next

LEMMA Answered == Spec => []AnswerInv
<1>1. Init => AnswerInv  BY InitAnswer
<1>2. ExchangeInv /\ ServerInv /\ AnswerInv /\ [Next]_vars => AnswerInv'  BY NextAnswers
<1> QED  BY <1>1, <1>2, Exchange, Served, PTL DEF Spec

(* However an answer is cut up on its way, and whatever was read on the    *)
(* connection before and failed before, the response that is done has the  *)
(* status, the headers and the body that the server sent, and the          *)
(* connection has nothing left of it to be taken for the next answer.      *)
THEOREM EveryAnswerIsRead == Spec => []AnswerRead
<1>1. ASSUME AnswerInv PROVE AnswerRead
  <2> SUFFICES ASSUME stage = "done", clean
               PROVE  LET a == asked.answer
                      IN /\ res = [version |-> <<"HTTP/1.1">>, status |-> Number[a.status],
                                   message |-> <<"all", Space, "right">>,
                                   body |-> FlattenSeq(a.pieces),
                                   headers |-> ParsedHeaders(AnswerLines(a))]
                         /\ phase = "status" => in = <<>> /\ net = <<>>
    BY DEF AnswerRead
  <2>1. AllHeaders(asked.answer, res) /\ res.body = FlattenSeq(asked.answer.pieces)
    BY <1>1 DEF AnswerInv, ReadPart
  <2>2. Shaped(res)  BY <1>1 DEF AnswerInv, PhasePart
  <2>3. phase = "status" => in = <<>> /\ net = <<>>  BY <1>1 DEF AnswerInv, DrainedPart
  <2>4. res = [version |-> <<"HTTP/1.1">>, status |-> Number[asked.answer.status],
               message |-> <<"all", Space, "right">>, body |-> FlattenSeq(asked.answer.pieces),
               headers |-> ParsedHeaders(AnswerLines(asked.answer))]
    BY <2>1, <2>2 DEF Shaped, AllHeaders, Told
  <2> QED  BY <2>3, <2>4
<1> QED  BY <1>1, Answered, PTL
=============================================================================
