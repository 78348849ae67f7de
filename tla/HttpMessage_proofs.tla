------------------------- MODULE HttpMessage_proofs -------------------------
(***************************************************************************)
(* What the normal form of a header's name is good for: two names have the *)
(* same one just when they differ in the case of their letters only, so    *)
(* that a lookup finds a header however its name was spelled. Then what    *)
(* the setters of a message do to its headers, for every list of headers,  *)
(* every name and every spelling of it. As the first header that matches   *)
(* counts, those proofs go by the least of a set of places.                *)
(*                                                                         *)
(* A message that is printed has its lines where they were put, so that    *)
(* its headers are found again; and a text that is escaped, piece by       *)
(* piece, is decoded piece by piece if each of its characters is ASCII.    *)
(***************************************************************************)
EXTENDS HttpMessage, LeastAndInduction

(* Where a part of a name begins.                                          *)
Begins(k, i) == i = 1 \/ k[i - 1] = "-"

(* A small letter is nobody's capital.                                     *)
LEMMA LowerOfLower == ASSUME NEW c PROVE Lower(Lower(c)) = Lower(c)
<1>1. CASE \E d \in DOMAIN Capital : Capital[d] = c
  <2> DEFINE d == CHOOSE d \in DOMAIN Capital : Capital[d] = c
  <2>1. d \in DOMAIN Capital /\ Lower(c) = d  BY <1>1 DEF Lower
  <2>2. ~ \E e \in DOMAIN Capital : Capital[e] = d  BY <2>1, CapitalIsBijective
  <2>3. Lower(d) = d  BY <2>2 DEF Lower
  <2> QED  BY <2>1, <2>3
<1>2. CASE ~ \E d \in DOMAIN Capital : Capital[d] = c
  BY <1>2 DEF Lower
<1> QED  BY <1>1, <1>2

LEMMA LowerOfUpper == ASSUME NEW c PROVE Lower(Upper(c)) = Lower(c)
<1>1. CASE c \in DOMAIN Capital
  <2>1. ~ \E e \in DOMAIN Capital : Capital[e] = c  BY <1>1, CapitalIsBijective
  <2>2. Lower(c) = c  BY <2>1 DEF Lower
  <2>3. Upper(c) = Capital[c]  BY <1>1 DEF Upper
  <2>4. \A e \in DOMAIN Capital : Capital[e] = Capital[c] => e = c
    BY <1>1, CapitalIsBijective
  <2>5. Lower(Capital[c]) = c  BY <1>1, <2>4 DEF Lower
  <2> QED  BY <2>2, <2>3, <2>5
<1>2. CASE c \notin DOMAIN Capital
  BY <1>2 DEF Upper
<1> QED  BY <1>1, <1>2

(* What a name becomes in capitals depends on its small letters only.      *)
LEMMA UpperOfLower ==
  ASSUME NEW c, NEW d, Lower(c) = Lower(d)
  PROVE  Upper(c) = Upper(d)
<1>1. ASSUME NEW e PROVE Upper(e) = Upper(Lower(e))
  <2>1. CASE \E f \in DOMAIN Capital : Capital[f] = e
    <3>1. PICK f \in DOMAIN Capital : Capital[f] = e  BY <2>1
    <3>2. \A g \in DOMAIN Capital : Capital[g] = e => g = f
      BY <3>1, CapitalIsBijective
    <3>3. Lower(e) = f  BY <3>1, <3>2 DEF Lower
    <3>4. e \notin DOMAIN Capital  BY <3>1, CapitalIsBijective
    <3> QED  BY <3>1, <3>3, <3>4 DEF Upper
  <2>2. CASE ~ \E f \in DOMAIN Capital : Capital[f] = e
    BY <2>2 DEF Lower
  <2> QED  BY <2>1, <2>2
<1> QED  BY <1>1

LEMMA HyphenIsNoLetter ==
  ASSUME NEW c
  PROVE  (Lower(c) = "-" <=> c = "-") /\ (Upper(c) = "-" <=> c = "-")
<1>1. "-" \notin DOMAIN Capital /\ \A d \in DOMAIN Capital : Capital[d] # "-"
  BY CapitalIsBijective
<1>2. Lower(c) = "-" <=> c = "-"
  <2>1. CASE \E d \in DOMAIN Capital : Capital[d] = c
    BY <2>1, <1>1 DEF Lower
  <2>2. CASE ~ \E d \in DOMAIN Capital : Capital[d] = c
    BY <2>2 DEF Lower
  <2> QED  BY <2>1, <2>2
<1>3. Upper(c) = "-" <=> c = "-"  BY <1>1 DEF Upper
<1> QED  BY <1>2, <1>3

-----------------------------------------------------------------------------
(* Each character of a normal form is that of the name in another case.    *)
LEMMA NormaliseKeepsLetters ==
  ASSUME NEW S, NEW k \in Seq(S)
  PROVE  /\ Len(Normalise(k)) = Len(k)
         /\ \A i \in 1..Len(k) : Lower(Normalise(k)[i]) = Lower(k[i])
<1>1. Len(k) \in Nat  OBVIOUS
<1>2. DOMAIN Normalise(k) = 1..Len(k)  BY DEF Normalise
<1>3. Len(Normalise(k)) = Len(k)
  BY <1>1 DEF Normalise
<1>4. ASSUME NEW i \in 1..Len(k) PROVE Lower(Normalise(k)[i]) = Lower(k[i])
  <2>1. Normalise(k)[i] = IF Begins(k, i) THEN Upper(k[i]) ELSE Lower(k[i])
    BY DEF Normalise, Begins
  <2>2. CASE Begins(k, i)  BY <2>1, <2>2, LowerOfUpper
  <2>3. CASE ~Begins(k, i)  BY <2>1, <2>3, LowerOfLower
  <2> QED  BY <2>2, <2>3
<1> QED  BY <1>3, <1>4

(* Names that differ in case only are in parts at the same places, and     *)
(* have the same normal form.                                              *)
LEMMA SameNameNormalised ==
  ASSUME NEW S, NEW j \in Seq(S), NEW k \in Seq(S), SameName(j, k)
  PROVE  Normalise(j) = Normalise(k)
<1>1. Len(j) = Len(k) /\ Len(k) \in Nat  BY DEF SameName
<1>2. ASSUME NEW i \in 1..Len(j) PROVE Normalise(j)[i] = Normalise(k)[i]
  <2>1. Lower(j[i]) = Lower(k[i])  BY DEF SameName
  <2>2. Begins(j, i) <=> Begins(k, i)
    <3>1. CASE i = 1  BY <3>1 DEF Begins
    <3>2. CASE i # 1
      <4>1. i - 1 \in 1..Len(j)  BY <3>2, <1>1
      <4>2. Lower(j[i - 1]) = Lower(k[i - 1])  BY <4>1 DEF SameName
      <4>3. j[i - 1] = "-" <=> k[i - 1] = "-"  BY <4>2, HyphenIsNoLetter
      <4> QED  BY <3>2, <4>3 DEF Begins
    <3> QED  BY <3>1, <3>2
  <2>3. Upper(j[i]) = Upper(k[i])  BY <2>1, UpperOfLower
  <2>4. Normalise(j)[i] = IF Begins(j, i) THEN Upper(j[i]) ELSE Lower(j[i])
    BY DEF Normalise, Begins
  <2>5. i \in 1..Len(k)  BY <1>1
  <2>6. Normalise(k)[i] = IF Begins(k, i) THEN Upper(k[i]) ELSE Lower(k[i])
    BY <2>5 DEF Normalise, Begins
  <2> QED  BY <2>1, <2>2, <2>3, <2>4, <2>6
<1>3. Normalise(j) = [i \in 1..Len(j) |-> Normalise(j)[i]]  BY DEF Normalise
<1>4. Normalise(k) = [i \in 1..Len(j) |-> Normalise(k)[i]]  BY <1>1 DEF Normalise
<1> QED  BY <1>2, <1>3, <1>4

(* header::normalize_key forgets the case of letters and nothing else: two *)
(* names have the same normal form just when they are the same but for     *)
(* case.                                                                   *)
THEOREM NormaliseForgetsCase ==
  ASSUME NEW S, NEW j \in Seq(S), NEW k \in Seq(S)
  PROVE  Normalise(j) = Normalise(k) <=> SameName(j, k)
<1>1. ASSUME Normalise(j) = Normalise(k) PROVE SameName(j, k)
  <2>1. Len(j) = Len(k)  BY <1>1, NormaliseKeepsLetters
  <2>2. ASSUME NEW i \in 1..Len(j) PROVE Lower(j[i]) = Lower(k[i])
    <3>1. Lower(j[i]) = Lower(Normalise(j)[i])  BY NormaliseKeepsLetters
    <3>2. i \in 1..Len(k)  BY <2>1
    <3>3. Lower(k[i]) = Lower(Normalise(k)[i])  BY <3>2, NormaliseKeepsLetters
    <3> QED  BY <1>1, <3>1, <3>3
  <2> QED  BY <2>1, <2>2 DEF SameName
<1> QED  BY <1>1, SameNameNormalised

(* A header is found by every spelling of the name it was given, and by    *)
(* that of no other: header::matches normalises what it is asked for, the  *)
(* constructor of header what it was given.                                *)
THEOREM FoundByAnySpelling ==
  ASSUME NEW S, NEW j \in Seq(S), NEW k \in Seq(S), NEW v
  PROVE  Matches(Header(j, v), k) <=> SameName(k, j)
BY NormaliseForgetsCase DEF Matches, Header

(* To normalise a name twice, as a server does that reads what a client    *)
(* printed, is to do it once.                                              *)
THEOREM NormaliseOnce ==
  ASSUME NEW S, NEW k \in Seq(S)
  PROVE  Normalise(Normalise(k)) = Normalise(k)
<1> DEFINE T == S \cup DOMAIN Capital \cup {Capital[c] : c \in DOMAIN Capital}
<1>1. ASSUME NEW c \in S PROVE Upper(c) \in T /\ Lower(c) \in T
  <2>1. Upper(c) \in T  BY DEF Upper
  <2>2. CASE \E d \in DOMAIN Capital : Capital[d] = c
    <3> DEFINE e == CHOOSE d \in DOMAIN Capital : Capital[d] = c
    <3>1. Lower(c) = e /\ e \in DOMAIN Capital  BY <2>2 DEF Lower
    <3> QED  BY <2>1, <3>1
  <2>3. CASE ~ \E d \in DOMAIN Capital : Capital[d] = c
    <3>1. Lower(c) = c  BY <2>3 DEF Lower
    <3> QED  BY <2>1, <3>1
  <2> QED  BY <2>1, <2>2, <2>3
<1>2. ASSUME NEW i \in 1..Len(k) PROVE Normalise(k)[i] \in T
  <2>1. Normalise(k)[i] = IF Begins(k, i) THEN Upper(k[i]) ELSE Lower(k[i])
    BY DEF Normalise, Begins
  <2> HIDE DEF T
  <2> QED  BY <1>1, <2>1
<1>3. Normalise(k) = [i \in 1..Len(k) |-> Normalise(k)[i]]  BY DEF Normalise
<1>4. k \in Seq(T) /\ Len(k) \in Nat  OBVIOUS
<1> HIDE DEF T
<1>5. Normalise(k) \in Seq(T)
  <2>1. Normalise(k) \in [1..Len(k) -> T]  BY <1>2, <1>3
  <2> QED  BY <2>1, <1>4
<1>6. SameName(Normalise(k), k)  BY NormaliseKeepsLetters DEF SameName
<1> QED  BY <1>4, <1>5, <1>6, NormaliseForgetsCase

-----------------------------------------------------------------------------
(* The headers of a message.                                               *)

(* A list of headers, whatever names and values are made of.               *)
Headers(K, V) == Seq([key : K, value : V])

LEMMA ElementOf ==
  ASSUME NEW S, NEW s \in Seq(S), NEW i \in 1..Len(s)
  PROVE  s[i] \in S
OBVIOUS

-----------------------------------------------------------------------------
(* What Set and Add make of the headers, place by place.                   *)
LEMMA MatchingBounds ==
  ASSUME NEW K, NEW V, NEW hs \in Headers(K, V), NEW k
  PROVE  Len(hs) \in Nat /\ Matching(hs, k) \subseteq 1..Len(hs) /\ Matching(hs, k) \subseteq Nat
BY DEF Matching, Headers

LEMMA ReplacedHeader ==
  ASSUME NEW K, NEW V, NEW hs \in Headers(K, V), NEW k, NEW v \in V,
         HaveHeader(hs, k)
  PROVE  /\ Min(Matching(hs, k)) \in Matching(hs, k)
         /\ Len(SetHeader(hs, k, v)) = Len(hs)
         /\ \A i \in 1..Len(hs) : SetHeader(hs, k, v)[i].key = hs[i].key
         /\ SetHeader(hs, k, v)[Min(Matching(hs, k))].value = v
         /\ \A i \in 1..Len(hs) :
              i # Min(Matching(hs, k)) => SetHeader(hs, k, v)[i] = hs[i]
<1> DEFINE m == Min(Matching(hs, k))
           new == SetHeader(hs, k, v)
<1>1. m \in Matching(hs, k)  BY MatchingBounds, LeastPlace DEF HaveHeader
<1>2. m \in 1..Len(hs) /\ Len(hs) \in Nat  BY <1>1, MatchingBounds
<1>3. new = [hs EXCEPT ![m].value = v]  BY DEF SetHeader
<1> HIDE DEF m, new
<1>4. Len(new) = Len(hs)  BY <1>2, <1>3
<1>5. \A i \in 1..Len(hs) : hs[i] \in [key : K, value : V]  BY ElementOf DEF Headers
<1>6. new[m].key = hs[m].key /\ new[m].value = v  BY <1>2, <1>3, <1>5
<1>7. \A i \in 1..Len(hs) : i # m => new[i] = hs[i]  BY <1>2, <1>3
<1>8. \A i \in 1..Len(hs) : new[i].key = hs[i].key  BY <1>6, <1>7
<1> QED  BY <1>1, <1>4, <1>6, <1>7, <1>8 DEF m, new

LEMMA AddedHeader ==
  ASSUME NEW K, NEW V, NEW hs \in Headers(K, V), NEW k, NEW v
  PROVE  /\ Len(AddHeader(hs, k, v)) = Len(hs) + 1
         /\ \A i \in 1..Len(hs) : AddHeader(hs, k, v)[i] = hs[i]
         /\ AddHeader(hs, k, v)[Len(hs) + 1] = Header(k, v)
<1>1. hs \in Seq([key : K, value : V])  BY DEF Headers
<1> HIDE DEF Header
<1> QED  BY <1>1 DEF AddHeader

-----------------------------------------------------------------------------
(* After set_header(k, v) the value of k is v, whether the header was      *)
(* there, once or several times and however it was spelled, or not.        *)
THEOREM SetHeaderIsRead ==
  ASSUME NEW K, NEW V, NEW hs \in Headers(K, V), NEW k, NEW v \in V
  PROVE  /\ HaveHeader(SetHeader(hs, k, v), k)
         /\ HeaderValue(SetHeader(hs, k, v), k) = v
<1> DEFINE new == SetHeader(hs, k, v)
<1>1. CASE HaveHeader(hs, k)
  <2> DEFINE m == Min(Matching(hs, k))
  <2>1. /\ m \in Matching(hs, k) /\ Len(new) = Len(hs) /\ new[m].value = v
        /\ \A i \in 1..Len(hs) : new[i].key = hs[i].key
    BY <1>1, ReplacedHeader
  <2> HIDE DEF m, new
  <2>2. Matching(new, k) = Matching(hs, k)  BY <2>1 DEF Matching, Matches
  <2> QED  BY <2>1, <2>2 DEF HaveHeader, HeaderValue, m, new
<1>2. CASE ~HaveHeader(hs, k)
  <2>1. new = AddHeader(hs, k, v)  BY <1>2 DEF SetHeader
  <2>2. /\ Len(new) = Len(hs) + 1 /\ \A i \in 1..Len(hs) : new[i] = hs[i]
        /\ new[Len(hs) + 1] = Header(k, v)
    BY <2>1, AddedHeader
  <2>3. Len(hs) \in Nat /\ Matching(hs, k) = {}
    BY <1>2, MatchingBounds DEF HaveHeader
  <2> HIDE DEF new
  <2>4. Matches(Header(k, v), k) /\ Header(k, v).value = v  BY DEF Matches, Header
  <2>5. Matching(new, k) = {Len(hs) + 1}
    <3>1. \A i \in 1..Len(hs) : ~Matches(new[i], k)  BY <2>2, <2>3 DEF Matching
    <3>2. 1..Len(new) = 1..Len(hs) \cup {Len(hs) + 1}  BY <2>2, <2>3
    <3> QED  BY <2>2, <2>4, <3>1, <3>2 DEF Matching
  <2>6. Min({Len(hs) + 1}) = Len(hs) + 1
    <3>1. Len(hs) + 1 \in Nat  BY <2>3
    <3> DEFINE n == Len(hs) + 1
    <3>2. {n} \subseteq Nat /\ n \in {n} /\ \A y \in {n} : n <= y  BY <3>1
    <3> HIDE DEF n
    <3> QED  BY <3>2, LeastUnique DEF n
  <2> QED  BY <2>2, <2>4, <2>5, <2>6 DEF HaveHeader, HeaderValue, new
<1> QED  BY <1>1, <1>2

(* set_header(k, v) leaves every other header as it is.                    *)
THEOREM SetHeaderKeepsOthers ==
  ASSUME NEW K, NEW V, NEW hs \in Headers(K, V), NEW k, NEW v \in V,
         NEW j, Normalise(j) # Normalise(k)
  PROVE  /\ HaveHeader(SetHeader(hs, k, v), j) <=> HaveHeader(hs, j)
         /\ HaveHeader(hs, j) => HeaderValue(SetHeader(hs, k, v), j) = HeaderValue(hs, j)
<1> DEFINE new == SetHeader(hs, k, v)
<1>1. Matching(new, j) = Matching(hs, j) /\ \A i \in Matching(hs, j) : new[i] = hs[i]
  <2>1. CASE HaveHeader(hs, k)
    <3> DEFINE m == Min(Matching(hs, k))
    <3>1. /\ m \in Matching(hs, k) /\ Len(new) = Len(hs)
          /\ \A i \in 1..Len(hs) : new[i].key = hs[i].key
          /\ \A i \in 1..Len(hs) : i # m => new[i] = hs[i]
      BY <2>1, ReplacedHeader
    <3> HIDE DEF m, new
    <3>2. m \notin Matching(hs, j)  BY <3>1 DEF Matching, Matches
    <3>3. Matching(new, j) = Matching(hs, j)  BY <3>1 DEF Matching, Matches
    <3> QED  BY <3>1, <3>2, <3>3 DEF Matching
  <2>2. CASE ~HaveHeader(hs, k)
    <3>1. new = AddHeader(hs, k, v)  BY <2>2 DEF SetHeader
    <3>2. /\ Len(new) = Len(hs) + 1 /\ \A i \in 1..Len(hs) : new[i] = hs[i]
          /\ new[Len(hs) + 1] = Header(k, v)
      BY <3>1, AddedHeader
    <3> HIDE DEF new
    <3>3. ~Matches(Header(k, v), j)  BY DEF Matches, Header
    <3>4. Len(hs) \in Nat  BY MatchingBounds
    <3>5. 1..Len(new) = 1..Len(hs) \cup {Len(hs) + 1}  BY <3>2, <3>4
    <3> QED  BY <3>2, <3>3, <3>5 DEF Matching
  <2> QED  BY <2>1, <2>2
<1> HIDE DEF new
<1>2. HaveHeader(hs, j) => Min(Matching(hs, j)) \in Matching(hs, j)
  BY MatchingBounds, LeastPlace DEF HaveHeader
<1> QED  BY <1>1, <1>2 DEF HaveHeader, HeaderValue, new

(* body(b) announces the length of b, under whatever spelling it is looked *)
(* up, and nothing it finds among the headers prevents that.               *)
THEOREM BodyAnnouncesItsLength ==
  ASSUME NEW K, NEW V, NEW hs \in Headers(K, V), NEW body, NEW b,
         <<Numeral(Len(b))>> \in V,
         NEW S, NEW k \in Seq(S), <<"C", "-", "L">> \in Seq(S), SameName(k, <<"C", "-", "L">>)
  PROVE  HeaderValue(Body([headers |-> hs, body |-> body], b).headers, k) = <<Numeral(Len(b))>>
<1> DEFINE name == <<"C", "-", "L">>
           value == <<Numeral(Len(b))>>
           m == [headers |-> hs, body |-> body]
<1>1. Normalise(k) = Normalise(name)
  <2>1. name \in Seq(S) /\ SameName(k, name)  OBVIOUS
  <2> HIDE DEF name
  <2> QED  BY <2>1, NormaliseForgetsCase
<1>2. HeaderValue(SetHeader(hs, name, value), name) = value
  <2>1. value \in V  OBVIOUS
  <2> HIDE DEF name, value
  <2> QED  BY <2>1, SetHeaderIsRead
<1>3. Body(m, b).headers = SetHeader(hs, name, value)  BY DEF Body
<1> HIDE DEF name, value, m
<1>4. \A h : HeaderValue(h, k) = HeaderValue(h, name)
  BY <1>1 DEF HeaderValue, Matching, Matches
<1> QED  BY <1>2, <1>3, <1>4 DEF value, m

(***************************************************************************)
(* Parts of a text.                                                        *)
(***************************************************************************)

(* x is the part of s after its first o characters.                        *)
At(s, o, x) ==
  /\ o \in Nat /\ Len(x) \in Nat /\ o + Len(x) <= Len(s)
  /\ \A i \in 1..Len(x) : s[o + i] = x[i]

LEMMA PartAt ==
  ASSUME NEW S, NEW s \in Seq(S), NEW x \in Seq(S), NEW o, At(s, o, x)
  PROVE  SubSeq(s, o + 1, o + Len(x)) = x
<1>1. o \in Nat /\ Len(x) \in Nat /\ Len(s) \in Nat /\ o + Len(x) <= Len(s)  BY DEF At
<1> DEFINE t == SubSeq(s, o + 1, o + Len(x))
<1>2. t \in Seq(S) /\ Len(t) = Len(x) /\ \A i \in 1..Len(x) : t[i] = s[o + i]
  BY <1>1
<1>3. \A i \in 1..Len(x) : t[i] = x[i]  BY <1>2 DEF At
<1> HIDE DEF t
<1>4. t = x  BY <1>2, <1>3
<1> QED  BY <1>4 DEF t

LEMMA Joined ==
  ASSUME NEW S, NEW s \in Seq(S), NEW x \in Seq(S)
  PROVE  /\ s \o x \in Seq(S)
         /\ Len(s \o x) = Len(s) + Len(x) /\ Len(s) \in Nat /\ Len(x) \in Nat
         /\ At(s \o x, 0, s)
         /\ At(s \o x, Len(s), x)
BY DEF At

(* What is a part of a text is a part of every text that begins with it.   *)
LEMMA AtJoined ==
  ASSUME NEW S, NEW s \in Seq(S), NEW x \in Seq(S), NEW o, NEW y \in Seq(S), At(s, o, y)
  PROVE  At(s \o x, o, y)
<1>1. Len(s \o x) = Len(s) + Len(x) /\ Len(s) \in Nat /\ Len(x) \in Nat
      /\ \A i \in 1..Len(s) : (s \o x)[i] = s[i]
  OBVIOUS
<1>2. o \in Nat /\ Len(y) \in Nat /\ o + Len(y) <= Len(s)  BY DEF At
<1>3. ASSUME NEW i \in 1..Len(y) PROVE (s \o x)[o + i] = y[i]
  <2>1. o + i \in 1..Len(s)  BY <1>1, <1>2
  <2>2. s[o + i] = y[i]  BY DEF At
  <2> QED  BY <1>1, <2>1, <2>2
<1>4. o + Len(y) <= Len(s \o x)  BY <1>1, <1>2
<1> QED  BY <1>2, <1>3, <1>4 DEF At

LEMMA NothingJoined ==
  ASSUME NEW S, NEW s \in Seq(S)
  PROVE  s \o <<>> = s /\ <<>> \o s = s
OBVIOUS

LEMMA Regrouped ==
  ASSUME NEW S, NEW x \in Seq(S), NEW y \in Seq(S), NEW z \in Seq(S)
  PROVE  (x \o y) \o z = x \o (y \o z)
<1> DEFINE s == (x \o y) \o z
           t == x \o (y \o z)
<1>1. s \in Seq(S) /\ t \in Seq(S) /\ Len(s) = Len(x) + Len(y) + Len(z) /\ Len(t) = Len(s)
  OBVIOUS
<1>2. ASSUME NEW i \in 1..Len(s) PROVE s[i] = t[i]
  OBVIOUS
<1> HIDE DEF s, t
<1>3. s = t  BY <1>1, <1>2
<1> QED  BY <1>3 DEF s, t

Associative(S) == \A x, y, z \in Seq(S) : (x \o y) \o z = x \o (y \o z)

LEMMA JoiningAssociates == ASSUME NEW S PROVE Associative(S)
<1> SUFFICES ASSUME NEW x \in Seq(S), NEW y \in Seq(S), NEW z \in Seq(S)
             PROVE  (x \o y) \o z = x \o (y \o z)
  BY DEF Associative
<1> QED  BY Regrouped

LEMMA SameText ==
  ASSUME NEW S, NEW s \in Seq(S), NEW t \in Seq(S), Len(s) = Len(t),
         \A i \in 1..Len(s) : s[i] = t[i]
  PROVE  s = t
OBVIOUS

(* Where Find finds a character.                                           *)
LEMMA FindsAt ==
  ASSUME NEW S, NEW s \in Seq(S), NEW C, NEW b \in Nat \ {0}, NEW e \in Nat,
         b <= e, e <= Len(s) + 1, e <= Len(s) => s[e] \in C,
         \A i \in Nat : b <= i /\ i < e => s[i] \notin C
  PROVE  Find(s, C, b) = e
<1>0. Len(s) \in Nat  OBVIOUS
<1> DEFINE T == {i \in b..Len(s) : s[i] \in C} \cup {Len(s) + 1}
<1>1. T \subseteq Nat  BY <1>0
<1>2. e \in T
  <2>1. CASE e <= Len(s)  BY <1>0, <2>1
  <2>2. CASE e = Len(s) + 1  BY <2>2
  <2> QED  BY <1>0, <2>1, <2>2
<1>3. \A i \in T : e <= i
  <2> SUFFICES ASSUME NEW i \in T, i < e PROVE FALSE  BY <1>0
  <2>1. i # Len(s) + 1  BY <1>0
  <2>2. i \in b..Len(s) /\ s[i] \in C  BY <2>1
  <2> QED  BY <2>2, <1>0
<1> HIDE DEF T
<1>4. Min(T) = e  BY <1>1, <1>2, <1>3, LeastUnique
<1> QED  BY <1>4 DEF Find, T

(* Past the end nothing is found.                                          *)
LEMMA FindsNothing ==
  ASSUME NEW S, NEW s \in Seq(S), NEW C, NEW b \in Nat \ {0},
         \A i \in b..Len(s) : s[i] \notin C
  PROVE  Find(s, C, b) = Len(s) + 1
<1>1. {i \in b..Len(s) : s[i] \in C} \cup {Len(s) + 1} = {Len(s) + 1}  OBVIOUS
<1> DEFINE m == Len(s) + 1
<1>2. m \in Nat  OBVIOUS
<1> HIDE DEF m
<1>3. Min({m}) = m  BY <1>2, LeastUnique
<1> QED  BY <1>1, <1>3 DEF Find, m

-----------------------------------------------------------------------------
(* A recursive function that goes through a text from place to place and   *)
(* makes an item of what it finds at each of them exists, as long as every *)
(* place leads to one further on.                                          *)
Chained(f, M, Stop, item, next) ==
  f = [b \in 1..M |-> IF b \in Stop THEN <<>> ELSE <<item[b]>> \o f[next[b]]]

LEMMA ChainExists ==
  ASSUME NEW M \in Nat, NEW Stop, NEW item, NEW next,
         \A b \in 1..M : b \notin Stop => next[b] \in b + 1..M
  PROVE  \E f : Chained(f, M, Stop, item, next)
<1> DEFINE E(f, b) == IF b \in Stop THEN <<>> ELSE <<item[b]>> \o f[next[b]]
           T == {k \in Nat : \E f : /\ f = [b \in 1..M |-> f[b]]
                                    /\ \A b \in 1..M : b + k > M => f[b] = E(f, b)}
<1>1. 0 \in T
  <2> DEFINE f == [b \in 1..M |-> <<>>]
  <2>1. f = [b \in 1..M |-> f[b]]  OBVIOUS
  <2>2. \A b \in 1..M : ~(b + 0 > M)  OBVIOUS
  <2> HIDE DEF f
  <2> QED  BY <2>1, <2>2
<1>2. ASSUME NEW k \in Nat, k \in T PROVE k + 1 \in T
  <2>1. PICK f : /\ f = [b \in 1..M |-> f[b]]
                 /\ \A b \in 1..M : b + k > M => f[b] = E(f, b)
    BY <1>2
  <2> DEFINE g == [b \in 1..M |-> IF b + k = M THEN E(f, b) ELSE f[b]]
  <2>2. g = [b \in 1..M |-> g[b]]  OBVIOUS
  <2>3. \A b \in 1..M : g[b] = IF b + k = M THEN E(f, b) ELSE f[b]  OBVIOUS
  <2> HIDE DEF g
  <2>4. ASSUME NEW b \in 1..M, b + (k + 1) > M PROVE g[b] = E(g, b)
    <3>1. g[b] = E(f, b)
      <4>1. CASE b + k = M  BY <2>3, <4>1
      <4>2. CASE b + k # M
        <5>1. b + k > M  BY <2>4, <4>2
        <5> QED  BY <2>1, <2>3, <4>2, <5>1
      <4> QED  BY <4>1, <4>2
    <3>2. CASE b \in Stop  BY <3>1, <3>2
    <3>3. CASE b \notin Stop
      <4>1. next[b] \in b + 1..M  BY <3>3
      <4> DEFINE c == next[b]
      <4>2. c \in 1..M /\ c + k # M  BY <2>4, <4>1
      <4>3. g[c] = f[c]  BY <2>3, <4>2
      <4> QED  BY <3>1, <3>3, <4>3
    <3> QED  BY <3>2, <3>3
  <2> HIDE DEF E
  <2> QED  BY <2>2, <2>4
<1> HIDE DEF T
<1>3. M \in T  BY <1>1, <1>2, InductionOnNat
<1>4. PICK f : /\ f = [b \in 1..M |-> f[b]]
               /\ \A b \in 1..M : b + M > M => f[b] = E(f, b)
  BY <1>3 DEF T
<1>5. \A b \in 1..M : f[b] = E(f, b)
  <2>1. \A b \in 1..M : b + M > M  OBVIOUS
  <2> HIDE DEF E
  <2> QED  BY <1>4, <2>1
<1>6. f = [b \in 1..M |-> E(f, b)]  BY <1>4, <1>5
<1> QED  BY <1>6 DEF Chained

(* Sequences joined one after the other: F[i] is what the first i make.    *)
JoinedUp(X, F) ==
  /\ F[0] = <<>>
  /\ \A i \in 1..Len(X) : F[i] = F[i - 1] \o X[i]

LEMMA FlattenExists ==
  ASSUME NEW n \in Nat, NEW X
  PROVE  \E f : f = [i \in 1..n |-> IF i = 1 THEN X[i] ELSE f[i - 1] \o X[i]]
<1> DEFINE E(f, i) == IF i = 1 THEN X[i] ELSE f[i - 1] \o X[i]
           T == {k \in Nat : \E f : /\ f = [i \in 1..n |-> f[i]]
                                    /\ \A i \in 1..n : i <= k => f[i] = E(f, i)}
<1>1. 0 \in T
  <2> DEFINE f == [i \in 1..n |-> <<>>]
  <2>1. f = [i \in 1..n |-> f[i]]  OBVIOUS
  <2>2. \A i \in 1..n : ~(i <= 0)  OBVIOUS
  <2> HIDE DEF f
  <2> QED  BY <2>1, <2>2
<1>2. ASSUME NEW k \in Nat, k \in T PROVE k + 1 \in T
  <2>1. PICK f : /\ f = [i \in 1..n |-> f[i]]
                 /\ \A i \in 1..n : i <= k => f[i] = E(f, i)
    BY <1>2
  <2> DEFINE g == [i \in 1..n |-> IF i = k + 1 THEN E(f, i) ELSE f[i]]
  <2>2. g = [i \in 1..n |-> g[i]]  OBVIOUS
  <2>3. \A i \in 1..n : g[i] = IF i = k + 1 THEN E(f, i) ELSE f[i]  OBVIOUS
  <2> HIDE DEF g
  <2>4. ASSUME NEW i \in 1..n, i <= k + 1 PROVE g[i] = E(g, i)
    <3>1. g[i] = E(f, i)
      <4>1. CASE i = k + 1  BY <2>3, <4>1
      <4>2. CASE i # k + 1
        <5>1. i <= k  BY <2>4, <4>2
        <5> QED  BY <2>1, <2>3, <4>2, <5>1
      <4> QED  BY <4>1, <4>2
    <3>2. CASE i = 1  BY <3>1, <3>2
    <3>3. CASE i # 1
      <4> DEFINE c == i - 1
      <4>1. c \in 1..n /\ c # k + 1  BY <2>4, <3>3
      <4>2. g[c] = f[c]  BY <2>3, <4>1
      <4> QED  BY <3>1, <3>3, <4>2
    <3> QED  BY <3>2, <3>3
  <2> HIDE DEF E
  <2> QED  BY <2>2, <2>4
<1> HIDE DEF T
<1>3. n \in T  BY <1>1, <1>2, InductionOnNat
<1>4. PICK f : /\ f = [i \in 1..n |-> f[i]]
               /\ \A i \in 1..n : i <= n => f[i] = E(f, i)
  BY <1>3 DEF T
<1>5. \A i \in 1..n : f[i] = E(f, i)
  <2>1. \A i \in 1..n : i <= n  OBVIOUS
  <2> HIDE DEF E
  <2> QED  BY <1>4, <2>1
<1>6. f = [i \in 1..n |-> E(f, i)]  BY <1>4, <1>5
<1> QED  BY <1>6

LEMMA FlattenJoins ==
  ASSUME NEW S, NEW X \in Seq(Seq(S))
  PROVE  \E F \in [0..Len(X) -> Seq(S)] : JoinedUp(X, F) /\ FlattenSeq(X) = F[Len(X)]
<1> DEFINE n == Len(X)
<1>1. n \in Nat /\ \A i \in 1..n : X[i] \in Seq(S)  OBVIOUS
<1>2. CASE n = 0
  <2> DEFINE F == [i \in 0..0 |-> <<>>]
  <2>1. F \in [0..0 -> Seq(S)] /\ F[0] = <<>>  OBVIOUS
  <2>2. X = <<>>  BY <1>2
  <2>3. FlattenSeq(X) = X  BY <1>2 DEF FlattenSeq
  <2> HIDE DEF F
  <2>4. JoinedUp(X, F)  BY <1>2, <2>1 DEF JoinedUp
  <2> QED  BY <1>2, <2>1, <2>2, <2>3, <2>4
<1>3. CASE n # 0
  <2> DEFINE f == CHOOSE f : f = [i \in 1..n |-> IF i = 1 THEN X[i] ELSE f[i - 1] \o X[i]]
  <2>1. f = [i \in 1..n |-> IF i = 1 THEN X[i] ELSE f[i - 1] \o X[i]]
    BY <1>1, FlattenExists
  <2>2. FlattenSeq(X) = f[n]  BY <1>3 DEF FlattenSeq
  <2> HIDE DEF f
  <2>3. \A i \in 1..n : f[i] = IF i = 1 THEN X[i] ELSE f[i - 1] \o X[i]  BY <2>1
  <2> DEFINE T == {k \in Nat : k + 1 \in 1..n => f[k + 1] \in Seq(S)}
  <2>4. 0 \in T  BY <1>1, <2>3
  <2>5. ASSUME NEW k \in Nat, k \in T PROVE k + 1 \in T
    <3> SUFFICES ASSUME (k + 1) + 1 \in 1..n PROVE f[(k + 1) + 1] \in Seq(S)  OBVIOUS
    <3>1. f[k + 1] \in Seq(S)
      <4>1. k + 1 \in 1..n  BY <1>1
      <4>2. k + 1 \in 1..n => f[k + 1] \in Seq(S)  BY <2>5
      <4> HIDE DEF T, n
      <4> QED  BY <4>1, <4>2
    <3>2. f[(k + 1) + 1] = f[k + 1] \o X[(k + 1) + 1]
      <4> DEFINE i == (k + 1) + 1
      <4>1. i \in 1..n /\ i # 1 /\ i - 1 = k + 1  OBVIOUS
      <4> HIDE DEF i
      <4>2. f[i] = f[i - 1] \o X[i]  BY <2>3, <4>1
      <4> QED  BY <4>1, <4>2 DEF i
    <3>3. X[(k + 1) + 1] \in Seq(S)  BY <1>1
    <3> QED  BY <3>1, <3>2, <3>3
  <2> HIDE DEF T
  <2>6. \A k \in Nat : k \in T  BY <2>4, <2>5, InductionOnNat
  <2>7. ASSUME NEW i \in 1..n PROVE f[i] \in Seq(S)
    <3>1. i - 1 \in Nat /\ (i - 1) + 1 = i  BY <1>1
    <3>2. i - 1 \in T  BY <2>6, <3>1
    <3> QED  BY <3>1, <3>2 DEF T
  <2> DEFINE F == [i \in 0..n |-> IF i = 0 THEN <<>> ELSE f[i]]
  <2>8. F \in [0..n -> Seq(S)]  BY <1>1, <2>7
  <2>9. F[0] = <<>> /\ \A i \in 1..n : F[i] = f[i]  BY <1>1
  <2> HIDE DEF F
  <2>10. ASSUME NEW i \in 1..n PROVE F[i] = F[i - 1] \o X[i]
    <3>1. CASE i = 1
      <4>1. <<>> \o X[i] = X[i]  BY <1>1
      <4>2. F[i - 1] = <<>>  BY <2>9, <3>1
      <4> QED  BY <2>3, <2>9, <3>1, <4>1, <4>2
    <3>2. CASE i # 1
      <4>1. i - 1 \in 1..n  BY <1>1, <3>2
      <4> QED  BY <2>3, <2>9, <3>2, <4>1
    <3> QED  BY <3>1, <3>2
  <2>11. JoinedUp(X, F)  BY <2>9, <2>10 DEF JoinedUp
  <2>12. FlattenSeq(X) = F[n]  BY <1>1, <1>3, <2>2, <2>9
  <2> QED  BY <2>8, <2>11, <2>12
<1> QED  BY <1>2, <1>3


(* Each of the sequences lies in what they make where those before it end. *)
LEMMA JoinedPlaces ==
  ASSUME NEW S, NEW X \in Seq(Seq(S)), NEW F \in [0..Len(X) -> Seq(S)], JoinedUp(X, F)
  PROVE  \A i \in 1..Len(X) : /\ Len(F[i]) = Len(F[i - 1]) + Len(X[i])
                              /\ At(F[Len(X)], Len(F[i - 1]), X[i])
<1> DEFINE n == Len(X)
<1>1. n \in Nat /\ (\A i \in 1..n : X[i] \in Seq(S)) /\ \A i \in 0..n : F[i] \in Seq(S)
  OBVIOUS
<1>2. \A i \in 1..n : i - 1 \in 0..n /\ i \in 0..n  BY <1>1
<1>3. ASSUME NEW i \in 1..n
      PROVE  /\ Len(F[i]) = Len(F[i - 1]) + Len(X[i])
             /\ At(F[i], Len(F[i - 1]), X[i])
             /\ \A j, x : x \in Seq(S) /\ At(F[i - 1], j, x) => At(F[i], j, x)
  <2>1. F[i] = F[i - 1] \o X[i] /\ F[i - 1] \in Seq(S) /\ X[i] \in Seq(S)
    BY <1>1, <1>2 DEF JoinedUp
  <2> QED  BY <2>1, Joined, AtJoined
<1> DEFINE T == {k \in Nat : k <= n => \A i \in 1..k : At(F[k], Len(F[i - 1]), X[i])}
<1> HIDE DEF n
<1>4. 0 \in T  OBVIOUS
<1>5. ASSUME NEW k \in Nat, k \in T PROVE k + 1 \in T
  <2> SUFFICES ASSUME k + 1 <= n, NEW i \in 1..k + 1
               PROVE  At(F[k + 1], Len(F[i - 1]), X[i])
    OBVIOUS
  <2>1. k + 1 \in 1..n /\ (k + 1) - 1 = k /\ k <= n  BY <1>1
  <2>2. CASE i = k + 1  BY <1>3, <2>1, <2>2
  <2>3. CASE i # k + 1
    <3>1. i \in 1..k  BY <2>3
    <3>2. At(F[k], Len(F[i - 1]), X[i])  BY <1>5, <2>1, <3>1
    <3>3. i \in 1..n  BY <1>1, <2>1, <3>1
    <3>4. At(F[(k + 1) - 1], Len(F[i - 1]), X[i])  BY <2>1, <3>2
    <3> QED  BY <1>1, <1>3, <2>1, <3>3, <3>4
  <2> QED  BY <2>2, <2>3
<1> HIDE DEF T
<1>6. n \in T  BY <1>1, <1>4, <1>5, InductionOnNat
<1>7. \A i \in 1..n : At(F[n], Len(F[i - 1]), X[i])  BY <1>1, <1>6 DEF T
<1> QED  BY <1>3, <1>7 DEF n

LEMMA EndOf ==
  ASSUME NEW S, NEW s \in Seq(S), NEW o \in Nat, o <= Len(s)
  PROVE  /\ SubSeq(s, o + 1, Len(s)) \in Seq(S)
         /\ Len(SubSeq(s, o + 1, Len(s))) = Len(s) - o
         /\ \A i \in 1..Len(s) - o : SubSeq(s, o + 1, Len(s))[i] = s[o + i]
OBVIOUS

(* What the first k of several texts make, joined, and what those from the *)
(* k-th on do.                                                             *)
Upto(S, X) ==
  CHOOSE F \in [0..Len(X) -> Seq(S)] : JoinedUp(X, F) /\ FlattenSeq(X) = F[Len(X)]

From(S, X, k) == SubSeq(FlattenSeq(X), Len(Upto(S, X)[k - 1]) + 1, Len(FlattenSeq(X)))

LEMMA UptoIs ==
  ASSUME NEW S, NEW X \in Seq(Seq(S))
  PROVE  /\ Upto(S, X) \in [0..Len(X) -> Seq(S)] /\ JoinedUp(X, Upto(S, X))
         /\ FlattenSeq(X) = Upto(S, X)[Len(X)]
<1> DEFINE P(F) == JoinedUp(X, F) /\ FlattenSeq(X) = F[Len(X)]
           T == [0..Len(X) -> Seq(S)]
<1>1. \E F \in T : P(F)  BY FlattenJoins
<1>2. Upto(S, X) = CHOOSE F \in T : P(F)  BY DEF Upto
<1> HIDE DEF P, T
<1>3. Upto(S, X) \in T /\ P(Upto(S, X))  BY ONLY <1>1, <1>2
<1> QED  BY <1>3 DEF P, T

OneByOne(S, X) ==
  /\ From(S, X, 1) = FlattenSeq(X)
  /\ From(S, X, Len(X) + 1) = <<>>
  /\ \A k \in 1..Len(X) : From(S, X, k) = X[k] \o From(S, X, k + 1)
  /\ \A k \in 1..Len(X) + 1 : From(S, X, k) \in Seq(S)

LEMMA JoinedOneByOne == ASSUME NEW S, NEW X \in Seq(Seq(S)) PROVE OneByOne(S, X)
<1> DEFINE F == Upto(S, X)
           n == Len(X)
           w == FlattenSeq(X)
           m == Len(w)
<1>1. F \in [0..n -> Seq(S)] /\ JoinedUp(X, F) /\ w = F[n]  BY UptoIs
<1>2. n \in Nat /\ \A k \in 1..n : X[k] \in Seq(S)  OBVIOUS
<1>3. \A k \in 1..n : Len(F[k]) = Len(F[k - 1]) + Len(X[k]) /\ At(w, Len(F[k - 1]), X[k])
  BY <1>1, JoinedPlaces
<1>4. \A k \in 1..n + 1 : From(S, X, k) = SubSeq(w, Len(F[k - 1]) + 1, m)  BY DEF From
<1> HIDE DEF F, n, w
<1>5. \A k \in 0..n : F[k] \in Seq(S) /\ Len(F[k]) \in Nat  BY ONLY <1>1
<1>6. w \in Seq(S) /\ m \in Nat /\ m = Len(F[n])  BY ONLY <1>1, <1>2, <1>5
<1> HIDE DEF m
<1>7. \A k \in 1..n + 1 : k - 1 \in 0..n  BY ONLY <1>2
<1>8. ASSUME NEW k \in 1..n + 1 PROVE SubSeq(w, Len(F[k - 1]) + 1, m) \in Seq(S)
  <2>1. Len(F[k - 1]) \in Nat  BY ONLY <1>5, <1>7, k \in 1..n + 1
  <2> QED  BY <1>6, <2>1 DEF m
<1>9. SubSeq(w, Len(F[0]) + 1, m) = w
  <2>1. F[0] = <<>>  BY ONLY <1>1 DEF JoinedUp
  <2>2. Len(F[0]) + 1 = 1  BY ONLY <2>1
  <2>3. SubSeq(w, 1, m) = w
    <3>1. At(w, 0, w)  BY <1>6 DEF At, m
    <3>2. SubSeq(w, 0 + 1, 0 + m) = w  BY ONLY <1>6, <3>1, PartAt DEF m
    <3> QED  BY <1>6, <3>2
  <2> QED  BY ONLY <2>2, <2>3
<1>10. SubSeq(w, Len(F[n]) + 1, m) = <<>>  BY ONLY <1>6
<1>11. ASSUME NEW k \in 1..n
       PROVE  SubSeq(w, Len(F[k - 1]) + 1, m) = X[k] \o SubSeq(w, Len(F[k]) + 1, m)
  <2> DEFINE o == Len(F[k - 1])
             x == X[k]
             c == Len(x)
             y == SubSeq(w, o + 1, m)
             z == SubSeq(w, (o + c) + 1, m)
             v == x \o z
  <2>1. x \in Seq(S) /\ c \in Nat  BY ONLY <1>2, k \in 1..n
  <2>2. At(w, o, x) /\ Len(F[k]) = o + c  BY <1>3
  <2> HIDE DEF o, x
  <2>3. o \in Nat /\ o + c <= m /\ \A i \in 1..c : w[o + i] = x[i]  BY ONLY <2>2 DEF At, m
  <2> HIDE DEF c
  <2>4. y \in Seq(S) /\ Len(y) = m - o /\ \A i \in 1..m - o : y[i] = w[o + i]
    <3>1. o <= Len(w)  BY ONLY <1>6, <2>1, <2>3 DEF m
    <3> QED  BY ONLY <1>6, <2>3, <3>1, EndOf DEF m
  <2>5. z \in Seq(S) /\ Len(z) = m - (o + c) /\ \A i \in 1..m - (o + c) : z[i] = w[(o + c) + i]
    <3> DEFINE e == o + c
    <3>1. e \in Nat /\ e <= Len(w)  BY ONLY <1>6, <2>1, <2>3 DEF m
    <3> HIDE DEF e
    <3>2. /\ SubSeq(w, e + 1, m) \in Seq(S) /\ Len(SubSeq(w, e + 1, m)) = m - e
          /\ \A i \in 1..m - e : SubSeq(w, e + 1, m)[i] = w[e + i]
      BY ONLY <1>6, <3>1, EndOf DEF m
    <3> QED  BY ONLY <3>2 DEF e
  <2> HIDE DEF y, z
  <2>6. v \in Seq(S) /\ Len(v) = c + Len(z) /\ At(v, 0, x) /\ At(v, c, z)
    BY ONLY <2>1, <2>5, Joined DEF c
  <2> HIDE DEF v
  <2>7. Len(v) = m - o  BY ONLY <1>6, <2>1, <2>3, <2>5, <2>6
  <2>8. ASSUME NEW i \in 1..m - o PROVE y[i] = v[i]
    <3>0. i \in 1..m - o  OBVIOUS
    <3>1. y[i] = w[o + i]  BY ONLY <2>4, <3>0
    <3>2. CASE i <= c
      <4>1. i \in 1..c /\ 0 + i = i  BY ONLY <1>6, <2>1, <2>3, <3>0, <3>2
      <4>2. v[0 + i] = x[i]  BY ONLY <2>6, <4>1 DEF At, c
      <4> QED  BY ONLY <2>3, <3>1, <4>1, <4>2
    <3>3. CASE i > c
      <4> DEFINE j == i - c
      <4>1. j \in 1..m - (o + c) /\ c + j = i /\ (o + c) + j = o + i
        BY ONLY <1>6, <2>1, <2>3, <3>0, <3>3
      <4> HIDE DEF j
      <4>2. v[c + j] = z[j]  BY ONLY <2>5, <2>6, <4>1 DEF At
      <4>3. z[j] = w[(o + c) + j]  BY ONLY <2>5, <4>1
      <4> QED  BY ONLY <3>1, <4>1, <4>2, <4>3
    <3> QED  BY ONLY <1>6, <2>1, <2>3, <3>0, <3>2, <3>3
  <2>9. y = v  BY ONLY <2>4, <2>6, <2>7, <2>8, SameText
  <2> QED  BY ONLY <2>2, <2>9 DEF y, v, z, x, o
<1>12. From(S, X, 1) = w
  <2>1. 1 \in 1..n + 1 /\ 1 - 1 = 0  BY ONLY <1>2
  <2> QED  BY ONLY <1>4, <1>9, <2>1
<1>13. From(S, X, n + 1) = <<>>
  <2>1. n + 1 \in 1..n + 1 /\ (n + 1) - 1 = n  BY ONLY <1>2
  <2> QED  BY ONLY <1>4, <1>10, <2>1
<1>14. ASSUME NEW k \in 1..n PROVE From(S, X, k) = X[k] \o From(S, X, k + 1)
  <2>1. k \in 1..n + 1 /\ k + 1 \in 1..n + 1 /\ (k + 1) - 1 = k  BY ONLY <1>2, k \in 1..n
  <2>2. From(S, X, k + 1) = SubSeq(w, Len(F[k]) + 1, m)  BY ONLY <1>4, <2>1
  <2>3. From(S, X, k) = SubSeq(w, Len(F[k - 1]) + 1, m)  BY ONLY <1>4, <2>1
  <2>4. SubSeq(w, Len(F[k - 1]) + 1, m) = X[k] \o SubSeq(w, Len(F[k]) + 1, m)  BY <1>11
  <2> QED  BY ONLY <2>2, <2>3, <2>4
<1>15. \A k \in 1..n + 1 : From(S, X, k) \in Seq(S)  BY ONLY <1>4, <1>8
<1> QED  BY ONLY <1>12, <1>13, <1>14, <1>15 DEF OneByOne, n, w

-----------------------------------------------------------------------------
(* Lines.                                                                  *)

LEMMA PairIs ==
  ASSUME NEW S, NEW s \in Seq(S), NEW j \in Nat \ {0}, j + 1 <= Len(s)
  PROVE  SubSeq(s, j, j + 1) = NewLine <=> s[j] = "\r" /\ s[j + 1] = "\n"
<1> DEFINE t == SubSeq(s, j, j + 1)
<1>1. t \in Seq(S) /\ Len(t) = 2 /\ t[1] = s[j] /\ t[2] = s[j + 1]  OBVIOUS
<1>2. NewLine[1] = "\r" /\ NewLine[2] = "\n" /\ Len(NewLine) = 2 /\ NewLine \in Seq({"\r", "\n"})
  BY DEF NewLine
<1> HIDE DEF t
<1>3. t = NewLine <=> \A i \in 1..2 : t[i] = NewLine[i]  BY <1>1, <1>2
<1>4. t = NewLine <=> t[1] = NewLine[1] /\ t[2] = NewLine[2]  BY <1>3
<1> QED  BY <1>1, <1>2, <1>4 DEF t

LEMMA LineEndWithin ==
  ASSUME NEW S, NEW s \in Seq(S), NEW b \in Nat \ {0}
  PROVE  LineEnd(s, b) \in Nat /\ LineEnd(s, b) <= Len(s) + 1
<1> DEFINE T == {i \in b..Len(s) - 1 : s[i] = "\r" /\ s[i + 1] = "\n"}
<1>0. Len(s) \in Nat  OBVIOUS
<1>1. CASE T = {}
  <2>1. ~ \E i \in b..Len(s) - 1 : s[i] = "\r" /\ s[i + 1] = "\n"  BY <1>1
  <2>2. LineEnd(s, b) = Len(s) + 1  BY <2>1 DEF LineEnd
  <2> QED  BY <1>0, <2>2
<1>2. CASE T # {}
  <2> DEFINE m == Min(T)
             P(i) == s[i] = "\r" /\ s[i + 1] = "\n" /\ \A j \in b..i - 1 : SubSeq(s, j, j + 1) # NewLine
  <2>1. T \subseteq Nat  BY <1>0
  <2>2. m \in T /\ \A y \in T : m <= y  BY <1>2, <2>1, LeastPlace
  <2> HIDE DEF m
  <2>3. ASSUME NEW j \in b..m - 1 PROVE SubSeq(s, j, j + 1) # NewLine
    <3>1. j \in b..Len(s) - 1 /\ j \in Nat \ {0} /\ j + 1 <= Len(s) /\ ~(m <= j)
      BY <1>0, <2>2
    <3>2. j \notin T  BY <2>2, <3>1
    <3>3. ~(s[j] = "\r" /\ s[j + 1] = "\n")  BY <3>1, <3>2
    <3> QED  BY <3>1, <3>3, PairIs
  <2>4. P(m)  BY <2>2, <2>3
  <2>5. (\E i \in b..Len(s) - 1 : s[i] = "\r" /\ s[i + 1] = "\n") /\ m \in b..Len(s) - 1  BY <2>2
  <2>6. LineEnd(s, b) = CHOOSE i \in b..Len(s) - 1 : P(i)  BY <2>5 DEF LineEnd
  <2> HIDE DEF P, T
  <2>7. LineEnd(s, b) \in b..Len(s) - 1  BY <2>4, <2>5, <2>6
  <2> QED  BY <1>0, <2>7
<1> QED  BY <1>1, <1>2

LEMMA LineEndAt ==
  ASSUME NEW S, NEW s \in Seq(S), NEW b \in Nat \ {0}, NEW e \in Nat,
         b <= e, e + 1 <= Len(s), s[e] = "\r", s[e + 1] = "\n",
         \A i \in Nat : b <= i /\ i < e => s[i] # "\r"
  PROVE  LineEnd(s, b) = e
<1> DEFINE P(i) == s[i] = "\r" /\ s[i + 1] = "\n" /\ \A j \in b..i - 1 : SubSeq(s, j, j + 1) # NewLine
<1>0. Len(s) \in Nat /\ e \in b..Len(s) - 1 /\ e \in Nat \ {0}  OBVIOUS
<1>1. ASSUME NEW j \in b..e - 1 PROVE SubSeq(s, j, j + 1) # NewLine
  <2>1. j \in Nat \ {0} /\ b <= j /\ j < e /\ j + 1 <= Len(s)  BY <1>0
  <2> QED  BY <2>1, PairIs
<1>2. P(e)  BY <1>1
<1>3. SubSeq(s, e, e + 1) = NewLine  BY <1>0, PairIs
<1>4. ASSUME NEW i \in b..Len(s) - 1, P(i) PROVE i = e
  <2>1. ~(i < e)  BY <1>4
  <2>2. ~(e < i)
    <3> SUFFICES ASSUME e < i PROVE FALSE  OBVIOUS
    <3>1. e \in b..i - 1  BY <1>0
    <3> QED  BY <1>3, <1>4, <3>1
  <2> QED  BY <1>0, <2>1, <2>2
<1>5. LineEnd(s, b) = CHOOSE i \in b..Len(s) - 1 : P(i)  BY <1>0 DEF LineEnd
<1> HIDE DEF P
<1> QED  BY <1>0, <1>2, <1>4, <1>5

(* If two texts begin with the same part, and so does what there is of one *)
(* of them, the rest is the same, too.                                     *)
LeavesRest(S, i, n) ==
  \A p, r \in Seq(S) :
    i \o n = p \o r /\ Len(i) >= Len(p) =>
      /\ SubSeq(i, 1, Len(p)) = p
      /\ SubSeq(i, Len(p) + 1, Len(i)) \in Seq(S)
      /\ SubSeq(i, Len(p) + 1, Len(i)) \o n = r

LEMMA RestIsLeft ==
  ASSUME NEW S, NEW i \in Seq(S), NEW n \in Seq(S)
  PROVE  LeavesRest(S, i, n)
<1> SUFFICES ASSUME NEW p \in Seq(S), NEW r \in Seq(S), i \o n = p \o r, Len(i) >= Len(p)
             PROVE  /\ SubSeq(i, 1, Len(p)) = p
                    /\ SubSeq(i, Len(p) + 1, Len(i)) \in Seq(S)
                    /\ SubSeq(i, Len(p) + 1, Len(i)) \o n = r
  BY DEF LeavesRest
<1> DEFINE a == Len(i)  b == Len(n)  c == Len(p)  d == Len(r)
           x == SubSeq(i, 1, c)
           y == SubSeq(i, c + 1, a)
           z == y \o n
<1>1. a \in Nat /\ b \in Nat /\ c \in Nat /\ d \in Nat /\ c <= a  OBVIOUS
<1>2. Len(i \o n) = a + b /\ Len(p \o r) = c + d  OBVIOUS
<1>3. a + b = c + d  BY ONLY <1>2, i \o n = p \o r
<1>4. ASSUME NEW k \in 1..a PROVE (i \o n)[k] = i[k]  OBVIOUS
<1>5. ASSUME NEW k \in 1..b PROVE (i \o n)[a + k] = n[k]  OBVIOUS
<1>6. ASSUME NEW k \in 1..c PROVE (p \o r)[k] = p[k]  OBVIOUS
<1>7. ASSUME NEW k \in 1..d PROVE (p \o r)[c + k] = r[k]  OBVIOUS
<1>8. x \in Seq(S) /\ Len(x) = c /\ \A k \in 1..c : x[k] = i[k]  BY <1>1
<1>9. y \in Seq(S) /\ Len(y) = a - c /\ \A k \in 1..a - c : y[k] = i[c + k]  BY <1>1
<1> HIDE DEF x, y
<1>10. z \in Seq(S) /\ Len(z) = (a - c) + b
       /\ (\A k \in 1..a - c : z[k] = y[k]) /\ \A k \in 1..b : z[(a - c) + k] = n[k]
  <2> HIDE DEF a, c
  <2>1. z \in Seq(S) /\ Len(z) = Len(y) + Len(n) /\ At(z, 0, y) /\ At(z, Len(y), n)
    BY ONLY <1>9, n \in Seq(S), Joined
  <2>2. \A k \in 1..Len(y) : z[0 + k] = y[k]  BY ONLY <2>1 DEF At
  <2>3. \A k \in 1..Len(n) : z[Len(y) + k] = n[k]  BY ONLY <2>1 DEF At
  <2>4. \A k \in 1..Len(y) : 0 + k = k  OBVIOUS
  <2> QED  BY ONLY <1>9, <2>1, <2>2, <2>3, <2>4
<1> DEFINE s == i \o n
           t == p \o r
<1>11. s = t  OBVIOUS
<1>12. (\A k \in 1..a : s[k] = i[k]) /\ (\A k \in 1..b : s[a + k] = n[k])  BY <1>4, <1>5
<1>13. (\A k \in 1..c : t[k] = p[k]) /\ (\A k \in 1..d : t[c + k] = r[k])  BY <1>6, <1>7
<1> HIDE DEF s, t, z
<1>14. \A k \in 1..c : x[k] = p[k]
  <2> HIDE DEF a, c
  <2> SUFFICES ASSUME NEW k \in 1..c PROVE x[k] = p[k]  OBVIOUS
  <2>1. k \in 1..a  BY ONLY <1>1, k \in 1..c
  <2> QED  BY ONLY k \in 1..c, <2>1, <1>8, <1>11, <1>12, <1>13
<1>15. x = p  BY ONLY <1>8, <1>14, x \in Seq(S), p \in Seq(S), Len(p) = c
<1>16. \A k \in 1..d : z[k] = r[k]
  <2> HIDE DEF a, b, c, d
  <2> SUFFICES ASSUME NEW k \in 1..d PROVE z[k] = r[k]  OBVIOUS
  <2>1. t[c + k] = r[k]  BY ONLY <1>13, k \in 1..d
  <2>2. CASE k <= a - c
    <3>1. k \in 1..a - c /\ c + k \in 1..a  BY ONLY <1>1, <2>2, k \in 1..d
    <3>2. z[k] = y[k] /\ y[k] = i[c + k]  BY ONLY <3>1, <1>9, <1>10
    <3>3. s[c + k] = i[c + k]  BY ONLY <3>1, <1>12
    <3> QED  BY ONLY <2>1, <3>2, <3>3, <1>11
  <2>3. CASE k > a - c
    <3> DEFINE j == k - (a - c)
    <3>1. j \in 1..b /\ (a - c) + j = k /\ a + j = c + k
      BY ONLY <1>1, <1>3, <2>3, k \in 1..d
    <3> HIDE DEF j
    <3>2. z[(a - c) + j] = n[j]  BY ONLY <1>10, <3>1
    <3>3. s[a + j] = n[j]  BY ONLY <1>12, <3>1
    <3> QED  BY ONLY <2>1, <3>1, <3>2, <3>3, <1>11
  <2> QED  BY ONLY <1>1, <2>2, <2>3, k \in 1..d
<1>17. z = r
  <2>1. Len(z) = d  BY <1>1, <1>3, <1>10
  <2>2. z \in Seq(S) /\ r \in Seq(S) /\ Len(z) = Len(r) /\ \A k \in 1..Len(r) : z[k] = r[k]
    BY <1>10, <1>16, <2>1
  <2> QED  BY ONLY <2>2, SameText
<1> QED  BY <1>9, <1>15, <1>17 DEF x, y, z

(* A line is taken from a text that begins with it.                        *)
NoReturn(l) == \A k \in 1..Len(l) : l[k] # "\r"

LeavesLine(S, i, n) ==
  \A l, r \in Seq(S) :
    i \o n = l \o (NewLine \o r) /\ NoReturn(l) =>
      /\ SubSeq(i, 1, LineEnd(i, 1) - 1) = l
      /\ SubSeq(i, LineEnd(i, 1) + 2, Len(i)) \in Seq(S)
      /\ SubSeq(i, LineEnd(i, 1) + 2, Len(i)) \o n = r

LEMMA LineTaken ==
  ASSUME NEW S, {"\r", "\n"} \subseteq S, NEW i \in Seq(S), NEW n \in Seq(S),
         LineEnd(i, 1) <= Len(i)
  PROVE  LeavesLine(S, i, n)
<1> SUFFICES ASSUME NEW l \in Seq(S), NEW r \in Seq(S),
                    i \o n = l \o (NewLine \o r), NoReturn(l)
             PROVE  /\ SubSeq(i, 1, LineEnd(i, 1) - 1) = l
                    /\ SubSeq(i, LineEnd(i, 1) + 2, Len(i)) \in Seq(S)
                    /\ SubSeq(i, LineEnd(i, 1) + 2, Len(i)) \o n = r
  BY DEF LeavesLine
<1> DEFINE a == Len(i)  b == Len(l)
           p == l \o NewLine
<1>1. a \in Nat /\ b \in Nat  OBVIOUS
<1>2. NewLine \in Seq(S) /\ Len(NewLine) = 2 /\ NewLine[1] = "\r" /\ NewLine[2] = "\n"
  BY DEF NewLine
<1>3. PICK k \in 1..a - 1 : i[k] = "\r" /\ i[k + 1] = "\n"
  <2>1. LineEnd(i, 1) # Len(i) + 1  BY <1>1
  <2> QED  BY <2>1 DEF LineEnd
<1>4. p \in Seq(S) /\ Len(p) = b + 2 /\ At(p, 0, l) /\ At(p, b, NewLine)
  BY ONLY <1>2, Joined, l \in Seq(S), b = Len(l)
<1>5. i \o n = p \o r
  <2>1. (l \o NewLine) \o r = l \o (NewLine \o r)
    <3>1. Associative(S)  BY JoiningAssociates
    <3>2. NewLine \in Seq(S) /\ l \in Seq(S) /\ r \in Seq(S)  BY <1>2
    <3> QED  BY ONLY <3>1, <3>2 DEF Associative
  <2> QED  BY <2>1
<1> HIDE DEF p
<1>6. p \o r \in Seq(S) /\ (\A j \in 1..b + 2 : (p \o r)[j] = p[j])
  BY ONLY <1>1, <1>4, r \in Seq(S)
<1>7. \A j \in 1..a : (i \o n)[j] = i[j]  OBVIOUS
<1>8. \A j \in 1..b : p[j] = l[j]  BY ONLY <1>4, b = Len(l) DEF At
<1>9. p[b + 1] = "\r" /\ p[b + 2] = "\n"  BY <1>2, <1>4 DEF At
<1> HIDE DEF a, b
<1>10. \A j \in 1..a : j \in 1..b + 2 => i[j] = p[j]  BY ONLY <1>5, <1>6, <1>7
<1>11. \A j \in 1..b : p[j] # "\r"  BY ONLY <1>8, NoReturn(l), b = Len(l) DEF b, NoReturn
<1>12. ~(k <= b)
  <2> SUFFICES ASSUME k <= b PROVE FALSE  OBVIOUS
  <2>1. k \in 1..a /\ k \in 1..b /\ k \in 1..b + 2  BY ONLY k <= b, <1>1, k \in 1..a - 1
  <2> QED  BY ONLY <1>3, <1>10, <1>11, <2>1
<1>13. b + 2 <= a  BY ONLY <1>1, <1>12, k \in 1..a - 1
<1>14. i[b + 1] = "\r" /\ i[b + 2] = "\n" /\ \A j \in 1..b : i[j] # "\r"
  <2>1. \A j \in 1..b + 2 : j \in 1..a  BY ONLY <1>1, <1>13
  <2>2. \A j \in 1..b + 2 : i[j] = p[j]  BY ONLY <1>10, <2>1
  <2>3. b + 1 \in 1..b + 2 /\ b + 2 \in 1..b + 2 /\ \A j \in 1..b : j \in 1..b + 2  BY ONLY <1>1
  <2> QED  BY ONLY <1>9, <1>11, <2>2, <2>3
<1>15. LineEnd(i, 1) = b + 1
  <2> DEFINE e == b + 1
  <2>1. e \in Nat /\ 1 <= e /\ e + 1 <= Len(i) /\ e + 1 = b + 2  BY ONLY <1>1, <1>13, a = Len(i) DEF a
  <2>2. i[e] = "\r" /\ i[e + 1] = "\n"  BY <1>14, <2>1
  <2>3. \A j \in Nat : 1 <= j /\ j < e => i[j] # "\r"  BY <1>1, <1>14
  <2> HIDE DEF e
  <2>4. LineEnd(i, 1) = e  BY ONLY <2>1, <2>2, <2>3, LineEndAt, i \in Seq(S)
  <2> QED  BY <2>4 DEF e
<1>16. /\ SubSeq(i, b + 3, a) \in Seq(S)
       /\ SubSeq(i, b + 3, a) \o n = r
  <2>1. SubSeq(i, Len(p) + 1, Len(i)) \in Seq(S) /\ SubSeq(i, Len(p) + 1, Len(i)) \o n = r
    <3>1. Len(i) >= Len(p)  BY ONLY <1>1, <1>4, <1>13, a = Len(i) DEF a
    <3>2. p \in Seq(S) /\ i \in Seq(S) /\ n \in Seq(S) /\ r \in Seq(S) /\ i \o n = p \o r
      BY <1>4, <1>5
    <3>3. LeavesRest(S, i, n)  BY RestIsLeft
    <3> QED  BY ONLY <3>1, <3>2, <3>3 DEF LeavesRest
  <2>2. Len(p) + 1 = b + 3 /\ Len(i) = a  BY ONLY <1>1, <1>4, a = Len(i) DEF a
  <2> QED  BY ONLY <2>1, <2>2
<1>17. SubSeq(i, 1, b) = l
  <2>1. At(i, 0, l)
    <3>1. \A j \in 1..b : i[j] = l[j]
      <4>1. \A j \in 1..b : j \in 1..a /\ j \in 1..b + 2  BY ONLY <1>1, <1>13
      <4> QED  BY ONLY <4>1, <1>8, <1>10
    <3>2. \A j \in 1..Len(l) : i[0 + j] = l[j]  BY <3>1 DEF b
    <3>3. 0 + Len(l) <= Len(i) /\ Len(l) \in Nat  BY <1>1, <1>13 DEF a, b
    <3> QED  BY ONLY <3>2, <3>3 DEF At
  <2>2. SubSeq(i, 0 + 1, 0 + Len(l)) = l  BY ONLY <2>1, PartAt, i \in Seq(S), l \in Seq(S)
  <2>3. 0 + 1 = 1 /\ 0 + Len(l) = b  BY ONLY <1>1 DEF b
  <2> QED  BY ONLY <2>2, <2>3
<1>18. LineEnd(i, 1) - 1 = b /\ LineEnd(i, 1) + 2 = b + 3  BY ONLY <1>1, <1>15
<1> QED  BY ONLY <1>16, <1>17, <1>18 DEF a

LEMMA FrontJoined ==
  ASSUME NEW S, NEW L \in Seq(S), NEW i \in 1..Len(L)
  PROVE  <<L[i]>> \o SubSeq(L, i + 1, Len(L)) = SubSeq(L, i, Len(L))
<1> DEFINE n == Len(L)
           t == SubSeq(L, i + 1, n)
           u == SubSeq(L, i, n)
           v == <<L[i]>> \o t
<1>1. n \in Nat /\ L[i] \in S  OBVIOUS
<1>2. t \in Seq(S) /\ Len(t) = n - i /\ \A j \in 1..n - i : t[j] = L[i + j]  BY <1>1
<1>3. u \in Seq(S) /\ Len(u) = n - i + 1 /\ \A j \in 1..n - i + 1 : u[j] = L[i + j - 1]  BY <1>1
<1> HIDE DEF t, u
<1>4. v \in Seq(S) /\ Len(v) = n - i + 1 /\ v[1] = L[i] /\ \A j \in 1..n - i : v[j + 1] = t[j]
  BY <1>1, <1>2
<1> HIDE DEF v, n
<1>5. ASSUME NEW j \in 1..n - i + 1 PROVE v[j] = u[j]
  <2>1. CASE j = 1  BY <1>1, <1>3, <1>4, <2>1
  <2>2. CASE j # 1
    <3> DEFINE m == j - 1
    <3>1. m \in 1..n - i /\ j = m + 1 /\ i + j - 1 = i + m  BY <1>1, <2>2
    <3> HIDE DEF m
    <3> QED  BY <1>2, <1>3, <1>4, <3>1
  <2> QED  BY <2>1, <2>2
<1>6. v = u  BY <1>3, <1>4, <1>5
<1> QED  BY <1>6 DEF n, t, u, v

(* Lines that stand one after the other in a text, an empty one after the  *)
(* last, are what parse_data finds, whatever follows.                      *)
LinesAt(s, L, o) ==
  /\ o[1] = 0
  /\ \A i \in 1..Len(L) :
       /\ At(s, o[i], L[i]) /\ At(s, o[i] + Len(L[i]), NewLine)
       /\ o[i + 1] = o[i] + Len(L[i]) + 2
       /\ Len(L[i]) > 0 /\ \A j \in 1..Len(L[i]) : L[i][j] # "\r"
  /\ At(s, o[Len(L) + 1], NewLine)

LEMMA LinesFound ==
  ASSUME NEW S, NEW s \in Seq(S), NEW L \in Seq(Seq(S)), NEW o, LinesAt(s, L, o)
  PROVE  Lines(s) = L
<1> DEFINE n == Len(L)
           M == Len(s) + 3
           Stop == {b \in 1..M : LineEnd(s, b) <= b}
           item == [b \in 1..M |-> SubSeq(s, b, LineEnd(s, b) - 1)]
           next == [b \in 1..M |-> LineEnd(s, b) + 2]
           E(f, b) == IF b \in Stop THEN <<>> ELSE <<item[b]>> \o f[next[b]]
           D(f, b) == IF LineEnd(s, b) <= b THEN <<>>
                      ELSE <<SubSeq(s, b, LineEnd(s, b) - 1)>> \o f[LineEnd(s, b) + 2]
           from == CHOOSE f : f = [b \in 1..M |-> D(f, b)]
<1>0. n \in Nat /\ Len(s) \in Nat /\ M \in Nat /\ \A i \in 1..n : L[i] \in Seq(S) /\ Len(L[i]) \in Nat
  OBVIOUS
<1>1. Lines(s) = from[1]  BY DEF Lines
<1>2. from = [b \in 1..M |-> D(from, b)]
  <2>1. \A b \in 1..M : b \notin Stop => next[b] \in b + 1..M
    <3> SUFFICES ASSUME NEW b \in 1..M, ~(LineEnd(s, b) <= b) PROVE LineEnd(s, b) + 2 \in b + 1..M
      OBVIOUS
    <3>1. b \in Nat \ {0}  BY <1>0
    <3>2. LineEnd(s, b) \in Nat /\ LineEnd(s, b) <= Len(s) + 1  BY <3>1, LineEndWithin
    <3> QED  BY <1>0, <3>1, <3>2
  <2>2. \A f : [b \in 1..M |-> E(f, b)] = [b \in 1..M |-> D(f, b)]
    <3>1. \A f : \A b \in 1..M : E(f, b) = D(f, b)  OBVIOUS
    <3> HIDE DEF E, D, M
    <3> QED  BY <3>1
  <2>3. \E f : f = [b \in 1..M |-> E(f, b)]
    <3> HIDE DEF Stop, item, next, M
    <3>1. \E f : Chained(f, M, Stop, item, next)  BY <1>0, <2>1, ChainExists
    <3> QED  BY <3>1, Zenon DEF Chained
  <2> HIDE DEF E, D, M
  <2>4. \E f : f = [b \in 1..M |-> D(f, b)]  BY <2>2, <2>3
  <2> QED  BY <2>4
<1> HIDE DEF from, Stop, item, next, E
<1>3. \A b \in 1..M : from[b] = D(from, b)  BY <1>2
<1>4. NewLine[1] = "\r" /\ NewLine[2] = "\n" /\ Len(NewLine) = 2  BY DEF NewLine
<1> HIDE DEF n, M
<1>5. ASSUME NEW i \in 1..n
      PROVE  /\ o[i] \in Nat /\ o[i] + 1 \in 1..M
             /\ from[o[i] + 1] = <<L[i]>> \o from[o[i + 1] + 1]
  <2> DEFINE b == o[i] + 1
             e == o[i] + Len(L[i]) + 1
  <2>1. /\ At(s, o[i], L[i]) /\ At(s, o[i] + Len(L[i]), NewLine)
        /\ o[i + 1] = o[i] + Len(L[i]) + 2
        /\ Len(L[i]) > 0 /\ \A j \in 1..Len(L[i]) : L[i][j] # "\r"
    BY DEF LinesAt, n
  <2>2. o[i] \in Nat /\ Len(L[i]) \in Nat /\ o[i] + Len(L[i]) + 2 <= Len(s)
        /\ \A j \in 1..Len(L[i]) : s[o[i] + j] = L[i][j]
    BY <1>0, <1>4, <2>1 DEF At
  <2>3. s[o[i] + Len(L[i]) + 1] = "\r" /\ s[o[i] + Len(L[i]) + 2] = "\n"
    <3>1. \A j \in 1..2 : s[o[i] + Len(L[i]) + j] = NewLine[j]  BY <1>4, <2>1 DEF At
    <3> QED  BY <1>4, <3>1
  <2>4. \A j \in Nat : b <= j /\ j < e => s[j] # "\r"
    <3> SUFFICES ASSUME NEW j \in Nat, b <= j, j < e PROVE s[j] # "\r"  OBVIOUS
    <3> DEFINE k == j - o[i]
    <3>1. k \in 1..Len(L[i]) /\ j = o[i] + k
      <4> DEFINE l == Len(L[i])
                 x == o[i]
      <4>1. x \in Nat /\ l \in Nat /\ x + 1 <= j /\ j < x + l + 1  BY ONLY <2>2, b <= j, j < e
      <4> HIDE DEF x, l
      <4>2. j - x \in 1..l /\ j = x + (j - x)  BY ONLY <4>1, j \in Nat
      <4> QED  BY ONLY <4>2 DEF x, l
    <3> HIDE DEF k
    <3> QED  BY ONLY <2>1, <2>2, <3>1
  <2>5. b \in Nat \ {0} /\ e \in Nat /\ b < e /\ e + 1 <= Len(s) /\ s[e] = "\r" /\ s[e + 1] = "\n"
        /\ e - 1 = o[i] + Len(L[i]) /\ e + 2 = o[i + 1] + 1 /\ b \in 1..M
    <3>1. b \in Nat \ {0} /\ e \in Nat /\ b < e /\ e + 1 <= Len(s)
      <4> DEFINE l == Len(L[i])
                 k == o[i]
                 m == Len(s)
      <4>1. k \in Nat /\ l \in Nat /\ l > 0 /\ m \in Nat /\ k + l + 2 <= m  BY <1>0, <2>1, <2>2
      <4> HIDE DEF l, k, m
      <4>2. k + 1 \in Nat \ {0} /\ k + l + 1 \in Nat /\ k + 1 < k + l + 1 /\ k + l + 1 + 1 <= m
        BY <4>1
      <4> QED  BY <4>2 DEF l, k, m
    <3>2. e - 1 = o[i] + Len(L[i]) /\ e + 2 = o[i + 1] + 1  BY <1>0, <2>1, <2>2
    <3>3. e + 1 = o[i] + Len(L[i]) + 2  BY <2>2
    <3>4. b \in 1..M  BY <1>0, <3>1 DEF M
    <3> QED  BY <2>3, <3>1, <3>2, <3>3, <3>4
  <2>6. SubSeq(s, b, e - 1) = L[i]
    <3>1. SubSeq(s, o[i] + 1, o[i] + Len(L[i])) = L[i]  BY <1>0, <2>1, PartAt
    <3> QED  BY <2>5, <3>1
  <2> HIDE DEF b, e
  <2>7. LineEnd(s, b) = e  BY <2>4, <2>5, LineEndAt
  <2>8. from[b] = D(from, b)  BY <1>3, <2>5
  <2>9. from[b] = <<L[i]>> \o from[o[i + 1] + 1]
    <3>1. ~(LineEnd(s, b) <= b)  BY <2>5, <2>7
    <3>2. from[b] = <<SubSeq(s, b, LineEnd(s, b) - 1)>> \o from[LineEnd(s, b) + 2]
      BY <2>8, <3>1, Zenon
    <3> HIDE DEF D
    <3> QED  BY <2>5, <2>6, <2>7, <3>2
  <2> QED  BY <2>2, <2>5, <2>9 DEF b
<1>6. o[n + 1] + 1 \in 1..M /\ from[o[n + 1] + 1] = <<>>
  <2> DEFINE b == o[n + 1] + 1
  <2>1. At(s, o[n + 1], NewLine)  BY DEF LinesAt, n
  <2>2. o[n + 1] \in Nat /\ o[n + 1] + 2 <= Len(s) /\ \A j \in 1..2 : s[o[n + 1] + j] = NewLine[j]
    BY <1>4, <2>1 DEF At
  <2>3. s[b] = "\r" /\ s[b + 1] = "\n" /\ b \in Nat \ {0} /\ b + 1 <= Len(s) /\ b \in 1..M
    <3>1. s[o[n + 1] + 1] = "\r" /\ s[o[n + 1] + 2] = "\n"  BY <1>4, <2>2
    <3> QED  BY <1>0, <2>2, <3>1 DEF M
  <2> HIDE DEF b
  <2>4. LineEnd(s, b) = b
    <3>1. \A j \in Nat : b <= j /\ j < b => s[j] # "\r"  BY <2>3
    <3> QED  BY <2>3, <3>1, LineEndAt
  <2>5. from[b] = D(from, b)  BY <1>3, <2>3
  <2>6. from[b] = <<>>  BY <2>3, <2>4, <2>5
  <2> QED  BY <2>3, <2>6 DEF b
<1> HIDE DEF D
<1> DEFINE T == {k \in Nat : k <= n => from[o[(n - k) + 1] + 1] = SubSeq(L, (n - k) + 1, n)}
<1>7. 0 \in T
  <2>1. SubSeq(L, n + 1, n) = <<>>  BY <1>0 DEF n
  <2>2. n - 0 = n  BY <1>0
  <2> QED  BY <1>6, <2>1, <2>2
<1>8. ASSUME NEW k \in Nat, k \in T PROVE k + 1 \in T
  <2> SUFFICES ASSUME k + 1 <= n
               PROVE  from[o[(n - (k + 1)) + 1] + 1] = SubSeq(L, (n - (k + 1)) + 1, n)
    OBVIOUS
  <2> DEFINE i == (n - (k + 1)) + 1
  <2>1. i \in 1..n /\ (n - k) + 1 = i + 1 /\ k <= n  BY <1>0
  <2>2. from[o[(n - k) + 1] + 1] = SubSeq(L, (n - k) + 1, n)  BY <1>8, <2>1
  <2> HIDE DEF i
  <2>3. from[o[i + 1] + 1] = SubSeq(L, i + 1, n)  BY <2>1, <2>2
  <2>4. <<L[i]>> \o SubSeq(L, i + 1, n) = SubSeq(L, i, n)  BY <2>1, FrontJoined DEF n
  <2>5. from[o[i] + 1] = SubSeq(L, i, n)  BY <1>5, <2>1, <2>3, <2>4
  <2> QED  BY <2>5 DEF i
<1> HIDE DEF T
<1>9. n \in T  BY <1>0, <1>7, <1>8, InductionOnNat
<1>10. from[o[1] + 1] = SubSeq(L, 1, n)
  <2>1. (n - n) + 1 = 1 /\ n <= n  BY <1>0
  <2>2. n <= n => from[o[(n - n) + 1] + 1] = SubSeq(L, (n - n) + 1, n)  BY <1>9 DEF T
  <2> QED  BY <2>1, <2>2
<1>11. o[1] + 1 = 1  BY DEF LinesAt
<1>12. SubSeq(L, 1, n) = L  BY DEF n
<1> QED  BY <1>1, <1>10, <1>11, <1>12


LEMMA AtWithin ==
  ASSUME NEW s, NEW o, NEW x, NEW p, NEW y, At(s, o, x), At(x, p, y), Len(s) \in Nat
  PROVE  At(s, o + p, y)
<1>1. o \in Nat /\ p \in Nat /\ Len(x) \in Nat /\ Len(y) \in Nat
      /\ o + Len(x) <= Len(s) /\ p + Len(y) <= Len(x)
  BY DEF At
<1>2. ASSUME NEW i \in 1..Len(y) PROVE s[(o + p) + i] = y[i]
  <2>1. p + i \in 1..Len(x) /\ o + (p + i) = (o + p) + i  BY <1>1
  <2>2. s[o + (p + i)] = x[p + i]  BY <2>1 DEF At
  <2>3. x[p + i] = y[i]  BY DEF At
  <2> QED  BY <2>1, <2>2, <2>3
<1>3. o + p \in Nat /\ (o + p) + Len(y) <= Len(s)  BY <1>1
<1> QED  BY <1>1, <1>2, <1>3 DEF At

(* A line of three parts, the first two of them without a space, is taken  *)
(* apart into these.                                                       *)
LEMMA PartsFound ==
  ASSUME NEW S, NEW a \in Seq(S), NEW b \in Seq(S), NEW c \in Seq(S), Space \in S,
         \A i \in 1..Len(a) : a[i] # Space, \A i \in 1..Len(b) : b[i] # Space
  PROVE  Parts(a \o <<Space>> \o b \o <<Space>> \o c) = <<a, b, c>>
<1> DEFINE sp == <<Space>>
           s1 == a \o sp
           s2 == s1 \o b
           s3 == s2 \o sp
           s == s3 \o c
           l == Len(a)
           m == Len(b)
           n == Len(c)
<1>1. sp \in Seq(S) /\ Len(sp) = 1 /\ sp[1] = Space  OBVIOUS
<1> HIDE DEF sp
<1>2. s1 \in Seq(S) /\ Len(s1) = l + 1 /\ At(s1, 0, a) /\ At(s1, l, sp) /\ l \in Nat
  BY <1>1, Joined
<1> HIDE DEF s1
<1>3. s2 \in Seq(S) /\ Len(s2) = l + 1 + m /\ At(s2, 0, a) /\ At(s2, l, sp) /\ At(s2, l + 1, b)
      /\ m \in Nat
  <2>1. s1 \in Seq(S) /\ b \in Seq(S) /\ sp \in Seq(S)  BY <1>1, <1>2
  <2>2. s2 \in Seq(S) /\ Len(s2) = Len(s1) + m /\ m \in Nat /\ At(s2, Len(s1), b)
    BY ONLY <2>1, Joined
  <2>3. At(s2, 0, a)  BY <1>2, <2>1, AtJoined
  <2>4. At(s2, l, sp)  BY <1>2, <2>1, AtJoined
  <2>5. Len(s1) = l + 1  BY <1>2
  <2> QED  BY <2>2, <2>3, <2>4, <2>5
<1> HIDE DEF s2
<1>4. s3 \in Seq(S) /\ Len(s3) = l + 1 + m + 1 /\ At(s3, 0, a) /\ At(s3, l, sp)
      /\ At(s3, l + 1, b) /\ At(s3, l + 1 + m, sp)
  <2> DEFINE k == Len(s2)
  <2>1. s3 \in Seq(S) /\ Len(s3) = k + Len(sp) /\ At(s3, k, sp)  BY <1>1, <1>3, Joined
  <2>3. At(s3, 0, a)  BY <1>1, <1>3, AtJoined
  <2>4. At(s3, l, sp)  BY <1>1, <1>3, AtJoined
  <2>5. At(s3, l + 1, b)  BY <1>1, <1>3, AtJoined
  <2>2. k = l + 1 + m  BY <1>3
  <2> HIDE DEF k
  <2> QED  BY <1>1, <2>1, <2>2, <2>3, <2>4, <2>5
<1> HIDE DEF s3
<1>5. s \in Seq(S) /\ Len(s) = l + m + 2 + n /\ At(s, 0, a) /\ At(s, l, sp)
      /\ At(s, l + 1, b) /\ At(s, l + 1 + m, sp) /\ At(s, l + m + 2, c) /\ n \in Nat
  <2>1. Len(s3) = l + m + 2  BY <1>2, <1>3, <1>4
  <2>2. s \in Seq(S) /\ Len(s) = Len(s3) + n /\ At(s, 0, a) /\ At(s, l, sp)
        /\ At(s, l + 1, b) /\ At(s, l + 1 + m, sp) /\ At(s, Len(s3), c) /\ n \in Nat
    BY <1>1, <1>4, Joined, AtJoined
  <2> QED  BY <2>1, <2>2
<1> HIDE DEF s
<1>6. (\A i \in 1..l : s[i] = a[i]) /\ s[l + 1] = Space /\ s[l + m + 2] = Space
      /\ \A i \in 1..m : s[(l + 1) + i] = b[i]
  <2>1. \A i \in 1..l : s[0 + i] = a[i]  BY <1>5 DEF At
  <2>2. s[l + 1] = Space  BY <1>1, <1>5 DEF At
  <2>3. s[(l + 1 + m) + 1] = Space  BY <1>1, <1>5 DEF At
  <2>4. (l + 1 + m) + 1 = l + m + 2  BY <1>2, <1>3
  <2>5. \A i \in 1..m : s[(l + 1) + i] = b[i]  BY <1>5 DEF At
  <2> QED  BY <1>2, <2>1, <2>2, <2>3, <2>4, <2>5
<1> HIDE DEF l, m, n
<1>7. Find(s, {Space}, 1) = l + 1
  <2> DEFINE e == l + 1
  <2>1. e \in Nat /\ 1 <= e /\ e <= Len(s) + 1 /\ s[e] \in {Space}
    <3>1. l \in Nat /\ m \in Nat /\ n \in Nat /\ Len(s) = l + m + 2 + n  BY <1>2, <1>3, <1>5
    <3>2. s[e] = Space  BY <1>6
    <3> QED  BY ONLY <3>1, <3>2
  <2>2. ASSUME NEW i \in Nat, 1 <= i, i < e PROVE s[i] \notin {Space}
    <3>1. i \in 1..l  BY <1>2, <2>2
    <3> QED  BY <1>6, <3>1 DEF l
  <2> DEFINE f == 1
             C == {Space}
  <2>3. f \in Nat \ {0} /\ f <= e /\ \A i \in Nat : f <= i /\ i < e => s[i] \notin C
    BY <2>1, <2>2
  <2> HIDE DEF e, f, C
  <2>4. Find(s, C, f) = e  BY <1>5, <2>1, <2>3, FindsAt DEF C
  <2> QED  BY <2>4 DEF e, f, C
<1>8. Find(s, {Space}, l + 2) = l + m + 2
  <2> DEFINE e == l + m + 2
             f == l + 2
  <2>1. f \in Nat \ {0} /\ e \in Nat /\ f <= e /\ e <= Len(s) + 1 /\ s[e] \in {Space}
    BY <1>2, <1>3, <1>5, <1>6
  <2>2. ASSUME NEW i \in Nat, f <= i, i < e PROVE s[i] \notin {Space}
    <3> DEFINE j == i - (l + 1)
    <3>1. j \in 1..m /\ i = (l + 1) + j  BY <1>2, <1>3, <2>2
    <3> HIDE DEF j
    <3> QED  BY <1>6, <3>1 DEF m
  <2> HIDE DEF e, f
  <2>3. Find(s, {Space}, f) = e  BY <1>5, <2>1, <2>2, FindsAt
  <2> QED  BY <2>3 DEF e, f
<1>9. SubSeq(s, 1, l) = a
  <2>1. SubSeq(s, 0 + 1, 0 + Len(a)) = a  BY <1>5, PartAt
  <2> QED  BY <1>2, <2>1 DEF l
<1>10. SubSeq(s, l + 2, l + m + 1) = b
  <2>1. SubSeq(s, (l + 1) + 1, (l + 1) + Len(b)) = b  BY <1>5, PartAt
  <2>2. (l + 1) + 1 = l + 2 /\ (l + 1) + m = l + m + 1  BY <1>2, <1>3
  <2> QED  BY <2>1, <2>2 DEF m
<1>11. SubSeq(s, l + m + 3, Len(s)) = c
  <2>1. SubSeq(s, (l + m + 2) + 1, (l + m + 2) + Len(c)) = c  BY <1>5, PartAt
  <2>2. (l + m + 2) + 1 = l + m + 3 /\ (l + m + 2) + n = Len(s)  BY <1>2, <1>3, <1>5
  <2> QED  BY <2>1, <2>2 DEF n
<1>12. (l + 1) - 1 = l /\ (l + 1) + 1 = l + 2 /\ (l + m + 2) - 1 = l + m + 1
       /\ (l + m + 2) + 1 = l + m + 3
  BY <1>2, <1>3
<1>13. Parts(s) = <<SubSeq(s, 1, l), SubSeq(s, l + 2, l + m + 1), SubSeq(s, l + m + 3, Len(s))>>
  BY <1>7, <1>8, <1>12, Zenon DEF Parts
<1> QED  BY <1>9, <1>10, <1>11, <1>13 DEF s, s3, s2, s1, sp

LEMMA SpacesAreWhite == {Space, "\r", "\n"} \subseteq WhiteSpace
BY DEF WhiteSpace

LEMMA TrimKeeps ==
  ASSUME NEW S, NEW v \in Seq(S), Space \in S, Trim(v) = v
  PROVE  Trim(<<Space>> \o v) = v
<1> DEFINE sp == <<Space>>
           w == sp \o v
           n == Len(v)
           T == {i \in 1..Len(v) : v[i] \notin WhiteSpace}
           U == {i \in 1..Len(w) : w[i] \notin WhiteSpace}
<1>0. Space \in WhiteSpace  BY SpacesAreWhite
<1>1. sp \in Seq(S) /\ Len(sp) = 1 /\ sp[1] = Space /\ n \in Nat  OBVIOUS
<1>2. Trim(v) = IF T = {} THEN <<>> ELSE SubSeq(v, Min(T), Max(T))  BY DEF Trim
<1>3. Trim(w) = IF U = {} THEN <<>> ELSE SubSeq(w, Min(U), Max(U))  BY DEF Trim
<1> HIDE DEF sp
<1>4. w \in Seq(S) /\ Len(w) = n + 1 /\ At(w, 1, v) /\ At(w, 0, sp)
  <2> DEFINE k == Len(sp)
  <2>1. w \in Seq(S) /\ Len(w) = k + n /\ At(w, k, v) /\ At(w, 0, sp)  BY <1>1, Joined
  <2>2. k = 1  BY <1>1
  <2> HIDE DEF k
  <2> QED  BY <1>1, <2>1, <2>2
<1> HIDE DEF w
<1>5. w[1] = Space /\ \A i \in 1..n : w[1 + i] = v[i]
  <2>1. w[0 + 1] = Space  BY <1>1, <1>4 DEF At
  <2> QED  BY <1>4, <2>1 DEF At
<1>6. CASE T = {}
  <2>1. v = <<>> /\ n = 0
    <3>1. v = <<>>  BY <1>2, <1>6
    <3> QED  BY <3>1
  <2>2. U = {}  BY <1>0, <1>4, <1>5, <2>1
  <2> QED  BY <1>3, <2>1, <2>2 DEF w, sp
<1>7. CASE T # {}
  <2> DEFINE mn == Min(T)
             mx == Max(T)
  <2>1. T \subseteq Nat /\ T \subseteq 0..n  BY <1>1
  <2>2. mn \in T /\ mx \in T /\ \A y \in T : mn <= y /\ y <= mx
    BY <1>1, <1>7, <2>1, LeastPlace, GreatestPlace
  <2> HIDE DEF mn, mx
  <2>3. mn \in 1..n /\ mx \in 1..n /\ mn <= mx  BY <2>2
  <2>4. v = SubSeq(v, mn, mx)  BY <1>2, <1>7 DEF mn, mx
  <2>5. n = mx - mn + 1
    <3>1. Len(SubSeq(v, mn, mx)) = mx - mn + 1  BY <1>1, <2>3
    <3> QED  BY <2>4, <3>1
  <2>6. mn = 1 /\ mx = n  BY <1>1, <2>3, <2>5
  <2>7. v[1] \notin WhiteSpace /\ v[n] \notin WhiteSpace /\ n \in 1..n /\ 1 \in 1..n  BY <2>2, <2>3, <2>6
  <2>8. w[2] \notin WhiteSpace /\ w[n + 1] \notin WhiteSpace
    <3>1. w[1 + 1] = v[1] /\ w[1 + n] = v[n]  BY <1>5, <2>7
    <3>2. 1 + n = n + 1  BY <1>1
    <3> QED  BY <2>7, <3>1, <3>2
  <2> DEFINE k == n + 1
  <2>9. 2 \in U /\ k \in U /\ U \subseteq Nat /\ U \subseteq Int
    BY <1>1, <1>4, <2>7, <2>8
  <2>10. \A y \in U : 2 <= y /\ y <= k  BY <1>0, <1>4, <1>5
  <2> HIDE DEF U, k
  <2>11. Min(U) = 2  BY <2>9, <2>10, LeastUnique
  <2>12. Max(U) = k  BY <2>9, <2>10, GreatestUnique
  <2>13. SubSeq(w, 1 + 1, 1 + Len(v)) = v  BY <1>4, PartAt
  <2>14. 1 + Len(v) = k  BY <1>1 DEF k
  <2>15. Trim(w) = SubSeq(w, 2, k)
    <3>1. U # {}  BY <2>9
    <3>2. Trim(w) = SubSeq(w, Min(U), Max(U))  BY <1>3, <3>1, Zenon
    <3> QED  BY <2>11, <2>12, <3>2
  <2>16. Trim(w) = v  BY <2>13, <2>14, <2>15
  <2> QED  BY <2>16 DEF w, sp
<1> QED  BY <1>6, <1>7

(* A header as it is printed is read as itself.                            *)
HeaderText(h) == h.key \o <<":", Space>> \o h.value

LEMMA HeaderLineRead ==
  ASSUME NEW S, {":", Space} \subseteq S, NEW h \in [key : Seq(S), value : Seq(S)],
         \A i \in 1..Len(h.key) : h.key[i] # ":",
         Normalise(h.key) = h.key, Trim(h.value) = h.value
  PROVE  HeaderText(h) \in Seq(S) /\ ParseHeaderLine(HeaderText(h)) = h
<1> DEFINE k == h.key
           v == h.value
           n == Len(k)
           sep == <<":", Space>>
           a == k \o sep
           s == a \o v
           t == <<Space>> \o v
<1>0. k \in Seq(S) /\ v \in Seq(S) /\ n \in Nat /\ Len(v) \in Nat /\ h = [key |-> k, value |-> v]
  OBVIOUS
<1>1. sep \in Seq(S) /\ Len(sep) = 2 /\ sep[1] = ":" /\ sep[2] = Space  OBVIOUS
<1>2. \A i \in 1..n : k[i] # ":"  OBVIOUS
<1>3. t \in Seq(S) /\ Len(t) = Len(v) + 1 /\ t[1] = Space /\ \A i \in 1..Len(v) : t[i + 1] = v[i]
  BY <1>0
<1>4. Trim(t) = v  BY <1>0, TrimKeeps
<1>5. Trim(v) = v /\ Normalise(k) = k  OBVIOUS
<1> HIDE DEF sep, k, v, t
<1>6. a \in Seq(S) /\ Len(a) = n + 2 /\ At(a, 0, k) /\ At(a, n, sep)
  <2>1. k \in Seq(S) /\ sep \in Seq(S)  BY <1>0, <1>1
  <2>2. a \in Seq(S) /\ Len(a) = n + Len(sep) /\ At(a, 0, k) /\ At(a, n, sep)
    BY ONLY <2>1, Joined
  <2> QED  BY <1>1, <2>2
<1> HIDE DEF a
<1>7. s \in Seq(S) /\ Len(s) = n + 2 + Len(v) /\ At(s, 0, k) /\ At(s, n, sep) /\ At(s, n + 2, v)
  <2> DEFINE l == Len(a)
  <2>0. a \in Seq(S) /\ v \in Seq(S)  BY <1>0, <1>6
  <2>1. s \in Seq(S) /\ Len(s) = l + Len(v) /\ At(s, l, v)  BY ONLY <2>0, Joined
  <2>2. At(s, 0, k)  BY <1>0, <1>6, AtJoined
  <2>3. At(s, n, sep)  BY <1>0, <1>1, <1>6, AtJoined
  <2>4. l = n + 2  BY <1>6
  <2> HIDE DEF l
  <2> QED  BY <2>1, <2>2, <2>3, <2>4
<1> HIDE DEF s
<1>8. s[n + 1] = ":" /\ s[n + 2] = Space /\ (\A i \in 1..n : s[i] = k[i])
      /\ \A i \in 1..Len(v) : s[(n + 2) + i] = v[i]
  <2>1. \A i \in 1..n : s[0 + i] = k[i]  BY <1>7 DEF At
  <2>2. \A i \in 1..2 : s[n + i] = sep[i]  BY <1>1, <1>7 DEF At
  <2>3. s[n + 1] = ":" /\ s[n + 2] = Space  BY <1>1, <2>2
  <2>4. \A i \in 1..Len(v) : s[(n + 2) + i] = v[i]  BY <1>7 DEF At
  <2> QED  BY <1>0, <2>1, <2>3, <2>4
<1>9. Find(s, {":"}, 1) = n + 1
  <2> DEFINE e == n + 1
             f == 1
             C == {":"}
  <2>1. e \in Nat /\ f \in Nat \ {0} /\ f <= e /\ e <= Len(s) + 1 /\ s[e] \in C
    BY <1>0, <1>7, <1>8
  <2>2. ASSUME NEW i \in Nat, f <= i, i < e PROVE s[i] \notin C
    <3>1. i \in 1..n  BY <1>0, <2>2
    <3> QED  BY <1>2, <1>8, <3>1
  <2> HIDE DEF e, f, C
  <2>3. Find(s, C, f) = e  BY <1>7, <2>1, <2>2, FindsAt
  <2> QED  BY <2>3 DEF e, f, C
<1>10. SubSeq(s, 1, n) = k
  <2>1. SubSeq(s, 0 + 1, 0 + Len(k)) = k  BY <1>0, <1>7, PartAt
  <2> QED  BY <1>0, <2>1
<1>11. SubSeq(s, n + 2, Len(s)) = t
  <2> DEFINE u == SubSeq(s, n + 2, Len(s))
  <2>1. u \in Seq(S) /\ Len(u) = Len(v) + 1 /\ \A i \in 1..Len(v) + 1 : u[i] = s[n + 1 + i]
    BY <1>0, <1>7
  <2> HIDE DEF u
  <2>2. ASSUME NEW i \in 1..Len(v) + 1 PROVE u[i] = t[i]
    <3>1. CASE i = 1  BY <1>0, <1>3, <1>8, <2>1, <3>1
    <3>2. CASE i # 1
      <4> DEFINE j == i - 1
      <4>1. j \in 1..Len(v) /\ i = j + 1 /\ n + 1 + i = (n + 2) + j  BY <1>0, <3>2
      <4> HIDE DEF j
      <4> QED  BY <1>3, <1>8, <2>1, <4>1
    <3> QED  BY <3>1, <3>2
  <2>3. u = t  BY <1>3, <2>1, <2>2
  <2> QED  BY <2>3 DEF u
<1>12. (n + 1) - 1 = n /\ (n + 1) + 1 = n + 2  BY <1>0
<1>13. ParseHeaderLine(s) = [key |-> Normalise(k), value |-> v]
  <2>1. ParseHeaderLine(s) = Header(SubSeq(s, 1, n), Trim(SubSeq(s, n + 2, Len(s))))
    BY <1>9, <1>12 DEF ParseHeaderLine
  <2> QED  BY <1>4, <1>10, <1>11, <2>1 DEF Header
<1>14. HeaderText(h) = s  BY DEF HeaderText, s, a, sep, k, v
<1> QED  BY <1>0, <1>5, <1>7, <1>13, <1>14

(* The headers that can be printed and read again: names in their normal   *)
(* form and without a colon, values without a space at either end, and no  *)
(* line end in any of them.                                                *)
Printable(S) ==
  {h \in [key : Seq(S), value : Seq(S)] :
     /\ \A i \in 1..Len(h.key) : h.key[i] \notin {":", "\r"}
     /\ \A i \in 1..Len(h.value) : h.value[i] # "\r"
     /\ Normalise(h.key) = h.key /\ Trim(h.value) = h.value}

LEMMA HeaderTextIs ==
  ASSUME NEW S, {":", Space} \subseteq S, NEW h \in Printable(S)
  PROVE  /\ HeaderText(h) \in Seq(S) /\ Len(HeaderText(h)) > 0
         /\ \A i \in 1..Len(HeaderText(h)) : HeaderText(h)[i] # "\r"
         /\ ParseHeaderLine(HeaderText(h)) = h
<1> DEFINE k == h.key
           v == h.value
           sep == <<":", Space>>
           a == k \o sep
           s == a \o v
<1>1. h \in [key : Seq(S), value : Seq(S)] /\ Normalise(h.key) = h.key /\ Trim(h.value) = h.value
      /\ (\A i \in 1..Len(h.key) : h.key[i] \notin {":", "\r"})
      /\ \A i \in 1..Len(h.value) : h.value[i] # "\r"
  BY DEF Printable
<1>2. HeaderText(h) \in Seq(S) /\ ParseHeaderLine(HeaderText(h)) = h  BY <1>1, HeaderLineRead
<1>3. k \in Seq(S) /\ v \in Seq(S) /\ (\A i \in 1..Len(k) : k[i] # "\r")
      /\ \A i \in 1..Len(v) : v[i] # "\r"
  BY <1>1
<1>4. ":" # "\r" /\ Space # "\r"  BY Zenon DEF Space
<1>5. sep \in Seq(S) /\ Len(sep) = 2 /\ sep[1] # "\r" /\ sep[2] # "\r"  BY <1>4
<1>6. HeaderText(h) = s  BY DEF HeaderText
<1> HIDE DEF sep, k, v
<1>7. a \in Seq(S) /\ Len(a) = Len(k) + 2 /\ \A i \in 1..Len(a) : a[i] # "\r"
  <2> DEFINE m == Len(k)
  <2>1. a \in Seq(S) /\ Len(a) = m + 2 /\ m \in Nat
        /\ (\A i \in 1..m : a[i] = k[i]) /\ a[m + 1] = sep[1] /\ a[m + 2] = sep[2]
    <3>1. a \in Seq(S) /\ Len(a) = m + Len(sep) /\ m \in Nat /\ At(a, 0, k) /\ At(a, m, sep)
      BY <1>3, <1>5, Joined
    <3> HIDE DEF a, m
    <3>2. \A i \in 1..2 : a[m + i] = sep[i]  BY <1>5, <3>1 DEF At
    <3>3. \A i \in 1..Len(k) : a[0 + i] = k[i]  BY <3>1 DEF At
    <3>4. \A i \in 1..m : a[i] = k[i]  BY <3>1, <3>3 DEF m
    <3>5. a[m + 1] = sep[1] /\ a[m + 2] = sep[2]  BY <3>2
    <3> QED  BY <1>5, <3>1, <3>4, <3>5
  <2>2. \A i \in 1..m : k[i] # "\r"  BY <1>3
  <2> HIDE DEF a, m
  <2>3. \A i \in 1..Len(a) : i \in 1..m \/ i = m + 1 \/ i = m + 2  BY <2>1
  <2>4. \A i \in 1..Len(a) : a[i] # "\r"  BY <1>5, <2>1, <2>2, <2>3
  <2> QED  BY <2>1, <2>4 DEF m
<1> HIDE DEF a
<1>8. Len(s) > 0 /\ \A i \in 1..Len(s) : s[i] # "\r"
  <2>1. Len(s) = Len(a) + Len(v) /\ Len(a) \in Nat /\ Len(v) \in Nat
        /\ (\A i \in 1..Len(a) : s[i] = a[i]) /\ \A i \in 1..Len(v) : s[Len(a) + i] = v[i]
    <3>1. a \in Seq(S) /\ v \in Seq(S)  BY <1>3, <1>7
    <3> QED  BY ONLY <3>1
  <2> HIDE DEF s
  <2>2. Len(s) > 0
    <3>1. Len(k) \in Nat  BY <1>3
    <3> QED  BY <1>7, <2>1, <3>1
  <2>3. ASSUME NEW i \in 1..Len(s) PROVE s[i] # "\r"
    <3>1. CASE i <= Len(a)  BY <1>7, <2>1, <3>1
    <3>2. CASE ~(i <= Len(a))
      <4> DEFINE j == i - Len(a)
      <4>1. j \in 1..Len(v) /\ i = Len(a) + j  BY <2>1, <3>2
      <4> HIDE DEF j
      <4> QED  BY <1>3, <2>1, <4>1
    <3> QED  BY <3>1, <3>2
  <2> QED  BY <2>2, <2>3
<1> QED  BY <1>2, <1>6, <1>8

(* Where the lines of a printed message are: the initial line, the headers *)
(* one by one, and the empty line.                                         *)
LinesOf(first, hs) ==
  [i \in 1..Len(hs) + 1 |-> IF i = 1 THEN first ELSE HeaderText(hs[i - 1])]

LEMMA PrintedLines ==
  ASSUME NEW S, {":", Space, "\r", "\n"} \subseteq S,
         NEW first \in Seq(S), Len(first) > 0, \A i \in 1..Len(first) : first[i] # "\r",
         NEW hs \in Seq(Printable(S)), NEW body \in Seq(S)
  PROVE  Lines(first \o NewLine \o HeaderBytes(hs) \o body) = LinesOf(first, hs)
<1> DEFINE n == Len(hs)
           l == Len(first)
           X == [i \in 1..n |-> HeaderText(hs[i]) \o NewLine]
           L == [i \in 1..n + 1 |-> IF i = 1 THEN first ELSE HeaderText(hs[i - 1])]
           flat == FlattenSeq(X)
           hb == flat \o NewLine
           a == first \o NewLine
           b == a \o hb
           s == b \o body
<1>0. n \in Nat /\ (\A i \in 1..n : hs[i] \in Printable(S)) /\ l \in Nat
  OBVIOUS
<1>1. HeaderBytes(hs) = hb  BY DEF HeaderBytes, HeaderText
<1>2. NewLine \in Seq(S) /\ Len(NewLine) = 2  BY DEF NewLine
<1>3. \A i \in 1..n : /\ HeaderText(hs[i]) \in Seq(S) /\ Len(HeaderText(hs[i])) > 0
                      /\ \A j \in 1..Len(HeaderText(hs[i])) : HeaderText(hs[i])[j] # "\r"
  BY <1>0, HeaderTextIs
<1>4. \A i \in 1..n : X[i] \in Seq(S) /\ X[i] = HeaderText(hs[i]) \o NewLine  BY <1>2, <1>3
<1>5. X \in Seq(Seq(S)) /\ Len(X) = n  BY <1>0, <1>4
<1>6. L \in Seq(Seq(S)) /\ Len(L) = n + 1 /\ L[1] = first
      /\ \A i \in 1..n : L[i + 1] = HeaderText(hs[i])
  BY <1>0, <1>3
<1> HIDE DEF X, L, n, l
<1>7. PICK F \in [0..n -> Seq(S)] : JoinedUp(X, F) /\ flat = F[n]  BY <1>5, FlattenJoins
<1>8. (\A i \in 1..n : /\ Len(F[i]) = Len(F[i - 1]) + Len(X[i])
                       /\ At(F[n], Len(F[i - 1]), X[i]))
      /\ F[0] = <<>>
  BY <1>5, <1>7, JoinedPlaces DEF JoinedUp
<1>9. flat \in Seq(S) /\ \A i \in 0..n : F[i] \in Seq(S) /\ Len(F[i]) \in Nat
  BY <1>0, <1>7
<1> HIDE DEF flat
<1>10. hb \in Seq(S) /\ At(hb, 0, flat) /\ At(hb, Len(flat), NewLine)  BY <1>2, <1>9, Joined
<1> HIDE DEF hb
<1>11. a \in Seq(S) /\ Len(a) = l + 2 /\ At(a, 0, first) /\ At(a, l, NewLine)
  BY <1>2, Joined DEF l
<1> HIDE DEF a
<1>12. b \in Seq(S) /\ At(b, 0, first) /\ At(b, l, NewLine) /\ At(b, l + 2, hb)
  <2>1. b \in Seq(S) /\ At(b, Len(a), hb)  BY <1>10, <1>11, Joined
  <2>2. At(b, 0, first)  BY <1>10, <1>11, AtJoined
  <2>3. At(b, l, NewLine)  BY <1>2, <1>10, <1>11, AtJoined
  <2> QED  BY <1>11, <2>1, <2>2, <2>3
<1> HIDE DEF b
<1>13. s \in Seq(S) /\ Len(s) \in Nat /\ At(s, 0, first) /\ At(s, l, NewLine) /\ At(s, l + 2, hb)
  <2>1. s \in Seq(S) /\ Len(s) \in Nat  BY <1>12
  <2>2. At(s, 0, first)  BY <1>12, AtJoined
  <2>3. At(s, l, NewLine)  BY <1>2, <1>12, AtJoined
  <2>4. At(s, l + 2, hb)  BY <1>10, <1>12, AtJoined
  <2> QED  BY <2>1, <2>2, <2>3, <2>4
<1> HIDE DEF s
<1>14. At(s, l + 2, flat) /\ At(s, (l + 2) + Len(flat), NewLine)
  <2>1. At(s, (l + 2) + 0, flat)  BY <1>10, <1>13, AtWithin
  <2>2. At(s, (l + 2) + Len(flat), NewLine)  BY <1>10, <1>13, AtWithin
  <2>3. (l + 2) + 0 = l + 2  BY <1>0
  <2> QED  BY <2>1, <2>2, <2>3
<1>15. ASSUME NEW i \in 1..n
       PROVE  LET h == HeaderText(hs[i])
                  p == (l + 2) + Len(F[i - 1])
              IN /\ At(s, p, h) /\ At(s, p + Len(h), NewLine) /\ p \in Nat
                 /\ (l + 2) + Len(F[i]) = p + Len(h) + 2
  <2> DEFINE h == HeaderText(hs[i])
             x == X[i]
             p == (l + 2) + Len(F[i - 1])
  <2>1. h \in Seq(S) /\ x = h \o NewLine /\ Len(h) \in Nat  BY <1>3, <1>4
  <2>2. i - 1 \in 0..n  BY <1>0
  <2>3. Len(F[i - 1]) \in Nat /\ Len(F[i]) = Len(F[i - 1]) + Len(x) /\ At(flat, Len(F[i - 1]), x)
    BY <1>7, <1>8, <1>9, <2>2
  <2> HIDE DEF h, x
  <2>4. Len(x) = Len(h) + 2 /\ At(x, 0, h) /\ At(x, Len(h), NewLine)  BY <1>2, <2>1, Joined
  <2>5. At(s, p, x)  BY <1>13, <1>14, <2>3, AtWithin
  <2> DEFINE q == Len(F[i - 1])
             r == Len(F[i])
             m == Len(h)
  <2>6. p \in Nat /\ (l + 2) + r = p + m + 2
    <3>1. q \in Nat /\ m \in Nat /\ r = q + (m + 2) /\ l \in Nat  BY <1>0, <2>1, <2>3, <2>4
    <3> HIDE DEF q, r, m
    <3>2. (l + 2) + q \in Nat /\ (l + 2) + r = ((l + 2) + q) + m + 2  BY <3>1
    <3> QED  BY <3>2 DEF q
  <2>7. (l + 2) + Len(F[i]) = p + Len(h) + 2  BY <2>6
  <2> HIDE DEF p
  <2>8. At(s, p + 0, h) /\ At(s, p + Len(h), NewLine)  BY <1>13, <2>4, <2>5, AtWithin
  <2>9. p + 0 = p  BY <2>6
  <2> QED  BY <2>6, <2>7, <2>8, <2>9 DEF p, h
<1> DEFINE o == [i \in 1..n + 2 |-> IF i = 1 THEN 0 ELSE (l + 2) + Len(F[i - 2])]
<1>16. o[1] = 0 /\ \A i \in 0..n : o[i + 2] = (l + 2) + Len(F[i])
  <2>1. ASSUME NEW i \in 0..n PROVE i + 2 \in 1..n + 2 /\ i + 2 # 1 /\ (i + 2) - 2 = i  BY <1>0
  <2>2. 1 \in 1..n + 2  BY <1>0
  <2> QED  BY <2>1, <2>2
<1> HIDE DEF o
<1>17. LinesAt(s, L, o)
  <2>1. ASSUME NEW i \in 1..Len(L)
        PROVE  /\ At(s, o[i], L[i]) /\ At(s, o[i] + Len(L[i]), NewLine)
               /\ o[i + 1] = o[i] + Len(L[i]) + 2
               /\ Len(L[i]) > 0 /\ \A j \in 1..Len(L[i]) : L[i][j] # "\r"
    <3>1. CASE i = 1
      <4>1. o[1] = 0 /\ L[1] = first /\ 0 + l = l  BY <1>0, <1>6, <1>16
      <4>2. o[2] = l + 2
        <5>1. 0 \in 0..n /\ 0 + 2 = 2  BY <1>0
        <5>2. Len(F[0]) = 0  BY <1>8
        <5>3. o[0 + 2] = (l + 2) + Len(F[0])  BY <1>16, <5>1
        <5> QED  BY <1>0, <5>1, <5>2, <5>3
      <4>3. o[1 + 1] = 0 + l + 2  BY <1>0, <4>2
      <4> QED  BY <1>13, <3>1, <4>1, <4>3 DEF l
    <3>2. CASE i # 1
      <4> DEFINE j == i - 1
                 h == HeaderText(hs[j])
                 p == (l + 2) + Len(F[j - 1])
      <4>1. j \in 1..n /\ i = j + 1 /\ j - 1 \in 0..n /\ (j - 1) + 2 = i /\ j \in 0..n /\ j + 2 = i + 1
        BY <1>0, <1>6, <3>2
      <4>2. /\ At(s, p, h) /\ At(s, p + Len(h), NewLine)
            /\ (l + 2) + Len(F[j]) = p + Len(h) + 2
        BY <1>15, <4>1
      <4>3. L[i] = h  BY <1>6, <4>1
      <4>4. o[i] = p /\ o[i + 1] = (l + 2) + Len(F[j])  BY <1>16, <4>1
      <4>5. Len(h) > 0 /\ \A m \in 1..Len(h) : h[m] # "\r"  BY <1>3, <4>1
      <4> HIDE DEF h, p, j
      <4> QED  BY <4>2, <4>3, <4>4, <4>5
    <3> QED  BY <3>1, <3>2
  <2>2. o[Len(L) + 1] = (l + 2) + Len(flat)
    <3>1. n \in 0..n /\ Len(L) + 1 = n + 2  BY <1>0, <1>6
    <3> QED  BY <1>7, <1>16, <3>1
  <2> QED  BY <1>14, <1>16, <2>1, <2>2 DEF LinesAt
<1>18. Lines(s) = L  BY <1>6, <1>13, <1>17, LinesFound
<1> QED  BY <1>1, <1>18 DEF LinesOf, s, b, a, L, n

(* What request::bytes prints, message::parse_data takes apart into what   *)
(* it was: the initial line and every header, each with its name and its   *)
(* value, in their order, whatever the body has in it.                     *)
THEOREM HeadersHeard ==
  ASSUME NEW S, {":", Space, "\r", "\n"} \subseteq S,
         NEW first \in Seq(S), Len(first) > 0, \A i \in 1..Len(first) : first[i] # "\r",
         NEW hs \in Seq(Printable(S)), NEW body \in Seq(S)
  PROVE  LET lines == Lines(first \o NewLine \o HeaderBytes(hs) \o body)
         IN lines[1] = first /\ ParsedHeaders(Tail(lines)) = hs
<1> DEFINE n == Len(hs)
           L == [i \in 1..n + 1 |-> IF i = 1 THEN first ELSE HeaderText(hs[i - 1])]
           t == [i \in 1..n |-> HeaderText(hs[i])]
<1>0. Lines(first \o NewLine \o HeaderBytes(hs) \o body) = LinesOf(first, hs)  BY PrintedLines
<1>1. Lines(first \o NewLine \o HeaderBytes(hs) \o body) = L  BY <1>0 DEF LinesOf
<1>2. n \in Nat /\ \A i \in 1..n : hs[i] \in Printable(S)  OBVIOUS
<1>3. \A i \in 1..n : HeaderText(hs[i]) \in Seq(S) /\ ParseHeaderLine(HeaderText(hs[i])) = hs[i]
  BY <1>2, HeaderTextIs
<1>4. L[1] = first /\ Len(L) = n + 1 /\ L \in Seq(Seq(S))
      /\ \A i \in 1..n : L[i + 1] = HeaderText(hs[i])
  BY <1>2, <1>3
<1>5. t \in Seq(Seq(S)) /\ Len(t) = n /\ \A i \in 1..n : t[i] = HeaderText(hs[i])
  BY <1>2, <1>3
<1>6. hs = [i \in 1..n |-> hs[i]]  OBVIOUS
<1> HIDE DEF L, t, n
<1>7. Tail(L) = t
  <2> DEFINE u == Tail(L)
  <2>1. u \in Seq(Seq(S)) /\ Len(u) = n /\ \A i \in 1..n : u[i] = L[i + 1]
    BY <1>2, <1>4
  <2> HIDE DEF u
  <2>2. \A i \in 1..n : u[i] = t[i]  BY <1>4, <1>5, <2>1
  <2>3. u = t  BY <1>5, <2>1, <2>2
  <2> QED  BY <2>3 DEF u
<1>8. ParsedHeaders(t) = [i \in 1..n |-> ParseHeaderLine(t[i])]  BY <1>5 DEF ParsedHeaders
<1>9. \A i \in 1..n : ParseHeaderLine(t[i]) = hs[i]  BY <1>3, <1>5
<1>10. ParsedHeaders(t) = hs  BY <1>6, <1>8, <1>9
<1> QED  BY <1>1, <1>4, <1>7, <1>10

-----------------------------------------------------------------------------
(* Queries: what is escaped, and what becomes of it.                       *)

HexSet == {"0", "1", "2", "3", "4", "5", "6", "7", "8", "9", "a", "b", "c", "d", "e", "f"}

LEMMA HexDigitsAre ==
  /\ \A i \in 1..16 : HexDigits[i] \in HexSet
  /\ \A i, j \in 1..16 : HexDigits[i] = HexDigits[j] => i = j
  /\ {"%", "+", "=", "\r", "\n", Space} \cap HexSet = {}
  /\ HexDigits[1] = "0" /\ HexDigits[16] = "f"
<1>1. \A i \in 1..16 : HexDigits[i] \in HexSet
  <2>1. \A i \in 1..16 : \/ i = 1 \/ i = 2 \/ i = 3 \/ i = 4 \/ i = 5 \/ i = 6 \/ i = 7 \/ i = 8
                         \/ i = 9 \/ i = 10 \/ i = 11 \/ i = 12 \/ i = 13 \/ i = 14 \/ i = 15 \/ i = 16
    OBVIOUS
  <2> QED  BY <2>1 DEF HexDigits, HexSet
<1>2. \A i, j \in 1..16 : HexDigits[i] = HexDigits[j] => i = j  BY DEF HexDigits
<1>3. {"%", "+", "=", "\r", "\n"} \cap HexSet = {}  BY DEF HexSet
<1>4. Space \notin HexSet  BY Zenon DEF HexSet, Space
<1>5. HexDigits[1] = "0" /\ HexDigits[16] = "f"  BY DEF HexDigits
<1> QED  BY <1>1, <1>2, <1>3, <1>4, <1>5

(* What one character becomes.                                             *)
Piece(c, fill) == IF Unreserved(c) THEN <<c>> ELSE <<"%">> \o Hex(Code[c], fill)

LEMMA UnreservedIsNone ==
  ASSUME NEW c \in DOMAIN Code, Unreserved(c)
  PROVE  c \notin {"%", "+", "=", "\r", "\n", Space} /\ Code[c] >= 16
<1> DEFINE n == Code[c]
<1>1. n \in Int /\ n >= 16 /\ n \notin {10, 13, 32, 37, 43, 61}
  BY CharactersCoded DEF Unreserved
<1>2. /\ "\n" \in DOMAIN Code => Code["\n"] = 10
      /\ "\r" \in DOMAIN Code => Code["\r"] = 13
      /\ Space \in DOMAIN Code => Code[Space] = 32
      /\ "%" \in DOMAIN Code => Code["%"] = 37
      /\ "+" \in DOMAIN Code => Code["+"] = 43
      /\ "=" \in DOMAIN Code => Code["="] = 61
  BY SeparatorsCoded
<1> QED  BY <1>1, <1>2

LEMMA CodeIs ==
  ASSUME NEW c \in DOMAIN Code
  PROVE  Code[c] \in Int /\ Code[c] >= -128 /\ Code[c] <= 127
BY CharactersCoded

LEMMA TextsJoined ==
  ASSUME NEW x, NEW y
  PROVE  /\ <<"%">> \o <<x, y>> = <<"%", x, y>>
         /\ <<"%">> \o (<<"f", "f", "f", "f", "f", "f">> \o <<x, y>>)
              = <<"%", "f", "f", "f", "f", "f", "f", x, y>>
<1> DEFINE S == {"%", "f", x, y}
           p == <<"%">>
           f == <<"f", "f", "f", "f", "f", "f">>
           z == <<x, y>>
           g == f \o z
           s == p \o z
           t == p \o g
           u == <<"%", x, y>>
           v == <<"%", "f", "f", "f", "f", "f", "f", x, y>>
<1>1. p \in Seq(S) /\ Len(p) = 1 /\ p[1] = "%"  OBVIOUS
<1>2. f \in Seq(S) /\ Len(f) = 6 /\ \A i \in 1..6 : f[i] = "f"  OBVIOUS
<1>3. z \in Seq(S) /\ Len(z) = 2 /\ z[1] = x /\ z[2] = y  OBVIOUS
<1>4. u \in Seq(S) /\ Len(u) = 3 /\ u[1] = "%" /\ u[2] = x /\ u[3] = y  OBVIOUS
<1>5. v \in Seq(S) /\ Len(v) = 9 /\ v[1] = "%" /\ (\A i \in 2..7 : v[i] = "f") /\ v[8] = x
      /\ v[9] = y
  <2>1. v \in Seq(S) /\ Len(v) = 9  OBVIOUS
  <2>2. v[1] = "%" /\ v[8] = x /\ v[9] = y  OBVIOUS
  <2>3. v[2] = "f" /\ v[3] = "f" /\ v[4] = "f" /\ v[5] = "f" /\ v[6] = "f" /\ v[7] = "f"
    OBVIOUS
  <2> HIDE DEF v
  <2> QED  BY <2>1, <2>2, <2>3
<1> HIDE DEF S, p, f, z, u, v
<1>6. s \in Seq(S) /\ Len(s) = 3 /\ s[1] = "%" /\ s[2] = x /\ s[3] = y
  <2>1. s \in Seq(S) /\ Len(s) = Len(p) + Len(z) /\ At(s, 0, p) /\ At(s, Len(p), z)
    BY <1>1, <1>3, Joined
  <2> HIDE DEF s
  <2>2. s[0 + 1] = p[1] /\ s[1 + 1] = z[1] /\ s[1 + 2] = z[2]  BY <1>1, <1>3, <2>1 DEF At
  <2> QED  BY <1>1, <1>3, <2>1, <2>2
<1>7. g \in Seq(S) /\ Len(g) = 8 /\ (\A i \in 1..6 : g[i] = "f") /\ g[7] = x /\ g[8] = y
  <2>1. g \in Seq(S) /\ Len(g) = Len(f) + Len(z) /\ At(g, 0, f) /\ At(g, Len(f), z)
    BY <1>2, <1>3, Joined
  <2> HIDE DEF g
  <2>2. g[6 + 1] = z[1] /\ g[6 + 2] = z[2]  BY <1>2, <1>3, <2>1 DEF At
  <2>3. \A i \in 1..6 : g[0 + i] = f[i]  BY <1>2, <2>1 DEF At
  <2>4. \A i \in 1..6 : g[i] = "f"  BY <1>2, <2>3
  <2> QED  BY <1>2, <1>3, <2>1, <2>2, <2>4
<1> HIDE DEF g
<1>8. t \in Seq(S) /\ Len(t) = 9 /\ t[1] = "%" /\ (\A i \in 2..9 : t[i] = g[i - 1])
  <2>1. t \in Seq(S) /\ Len(t) = Len(p) + Len(g) /\ At(t, 0, p) /\ At(t, Len(p), g)
    BY <1>1, <1>7, Joined
  <2> HIDE DEF t
  <2>2. t[0 + 1] = p[1]  BY <1>1, <2>1 DEF At
  <2>3. ASSUME NEW i \in 2..9 PROVE t[i] = g[i - 1]
    <3> DEFINE j == i - 1
    <3>1. j \in 1..8 /\ i = 1 + j  OBVIOUS
    <3> HIDE DEF j
    <3>2. t[1 + j] = g[j]  BY <1>1, <1>7, <2>1, <3>1 DEF At
    <3> QED  BY <3>1, <3>2 DEF j
  <2> QED  BY <1>1, <1>7, <2>1, <2>2, <2>3
<1> HIDE DEF s, t
<1>9. s = u
  <2>1. \A i \in 1..3 : i = 1 \/ i = 2 \/ i = 3  OBVIOUS
  <2>2. \A i \in 1..3 : s[i] = u[i]  BY <1>4, <1>6, <2>1
  <2> QED  BY <1>4, <1>6, <2>2
<1>10. t = v
  <2>1. ASSUME NEW i \in 1..9 PROVE t[i] = v[i]
    <3>1. i = 1 \/ i \in 2..7 \/ i = 8 \/ i = 9  OBVIOUS
    <3>2. i \in 2..7 => i - 1 \in 1..6 /\ i \in 2..9  OBVIOUS
    <3>3. 8 \in 2..9 /\ 9 \in 2..9 /\ 8 - 1 = 7 /\ 9 - 1 = 8  OBVIOUS
    <3> QED  BY <1>5, <1>7, <1>8, <3>1, <3>2, <3>3
  <2> QED  BY <1>5, <1>8, <2>1
<1> QED  BY <1>9, <1>10 DEF s, t, u, v, p, g, f, z

LEMMA PieceIs ==
  ASSUME NEW c \in DOMAIN Code, NEW fill, ~Unreserved(c)
  PROVE  LET n == Code[c]
         IN /\ (n >= 16 \/ (n >= 0 /\ fill = "0")) =>
                 /\ n \div 16 + 1 \in 1..16 /\ (n % 16) + 1 \in 1..16
                 /\ Piece(c, fill) = <<"%", HexDigits[n \div 16 + 1], HexDigits[(n % 16) + 1]>>
            /\ (n < 16 /\ n >= 0) =>
                 (n % 16) + 1 \in 1..16 /\ Piece(c, fill) = <<"%", fill, HexDigits[(n % 16) + 1]>>
            /\ n < 0 =>
                 \E i, j \in 1..16 :
                   Piece(c, fill) = <<"%", "f", "f", "f", "f", "f", "f", HexDigits[i], HexDigits[j]>>
<1> DEFINE n == Code[c]
<1>1. n \in Int /\ n >= -128 /\ n <= 127  BY CharactersCoded
<1>2. Piece(c, fill) = <<"%">> \o Hex(n, fill)  BY DEF Piece
<1> HIDE DEF n
<1>3. n % 16 \in 0..15  BY <1>1
<1>4. n >= 0 => n \div 16 + 1 \in 1..16  BY <1>1
<1>5. n < 0 => (n + 256) \div 16 + 1 \in 1..16  BY <1>1
<1>6. n >= 0 => Hex(n, fill) = <<IF n < 16 THEN fill ELSE HexDigits[n \div 16 + 1],
                                HexDigits[(n % 16) + 1]>>
  BY <1>1 DEF Hex
<1>7. n >= 0 /\ n < 16 => n \div 16 + 1 = 1  BY <1>1
<1> DEFINE a == HexDigits[n \div 16 + 1]
           b == HexDigits[(n % 16) + 1]
           d == HexDigits[(n + 256) \div 16 + 1]
<1>8. n < 0 => Hex(n, fill) = <<"f", "f", "f", "f", "f", "f">> \o <<d, b>>
  BY <1>1 DEF Hex
<1>9. n < 16 /\ n >= 0 => a = "0"  BY <1>7, HexDigitsAre
<1> HIDE DEF a, b, d
<1>10. \A x, y : <<"%">> \o <<x, y>> = <<"%", x, y>>  BY TextsJoined
<1>11. \A x, y : <<"%">> \o (<<"f", "f", "f", "f", "f", "f">> \o <<x, y>>)
                    = <<"%", "f", "f", "f", "f", "f", "f", x, y>>
  BY TextsJoined
<1>12. n >= 16 => Hex(n, fill) = <<a, b>>  BY <1>1, <1>6 DEF a, b
<1>13. n < 16 /\ n >= 0 => Hex(n, fill) = <<fill, b>>  BY <1>6 DEF b
<1>14. (n >= 16 \/ (n >= 0 /\ fill = "0")) => Piece(c, fill) = <<"%", a, b>>
  BY <1>1, <1>2, <1>9, <1>10, <1>12, <1>13
<1>15. n < 16 /\ n >= 0 => Piece(c, fill) = <<"%", fill, b>>  BY <1>2, <1>10, <1>13
<1>16. n < 0 => Piece(c, fill) = <<"%", "f", "f", "f", "f", "f", "f", d, b>>
  BY <1>2, <1>8, <1>11
<1>17. n >= 16 \/ n >= 0 => n \div 16 + 1 \in 1..16  BY <1>1, <1>4
<1>18. (n % 16) + 1 \in 1..16  BY <1>3
<1>19. n < 0 => \E i, j \in 1..16 :
                  Piece(c, fill) = <<"%", "f", "f", "f", "f", "f", "f", HexDigits[i], HexDigits[j]>>
  BY <1>5, <1>16, <1>18 DEF b, d
<1> QED  BY <1>14, <1>15, <1>17, <1>18, <1>19 DEF n, a, b

(* What an escaped text is made of.                                        *)
EscapeSet == {c \in DOMAIN Code : Unreserved(c)} \cup {"%"} \cup HexSet

LEMMA EscapeSetIs == {"+", "=", "\r", "\n", Space} \cap EscapeSet = {}
<1>1. "%" \notin {"+", "=", "\r", "\n"}  OBVIOUS
<1>2. Space # "%"  BY Zenon DEF Space
<1> QED  BY <1>1, <1>2, HexDigitsAre, UnreservedIsNone DEF EscapeSet

LEMMA PieceMadeOf ==
  ASSUME NEW c \in DOMAIN Code, NEW fill
  PROVE  /\ Piece(c, fill) \in Seq(EscapeSet \cup {fill})
         /\ Code[c] >= 16 => /\ Piece(c, fill) \in Seq(EscapeSet)
                             /\ Piece(c, fill) = Piece(c, "0")
<1> DEFINE n == Code[c]
           E == EscapeSet \cup {fill}
<1>1. n \in Int  BY CharactersCoded
<1>2. CASE Unreserved(c)
  <2>1. Piece(c, fill) = <<c>> /\ Piece(c, "0") = <<c>>  BY <1>2 DEF Piece
  <2>2. c \in EscapeSet  BY <1>2 DEF EscapeSet
  <2> QED  BY <2>1, <2>2
<1>3. CASE ~Unreserved(c)
  <2>0. "%" \in EscapeSet /\ HexSet \subseteq EscapeSet /\ "f" \in HexSet  BY DEF EscapeSet, HexSet
  <2>1. \A i \in 1..16 : HexDigits[i] \in EscapeSet  BY <2>0, HexDigitsAre
  <2> DEFINE i == n \div 16 + 1
             j == (n % 16) + 1
  <2>2. CASE n >= 16
    <3>0. \A x : i \in 1..16 /\ j \in 1..16 /\ Piece(c, x) = <<"%", HexDigits[i], HexDigits[j]>>
      BY <1>3, <2>2, PieceIs
    <3>1. i \in 1..16 /\ j \in 1..16 /\ Piece(c, fill) = <<"%", HexDigits[i], HexDigits[j]>>
      BY <3>0
    <3>2. Piece(c, "0") = <<"%", HexDigits[i], HexDigits[j]>>  BY <3>0
    <3> HIDE DEF i, j
    <3>3. HexDigits[i] \in EscapeSet /\ HexDigits[j] \in EscapeSet  BY <2>1, <3>1
    <3>4. \A x, y \in EscapeSet : <<"%", x, y>> \in Seq(EscapeSet) /\ <<"%", x, y>> \in Seq(E)
      BY <2>0
    <3> QED  BY <3>1, <3>2, <3>3, <3>4
  <2>3. CASE n < 16 /\ n >= 0
    <3>1. j \in 1..16 /\ Piece(c, fill) = <<"%", fill, HexDigits[j]>>
      BY <1>3, <2>3, PieceIs
    <3> HIDE DEF j
    <3>2. HexDigits[j] \in EscapeSet  BY <2>1, <3>1
    <3>3. \A y \in EscapeSet : <<"%", fill, y>> \in Seq(E)  BY <2>0
    <3> QED  BY <1>1, <2>3, <3>1, <3>2, <3>3
  <2>4. CASE n < 0
    <3>1. PICK k, l \in 1..16 :
            Piece(c, fill) = <<"%", "f", "f", "f", "f", "f", "f", HexDigits[k], HexDigits[l]>>
      BY <1>3, <2>4, PieceIs
    <3>2. HexDigits[k] \in EscapeSet /\ HexDigits[l] \in EscapeSet /\ "f" \in EscapeSet
      BY <2>0, <2>1
    <3>3. \A x, y \in EscapeSet : <<"%", "f", "f", "f", "f", "f", "f", x, y>> \in Seq(E)
      BY <2>0, <3>2
    <3> QED  BY <1>1, <2>4, <3>1, <3>2, <3>3
  <2> QED  BY <1>1, <2>2, <2>3, <2>4
<1> QED  BY <1>2, <1>3

LEMMA EscapedIs ==
  ASSUME NEW s \in Seq(DOMAIN Code), NEW fill
  PROVE  Escaped(s, fill) = FlattenSeq([i \in 1..Len(s) |-> Piece(s[i], fill)])
BY DEF Escaped, Piece

LEMMA EscapedMadeOf ==
  ASSUME NEW s \in Seq(DOMAIN Code), NEW fill
  PROVE  /\ Escaped(s, fill) \in Seq(EscapeSet \cup {fill})
         /\ (\A i \in 1..Len(s) : Code[s[i]] >= 16) =>
               /\ Escaped(s, fill) \in Seq(EscapeSet)
               /\ Escaped(s, fill) = Escaped(s, "0")
<1> DEFINE n == Len(s)
           X == [i \in 1..n |-> Piece(s[i], fill)]
           Y == [i \in 1..n |-> Piece(s[i], "0")]
<1>1. n \in Nat /\ \A i \in 1..n : s[i] \in DOMAIN Code  OBVIOUS
<1>2. Escaped(s, fill) = FlattenSeq(X) /\ Escaped(s, "0") = FlattenSeq(Y)  BY EscapedIs
<1>3. \A E : X \in Seq(Seq(E)) => FlattenSeq(X) \in Seq(E)
  <2> SUFFICES ASSUME NEW E, X \in Seq(Seq(E)) PROVE FlattenSeq(X) \in Seq(E)  OBVIOUS
  <2> HIDE DEF X
  <2>1. PICK F \in [0..Len(X) -> Seq(E)] : FlattenSeq(X) = F[Len(X)]  BY FlattenJoins
  <2>2. Len(X) \in 0..Len(X)  OBVIOUS
  <2> QED  BY <2>1, <2>2
<1>4. X \in Seq(Seq(EscapeSet \cup {fill}))
  <2>1. \A i \in 1..n : Piece(s[i], fill) \in Seq(EscapeSet \cup {fill})  BY <1>1, PieceMadeOf
  <2> QED  BY <1>1, <2>1
<1>5. ASSUME \A i \in 1..n : Code[s[i]] >= 16 PROVE X \in Seq(Seq(EscapeSet)) /\ X = Y
  <2>1. \A i \in 1..n : Piece(s[i], fill) \in Seq(EscapeSet) /\ Piece(s[i], fill) = Piece(s[i], "0")
    BY <1>1, <1>5, PieceMadeOf
  <2> QED  BY <1>1, <2>1
<1> HIDE DEF X, Y
<1> QED  BY <1>2, <1>3, <1>4, <1>5 DEF n

(* A text that is put together from its end.                               *)
LEMMA Walked ==
  ASSUME NEW S, NEW L \in Seq(S), NEW f, NEW o,
         \A i \in 1..Len(L) : f[o[i]] = <<L[i]>> \o f[o[i + 1]],
         f[o[Len(L) + 1]] = <<>>
  PROVE  f[o[1]] = L
<1> DEFINE n == Len(L)
           T == {k \in Nat : k <= n => f[o[(n - k) + 1]] = SubSeq(L, (n - k) + 1, n)}
<1>0. n \in Nat  OBVIOUS
<1>1. SubSeq(L, n + 1, n) = <<>> /\ SubSeq(L, 1, n) = L  OBVIOUS
<1>2. \A i \in 1..n : f[o[i]] = <<L[i]>> \o f[o[i + 1]]  OBVIOUS
<1>3. \A i \in 1..n : <<L[i]>> \o SubSeq(L, i + 1, n) = SubSeq(L, i, n)  BY FrontJoined
<1>4. f[o[n + 1]] = <<>>  OBVIOUS
<1> HIDE DEF n
<1>5. 0 \in T
  <2>1. n - 0 = n  BY <1>0
  <2> QED  BY <1>1, <1>4, <2>1
<1>6. ASSUME NEW k \in Nat, k \in T PROVE k + 1 \in T
  <2> SUFFICES ASSUME k + 1 <= n
               PROVE  f[o[(n - (k + 1)) + 1]] = SubSeq(L, (n - (k + 1)) + 1, n)
    OBVIOUS
  <2> DEFINE i == (n - (k + 1)) + 1
  <2>1. i \in 1..n /\ (n - k) + 1 = i + 1 /\ k <= n  BY <1>0
  <2>2. f[o[(n - k) + 1]] = SubSeq(L, (n - k) + 1, n)  BY <1>6, <2>1
  <2> HIDE DEF i
  <2>3. f[o[i]] = SubSeq(L, i, n)  BY <1>2, <1>3, <2>1, <2>2
  <2> QED  BY <2>3 DEF i
<1> HIDE DEF T
<1>7. n \in T  BY <1>0, <1>5, <1>6, InductionOnNat
<1>8. (n - n) + 1 = 1 /\ n <= n  BY <1>0
<1>9. n <= n => f[o[(n - n) + 1]] = SubSeq(L, (n - n) + 1, n)  BY <1>7 DEF T
<1> QED  BY <1>1, <1>8, <1>9

(* The recursive function of uri::decoded.                                 *)
DecodeOf(s, f) ==
  f = [i \in 1..Len(s) + 3 |->
         IF i > Len(s) THEN <<>>
         ELSE IF s[i] = "%" THEN <<HexChar(s[i + 1], s[i + 2])>> \o f[i + 3]
         ELSE <<IF s[i] = "+" THEN Space ELSE s[i]>> \o f[i + 1]]

LEMMA DecodedIs ==
  ASSUME NEW S, NEW s \in Seq(S)
  PROVE  \E f : DecodeOf(s, f) /\ Decoded(s) = f[1]
<1> DEFINE M == Len(s) + 3
           Stop == {i \in 1..M : i > Len(s)}
           item == [i \in 1..M |-> IF s[i] = "%" THEN HexChar(s[i + 1], s[i + 2])
                                   ELSE IF s[i] = "+" THEN Space ELSE s[i]]
           next == [i \in 1..M |-> IF s[i] = "%" THEN i + 3 ELSE i + 1]
           E(f, i) == IF i \in Stop THEN <<>> ELSE <<item[i]>> \o f[next[i]]
           D(f, i) == IF i > Len(s) THEN <<>>
                      ELSE IF s[i] = "%" THEN <<HexChar(s[i + 1], s[i + 2])>> \o f[i + 3]
                      ELSE <<IF s[i] = "+" THEN Space ELSE s[i]>> \o f[i + 1]
           from == CHOOSE f : f = [i \in 1..M |-> D(f, i)]
<1>1. Decoded(s) = from[1]  BY DEF Decoded
<1>2. Len(s) \in Nat /\ M \in Nat  OBVIOUS
<1>3. \A i \in 1..M : i \notin Stop => next[i] \in i + 1..M  BY <1>2
<1>4. \A f : [i \in 1..M |-> E(f, i)] = [i \in 1..M |-> D(f, i)]
  <2>1. ASSUME NEW f, NEW i \in 1..M PROVE E(f, i) = D(f, i)
    <3>1. CASE i > Len(s)  BY <3>1
    <3>2. CASE ~(i > Len(s)) /\ s[i] = "%"
      <4>1. item[i] = HexChar(s[i + 1], s[i + 2]) /\ next[i] = i + 3  BY <3>2
      <4> HIDE DEF item, next
      <4> QED  BY <3>2, <4>1
    <3>3. CASE ~(i > Len(s)) /\ s[i] # "%"
      <4>1. item[i] = (IF s[i] = "+" THEN Space ELSE s[i]) /\ next[i] = i + 1  BY <3>3
      <4> HIDE DEF item, next
      <4> QED  BY <3>3, <4>1
    <3> QED  BY <3>1, <3>2, <3>3
  <2> HIDE DEF E, D, M
  <2> QED  BY <2>1
<1>5. \E f : f = [i \in 1..M |-> E(f, i)]
  <2> HIDE DEF Stop, item, next, M
  <2>1. \E f : Chained(f, M, Stop, item, next)  BY <1>2, <1>3, ChainExists
  <2> QED  BY <2>1, Zenon DEF Chained
<1> HIDE DEF E
<1>6. from = [i \in 1..M |-> D(from, i)]
  <2> HIDE DEF D, M
  <2>1. \E f : f = [i \in 1..M |-> D(f, i)]  BY <1>4, <1>5
  <2> QED  BY <2>1
<1> HIDE DEF from
<1>7. DecodeOf(s, from)  BY <1>6, Zenon DEF DecodeOf
<1> QED  BY <1>1, <1>7

(* What is decoded at a place of the string.                               *)
LEMMA DecodeAt ==
  ASSUME NEW S, NEW s \in Seq(S), NEW f, DecodeOf(s, f), NEW i \in 1..Len(s)
  PROVE  /\ s[i] = "%" => f[i] = <<HexChar(s[i + 1], s[i + 2])>> \o f[i + 3]
         /\ s[i] \notin {"%", "+"} => f[i] = <<s[i]>> \o f[i + 1]
<1>1. i \in 1..Len(s) + 3 /\ ~(i > Len(s))  OBVIOUS
<1>2. f[i] = IF i > Len(s) THEN <<>>
             ELSE IF s[i] = "%" THEN <<HexChar(s[i + 1], s[i + 2])>> \o f[i + 3]
             ELSE <<IF s[i] = "+" THEN Space ELSE s[i]>> \o f[i + 1]
  BY <1>1 DEF DecodeOf
<1> QED  BY <1>1, <1>2

(* Past the end nothing is left, and every place gives a sequence.        *)
LEMMA DecodeStep ==
  ASSUME NEW S, NEW s \in Seq(S), NEW f, DecodeOf(s, f)
  PROVE  /\ f[Len(s) + 1] = <<>>
         /\ \E U : \A i \in 1..Len(s) + 3 : f[i] \in Seq(U)
<1> DEFINE n == Len(s)
           M == n + 3
           a == [i \in 1..M |-> IF s[i] = "%" THEN HexChar(s[i + 1], s[i + 2])
                                ELSE IF s[i] = "+" THEN Space ELSE s[i]]
           U == {a[i] : i \in 1..M}
<1>0. n \in Nat  OBVIOUS
<1>1. \A i \in 1..M : f[i] = IF i > n THEN <<>>
                            ELSE IF s[i] = "%" THEN <<HexChar(s[i + 1], s[i + 2])>> \o f[i + 3]
                            ELSE <<IF s[i] = "+" THEN Space ELSE s[i]>> \o f[i + 1]
  BY DEF DecodeOf
<1> HIDE DEF n
<1>2. \A i \in 1..n : i \in 1..M /\ ~(i > n)  BY <1>0
<1>3. \A i \in 1..n : /\ s[i] = "%" => f[i] = <<HexChar(s[i + 1], s[i + 2])>> \o f[i + 3]
                      /\ s[i] # "%" => f[i] = <<IF s[i] = "+" THEN Space ELSE s[i]>> \o f[i + 1]
  <2> HIDE DEF M
  <2> QED  BY <1>1, <1>2
<1>4. \A i \in 1..M : i > n => f[i] = <<>>  BY <1>1
<1>5. \A i \in 1..n : f[i] = <<a[i]>> \o f[IF s[i] = "%" THEN i + 3 ELSE i + 1]
  <2> SUFFICES ASSUME NEW i \in 1..n
               PROVE  f[i] = <<a[i]>> \o f[IF s[i] = "%" THEN i + 3 ELSE i + 1]
    OBVIOUS
  <2>1. a[i] = IF s[i] = "%" THEN HexChar(s[i + 1], s[i + 2])
               ELSE IF s[i] = "+" THEN Space ELSE s[i]
    BY <1>2
  <2> HIDE DEF a
  <2> QED  BY <1>3, <2>1
<1>6. \A i \in 1..M : a[i] \in U  OBVIOUS
<1> HIDE DEF U, a
<1> DEFINE T == {k \in Nat : \A i \in 1..M : i + k > n => f[i] \in Seq(U)}
<1>7. \A i \in 1..M : i > n => f[i] \in Seq(U)
  <2>1. <<>> \in Seq(U)  OBVIOUS
  <2> QED  BY <1>4, <2>1
<1>8. 0 \in T
  <2>1. \A i \in 1..M : i + 0 > n => i > n  BY <1>0
  <2> QED  BY <1>7, <2>1
<1>9. ASSUME NEW k \in Nat, k \in T PROVE k + 1 \in T
  <2> SUFFICES ASSUME NEW i \in 1..M, i + (k + 1) > n PROVE f[i] \in Seq(U)  OBVIOUS
  <2>1. CASE i > n  BY <1>7, <2>1
  <2>2. CASE ~(i > n)
    <3> DEFINE j == IF s[i] = "%" THEN i + 3 ELSE i + 1
    <3>1. j \in 1..M /\ j + k > n /\ i \in 1..n  BY <1>0, <2>2
    <3> HIDE DEF j
    <3>2. f[j] \in Seq(U)  BY <1>9, <3>1
    <3>3. f[i] = <<a[i]>> \o f[j]  BY <1>5, <3>1 DEF j
    <3> QED  BY <1>6, <3>2, <3>3
  <2> QED  BY <2>1, <2>2
<1> HIDE DEF T
<1>10. n \in T  BY <1>0, <1>8, <1>9, InductionOnNat
<1>11. \A i \in 1..M : f[i] \in Seq(U)
  <2>1. \A i \in 1..M : i + n > n  BY <1>0
  <2> QED  BY <1>10, <2>1 DEF T
<1>12. f[n + 1] = <<>>  BY <1>0, <1>4
<1> QED  BY <1>11, <1>12 DEF n, M

(* Two digits are decoded to the character they came from.                 *)
LEMMA HexCharOf ==
  ASSUME NEW c \in DOMAIN Code, Code[c] >= 0
  PROVE  HexChar(HexDigits[Code[c] \div 16 + 1], HexDigits[(Code[c] % 16) + 1]) = c
<1> DEFINE n == Code[c]
           i == n \div 16 + 1
           j == (n % 16) + 1
           Digit(d) == IF d = Space THEN 0 ELSE (CHOOSE k \in 1..16 : HexDigits[k] = d) - 1
           m == 16 * Digit(HexDigits[i]) + Digit(HexDigits[j])
<1>1. n \in 0..127  BY CharactersCoded
<1>2. i \in 1..16 /\ j \in 1..16 /\ n = 16 * (i - 1) + (j - 1)
  <2> HIDE DEF n
  <2> QED  BY <1>1
<1>3. HexChar(HexDigits[i], HexDigits[j]) =
        CHOOSE d \in DOMAIN Code : Code[d] = IF m > 127 THEN m - 256 ELSE m
  BY DEF HexChar
<1> HIDE DEF i, j, n
<1>4. \A k \in 1..16 : Digit(HexDigits[k]) = k - 1
  <2> SUFFICES ASSUME NEW k \in 1..16 PROVE Digit(HexDigits[k]) = k - 1  OBVIOUS
  <2>1. HexDigits[k] # Space  BY HexDigitsAre
  <2>2. (CHOOSE l \in 1..16 : HexDigits[l] = HexDigits[k]) = k  BY HexDigitsAre
  <2> QED  BY <2>1, <2>2
<1> HIDE DEF Digit
<1>5. m = n  BY <1>2, <1>4
<1> HIDE DEF m
<1>6. (IF m > 127 THEN m - 256 ELSE m) = n  BY <1>1, <1>5
<1>7. (CHOOSE d \in DOMAIN Code : Code[d] = n) = c  BY CharactersCoded DEF n
<1> QED  BY <1>3, <1>6, <1>7 DEF i, j, n

(* What is decoded where a character has been written.                     *)
LEMMA DecodePiece ==
  ASSUME NEW S, NEW s \in Seq(S), NEW f, DecodeOf(s, f),
         NEW c \in DOMAIN Code, NEW k, At(s, k, Piece(c, "0"))
  PROVE  /\ Code[c] >= 0 => f[k + 1] = <<c>> \o f[k + Len(Piece(c, "0")) + 1]
         /\ Code[c] < 0 => Len(f[k + 1]) >= Len(f[k + Len(Piece(c, "0")) + 1]) + 2
<1> DEFINE p == Piece(c, "0")
           n == Code[c]
           h == HexDigits[n \div 16 + 1]
           g == HexDigits[(n % 16) + 1]
<1>1. At(s, k, p) /\ n \in Int
  <2>1. n \in Int  BY CodeIs
  <2>2. At(s, k, p)  OBVIOUS
  <2> QED  BY <2>1, <2>2
<1>2. \A i \in 1..Len(s) : /\ s[i] = "%" => f[i] = <<HexChar(s[i + 1], s[i + 2])>> \o f[i + 3]
                           /\ s[i] \notin {"%", "+"} => f[i] = <<s[i]>> \o f[i + 1]
  <2> SUFFICES ASSUME NEW i \in 1..Len(s)
               PROVE  /\ s[i] = "%" => f[i] = <<HexChar(s[i + 1], s[i + 2])>> \o f[i + 3]
                      /\ s[i] \notin {"%", "+"} => f[i] = <<s[i]>> \o f[i + 1]
    OBVIOUS
  <2> HIDE DEF p, n, h, g
  <2> QED  BY DecodeAt
<1>3. CASE Unreserved(c)
  <2>0. p = <<c>>  BY <1>3 DEF Piece
  <2>1. p = <<c>> /\ c \notin {"%", "+"} /\ n >= 0
    <3>1. c \notin {"%", "+"} /\ n >= 16  BY <1>3, UnreservedIsNone
    <3> HIDE DEF n, p
    <3> QED  BY <1>1, <2>0, <3>1
  <2>2. Len(p) = 1 /\ p[1] = c  BY <2>1
  <2> HIDE DEF p
  <2>3. k \in Nat /\ k + 1 <= Len(s) /\ s[k + 1] = c  BY <1>1, <2>2 DEF At
  <2>4. k + 1 \in 1..Len(s)  BY <2>3
  <2>5. f[k + 1] = <<c>> \o f[(k + 1) + 1]  BY <1>2, <2>1, <2>3, <2>4
  <2>6. f[k + 1] = <<c>> \o f[k + Len(p) + 1]  BY <2>2, <2>5
  <2>7. ~(n < 0)
    <3> HIDE DEF n
    <3> QED  BY <1>1, <2>1
  <2> QED  BY <2>6, <2>7 DEF p
<1>4. CASE ~Unreserved(c) /\ n >= 0
  <2>1. p = <<"%", h, g>>
    <3> DEFINE z == "0"
    <3>1. (n >= 16 \/ (n >= 0 /\ z = "0")) => Piece(c, z) = <<"%", h, g>>
      BY <1>4, PieceIs
    <3> HIDE DEF h, g, n
    <3> QED  BY <1>4, <3>1
  <2>2. HexChar(h, g) = c  BY <1>4, HexCharOf
  <2> HIDE DEF h, g
  <2>3. Len(p) = 3 /\ p[1] = "%" /\ p[2] = h /\ p[3] = g  BY <2>1
  <2> HIDE DEF p
  <2>4. k \in Nat /\ k + 3 <= Len(s) /\ \A i \in 1..3 : s[k + i] = p[i]
    BY <1>1, <2>3 DEF At
  <2>5. s[k + 1] = "%" /\ s[k + 2] = h /\ s[k + 3] = g  BY <2>3, <2>4
  <2>6. k + 1 \in 1..Len(s) /\ (k + 1) + 1 = k + 2 /\ (k + 1) + 2 = k + 3 /\ (k + 1) + 3 = k + 3 + 1
    BY <2>4
  <2>7. f[k + 1] = <<HexChar(h, g)>> \o f[k + 3 + 1]  BY <1>2, <2>5, <2>6
  <2>8. f[k + 1] = <<c>> \o f[k + Len(p) + 1]  BY <2>2, <2>3, <2>7
  <2> HIDE DEF n
  <2> QED  BY <1>1, <1>4, <2>8 DEF p, n
<1>5. CASE n < 0
  <2>1. ~Unreserved(c)
    <3>1. Unreserved(c) => n >= 16  BY UnreservedIsNone
    <3> HIDE DEF n
    <3> QED  BY <1>1, <1>5, <3>1
  <2>2. PICK i, j \in 1..16 :
          p = <<"%", "f", "f", "f", "f", "f", "f", HexDigits[i], HexDigits[j]>>
    BY <1>5, <2>1, PieceIs
  <2> DEFINE x == HexDigits[i]
             y == HexDigits[j]
  <2>3. x \notin {"%", "+"} /\ y \notin {"%", "+"} /\ "f" \notin {"%", "+"}  BY HexDigitsAre
  <2> HIDE DEF x, y
  <2>4. Len(p) = 9 /\ p[1] = "%" /\ p[4] = "f" /\ p[5] = "f" /\ p[6] = "f" /\ p[7] = "f"
        /\ p[8] = x /\ p[9] = y
    BY <2>2 DEF x, y
  <2> HIDE DEF p
  <2>5. k \in Nat /\ Len(s) \in Nat /\ k + 9 <= Len(s) /\ \A m \in 1..9 : s[k + m] = p[m]
    BY <1>1, <2>4 DEF At
  <2>6. PICK U : \A m \in 1..Len(s) + 3 : f[m] \in Seq(U)  BY DecodeStep
  <2>7. ASSUME NEW m \in 4..9
        PROVE  Len(f[k + m]) \in Nat /\ Len(f[k + m]) = Len(f[(k + m) + 1]) + 1
    <3>1. k + m \in 1..Len(s)
      <4>1. k \in Nat /\ Len(s) \in Nat /\ k + 9 <= Len(s)  BY <2>5
      <4> QED  BY ONLY <4>1, m \in 4..9
    <3>2. s[k + m] = p[m] /\ p[m] \notin {"%", "+"}
      <4>1. m = 4 \/ m = 5 \/ m = 6 \/ m = 7 \/ m = 8 \/ m = 9  OBVIOUS
      <4>2. p[m] \in {"f", x, y}  BY <2>4, <4>1
      <4>3. m \in 1..9  OBVIOUS
      <4> QED  BY <2>3, <2>5, <4>2, <4>3
    <3> DEFINE r == k + m
               q == f[r + 1]
    <3>3. f[r] = <<s[r]>> \o q  BY <1>2, <3>1, <3>2
    <3>4. q \in Seq(U)
      <4>1. r + 1 \in 1..Len(s) + 3  BY <2>5, <3>1
      <4> QED  BY <2>6, <4>1
    <3> HIDE DEF q, r
    <3>5. Len(<<s[r]>> \o q) = Len(q) + 1 /\ Len(q) \in Nat
      <4> DEFINE V == U \cup {s[r]}
      <4>1. <<s[r]>> \in Seq(V) /\ q \in Seq(V) /\ Len(<<s[r]>>) = 1  BY <3>4
      <4> QED  BY <4>1
    <3>6. Len(f[r]) \in Nat /\ Len(f[r]) = Len(q) + 1  BY <3>3, <3>5
    <3> QED  BY <3>6 DEF q, r
  <2>8. Len(f[k + 1]) \in Nat /\ Len(f[k + 1]) = Len(f[k + 4]) + 1
    <3>1. k + 1 \in 1..Len(s) /\ s[k + 1] = "%" /\ (k + 1) + 3 = k + 4 /\ k + 4 \in 1..Len(s) + 3
      <4>1. k \in Nat /\ Len(s) \in Nat /\ k + 9 <= Len(s)  BY <2>5
      <4>2. s[k + 1] = p[1] /\ p[1] = "%"
        <5>1. 1 \in 1..9  OBVIOUS
        <5> QED  BY <2>4, <2>5, <5>1
      <4>3. k + 1 \in 1..Len(s) /\ (k + 1) + 3 = k + 4 /\ k + 4 \in 1..Len(s) + 3  BY ONLY <4>1
      <4> QED  BY <4>2, <4>3
    <3> DEFINE z == HexChar(s[(k + 1) + 1], s[(k + 1) + 2])
               q == f[k + 4]
    <3>2. f[k + 1] = <<z>> \o f[(k + 1) + 3]  BY <1>2, <3>1
    <3> HIDE DEF z
    <3>3. f[k + 1] = <<z>> \o q /\ q \in Seq(U)  BY <2>6, <3>1, <3>2
    <3> HIDE DEF q
    <3>4. Len(<<z>> \o q) = Len(q) + 1 /\ Len(q) \in Nat
      <4> DEFINE V == U \cup {z}
      <4>1. <<z>> \in Seq(V) /\ q \in Seq(V) /\ Len(<<z>>) = 1  BY <3>3
      <4> QED  BY <4>1
    <3> QED  BY <3>3, <3>4 DEF q
  <2> DEFINE l(m) == Len(f[k + m])
  <2>9. l(1) = l(4) + 1 /\ l(1) \in Nat  BY <2>8
  <2>10. \A m \in 4..9 : (k + m) + 1 = k + (m + 1)  BY <2>5
  <2>11. \A m \in 4..9 : l(m) \in Nat /\ l(m) = l(m + 1) + 1  BY <2>7, <2>10
  <2> HIDE DEF l
  <2>12. l(4) = l(5) + 1 /\ l(5) = l(6) + 1 /\ l(6) = l(7) + 1 /\ l(7) = l(8) + 1
         /\ l(8) = l(9) + 1 /\ l(9) = l(10) + 1
    <3>1. \A m \in 4..9 : l(m) = l(m + 1) + 1  BY <2>11
    <3> QED  BY <3>1
  <2>13. l(10) \in Nat
    <3>1. k + 10 \in 1..Len(s) + 3  BY <2>5
    <3> QED  BY <2>6, <3>1 DEF l
  <2>14. l(1) >= l(10) + 2  BY <2>9, <2>12, <2>13
  <2>15. k + Len(p) + 1 = k + 10  BY <2>4, <2>5
  <2> HIDE DEF n
  <2> QED  BY <1>1, <1>5, <2>14, <2>15 DEF l, p, n
<1> HIDE DEF n
<1> QED  BY <1>1, <1>3, <1>4, <1>5

(* A value that uri::encoded has escaped is decoded to what it was just    *)
(* when all of it is ASCII: a character with a negative code is written    *)
(* with eight digits, of which uri::decoded takes two.                     *)
THEOREM OnlyAsciiSurvives ==
  ASSUME NEW v \in Seq(DOMAIN Code)
  PROVE  Decoded(Encoded(v)) = v <=> \A i \in 1..Len(v) : Code[v[i]] >= 0
<1> DEFINE n == Len(v)
           E == EscapeSet \cup {"0"}
           X == [i \in 1..n |-> Piece(v[i], "0")]
           s == Encoded(v)
<1>0. n \in Nat /\ \A i \in 1..n : v[i] \in DOMAIN Code /\ Code[v[i]] \in Int  BY CodeIs
<1>1. s = FlattenSeq(X)
  <2> DEFINE z == "0"
  <2>1. Escaped(v, z) = FlattenSeq([i \in 1..n |-> Piece(v[i], z)])  BY EscapedIs
  <2> QED  BY <2>1 DEF Encoded
<1>2. X \in Seq(Seq(E)) /\ Len(X) = n /\ \A i \in 1..n : X[i] = Piece(v[i], "0")
  <2>1. \A i \in 1..n : Piece(v[i], "0") \in Seq(E)  BY <1>0, PieceMadeOf
  <2> QED  BY <1>0, <2>1
<1> HIDE DEF X, s, E, n
<1>3. PICK F \in [0..n -> Seq(E)] : JoinedUp(X, F) /\ s = F[n]  BY <1>1, <1>2, FlattenJoins
<1>4. \A i \in 1..n : Len(F[i]) = Len(F[i - 1]) + Len(X[i]) /\ At(s, Len(F[i - 1]), X[i])
  BY <1>2, <1>3, JoinedPlaces
<1>5. F[0] = <<>> /\ (\A i \in 0..n : Len(F[i]) \in Nat) /\ s \in Seq(E)
  BY <1>0, <1>3 DEF JoinedUp
<1>6. PICK f : DecodeOf(s, f) /\ Decoded(s) = f[1]  BY <1>5, DecodedIs
<1> DEFINE o == [i \in 1..n + 1 |-> Len(F[i - 1]) + 1]
<1>7. o[1] = 1 /\ \A i \in 1..n : o[i] = Len(F[i - 1]) + 1 /\ o[i + 1] = Len(F[i]) + 1
  <2>1. 1 \in 1..n + 1 /\ 1 - 1 = 0  BY <1>0
  <2>2. Len(F[0]) = 0  BY <1>5
  <2>3. \A i \in 1..n : i \in 1..n + 1 /\ i + 1 \in 1..n + 1 /\ (i + 1) - 1 = i  BY <1>0
  <2> QED  BY <2>1, <2>2, <2>3
<1>8. f[o[n + 1]] = <<>>
  <2>1. n + 1 \in 1..n + 1 /\ (n + 1) - 1 = n  BY <1>0
  <2>2. o[n + 1] = Len(s) + 1  BY <1>3, <2>1
  <2> QED  BY <1>5, <1>6, <2>2, DecodeStep
<1> HIDE DEF o
<1>9. ASSUME NEW i \in 1..n
      PROVE  /\ Code[v[i]] >= 0 => f[o[i]] = <<v[i]>> \o f[o[i + 1]]
             /\ Code[v[i]] < 0 => Len(f[o[i]]) >= Len(f[o[i + 1]]) + 2
  <2> DEFINE c == v[i]
             p == Piece(c, "0")
             k == Len(F[i - 1])
             l == Len(F[i])
  <2>1. c \in DOMAIN Code /\ At(s, k, p) /\ l = k + Len(p)  BY <1>0, <1>2, <1>4
  <2>2. k \in Nat /\ Len(p) \in Nat
    <3>1. i - 1 \in 0..n  BY <1>0
    <3>2. k \in Nat  BY <1>5, <3>1
    <3>3. Len(p) \in Nat  BY <2>1 DEF At
    <3> QED  BY <3>2, <3>3
  <2>3. o[i] = k + 1 /\ o[i + 1] = l + 1  BY <1>7
  <2>4. /\ Code[c] >= 0 => f[k + 1] = <<c>> \o f[k + Len(p) + 1]
        /\ Code[c] < 0 => Len(f[k + 1]) >= Len(f[k + Len(p) + 1]) + 2
    BY <1>5, <1>6, <2>1, DecodePiece
  <2>5. o[i + 1] = k + Len(p) + 1  BY <2>1, <2>2, <2>3
  <2> QED  BY <2>3, <2>4, <2>5
<1>10. ASSUME \A i \in 1..n : Code[v[i]] >= 0 PROVE Decoded(s) = v
  <2>1. \A i \in 1..n : f[o[i]] = <<v[i]>> \o f[o[i + 1]]  BY <1>9, <1>10
  <2>2. f[o[1]] = v  BY <1>8, <2>1, Walked DEF n
  <2> QED  BY <1>6, <1>7, <2>2
<1>11. ASSUME NEW j \in 1..n, Code[v[j]] < 0 PROVE Decoded(s) # v
  <2>1. PICK U : \A m \in 1..Len(s) + 3 : f[m] \in Seq(U)  BY <1>5, <1>6, DecodeStep
  <2>2. \A i \in 1..n + 1 : f[o[i]] \in Seq(U)
    <3> SUFFICES ASSUME NEW i \in 1..n + 1 PROVE o[i] \in 1..Len(s) + 3  BY <2>1
    <3>1. CASE i = n + 1
      <4>1. n \in 1..n \/ n = 0  BY <1>0
      <4>2. o[n + 1] = Len(s) + 1
        <5>1. CASE n \in 1..n  BY <1>3, <1>7, <5>1
        <5>2. CASE n = 0
          <6>1. Len(s) = 0  BY <1>3, <1>5, <5>2
          <6> QED  BY <1>7, <5>2, <6>1
        <5> QED  BY <4>1, <5>1, <5>2
      <4>3. Len(s) \in Nat  BY <1>5
      <4> QED  BY <3>1, <4>2, <4>3
    <3>2. CASE i # n + 1
      <4>1. i \in 1..n /\ i - 1 \in 0..n  BY <1>0, <3>2
      <4>2. o[i] = Len(F[i - 1]) + 1 /\ Len(F[i - 1]) \in Nat  BY <1>5, <1>7, <4>1
      <4>3. Len(s) \in Nat  BY <1>5
      <4> DEFINE k == Len(F[i - 1])
      <4>4. At(s, k, X[i])  BY <1>4, <4>1
      <4> HIDE DEF k
      <4>5. k <= Len(s)
        <5>1. k \in Nat /\ Len(X[i]) \in Nat /\ k + Len(X[i]) <= Len(s)  BY <4>4 DEF At
        <5> QED  BY <4>3, <5>1
      <4> QED  BY <4>2, <4>3, <4>5 DEF k
    <3> QED  BY <3>1, <3>2
  <2> DEFINE l == [i \in 1..n + 1 |-> Len(f[o[i]])]
  <2>3. \A i \in 1..n + 1 : l[i] \in Nat  BY <2>2
  <2>4. \A i \in 1..n : /\ l[i] >= l[i + 1] + 1
                        /\ Code[v[i]] < 0 => l[i] >= l[i + 1] + 2
    <3> SUFFICES ASSUME NEW i \in 1..n
                 PROVE  /\ l[i] >= l[i + 1] + 1
                        /\ Code[v[i]] < 0 => l[i] >= l[i + 1] + 2
      OBVIOUS
    <3>1. i \in 1..n + 1 /\ i + 1 \in 1..n + 1  BY <1>0
    <3>2. l[i] = Len(f[o[i]]) /\ l[i + 1] = Len(f[o[i + 1]])  BY <3>1
    <3>3. l[i] \in Nat /\ l[i + 1] \in Nat  BY <2>3, <3>1
    <3> HIDE DEF l
    <3>4. CASE Code[v[i]] < 0
      <4>1. l[i] >= l[i + 1] + 2  BY <1>9, <3>2, <3>4
      <4> QED  BY <3>3, <4>1
    <3>5. CASE ~(Code[v[i]] < 0)
      <4>1. Code[v[i]] >= 0  BY <1>0, <3>5
      <4> DEFINE q == f[o[i + 1]]
      <4>2. f[o[i]] = <<v[i]>> \o q  BY <1>9, <4>1
      <4>3. q \in Seq(U)  BY <2>2, <3>1
      <4> HIDE DEF q
      <4>4. Len(<<v[i]>> \o q) = Len(q) + 1
        <5> DEFINE V == U \cup {v[i]}
        <5>1. <<v[i]>> \in Seq(V) /\ q \in Seq(V) /\ Len(<<v[i]>>) = 1  BY <4>3
        <5> QED  BY <5>1
      <4>5. l[i] = l[i + 1] + 1  BY <3>2, <4>2, <4>4 DEF q
      <4> QED  BY <3>3, <3>5, <4>5
    <3> QED  BY <3>4, <3>5
  <2> HIDE DEF l
  <2> DEFINE T == {k \in Nat : k <= n => /\ l[(n - k) + 1] >= k
                                         /\ (n - k) + 1 <= j => l[(n - k) + 1] >= k + 1}
  <2>5. 0 \in T
    <3>1. (n - 0) + 1 = n + 1 /\ n + 1 \in 1..n + 1 /\ ~(n + 1 <= j)  BY <1>0
    <3> QED  BY <2>3, <3>1
  <2>6. ASSUME NEW k \in Nat, k \in T PROVE k + 1 \in T
    <3> SUFFICES ASSUME k + 1 <= n
                 PROVE  /\ l[(n - (k + 1)) + 1] >= k + 1
                        /\ (n - (k + 1)) + 1 <= j => l[(n - (k + 1)) + 1] >= (k + 1) + 1
      OBVIOUS
    <3> DEFINE i == (n - (k + 1)) + 1
    <3>1. i \in 1..n /\ i \in 1..n + 1 /\ i + 1 \in 1..n + 1 /\ (n - k) + 1 = i + 1 /\ k <= n
      BY <1>0
    <3>2. l[i + 1] >= k /\ (i + 1 <= j => l[i + 1] >= k + 1)  BY <2>6, <3>1
    <3>3. l[i] \in Nat /\ l[i + 1] \in Nat /\ l[i] >= l[i + 1] + 1  BY <2>3, <2>4, <3>1
    <3> HIDE DEF i
    <3>4. l[i] >= k + 1  BY <3>2, <3>3
    <3>5. i <= j => l[i] >= (k + 1) + 1
      <4>1. CASE i = j
        <5>1. l[i] >= l[i + 1] + 2  BY <1>11, <2>4, <4>1
        <5> QED  BY <3>2, <3>3, <5>1
      <4>2. CASE i # j
        <5>1. i <= j => i + 1 <= j  BY <3>1, <4>2
        <5> QED  BY <3>2, <3>3, <5>1
      <4> QED  BY <4>1, <4>2
    <3> QED  BY <3>4, <3>5 DEF i
  <2> HIDE DEF T
  <2>7. n \in T  BY <1>0, <2>5, <2>6, InductionOnNat
  <2>8. (n - n) + 1 = 1 /\ n <= n /\ 1 <= j /\ 1 \in 1..n + 1  BY <1>0
  <2>9. n <= n => ((n - n) + 1 <= j => l[(n - n) + 1] >= n + 1)  BY <2>7 DEF T
  <2>10. l[1] >= n + 1  BY <2>8, <2>9
  <2>11. Len(Decoded(s)) >= n + 1  BY <1>6, <1>7, <2>8, <2>10 DEF l
  <2>12. ~(n >= n + 1)  BY <1>0
  <2> QED  BY <2>11, <2>12 DEF n
<1>12. (\A i \in 1..n : Code[v[i]] >= 0) \/ \E j \in 1..n : Code[v[j]] < 0  BY <1>0
<1> QED  BY <1>0, <1>10, <1>11, <1>12 DEF n, s
=============================================================================
