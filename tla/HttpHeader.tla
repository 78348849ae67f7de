----------------------------- MODULE HttpHeader -----------------------------
(***************************************************************************)
(* The names of headers (net::http::header). A text is a sequence of       *)
(* characters. A header keeps its name in a normal form, in which every    *)
(* part between hyphens has a capital first and small letters after it.    *)
(***************************************************************************)
EXTENDS Sequences, Naturals

CONSTANT Capital    \* the capital of each small letter

ASSUME CapitalIsBijective ==
  /\ \A c \in DOMAIN Capital : Capital[c] \notin DOMAIN Capital \cup {"-"}
  /\ \A c, d \in DOMAIN Capital : Capital[c] = Capital[d] => c = d
  /\ "-" \notin DOMAIN Capital

Upper(c) == IF c \in DOMAIN Capital THEN Capital[c] ELSE c

Lower(c) ==
  IF \E d \in DOMAIN Capital : Capital[d] = c
    THEN CHOOSE d \in DOMAIN Capital : Capital[d] = c
    ELSE c

(* header::normalize_key: a character begins a part of the name when it is *)
(* the first one or follows a hyphen.                                      *)
Normalise(k) ==
  [i \in 1..Len(k) |-> IF i = 1 \/ k[i - 1] = "-" THEN Upper(k[i]) ELSE Lower(k[i])]

(* header(k, v): the value is taken as it is.                              *)
Header(k, v) == [key |-> Normalise(k), value |-> v]

(* header::matches                                                         *)
Matches(h, k) == Normalise(k) = h.key

(* Two names that differ in nothing but the case of their letters.         *)
SameName(j, k) ==
  /\ Len(j) = Len(k)
  /\ \A i \in 1..Len(j) : Lower(j[i]) = Lower(k[i])
=============================================================================
