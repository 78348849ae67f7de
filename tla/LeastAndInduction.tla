------------------------- MODULE LeastAndInduction -------------------------
(***************************************************************************)
(* Facts about natural numbers that several proofs need: least and         *)
(* greatest elements, and induction. Induction is stated with a set, the   *)
(* numbers something holds of, and follows from the order of the naturals  *)
(* being well-founded.                                                     *)
(***************************************************************************)
EXTENDS Integers, FiniteSetsExt, WellFoundedInduction, TLAPS

(* A set of naturals has a least element, which Min finds.                 *)
LEMMA LeastPlace ==
  ASSUME NEW T, T \subseteq Nat, T # {}
  PROVE  Min(T) \in T /\ \A y \in T : Min(T) <= y
<1> DEFINE less == {p \in Nat \X Nat : p[1] < p[2]}
<1>1. IsWellFoundedOn(less, Nat)  BY NatLessThanWellFounded DEF OpToRel
<1>2. \A x, y \in Nat : x < y => <<x, y>> \in less  OBVIOUS
<1> HIDE DEF less
<1>3. PICK x \in T : \A y \in T : ~(<<y, x>> \in less)  BY <1>1, WFMin
<1>4. \A y \in T : ~(y < x)  BY <1>2, <1>3
<1>5. \A y \in T : x <= y
  <2> SUFFICES ASSUME NEW y \in T PROVE x <= y  OBVIOUS
  <2>1. x \in Nat /\ y \in Nat /\ ~(y < x)  BY <1>4
  <2> QED  BY <2>1
<1> QED  BY <1>5 DEF Min

LEMMA LeastUnique ==
  ASSUME NEW T, T \subseteq Nat, NEW x \in T, \A y \in T : x <= y
  PROVE  Min(T) = x
<1>1. Min(T) \in T /\ Min(T) <= x  BY LeastPlace
<1>2. x <= Min(T)  BY <1>1
<1>3. Min(T) \in Nat /\ x \in Nat  BY <1>1
<1> QED  BY <1>1, <1>2, <1>3

(* A bounded set has a greatest element, which Max finds.                  *)
LEMMA GreatestPlace ==
  ASSUME NEW b \in Nat, NEW T, T \subseteq 0..b, T # {}
  PROVE  Max(T) \in T /\ \A y \in T : y <= Max(T)
<1> DEFINE U == {b - x : x \in T}
<1>1. U \subseteq Nat
  <2> SUFFICES ASSUME NEW x \in T PROVE b - x \in Nat  OBVIOUS
  <2>1. x \in 0..b  OBVIOUS
  <2> QED  BY <2>1
<1>2. Min(U) \in U /\ \A y \in U : Min(U) <= y
  <2>1. U # {}  OBVIOUS
  <2> HIDE DEF U
  <2> QED  BY <1>1, <2>1, LeastPlace
<1>3. PICK x \in T : Min(U) = b - x  BY <1>2
<1>4. \A y \in T : x >= y
  <2> SUFFICES ASSUME NEW y \in T PROVE x >= y  OBVIOUS
  <2>1. Min(U) <= b - y  BY <1>2
  <2>2. x \in 0..b /\ y \in 0..b /\ b - x <= b - y  BY <1>3, <2>1
  <2> QED  BY <2>2
<1>5. Max(T) \in T /\ \A y \in T : Max(T) >= y
  <2>1. \E z \in T : \A y \in T : z >= y  BY <1>4
  <2> QED  BY <2>1 DEF Max
<1>6. Max(T) \in Int /\ T \subseteq Int
  <2>1. T \subseteq Int  OBVIOUS
  <2> QED  BY <1>5, <2>1
<1> QED  BY <1>5, <1>6

LEMMA GreatestUnique ==
  ASSUME NEW T, T \subseteq Int, NEW x \in T, \A y \in T : y <= x
  PROVE  Max(T) = x
<1>1. \A y \in T : x >= y
  <2> SUFFICES ASSUME NEW y \in T PROVE x >= y  OBVIOUS
  <2>1. x \in Int /\ y \in Int /\ y <= x  OBVIOUS
  <2> QED  BY <2>1
<1>2. Max(T) \in T /\ \A y \in T : Max(T) >= y  BY <1>1 DEF Max
<1>3. Max(T) \in Int /\ x \in Int /\ Max(T) >= x /\ Max(T) <= x  BY <1>2
<1> QED  BY <1>3

(* What holds of 0, and of n + 1 when it holds of n, holds of all.         *)
LEMMA InductionOnNat ==
  ASSUME NEW T, 0 \in T, \A n \in Nat : n \in T => n + 1 \in T
  PROVE  \A n \in Nat : n \in T
<1> SUFFICES ASSUME Nat \ T # {} PROVE FALSE
  OBVIOUS
<1> DEFINE least == Min(Nat \ T)
<1>1. least \in Nat \ T /\ \A y \in Nat \ T : least <= y
  BY LeastPlace
<1> HIDE DEF least
<1>2. least - 1 \in Nat /\ least - 1 + 1 = least
  BY <1>1
<1>3. least - 1 \in T
  <2>1. ~(least <= least - 1)  BY <1>1
  <2> QED  BY <1>1, <1>2, <2>1
<1> QED  BY <1>1, <1>2, <1>3
=============================================================================
