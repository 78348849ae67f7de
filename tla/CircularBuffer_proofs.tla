----------------------- MODULE CircularBuffer_proofs -----------------------
(***************************************************************************)
(* Proofs about the buffer, for every capacity and any number of writes    *)
(* that wait: readable() is never negative, the areas handed out are where *)
(* AreasSafe says, and the writes that wait account for all the bytes that *)
(* are to come.                                                            *)
(***************************************************************************)
EXTENDS CircularBuffer, LeastAndInduction

Placed ==
  /\ capacity \in Nat \ {0}
  /\ first \in 0..capacity - 1
  /\ size \in 0..capacity
  /\ writePending \in 0..size

-----------------------------------------------------------------------------
LEMMA MinOfTwo ==
  ASSUME NEW a \in Int, NEW b \in Int
  PROVE  Min({a, b}) = IF a <= b THEN a ELSE b
<1>1. \E x \in {a, b} : \A y \in {a, b} : x <= y  OBVIOUS
<1>2. Min({a, b}) \in {a, b} /\ \A y \in {a, b} : Min({a, b}) <= y
  BY <1>1 DEF Min
<1> QED  BY <1>2

LEMMA MaxOfTwo ==
  ASSUME NEW a \in Int, NEW b \in Int
  PROVE  Max({a, b}) = IF a >= b THEN a ELSE b
<1>1. \E x \in {a, b} : \A y \in {a, b} : x >= y  OBVIOUS
<1>2. Max({a, b}) \in {a, b} /\ \A y \in {a, b} : Max({a, b}) >= y
  BY <1>1 DEF Max
<1> QED  BY <1>2

LEMMA ModuloBound ==
  ASSUME NEW n \in Nat, NEW c \in Nat \ {0}
  PROVE  n % c \in 0..c - 1
OBVIOUS

LEMMA RoomLeft ==
  ASSUME NEW c \in Nat, NEW d \in Nat, c <= d, NEW n \in 0..c
  PROVE  d - n \in Nat /\ n \in 0..d /\ \A r \in 0..d - n : n + r \in 0..d /\ r \in 0..n + r
OBVIOUS

(* Elements that are adjacent end within the storage.                      *)
LEMMA LinearFits ==
  ASSUME NEW cap \in Nat \ {0}, NEW at \in 0..cap - 1, NEW n \in 0..cap
  PROVE  Linear(at, n, cap) \in 0..cap - 1 /\ Linear(at, n, cap) + n <= cap
BY DEF Linear, ArrayTwo, Wrapped

(* There is no more room than the storage has free.                        *)
LEMMA RoomBound ==
  ASSUME Placed, NEW target \in Nat, capacity' \in Nat, capacity <= capacity'
  PROVE  Room(target) \in 0..capacity' - size
<1>1. Asked(target) \in Nat  BY DEF Asked, Placed
<1>2. capacity \in Nat /\ size \in Nat /\ size <= capacity  BY DEF Placed
<1>3. capacity <= capacity' /\ size \in 0..capacity  BY DEF Placed
<1>4. capacity' - size \in Nat  BY <1>2, <1>3, RoomLeft
<1> QED  BY <1>1, <1>4, MinOfTwo DEF Room

LEMMA GrowPlaced ==
  ASSUME Placed, NEW target \in Nat, Grow(target)
  PROVE  capacity' \in Nat \ {0} /\ capacity <= capacity' /\ first' \in 0..capacity' - 1
BY DEF Placed, Grow

(* Where the areas of write_buffers begin and how long they are.           *)
LEMMA FreeAreasPlaced ==
  ASSUME NEW cap \in Nat \ {0}, NEW at \in 0..cap - 1, NEW n \in 0..cap,
         NEW wanted \in 0..n
  PROVE  LET one == AfterOne(at, n, cap, wanted)
             two == AfterTwo(at, n, cap, wanted)
         IN /\ one \in 0..wanted /\ two \in 0..wanted - one
            /\ at + ArrayOne(at, n, cap) \in 0..cap
            /\ one <= cap - (at + ArrayOne(at, n, cap))
            /\ ArrayTwo(at, n, cap) \in 0..at
            /\ two <= at - ArrayTwo(at, n, cap)
            /\ one > 0 => ~Wrapped(at, n, cap)
<1> DEFINE one == AfterOne(at, n, cap, wanted)
           two == AfterTwo(at, n, cap, wanted)
<1>1. at + ArrayOne(at, n, cap) \in 0..cap /\ ArrayTwo(at, n, cap) \in 0..at
  BY DEF ArrayOne, ArrayTwo, Wrapped
<1>2. cap - (at + ArrayOne(at, n, cap)) \in Nat  BY <1>1
<1>3. one \in 0..wanted /\ one <= cap - (at + ArrayOne(at, n, cap))
  BY <1>2, MinOfTwo DEF AfterOne
<1>4. at - ArrayTwo(at, n, cap) \in Nat /\ wanted - one \in Nat  BY <1>1, <1>3
<1>5. two \in 0..wanted - one /\ two <= at - ArrayTwo(at, n, cap)
  BY <1>4, MinOfTwo DEF AfterTwo
<1>6. one > 0 => ~Wrapped(at, n, cap)
  <2> SUFFICES ASSUME Wrapped(at, n, cap) PROVE one <= 0  BY <1>3
  <2>1. ArrayOne(at, n, cap) = cap - at  BY DEF ArrayOne
  <2> QED  BY <2>1, <1>3
<1> QED  BY <1>1, <1>3, <1>5, <1>6

-----------------------------------------------------------------------------
LEMMA PlacedInit == Init => Placed
BY Capacities DEF Init, Placed

LEMMA HandOutPlaced ==
  ASSUME Placed, NEW target \in Nat, HandOut(target)
  PROVE  /\ capacity' \in Nat \ {0} /\ first' \in 0..capacity' - 1
         /\ Room(target) \in 0..capacity' - size
         /\ size' = size + Room(target) /\ size' \in 0..capacity' /\ Room(target) \in 0..size'
<1>1. capacity' \in Nat \ {0} /\ capacity <= capacity' /\ first' \in 0..capacity' - 1
  BY GrowPlaced DEF HandOut
<1>2. Room(target) \in 0..capacity' - size  BY <1>1, RoomBound
<1>3. size' = size + Room(target)  BY DEF HandOut
<1>4. capacity \in Nat /\ size \in 0..capacity  BY DEF Placed
<1>5. size + Room(target) \in 0..capacity' /\ Room(target) \in 0..size + Room(target)
  BY <1>1, <1>2, <1>4, RoomLeft
<1> QED  BY <1>1, <1>2, <1>3, <1>5

LEMMA LinearWritablePlaced ==
  ASSUME Placed, NEW target \in Nat, LinearWritable(target)
  PROVE  /\ capacity' \in Nat \ {0} /\ first' \in 0..capacity' - 1
         /\ Room(target) \in 0..capacity' - size
         /\ size' = size + Room(target) /\ size' \in 0..capacity' /\ Room(target) \in 0..size'
         /\ first' + size' <= capacity'
<1>1. capacity' \in Nat \ {0} /\ capacity <= capacity'
  BY MaxOfTwo DEF LinearWritable, Placed
<1>2. Room(target) \in 0..capacity' - size  BY <1>1, RoomBound
<1>3. size' = size + Room(target)  BY DEF LinearWritable
<1>4. capacity \in Nat /\ size \in 0..capacity  BY DEF Placed
<1>5. size + Room(target) \in 0..capacity' /\ Room(target) \in 0..size + Room(target)
  BY <1>1, <1>2, <1>4, RoomLeft
<1> DEFINE current == IF capacity' > capacity THEN 0 ELSE first
<1>6. current \in 0..capacity' - 1 /\ first' = Linear(current, size', capacity')
  BY <1>1 DEF LinearWritable, Placed
<1> HIDE DEF current
<1>7. first' \in 0..capacity' - 1 /\ first' + size' <= capacity'
  BY <1>1, <1>3, <1>5, <1>6, LinearFits
<1> QED  BY <1>1, <1>2, <1>3, <1>5, <1>7

LEMMA PlacedNext == Placed /\ [Next]_vars => Placed'
<1> SUFFICES ASSUME Placed, [Next]_vars PROVE Placed'  OBVIOUS
<1> USE Capacities
<1>1. ASSUME NEW target \in 0..MaxCapacity, ReadBuffers(target) PROVE Placed'
  BY <1>1, GrowPlaced DEF ReadBuffers, Placed
<1>2. ASSUME NEW target \in 0..MaxCapacity, LinearWritable(target) PROVE Placed'
  <2>1. writePending' = writePending  BY <1>2 DEF LinearWritable
  <2> QED  BY <1>2, <2>1, LinearWritablePlaced DEF Placed
<1>3. ASSUME NEW target \in 0..MaxCapacity, WriteBuffers(target) PROVE Placed'
  <2>1. HandOut(target) /\ writePending' = writePending  BY <1>3 DEF WriteBuffers
  <2> QED  BY <2>1, HandOutPlaced DEF Placed
<1>4. ASSUME NEW target \in 0..MaxCapacity, Write(target) PROVE Placed'
  <2> DEFINE one == AfterOne(first', size', capacity', Room(target))
             two == AfterTwo(first', size', capacity', Room(target))
  <2>1. HandOut(target) /\ writePending' = writePending + (one + two)
    BY <1>4 DEF Write
  <2>2. /\ capacity' \in Nat \ {0} /\ first' \in 0..capacity' - 1
        /\ size' = size + Room(target) /\ size' \in 0..capacity' /\ Room(target) \in 0..size'
    BY <2>1, HandOutPlaced
  <2>3. one \in 0..Room(target) /\ two \in 0..Room(target) - one
    BY <2>2, FreeAreasPlaced
  <2> HIDE DEF one, two
  <2>4. size \in Nat /\ writePending \in 0..size  BY DEF Placed
  <2>5. writePending' \in 0..size'  BY <2>1, <2>2, <2>3, <2>4
  <2> QED  BY <2>2, <2>5 DEF Placed
<1>5. CASE PushBack
  <2>1. first + 1 \in Nat /\ capacity \in Nat \ {0}  BY DEF Placed
  <2>2. first' \in 0..capacity - 1  BY <1>5, <2>1, ModuloBound DEF PushBack, Placed
  <2> QED  BY <1>5, <2>2 DEF PushBack, Placed
<1>6. ASSUME NEW n \in 1..MaxCapacity, EraseBegin(n) PROVE Placed'
  <2>1. first + n \in Nat  BY DEF Placed
  <2>2. first' \in 0..capacity - 1  BY <1>6, <2>1, ModuloBound DEF EraseBegin, Placed
  <2> QED  BY <1>6, <2>2 DEF EraseBegin, Readable, Placed
<1>7. ASSUME NEW bytes \in 1..MaxCapacity, WriteComplete(bytes) PROVE Placed'
  BY <1>7 DEF WriteComplete, Placed
<1>8. CASE UNCHANGED vars  BY <1>8 DEF vars, Placed
<1> QED  BY <1>1, <1>2, <1>3, <1>4, <1>5, <1>6, <1>7, <1>8 DEF Next

THEOREM AlwaysPlaced == Spec => []Placed
<1> QED  BY PlacedInit, PlacedNext, PTL DEF Spec

(* The bytes that are still to be written are among the elements, so that  *)
(* readable() does not wrap around: write() counts no more than it has     *)
(* reserved, and callers erase no more than is readable.                   *)
THEOREM ReadableNeverNegative == Spec => []PendingAreElements
<1>1. Placed => PendingAreElements  BY DEF Placed, PendingAreElements
<1> QED  BY <1>1, AlwaysPlaced, PTL

-----------------------------------------------------------------------------
(* Where the areas are after a call, in storage of any capacity.           *)
AreasApart ==
  /\ \A a \in areas :
       /\ a.at + a.count <= capacity
       /\ IF a.of = "elements"
            THEN PlacesIn(a.at, a.count, capacity)
                   = PlacesIn(first, size, capacity) \ PlacesIn(first, size - a.count, capacity)
            ELSE PlacesIn(a.at, a.count, capacity) \cap PlacesIn(first, size, capacity) = {}
  /\ \A a, b \in areas : a # b =>
       PlacesIn(a.at, a.count, capacity) \cap PlacesIn(b.at, b.count, capacity) = {}

LEMMA LinearAreaSafe ==
  ASSUME NEW cap \in Nat \ {0}, NEW at \in 0..cap - 1, NEW n \in 0..cap,
         NEW count \in 0..cap - n, at + (n + count) <= cap
  PROVE  /\ (at + n) + count <= cap
         /\ PlacesIn(at + n, count, cap)
              = PlacesIn(at, n + count, cap) \ PlacesIn(at, (n + count) - count, cap)
BY DEF PlacesIn

LEMMA AfterOneSafe ==
  ASSUME NEW cap \in Nat \ {0}, NEW at \in 0..cap - 1, NEW n \in 0..cap,
         NEW count \in Nat \ {0}, ~Wrapped(at, n, cap), at + n + count <= cap
  PROVE  PlacesIn(at + n, count, cap) \cap PlacesIn(at, n, cap) = {}
BY DEF PlacesIn

LEMMA AfterTwoSafe ==
  ASSUME NEW cap \in Nat \ {0}, NEW at \in 0..cap - 1, NEW n \in 0..cap,
         NEW count \in Nat \ {0}, count <= at - ArrayTwo(at, n, cap)
  PROVE  PlacesIn(ArrayTwo(at, n, cap), count, cap) \cap PlacesIn(at, n, cap) = {}
<1>1. CASE Wrapped(at, n, cap)
  <2>1. ArrayTwo(at, n, cap) = at + n - cap  BY <1>1 DEF ArrayTwo
  <2> QED  BY <2>1 DEF PlacesIn
<1>2. CASE ~Wrapped(at, n, cap)
  <2>1. ArrayTwo(at, n, cap) = 0  BY <1>2 DEF ArrayTwo
  <2>2. n = 0 \/ at + n < cap  BY <1>2 DEF Wrapped
  <2> QED  BY <2>1, <2>2 DEF PlacesIn
<1> QED  BY <1>1, <1>2

LEMMA FreeAreasApart ==
  ASSUME NEW cap \in Nat \ {0}, NEW at \in 0..cap - 1, NEW n \in Nat,
         NEW one \in Nat, at + n + one <= cap,
         NEW b \in Nat, NEW two \in Nat, b + two <= at
  PROVE  PlacesIn(at + n, one, cap) \cap PlacesIn(b, two, cap) = {}
BY DEF PlacesIn

(* The areas of write_buffers, wherever the elements lie.                  *)
SafeAreas(free, at, n, cap) ==
  /\ \A a \in free : /\ a.of # "elements" /\ a.at + a.count <= cap
                     /\ PlacesIn(a.at, a.count, cap) \cap PlacesIn(at, n, cap) = {}
  /\ \A a, b \in free : a # b =>
       PlacesIn(a.at, a.count, cap) \cap PlacesIn(b.at, b.count, cap) = {}

LEMMA FreeAreasSafe ==
  ASSUME NEW cap \in Nat \ {0}, NEW at \in 0..cap - 1, NEW n \in 0..cap,
         NEW wanted \in 0..n
  PROVE  SafeAreas(FreeAreas(at, n, cap, wanted), at, n, cap)
<1> DEFINE one == AfterOne(at, n, cap, wanted)
           two == AfterTwo(at, n, cap, wanted)
           x == [at |-> at + ArrayOne(at, n, cap), of |-> "after one", count |-> one]
           y == [at |-> ArrayTwo(at, n, cap), of |-> "after two", count |-> two]
<1>1. /\ one \in Nat /\ two \in Nat
      /\ at + ArrayOne(at, n, cap) \in 0..cap
      /\ one <= cap - (at + ArrayOne(at, n, cap))
      /\ ArrayTwo(at, n, cap) \in 0..at
      /\ two <= at - ArrayTwo(at, n, cap)
      /\ one > 0 => ~Wrapped(at, n, cap)
  <2>1. /\ one \in 0..wanted /\ two \in 0..wanted - one
        /\ at + ArrayOne(at, n, cap) \in 0..cap
        /\ one <= cap - (at + ArrayOne(at, n, cap))
        /\ ArrayTwo(at, n, cap) \in 0..at
        /\ two <= at - ArrayTwo(at, n, cap)
        /\ one > 0 => ~Wrapped(at, n, cap)
    BY FreeAreasPlaced
  <2> HIDE DEF one, two
  <2> QED  BY <2>1
<1>2. \A a \in FreeAreas(at, n, cap, wanted) :
        \/ a = x /\ one > 0
        \/ a = y /\ two > 0
  <2>1. FreeAreas(at, n, cap, wanted) = {a \in {x, y} : a.count > 0}  BY DEF FreeAreas
  <2>2. x.count = one /\ y.count = two  OBVIOUS
  <2> HIDE DEF x, y
  <2> QED  BY <2>1, <2>2
<1> HIDE DEF one, two
<1>3. ASSUME one > 0
      PROVE  /\ x.at = at + n /\ at + n + one <= cap
             /\ PlacesIn(x.at, x.count, cap) \cap PlacesIn(at, n, cap) = {}
  <2>1. ~Wrapped(at, n, cap) /\ ArrayOne(at, n, cap) = n  BY <1>1, <1>3 DEF ArrayOne
  <2>2. at + n + one <= cap /\ one \in Nat \ {0}  BY <1>1, <1>3, <2>1
  <2> QED  BY <2>1, <2>2, AfterOneSafe
<1>4. ASSUME two > 0
      PROVE  /\ y.at \in Nat /\ y.at + two <= at
             /\ PlacesIn(y.at, y.count, cap) \cap PlacesIn(at, n, cap) = {}
  <2>1. two \in Nat \ {0} /\ ArrayTwo(at, n, cap) \in Nat
        /\ ArrayTwo(at, n, cap) + two <= at
    BY <1>1, <1>4
  <2> QED  BY <1>1, <2>1, AfterTwoSafe
<1>5. ASSUME one > 0, two > 0
      PROVE  PlacesIn(x.at, x.count, cap) \cap PlacesIn(y.at, y.count, cap) = {}
  <2>1. at + n + one <= cap  BY <1>3, <1>5
  <2>2. ArrayTwo(at, n, cap) \in Nat /\ ArrayTwo(at, n, cap) + two <= at
    BY <1>4, <1>5
  <2>3. PlacesIn(at + n, one, cap) \cap PlacesIn(ArrayTwo(at, n, cap), two, cap) = {}
    <3>1. n \in Nat /\ one \in Nat /\ two \in Nat  BY <1>1
    <3> DEFINE b == ArrayTwo(at, n, cap)
    <3>2. b \in Nat /\ b + two <= at  BY <2>2
    <3> HIDE DEF b
    <3>3. PlacesIn(at + n, one, cap) \cap PlacesIn(b, two, cap) = {}
      BY <2>1, <3>1, <3>2, FreeAreasApart
    <3> QED  BY <3>3 DEF b
  <2>4. x.at = at + n  BY <1>3, <1>5
  <2>5. x.count = one /\ y.at = ArrayTwo(at, n, cap) /\ y.count = two  OBVIOUS
  <2> QED  BY <2>3, <2>4, <2>5
<1>6. \A a \in FreeAreas(at, n, cap, wanted) :
        /\ a.of # "elements" /\ a.at + a.count <= cap
        /\ PlacesIn(a.at, a.count, cap) \cap PlacesIn(at, n, cap) = {}
  <2> SUFFICES ASSUME NEW a \in FreeAreas(at, n, cap, wanted)
               PROVE  /\ a.of # "elements" /\ a.at + a.count <= cap
                      /\ PlacesIn(a.at, a.count, cap) \cap PlacesIn(at, n, cap) = {}
    OBVIOUS
  <2>1. CASE a = x /\ one > 0
    <3>1. x.of # "elements" /\ x.at + x.count <= cap  BY <1>3, <2>1
    <3> QED  BY <1>3, <2>1, <3>1
  <2>2. CASE a = y /\ two > 0
    <3>1. ArrayTwo(at, n, cap) \in Nat /\ ArrayTwo(at, n, cap) + two <= at
      BY <1>4, <2>2
    <3>2. ArrayTwo(at, n, cap) + two <= cap  BY <1>1, <3>1
    <3>3. y.of # "elements" /\ y.at = ArrayTwo(at, n, cap) /\ y.count = two  OBVIOUS
    <3> QED  BY <1>4, <2>2, <3>2, <3>3
  <2> QED  BY <1>2, <2>1, <2>2
<1>7. \A a, b \in FreeAreas(at, n, cap, wanted) : a # b =>
        PlacesIn(a.at, a.count, cap) \cap PlacesIn(b.at, b.count, cap) = {}
  BY <1>2, <1>5
<1> QED  BY <1>6, <1>7 DEF SafeAreas

LEMMA HandOutApart ==
  ASSUME Placed, NEW target \in Nat, HandOut(target) PROVE AreasApart'
<1>1. /\ capacity' \in Nat \ {0} /\ first' \in 0..capacity' - 1
      /\ size' \in 0..capacity' /\ Room(target) \in 0..size'
  BY HandOutPlaced
<1>2. areas' = FreeAreas(first', size', capacity', Room(target))  BY DEF HandOut
<1>3. SafeAreas(areas', first', size', capacity')  BY <1>1, <1>2, FreeAreasSafe
<1> QED  BY <1>3 DEF SafeAreas, AreasApart

LEMMA LinearWritableApart ==
  ASSUME Placed, NEW target \in Nat, LinearWritable(target) PROVE AreasApart'
<1>1. /\ capacity' \in Nat \ {0} /\ first' \in 0..capacity' - 1
      /\ size \in 0..capacity' /\ Room(target) \in 0..capacity' - size
      /\ size' = size + Room(target) /\ first' + (size + Room(target)) <= capacity'
  <2>1. /\ capacity' \in Nat \ {0} /\ first' \in 0..capacity' - 1
        /\ Room(target) \in 0..capacity' - size
        /\ size' = size + Room(target) /\ size' \in 0..capacity' /\ Room(target) \in 0..size'
        /\ first' + size' <= capacity'
    BY LinearWritablePlaced
  <2>2. capacity <= capacity'  BY MaxOfTwo DEF LinearWritable, Placed
  <2>3. size \in 0..capacity /\ capacity \in Nat  BY DEF Placed
  <2>4. size \in 0..capacity'  BY <2>1, <2>2, <2>3, RoomLeft
  <2> QED  BY <2>1, <2>3, <2>4
<1> DEFINE n == Room(target)
           a == [at |-> first' + size, count |-> n, of |-> "elements"]
<1>2. areas' = {a}  BY DEF LinearWritable
<1>3. /\ (first' + size) + n <= capacity'
      /\ PlacesIn(first' + size, n, capacity')
           = PlacesIn(first', size + n, capacity') \ PlacesIn(first', (size + n) - n, capacity')
  BY <1>1, LinearAreaSafe
<1> HIDE DEF n
<1>4. \A b \in areas' :
        /\ b.of = "elements" /\ b.at + b.count <= capacity'
        /\ PlacesIn(b.at, b.count, capacity')
             = PlacesIn(first', size', capacity') \ PlacesIn(first', size' - b.count, capacity')
  BY <1>1, <1>2, <1>3 DEF n
<1>5. \A b, c \in areas' : b = c  BY <1>2
<1> QED  BY <1>4, <1>5 DEF AreasApart

(* What had been there keeps its place among what is there now.            *)
LEMMA FewerPlaces ==
  ASSUME NEW cap \in Nat, NEW at \in Nat, NEW n \in Nat, NEW m \in Nat, n <= m
  PROVE  PlacesIn(at, n, cap) \subseteq PlacesIn(at, m, cap)
BY DEF PlacesIn

(* The areas of a call that are apart leave alone what had been there.     *)
LEMMA HandOutKeeps ==
  ASSUME Placed, NEW target \in Nat, HandOut(target)
  PROVE  \A a \in areas' :
           PlacesIn(a.at, a.count, capacity') \cap PlacesIn(first', size, capacity') = {}
<1>1. /\ capacity' \in Nat \ {0} /\ first' \in 0..capacity' - 1
      /\ size' \in 0..capacity' /\ Room(target) \in 0..size'
  BY HandOutPlaced
<1>2. areas' = FreeAreas(first', size', capacity', Room(target)) /\ size' = size + Room(target)
  BY DEF HandOut
<1>3. SafeAreas(areas', first', size', capacity')  BY <1>1, <1>2, FreeAreasSafe
<1>4. size \in Nat /\ size <= size'  BY <1>1, <1>2 DEF Placed
<1>5. PlacesIn(first', size, capacity') \subseteq PlacesIn(first', size', capacity')
  BY <1>1, <1>4, FewerPlaces
<1> QED  BY <1>3, <1>5 DEF SafeAreas

(* No area that is handed out reaches past the storage, shares a place     *)
(* with another or holds an element that was there before the call, in     *)
(* storage of any size, with the elements anywhere in it, and grown or not;*)
(* and linear_writable hands out elements.                                 *)
THEOREM AreasAlwaysSafe == Spec => AreasSafe
<1> DEFINE Keeps == \A a \in areas' :
             PlacesIn(a.at, a.count, capacity') \cap PlacesIn(first', size, capacity') = {}
           Step == /\ \A a \in areas' :
                        /\ a.at + a.count <= capacity'
                        /\ PlacesIn(a.at, a.count, capacity')
                             \cap PlacesIn(first', size, capacity') = {}
                        /\ a.of = "elements" =>
                             PlacesIn(a.at, a.count, capacity')
                               \subseteq PlacesIn(first', size', capacity')
                   /\ \A a, b \in areas' : a # b =>
                        PlacesIn(a.at, a.count, capacity')
                          \cap PlacesIn(b.at, b.count, capacity') = {}
<1>1. ASSUME AreasApart', Keeps PROVE Step
  BY <1>1 DEF AreasApart
<1>2. ASSUME Placed, Next PROVE Step
  <2> USE <1>2, Capacities
  <2>1. ASSUME areas' = {} PROVE Step  BY <2>1
  <2>2. ASSUME NEW target \in 0..MaxCapacity, HandOut(target) PROVE Step
    <3>1. Keeps  BY <2>2, HandOutKeeps
    <3>2. AreasApart'  BY <2>2, HandOutApart
    <3> HIDE DEF Keeps, Step
    <3> QED  BY <1>1, <3>1, <3>2
  <2>3. ASSUME NEW target \in 0..MaxCapacity, LinearWritable(target) PROVE Step
    <3>1. AreasApart'  BY <2>3, LinearWritableApart
    <3>2. /\ areas' = {[at |-> first' + size, count |-> Room(target), of |-> "elements"]}
          /\ size' = size + Room(target)
      BY <2>3 DEF LinearWritable
    <3>3. size \in Nat /\ Room(target) \in Int
      BY <2>3, LinearWritablePlaced DEF Placed
    <3>4. \A a \in areas' : a.of = "elements" /\ size' - a.count = size  BY <3>2, <3>3
    <3>5. Keeps  BY <3>1, <3>4 DEF AreasApart
    <3> HIDE DEF Keeps, Step
    <3> QED  BY <1>1, <3>1, <3>5
  <2> HIDE DEF Step
  <2>4. ASSUME NEW target \in 0..MaxCapacity,
               ReadBuffers(target) \/ LinearWritable(target)
                 \/ WriteBuffers(target) \/ Write(target)
        PROVE  Step
    BY <2>1, <2>2, <2>3, <2>4 DEF ReadBuffers, WriteBuffers, Write
  <2>5. CASE PushBack  BY <2>1, <2>5 DEF PushBack
  <2>6. ASSUME NEW n \in 1..MaxCapacity, EraseBegin(n) \/ WriteComplete(n) PROVE Step
    BY <2>1, <2>6 DEF EraseBegin, WriteComplete
  <2> QED  BY <2>4, <2>5, <2>6 DEF Next
<1>3. Placed /\ [Next]_vars => [Step]_vars
  <2> HIDE DEF Step
  <2> QED  BY <1>2
<1>4. AreasSafe <=> [][Step]_vars  BY DEF AreasSafe
<1> HIDE DEF Step
<1> QED  BY <1>3, <1>4, AlwaysPlaced, PTL DEF Spec

-----------------------------------------------------------------------------
(***************************************************************************)
(* Sums. Total is a fold, defined by recursion over the sets of places of  *)
(* a sequence; the proofs go by the sums of its first elements.            *)
(***************************************************************************)
SumOver(q, S, iter) ==
  iter = [s \in SUBSET S |-> IF s = {} THEN 0 ELSE iter[s \ {Max(s)}] + q[Max(s)]]

(* p[n] is the sum of the first n elements of q.                           *)
Sums(q, p) ==
  /\ p[0] = 0
  /\ \A n \in Nat : n < Len(q) => p[n + 1] = p[n] + q[n + 1]

LEMMA GreatestOfFirst ==
  ASSUME NEW n \in Nat
  PROVE  /\ \A s \in SUBSET (1..n + 1) : n + 1 \in s => Max(s) = n + 1
         /\ \A s \in SUBSET (1..n + 1) : n + 1 \notin s => s \in SUBSET (1..n)
         /\ \A s \in SUBSET (1..n + 1) : s \ {n + 1} \in SUBSET (1..n)
         /\ \A s \in SUBSET (1..n) : s # {} => Max(s) \in s
<1>1. ASSUME NEW s \in SUBSET (1..n + 1), n + 1 \in s PROVE Max(s) = n + 1
  <2>1. s \subseteq Int /\ \A y \in s : y <= n + 1  OBVIOUS
  <2> DEFINE m == n + 1
  <2>2. m \in s /\ \A y \in s : y <= m  BY <1>1, <2>1
  <2> HIDE DEF m
  <2>3. Max(s) = m  BY <2>1, <2>2, GreatestUnique
  <2> QED  BY <2>3 DEF m
<1>2. ASSUME NEW s \in SUBSET (1..n), s # {} PROVE Max(s) \in s
  <2>1. s \subseteq 0..n  OBVIOUS
  <2> QED  BY <1>2, <2>1, GreatestPlace
<1>3. \A i \in 1..n + 1 : i # n + 1 => i \in 1..n  OBVIOUS
<1> QED  BY <1>1, <1>2, <1>3

(* The recursion over sets of places has a solution.                       *)
LEMMA SumOverExists ==
  ASSUME NEW q
  PROVE  \A n \in Nat : \E iter : SumOver(q, 1..n, iter)
<1> DEFINE T == {n \in Nat : \E iter : SumOver(q, 1..n, iter)}
<1>1. 0 \in T
  <2> DEFINE none == [s \in SUBSET (1..0) |-> 0]
  <2>1. \A s \in SUBSET (1..0) : s = {}  OBVIOUS
  <2>2. SumOver(q, 1..0, none)  BY <2>1 DEF SumOver
  <2> HIDE DEF none
  <2> QED  BY <2>2
<1>2. ASSUME NEW n \in Nat, n \in T PROVE n + 1 \in T
  <2>1. PICK g : SumOver(q, 1..n, g)  BY <1>2
  <2> DEFINE h == [s \in SUBSET (1..n + 1) |->
                     IF n + 1 \in s THEN g[s \ {n + 1}] + q[n + 1] ELSE g[s]]
  <2>2. \A s \in SUBSET (1..n) : g[s] = IF s = {} THEN 0 ELSE g[s \ {Max(s)}] + q[Max(s)]
    BY <2>1 DEF SumOver
  <2>3. \A s \in SUBSET (1..n) : s \in SUBSET (1..n + 1) /\ n + 1 \notin s /\ h[s] = g[s]
    <3>1. \A i \in 1..n : i \in 1..n + 1 /\ i # n + 1  OBVIOUS
    <3> QED  BY <3>1
  <2>4. ASSUME NEW s \in SUBSET (1..n + 1)
        PROVE  h[s] = IF s = {} THEN 0 ELSE h[s \ {Max(s)}] + q[Max(s)]
    <3>1. CASE n + 1 \in s
      <4>1. Max(s) = n + 1 /\ s \ {n + 1} \in SUBSET (1..n)  BY <3>1, GreatestOfFirst
      <4>2. h[s] = g[s \ {n + 1}] + q[n + 1]  BY <3>1
      <4>3. h[s \ {n + 1}] = g[s \ {n + 1}]  BY <2>3, <4>1
      <4> HIDE DEF h
      <4> QED  BY <3>1, <4>1, <4>2, <4>3
    <3>2. CASE n + 1 \notin s
      <4>1. s \in SUBSET (1..n)  BY <3>2, GreatestOfFirst
      <4>2. h[s] = g[s]  BY <2>3, <4>1
      <4>3. s # {} => s \ {Max(s)} \in SUBSET (1..n)  BY <4>1
      <4>4. s # {} => h[s \ {Max(s)}] = g[s \ {Max(s)}]  BY <2>3, <4>3
      <4> HIDE DEF h
      <4> QED  BY <2>2, <4>1, <4>2, <4>4
    <3> QED  BY <3>1, <3>2
  <2>5. h = [s \in SUBSET (1..n + 1) |->
               IF s = {} THEN 0 ELSE h[s \ {Max(s)}] + q[Max(s)]]
    <3> DEFINE F(s) == IF n + 1 \in s THEN g[s \ {n + 1}] + q[n + 1] ELSE g[s]
               G(s) == IF s = {} THEN 0 ELSE h[s \ {Max(s)}] + q[Max(s)]
    <3>1. \A s \in SUBSET (1..n + 1) : F(s) = G(s)  BY <2>4
    <3>2. h = [s \in SUBSET (1..n + 1) |-> F(s)]  OBVIOUS
    <3> HIDE DEF F, G, h
    <3>3. h = [s \in SUBSET (1..n + 1) |-> G(s)]  BY <3>1, <3>2
    <3> QED  BY <3>3 DEF G
  <2> HIDE DEF h
  <2>6. SumOver(q, 1..n + 1, h)  BY <2>5 DEF SumOver
  <2> QED  BY <2>6
<1> HIDE DEF T
<1>3. \A n \in Nat : n \in T  BY <1>1, <1>2, InductionOnNat
<1> QED  BY <1>3 DEF T

(* The sum of a sequence is the last of the sums of its first elements.    *)
LEMMA TotalIsLastSum ==
  ASSUME NEW S, NEW q \in Seq(S)
  PROVE  \E p : Sums(q, p) /\ Total(q) = p[Len(q)]
<1> DEFINE D == DOMAIN q
           it == CHOOSE iter : SumOver(q, D, iter)
<1>1. D = 1..Len(q) /\ Len(q) \in Nat  OBVIOUS
<1>2. SumOver(q, D, it)
  <2>1. \E iter : SumOver(q, D, iter)  BY <1>1, SumOverExists
  <2> QED  BY <2>1
<1>3. Total(q) = it[D]
  BY DEF Total, FoldLeft, MapThenFoldSet, SumOver
<1> HIDE DEF D, it
<1>4. \A s \in SUBSET D : it[s] = IF s = {} THEN 0 ELSE it[s \ {Max(s)}] + q[Max(s)]
  BY <1>2 DEF SumOver
<1> DEFINE p == [n \in Nat |-> it[1..n]]
<1>5. p[0] = 0
  <2>1. 1..0 = {} /\ {} \in SUBSET D  OBVIOUS
  <2> QED  BY <1>4, <2>1
<1>6. ASSUME NEW n \in Nat, n < Len(q) PROVE p[n + 1] = p[n] + q[n + 1]
  <2>1. 1..n + 1 \in SUBSET D /\ n + 1 \in 1..n + 1  BY <1>1, <1>6
  <2>2. Max(1..n + 1) = n + 1  BY <2>1, GreatestOfFirst
  <2>3. (1..n + 1) \ {n + 1} = 1..n  OBVIOUS
  <2>4. it[1..n + 1] = it[1..n] + q[n + 1]  BY <1>4, <2>1, <2>2, <2>3
  <2> QED  BY <2>4
<1>7. p[Len(q)] = it[D]  BY <1>1
<1> HIDE DEF p
<1> QED  BY <1>3, <1>5, <1>6, <1>7 DEF Sums

LEMMA SumsInNat ==
  ASSUME NEW q \in Seq(Nat), NEW p, Sums(q, p)
  PROVE  \A n \in Nat : n <= Len(q) => p[n] \in Nat
<1> DEFINE T == {n \in Nat : n <= Len(q) => p[n] \in Nat}
<1>1. 0 \in T  BY DEF Sums
<1>2. ASSUME NEW n \in Nat, n \in T PROVE n + 1 \in T
  <2> SUFFICES ASSUME n + 1 <= Len(q) PROVE p[n + 1] \in Nat  OBVIOUS
  <2>1. n < Len(q) /\ n + 1 \in 1..Len(q)  OBVIOUS
  <2>2. p[n] \in Nat /\ q[n + 1] \in Nat  BY <1>2, <2>1
  <2>3. p[n + 1] = p[n] + q[n + 1]  BY <2>1 DEF Sums
  <2> QED  BY <2>2, <2>3
<1> HIDE DEF T
<1>3. \A n \in Nat : n \in T  BY <1>1, <1>2, InductionOnNat
<1> QED  BY <1>3 DEF T

(* Where r is a part of q, from m on, its sums are differences of q's.     *)
LEMMA SumsOfPart ==
  ASSUME NEW q \in Seq(Nat), NEW r \in Seq(Nat), NEW a, Sums(q, a), NEW b, Sums(r, b),
         NEW m \in Nat, m + Len(r) <= Len(q),
         \A i \in 1..Len(r) : r[i] = q[m + i]
  PROVE  \A n \in Nat : n <= Len(r) => a[m + n] = a[m] + b[n]
<1> DEFINE T == {n \in Nat : n <= Len(r) => a[m + n] = a[m] + b[n]}
<1>0. Len(q) \in Nat /\ Len(r) \in Nat  OBVIOUS
<1>1. 0 \in T
  <2>1. a[m] \in Nat /\ b[0] = 0
    <3>1. m <= Len(q)  BY <1>0
    <3> QED  BY <3>1, SumsInNat DEF Sums
  <2>2. m + 0 = m /\ a[m] + 0 = a[m]  BY <2>1
  <2> QED  BY <2>1, <2>2
<1>2. ASSUME NEW n \in Nat, n \in T PROVE n + 1 \in T
  <2> SUFFICES ASSUME n + 1 <= Len(r) PROVE a[m + (n + 1)] = a[m] + b[n + 1]  OBVIOUS
  <2>1. n <= Len(r) /\ n < Len(r) /\ m + n \in Nat /\ m + n < Len(q) /\ n + 1 \in 1..Len(r)
        /\ m <= Len(q)
    BY <1>0
  <2>2. a[m + n] = a[m] + b[n]  BY <1>2, <2>1
  <2>3. a[m + n + 1] = a[m + n] + q[m + n + 1]  BY <2>1 DEF Sums
  <2>4. b[n + 1] = b[n] + r[n + 1]  BY <2>1 DEF Sums
  <2>5. m + n + 1 = m + (n + 1)  OBVIOUS
  <2>6. r[n + 1] = q[m + n + 1]  BY <2>1, <2>5
  <2>7. a[m] \in Nat /\ b[n] \in Nat /\ r[n + 1] \in Nat
    <3>1. \A i \in Nat : i <= Len(q) => a[i] \in Nat  BY SumsInNat
    <3>2. \A i \in Nat : i <= Len(r) => b[i] \in Nat  BY SumsInNat
    <3>3. r[n + 1] \in Nat
      <4>1. r \in Seq(Nat) /\ n + 1 \in 1..Len(r)  BY <2>1
      <4> QED  BY ONLY <4>1
    <3> QED  BY <2>1, <3>1, <3>2, <3>3
  <2>8. b[n + 1] = b[n] + q[m + n + 1] /\ q[m + n + 1] \in Nat  BY <2>4, <2>6, <2>7
  <2>9. a[m + (n + 1)] = (a[m] + b[n]) + q[m + n + 1]  BY <2>2, <2>3, <2>5
  <2> DEFINE x == a[m]  y == b[n]  z == q[m + n + 1]
  <2>10. /\ x \in Nat /\ y \in Nat /\ z \in Nat
         /\ a[m + (n + 1)] = (x + y) + z /\ b[n + 1] = y + z
    BY <2>7, <2>8, <2>9
  <2> HIDE DEF x, y, z
  <2>11. a[m + (n + 1)] = x + b[n + 1]  BY <2>10
  <2> QED  BY <2>11 DEF x
<1> HIDE DEF T
<1>3. \A n \in Nat : n \in T  BY <1>1, <1>2, InductionOnNat
<1> QED  BY <1>3 DEF T

LEMMA TotalInNat == ASSUME NEW q \in Seq(Nat) PROVE Total(q) \in Nat
<1>1. PICK p : Sums(q, p) /\ Total(q) = p[Len(q)]  BY TotalIsLastSum
<1>2. Len(q) \in Nat /\ Len(q) <= Len(q)  OBVIOUS
<1> QED  BY <1>1, <1>2, SumsInNat

LEMMA TotalOfNone == Total(<<>>) = 0
<1>1. <<>> \in Seq(Nat) /\ Len(<<>>) = 0  OBVIOUS
<1>2. PICK p : Sums(<<>>, p) /\ Total(<<>>) = p[Len(<<>>)]  BY <1>1, TotalIsLastSum
<1> QED  BY <1>1, <1>2 DEF Sums

LEMMA TotalOfAppend ==
  ASSUME NEW q \in Seq(Nat), NEW x \in Nat
  PROVE  Total(Append(q, x)) = Total(q) + x
<1> DEFINE s == Append(q, x)
<1>1. s \in Seq(Nat) /\ Len(s) = Len(q) + 1 /\ s[Len(q) + 1] = x /\ Len(q) \in Nat
      /\ \A i \in 1..Len(q) : s[i] = q[i]
  OBVIOUS
<1> HIDE DEF s
<1>2. PICK a : Sums(s, a) /\ Total(s) = a[Len(s)]  BY <1>1, TotalIsLastSum
<1>3. PICK b : Sums(q, b) /\ Total(q) = b[Len(q)]  BY TotalIsLastSum
<1>4. a[0 + Len(q)] = a[0] + b[Len(q)]
  <2> DEFINE m == 0
  <2>1. m \in Nat /\ m + Len(q) <= Len(s) /\ \A i \in 1..Len(q) : q[i] = s[m + i]  BY <1>1
  <2>2. Len(q) \in Nat /\ Len(q) <= Len(q)  BY <1>1
  <2> HIDE DEF m
  <2>3. \A i \in Nat : i <= Len(q) => a[m + i] = a[m] + b[i]
    <3>1. s \in Seq(Nat) /\ Sums(s, a) /\ Sums(q, b)  BY <1>1, <1>2, <1>3
    <3> QED  BY <2>1, <3>1, SumsOfPart
  <2>4. a[m + Len(q)] = a[m] + b[Len(q)]  BY <2>2, <2>3
  <2> QED  BY <2>4 DEF m
<1>5. a[Len(q) + 1] = a[Len(q)] + x  BY <1>1, <1>2 DEF Sums
<1>6. a[0] = 0 /\ b[Len(q)] \in Nat  BY <1>1, <1>2, <1>3, TotalInNat DEF Sums
<1>7. 0 + Len(q) = Len(q)  BY <1>1
<1> QED  BY <1>1, <1>2, <1>3, <1>4, <1>5, <1>6, <1>7 DEF s

LEMMA TotalOfParts ==
  ASSUME NEW q \in Seq(Nat), NEW k \in 0..Len(q)
  PROVE  Total(q) = Total(SubSeq(q, 1, k)) + Total(SubSeq(q, k + 1, Len(q)))
<1> DEFINE u == SubSeq(q, 1, k)
           v == SubSeq(q, k + 1, Len(q))
<1>0. Len(q) \in Nat /\ k \in Nat /\ Len(q) - k \in Nat  OBVIOUS
<1>1. u \in Seq(Nat) /\ Len(u) = k /\ \A i \in 1..k : u[i] = q[i]  OBVIOUS
<1>2. v \in Seq(Nat) /\ Len(v) = Len(q) - k /\ \A i \in 1..Len(q) - k : v[i] = q[k + i]
  OBVIOUS
<1> HIDE DEF u, v
<1>3. PICK a : Sums(q, a) /\ Total(q) = a[Len(q)]  BY TotalIsLastSum
<1>4. PICK b : Sums(u, b) /\ Total(u) = b[Len(u)]  BY <1>1, TotalIsLastSum
<1>5. PICK c : Sums(v, c) /\ Total(v) = c[Len(v)]  BY <1>2, TotalIsLastSum
<1>6. a[0 + k] = a[0] + b[k]
  <2> DEFINE m == 0
  <2>1. m \in Nat /\ m + Len(u) <= Len(q) /\ \A i \in 1..Len(u) : u[i] = q[m + i]
    BY <1>0, <1>1
  <2>2. k \in Nat /\ k <= Len(u)  BY <1>0, <1>1
  <2> HIDE DEF m
  <2>3. \A i \in Nat : i <= Len(u) => a[m + i] = a[m] + b[i]
    <3>1. u \in Seq(Nat) /\ Sums(q, a) /\ Sums(u, b)  BY <1>1, <1>3, <1>4
    <3> QED  BY <2>1, <3>1, SumsOfPart
  <2>4. a[m + k] = a[m] + b[k]  BY <2>2, <2>3
  <2> QED  BY <2>4 DEF m
<1>7. a[k + (Len(q) - k)] = a[k] + c[Len(q) - k]
  <2>1. k + Len(v) <= Len(q) /\ \A i \in 1..Len(v) : v[i] = q[k + i]  BY <1>0, <1>2
  <2>2. Len(q) - k <= Len(v)  BY <1>0, <1>2
  <2> DEFINE n == Len(q) - k
  <2>3. n \in Nat /\ n <= Len(v)  BY <1>0, <2>2
  <2> HIDE DEF n
  <2>4. \A i \in Nat : i <= Len(v) => a[k + i] = a[k] + c[i]
    <3>1. v \in Seq(Nat) /\ Sums(q, a) /\ Sums(v, c)  BY <1>2, <1>3, <1>5
    <3>2. k \in Nat  BY <1>0
    <3> QED  BY <2>1, <3>1, <3>2, SumsOfPart
  <2>5. a[k + n] = a[k] + c[n]  BY <2>3, <2>4
  <2> QED  BY <2>5 DEF n
<1>8. 0 + k = k /\ k + (Len(q) - k) = Len(q)  BY <1>0
<1>9. a[0] = 0 /\ b[k] \in Nat  BY <1>1, <1>3, <1>4, TotalInNat DEF Sums
<1>10. Total(u) = a[k]  BY <1>1, <1>4, <1>6, <1>8, <1>9
<1>11. Total(q) = a[k] + Total(v)  BY <1>2, <1>3, <1>5, <1>7, <1>8
<1> QED  BY <1>10, <1>11 DEF u, v

-----------------------------------------------------------------------------
(* What write() counts: no more than there is room for.                    *)
LEMMA WriteCounts ==
  ASSUME Placed, NEW target \in Nat, Write(target)
  PROVE  \E count \in 0..capacity' :
           /\ writePending' = writePending + count
           /\ pending' = Append(pending, count)
<1> DEFINE one == AfterOne(first', size', capacity', Room(target))
           two == AfterTwo(first', size', capacity', Room(target))
<1>1. /\ capacity' \in Nat \ {0} /\ first' \in 0..capacity' - 1
      /\ size' \in 0..capacity' /\ Room(target) \in 0..size'
  BY HandOutPlaced DEF Write
<1>2. one \in 0..Room(target) /\ two \in 0..Room(target) - one
  BY <1>1, FreeAreasPlaced
<1>3. writePending' = writePending + (one + two) /\ pending' = Append(pending, one + two)
  BY DEF Write
<1> HIDE DEF one, two
<1>4. one + two \in 0..capacity'  BY <1>1, <1>2
<1> QED  BY <1>3, <1>4

(* The writes that write_complete(bytes) finds done have no more bytes     *)
(* than those, and there are no more of them than wait.                    *)
LEMMA WritesDoneBound ==
  ASSUME NEW q \in Seq(Nat), NEW bytes \in Nat
  PROVE  /\ WritesDone(q, bytes) \in 0..Len(q)
         /\ Total(SubSeq(q, 1, WritesDone(q, bytes))) <= bytes
<1> DEFINE D == {k \in 0..Len(q) : /\ Total(SubSeq(q, 1, k)) <= bytes
                                   /\ k > 0 => Total(SubSeq(q, 1, k - 1)) < bytes}
<1>1. 0 \in D
  <2>1. SubSeq(q, 1, 0) = <<>>  OBVIOUS
  <2>2. 0 \in 0..Len(q) /\ ~(0 > 0)  OBVIOUS
  <2>3. Total(SubSeq(q, 1, 0)) <= bytes
    <3>1. Total(SubSeq(q, 1, 0)) = 0  BY <2>1, TotalOfNone, Zenon
    <3>2. 0 <= bytes  OBVIOUS
    <3> QED  BY <3>1, <3>2
  <2> QED  BY <2>2, <2>3
<1>2. D \subseteq 0..Len(q) /\ Len(q) \in Nat  OBVIOUS
<1>3. WritesDone(q, bytes) = Max(D)  BY DEF WritesDone
<1>4. Max(D) \in D
  <2> HIDE DEF D
  <2>1. D # {}  BY <1>1
  <2> QED  BY <1>2, <2>1, GreatestPlace
<1> QED  BY <1>3, <1>4

PendingInv ==
  /\ pending \in Seq(Nat)
  /\ split \in BOOLEAN
  /\ PendingCovered

LEMMA PendingInvInit == Init => PendingInv
<1> SUFFICES ASSUME Init PROVE PendingInv  OBVIOUS
<1>1. pending = <<>> /\ writePending = 0 /\ split \in BOOLEAN  BY DEF Init
<1>2. <<>> \in Seq(Nat)  OBVIOUS
<1>3. Total(pending) = 0  BY <1>1, TotalOfNone
<1> QED  BY <1>1, <1>2, <1>3 DEF PendingInv, PendingCovered

LEMMA PendingInvWrite ==
  ASSUME Placed, PendingInv, NEW target \in Nat, Write(target) PROVE PendingInv'
<1>1. PICK count \in 0..capacity' :
        /\ writePending' = writePending + count
        /\ pending' = Append(pending, count)
  BY WriteCounts
<1>2. count \in Nat /\ writePending \in Nat  BY DEF Placed
<1>3. Total(pending') = Total(pending) + count /\ Total(pending) \in Nat
  BY <1>1, <1>2, TotalOfAppend, TotalInNat DEF PendingInv
<1>4. pending' \in Seq(Nat)  BY <1>1, <1>2 DEF PendingInv
<1>5. split' = split  BY DEF Write
<1>6. Total(pending) >= writePending /\ (~split => Total(pending) = writePending)
  BY DEF PendingInv, PendingCovered
<1>7. Total(pending') >= writePending' /\ (~split' => Total(pending') = writePending')
  <2>1. Total(pending) + count >= writePending + count  BY <1>2, <1>3, <1>6
  <2> QED  BY <1>1, <1>3, <1>5, <1>6, <2>1
<1> QED  BY <1>4, <1>5, <1>7 DEF PendingInv, PendingCovered

LEMMA PendingInvComplete ==
  ASSUME Placed, PendingInv, NEW bytes \in Nat, WriteComplete(bytes) PROVE PendingInv'
<1> DEFINE done == WritesDone(pending, bytes)
           given == Total(SubSeq(pending, 1, done))
<1>1. done \in 0..Len(pending) /\ given <= bytes
  BY WritesDoneBound DEF PendingInv
<1>2. /\ bytes <= writePending /\ writePending' = writePending - bytes
      /\ pending' = SubSeq(pending, done + 1, Len(pending))
      /\ split' = (split \/ given < bytes)
  BY DEF WriteComplete, Placed
<1>3. SubSeq(pending, 1, done) \in Seq(Nat) /\ pending' \in Seq(Nat)
  <2> HIDE DEF done, given
  <2> QED  BY <1>1, <1>2 DEF PendingInv
<1>4. Total(pending) = given + Total(pending')  BY <1>1, <1>2, TotalOfParts DEF PendingInv
<1>5. given \in Nat /\ Total(pending') \in Nat  BY <1>3, TotalInNat
<1>6. writePending \in Nat  BY DEF Placed
<1>7. Total(pending) >= writePending /\ (~split => Total(pending) = writePending)
  BY DEF PendingInv, PendingCovered
<1> HIDE DEF done, given
<1>8. Total(pending') >= writePending'  BY <1>1, <1>2, <1>4, <1>5, <1>6, <1>7
<1>9. ~split' => Total(pending') = writePending'
  <2> SUFFICES ASSUME ~split' PROVE Total(pending') = writePending'  OBVIOUS
  <2>1. ~split /\ ~(given < bytes)  BY <1>2
  <2>2. Total(pending) = writePending  BY <1>7, <2>1
  <2> QED  BY <1>1, <1>2, <1>4, <1>5, <1>6, <2>1, <2>2
<1>10. split' \in BOOLEAN  BY <1>2 DEF PendingInv
<1> QED  BY <1>3, <1>8, <1>9, <1>10 DEF PendingInv, PendingCovered

(* write_complete always finds writes enough for the bytes it is given, so *)
(* that none is left over at its last assertion: however many writes wait, *)
(* of any size, completed whole or in parts, they account for every byte   *)
(* still to come, and for no more while each is completed at once.         *)
THEOREM PendingAlwaysCovered == Spec => []PendingCovered
<1>1. Placed /\ PendingInv /\ [Next]_vars => PendingInv'
  <2> SUFFICES ASSUME Placed, PendingInv, [Next]_vars PROVE PendingInv'  OBVIOUS
  <2> USE Capacities
  <2>1. ASSUME UNCHANGED <<pending, writePending, split>> PROVE PendingInv'
    BY <2>1 DEF PendingInv, PendingCovered
  <2>2. ASSUME NEW target \in 0..MaxCapacity,
               ReadBuffers(target) \/ LinearWritable(target) \/ WriteBuffers(target)
        PROVE  PendingInv'
    BY <2>1, <2>2 DEF ReadBuffers, LinearWritable, WriteBuffers
  <2>3. ASSUME NEW target \in 0..MaxCapacity, Write(target) PROVE PendingInv'
    BY <2>3, PendingInvWrite
  <2>4. CASE PushBack  BY <2>1, <2>4 DEF PushBack
  <2>5. ASSUME NEW n \in 1..MaxCapacity, EraseBegin(n) PROVE PendingInv'
    BY <2>1, <2>5 DEF EraseBegin
  <2>6. ASSUME NEW n \in 1..MaxCapacity, WriteComplete(n) PROVE PendingInv'
    BY <2>6, PendingInvComplete
  <2>7. CASE UNCHANGED vars  BY <2>1, <2>7 DEF vars
  <2> QED  BY <2>2, <2>3, <2>4, <2>5, <2>6, <2>7 DEF Next
<1>2. PendingInv => PendingCovered  BY DEF PendingInv
<1> QED  BY <1>1, <1>2, PendingInvInit, AlwaysPlaced, PTL DEF Spec

-----------------------------------------------------------------------------
(* Types.                                                                  *)
Areas(c) == [at : 0..c, count : 0..c, of : {"elements", "after one", "after two"}]

LEMMA RestOf ==
  ASSUME NEW S, NEW q \in Seq(S), NEW k \in 0..Len(q)
  PROVE  SubSeq(q, k + 1, Len(q)) \in Seq(S)
OBVIOUS

Bounded ==
  /\ InitialCapacity <= capacity /\ capacity <= MaxCapacity
  /\ pending \in Seq(0..MaxCapacity)
  /\ areas \subseteq Areas(capacity)
  /\ split \in BOOLEAN

(* The storage grows to what is asked for at most.                         *)
LEMMA GrowBounded ==
  ASSUME Placed, Bounded, NEW target \in 0..MaxCapacity, Grow(target)
  PROVE  InitialCapacity <= capacity' /\ capacity' <= MaxCapacity /\ capacity' \in Nat
BY Capacities DEF Placed, Bounded, Grow

LEMMA HandOutBounded ==
  ASSUME Placed, Bounded, NEW target \in 0..MaxCapacity, HandOut(target)
  PROVE  /\ InitialCapacity <= capacity' /\ capacity' <= MaxCapacity /\ capacity' \in Nat
         /\ areas' \subseteq Areas(capacity')
<1>1. /\ capacity' \in Nat \ {0} /\ first' \in 0..capacity' - 1
      /\ size' \in 0..capacity' /\ Room(target) \in 0..size'
  BY Capacities, HandOutPlaced
<1> DEFINE n == Room(target)
           one == AfterOne(first', size', capacity', n)
           two == AfterTwo(first', size', capacity', n)
           b == first' + ArrayOne(first', size', capacity')
           c == ArrayTwo(first', size', capacity')
<1>2. /\ one \in 0..n /\ two \in 0..n - one
      /\ b \in 0..capacity' /\ c \in 0..first'
  BY <1>1, FreeAreasPlaced
<1>3. areas' \subseteq {[at |-> b, of |-> "after one", count |-> one],
                        [at |-> c, of |-> "after two", count |-> two]}
  BY DEF HandOut, FreeAreas
<1> HIDE DEF n, one, two, b, c
<1>4. n \in 0..capacity'  BY <1>1 DEF n
<1>5. /\ one \in 0..capacity' /\ two \in 0..capacity'
      /\ b \in 0..capacity' /\ c \in 0..capacity'
  <2>1. capacity' \in Nat /\ n \in Nat /\ n <= capacity'  BY <1>1, <1>4
  <2>2. one \in 0..capacity' /\ two \in 0..capacity'  BY <1>2, <2>1
  <2>3. c \in 0..capacity'
    <3>1. c \in 0..first'  BY <1>2
    <3>2. first' \in 0..capacity' - 1 /\ capacity' \in Nat  BY <1>1
    <3>3. \A cap \in Nat : \A i \in 0..cap - 1 : \A j \in 0..i : j \in 0..cap  OBVIOUS
    <3> QED  BY <3>1, <3>2, <3>3
  <2> QED  BY <1>2, <2>2, <2>3
<1>6. areas' \subseteq Areas(capacity')
  <2>1. [at |-> b, of |-> "after one", count |-> one] \in Areas(capacity')
    BY <1>5 DEF Areas
  <2>2. [at |-> c, of |-> "after two", count |-> two] \in Areas(capacity')
    BY <1>5 DEF Areas
  <2> QED  BY <1>3, <2>1, <2>2
<1>7. InitialCapacity <= capacity' /\ capacity' <= MaxCapacity
  BY GrowBounded DEF HandOut
<1> QED  BY <1>1, <1>6, <1>7

LEMMA LinearWritableBounded ==
  ASSUME Placed, Bounded, NEW target \in 0..MaxCapacity, LinearWritable(target)
  PROVE  /\ InitialCapacity <= capacity' /\ capacity' <= MaxCapacity /\ capacity' \in Nat
         /\ areas' \subseteq Areas(capacity')
<1>1. /\ capacity' \in Nat \ {0} /\ first' \in 0..capacity' - 1
      /\ Room(target) \in 0..capacity' - size
      /\ size' = size + Room(target)
      /\ first' + size' <= capacity'
  BY Capacities, LinearWritablePlaced
<1>2. InitialCapacity <= capacity' /\ capacity' <= MaxCapacity
  <2>1. capacity' = IF capacity >= target THEN capacity ELSE target
    BY Capacities, MaxOfTwo DEF LinearWritable, Placed
  <2> QED  BY <2>1, Capacities DEF Placed, Bounded
<1> DEFINE n == Room(target)
<1>3. areas' = {[at |-> first' + size, count |-> n, of |-> "elements"]}
  BY DEF LinearWritable
<1>4. size \in Nat  BY DEF Placed
<1> HIDE DEF n
<1>5. n \in 0..capacity' /\ first' + size \in 0..capacity'
  <2>1. n \in 0..capacity' - size /\ first' + (size + n) <= capacity'  BY <1>1 DEF n
  <2>2. capacity' \in Nat /\ first' \in Nat  BY <1>1
  <2>3. \A cap, at, m \in Nat : \A k \in 0..cap - m :
          at + (m + k) <= cap => k \in 0..cap /\ at + m \in 0..cap
    OBVIOUS
  <2> QED  BY <1>4, <2>1, <2>2, <2>3
<1>6. areas' \subseteq Areas(capacity')  BY <1>3, <1>5 DEF Areas
<1> QED  BY <1>1, <1>2, <1>6

LEMMA BoundedNext == Placed /\ Bounded /\ [Next]_vars => Bounded'
<1> SUFFICES ASSUME Placed, Bounded, [Next]_vars PROVE Bounded'  OBVIOUS
<1>1. ASSUME NEW target \in 0..MaxCapacity, ReadBuffers(target) PROVE Bounded'
  <2>1. areas' = {} /\ UNCHANGED <<pending, split>>  BY <1>1 DEF ReadBuffers
  <2>2. InitialCapacity <= capacity' /\ capacity' <= MaxCapacity
    BY <1>1, GrowBounded DEF ReadBuffers
  <2> QED  BY <2>1, <2>2 DEF Bounded
<1>2. ASSUME NEW target \in 0..MaxCapacity, LinearWritable(target) PROVE Bounded'
  <2>1. UNCHANGED <<pending, split>>  BY <1>2 DEF LinearWritable
  <2> QED  BY <1>2, <2>1, LinearWritableBounded DEF Bounded
<1>3. ASSUME NEW target \in 0..MaxCapacity, WriteBuffers(target) PROVE Bounded'
  <2>1. HandOut(target) /\ UNCHANGED <<pending, split>>  BY <1>3 DEF WriteBuffers
  <2> QED  BY <2>1, HandOutBounded DEF Bounded
<1>4. ASSUME NEW target \in 0..MaxCapacity, Write(target) PROVE Bounded'
  <2>1. HandOut(target) /\ split' = split  BY <1>4 DEF Write
  <2>2. /\ InitialCapacity <= capacity' /\ capacity' <= MaxCapacity /\ capacity' \in Nat
        /\ areas' \subseteq Areas(capacity')
    BY <2>1, HandOutBounded
  <2>3. PICK count \in 0..capacity' : pending' = Append(pending, count)
    BY <1>4, WriteCounts, Capacities
  <2>4. count \in 0..MaxCapacity  BY <2>2, Capacities
  <2>5. pending' \in Seq(0..MaxCapacity)  BY <2>3, <2>4 DEF Bounded
  <2> QED  BY <2>1, <2>2, <2>5 DEF Bounded
<1>5. CASE PushBack  BY <1>5 DEF PushBack, Bounded
<1>6. ASSUME NEW n \in 1..MaxCapacity, EraseBegin(n) PROVE Bounded'
  BY <1>6 DEF EraseBegin, Bounded
<1>7. ASSUME NEW bytes \in 1..MaxCapacity, WriteComplete(bytes) PROVE Bounded'
  <2> DEFINE done == WritesDone(pending, bytes)
  <2>1. /\ pending' = SubSeq(pending, done + 1, Len(pending)) /\ areas' = {}
        /\ capacity' = capacity /\ split' \in BOOLEAN
    BY <1>7 DEF WriteComplete, Bounded
  <2>2. pending \in Seq(Nat) /\ pending \in Seq(0..MaxCapacity)
    BY Capacities DEF Bounded
  <2>3. done \in 0..Len(pending)  BY <2>2, Capacities, WritesDoneBound
  <2> HIDE DEF done
  <2>4. pending' \in Seq(0..MaxCapacity)  BY <2>1, <2>2, <2>3, RestOf
  <2> QED  BY <2>1, <2>4 DEF Bounded
<1>8. CASE UNCHANGED vars  BY <1>8 DEF vars, Bounded
<1> QED  BY <1>1, <1>2, <1>3, <1>4, <1>5, <1>6, <1>7, <1>8 DEF Next

(* Every variable of the buffer keeps its type: the storage grows to what  *)
(* callers ask for and no further, and the areas begin and end in it.      *)
THEOREM TypeCorrect == Spec => []TypeOK
<1>1. Init => Bounded
  <2> SUFFICES ASSUME Init PROVE Bounded  OBVIOUS
  <2>1. pending = <<>> /\ areas = {} /\ split \in BOOLEAN /\ capacity = InitialCapacity
    BY DEF Init
  <2>2. <<>> \in Seq(0..MaxCapacity)  OBVIOUS
  <2>3. InitialCapacity <= capacity /\ capacity <= MaxCapacity  BY <2>1, Capacities
  <2> QED  BY <2>1, <2>2, <2>3 DEF Bounded
<1>2. Placed /\ Bounded => TypeOK
  <2> SUFFICES ASSUME Placed, Bounded PROVE TypeOK  OBVIOUS
  <2>1. capacity \in InitialCapacity..MaxCapacity  BY Capacities DEF Placed, Bounded
  <2>2. writePending \in Nat  BY DEF Placed
  <2> QED  BY <2>1, <2>2 DEF Placed, Bounded, Areas, TypeOK
<1> QED  BY <1>1, <1>2, BoundedNext, AlwaysPlaced, PTL DEF Spec
=============================================================================
