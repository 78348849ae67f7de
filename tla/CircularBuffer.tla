--------------------------- MODULE CircularBuffer ---------------------------
(***************************************************************************)
(* The buffer of a stream (net::buffer): a circular_buffer that hands out  *)
(* areas to write into, and the writes that wait to be told that they are  *)
(* complete.                                                               *)
(*                                                                         *)
(* What the elements are does not matter, only where they lie: places are  *)
(* counted from the beginning of the storage. An area is where it begins,  *)
(* how long it is, and what it was made of. max_size_ is the capacity.     *)
(***************************************************************************)
EXTENDS Integers, SequencesExt, FiniteSetsExt

CONSTANTS
  InitialCapacity,
  MaxCapacity,      \* bound: on what a caller asks for
  MaxPending        \* bound: writes waiting

ASSUME Capacities ==
  /\ InitialCapacity \in Nat \ {0}
  /\ MaxCapacity \in Nat /\ InitialCapacity <= MaxCapacity

VARIABLES
  capacity,
  first,     \* the place of the first element
  size,
  pending,   \* pending_writes_: the count of each
  writePending,
  areas,     \* what the last call handed out to be written into, a set
  split      \* whether a write was ever completed in parts

vars == <<capacity, first, size, pending, writePending, areas, split>>

(* Each definition whose name ends in Mutant is the one after it with a    *)
(* plausible slip; the checks make sure that a property notices it.        *)

TypeOK ==
  /\ capacity \in InitialCapacity..MaxCapacity
  /\ first \in 0..capacity - 1
  /\ size \in 0..capacity
  /\ pending \in Seq(0..MaxCapacity)
  /\ writePending \in Nat
  /\ areas \subseteq [at : 0..capacity, count : 0..capacity,
                      of : {"elements", "after one", "after two"}]
  /\ split \in BOOLEAN

Init ==
  /\ capacity = InitialCapacity
  /\ first = 0 /\ size = 0
  /\ pending = <<>> /\ writePending = 0
  /\ areas = {}
  /\ split = FALSE

-----------------------------------------------------------------------------
(* boost::circular_buffer.                                                 *)

Wrapped(at, n, cap) == n > 0 /\ at + n >= cap

(* array_one() begins at the first element, array_two() at the beginning   *)
(* of the storage.                                                         *)
ArrayOne(at, n, cap) == IF Wrapped(at, n, cap) THEN cap - at ELSE n
ArrayTwo(at, n, cap) == IF Wrapped(at, n, cap) THEN at + n - cap ELSE 0

(* set_capacity() moves the elements to the beginning of new storage.      *)
Grow(target) ==
  IF capacity < target THEN capacity' = target /\ first' = 0
                       ELSE UNCHANGED <<capacity, first>>

(* linearize() moves them to the beginning if they are in two parts.       *)
Linear(at, n, cap) == IF ArrayTwo(at, n, cap) > 0 THEN 0 ELSE at

-----------------------------------------------------------------------------
(* What a caller wants for a target, 0 for all; and what there is room for.*)
Asked(target) == IF target = 0 THEN capacity ELSE target
RoomWholeMutant(target) == Asked(target)
Room(target) == Min({capacity' - size, Asked(target)})

(* read_buffers(target) may grow the storage and nothing else.             *)
ReadBuffers(target) ==
  /\ Grow(target)
  /\ areas' = {}
  /\ UNCHANGED <<size, pending, writePending, split>>

(* linear_writable(target): the elements are made, then made adjacent.     *)
LinearWritable(target) ==
  LET current == IF capacity' > capacity THEN 0 ELSE first
  IN /\ capacity' = Max({capacity, target})
     /\ size' = size + Room(target)
     /\ first' = Linear(current, size', capacity')
     /\ areas' = {[at |-> first' + size, count |-> Room(target), of |-> "elements"]}
     /\ UNCHANGED <<pending, writePending, split>>

(* The areas of write_buffers, once the elements for them are made: what   *)
(* is free after the first array, then what is free after the second.      *)
AfterOneFromStartMutant(at, n, cap, wanted) == Min({cap - ArrayOne(at, n, cap), wanted})
AfterOne(at, n, cap, wanted) == Min({cap - (at + ArrayOne(at, n, cap)), wanted})

AfterTwo(at, n, cap, wanted) ==
  Min({at - ArrayTwo(at, n, cap), wanted - AfterOne(at, n, cap, wanted)})

FreeAreas(at, n, cap, wanted) ==
  {a \in {[at |-> at + ArrayOne(at, n, cap), of |-> "after one",
           count |-> AfterOne(at, n, cap, wanted)],
          [at |-> ArrayTwo(at, n, cap), of |-> "after two",
           count |-> AfterTwo(at, n, cap, wanted)]} : a.count > 0}

HandOut(target) ==
  /\ Grow(target)
  /\ size' = size + Room(target)
  /\ areas' = FreeAreas(first', size', capacity', Room(target))

WriteBuffers(target) == HandOut(target) /\ UNCHANGED <<pending, writePending, split>>

(* write(code, target): code may fill the areas later, but it does not     *)
(* report that it has before it returns.                                   *)
Write(target) ==
  LET count == AfterOne(first', size', capacity', Room(target))
                 + AfterTwo(first', size', capacity', Room(target))
  IN /\ Len(pending) < MaxPending
     /\ HandOut(target)
     /\ writePending' = writePending + count
     /\ pending' = Append(pending, count)
     /\ UNCHANGED split

(* push_back(v): a full buffer loses its first element.                    *)
PushBack ==
  /\ IF size = capacity THEN first' = (first + 1) % capacity /\ UNCHANGED size
                        ELSE size' = size + 1 /\ UNCHANGED first
  /\ areas' = {}
  /\ UNCHANGED <<capacity, pending, writePending, split>>

(* erase_begin(n), by a caller that goes by readable(): the code does not  *)
(* check n and leaves that to its callers, of which src/ has none.         *)
ReadableAllMutant == size
Readable == size - writePending

EraseBegin(n) ==
  /\ n \in 1..Readable
  /\ first' = (first + n) % capacity
  /\ size' = size - n
  /\ areas' = {}
  /\ UNCHANGED <<capacity, pending, writePending, split>>

(* write_complete(bytes): the loop works on a copy of the front, so that   *)
(* what completes a part of a write leaves it as it is. So many writes are *)
(* done: those whose bytes are there when some are left to give.           *)
Total(q) == FoldLeft(LAMBDA n, count : n + count, 0, q)

WritesDoneAnywayMutant(q, bytes) ==
  Max({k \in 0..Len(q) : k > 0 => Total(SubSeq(q, 1, k - 1)) < bytes})

WritesDone(q, bytes) ==
  Max({k \in 0..Len(q) : /\ Total(SubSeq(q, 1, k)) <= bytes
                         /\ k > 0 => Total(SubSeq(q, 1, k - 1)) < bytes})

WriteComplete(bytes) ==
  LET done == WritesDone(pending, bytes)
  IN /\ bytes \in 1..writePending
     /\ writePending' = writePending - bytes
     /\ pending' = SubSeq(pending, done + 1, Len(pending))
     /\ split' = (split \/ Total(SubSeq(pending, 1, done)) < bytes)
     /\ areas' = {}
     /\ UNCHANGED <<capacity, first, size>>

Next ==
  \/ \E target \in 0..MaxCapacity :
       \/ ReadBuffers(target)
       \/ LinearWritable(target)
       \/ WriteBuffers(target)
       \/ Write(target)
  \/ PushBack
  \/ \E n \in 1..MaxCapacity : EraseBegin(n) \/ WriteComplete(n)

Spec == Init /\ [][Next]_vars

-----------------------------------------------------------------------------
(* Properties.                                                             *)

(* The places of n elements from at on, in storage of some capacity.       *)
PlacesIn(at, n, cap) ==
  {p \in 0..cap - 1 : p \in at..at + n - 1 \/ p + cap \in at..at + n - 1}

(* Whoever writes into an area the buffer hands out, or uses it later,     *)
(* damages nothing: it ends within the storage, shares no place with       *)
(* another one, and has none of the elements there were before the call,   *)
(* which the call may have moved. linear_writable hands out elements, as   *)
(* many new ones as there was room for.                                    *)
AreasSafe ==
  [][/\ \A a \in areas' :
          /\ a.at + a.count <= capacity'
          /\ PlacesIn(a.at, a.count, capacity') \cap PlacesIn(first', size, capacity') = {}
          /\ a.of = "elements" =>
               PlacesIn(a.at, a.count, capacity') \subseteq PlacesIn(first', size', capacity')
     /\ \A a, b \in areas' : a # b =>
          PlacesIn(a.at, a.count, capacity') \cap PlacesIn(b.at, b.count, capacity') = {}]_vars

(* What buffer.h says of the areas: they are reserved, that is, part of    *)
(* the contents and not to be read before write_complete.                  *)
AreasReserved ==
  \A a \in areas :
    PlacesIn(a.at, a.count, capacity) \subseteq PlacesIn(first, size, capacity)

(* The writes that wait account for every byte that is still to come, so   *)
(* that write_complete never has bytes left over (its last assertion); as  *)
(* long as each write is completed at once they account for no more.       *)
PendingCovered ==
  /\ Total(pending) >= writePending
  /\ ~split => Total(pending) = writePending

(* readable(), an unsigned number, is never taken below zero: the bytes of *)
(* the writes that wait are among the elements.                            *)
PendingAreElements == writePending <= size
=============================================================================
