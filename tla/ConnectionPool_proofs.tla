------------------------ MODULE ConnectionPool_proofs ------------------------
(***************************************************************************)
(* The safety properties of the connection pool, proved for every number   *)
(* of connections and requests and every sequence of limits.               *)
(***************************************************************************)
EXTENDS ConnectionPool, TLAPS, FiniteSetTheorems, SequenceTheorems

-----------------------------------------------------------------------------
(* Lemmas about the sequences of the pool.                                 *)

(* What is left of a sequence once its first n elements are popped.        *)
LEMMA SuffixProperties ==
  ASSUME NEW S, NEW s \in Seq(S), NEW n \in 0..Len(s)
  PROVE  LET t == SubSeq(s, n + 1, Len(s))
         IN  /\ t \in Seq(S)
             /\ Len(t) = Len(s) - n
             /\ \A i \in 1..Len(t) : t[i] = s[n + i]
<1>1. \A i \in (n + 1)..Len(s) : s[i] \in S
  BY ElementOfSeq
<1> QED
  BY <1>1, SubSeqProperties, LenProperties

(* RemoveAt takes one element away.                                        *)
LEMMA RemoveAtProperties ==
  ASSUME NEW S, NEW s \in Seq(S), NEW i \in 1..Len(s)
  PROVE  /\ SeqExt!RemoveAt(s, i) \in Seq(S)
         /\ Len(SeqExt!RemoveAt(s, i)) = Len(s) - 1
<1> DEFINE before == SubSeq(s, 1, i - 1)
           after == SubSeq(s, i + 1, Len(s))
<1>1. Len(s) \in Nat /\ \A j \in 1..Len(s) : s[j] \in S
  BY ElementOfSeq, LenProperties
<1>2. before \in Seq(S) /\ Len(before) = i - 1
  BY <1>1, SubSeqProperties
<1>3. after \in Seq(S) /\ Len(after) = Len(s) - i
  BY <1>1, SubSeqProperties
<1> HIDE DEF before, after
<1>4. before \o after \in Seq(S) /\ Len(before \o after) = Len(before) + Len(after)
  BY <1>2, <1>3, ConcatProperties
<1>5. SeqExt!RemoveAt(s, i) = before \o after
  BY DEF SeqExt!RemoveAt, before, after
<1>6. Len(before) + Len(after) = Len(s) - 1
  BY <1>1, <1>2, <1>3
<1> QED
  BY <1>4, <1>5, <1>6

-----------------------------------------------------------------------------
(* Lemmas about the number of open connections.                            *)

(* There are finitely many connections, open or not.                       *)
LEMMA LiveFinite ==
  ASSUME created \in Nat
  PROVE  IsFiniteSet(Live) /\ Cardinality(Live) \in Nat
<1>1. IsFiniteSet(1..created)
  BY FS_Interval
<1>2. IsFiniteSet(Live)
  BY <1>1, FS_Difference DEF Live
<1> QED
  BY <1>2, FS_CardinalityType

(* One more connection object.                                             *)
LEMMA LiveGrows ==
  ASSUME created \in Nat, closed \subseteq 1..created,
         created' = created + 1, closed' = closed
  PROVE  Cardinality(Live') = Cardinality(Live) + 1
<1>1. Live' = Live \cup {created + 1} /\ created + 1 \notin Live
  BY DEF Live
<1> QED
  BY <1>1, LiveFinite, FS_AddElement

(* One open connection is closed.                                          *)
LEMMA LiveShrinks ==
  ASSUME created \in Nat, NEW c \in Live,
         created' = created, closed' = closed \cup {c}
  PROVE  Cardinality(Live') = Cardinality(Live) - 1
<1>1. Live' = Live \ {c}
  BY DEF Live
<1> QED
  BY <1>1, LiveFinite, FS_RemoveElement

(* One is closed and one opened in its place.                              *)
LEMMA LiveReplaced ==
  ASSUME created \in Nat, closed \subseteq 1..created, NEW c \in Live,
         created' = created + 1, closed' = closed \cup {c}
  PROVE  Cardinality(Live') = Cardinality(Live)
<1> DEFINE rest == Live \ {c}
<1>1. Live' = rest \cup {created + 1} /\ created + 1 \notin rest
  BY DEF Live
<1>2. IsFiniteSet(rest) /\ Cardinality(rest) = Cardinality(Live) - 1
  BY LiveFinite, FS_RemoveElement
<1>3. Cardinality(Live') = Cardinality(rest) + 1
  BY <1>1, <1>2, FS_AddElement
<1> QED
  BY <1>2, <1>3, LiveFinite
-----------------------------------------------------------------------------
(* The invariant of Spec: initially, and preserved by each operation.      *)

(* The pool starts in the invariant.                                       *)
LEMMA InitIndInv == Init => IndInv
<1> SUFFICES ASSUME Init PROVE IndInv
  OBVIOUS
<1> USE PoolConstants
<1>1. TypeOK
  BY DEF Init, TypeOK, Conn
<1>2. Accounting
  <2>1. Live = {}
    BY DEF Init, Live
  <2> QED
    BY <2>1, FS_EmptySet DEF Init, Accounting
<1>3. OnlyReadyInUse /\ AvailableIdle /\ QueueInv
  BY DEF Init, OnlyReadyInUse, AvailableIdle, QueueInv, Conn
<1> QED
  BY <1>1, <1>2, <1>3 DEF IndInv

(* next() with a usable connection available preserves it.                 *)
LEMMA NextAvailableInv ==
  ASSUME IndInv, NEW r \in Request, NEW c \in Conn, NextAvailable(r, c)
  PROVE  IndInv'
<1> USE PoolConstants
<1>1. PICK n \in 0..Len(available) :
        /\ n < Len(available)
        /\ c = available[n + 1]
        /\ available' = SubSeq(available, n + 2, Len(available))
  BY DEF NextAvailable
<1> USE DEF IndInv
<1>2. n \in Nat /\ n + 1 \in 0..Len(available) /\ (n + 1) + 1 = n + 2
  BY <1>1 DEF TypeOK
<1>3. /\ available' \in Seq(Conn)
      /\ Len(available') = Len(available) - (n + 1)
      /\ \A i \in 1..Len(available') : available'[i] = available[n + 1 + i]
  BY <1>1, <1>2, SuffixProperties DEF TypeOK
<1>4. UNCHANGED <<created, closed, ready, onDone, connections, next, limit, max>>
      /\ res' = [res EXCEPT ![c] = r]
  BY DEF NextAvailable
<1>5. TypeOK'
  BY <1>3, <1>4 DEF TypeOK
<1>6. Accounting'
  BY <1>4 DEF Accounting, Live
<1>7. c \in ready
  BY <1>1, <1>2 DEF OnlyReadyInUse
<1>8. \A i \in 1..Len(available') : /\ n + 1 + i \in 1..Len(available)
                                     /\ available'[i] # c
  BY <1>1, <1>2, <1>3 DEF AvailableIdle, TypeOK
<1>9. OnlyReadyInUse'
  BY <1>3, <1>4, <1>7, <1>8 DEF OnlyReadyInUse, TypeOK
<1>10. AvailableIdle'
  <2>1. \A i \in 1..Len(available') : available'[i] \in Conn
    BY <1>3, <1>8 DEF TypeOK
  <2>2. \A i \in 1..Len(available') : res'[available'[i]] = None
    BY <2>1, <1>3, <1>4, <1>8 DEF AvailableIdle, TypeOK
  <2>3. \A i, j \in 1..Len(available') : available'[i] = available'[j] => i = j
    <3> TAKE i, j \in 1..Len(available')
    <3> HAVE available'[i] = available'[j]
    <3>1. available[n + 1 + i] = available[n + 1 + j]
      BY <1>3
    <3>2. n + 1 + i = n + 1 + j
      BY <1>8, <3>1 DEF AvailableIdle
    <3>3. i \in Nat /\ j \in Nat
      BY <1>3 DEF TypeOK
    <3> QED
      BY <1>2, <3>2, <3>3
  <2> QED
    BY <2>2, <2>3 DEF AvailableIdle
<1>11. QueueInv'
  BY <1>1, <1>4 DEF QueueInv, TypeOK
<1> QED
  BY <1>5, <1>6, <1>9, <1>10, <1>11 DEF IndInv

(* next() with room for a new connection preserves it.                     *)
LEMMA NextConnectInv ==
  ASSUME IndInv, NEW r \in Request, NextConnect(r)
  PROVE  IndInv'
<1> USE PoolConstants DEF IndInv
<1>1. /\ available' = <<>>
      /\ created < MaxConn
      /\ created' = created + 1
      /\ onDone' = [onDone EXCEPT ![created + 1] = r]
      /\ connections' = Append(connections, created + 1)
      /\ UNCHANGED <<closed, ready, res, next, limit, max>>
  BY DEF NextConnect, Connect
<1>2. TypeOK'
  BY <1>1 DEF TypeOK, Conn
<1>3. Accounting'
  <2>1. Cardinality(Live') = Cardinality(Live) + 1
    BY <1>1, LiveGrows DEF TypeOK
  <2> QED
    BY <1>1, <2>1 DEF Accounting, TypeOK
<1>4. OnlyReadyInUse' /\ AvailableIdle' /\ QueueInv'
  BY <1>1 DEF OnlyReadyInUse, AvailableIdle, QueueInv, TypeOK
<1> QED
  BY <1>2, <1>3, <1>4 DEF IndInv

(* next() that queues the request preserves it: somebody will serve it.    *)
LEMMA NextQueuedInv ==
  ASSUME IndInv, NEW r \in Request, NextQueued(r)
  PROVE  IndInv'
<1> USE PoolConstants DEF IndInv
<1>1. /\ ~HasRoom(Len(connections))
      /\ available' = <<>>
      /\ next' = Append(next, r)
      /\ UNCHANGED <<created, closed, ready, onDone, res, connections, limit, max>>
  BY DEF NextQueued
<1>2. TypeOK'
  BY <1>1 DEF TypeOK
<1>3. Accounting'
  BY <1>1 DEF Accounting, Live
<1>4. OnlyReadyInUse' /\ AvailableIdle'
  BY <1>1 DEF OnlyReadyInUse, AvailableIdle
<1>5. QueueInv'
  BY <1>1 DEF QueueInv, HasRoom, TypeOK
<1> QED
  BY <1>2, <1>3, <1>4, <1>5 DEF IndInv

-----------------------------------------------------------------------------
(* release(c), when c is up and is not in available_ already.              *)

(* Nobody waits: c goes to the end of available_.                          *)
LEMMA ParkInv ==
  ASSUME IndInv, NEW c \in Conn, Park(c),
         ready \subseteq ready', ready' \subseteq 1..created, c \in ready',
         \A i \in 1..Len(available) : available[i] # c,
         UNCHANGED <<created, closed, onDone, connections, limit, max>>
  PROVE  IndInv'
<1> USE DEF IndInv
<1>1. /\ next = <<>> /\ next' = next
      /\ available' = Append(available, c)
      /\ res' = [res EXCEPT ![c] = None]
  BY DEF Park
<1>2. TypeOK'
  BY <1>1 DEF TypeOK
<1>3. Accounting' /\ QueueInv'
  BY <1>1 DEF Accounting, Live, QueueInv
<1>4. OnlyReadyInUse'
  <2>1. \A d \in Conn \ ready' : res'[d] = None
    BY <1>1 DEF OnlyReadyInUse, TypeOK
  <2>2. \A i \in 1..Len(available') : available'[i] \in ready'
    <3>1. \A i \in 1..Len(available') :
            available'[i] = IF i <= Len(available) THEN available[i] ELSE c
      BY <1>1 DEF TypeOK
    <3>2. \A i \in 1..Len(available) : available[i] \in ready'
      BY DEF OnlyReadyInUse
    <3>3. Len(available) \in Nat /\ Len(available') \in Nat
      BY <1>2 DEF TypeOK
    <3> QED
      BY <3>1, <3>2, <3>3
  <2> QED
    BY <2>1, <2>2 DEF OnlyReadyInUse
<1>5. AvailableIdle'
  BY <1>1 DEF AvailableIdle, TypeOK
<1> QED
  BY <1>2, <1>3, <1>4, <1>5

(* The first request that waits is written to c.                           *)
LEMMA ServeInv ==
  ASSUME IndInv, NEW c \in Conn, Serve(c),
         ready \subseteq ready', ready' \subseteq 1..created, c \in ready',
         \A i \in 1..Len(available) : available[i] # c,
         UNCHANGED <<created, closed, onDone, connections, limit, max>>
  PROVE  IndInv'
<1> USE DEF IndInv
<1>1. /\ next # <<>> /\ next' = Tail(next)
      /\ available' = available
      /\ res' = [res EXCEPT ![c] = Head(next)]
  BY DEF Serve
<1>2. Head(next) \in Request /\ Tail(next) \in Seq(Request)
  BY <1>1, HeadTailProperties DEF TypeOK
<1>3. TypeOK'
  BY <1>1, <1>2 DEF TypeOK
<1>4. Accounting' /\ QueueInv'
  BY <1>1 DEF Accounting, Live, QueueInv
<1>5. OnlyReadyInUse'
  BY <1>1 DEF OnlyReadyInUse, TypeOK
<1>6. AvailableIdle'
  BY <1>1 DEF AvailableIdle, TypeOK
<1> QED
  BY <1>3, <1>4, <1>5, <1>6

(* The future of c is done; c was not up before, so it was not available.  *)
LEMMA ConnectedFresh ==
  ASSUME IndInv, NEW c \in Conn, Connected(c)
  PROVE  /\ ready \subseteq ready' /\ ready' \subseteq 1..created /\ c \in ready'
         /\ \A i \in 1..Len(available) : available[i] # c
         /\ UNCHANGED <<created, closed, onDone, connections, limit, max>>
BY DEF Connected, IndInv, OnlyReadyInUse, TypeOK

(* A connection with a response is up, and is not available.               *)
LEMMA BusyNotAvailable ==
  ASSUME IndInv, NEW c \in Conn, res[c] # None
  PROVE  c \in ready /\ \A i \in 1..Len(available) : available[i] # c
BY DEF IndInv, OnlyReadyInUse, AvailableIdle

(* A connection that comes up preserves the invariant, whatever waits.     *)
LEMMA EstablishedInv ==
  ASSUME IndInv, NEW c \in Conn,
         (\E r \in Request : EstablishedFor(c, r)) \/ EstablishedIdle(c) \/ EstablishedServe(c)
  PROVE  IndInv'
<1>1. Connected(c)
  BY DEF EstablishedFor, EstablishedIdle, EstablishedServe
<1>2. CASE Park(c)
  BY <1>1, <1>2, ConnectedFresh, ParkInv
<1>3. CASE Serve(c)
  BY <1>1, <1>3, ConnectedFresh, ServeInv
<1>4. ASSUME NEW r \in Request, EstablishedFor(c, r)
      PROVE  IndInv'
  <2> USE DEF IndInv
  <2>1. /\ res' = [res EXCEPT ![c] = r]
        /\ UNCHANGED <<available, next>>
    BY <1>4 DEF EstablishedFor
  <2>2. /\ ready \subseteq ready' /\ ready' \subseteq 1..created /\ c \in ready'
        /\ \A i \in 1..Len(available) : available[i] # c
        /\ UNCHANGED <<created, closed, onDone, connections, limit, max>>
    BY <1>1, ConnectedFresh
  <2>3. TypeOK'
    BY <2>1, <2>2 DEF TypeOK
  <2>4. Accounting' /\ QueueInv'
    BY <2>1, <2>2 DEF Accounting, Live, QueueInv
  <2>5. OnlyReadyInUse'
    BY <2>1, <2>2 DEF OnlyReadyInUse, TypeOK
  <2>6. AvailableIdle'
    BY <2>1, <2>2 DEF AvailableIdle, TypeOK
  <2> QED
    BY <2>3, <2>4, <2>5, <2>6
<1> QED
  BY <1>2, <1>3, <1>4 DEF EstablishedIdle, EstablishedServe

(* A response read to its end preserves the invariant.                     *)
LEMMA ReleaseInv ==
  ASSUME IndInv, NEW c \in Conn, ReleaseIdle(c) \/ ReleaseServe(c)
  PROVE  IndInv'
<1>1. c \in ready /\ \A i \in 1..Len(available) : available[i] # c
  BY BusyNotAvailable DEF ReleaseIdle, ReleaseServe
<1>2. UNCHANGED <<created, closed, ready, onDone, connections, limit, max>>
  BY DEF ReleaseIdle, ReleaseServe
<1>3. ready \subseteq 1..created
  BY DEF IndInv, TypeOK
<1>4. CASE Park(c)
  BY <1>1, <1>2, <1>3, <1>4, ParkInv
<1>5. CASE Serve(c)
  BY <1>1, <1>2, <1>3, <1>5, ServeInv
<1> QED
  BY <1>4, <1>5 DEF ReleaseIdle, ReleaseServe

(* So does one after which the connection is not released.                 *)
LEMMA DetachInv ==
  ASSUME IndInv, NEW c \in Conn, Detach(c)
  PROVE  IndInv'
<1> USE DEF IndInv, Detach
<1>1. TypeOK'
  BY DEF TypeOK
<1>2. Accounting' /\ QueueInv'
  BY DEF Accounting, Live, QueueInv
<1>3. OnlyReadyInUse'
  BY DEF OnlyReadyInUse, TypeOK
<1>4. AvailableIdle'
  BY DEF AvailableIdle, TypeOK
<1> QED
  BY <1>1, <1>2, <1>3, <1>4

-----------------------------------------------------------------------------
(* remove(c): one entry of connections_ goes, and one open connection.     *)

(* So does a close(), whichever entry is erased, reconnecting or not.      *)
LEMMA RemoveInv ==
  ASSUME IndInv, NEW c \in Conn, NEW reconnect \in BOOLEAN, RemoveErases(c, reconnect)
  PROVE  IndInv'
<1> USE PoolConstants DEF IndInv
<1>1. PICK i \in 1..Len(connections), n \in 0..Len(available) :
        /\ c \in Live
        /\ closed' = closed \cup {c}
        /\ available' = SubSeq(available, n + 1, Len(available))
        /\ reconnect <=> next # <<>> /\ HasRoom(Len(connections) - 1)
        /\ IF reconnect
             THEN Connect(ToPool, SeqExt!RemoveAt(connections, i))
             ELSE connections' = SeqExt!RemoveAt(connections, i) /\ UNCHANGED <<created, onDone>>
        /\ UNCHANGED <<ready, res, next, limit, max>>
  BY DEF RemoveErases
<1> DEFINE rest == SeqExt!RemoveAt(connections, i)
<1>2. /\ available' \in Seq(Conn)
      /\ Len(available') = Len(available) - n
      /\ \A j \in 1..Len(available') : available'[j] = available[n + j]
  BY <1>1, SuffixProperties DEF TypeOK
<1>3. rest \in Seq(Conn) /\ Len(rest) = Len(connections) - 1
  BY RemoveAtProperties DEF TypeOK
<1> HIDE DEF rest
<1>4. Len(connections) \in Nat /\ Len(available) \in Nat /\ n \in Nat
  BY DEF TypeOK
<1>5. \A j \in 1..Len(available') : n + j \in 1..Len(available)
  BY <1>2, <1>4
<1>6. OnlyReadyInUse'
  BY <1>1, <1>2, <1>5 DEF OnlyReadyInUse
<1>7. AvailableIdle'
  <2>1. \A j \in 1..Len(available') : res'[available'[j]] = None
    BY <1>1, <1>2, <1>5 DEF AvailableIdle
  <2>2. ASSUME NEW j \in 1..Len(available'), NEW k \in 1..Len(available'),
               available'[j] = available'[k]
        PROVE  j = k
    <3>1. available[n + j] = available[n + k]
      BY <1>2, <2>2
    <3>2. n + j = n + k
      BY <1>5, <3>1 DEF AvailableIdle
    <3> QED
      BY <1>2, <1>4, <3>2
  <2> QED
    BY <2>1, <2>2 DEF AvailableIdle
<1>8. next # <<>> => available' = <<>>
  BY <1>1, <1>2, <1>4 DEF QueueInv, TypeOK
<1>9. CASE reconnect
  <2>1. /\ created < MaxConn
        /\ created' = created + 1
        /\ onDone' = [onDone EXCEPT ![created + 1] = ToPool]
        /\ connections' = Append(rest, created + 1)
    BY <1>1, <1>9 DEF Connect, rest
  <2>2. TypeOK'
    <3>1. /\ created \in Nat /\ created' \in 0..MaxConn /\ created' \in Conn
          /\ 1..created \subseteq 1..created'
      BY <2>1 DEF TypeOK, Conn
    <3>2. closed' \subseteq 1..created' /\ ready' \subseteq 1..created'
      BY <1>1, <3>1 DEF TypeOK, Live
    <3>3. connections' \in Seq(Conn) /\ available' \in Seq(Conn)
      BY <1>2, <1>3, <2>1, <3>1
    <3>4. onDone' \in [Conn -> Request \cup {None, ToPool}]
      BY <2>1 DEF TypeOK
    <3>5. UNCHANGED <<res, next, limit, max>>
      BY <1>1
    <3> QED
      BY <3>1, <3>2, <3>3, <3>4, <3>5 DEF TypeOK
  <2>3. Cardinality(Live') = Cardinality(Live)
    BY <1>1, <2>1, LiveReplaced DEF TypeOK
  <2>4. Len(connections') = Len(connections)
    BY <1>3, <1>4, <2>1, <2>2 DEF TypeOK, Conn
  <2>5. Accounting'
    BY <2>3, <2>4 DEF Accounting
  <2>6. QueueInv'
    BY <1>1, <1>3, <1>4, <1>8, <2>1, <2>4 DEF QueueInv
  <2> QED
    BY <1>6, <1>7, <2>2, <2>5, <2>6
<1>10. CASE ~reconnect
  <2>1. connections' = rest /\ UNCHANGED <<created, onDone>>
    BY <1>1, <1>10 DEF rest
  <2>2. TypeOK'
    <3>1. closed' \subseteq 1..created'
      BY <1>1, <2>1 DEF TypeOK, Live
    <3>2. connections' \in Seq(Conn) /\ available' \in Seq(Conn)
      BY <1>2, <1>3, <2>1
    <3>3. UNCHANGED <<created, onDone, ready, res, next, limit, max>>
      BY <1>1, <2>1
    <3> QED
      BY <3>1, <3>2, <3>3 DEF TypeOK
  <2>3. Cardinality(Live') = Cardinality(Live) - 1
    BY <1>1, <2>1, LiveShrinks DEF TypeOK
  <2>4. Accounting'
    BY <1>3, <2>1, <2>3 DEF Accounting
  <2>5. QueueInv'
    BY <1>1, <1>3, <1>4, <1>8, <1>10, <2>1 DEF QueueInv, HasRoom, TypeOK
  <2> QED
    BY <1>6, <1>7, <2>2, <2>4, <2>5
<1> QED
  BY <1>9, <1>10

-----------------------------------------------------------------------------
(* The theorems about Spec.                                                *)

(* Every operation of a pool whose limits stay preserves the invariant.    *)
LEMMA ServingIndInv == IndInv /\ Serving => IndInv'
<1> SUFFICES ASSUME IndInv, Serving PROVE IndInv'
  OBVIOUS
<1>1. ASSUME NEW r \in Request, NEW c \in Conn, NextAvailable(r, c) PROVE IndInv'
  BY <1>1, NextAvailableInv
<1>2. ASSUME NEW r \in Request, NextConnect(r) PROVE IndInv'
  BY <1>2, NextConnectInv
<1>3. ASSUME NEW r \in Request, NextQueued(r) PROVE IndInv'
  BY <1>3, NextQueuedInv
<1>4. ASSUME NEW c \in Conn,
             (\E r \in Request : EstablishedFor(c, r)) \/ EstablishedIdle(c) \/ EstablishedServe(c)
      PROVE  IndInv'
  BY <1>4, EstablishedInv
<1>5. ASSUME NEW c \in Conn, ReleaseIdle(c) \/ ReleaseServe(c) PROVE IndInv'
  BY <1>5, ReleaseInv
<1>6. ASSUME NEW c \in Conn, Detach(c) PROVE IndInv'
  BY <1>6, DetachInv
<1>7. ASSUME NEW c \in Conn, Remove(c) \/ RemoveAndReconnect(c) PROVE IndInv'
  BY <1>7, RemoveInv DEF Remove, RemoveAndReconnect
<1> QED
  BY <1>1, <1>2, <1>3, <1>4, <1>5, <1>6, <1>7 DEF Serving

(* So does every step, changes of the limits included.                     *)
LEMMA NextIndInv == IndInv /\ [Next]_vars => IndInv'
<1> SUFFICES ASSUME IndInv, [Next]_vars PROVE IndInv'
  OBVIOUS
<1> USE DEF IndInv
<1>1. CASE Serving
  BY <1>1, ServingIndInv
<1>2. ASSUME NEW n \in Limits, SetMaxConnections(n) PROVE IndInv'
  <2> USE <1>2 DEF SetMaxConnections
  <2>1. TypeOK'
    BY DEF TypeOK
  <2>2. Accounting' /\ OnlyReadyInUse' /\ AvailableIdle' /\ QueueInv'
    BY DEF Accounting, Live, OnlyReadyInUse, AvailableIdle, QueueInv
  <2> QED
    BY <2>1, <2>2
<1>3. ASSUME NEW b \in BOOLEAN, SetLimitConnections(b) PROVE IndInv'
  <2> USE <1>3 DEF SetLimitConnections
  <2>1. TypeOK'
    BY DEF TypeOK
  <2>2. Accounting' /\ OnlyReadyInUse' /\ AvailableIdle' /\ QueueInv'
    BY DEF Accounting, Live, OnlyReadyInUse, AvailableIdle, QueueInv
  <2> QED
    BY <2>1, <2>2
<1>4. CASE UNCHANGED vars
  <2> USE <1>4 DEF vars
  <2>1. TypeOK'
    BY DEF TypeOK
  <2>2. Accounting' /\ OnlyReadyInUse' /\ AvailableIdle' /\ QueueInv'
    BY DEF Accounting, Live, OnlyReadyInUse, AvailableIdle, QueueInv
  <2> QED
    BY <2>1, <2>2
<1> QED
  BY <1>1, <1>2, <1>3, <1>4 DEF Next

(* The inductive invariant holds in every reachable state.                 *)
THEOREM PoolInvariant == Spec => []IndInv
BY InitIndInv, NextIndInv, PTL DEF Spec

(* Every variable of the pool keeps its type.                              *)
THEOREM TypeCorrect == Spec => []TypeOK
<1>1. IndInv => TypeOK
  BY DEF IndInv
<1> QED
  BY <1>1, PoolInvariant, PTL

(* connections_ has as many entries as there are open connections: no slot *)
(* of the limit leaks, and remove() never erases from an empty vector.     *)
THEOREM SlotsAccounted == Spec => []Accounting
<1>1. IndInv => Accounting
  BY DEF IndInv
<1> QED
  BY <1>1, PoolInvariant, PTL

(* What is in available_ is idle, and in it once: one connection is never  *)
(* handed to two requests.                                                 *)
THEOREM NeverHandedTwice == Spec => []AvailableIdle
<1>1. IndInv => AvailableIdle
  BY DEF IndInv
<1> QED
  BY <1>1, PoolInvariant, PTL

(* With limits of at least 1, however they change, a request that waits    *)
(* has an open connection whose release() or remove() will serve it.       *)
THEOREM WaitersHaveAServer == Spec => []QueueMoves
<1>1. IndInv => QueueMoves
  <2> SUFFICES ASSUME IndInv, next # <<>>, 0 \notin Limits PROVE Live # {}
    BY DEF IndInv, QueueInv, QueueMoves
  <2>1. Cardinality(Live) > 0
    BY DEF IndInv, QueueInv, Accounting
  <2> QED
    BY <2>1, FS_EmptySet
<1> QED
  BY <1>1, PoolInvariant, PTL

-----------------------------------------------------------------------------
(* The theorems about FixedSpec.                                           *)

(* The stronger invariant of fixed limits holds initially.                 *)
LEMMA InitFixedInv == Init => FixedInv
<1> SUFFICES ASSUME Init PROVE FixedInv
  OBVIOUS
<1>1. EntriesWithinLimit /\ WaitersOnlyWhenFull
  BY PoolConstants DEF Init, EntriesWithinLimit, WaitersOnlyWhenFull
<1> QED
  BY <1>1, InitIndInv DEF FixedInv

(* What remove(c) does to the number of entries and to available_.         *)
LEMMA RemoveCounts ==
  ASSUME IndInv, NEW c \in Conn, NEW reconnect \in BOOLEAN, RemoveErases(c, reconnect)
  PROVE  /\ Len(connections) \in Nat \ {0}
         /\ Len(connections') = IF reconnect THEN Len(connections) ELSE Len(connections) - 1
         /\ reconnect <=> next # <<>> /\ HasRoom(Len(connections) - 1)
         /\ available = <<>> => available' = <<>>
         /\ UNCHANGED <<res, next, limit, max>>
<1>1. PICK i \in 1..Len(connections), n \in 0..Len(available) :
        /\ available' = SubSeq(available, n + 1, Len(available))
        /\ reconnect <=> next # <<>> /\ HasRoom(Len(connections) - 1)
        /\ IF reconnect
             THEN Connect(ToPool, SeqExt!RemoveAt(connections, i))
             ELSE connections' = SeqExt!RemoveAt(connections, i) /\ UNCHANGED <<created, onDone>>
        /\ UNCHANGED <<ready, res, next, limit, max>>
  BY DEF RemoveErases
<1> DEFINE rest == SeqExt!RemoveAt(connections, i)
<1>2. rest \in Seq(Conn) /\ Len(rest) = Len(connections) - 1
  BY RemoveAtProperties DEF IndInv, TypeOK
<1> HIDE DEF rest
<1>3. connections' = IF reconnect THEN Append(rest, created + 1) ELSE rest
  BY <1>1 DEF Connect, rest
<1>4. Len(connections) \in Nat \ {0}
  BY <1>1 DEF IndInv, TypeOK
<1>5. Len(Append(rest, created + 1)) = Len(rest) + 1
  BY <1>2
<1>6. available' \in Seq(Conn) /\ Len(available') = Len(available) - n
  BY <1>1, SuffixProperties DEF IndInv, TypeOK
<1>7. available = <<>> => available' = <<>>
  BY <1>6 DEF IndInv, TypeOK
<1>8. Len(connections') = IF reconnect THEN Len(connections) ELSE Len(connections) - 1
  BY <1>2, <1>3, <1>4, <1>5
<1> QED
  BY <1>1, <1>4, <1>7, <1>8

(* Every operation preserves the stronger invariant: entries are added only*)
(* below the limit, and waiters are left only when there is no room.       *)
LEMMA ServingFixedInv == FixedInv /\ Serving => FixedInv'
<1> SUFFICES ASSUME FixedInv, Serving PROVE FixedInv'
  OBVIOUS
<1> DEFINE Rest == EntriesWithinLimit' /\ WaitersOnlyWhenFull'
<1>1. IndInv /\ Len(connections) \in Nat /\ max \in Nat /\ limit \in BOOLEAN
  BY PoolConstants DEF FixedInv, IndInv, TypeOK
<1> USE DEF FixedInv, EntriesWithinLimit, WaitersOnlyWhenFull
<1>2. ASSUME NEW r \in Request, NEW c \in Conn, NextAvailable(r, c) PROVE Rest
  <2>1. available # <<>>
    BY <1>2 DEF NextAvailable
  <2> QED
    BY <1>2, <2>1 DEF NextAvailable
<1>3. ASSUME NEW r \in Request, NextConnect(r) PROVE Rest
  <2>1. Len(connections') = Len(connections) + 1
    BY <1>3 DEF NextConnect, Connect, IndInv, TypeOK
  <2>2. HasRoom(Len(connections)) /\ available' = <<>> /\ UNCHANGED <<next, limit, max>>
    BY <1>3 DEF NextConnect
  <2> QED
    BY <1>1, <2>1, <2>2 DEF HasRoom
<1>4. ASSUME NEW r \in Request, NextQueued(r) PROVE Rest
  <2>1. /\ ~HasRoom(Len(connections)) /\ available' = <<>>
        /\ UNCHANGED <<connections, limit, max>>
    BY <1>4 DEF NextQueued
  <2> QED
    BY <1>1, <2>1 DEF HasRoom
<1>5. ASSUME NEW c \in Conn, Park(c), UNCHANGED <<connections, limit, max>> PROVE Rest
  BY <1>5 DEF Park
<1>6. ASSUME NEW c \in Conn, Serve(c), UNCHANGED <<connections, limit, max>> PROVE Rest
  BY <1>6 DEF Serve
<1>7. ASSUME NEW c \in Conn,
             (\E r \in Request : EstablishedFor(c, r)) \/ EstablishedIdle(c) \/ EstablishedServe(c)
      PROVE  Rest
  <2>1. Connected(c) /\ UNCHANGED <<connections, limit, max>>
    BY <1>7 DEF EstablishedFor, EstablishedIdle, EstablishedServe, Connected
  <2>2. ASSUME NEW r \in Request, EstablishedFor(c, r) PROVE Rest
    BY <2>1, <2>2 DEF EstablishedFor
  <2> QED
    BY <1>5, <1>6, <1>7, <2>1, <2>2 DEF EstablishedIdle, EstablishedServe
<1>8. ASSUME NEW c \in Conn, ReleaseIdle(c) \/ ReleaseServe(c) PROVE Rest
  BY <1>5, <1>6, <1>8 DEF ReleaseIdle, ReleaseServe
<1>9. ASSUME NEW c \in Conn, Detach(c) PROVE Rest
  BY <1>9 DEF Detach
<1>10. ASSUME NEW c \in Conn, NEW reconnect \in BOOLEAN, RemoveErases(c, reconnect) PROVE Rest
  <2>1. /\ Len(connections) \in Nat \ {0}
        /\ Len(connections') = IF reconnect THEN Len(connections) ELSE Len(connections) - 1
        /\ reconnect <=> next # <<>> /\ HasRoom(Len(connections) - 1)
        /\ available = <<>> => available' = <<>>
        /\ UNCHANGED <<next, limit, max>>
    BY <1>1, <1>10, RemoveCounts
  <2> QED
    BY <1>1, <2>1 DEF HasRoom
<1>11. Rest
  BY <1>2, <1>3, <1>4, <1>7, <1>8, <1>9, <1>10 DEF Serving, Remove, RemoveAndReconnect
<1> QED
  BY <1>1, <1>11, ServingIndInv

(* So does every step of FixedSpec, stuttering included.                   *)
LEMMA FixedInvStep == FixedInv /\ [Serving]_vars => FixedInv'
<1> SUFFICES ASSUME FixedInv, UNCHANGED vars PROVE FixedInv'
  BY ServingFixedInv
<1>1. IndInv'
  BY NextIndInv DEF FixedInv
<1> QED
  BY <1>1 DEF FixedInv, EntriesWithinLimit, WaitersOnlyWhenFull, vars

(* The inductive invariant of a pool with fixed limits: entries of         *)
(* connections_ within the limit, and nobody waiting next to a free slot.  *)
THEOREM FixedInvariant == FixedSpec => []FixedInv
BY InitFixedInv, FixedInvStep, PTL DEF FixedSpec

(* A limited pool never has more open connections than its limit.          *)
THEOREM LimitHolds == FixedSpec => []WithinLimit
<1>1. FixedInv => WithinLimit
  BY DEF FixedInv, IndInv, Accounting, EntriesWithinLimit, WithinLimit
<1> QED
  BY <1>1, FixedInvariant, PTL

(* No request waits while there is a parked connection or a free slot.     *)
THEOREM NoMissedWakeup == FixedSpec => []WaitersOnlyWhenFull
<1>1. FixedInv => WaitersOnlyWhenFull
  BY DEF FixedInv
<1> QED
  BY <1>1, FixedInvariant, PTL

(* Every operation serves in order.                                        *)
LEMMA ServingInOrder == FixedInv /\ Serving => ServedInOrder
<1> SUFFICES ASSUME FixedInv, Serving, next # <<>> PROVE ServedInOrder
  BY DEF ServedInOrder
<1>1. available = <<>> /\ ~HasRoom(Len(connections))
  BY PoolConstants DEF FixedInv, IndInv, TypeOK, WaitersOnlyWhenFull, HasRoom
<1>2. IndInv /\ onDone \in [Conn -> Request \cup {None, ToPool}]
              /\ res \in [Conn -> Request \cup {None}]
  BY DEF FixedInv, IndInv, TypeOK
<1>3. ASSUME NEW c \in Conn, Serve(c), onDone' = onDone PROVE ServedInOrder
  BY <1>2, <1>3 DEF Serve, ServedInOrder
<1>4. ASSUME NEW r \in Request, NEW c \in Conn, NextAvailable(r, c) PROVE FALSE
  BY <1>1, <1>4 DEF NextAvailable
<1>5. ASSUME NEW r \in Request, NextConnect(r) PROVE FALSE
  BY <1>1, <1>5 DEF NextConnect
<1>6. ASSUME NEW r \in Request, NextQueued(r) PROVE ServedInOrder
  BY <1>6 DEF NextQueued, ServedInOrder
<1>7. ASSUME NEW c \in Conn, NEW r \in Request, EstablishedFor(c, r) PROVE ServedInOrder
  BY <1>2, <1>7 DEF EstablishedFor, Connected, ServedInOrder
<1>8. ASSUME NEW c \in Conn, EstablishedIdle(c) \/ EstablishedServe(c) PROVE ServedInOrder
  BY <1>3, <1>8 DEF EstablishedIdle, EstablishedServe, Park, Connected
<1>9. ASSUME NEW c \in Conn, ReleaseIdle(c) \/ ReleaseServe(c) PROVE ServedInOrder
  BY <1>3, <1>9 DEF ReleaseIdle, ReleaseServe, Park
<1>10. ASSUME NEW c \in Conn, Detach(c) PROVE ServedInOrder
  BY <1>2, <1>10 DEF Detach, ServedInOrder
<1>11. ASSUME NEW c \in Conn, NEW reconnect \in BOOLEAN, RemoveErases(c, reconnect)
       PROVE  ServedInOrder
  <2>1. res' = res /\ next' = next
    BY <1>2, <1>11, RemoveCounts
  <2>2. onDone' = onDone \/ onDone' = [onDone EXCEPT ![created + 1] = ToPool]
    BY <1>11 DEF RemoveErases, Connect
  <2> QED
    BY <1>2, <2>1, <2>2 DEF ServedInOrder
<1> QED
  BY <1>4, <1>5, <1>6, <1>7, <1>8, <1>9, <1>10, <1>11
     DEF Serving, Remove, RemoveAndReconnect

(* Requests are served first come, first served.                           *)
THEOREM FirstComeFirstServed == FixedSpec => NoOvertaking
<1>1. FixedInv /\ [Serving]_vars => [ServedInOrder]_vars
  BY ServingInOrder
<1> QED
  BY <1>1, FixedInvariant, PTL DEF FixedSpec, NoOvertaking

=============================================================================
