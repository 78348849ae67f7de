--------------------------- MODULE ConnectionPool ---------------------------
(***************************************************************************)
(* The pool of connections to one HTTP endpoint                            *)
(* (net::http::connection_pool) together with as much of its caller and of *)
(* its connections as the pool observes: which request a connection was    *)
(* handed to, and whether the connection has been closed.                  *)
(*                                                                         *)
(* A connection object and the future connect() returns for it are created *)
(* together and are both written c, the serial number of the connection.   *)
(* A request stands for the closure the caller attaches to the future next *)
(* returned: connection::write_request on whatever connection it is given. *)
(* Every action is one critical section of the pool, with the callbacks it *)
(* runs, up to where a connection has been handed over.                    *)
(***************************************************************************)
EXTENDS Naturals, Sequences, FiniteSets

SeqExt == INSTANCE SequencesExt

CONSTANTS
  MaxConn,          \* bound: how many connection objects may ever be made
  MaxWaiting,       \* bound: how many requests may wait in next_ at a time
  Request,          \* the requests a caller may bring to the pool
  None,             \* no request, no callback
  ToPool,           \* the callback remove() attaches: release(conn)
  Tls,              \* TRUE for an https endpoint
  MaxConnections,   \* max_connections_ when the first request comes
  LimitConnections, \* limit_connections_ when the first request comes
  Limits            \* the values max_connections() is called with

Conn == 1..MaxConn

ASSUME PoolConstants ==
  /\ MaxConn \in Nat
  /\ MaxWaiting \in Nat
  /\ Limits \subseteq Nat
  /\ MaxConnections \in Limits
  /\ LimitConnections \in BOOLEAN
  /\ Tls \in BOOLEAN
  /\ None \notin Request
  /\ ToPool \notin Request \cup {None}

VARIABLES
  created,      \* number of connection objects made so far
  closed,       \* connections whose close() has run: valid_ /\ ~closed_ is false
  ready,        \* connections whose future is done
  onDone,       \* the callback waiting on the future of each connection
  res,          \* the request last written to each connection, until reset
  connections,  \* connections_: futures of the connections, oldest first
  available,    \* available_: connections released, waiting for work
  next,         \* next_: requests waiting for a connection
  limit,        \* limit_connections_
  max           \* max_connections_

vars == <<created, closed, ready, onDone, res, connections, available, next,
          limit, max>>

(* Connection objects that exist and have not been closed.                 *)
Live == (1..created) \ closed

Init ==
  /\ created = 0
  /\ closed = {}
  /\ ready = {}
  /\ onDone = [c \in Conn |-> None]
  /\ res = [c \in Conn |-> None]
  /\ connections = <<>>
  /\ available = <<>>
  /\ next = <<>>
  /\ limit = LimitConnections
  /\ max = MaxConnections

-----------------------------------------------------------------------------
(* Parts of the operations.                                                *)

(* Each definition whose name ends in Mutant is the one after it with a    *)
(* plausible slip; the checks make sure that a property notices it.        *)

(* Room for one more among n connections.                                  *)
HasRoomTightMutant(n) == ~limit \/ n + 1 < max
HasRoomLooseMutant(n) == ~limit \/ n <= max
HasRoom(n) == ~limit \/ n < max

(* The loops that pop available_ until a usable connection is in front of  *)
(* it stop after exactly n pops, when the connections in dead are unusable.*)
PopsUnusable(n, dead) ==
  /\ n \in 0..Len(available)
  /\ \A i \in 1..n : available[i] \in dead
  /\ n < Len(available) => available[n + 1] \notin dead

(* connect(): one more connection, the callback on its future, and its     *)
(* entry behind those in entries.                                          *)
Connect(callback, entries) ==
  /\ created < MaxConn
  /\ created' = created + 1
  /\ onDone' = [onDone EXCEPT ![created + 1] = callback]
  /\ connections' = Append(entries, created + 1)

(* release(c) with nobody waiting, and with a request waiting.             *)
ParkKeepsResponseMutant(c) ==
  /\ next = <<>>
  /\ available' = Append(available, c)
  /\ UNCHANGED <<res, next>>

ParkAlwaysMutant(c) ==
  /\ available' = Append(available, c)
  /\ res' = [res EXCEPT ![c] = None]
  /\ UNCHANGED next

Park(c) ==
  /\ next = <<>>
  /\ available' = Append(available, c)
  /\ res' = [res EXCEPT ![c] = None]
  /\ UNCHANGED next

Serve(c) ==
  /\ next # <<>>
  /\ res' = [res EXCEPT ![c] = Head(next)]
  /\ next' = Tail(next)
  /\ UNCHANGED available

(* The position remove(c) erases. std::remove_if moves the one matching    *)
(* future past the others and the last position is erased. A connection    *)
(* whose future is not done, or is no longer listed, matches nothing:      *)
(* erase(end()) is undefined, and as libstdc++ builds it the last future   *)
(* is destroyed.                                                           *)
Erases(i, c) ==
  /\ i \in 1..Len(connections)
  /\ \/ c \in ready /\ connections[i] = c
     \/ /\ ~ (c \in ready /\ \E j \in 1..Len(connections) : connections[j] = c)
        /\ i = Len(connections)

-----------------------------------------------------------------------------
(* next(): the caller brings request r.                                    *)

(* A usable connection is available: it is c and r is written to it.       *)
NextAvailable(r, c) ==
  \E n \in 0..Len(available) :
    /\ PopsUnusable(n, closed)
    /\ n < Len(available)
    /\ c = available[n + 1]
    /\ available' = SubSeq(available, n + 2, Len(available))
    /\ res' = [res EXCEPT ![c] = r]
    /\ UNCHANGED <<created, closed, ready, onDone, connections, next, limit, max>>

(* Nothing usable, and room for a new connection, on which r will wait.    *)
NextConnect(r) ==
  /\ PopsUnusable(Len(available), closed)
  /\ HasRoom(Len(connections))
  /\ available' = <<>>
  /\ Connect(r, connections)
  /\ UNCHANGED <<closed, ready, res, next, limit, max>>

(* Nothing usable and no room: r waits for a connection to be released.    *)
NextQueuedFirstMutant(r) ==
  /\ PopsUnusable(Len(available), closed)
  /\ ~HasRoom(Len(connections))
  /\ Len(next) < MaxWaiting
  /\ available' = <<>>
  /\ next' = <<r>> \o next
  /\ UNCHANGED <<created, closed, ready, onDone, res, connections, limit, max>>

NextQueued(r) ==
  /\ PopsUnusable(Len(available), closed)
  /\ ~HasRoom(Len(connections))
  /\ Len(next) < MaxWaiting
  /\ available' = <<>>
  /\ next' = Append(next, r)
  /\ UNCHANGED <<created, closed, ready, onDone, res, connections, limit, max>>

(* The connection is up (TLS: shaken hands too) and its future done. Only  *)
(* a handshake can succeed on a connection closed meanwhile: the stall     *)
(* timer runs during the handshake and not during resolve and connect.     *)
ConnectedNotDoneMutant(c) ==
  /\ c \in (1..created) \ ready
  /\ c \in closed => Tls
  /\ UNCHANGED <<created, closed, ready, onDone, connections, limit, max>>

Connected(c) ==
  /\ c \in (1..created) \ ready
  /\ c \in closed => Tls
  /\ ready' = ready \cup {c}
  /\ UNCHANGED <<created, closed, onDone, connections, limit, max>>

EstablishedForParkedMutant(c, r) ==
  /\ Connected(c)
  /\ onDone[c] = r
  /\ res' = [res EXCEPT ![c] = r]
  /\ available' = Append(available, c)
  /\ UNCHANGED next

EstablishedFor(c, r) ==
  /\ Connected(c)
  /\ onDone[c] = r
  /\ res' = [res EXCEPT ![c] = r]
  /\ UNCHANGED <<available, next>>

EstablishedIdle(c) ==
  /\ Connected(c)
  /\ onDone[c] = ToPool
  /\ Park(c)

EstablishedServe(c) ==
  /\ Connected(c)
  /\ onDone[c] = ToPool
  /\ Serve(c)

(* A response has been read to its end on c: res_.reset(), release().      *)
ReleaseIdle(c) ==
  /\ res[c] # None
  /\ Park(c)
  /\ UNCHANGED <<created, closed, ready, onDone, connections, limit, max>>

ReleaseServe(c) ==
  /\ res[c] # None
  /\ Serve(c)
  /\ UNCHANGED <<created, closed, ready, onDone, connections, limit, max>>

(* The response read says "Connection: close": res_.reset(), no release(). *)
Detach(c) ==
  /\ res[c] # None
  /\ res' = [res EXCEPT ![c] = None]
  /\ UNCHANGED <<created, closed, ready, onDone, connections, available, next,
                 limit, max>>

(* close() of c, for whatever reason, the first time: remove(c). Its entry *)
(* (or another) is erased, unusable connections in front of available_ go, *)
(* and a request still waiting gets a new connection when there is room.   *)
RemoveErasesAgainMutant(c, reconnect) ==
  \E i \in 1..Len(connections) :
  \E n \in 0..Len(available) :
    /\ c \in 1..created
    /\ closed' = closed \cup {c}
    /\ Erases(i, c)
    /\ PopsUnusable(n, closed')
    /\ available' = SubSeq(available, n + 1, Len(available))
    /\ reconnect <=> next # <<>> /\ HasRoom(Len(connections) - 1)
    /\ IF reconnect
         THEN Connect(ToPool, SeqExt!RemoveAt(connections, i))
         ELSE connections' = SeqExt!RemoveAt(connections, i) /\ UNCHANGED <<created, onDone>>
    /\ UNCHANGED <<ready, res, next, limit, max>>

RemoveErases(c, reconnect) ==
  \E i \in 1..Len(connections) :
  \E n \in 0..Len(available) :
    /\ c \in Live
    /\ closed' = closed \cup {c}
    /\ Erases(i, c)
    /\ PopsUnusable(n, closed')
    /\ available' = SubSeq(available, n + 1, Len(available))
    /\ reconnect <=> next # <<>> /\ HasRoom(Len(connections) - 1)
    /\ IF reconnect
         THEN Connect(ToPool, SeqExt!RemoveAt(connections, i))
         ELSE connections' = SeqExt!RemoveAt(connections, i) /\ UNCHANGED <<created, onDone>>
    /\ UNCHANGED <<ready, res, next, limit, max>>

Remove(c) == RemoveErases(c, FALSE)

RemoveAndReconnect(c) == RemoveErases(c, TRUE)

(* The setters max_connections and limit_connections. They take no lock    *)
(* and serve nobody.                                                       *)
SetMaxConnections(n) ==
  /\ max' = n
  /\ UNCHANGED <<created, closed, ready, onDone, res, connections, available,
                 next, limit>>

SetLimitConnections(b) ==
  /\ limit' = b
  /\ UNCHANGED <<created, closed, ready, onDone, res, connections, available,
                 next, max>>

-----------------------------------------------------------------------------
(* What the pool does with its limits as they are.                         *)
Serving ==
  \/ \E r \in Request, c \in Conn : NextAvailable(r, c)
  \/ \E r \in Request : NextConnect(r)
  \/ \E r \in Request : NextQueued(r)
  \/ \E c \in Conn, r \in Request : EstablishedFor(c, r)
  \/ \E c \in Conn : EstablishedIdle(c)
  \/ \E c \in Conn : EstablishedServe(c)
  \/ \E c \in Conn : ReleaseIdle(c)
  \/ \E c \in Conn : ReleaseServe(c)
  \/ \E c \in Conn : Detach(c)
  \/ \E c \in Conn : Remove(c)
  \/ \E c \in Conn : RemoveAndReconnect(c)

Next ==
  \/ Serving
  \/ \E n \in Limits : SetMaxConnections(n)
  \/ \E b \in BOOLEAN : SetLimitConnections(b)

Spec == Init /\ [][Next]_vars

(* The pool of a client whose limits are set before the first request.     *)
FixedSpec == Init /\ [][Serving]_vars

-----------------------------------------------------------------------------
(* Properties.                                                             *)

TypeOK ==
  /\ created \in 0..MaxConn
  /\ closed \subseteq 1..created
  /\ ready \subseteq 1..created
  /\ onDone \in [Conn -> Request \cup {None, ToPool}]
  /\ res \in [Conn -> Request \cup {None}]
  /\ connections \in Seq(Conn)
  /\ available \in Seq(Conn)
  /\ next \in Seq(Request)
  /\ limit \in BOOLEAN
  /\ max \in Limits

(* connections_ is as long as there are connections that are not closed,   *)
(* although its entries need not be theirs: remove() takes exactly one     *)
(* entry away whatever its predicate matches, and is called once for every *)
(* connection. Were it shorter the pool would open too many connections    *)
(* and one day erase from an empty vector; were it longer, slots leak.     *)
Accounting == Len(connections) = Cardinality(Live)

(* Every connection in available_ has finished its response, and is there  *)
(* once: two callers of next() are never given one connection, and         *)
(* write_request never displaces a response that is being read.            *)
AvailableIdle ==
  /\ \A i \in 1..Len(available) : res[available[i]] = None
  /\ \A i, j \in 1..Len(available) : available[i] = available[j] => i = j

(* While a request waits in next_ no connection is parked in available_    *)
(* and some connection is open or being opened: its release() or remove()  *)
(* will serve the queue. Nothing else would. Raising, lowering or lifting  *)
(* the limit meanwhile does not break it, as long as the limit is never 0. *)
QueueMoves ==
  next # <<>> => /\ available = <<>>
                 /\ 0 \notin Limits => Live # {}

(* The properties below are those of FixedSpec.                            *)

(* A limited pool never has more open connections than its limit, whatever *)
(* remove() and next() connect (comment at connection_pool.h:211).         *)
WithinLimit == limit => Cardinality(Live) <= max

(* A request waits in next_ only while nothing could serve it: no released *)
(* connection is parked and every slot of the limit is taken. (A wake-up   *)
(* missed by release() or remove() would leave it waiting next to a free   *)
(* connection or a free slot.)                                             *)
WaitersOnlyWhenFull ==
  next # <<>> => /\ available = <<>>
                 /\ limit
                 /\ Len(connections) >= max

(* First come, first served: while requests wait, newcomers queue behind   *)
(* them, a connection takes up the first of them or the request it was     *)
(* opened for, and none is opened for a newcomer.                          *)
ServedInOrder ==
  next # <<>> =>
    /\ next' \in {next, Tail(next)} \cup {Append(next, r) : r \in Request}
    /\ \A c \in Conn :
         res'[c] \notin {res[c], None}
           => \/ res'[c] = Head(next) /\ next' = Tail(next)
              \/ res'[c] = onDone[c] /\ c \in ready' \ ready
    /\ \A c \in Conn : onDone'[c] # onDone[c] => onDone'[c] = ToPool

NoOvertaking == [][ServedInOrder]_vars

-----------------------------------------------------------------------------
(* What makes the properties above inductive.                              *)

(* Only a connection that is up is handed to a request or parked.          *)
OnlyReadyInUse ==
  /\ \A c \in Conn \ ready : res[c] = None
  /\ \A i \in 1..Len(available) : available[i] \in ready

(* A request that waits has an entry of connections_ to wait for.          *)
QueueInv ==
  next # <<>> => /\ available = <<>>
                 /\ 0 \notin Limits => Len(connections) > 0

(* The inductive invariant of Spec.                                        *)
IndInv ==
  /\ TypeOK
  /\ Accounting
  /\ OnlyReadyInUse
  /\ AvailableIdle
  /\ QueueInv

(* The inductive invariant of FixedSpec: the limit holds for the entries   *)
(* of connections_, which Accounting makes the number of open connections. *)
EntriesWithinLimit == limit => Len(connections) <= max

FixedInv ==
  /\ IndInv
  /\ EntriesWithinLimit
  /\ WaitersOnlyWhenFull
=============================================================================
