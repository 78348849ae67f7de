-------------------------- MODULE HttpClient_proofs --------------------------
(***************************************************************************)
(* The HTTP client does what it does to the pool by the pool's own         *)
(* actions, so that what is proved of the pool holds inside the client.    *)
(* With that, its connections, timers and responses are shown to be looked *)
(* after.                                                                  *)
(***************************************************************************)
EXTENDS HttpClient, TLAPS

PoolProofs == INSTANCE ConnectionPool_proofs WITH Limits <- {MaxConnections}

(* A step of the client is a step of its pool or leaves the pool alone.    *)
LEMMA StepIsPoolStep == [Next]_vars => [Pool!Serving]_(Pool!vars)
<1> SUFFICES ASSUME [Next]_vars, poolVars' # poolVars PROVE Pool!Serving
  BY DEF poolVars, Pool!vars
<1>1. Next
  BY DEF vars, poolVars
<1>2. ASSUME NEW c \in Conn, ConnectStep(c) PROVE Pool!Serving
  BY <1>2 DEF ConnectStep, Resolved, StartHandshake, ConnectFails, UpFor, UpIdle, UpServe,
       Pool!Serving, Conn
<1>3. ASSUME NEW c \in Conn, ReadStep(c) PROVE Pool!Serving
  BY <1>3 DEF ReadStep, StatusLine, StrayLine, HeaderLine, HeadersEnd, NoTransfer, ChunkSize,
       ChunkData, FinishIdle, FinishServe, FinishClose, ReadFails, Pool!Serving, Conn
<1>4. ASSUME Call PROVE Pool!Serving
  BY <1>4 DEF Call, CallNextAvailable, CallNextConnect, CallNextQueued, CallDone, CallFail,
       CallCloseAgain, CallClose, Pool!Serving, Conn
<1>5. ASSUME NEW r \in Request, UserRequest(r) PROVE FALSE
  BY <1>5 DEF UserRequest
<1>6. ASSUME NEW c \in Conn, WriteStep(c) \/ TimerExpires(c) \/ TimerHandler(c) PROVE FALSE
  BY <1>6 DEF WriteStep, WriteDone, WriteFails, TimerExpires, TimerHandler
<1> QED
  BY <1>1, <1>2, <1>3, <1>4, <1>5, <1>6 DEF Next

-----------------------------------------------------------------------------
(* What is proved of a pool with fixed limits, for the pool of a client.   *)
(* The prover keeps the definitions of Pool and of PoolProofs, two         *)
(* instances of one module, apart: that they are the same comes first.     *)

(* The initial states and the steps of the two instances.                  *)
LEMMA SameSpec ==
  /\ PoolProofs!Init <=> Pool!Init
  /\ [PoolProofs!Serving]_(PoolProofs!vars) <=> [Pool!Serving]_(Pool!vars)
<1>1. PoolProofs!Init <=> Pool!Init
  BY DEF PoolProofs!Init, Pool!Init, PoolProofs!Conn, Pool!Conn
<1>2. PoolProofs!Serving <=> Pool!Serving
  BY DEF PoolProofs!NextAvailable, Pool!NextAvailable,
         PoolProofs!NextConnect, Pool!NextConnect,
         PoolProofs!NextQueued, Pool!NextQueued,
         PoolProofs!EstablishedFor, Pool!EstablishedFor,
         PoolProofs!EstablishedIdle, Pool!EstablishedIdle,
         PoolProofs!EstablishedServe, Pool!EstablishedServe,
         PoolProofs!ReleaseIdle, Pool!ReleaseIdle,
         PoolProofs!ReleaseServe, Pool!ReleaseServe, PoolProofs!Detach, Pool!Detach,
         PoolProofs!Remove, Pool!Remove,
         PoolProofs!RemoveAndReconnect, Pool!RemoveAndReconnect,
         PoolProofs!RemoveErases, Pool!RemoveErases, PoolProofs!Erases, Pool!Erases,
         PoolProofs!PopsUnusable, Pool!PopsUnusable,
         PoolProofs!Connect, Pool!Connect, PoolProofs!Connected, Pool!Connected,
         PoolProofs!Park, Pool!Park, PoolProofs!Serve, Pool!Serve,
         PoolProofs!HasRoom, Pool!HasRoom, PoolProofs!Live, Pool!Live,
         PoolProofs!Conn, Pool!Conn, PoolProofs!Serving, Pool!Serving,
         PoolProofs!SeqExt!RemoveAt, Pool!SeqExt!RemoveAt
<1>3. PoolProofs!vars = Pool!vars
  BY DEF PoolProofs!vars, Pool!vars
<1>4. (PoolProofs!vars)' = (Pool!vars)'
  BY DEF PoolProofs!vars, Pool!vars
<1> QED
  BY <1>1, <1>2, <1>3, <1>4

(* The pool of a client behaves as the theorems about pools assume.        *)
LEMMA ClientPool == Spec => PoolProofs!FixedSpec
<1>1. Init => PoolProofs!Init
  BY SameSpec DEF Init
<1>2. [Next]_vars => [PoolProofs!Serving]_(PoolProofs!vars)
  BY SameSpec, StepIsPoolStep
<1> QED
  BY <1>1, <1>2, PTL DEF Spec, PoolProofs!FixedSpec

(* Whatever fails and is retried, a client never has more connections open *)
(* to an endpoint than max_connections_.                                   *)
THEOREM ClientLimitHolds == Spec => []WithinLimit
<1>1. PoolProofs!FixedSpec => []PoolProofs!WithinLimit
  BY PoolProofs!LimitHolds, ClientConstants
<1>2. PoolProofs!WithinLimit <=> WithinLimit
  BY DEF WithinLimit, PoolProofs!WithinLimit, Pool!WithinLimit, PoolProofs!Live, Pool!Live,
         PoolProofs!Cardinality, Pool!Cardinality
<1> QED
  BY <1>1, <1>2, ClientPool, PTL

(* A request of the client waits in next_ only while every slot of the     *)
(* limit is taken and no released connection is parked.                    *)
THEOREM ClientNoMissedWakeup == Spec => []WaitersOnlyWhenFull
<1>1. PoolProofs!FixedSpec => []PoolProofs!WaitersOnlyWhenFull
  BY PoolProofs!NoMissedWakeup, ClientConstants
<1>2. PoolProofs!WaitersOnlyWhenFull <=> WaitersOnlyWhenFull
  BY DEF WaitersOnlyWhenFull, PoolProofs!WaitersOnlyWhenFull, Pool!WaitersOnlyWhenFull
<1> QED
  BY <1>1, <1>2, ClientPool, PTL

(* Requests of the client to one endpoint are served first come, first     *)
(* served, retries among them.                                             *)
THEOREM ClientFirstComeFirstServed == Spec => NoOvertaking
<1>1. PoolProofs!FixedSpec => PoolProofs!NoOvertaking
  BY PoolProofs!FirstComeFirstServed, ClientConstants
<1>2. PoolProofs!ServedInOrder <=> Pool!ServedInOrder
  BY DEF PoolProofs!ServedInOrder, Pool!ServedInOrder, PoolProofs!Conn, Pool!Conn
<1>3. [PoolProofs!ServedInOrder]_(PoolProofs!vars) <=> [Pool!ServedInOrder]_(Pool!vars)
  BY <1>2 DEF PoolProofs!vars, Pool!vars
<1> QED
  BY <1>1, <1>3, ClientPool, PTL DEF NoOvertaking, PoolProofs!NoOvertaking, Pool!NoOvertaking
-----------------------------------------------------------------------------
(* Connections, timers and responses. What is known of the pool is used    *)
(* before and after every step: the types of its variables, and that only  *)
(* connections that are up and idle are parked.                            *)

PoolFacts == Pool!TypeOK /\ Pool!OnlyReadyInUse /\ Pool!AvailableIdle

LEMMA PoolFactsHold == Spec => []PoolFacts
<1>1. PoolProofs!FixedSpec => []PoolProofs!FixedInv
  BY PoolProofs!FixedInvariant, ClientConstants
<1>2. PoolProofs!FixedInv => PoolFacts
  BY DEF PoolFacts, PoolProofs!FixedInv, PoolProofs!IndInv,
         PoolProofs!TypeOK, Pool!TypeOK, PoolProofs!OnlyReadyInUse, Pool!OnlyReadyInUse,
         PoolProofs!AvailableIdle, Pool!AvailableIdle, PoolProofs!Conn, Pool!Conn
<1> QED
  BY <1>1, <1>2, ClientPool, PTL

(* A connection is parked; its close() is to be called.                    *)
Parked(c) == \E i \in 1..Len(available) : available[i] = c
ClosePending(c) == \E i \in 1..Len(calls) : calls[i] = <<"close", c>>

(* What the operations of the pool do to responses and to parked           *)
(* connections that are open.                                              *)

LEMMA TakenFromPool ==
  ASSUME PoolFacts, NEW r \in Request, NEW c \in Conn, Pool!NextAvailable(r, c)
  PROVE  /\ res[c] = None /\ res' = [res EXCEPT ![c] = r]
         /\ c \notin closed
         /\ UNCHANGED <<created, closed>>
         /\ \A d \in Conn \ closed : d # c /\ Parked(d) => Parked(d)'
<1>1. PICK n \in 0..Len(available) :
        /\ Pool!PopsUnusable(n, closed)
        /\ n < Len(available)
        /\ c = available[n + 1]
        /\ available' = SubSeq(available, n + 2, Len(available))
        /\ res' = [res EXCEPT ![c] = r]
        /\ UNCHANGED <<created, closed>>
  BY DEF Pool!NextAvailable
<1>2. available \in Seq(Conn) /\ Len(available) \in Nat /\ n + 1 \in 1..Len(available)
  BY <1>1 DEF PoolFacts, Pool!TypeOK, Conn
<1>3. \A i \in 1..n : available[i] \in closed
  BY <1>1 DEF Pool!PopsUnusable
<1>4. /\ Len(available') = Len(available) - (n + 1)
      /\ \A i \in 1..Len(available') : available'[i] = available[n + 1 + i]
  <2>1. n + 1 \in 0..Len(available) /\ (n + 1) + 1 = n + 2
    BY <1>2
  <2> QED
    BY <1>1, <1>2, <2>1, PoolProofs!SuffixProperties
<1>5. ASSUME NEW d \in Conn \ closed, d # c, Parked(d) PROVE Parked(d)'
  <2>1. PICK i \in 1..Len(available) : available[i] = d
    BY <1>5 DEF Parked
  <2>2. i > n + 1
    BY <1>1, <1>2, <1>3, <1>5, <2>1
  <2>3. i - (n + 1) \in 1..Len(available') /\ (n + 1) + (i - (n + 1)) = i
    BY <1>2, <1>4, <2>1, <2>2
  <2> QED
    BY <1>4, <2>1, <2>3 DEF Parked
<1>6. res[c] = None /\ c \notin closed
  BY <1>1, <1>2 DEF PoolFacts, Pool!AvailableIdle, Pool!PopsUnusable
<1> QED
  BY <1>1, <1>5, <1>6

LEMMA NoneToTake ==
  ASSUME PoolFacts, NEW r \in Request, Pool!NextConnect(r) \/ Pool!NextQueued(r)
  PROVE  /\ UNCHANGED <<res, closed>>
         /\ \A d \in Conn \ closed : ~Parked(d)
BY DEF PoolFacts, Pool!TypeOK, Pool!NextConnect, Pool!NextQueued, Pool!PopsUnusable, Parked

LEMMA ParkedStay ==
  ASSUME PoolFacts, NEW c \in Conn, Pool!Park(c)
  PROVE  /\ res' = [res EXCEPT ![c] = None]
         /\ Parked(c)'
         /\ \A d \in Conn : Parked(d) => Parked(d)'
<1>1. /\ available \in Seq(Conn) /\ available' = Append(available, c)
      /\ res' = [res EXCEPT ![c] = None]
  BY DEF PoolFacts, Pool!TypeOK, Pool!Park, Conn
<1>2. /\ Len(available) \in Nat /\ Len(available') = Len(available) + 1
      /\ available'[Len(available) + 1] = c
      /\ \A i \in 1..Len(available) : available'[i] = available[i]
  BY <1>1
<1>3. \A i \in 1..Len(available) : i \in 1..Len(available')
  BY <1>2
<1>4. Parked(c)'
  BY <1>2 DEF Parked
<1> QED
  BY <1>1, <1>2, <1>3, <1>4 DEF Parked

LEMMA ServedNext ==
  ASSUME PoolFacts, NEW c \in Conn, Pool!Serve(c)
  PROVE  /\ \E r \in Request : res' = [res EXCEPT ![c] = r]
         /\ UNCHANGED available
<1>1. Head(next) \in Request
  BY DEF PoolFacts, Pool!TypeOK, Pool!Serve
<1> QED
  BY <1>1 DEF Pool!Serve

LEMMA ClosedOnce ==
  ASSUME PoolFacts, NEW c \in Conn, NEW reconnect \in BOOLEAN, Pool!RemoveErases(c, reconnect)
  PROVE  /\ UNCHANGED res
         /\ closed' = closed \cup {c}
         /\ created' = IF reconnect THEN created + 1 ELSE created
         /\ \A d \in Conn \ closed' : Parked(d) => Parked(d)'
<1>1. PICK n \in 0..Len(available) :
        /\ Pool!PopsUnusable(n, closed')
        /\ available' = SubSeq(available, n + 1, Len(available))
        /\ closed' = closed \cup {c}
        /\ UNCHANGED res
        /\ created' = IF reconnect THEN created + 1 ELSE created
  BY DEF Pool!RemoveErases, Pool!Connect
<1>2. available \in Seq(Conn) /\ Len(available) \in Nat
  BY DEF PoolFacts, Pool!TypeOK, Conn
<1>3. \A i \in 1..n : available[i] \in closed'
  BY <1>1 DEF Pool!PopsUnusable
<1>4. /\ Len(available') = Len(available) - n
      /\ \A i \in 1..Len(available') : available'[i] = available[n + i]
  BY <1>1, <1>2, PoolProofs!SuffixProperties
<1>5. ASSUME NEW d \in Conn \ closed', Parked(d) PROVE Parked(d)'
  <2>1. PICK i \in 1..Len(available) : available[i] = d
    BY <1>5 DEF Parked
  <2>2. i > n
    BY <1>2, <1>3, <1>5, <2>1
  <2>3. i - n \in 1..Len(available') /\ n + (i - n) = i
    BY <1>2, <1>4, <2>1, <2>2
  <2> QED
    BY <1>4, <2>1, <2>3 DEF Parked
<1> QED
  BY <1>1, <1>5

(* The calls a handler has still to make.                                  *)
CallType == {"next", "done"} \X Request \cup {"close", "fail"} \X Conn

LEMMA CallRuns ==
  ASSUME NEW s \in Seq(CallType), s # <<>>
  PROVE  /\ Tail(s) \in Seq(CallType)
         /\ \A x \in CallType : <<x>> \o Tail(s) \in Seq(CallType)
BY DEF CallType

LEMMA CallsMade ==
  /\ \A r \in Request : <<"next", r>> \in CallType /\ <<"done", r>> \in CallType
  /\ \A c \in Conn : <<"close", c>> \in CallType /\ <<"fail", c>> \in CallType
BY DEF CallType

(* Every variable of the client keeps its type; those of the pool do by    *)
(* its own theorem.                                                        *)
LEMMA TypesInit == Init /\ PoolFacts => TypeOK
<1> SUFFICES ASSUME Init, PoolFacts PROVE TypeOK
  OBVIOUS
<1>1. calls \in Seq({"next", "done"} \X Request \cup {"close", "fail"} \X Conn)
  BY DEF Init
<1>2. /\ more \in [Conn -> 0..MaxMore]
      /\ writes \in [Conn -> [open : Nat, dead : Nat]]
      /\ attempt \in [Request -> 0..MaxRetry]
  BY ClientConstants DEF Init
<1> QED
  BY <1>1, <1>2 DEF Init, PoolFacts, TypeOK

LEMMA TypesCalls ==
  ASSUME TypeOK, PoolFacts, PoolFacts', Call
  PROVE  TypeOK'
<1> DEFINE Own == /\ phase' \in [Conn -> {"none", "stopped"} \cup Connecting \cup Reading]
                  /\ more' \in [Conn -> 0..MaxMore]
                  /\ writes' \in [Conn -> [open : Nat, dead : Nat]]
                  /\ timer' \in [Conn -> BOOLEAN]
                  /\ expired' \in [Conn -> BOOLEAN]
           Told == /\ attempt' \in [Request -> 0..MaxRetry]
                   /\ current' \in [Request -> {"unsent", "pending", "ready"}]
                   /\ completion' \in [Request -> {"pending", "done", "failed"}]
<1>1. calls # <<>> /\ crashed' = crashed
  BY DEF Call, CallNextAvailable, CallNextConnect, CallNextQueued, CallDone, CallFail,
         CallCloseAgain, CallClose, Calling
<1>2. \/ calls' = Tail(calls)
      \/ \E r \in Request : calls' = <<<<"next", r>>>> \o Tail(calls)
  BY DEF Call, CallNextAvailable, CallNextConnect, CallNextQueued, CallDone, CallFail,
         CallCloseAgain, CallClose, Return, Accept, Retry
<1>3. calls' \in Seq(CallType)
  <2>1. calls \in Seq(CallType)
    BY DEF TypeOK, CallType
  <2> QED
    BY <1>1, <1>2, <2>1, CallRuns, CallsMade
<1>4. Own
  <2> USE DEF TypeOK
  <2>1. ASSUME StartRequest PROVE phase' \in [Conn -> {"none", "stopped"} \cup Connecting \cup Reading]
    BY <2>1 DEF StartRequest, Connecting
  <2>2. ASSUME NEW c \in Conn, WriteRequest(c), UNCHANGED phase PROVE Own
    BY <2>2 DEF WriteRequest, ExtendTimer
  <2>3. ASSUME NEW r \in Request, CallNextConnect(r) PROVE Own
    BY <2>1, <2>3 DEF CallNextConnect
  <2>4. ASSUME NEW c \in Conn, CallClose(c) PROVE Own
    BY <2>1, <2>4 DEF CallClose
  <2>5. CASE UNCHANGED connVars
    BY <2>5 DEF connVars
  <2> QED
    BY <2>2, <2>3, <2>4, <2>5 DEF Call, CallNextAvailable, CallNextQueued, CallDone, CallFail,
         CallCloseAgain
<1>5. Told
  <2> USE DEF TypeOK
  <2>1. CASE UNCHANGED respVars
    BY <2>1 DEF respVars
  <2>2. ASSUME NEW r \in Request, NEW o \in {"done", "failed"}, Accept(r, o) PROVE Told
    BY <2>2 DEF Accept
  <2>3. ASSUME NEW r \in Request, Retry(r) PROVE Told
    BY <2>3, ClientConstants DEF Retry
  <2> QED
    BY <2>1, <2>2, <2>3 DEF Call, CallNextAvailable, CallNextConnect, CallNextQueued, CallDone,
         CallFail, CallCloseAgain, CallClose
<1> QED
  BY <1>1, <1>3, <1>4, <1>5 DEF TypeOK, PoolFacts, CallType

(* A handler of connection c starts.                                       *)
Event(c) ==
  ConnectStep(c) \/ WriteStep(c) \/ ReadStep(c) \/ TimerExpires(c) \/ TimerHandler(c)

LEMMA TypesEvents ==
  ASSUME TypeOK, PoolFacts, PoolFacts', NEW c \in Conn, Event(c)
  PROVE  TypeOK'
<1> USE DEF TypeOK, Event
<1>1. UNCHANGED respVars
  BY DEF ConnectStep, Resolved, StartHandshake, ConnectFails, UpFor, UpIdle, UpServe, Up,
         WriteStep, WriteDone, WriteFails,
         ReadStep, StatusLine, StrayLine, HeaderLine, HeadersEnd, NoTransfer, ChunkSize,
         ChunkData, FinishIdle, FinishServe, FinishClose, ReadFails, BodyEnds,
         TimerExpires, TimerHandler
<1>2. crashed' \in BOOLEAN
  BY DEF ConnectStep, Resolved, StartHandshake, ConnectFails, UpFor, UpIdle, UpServe, Up,
         WriteStep, WriteDone, WriteFails,
         ReadStep, StatusLine, StrayLine, HeaderLine, HeadersEnd, NoTransfer, ChunkSize,
         ChunkData, FinishIdle, FinishServe, FinishClose, ReadFails, BodyEnds,
         TimerExpires, TimerHandler
<1>3. calls' \in Seq(CallType)
  <2>1. res[c] # None => res[c] \in Request
    BY DEF PoolFacts, Pool!TypeOK, Conn
  <2>2. calls \in Seq(CallType)
    BY DEF CallType
  <2>3. /\ <<>> \in Seq(CallType)
        /\ \A x, y \in CallType : <<x>> \in Seq(CallType) /\ <<x, y>> \in Seq(CallType)
    OBVIOUS
  <2>4. <<"close", c>> \in CallType /\ <<"fail", c>> \in CallType
    BY CallsMade
  <2>5. ASSUME res[c] # None PROVE <<"done", res[c]>> \in CallType
    BY <2>1, <2>5, CallsMade
  <2>6. CASE ConnectStep(c) \/ TimerExpires(c) \/ TimerHandler(c)
    <3>1. \/ calls' = calls \/ calls' = <<<<"close", c>>>>
          \/ calls' = <<<<"close", c>>, <<"fail", c>>>>
      BY <2>6 DEF ConnectStep, Resolved, StartHandshake, ConnectFails, UpFor, UpIdle, UpServe,
                  Up, TimerExpires, TimerHandler
    <3> QED
      BY <2>2, <2>3, <2>4, <3>1
  <2>7. CASE WriteStep(c)
    <3>1. \/ calls' = calls \/ calls' = <<>>
          \/ calls' = <<<<"fail", c>>, <<"close", c>>>>
      BY <2>7 DEF WriteStep, WriteDone, WriteFails
    <3> QED
      BY <2>2, <2>3, <2>4, <3>1
  <2>8. CASE FinishIdle(c) \/ FinishServe(c) \/ FinishClose(c)
    <3>1. res[c] # None
      BY <2>8 DEF FinishIdle, FinishServe, FinishClose, Pool!ReleaseIdle, Pool!ReleaseServe,
                  Pool!Detach
    <3>2. \/ calls' = <<<<"done", res[c]>>>>
          \/ calls' = <<<<"done", res[c]>>, <<"close", c>>>>
      BY <2>8 DEF FinishIdle, FinishServe, FinishClose
    <3> DEFINE d == <<"done", res[c]>>
               e == <<"close", c>>
    <3>3. d \in CallType /\ e \in CallType /\ (calls' = <<d>> \/ calls' = <<d, e>>)
      BY <2>4, <2>5, <3>1, <3>2
    <3> HIDE DEF d, e
    <3>4. <<d>> \in Seq(CallType) /\ <<d, e>> \in Seq(CallType)
      BY <2>3, <3>3
    <3> QED
      BY <3>3, <3>4
  <2>9. CASE ReadStep(c) /\ ~(FinishIdle(c) \/ FinishServe(c) \/ FinishClose(c))
    <3>1. \/ calls' = calls \/ calls' = <<<<"close", c>>>>
          \/ calls' = <<<<"close", c>>, <<"fail", c>>>>
      BY <2>9 DEF ReadStep, StatusLine, StrayLine, HeaderLine, HeadersEnd, NoTransfer, ChunkSize,
                  ChunkData, ReadFails
    <3> QED
      BY <2>2, <2>3, <2>4, <3>1
  <2> QED
    BY <2>6, <2>7, <2>8, <2>9
<1>4. phase' \in [Conn -> {"none", "stopped"} \cup Connecting \cup Reading]
  BY DEF Connecting, Reading, Parsing,
         ConnectStep, Resolved, StartHandshake, ConnectFails, UpFor, UpIdle, UpServe, Up,
         WriteStep, WriteDone, WriteFails,
         ReadStep, StatusLine, StrayLine, HeaderLine, HeadersEnd, NoTransfer, ChunkSize,
         ChunkData, FinishIdle, FinishServe, FinishClose, ReadFails,
         TimerExpires, TimerHandler
<1>5. timer' \in [Conn -> BOOLEAN] /\ expired' \in [Conn -> BOOLEAN]
  BY DEF ExtendTimer, WriteRequest,
         ConnectStep, Resolved, StartHandshake, ConnectFails, UpFor, UpIdle, UpServe,
         WriteStep, WriteDone, WriteFails,
         ReadStep, StatusLine, StrayLine, HeaderLine, HeadersEnd, NoTransfer, ChunkSize,
         ChunkData, FinishIdle, FinishServe, FinishClose, ReadFails,
         TimerExpires, TimerHandler
<1>6. more' \in [Conn -> 0..MaxMore]
  BY ClientConstants
     DEF ConnectStep, Resolved, StartHandshake, ConnectFails, UpFor, UpIdle, UpServe, WriteRequest,
         WriteStep, WriteDone, WriteFails,
         ReadStep, StatusLine, StrayLine, HeaderLine, HeadersEnd, NoTransfer, ChunkSize,
         ChunkData, FinishIdle, FinishServe, FinishClose, ReadFails,
         TimerExpires, TimerHandler
<1>7. writes' \in [Conn -> [open : Nat, dead : Nat]]
  <2>1. writes[c].open \in Nat /\ writes[c].dead \in Nat
    OBVIOUS
  <2>2. CASE WriteRequest(c)
    BY <2>1, <2>2 DEF WriteRequest
  <2>3. CASE WriteStep(c)
    <3>1. \/ writes[c].open > 0 /\ writes' = [writes EXCEPT ![c].open = @ - 1]
          \/ writes[c].dead > 0 /\ writes' = [writes EXCEPT ![c].dead = @ - 1]
      BY <2>3 DEF WriteStep, WriteDone, WriteFails
    <3>2. writes[c].open > 0 => writes[c].open - 1 \in Nat
      BY <2>1
    <3>3. writes[c].dead > 0 => writes[c].dead - 1 \in Nat
      BY <2>1
    <3>4. writes \in [Conn -> [open : Nat, dead : Nat]]
      OBVIOUS
    <3>5. CASE writes[c].open > 0 /\ writes' = [writes EXCEPT ![c].open = @ - 1]
      BY ONLY c \in Conn, <3>2, <3>4, <3>5
    <3>6. CASE writes[c].dead > 0 /\ writes' = [writes EXCEPT ![c].dead = @ - 1]
      BY ONLY c \in Conn, <3>3, <3>4, <3>6
    <3> QED
      BY <3>1, <3>5, <3>6
  <2>4. CASE UNCHANGED writes
    BY <2>4
  <2> QED
    BY <2>2, <2>3, <2>4
       DEF ConnectStep, Resolved, StartHandshake, ConnectFails, UpFor, UpIdle, UpServe,
           ReadStep, StatusLine, StrayLine, HeaderLine, HeadersEnd, NoTransfer, ChunkSize,
           ChunkData, FinishIdle, FinishServe, FinishClose, ReadFails, TimerExpires, TimerHandler
<1> QED
  BY <1>1, <1>2, <1>3, <1>4, <1>5, <1>6, <1>7 DEF respVars, PoolFacts, CallType

LEMMA TypesKept == TypeOK /\ PoolFacts /\ PoolFacts' /\ [Next]_vars => TypeOK'
<1> SUFFICES ASSUME TypeOK, PoolFacts, PoolFacts', [Next]_vars PROVE TypeOK'
  OBVIOUS
<1>1. ASSUME NEW r \in Request, UserRequest(r) PROVE TypeOK'
  <2>1. calls' \in Seq(CallType)
    <3>1. <<"next", r>> \in CallType /\ calls \in Seq(CallType)
      BY CallsMade DEF TypeOK, CallType
    <3> QED
      BY <1>1, <3>1 DEF UserRequest
  <2> QED
    BY <1>1, <2>1 DEF UserRequest, connVars, TypeOK, PoolFacts, CallType
<1>2. CASE UNCHANGED vars
  BY <1>2 DEF vars, connVars, respVars, TypeOK, PoolFacts
<1> QED
  BY <1>1, <1>2, TypesCalls, TypesEvents DEF Next, Event

(* Every variable of the client keeps its type, the calls of the running   *)
(* handler, the retries and the outstanding writes among them.             *)
THEOREM ClientTypeCorrect == Spec => []TypeOK
BY TypesInit, TypesKept, PoolFactsHold, PTL DEF Spec

-----------------------------------------------------------------------------
(* What the handlers and the calls they make do to a connection.           *)

(* A request made by a callback leaves the calls of its handler to follow. *)
LEMMA RequestStaysCall ==
  ASSUME TypeOK, NEW r \in Request, UserRequest(r)
  PROVE  /\ calls'[1] = <<"next", r>> /\ 1 \in 1..Len(calls')
         /\ \A i \in 1..Len(calls) : i + 1 \in 1..Len(calls') /\ calls'[i + 1] = calls[i]
<1>1. calls \in Seq(CallType) /\ <<"next", r>> \in CallType
  BY CallsMade DEF TypeOK, CallType
<1>2. calls' = <<<<"next", r>>>> \o calls
  BY DEF UserRequest
<1> HIDE DEF CallType
<1> QED
  BY <1>1, <1>2

(* A call that waits stays until it is made.                               *)
LEMMA OtherCallsStay ==
  ASSUME TypeOK, calls # <<>>, NEW d \in Conn, ClosePending(d), Head(calls) # <<"close", d>>,
         \/ calls' = Tail(calls)
         \/ \E r \in Request : calls' = <<<<"next", r>>>> \o Tail(calls)
  PROVE  ClosePending(d)'
<1>1. calls \in Seq(CallType)
  BY DEF TypeOK, CallType
<1>2. PICK i \in 1..Len(calls) : calls[i] = <<"close", d>>
  BY DEF ClosePending
<1>3. /\ Len(calls) \in Nat /\ Head(calls) = calls[1]
      /\ Len(Tail(calls)) = Len(calls) - 1
      /\ \A j \in 1..Len(Tail(calls)) : Tail(calls)[j] = calls[j + 1]
  BY <1>1
<1>4. i - 1 \in 1..Len(Tail(calls)) /\ (i - 1) + 1 = i
  BY <1>2, <1>3
<1>5. Tail(calls)[i - 1] = <<"close", d>>
  BY <1>2, <1>3, <1>4
<1>6. CASE calls' = Tail(calls)
  BY <1>4, <1>5, <1>6 DEF ClosePending
<1>7. ASSUME NEW r \in Request, calls' = <<<<"next", r>>>> \o Tail(calls) PROVE ClosePending(d)'
  <2> DEFINE x == <<"next", r>>
             rest == Tail(calls)
  <2>1. x \in CallType /\ rest \in Seq(CallType) /\ calls' = <<x>> \o rest
    BY <1>1, <1>7, CallsMade, CallRuns
  <2>2. i - 1 \in 1..Len(rest) /\ (i - 1) + 1 = i /\ rest[i - 1] = <<"close", d>>
    BY <1>4, <1>5
  <2> HIDE DEF x, rest
  <2>3. Len(rest) \in Nat /\ i \in 2..(1 + Len(rest))
    <3>1. Len(rest) \in Nat
      BY <2>1
    <3>2. i \in Nat
      BY <1>3
    <3> QED
      BY <2>2, <3>1, <3>2
  <2>4. Len(calls') = 1 + Len(rest) /\ calls'[i] = rest[i - 1]
    BY <2>1, <2>3
  <2> QED
    BY <2>2, <2>3, <2>4 DEF ClosePending
<1> QED
  BY <1>6, <1>7

(* A call gives responses to idle connections and takes none away, starts  *)
(* new connections, and leaves open ones watched and parked.               *)
LEMMA CallEffect ==
  ASSUME TypeOK, PoolFacts, Call
  PROVE  /\ \A d \in Conn : phase'[d] \in {phase[d], "resolve"}
         /\ \A d \in Pool!Live' : d \in Conn /\ (d \in Pool!Live \/ phase'[d] = "resolve")
         /\ \A d \in Conn : res[d] # None => res'[d] # None
         /\ \A d \in Conn \ closed' : Parked(d) => Parked(d)' \/ res'[d] # None
         /\ \A d \in Conn \ closed' : /\ timer[d] => timer'[d]
                                      /\ expired[d] => expired'[d]
                                      /\ ClosePending(d) => ClosePending(d)'
<1> DEFINE Same == /\ UNCHANGED <<phase, timer, expired>>
           Goal == /\ \A d \in Conn : phase'[d] \in {phase[d], "resolve"}
                   /\ \A d \in Pool!Live' : d \in Conn /\ (d \in Pool!Live \/ phase'[d] = "resolve")
                   /\ \A d \in Conn : res[d] # None => res'[d] # None
                   /\ \A d \in Conn \ closed' : Parked(d) => Parked(d)' \/ res'[d] # None
                   /\ \A d \in Conn \ closed' : /\ timer[d] => timer'[d]
                                                /\ expired[d] => expired'[d]
           Kept == \A d \in Conn \ closed' : ClosePending(d) => ClosePending(d)'
<1>1. /\ phase \in [Conn -> {"none", "stopped"} \cup Connecting \cup Reading]
      /\ timer \in [Conn -> BOOLEAN] /\ expired \in [Conn -> BOOLEAN]
      /\ res \in [Conn -> Request \cup {None}]
      /\ created \in 0..MaxConn /\ MaxConn \in Nat /\ Conn = 1..MaxConn
      /\ closed \subseteq 1..created
      /\ None \notin Request
  BY ClientConstants DEF TypeOK, Pool!TypeOK, Conn, Pool!Conn
<1>2. \A d \in Pool!Live : d \in Conn
  BY <1>1 DEF Pool!Live
<1>3. ASSUME NEW r \in Request, NEW c \in Conn, CallNextAvailable(r, c) PROVE Goal /\ Kept
  <2>1. /\ Pool!NextAvailable(r, c) /\ Calling("next", r) /\ Return
        /\ WriteRequest(c) /\ UNCHANGED phase
    BY <1>3 DEF CallNextAvailable
  <2>2. Goal
    BY <1>1, <1>2, <2>1, TakenFromPool DEF WriteRequest, ExtendTimer, Pool!Live
  <2>3. Kept
    BY <2>1, OtherCallsStay DEF Calling, Return
  <2> QED
    BY <2>2, <2>3
<1>4. ASSUME NEW r \in Request, CallNextConnect(r) PROVE Goal /\ Kept
  <2>1. /\ Pool!NextConnect(r) /\ Calling("next", r) /\ Return
        /\ StartRequest /\ UNCHANGED <<timer, expired>>
    BY <1>4 DEF CallNextConnect
  <2>2. created < MaxConn /\ created' = created + 1
    BY <2>1 DEF Pool!NextConnect, Pool!Connect
  <2>3. Goal
    BY <1>1, <1>2, <2>1, <2>2, NoneToTake DEF StartRequest, Pool!Live
  <2>4. Kept
    BY <2>1, OtherCallsStay DEF Calling, Return
  <2> QED
    BY <2>3, <2>4
<1>5. ASSUME NEW r \in Request, CallNextQueued(r) PROVE Goal /\ Kept
  <2>1. /\ Pool!NextQueued(r) /\ Calling("next", r) /\ Return
        /\ UNCHANGED <<phase, timer, expired, created>>
    BY <1>5 DEF CallNextQueued, connVars, Pool!NextQueued
  <2>2. Goal
    BY <1>1, <1>2, <2>1, NoneToTake DEF Pool!Live
  <2>3. Kept
    BY <2>1, OtherCallsStay DEF Calling, Return
  <2> QED
    BY <2>2, <2>3
<1>6. ASSUME UNCHANGED <<poolVars, connVars>>, NEW op \in {"done", "fail", "close"}, NEW x,
             Calling(op, x), op = "close" => x \in closed,
             \/ calls' = Tail(calls)
             \/ \E r \in Request : calls' = <<<<"next", r>>>> \o Tail(calls)
      PROVE  Goal /\ Kept
  <2>1. Goal
    BY <1>1, <1>2, <1>6 DEF poolVars, connVars, Pool!Live, Parked
  <2>2. Kept
    <3>1. calls # <<>> /\ Head(calls) = <<op, x>>
      BY <1>6 DEF Calling
    <3>2. \A d \in Conn \ closed' : Head(calls) # <<"close", d>>
      BY <1>6, <3>1 DEF poolVars
    <3> QED
      BY <1>6, <3>1, <3>2, OtherCallsStay
  <2> QED
    BY <2>1, <2>2
<1>7. ASSUME NEW r \in Request, CallDone(r) PROVE Goal /\ Kept
  BY <1>6, <1>7 DEF CallDone, Accept, Retry, Return
<1>8. ASSUME NEW c \in Conn, CallFail(c) PROVE Goal /\ Kept
  BY <1>6, <1>8 DEF CallFail, Accept, Retry, Return
<1>9. ASSUME NEW c \in Conn, CallCloseAgain(c) PROVE Goal /\ Kept
  BY <1>6, <1>9 DEF CallCloseAgain, Return
<1>10. ASSUME NEW c \in Conn, CallClose(c) PROVE Goal /\ Kept
  <2>1. /\ Calling("close", c) /\ Return /\ timer' = [timer EXCEPT ![c] = FALSE]
        /\ UNCHANGED expired
    BY <1>10 DEF CallClose
  <2>2. PICK reconnect \in BOOLEAN :
          /\ Pool!RemoveErases(c, reconnect)
          /\ IF reconnect THEN StartRequest ELSE UNCHANGED phase
    BY <1>10 DEF CallClose, Pool!Remove, Pool!RemoveAndReconnect
  <2>3. reconnect => created < MaxConn
    BY <2>2 DEF Pool!RemoveErases, Pool!Connect
  <2>4. /\ UNCHANGED res
        /\ closed' = closed \cup {c}
        /\ created' = IF reconnect THEN created + 1 ELSE created
        /\ \A d \in Conn \ closed' : Parked(d) => Parked(d)'
    BY <2>2, ClosedOnce
  <2>5. Goal
    BY <1>1, <1>2, <2>1, <2>2, <2>3, <2>4 DEF StartRequest, Pool!Live
  <2>6. Kept
    BY <2>1, <2>4, OtherCallsStay DEF Calling, Return
  <2> QED
    BY <2>5, <2>6
<1> QED
  BY <1>3, <1>4, <1>5, <1>7, <1>8, <1>9, <1>10 DEF Call

(* A handler of c leaves other connections alone. When c begins to parse   *)
(* it has a response; once it is past connecting its timer runs or close() *)
(* is to be called; when it waits for a status line without a response, it *)
(* is parked; unless that is as it was.                                    *)
LEMMA EventAlone ==
  ASSUME TypeOK, PoolFacts, NEW c \in Conn, Event(c)
  PROVE  /\ calls = <<>>
         /\ UNCHANGED <<created, closed>>
         /\ \A d \in Conn \ {c} : /\ UNCHANGED <<phase[d], res[d], timer[d], expired[d]>>
                                  /\ Parked(d) => Parked(d)'
<1> USE DEF Event
<1>1. /\ phase \in [Conn -> {"none", "stopped"} \cup Connecting \cup Reading]
      /\ timer \in [Conn -> BOOLEAN] /\ expired \in [Conn -> BOOLEAN]
      /\ res \in [Conn -> Request \cup {None}]
  BY DEF TypeOK, Pool!TypeOK, Conn
<1>2. calls = <<>>
  BY DEF IoFree, ConnectStep, Resolved, StartHandshake, ConnectFails, UpFor, UpIdle, UpServe, Up,
         WriteStep, WriteDone, WriteFails,
         ReadStep, StatusLine, StrayLine, HeaderLine, HeadersEnd, NoTransfer, ChunkSize,
         ChunkData, FinishIdle, FinishServe, FinishClose, ReadFails, BodyEnds,
         TimerExpires, TimerHandler
<1>3. \A d \in Conn \ {c} : UNCHANGED <<phase[d], timer[d], expired[d]>>
  BY <1>1 DEF ExtendTimer, WriteRequest,
         ConnectStep, Resolved, StartHandshake, ConnectFails, UpFor, UpIdle, UpServe, Up,
         WriteStep, WriteDone, WriteFails,
         ReadStep, StatusLine, StrayLine, HeaderLine, HeadersEnd, NoTransfer, ChunkSize,
         ChunkData, FinishIdle, FinishServe, FinishClose, ReadFails,
         TimerExpires, TimerHandler
<1>4. UNCHANGED <<created, closed>>
  BY DEF poolVars,
         Pool!Connected, Pool!EstablishedFor, Pool!EstablishedIdle, Pool!EstablishedServe,
         Pool!ReleaseIdle, Pool!ReleaseServe, Pool!Detach,
         ConnectStep, Resolved, StartHandshake, ConnectFails, UpFor, UpIdle, UpServe,
         WriteStep, WriteDone, WriteFails,
         ReadStep, StatusLine, StrayLine, HeaderLine, HeadersEnd, NoTransfer, ChunkSize,
         ChunkData, FinishIdle, FinishServe, FinishClose, ReadFails,
         TimerExpires, TimerHandler
<1>5. \/ Pool!Park(c) \/ Pool!Serve(c)
      \/ UNCHANGED available /\ \E x \in Request \cup {None} : res' = [res EXCEPT ![c] = x]
      \/ UNCHANGED <<available, res>>
  BY DEF poolVars,
         Pool!EstablishedFor, Pool!EstablishedIdle, Pool!EstablishedServe,
         Pool!ReleaseIdle, Pool!ReleaseServe, Pool!Detach,
         ConnectStep, Resolved, StartHandshake, ConnectFails, UpFor, UpIdle, UpServe,
         WriteStep, WriteDone, WriteFails,
         ReadStep, StatusLine, StrayLine, HeaderLine, HeadersEnd, NoTransfer, ChunkSize,
         ChunkData, FinishIdle, FinishServe, FinishClose, ReadFails,
         TimerExpires, TimerHandler
<1>6. \A d \in Conn \ {c} : UNCHANGED res[d] /\ (Parked(d) => Parked(d)')
  <2>1. CASE Pool!Park(c)
    BY <1>1, <2>1, ParkedStay
  <2>2. CASE Pool!Serve(c)
    BY <1>1, <2>2, ServedNext DEF Parked
  <2> QED
    BY <1>1, <1>5, <2>1, <2>2 DEF Parked
<1> QED
  BY <1>2, <1>3, <1>4, <1>6

LEMMA EventParses ==
  ASSUME TypeOK, PoolFacts, NEW c \in Conn, Event(c), phase'[c] \in Parsing
  PROVE  UNCHANGED res /\ (phase[c] \in Parsing \/ res[c] # None)
BY DEF Event, TypeOK, Parsing, poolVars,
       ConnectStep, Resolved, StartHandshake, ConnectFails, UpFor, UpIdle, UpServe, Up,
       WriteStep, WriteDone, WriteFails,
       ReadStep, StatusLine, StrayLine, HeaderLine, HeadersEnd, NoTransfer, ChunkSize,
       ChunkData, FinishIdle, FinishServe, FinishClose, ReadFails,
       TimerExpires, TimerHandler

LEMMA EventWatched ==
  ASSUME TypeOK, PoolFacts, NEW c \in Conn, Event(c)
  PROVE  \/ phase'[c] \in {"none", "resolve", "connect"}
         \/ timer'[c] \/ expired'[c] \/ ClosePending(c)'
         \/ UNCHANGED <<phase[c], timer[c], expired[c]>>
<1>1. timer \in [Conn -> BOOLEAN] /\ expired \in [Conn -> BOOLEAN]
  BY DEF TypeOK
<1>2. ExtendTimer(c) => timer'[c]
  BY <1>1 DEF ExtendTimer
<1>3. ASSUME \/ calls' = <<<<"close", c>>>>
             \/ calls' = <<<<"close", c>>, <<"fail", c>>>>
      PROVE  ClosePending(c)'
  <2>1. Len(calls') \in {1, 2} /\ calls'[1] = <<"close", c>>
    BY <1>3
  <2> QED
    BY <2>1 DEF ClosePending
<1>4. CASE ConnectStep(c)
  BY <1>2, <1>3, <1>4
     DEF TypeOK, ConnectStep, Resolved, StartHandshake, ConnectFails, UpFor, UpIdle, UpServe, WriteRequest
<1>5. CASE WriteStep(c)
  BY <1>2, <1>5 DEF WriteStep, WriteDone, WriteFails
<1>6. CASE ReadStep(c)
  BY <1>2, <1>3, <1>6
     DEF ReadStep, StatusLine, StrayLine, HeaderLine, HeadersEnd, NoTransfer, ChunkSize,
         ChunkData, FinishIdle, FinishServe, FinishClose, ReadFails, WriteRequest
<1>7. CASE TimerExpires(c) \/ TimerHandler(c)
  BY <1>1, <1>3, <1>7 DEF TimerExpires, TimerHandler
<1> QED
  BY <1>4, <1>5, <1>6, <1>7 DEF Event

LEMMA EventIdle ==
  ASSUME TypeOK, PoolFacts, NEW c \in Conn, Event(c), phase'[c] = "status"
  PROVE  \/ Parked(c)' \/ res'[c] # None
         \/ UNCHANGED <<phase[c], res[c], available>>
<1>1. /\ phase \in [Conn -> {"none", "stopped"} \cup Connecting \cup Reading]
      /\ res \in [Conn -> Request \cup {None}] /\ None \notin Request
  BY ClientConstants DEF TypeOK, Pool!TypeOK, Conn
<1>2. CASE Pool!Park(c)
  BY <1>2, ParkedStay
<1>3. CASE Pool!Serve(c) \/ \E r \in Request : res' = [res EXCEPT ![c] = r]
  BY <1>1, <1>3, ServedNext
<1>4. CASE UNCHANGED poolVars /\ UNCHANGED phase
  BY <1>4 DEF poolVars
<1> QED
  BY <1>1, <1>2, <1>3, <1>4
     DEF Event, poolVars,
         Pool!EstablishedFor, Pool!EstablishedIdle, Pool!EstablishedServe,
         Pool!ReleaseIdle, Pool!ReleaseServe,
         ConnectStep, Resolved, StartHandshake, ConnectFails, UpFor, UpIdle, UpServe,
         WriteStep, WriteDone, WriteFails,
         ReadStep, StatusLine, StrayLine, HeaderLine, HeadersEnd, NoTransfer, ChunkSize,
         ChunkData, FinishIdle, FinishServe, FinishClose, ReadFails,
         TimerExpires, TimerHandler

-----------------------------------------------------------------------------
(* What holds of every connection and every response.                      *)

(* A request whose outcome its caller was told is not tried again.         *)
Told == \A r \in Request : completion[r] # "pending" => current[r] = "ready"

ClientInv == ParsingHasResponse /\ Watched /\ IdleIsAvailable /\ Told

LEMMA ClientInvInit == Init => ClientInv
BY DEF Init, ClientInv, ParsingHasResponse, Parsing, Watched, IdleIsAvailable, Told,
       Pool!Init, Pool!Live, Conn

(* Calls preserve what is said of connections.                             *)
LEMMA ConnectionsCall ==
  ASSUME TypeOK, PoolFacts, ParsingHasResponse, Watched, IdleIsAvailable, Call
  PROVE  ParsingHasResponse' /\ Watched' /\ IdleIsAvailable'
<1>1. ParsingHasResponse'
  BY CallEffect DEF ParsingHasResponse, Parsing
<1>2. \A d \in Pool!Live' : d \notin closed'
  BY DEF Pool!Live
<1>3. Watched'
  BY <1>2, CallEffect DEF Watched, ClosePending
<1>4. IdleIsAvailable'
  BY <1>2, CallEffect DEF IdleIsAvailable, Parked
<1> QED
  BY <1>1, <1>3, <1>4

(* So do the handlers of a connection.                                     *)
LEMMA ConnectionsEvent ==
  ASSUME TypeOK, PoolFacts, ParsingHasResponse, Watched, IdleIsAvailable,
         NEW c \in Conn, Event(c)
  PROVE  ParsingHasResponse' /\ Watched' /\ IdleIsAvailable'
<1>1. Pool!Live' = Pool!Live /\ \A d \in Pool!Live : d \in Conn
  <2>1. UNCHANGED <<created, closed>>
    BY EventAlone
  <2>2. Pool!Live' = Pool!Live
    BY <2>1 DEF Pool!Live
  <2>3. \A d \in Pool!Live : d \in Conn
    BY ClientConstants DEF Pool!Live, Conn, Pool!Conn, PoolFacts, Pool!TypeOK
  <2> QED
    BY <2>2, <2>3
<1>2. \A d \in Conn : ~ClosePending(d)
  BY EventAlone DEF ClosePending
<1>3. ParsingHasResponse'
  BY EventAlone, EventParses DEF ParsingHasResponse
<1>4. Watched'
  <2>1. \A d \in Pool!Live : phase[d] \notin {"none", "resolve", "connect"} => timer[d] \/ expired[d]
    BY <1>1, <1>2 DEF Watched, ClosePending
  <2> QED
    BY <1>1, <2>1, EventAlone, EventWatched DEF Watched, ClosePending
<1>5. IdleIsAvailable'
  BY <1>1, EventAlone, EventIdle DEF IdleIsAvailable, Parked
<1> QED
  BY <1>3, <1>4, <1>5

(* The outcome of a request, and how often it is tried.                    *)
LEMMA OutcomeStands ==
  ASSUME TypeOK, Told, [Next]_vars
  PROVE  /\ Told'
         /\ \A r \in Request : completion[r] # "pending"
              => UNCHANGED <<completion[r], attempt[r], current[r]>>
<1> DEFINE Goal == /\ Told'
                   /\ \A r \in Request : completion[r] # "pending"
                        => UNCHANGED <<completion[r], attempt[r], current[r]>>
<1>1. /\ attempt \in [Request -> 0..MaxRetry]
      /\ current \in [Request -> {"unsent", "pending", "ready"}]
      /\ completion \in [Request -> {"pending", "done", "failed"}]
  BY DEF TypeOK
<1>2. CASE UNCHANGED respVars
  BY <1>2 DEF respVars, Told
<1>3. ASSUME NEW r \in Request, UserRequest(r) PROVE Goal
  BY <1>1, <1>3 DEF UserRequest, Told
<1>4. ASSUME NEW r \in Request, NEW o \in {"done", "failed"}, current[r] = "pending",
             Accept(r, o) \/ Retry(r)
      PROVE  Goal
  BY <1>1, <1>4 DEF Accept, Retry, Told
<1>5. ASSUME NEW r \in Request, CallDone(r) PROVE Goal
  BY <1>2, <1>4, <1>5 DEF CallDone
<1>6. ASSUME NEW c \in Conn, CallFail(c) PROVE Goal
  BY <1>2, <1>4, <1>6 DEF CallFail
<1>7. ASSUME NEW c \in Conn, Event(c) PROVE UNCHANGED respVars
  BY <1>7 DEF Event, ConnectStep, Resolved, StartHandshake, ConnectFails, UpFor, UpIdle, UpServe, Up,
         WriteStep, WriteDone, WriteFails,
         ReadStep, StatusLine, StrayLine, HeaderLine, HeadersEnd, NoTransfer, ChunkSize,
         ChunkData, FinishIdle, FinishServe, FinishClose, ReadFails, BodyEnds,
         TimerExpires, TimerHandler
<1>8. CASE Call
  BY <1>2, <1>5, <1>6, <1>8 DEF Call, CallNextAvailable, CallNextConnect, CallNextQueued,
       CallCloseAgain, CallClose
<1>9. CASE UNCHANGED vars
  BY <1>2, <1>9 DEF vars
<1> QED
  BY <1>2, <1>3, <1>7, <1>8, <1>9 DEF Next, Event

LEMMA ClientInvKept == ClientInv /\ TypeOK /\ PoolFacts /\ [Next]_vars => ClientInv'
<1> SUFFICES ASSUME ClientInv, TypeOK, PoolFacts, [Next]_vars PROVE ClientInv'
  OBVIOUS
<1> DEFINE Goal == ParsingHasResponse' /\ Watched' /\ IdleIsAvailable'
<1>1. ASSUME Call PROVE Goal
  BY <1>1, ConnectionsCall DEF ClientInv
<1>2. ASSUME NEW c \in Conn, Event(c) PROVE Goal
  BY <1>2, ConnectionsEvent DEF ClientInv
<1>3. ASSUME NEW r \in Request, UserRequest(r) PROVE Goal
  <2>1. UNCHANGED <<phase, res, timer, expired, available, created, closed>>
    BY <1>3 DEF UserRequest, poolVars, connVars
  <2>2. \A d \in Conn : ClosePending(d) => ClosePending(d)'
    BY <1>3, RequestStaysCall DEF ClosePending
  <2>3. \A d \in Pool!Live : d \in Conn
    BY ClientConstants DEF Pool!Live, Conn, Pool!Conn, PoolFacts, Pool!TypeOK
  <2> QED
    BY <2>1, <2>2, <2>3 DEF ClientInv, ParsingHasResponse, Watched, IdleIsAvailable, ClosePending, Pool!Live
<1>4. ASSUME UNCHANGED vars PROVE Goal
  BY <1>4 DEF vars, poolVars, connVars, ClientInv, ParsingHasResponse, Watched, IdleIsAvailable,
       Pool!Live
<1>5. Goal
  BY <1>1, <1>2, <1>3, <1>4 DEF Next, Event
<1> QED
  BY <1>5, OutcomeStands DEF ClientInv

LEMMA ClientInvariant == Spec => [](ClientInv /\ TypeOK /\ PoolFacts)
BY ClientInvInit, ClientInvKept, ClientTypeCorrect, PoolFactsHold, PTL DEF Spec

(* The handlers that parse a response never find res_ null: however        *)
(* timeouts, lost connections, retries and late reads fall.                *)
THEOREM ParsersHaveAResponse == Spec => []ParsingHasResponse
BY ClientInvariant, PTL DEF ClientInv

(* No open connection hangs for ever: past connecting its stall timer is   *)
(* always running or has expired, or close() is about to be called.        *)
THEOREM NothingHangs == Spec => []Watched
BY ClientInvariant, PTL DEF ClientInv

(* No open connection without work is out of the pool's reach.             *)
THEOREM NoSlotLeaks == Spec => []IdleIsAvailable
BY ClientInvariant, PTL DEF ClientInv

(* The caller of request() is told once: what it was told stands, and its  *)
(* completion handler does not run again, so asks for no further attempt.  *)
THEOREM OutcomeFinal == Spec => CompletedOnce
<1>1. Told /\ TypeOK /\ [Next]_vars =>
        [\A r \in Request : completion[r] # "pending"
           => UNCHANGED <<completion[r], attempt[r], current[r]>>]_vars
  BY OutcomeStands
<1> QED
  BY <1>1, ClientInvariant, PTL DEF Spec, CompletedOnce, ClientInv

(* write_request displaces no response: a connection is given one when it  *)
(* has none, or where the last one has just been read to its end.          *)
THEOREM ResponsesKept == Spec => NothingDisplaced
<1> DEFINE Displaces(c) == \/ writes'[c].open > writes[c].open
                           \/ writes'[c].dead > writes[c].dead
                           \/ res'[c] # res[c]
           Goal == \A c \in Conn : Displaces(c) => res[c] = None \/ phase[c] \in {"trailer", "body"}
<1>1. ASSUME TypeOK, PoolFacts, Next PROVE Goal
  <2>1. /\ writes \in [Conn -> [open : Nat, dead : Nat]]
        /\ res \in [Conn -> Request \cup {None}]
    BY <1>1 DEF TypeOK, Pool!TypeOK, Conn
  <2>2. CASE UNCHANGED <<res, writes>>
    BY <2>1, <2>2
  <2>3. ASSUME NEW r \in Request, NEW c \in Conn, CallNextAvailable(r, c) PROVE Goal
    <3>1. res[c] = None /\ res' = [res EXCEPT ![c] = r] /\ WriteRequest(c)
      BY <1>1, <2>3, TakenFromPool DEF CallNextAvailable
    <3> QED
      BY <2>1, <3>1 DEF WriteRequest
  <2>4. ASSUME Call PROVE Goal
    <3>1. ASSUME NEW c \in Conn, CallClose(c) PROVE UNCHANGED <<res, writes>>
      BY <3>1 DEF CallClose, Pool!Remove, Pool!RemoveAndReconnect, Pool!RemoveErases
    <3> QED
      BY <2>2, <2>3, <2>4, <3>1 DEF Call, CallNextConnect, CallNextQueued, CallDone, CallFail,
           CallCloseAgain, poolVars, connVars, Pool!NextConnect, Pool!NextQueued
  <2>5. ASSUME NEW c \in Conn, Event(c) PROVE Goal
    <3>1. \A d \in Conn \ {c} : UNCHANGED <<res[d], writes[d]>>
      BY <1>1, <2>1, <2>5, EventAlone
         DEF Event, ConnectStep, Resolved, StartHandshake, ConnectFails, UpFor, UpIdle, UpServe,
             WriteRequest, WriteStep, WriteDone, WriteFails,
             ReadStep, StatusLine, StrayLine, HeaderLine, HeadersEnd, NoTransfer, ChunkSize,
             ChunkData, FinishIdle, FinishServe, FinishClose, ReadFails,
             TimerExpires, TimerHandler
    <3>2. (\E r \in Request : UpFor(c, r)) \/ UpIdle(c) \/ UpServe(c) => res[c] = None
      BY <1>1 DEF UpFor, UpIdle, UpServe, Pool!EstablishedFor, Pool!EstablishedIdle,
         Pool!EstablishedServe, Pool!Connected, PoolFacts, Pool!OnlyReadyInUse, Conn
    <3>3. FinishIdle(c) \/ FinishServe(c) \/ FinishClose(c) => phase[c] \in {"trailer", "body"}
      BY DEF FinishIdle, FinishServe, FinishClose, BodyEnds
    <3>4. ASSUME WriteStep(c) PROVE ~Displaces(c)
      <4>1. writes[c].open \in Nat /\ writes[c].dead \in Nat
        BY <2>1
      <4>2. /\ UNCHANGED res
            /\ \/ writes' = [writes EXCEPT ![c].open = @ - 1]
               \/ writes' = [writes EXCEPT ![c].dead = @ - 1]
        BY <3>4 DEF WriteStep, WriteDone, WriteFails, poolVars
      <4>3. /\ writes'[c].open \in {writes[c].open, writes[c].open - 1}
            /\ writes'[c].dead \in {writes[c].dead, writes[c].dead - 1}
        BY <2>1, <4>2
      <4> QED
        BY <4>1, <4>2, <4>3
    <3>5. \/ UNCHANGED <<res, writes>> \/ WriteStep(c)
          \/ (\E r \in Request : UpFor(c, r)) \/ UpIdle(c) \/ UpServe(c)
          \/ FinishIdle(c) \/ FinishServe(c) \/ FinishClose(c)
      BY <2>5 DEF Event, ConnectStep, Resolved, StartHandshake, ConnectFails,
             ReadStep, StatusLine, StrayLine, HeaderLine, HeadersEnd, NoTransfer, ChunkSize,
             ChunkData, ReadFails, TimerExpires, TimerHandler, poolVars
    <3>6. Displaces(c) => res[c] = None \/ phase[c] \in {"trailer", "body"}
      BY <2>1, <3>2, <3>3, <3>4, <3>5
    <3>7. \A d \in Conn \ {c} : ~Displaces(d)
      BY <2>1, <3>1
    <3> QED
      BY <3>6, <3>7
  <2>6. ASSUME NEW r \in Request, UserRequest(r) PROVE UNCHANGED <<res, writes>>
    BY <2>6 DEF UserRequest, poolVars, connVars
  <2> QED
    BY <1>1, <2>2, <2>4, <2>5, <2>6 DEF Next, Event
<1>2. ASSUME TypeOK, PoolFacts, [Next]_vars PROVE [Goal]_vars
  BY <1>1, <1>2
<1> QED
  BY <1>2, ClientInvariant, PTL DEF Spec, NothingDisplaced

(* Where a server answers only what it has read to its end, a response is  *)
(* not given up while its request is still being written.                  *)
Writing(c) == writes[c].open > 0 \/ writes[c].dead > 0

WritesAnswered == \A c \in Conn : Writing(c) => res[c] # None /\ phase[c] \notin Parsing

(* A write is begun only where none is outstanding, or not at all.         *)
LEMMA WritesAnsweredCall ==
  ASSUME TypeOK, PoolFacts, ParsingHasResponse, WritesAnswered, Call
  PROVE  WritesAnswered'
<1>1. /\ writes \in [Conn -> [open : Nat, dead : Nat]]
      /\ res \in [Conn -> Request \cup {None}]
      /\ None \notin Request
  BY ClientConstants DEF TypeOK, Pool!TypeOK, Conn
<1>2. \A d \in Conn : phase'[d] \in {phase[d], "resolve"} /\ (res[d] # None => res'[d] # None)
  BY CallEffect
<1>3. ASSUME NEW r \in Request, NEW c \in Conn, CallNextAvailable(r, c) PROVE WritesAnswered'
  <2>1. /\ res[c] = None /\ res' = [res EXCEPT ![c] = r]
        /\ WriteRequest(c) /\ UNCHANGED phase
    BY <1>3, TakenFromPool DEF CallNextAvailable
  <2>2. \A d \in Conn \ {c} : writes'[d] = writes[d] /\ res'[d] = res[d]
    BY <1>1, <2>1 DEF WriteRequest
  <2>3. res'[c] # None /\ phase[c] \notin Parsing
    BY <1>1, <2>1 DEF ParsingHasResponse
  <2> QED
    BY <2>1, <2>2, <2>3 DEF WritesAnswered, Writing
<1>4. CASE UNCHANGED writes
  BY <1>2, <1>4 DEF WritesAnswered, Writing, Parsing
<1> QED
  BY <1>3, <1>4 DEF Call, CallNextConnect, CallNextQueued, CallDone, CallFail, CallCloseAgain,
     CallClose, connVars

LEMMA WritesAnsweredEvent ==
  ASSUME TypeOK, PoolFacts, ParsingHasResponse, WritesAnswered, NEW c \in Conn, Event(c),
         Faults \cap {"early", "unsolicited"} = {}
  PROVE  WritesAnswered' /\ (crashed' => crashed)
<1>1. /\ writes \in [Conn -> [open : Nat, dead : Nat]]
      /\ res \in [Conn -> Request \cup {None}]
      /\ phase \in [Conn -> {"none", "stopped"} \cup Connecting \cup Reading]
      /\ None \notin Request
  BY ClientConstants DEF TypeOK, Pool!TypeOK, Conn
<1>2. \A d \in Conn \ {c} : UNCHANGED <<phase[d], res[d]>>
  BY EventAlone
<1>3. writes[c].open \in Nat /\ writes[c].dead \in Nat
  BY <1>1
<1> DEFINE Goal == /\ \A d \in Conn \ {c} : writes'[d] = writes[d]
                   /\ Writing(c)' => res'[c] # None /\ phase'[c] \notin Parsing
                   /\ crashed' => crashed
<1>4. SUFFICES Goal
  BY <1>2 DEF WritesAnswered, Writing
<1>5. ASSUME (\E r \in Request : UpFor(c, r)) \/ UpServe(c) \/ FinishServe(c) PROVE Goal
  <2>1. /\ WriteRequest(c) /\ phase' = [phase EXCEPT ![c] = "status"] /\ crashed' = crashed
        /\ \E r \in Request : res' = [res EXCEPT ![c] = r]
    BY <1>5, ServedNext DEF UpFor, UpServe, Up, FinishServe, BodyEnds, Pool!EstablishedFor,
       Pool!EstablishedServe, Pool!ReleaseServe
  <2> QED
    BY <1>1, <2>1 DEF WriteRequest, Parsing
<1>6. ASSUME WriteStep(c) PROVE Goal
  <2>1. UNCHANGED <<res, phase>>
    BY <1>6 DEF WriteStep, WriteDone, WriteFails, poolVars
  <2>2. /\ \/ writes[c].open > 0 /\ writes' = [writes EXCEPT ![c].open = @ - 1]
           \/ writes[c].dead > 0 /\ writes' = [writes EXCEPT ![c].dead = @ - 1]
        /\ crashed' = crashed \/ crashed' = (res[c] = None)
    BY <1>6 DEF WriteStep, WriteDone, WriteFails
  <2>3. res[c] # None /\ phase[c] \notin Parsing
    BY <2>2 DEF WritesAnswered, Writing
  <2>4. \A d \in Conn \ {c} : writes'[d] = writes[d]
    BY <1>1, <2>2
  <2>5. crashed' => crashed
    BY <2>2, <2>3
  <2> QED
    BY <2>1, <2>3, <2>4, <2>5
<1>7. ASSUME UNCHANGED <<writes, crashed>>, Writing(c) => UNCHANGED res[c] /\ (phase'[c] \in Parsing => phase[c] \in Parsing)
      PROVE  Goal
  BY <1>7 DEF WritesAnswered, Writing
<1>8. ASSUME UpIdle(c) PROVE UNCHANGED <<writes, crashed>> /\ ~Writing(c)
  <2>1. res[c] = None
    BY <1>8 DEF UpIdle, Pool!EstablishedIdle, Pool!Connected, PoolFacts, Pool!OnlyReadyInUse, Conn
  <2> QED
    BY <1>8, <2>1 DEF UpIdle, Up, WritesAnswered
<1>9. ASSUME FinishIdle(c) \/ FinishClose(c) PROVE UNCHANGED <<writes, crashed>> /\ ~Writing(c)
  <2>1. phase[c] \in Parsing /\ UNCHANGED <<writes, crashed>>
    BY <1>9 DEF FinishIdle, FinishClose, BodyEnds, Parsing
  <2> QED
    BY <2>1 DEF WritesAnswered
<1>10. ASSUME StatusLine(c) PROVE UNCHANGED <<writes, crashed>> /\ ~Writing(c)
  BY <1>3, <1>10 DEF StatusLine, Readable, Writing
<1>11. ASSUME \/ Resolved(c) \/ StartHandshake(c) \/ ConnectFails(c)
              \/ StrayLine(c) \/ HeaderLine(c) \/ HeadersEnd(c) \/ NoTransfer(c) \/ ChunkSize(c)
              \/ ChunkData(c) \/ ReadFails(c) \/ TimerExpires(c) \/ TimerHandler(c)
       PROVE  /\ UNCHANGED <<writes, crashed>>
              /\ UNCHANGED res[c] /\ (phase'[c] \in Parsing => phase[c] \in Parsing)
  BY <1>1, <1>11 DEF Parsing, poolVars, Resolved, StartHandshake, ConnectFails, StrayLine, HeaderLine,
     HeadersEnd, NoTransfer, ChunkSize, ChunkData, ReadFails, TimerExpires, TimerHandler
<1> QED
  BY <1>5, <1>6, <1>7, <1>8, <1>9, <1>10, <1>11 DEF Event, ConnectStep, ReadStep

(* No handler finds res_ null where a server answers in its turn: a write  *)
(* that fails, on an open or a closed connection, has its response still.  *)
THEOREM NullOnlyWhenEarly ==
  ASSUME Faults \cap {"early", "unsolicited"} = {}
  PROVE  Spec => []NoNullResponse
<1> DEFINE Inv == WritesAnswered /\ NoNullResponse
<1>1. Init => Inv
  BY DEF Init, WritesAnswered, Writing, NoNullResponse
<1>2. Inv /\ ClientInv /\ TypeOK /\ PoolFacts /\ [Next]_vars => Inv'
  <2> SUFFICES ASSUME Inv, ClientInv, TypeOK, PoolFacts, [Next]_vars PROVE Inv'
    OBVIOUS
  <2>1. ASSUME Call PROVE Inv'
    <3>1. crashed' = crashed
      BY <2>1 DEF Call, CallNextAvailable, CallNextConnect, CallNextQueued, CallDone, CallFail,
         CallCloseAgain, CallClose
    <3> QED
      BY <2>1, <3>1, WritesAnsweredCall DEF ClientInv, NoNullResponse
  <2>2. ASSUME NEW c \in Conn, Event(c) PROVE Inv'
    BY <2>2, WritesAnsweredEvent DEF ClientInv, NoNullResponse
  <2>3. ASSUME \/ \E r \in Request : UserRequest(r)
               \/ UNCHANGED vars
        PROVE  Inv'
    <3>1. UNCHANGED <<res, writes, phase, crashed>>
      BY <2>3 DEF UserRequest, vars, poolVars, connVars
    <3> QED
      BY <3>1 DEF WritesAnswered, Writing, NoNullResponse
  <2> QED
    BY <2>1, <2>2, <2>3 DEF Next, Event
<1> QED
  BY <1>1, <1>2, ClientInvariant, PTL DEF Spec

-----------------------------------------------------------------------------
(* Requests that are not completed. An open connection that has a response *)
(* reads it, or is about to close and then to fail it; one that is parked  *)
(* reads, or closes next. Where bodies have a length every read that a     *)
(* response waits for has an on_fail.                                      *)
Waiting(r) == \E i \in 1..Len(next) : next[i] = r
Called(x) == \E i \in 1..Len(calls) : calls[i] = x
Opening(r) == \E c \in (1..created) \ ready : onDone[c] = r
Attempted(r) == \E c \in Conn : res[c] = r /\ Tells(c)

FailsAfterClose(c) ==
  \E i, j \in 1..Len(calls) : /\ i < j
                            /\ calls[i] = <<"close", c>>
                            /\ calls[j] = <<"fail", c>>

OpenReads == \A c \in Pool!Live : res[c] # None => phase[c] \in Reading \/ FailsAfterClose(c)

ParkedReads ==
  \A c \in Pool!Live :
    Parked(c) => phase[c] = "status" \/ (calls # <<>> /\ Head(calls) = <<"close", c>>)

LengthsOnly == \A c \in Conn : phase[c] \notin {"size", "chunk", "trailer"}

AttInv == Attended /\ OpenReads /\ ParkedReads /\ LengthsOnly

LEMMA AttendedParts ==
  Attended <=> \A r \in Request : current[r] = "pending" =>
                 Waiting(r) \/ Opening(r) \/ Called(<<"next", r>>) \/ Called(<<"done", r>>) \/ Attempted(r)
BY DEF Attended, Waiting, Opening, Called, Attempted

LEMMA AttInvInit == Init => AttInv
BY DEF Init, AttInv, Attended, OpenReads, ParkedReads, LengthsOnly, Pool!Init, Pool!Live

(* The requests in front of which a handler stops are the first ones.      *)
LEMMA ServedLeavesRest ==
  ASSUME PoolFacts, NEW c \in Conn, Pool!Serve(c), NEW r \in Request, Waiting(r)
  PROVE  Waiting(r)' \/ res'[c] = r
<1>1. /\ next \in Seq(Request) /\ next # <<>> /\ res' = [res EXCEPT ![c] = Head(next)]
      /\ next' = Tail(next) /\ c \in DOMAIN res
  BY DEF PoolFacts, Pool!TypeOK, Pool!Serve, Conn
<1>2. PICK i \in 1..Len(next) : next[i] = r
  BY DEF Waiting
<1>3. CASE i = 1
  BY <1>1, <1>2, <1>3
<1>4. CASE i # 1
  <2>1. i - 1 \in 1..Len(Tail(next)) /\ Tail(next)[i - 1] = next[i]
    BY <1>1, <1>2, <1>4
  <2> QED
    BY <1>1, <1>2, <2>1 DEF Waiting
<1> QED
  BY <1>3, <1>4

(* What a handler of c does to the requests that wait, that c was opened   *)
(* for and that c holds.                                                   *)
LEMMA EventServes ==
  ASSUME TypeOK, PoolFacts, NEW c \in Conn, Event(c), LengthsOnly
  PROVE  /\ UNCHANGED <<onDone, created, current>>
         /\ \A r \in Request : Waiting(r) => Waiting(r)' \/ (res'[c] = r /\ timer'[c])
         /\ \/ ready' = ready
            \/ ready' = ready \cup {c} /\ (onDone[c] \in Request => res'[c] = onDone[c] /\ timer'[c])
<1>1. /\ timer \in [Conn -> BOOLEAN]
      /\ res \in [Conn -> Request \cup {None}]
      /\ ToPool \notin Request \cup {None}
  BY ClientConstants DEF TypeOK, Pool!TypeOK, Conn
<1>2. UNCHANGED current
  BY DEF Event, respVars, ConnectStep, Resolved, StartHandshake, ConnectFails, UpFor, UpIdle, UpServe, Up,
         WriteStep, WriteDone, WriteFails,
         ReadStep, StatusLine, StrayLine, HeaderLine, HeadersEnd, NoTransfer, ChunkSize,
         ChunkData, FinishIdle, FinishServe, FinishClose, ReadFails, BodyEnds,
         TimerExpires, TimerHandler
<1>3. ASSUME WriteRequest(c) PROVE timer'[c]
  BY <1>1, <1>3 DEF WriteRequest, ExtendTimer
<1> DEFINE Goal == /\ UNCHANGED <<onDone, created>>
                   /\ \A r \in Request : Waiting(r) => Waiting(r)' \/ (res'[c] = r /\ timer'[c])
                   /\ \/ ready' = ready
                      \/ ready' = ready \cup {c} /\ (onDone[c] \in Request => res'[c] = onDone[c] /\ timer'[c])
<1>4. ASSUME NEW r \in Request, UpFor(c, r) PROVE Goal
  <2>1. /\ UNCHANGED <<onDone, created, next>> /\ ready' = ready \cup {c}
        /\ onDone[c] = r /\ res' = [res EXCEPT ![c] = r] /\ timer'[c]
    BY <1>3, <1>4 DEF UpFor, Pool!EstablishedFor, Pool!Connected
  <2> QED
    BY <1>1, <2>1 DEF Waiting
<1>5. ASSUME UpIdle(c) PROVE Goal
  BY <1>1, <1>5 DEF UpIdle, Pool!EstablishedIdle, Pool!Connected, Pool!Park, Waiting
<1>6. ASSUME UpServe(c) PROVE Goal
  <2>1. /\ UNCHANGED <<onDone, created>> /\ ready' = ready \cup {c}
        /\ onDone[c] = ToPool /\ Pool!Serve(c) /\ timer'[c]
    BY <1>3, <1>6 DEF UpServe, Pool!EstablishedServe, Pool!Connected
  <2> QED
    BY <1>1, <2>1, ServedLeavesRest
<1>7. ASSUME FinishServe(c) PROVE Goal
  <2>1. UNCHANGED <<onDone, created, ready>> /\ Pool!Serve(c) /\ timer'[c]
    BY <1>3, <1>7 DEF FinishServe, Pool!ReleaseServe
  <2> QED
    BY <1>1, <2>1, ServedLeavesRest
<1>8. ASSUME FinishIdle(c) \/ FinishClose(c) PROVE UNCHANGED <<onDone, created, ready, next>>
  BY <1>8 DEF FinishIdle, FinishClose, Pool!ReleaseIdle, Pool!Detach, Pool!Park
<1>9. ASSUME UNCHANGED <<onDone, created, ready, next>> PROVE Goal
  BY <1>9 DEF Waiting
<1>10. ASSUME UNCHANGED poolVars PROVE Goal
  BY <1>9, <1>10 DEF poolVars
<1>11. Goal
  BY <1>4, <1>5, <1>6, <1>7, <1>8, <1>9, <1>10
     DEF Event, ConnectStep, Resolved, StartHandshake, ConnectFails, WriteStep, WriteDone, WriteFails,
         ReadStep, StatusLine, StrayLine, HeaderLine, HeadersEnd, NoTransfer, ChunkSize,
         ChunkData, ReadFails, TimerExpires, TimerHandler
<1> QED
  BY <1>2, <1>11

(* What becomes of the response that c holds: it is told of, still.        *)
LEMMA EventTells ==
  ASSUME TypeOK, PoolFacts, NEW c \in Conn, Event(c), LengthsOnly,
         NEW r \in Request, res[c] = r, Tells(c)
  PROVE  (res'[c] = r /\ Tells(c)') \/ Called(<<"done", r>>)'
<1> DEFINE Goal == (res'[c] = r /\ Tells(c)') \/ Called(<<"done", r>>)'
<1>1. /\ timer \in [Conn -> BOOLEAN] /\ expired \in [Conn -> BOOLEAN]
      /\ phase \in [Conn -> {"none", "stopped"} \cup Connecting \cup Reading]
      /\ writes \in [Conn -> [open : Nat, dead : Nat]]
  BY DEF TypeOK
<1>2. c \in ready /\ calls = <<>> /\ phase[c] \notin {"size", "chunk", "trailer"} /\ res[c] # None
  BY EventAlone, ClientConstants DEF PoolFacts, Pool!OnlyReadyInUse, LengthsOnly, Conn
<1>3. ASSUME ConnectStep(c) PROVE Goal
  <2>1. Resolved(c) \/ StartHandshake(c) \/ ConnectFails(c)
    BY <1>2, <1>3 DEF ConnectStep, UpFor, UpIdle, UpServe, Pool!EstablishedFor, Pool!EstablishedIdle,
       Pool!EstablishedServe, Pool!Connected
  <2>2. UNCHANGED <<res, expired, writes>> /\ (timer[c] => timer'[c]) /\ phase[c] \notin Reading
    BY <1>1, <2>1 DEF Resolved, StartHandshake, ConnectFails, ExtendTimer, poolVars, Connecting,
       Reading, Parsing
  <2>3. timer[c] \/ expired[c] \/ writes[c].open + writes[c].dead > 0
    BY <1>2, <2>2 DEF Tells
  <2> QED
    BY <2>2, <2>3 DEF Tells
<1>4. ASSUME WriteStep(c) PROVE Goal
  <2>1. CASE WriteDone(c)
    BY <1>1, <2>1 DEF WriteDone, ExtendTimer, poolVars, Tells
  <2>2. CASE WriteFails(c)
    <3>1. UNCHANGED res /\ calls' = <<<<"fail", c>>, <<"close", c>>>>
      BY <1>2, <2>2 DEF WriteFails, poolVars
    <3>2. 1 \in 1..Len(calls') /\ calls'[1] = <<"fail", c>>
      BY <3>1
    <3> QED
      BY <3>1, <3>2 DEF Tells
  <2> QED
    BY <1>4, <2>1, <2>2 DEF WriteStep
<1>5. ASSUME UNCHANGED res, calls' = <<<<"close", c>>, <<"fail", c>>>> PROVE Goal
  <2>1. 2 \in 1..Len(calls') /\ calls'[2] = <<"fail", c>>
    BY <1>5
  <2> QED
    BY <1>5, <2>1 DEF Tells
<1>6. ASSUME calls'[1] = <<"done", r>>, 1 \in 1..Len(calls') PROVE Goal
  BY <1>6 DEF Called
<1>7. ASSUME FinishIdle(c) \/ FinishServe(c) \/ FinishClose(c) PROVE Goal
  <2>1. calls' = <<<<"done", r>>>> \/ calls' = <<<<"done", r>>, <<"close", c>>>>
    BY <1>7 DEF FinishIdle, FinishServe, FinishClose
  <2>2. calls'[1] = <<"done", r>> /\ 1 \in 1..Len(calls')
    BY <2>1
  <2> QED
    BY <1>6, <2>2
<1>8. ASSUME StatusLine(c) \/ HeaderLine(c) \/ HeadersEnd(c) \/ ChunkSize(c) \/ ChunkData(c) PROVE Goal
  BY <1>1, <1>8 DEF StatusLine, HeaderLine, HeadersEnd, ChunkSize, ChunkData, ExtendTimer, poolVars, Tells
<1>9. ASSUME StrayLine(c) \/ NoTransfer(c) \/ ReadFails(c) PROVE Goal
  BY <1>2, <1>5, <1>9 DEF StrayLine, NoTransfer, ReadFails, poolVars
<1>10. ASSUME TimerExpires(c) PROVE Goal
  BY <1>1, <1>10 DEF TimerExpires, poolVars, Tells
<1>11. ASSUME TimerHandler(c) PROVE Goal
  BY <1>5, <1>11 DEF TimerHandler, poolVars
<1> QED
  BY <1>3, <1>4, <1>7, <1>8, <1>9, <1>10, <1>11 DEF Event, ReadStep

(* A handler of c leaves what other connections tell as it is.             *)
LEMMA EventOthersTell ==
  ASSUME TypeOK, PoolFacts, NEW c \in Conn, Event(c), NEW d \in Conn \ {c}, Tells(d)
  PROVE  res'[d] = res[d] /\ Tells(d)'
<1>1. UNCHANGED <<phase[d], res[d], timer[d], expired[d]>> /\ calls = <<>>
  BY EventAlone
<1>2. UNCHANGED writes[d]
  <2>1. writes \in [Conn -> [open : Nat, dead : Nat]]
    BY DEF TypeOK
  <2> QED
    BY <2>1 DEF Event, ConnectStep, Resolved, StartHandshake, ConnectFails, UpFor, UpIdle, UpServe,
             WriteRequest, WriteStep, WriteDone, WriteFails,
             ReadStep, StatusLine, StrayLine, HeaderLine, HeadersEnd, NoTransfer, ChunkSize,
             ChunkData, FinishIdle, FinishServe, FinishClose, ReadFails,
             TimerExpires, TimerHandler
<1> QED
  BY <1>1, <1>2 DEF Tells

LEMMA AttendedEvent ==
  ASSUME TypeOK, PoolFacts, PoolFacts', NEW c \in Conn, Event(c), LengthsOnly, Attended
  PROVE  Attended'
<1>1. SUFFICES ASSUME NEW r \in Request, current'[r] = "pending"
               PROVE  (Waiting(r) \/ Opening(r) \/ Called(<<"next", r>>) \/ Called(<<"done", r>>) \/ Attempted(r))'
  BY DEF Attended, Waiting, Opening, Called, Attempted
<1>2. calls = <<>> /\ current[r] = "pending"
  BY <1>1, EventAlone, EventServes
<1>3. ASSUME res'[c] = r, timer'[c] PROVE Attempted(r)'
  BY <1>3 DEF Attempted, Tells
<1>4. Waiting(r) \/ Opening(r) \/ Attempted(r)
  BY <1>2 DEF Attended, Waiting, Opening, Attempted
<1>5. CASE Waiting(r)
  BY <1>3, <1>5, EventServes
<1>6. CASE Opening(r)
  <2>1. PICK d \in (1..created) \ ready : onDone[d] = r
    BY <1>6 DEF Opening
  <2>2. CASE d \in ready'
    BY <1>3, <2>1, <2>2, EventServes
  <2>3. CASE d \notin ready'
    BY <2>1, <2>3, EventServes DEF Opening
  <2> QED
    BY <2>2, <2>3
<1>7. CASE Attempted(r)
  <2>1. PICK d \in Conn : res[d] = r /\ Tells(d)
    BY <1>7 DEF Attempted
  <2>2. CASE d = c
    BY <2>1, <2>2, EventTells DEF Attempted
  <2>3. CASE d # c
    BY <2>1, <2>3, EventOthersTell DEF Attempted
  <2> QED
    BY <2>2, <2>3
<1> QED
  BY <1>4, <1>5, <1>6, <1>7

(* What a handler of c parks, reads and is about to close.                 *)
LEMMA EventReads ==
  ASSUME "chunked" \notin Transfer, TypeOK, PoolFacts, PoolFacts', ParsingHasResponse,
         NEW c \in Conn, Event(c), OpenReads, ParkedReads, LengthsOnly
  PROVE  OpenReads' /\ ParkedReads' /\ LengthsOnly'
<1>1. /\ phase \in [Conn -> {"none", "stopped"} \cup Connecting \cup Reading]
      /\ res \in [Conn -> Request \cup {None}] /\ None \notin Request
  BY ClientConstants DEF TypeOK, Pool!TypeOK, Conn
<1>2. /\ calls = <<>> /\ UNCHANGED <<created, closed>>
      /\ \A d \in Conn \ {c} : UNCHANGED <<phase[d], res[d]>>
  BY EventAlone
<1>3. Pool!Live' = Pool!Live /\ \A d \in Pool!Live : d \in Conn
  BY <1>2, ClientConstants DEF Pool!Live, Conn, Pool!Conn, PoolFacts, Pool!TypeOK
<1>4. LengthsOnly'
  <2>1. phase'[c] \notin {"size", "chunk", "trailer"}
    BY <1>1 DEF LengthsOnly, Event, ConnectStep, Resolved, StartHandshake, ConnectFails, UpFor, UpIdle, UpServe, Up,
         WriteStep, WriteDone, WriteFails,
         ReadStep, StatusLine, StrayLine, HeaderLine, HeadersEnd, NoTransfer, ChunkSize,
         ChunkData, FinishIdle, FinishServe, FinishClose, ReadFails, TimerExpires, TimerHandler
  <2> QED
    BY <1>2, <2>1 DEF LengthsOnly
<1> DEFINE Closing == calls' = <<<<"close", c>>>> \/ calls' = <<<<"close", c>>, <<"fail", c>>>>
<1>5. ASSUME Closing PROVE calls' # <<>> /\ Head(calls') = <<"close", c>>
  BY <1>5
<1>6. ASSUME calls' = <<<<"close", c>>, <<"fail", c>>>> PROVE FailsAfterClose(c)'
  <2>1. 1 \in 1..Len(calls') /\ 2 \in 1..Len(calls') /\ 1 < 2
    BY <1>6
  <2>2. calls'[1] = <<"close", c>> /\ calls'[2] = <<"fail", c>>
    BY <1>6
  <2> QED
    BY <2>1, <2>2 DEF FailsAfterClose
(* The handlers by what they leave c to read.                              *)
<1>7. \/ phase'[c] = "status" /\ UNCHANGED <<poolVars, phase>>
      \/ UNCHANGED <<poolVars, phase>>
      \/ phase'[c] = "status"
      \/ UNCHANGED poolVars /\ phase[c] \in Connecting
      \/ UNCHANGED poolVars /\ phase'[c] \in Parsing /\ res[c] # None
      \/ UNCHANGED poolVars /\ calls' = <<<<"close", c>>, <<"fail", c>>>>
      \/ UNCHANGED poolVars /\ calls' = <<<<"close", c>>>> /\ res[c] = None
      \/ UNCHANGED available /\ phase[c] \in Parsing /\ res'[c] = None
  <2>1. CASE ConnectStep(c)
    BY <1>1, <2>1 DEF ConnectStep, Resolved, StartHandshake, ConnectFails, UpFor, UpIdle, UpServe, Up, Connecting
  <2>2. CASE WriteStep(c) \/ TimerExpires(c) \/ TimerHandler(c)
    BY <2>2 DEF WriteStep, WriteDone, WriteFails, TimerExpires, TimerHandler
  <2>3. CASE FinishIdle(c) \/ FinishServe(c) \/ FinishClose(c)
    BY <1>1, <2>3 DEF FinishIdle, FinishServe, FinishClose, BodyEnds, Pool!Detach, Parsing
  <2>4. CASE StatusLine(c) \/ HeaderLine(c) \/ HeadersEnd(c) \/ ChunkSize(c) \/ ChunkData(c)
    BY <1>1, <2>4 DEF StatusLine, HeaderLine, HeadersEnd, ChunkSize, ChunkData, Parsing, ParsingHasResponse,
       LengthsOnly
  <2>5. CASE StrayLine(c) \/ NoTransfer(c) \/ ReadFails(c)
    BY <2>5 DEF StrayLine, NoTransfer, ReadFails, LengthsOnly
  <2> QED
    BY <2>1, <2>2, <2>3, <2>4, <2>5 DEF Event, ReadStep
<1>8. OpenReads'
  <2>1. \A d \in Pool!Live : res[d] # None => phase[d] \in Reading
    BY <1>2 DEF OpenReads, FailsAfterClose
  <2>2. c \in Pool!Live /\ res'[c] # None => phase'[c] \in Reading \/ FailsAfterClose(c)'
    BY <1>6, <1>7, <2>1 DEF poolVars, Reading, Parsing, Connecting
  <2> QED
    BY <1>2, <1>3, <2>1, <2>2 DEF OpenReads
<1>9. ParkedReads'
  <2>1. \A d \in Pool!Live : Parked(d) => phase[d] = "status"
    BY <1>2 DEF ParkedReads
  <2>2. \A d \in Conn \ {c} : Parked(d)' => Parked(d)
    <3>1. \/ available' = available
          \/ available' = Append(available, c) /\ available \in Seq(Conn)
      BY DEF PoolFacts, Pool!TypeOK, Conn, poolVars,
         Pool!EstablishedFor, Pool!EstablishedIdle, Pool!EstablishedServe,
         Pool!ReleaseIdle, Pool!ReleaseServe, Pool!Detach, Pool!Park, Pool!Serve,
         Event, ConnectStep, Resolved, StartHandshake, ConnectFails, UpFor, UpIdle, UpServe,
         WriteStep, WriteDone, WriteFails,
         ReadStep, StatusLine, StrayLine, HeaderLine, HeadersEnd, NoTransfer, ChunkSize,
         ChunkData, FinishIdle, FinishServe, FinishClose, ReadFails,
         TimerExpires, TimerHandler
    <3> QED
      BY <3>1 DEF Parked
  <2>3. c \in Pool!Live /\ Parked(c)' => phase'[c] = "status" \/ (calls' # <<>> /\ Head(calls') = <<"close", c>>)
    <3>1. Parked(c)' => res'[c] = None
      BY DEF PoolFacts, Pool!AvailableIdle, Parked
    <3> QED
      BY <1>5, <1>7, <2>1, <3>1 DEF poolVars, Parked, Connecting, Parsing
  <2> QED
    BY <1>2, <1>3, <2>1, <2>2, <2>3 DEF ParkedReads
<1> QED
  BY <1>4, <1>8, <1>9

(* A call that has been made is gone; the others stay in their order.      *)
LEMMA RestStays ==
  ASSUME TypeOK, calls # <<>>,
         \/ calls' = Tail(calls)
         \/ \E r \in Request : calls' = <<<<"next", r>>>> \o Tail(calls)
  PROVE  \E k \in {0, 1} : \A i \in 2..Len(calls) : i - k \in 1..Len(calls') /\ calls'[i - k] = calls[i]
<1>1. calls \in Seq(CallType)
  BY DEF TypeOK, CallType
<1> DEFINE rest == Tail(calls)
<1>2. /\ rest \in Seq(CallType) /\ Len(calls) \in Nat /\ Len(rest) = Len(calls) - 1
      /\ \A i \in 2..Len(calls) : i - 1 \in 1..Len(rest) /\ rest[i - 1] = calls[i]
  BY <1>1
<1>3. CASE calls' = rest
  BY <1>2, <1>3
<1>4. ASSUME NEW r \in Request, calls' = <<<<"next", r>>>> \o rest
      PROVE  \A i \in 2..Len(calls) : i - 0 \in 1..Len(calls') /\ calls'[i - 0] = calls[i]
  <2> DEFINE x == <<"next", r>>
  <2>1. x \in CallType /\ calls' = <<x>> \o rest
    BY <1>4, CallsMade
  <2> HIDE DEF rest, x
  <2>2. Len(calls') = 1 + Len(rest) /\ \A i \in 2..(1 + Len(rest)) : calls'[i] = rest[i - 1]
    BY <1>2, <2>1
  <2> QED
    BY <1>2, <2>2
<1> QED
  BY <1>3, <1>4

LEMMA CalledStays ==
  ASSUME TypeOK, calls # <<>>,
         \/ calls' = Tail(calls)
         \/ \E r \in Request : calls' = <<<<"next", r>>>> \o Tail(calls)
  PROVE  /\ \A x : Called(x) => Head(calls) = x \/ \E i \in 1..Len(calls') : calls'[i] = x
         /\ \A c \in Conn : FailsAfterClose(c) =>
                Head(calls) = <<"close", c>> \/ FailsAfterClose(c)'
<1>1. PICK k \in {0, 1} : \A i \in 2..Len(calls) : i - k \in 1..Len(calls') /\ calls'[i - k] = calls[i]
  BY RestStays
<1>2. Head(calls) = calls[1] /\ Len(calls) \in Nat /\ Len(calls') \in Nat
  <2>1. calls \in Seq(CallType)
    BY DEF TypeOK, CallType
  <2>2. Tail(calls) \in Seq(CallType) /\ \A r \in Request : <<<<"next", r>>>> \o Tail(calls) \in Seq(CallType)
    BY <2>1, CallRuns, CallsMade
  <2> QED
    BY <2>1, <2>2
<1>3. ASSUME NEW x, Called(x), Head(calls) # x PROVE \E i \in 1..Len(calls') : calls'[i] = x
  <2>1. PICK i \in 1..Len(calls) : calls[i] = x
    BY <1>3 DEF Called
  <2>2. i \in 2..Len(calls)
    BY <1>2, <1>3, <2>1
  <2> QED
    BY <1>1, <2>1, <2>2
<1>4. ASSUME NEW c \in Conn, FailsAfterClose(c), Head(calls) # <<"close", c>> PROVE FailsAfterClose(c)'
  <2>1. PICK i, j \in 1..Len(calls) : i < j /\ calls[i] = <<"close", c>> /\ calls[j] = <<"fail", c>>
    BY <1>4 DEF FailsAfterClose
  <2>2. i \in 2..Len(calls) /\ j \in 2..Len(calls)
    BY <1>2, <1>4, <2>1
  <2>3. /\ i - k \in 1..Len(calls') /\ calls'[i - k] = <<"close", c>>
        /\ j - k \in 1..Len(calls') /\ calls'[j - k] = <<"fail", c>>
    BY <1>1, <2>1, <2>2
  <2>4. i - k < j - k
    BY <1>2, <2>1
  <2> QED
    BY <2>3, <2>4 DEF FailsAfterClose
<1> QED
  BY <1>3, <1>4

(* A retry is the first call that follows.                                 *)
LEMMA RetryFirst ==
  ASSUME TypeOK, calls # <<>>, NEW r \in Request, calls' = <<<<"next", r>>>> \o Tail(calls)
  PROVE  Called(<<"next", r>>)'
<1>1. Tail(calls) \in Seq(CallType) /\ <<"next", r>> \in CallType
  <2>1. calls \in Seq(CallType)
    BY DEF TypeOK, CallType
  <2> QED
    BY <2>1, CallRuns, CallsMade
<1> HIDE DEF CallType
<1>2. 1 \in 1..Len(calls') /\ calls'[1] = <<"next", r>>
  BY <1>1
<1> QED
  BY <1>2 DEF Called

(* The calls park nothing, give responses to parked connections only, and  *)
(* leave what the connections there are read.                              *)
LEMMA CallParksNothing ==
  ASSUME TypeOK, PoolFacts, Call
  PROVE  /\ calls # <<>> /\ ready' = ready /\ closed \subseteq closed'
         /\ created' \in {created, created + 1}
         /\ \/ calls' = Tail(calls)
            \/ \E r \in Request : calls' = <<<<"next", r>>>> \o Tail(calls)
         /\ \A d \in Conn : d <= created => phase'[d] = phase[d]
         /\ \A d \in Conn : Parked(d)' => Parked(d)
         /\ \A d \in Conn :
              \/ res'[d] = res[d]
              \/ res[d] = None /\ Parked(d) /\ \E r \in Request : Head(calls) = <<"next", r>>
         /\ \A d \in Conn : Head(calls) = <<"close", d>> => d \in closed'
<1>1. /\ created \in 0..MaxConn /\ MaxConn \in Nat /\ Conn = 1..MaxConn
      /\ phase \in [Conn -> {"none", "stopped"} \cup Connecting \cup Reading]
      /\ available \in Seq(Conn) /\ Len(available) \in Nat
      /\ res \in [Conn -> Request \cup {None}]
  BY ClientConstants DEF TypeOK, PoolFacts, Pool!TypeOK, Conn, Pool!Conn
<1> DEFINE Sets == ready' = ready /\ closed \subseteq closed' /\ created' \in {created, created + 1}
           Made == \/ calls' = Tail(calls)
                   \/ \E r \in Request : calls' = <<<<"next", r>>>> \o Tail(calls)
           Phases == \A d \in Conn : d <= created => phase'[d] = phase[d]
           Parks == \A d \in Conn : Parked(d)' => Parked(d)
           Given == \A d \in Conn :
                      \/ res'[d] = res[d]
                      \/ res[d] = None /\ Parked(d) /\ \E r \in Request : Head(calls) = <<"next", r>>
           Closes == \A d \in Conn : Head(calls) = <<"close", d>> => d \in closed'
           Goal == calls # <<>> /\ Sets /\ Made /\ Phases /\ Parks /\ Given /\ Closes
<1>2. ASSUME StartRequest PROVE \A d \in Conn : d <= created => phase'[d] = phase[d]
  BY <1>1, <1>2 DEF StartRequest
(* Of what was parked, only the end is left.                               *)
<1>3. ASSUME NEW n \in 0..Len(available), available' = SubSeq(available, n + 1, Len(available)), NEW d \in Conn, Parked(d)'
      PROVE  Parked(d)
  <2>1. PICK i \in 1..Len(available') : available'[i] = d
    BY <1>3 DEF Parked
  <2>2. Len(available') = Len(available) - n /\ available'[i] = available[n + i]
    BY <1>1, <1>3, <2>1, PoolProofs!SuffixProperties
  <2>3. n + i \in 1..Len(available)
    BY <1>1, <2>1, <2>2
  <2> QED
    BY <2>1, <2>2, <2>3 DEF Parked
<1>4. ASSUME NEW r \in Request, NEW c \in Conn, CallNextAvailable(r, c) PROVE Goal
  <2>1. /\ Pool!NextAvailable(r, c) /\ calls # <<>> /\ Head(calls) = <<"next", r>> /\ calls' = Tail(calls)
        /\ UNCHANGED phase
    BY <1>4 DEF CallNextAvailable, Calling, Return
  <2>2. PICK n \in 0..Len(available) :
          /\ n < Len(available)
          /\ c = available[n + 1]
          /\ available' = SubSeq(available, n + 2, Len(available))
          /\ UNCHANGED <<created, closed, ready>>
    BY <2>1 DEF Pool!NextAvailable
  <2>3. n + 1 \in 0..Len(available) /\ n + 1 \in 1..Len(available) /\ n + 2 = (n + 1) + 1
    BY <1>1, <2>2
  <2>4. \A d \in Conn : Parked(d)' => Parked(d)
    BY <1>3, <2>2, <2>3
  <2>5. Parked(c) /\ res[c] = None /\ \A d \in Conn \ {c} : res'[d] = res[d]
    BY <1>1, <2>1, <2>2, <2>3, TakenFromPool DEF Parked
  <2>6. \A d \in Conn : Head(calls) # <<"close", d>>
    BY <2>1
  <2>7. calls # <<>> /\ Sets /\ Made /\ Phases
    BY <2>1, <2>2
  <2>8. Given
    BY <2>1, <2>5
  <2>9. Closes
    BY <2>6
  <2> QED
    BY <2>4, <2>7, <2>8, <2>9
<1>5. ASSUME NEW r \in Request, CallNextConnect(r) PROVE Goal
  <2>1. /\ calls # <<>> /\ Head(calls) = <<"next", r>> /\ calls' = Tail(calls)
        /\ StartRequest /\ UNCHANGED <<closed, ready, res>>
        /\ created' = created + 1 /\ available' = <<>>
    BY <1>5 DEF CallNextConnect, Calling, Return, Pool!NextConnect, Pool!Connect
  <2>2. Closes
    BY <2>1
  <2>3. Parks
    BY <2>1 DEF Parked
  <2>4. calls # <<>> /\ Sets /\ Made /\ Phases /\ Given
    BY <1>2, <2>1
  <2> QED
    BY <2>2, <2>3, <2>4
<1>6. ASSUME NEW r \in Request, CallNextQueued(r) PROVE Goal
  <2>1. /\ calls # <<>> /\ Head(calls) = <<"next", r>> /\ calls' = Tail(calls)
        /\ UNCHANGED <<created, closed, ready, res, phase>> /\ available' = <<>>
    BY <1>6 DEF CallNextQueued, Calling, Return, Pool!NextQueued, connVars
  <2>2. Closes
    BY <2>1
  <2>3. Parks
    BY <2>1 DEF Parked
  <2>4. calls # <<>> /\ Sets /\ Made /\ Phases /\ Given
    BY <2>1
  <2> QED
    BY <2>2, <2>3, <2>4
<1>7. ASSUME UNCHANGED <<poolVars, connVars>>, NEW op \in {"done", "fail", "close"}, NEW x,
             Calling(op, x), op = "close" => x \in closed,
             \/ calls' = Tail(calls)
             \/ \E r \in Request : calls' = <<<<"next", r>>>> \o Tail(calls)
      PROVE  Goal
  <2>1. Closes
    BY <1>7 DEF Calling, poolVars
  <2>2. Parks
    BY <1>7 DEF poolVars, Parked
  <2>3. calls # <<>> /\ Sets /\ Phases /\ Given
    BY <1>7 DEF poolVars, connVars, Calling
  <2> QED
    BY <1>7, <2>1, <2>2, <2>3
<1>8. ASSUME \/ \E r \in Request : CallDone(r)
             \/ \E c \in Conn : CallFail(c) \/ CallCloseAgain(c)
      PROVE  Goal
  BY <1>7, <1>8 DEF CallDone, CallFail, CallCloseAgain, Accept, Retry, Return
<1>9. ASSUME NEW c \in Conn, CallClose(c) PROVE Goal
  <2>1. calls # <<>> /\ Head(calls) = <<"close", c>> /\ calls' = Tail(calls)
    BY <1>9 DEF CallClose, Calling, Return
  <2>2. PICK reconnect \in BOOLEAN :
          /\ Pool!RemoveErases(c, reconnect)
          /\ IF reconnect THEN StartRequest ELSE UNCHANGED phase
    BY <1>9 DEF CallClose, Pool!Remove, Pool!RemoveAndReconnect
  <2>3. /\ UNCHANGED res /\ closed' = closed \cup {c}
        /\ created' = IF reconnect THEN created + 1 ELSE created
    BY <2>2, ClosedOnce
  <2>4. PICK n \in 0..Len(available) : available' = SubSeq(available, n + 1, Len(available))
    BY <2>2 DEF Pool!RemoveErases
  <2>5. ready' = ready
    BY <2>2 DEF Pool!RemoveErases
  <2>6. \A d \in Conn : Parked(d)' => Parked(d)
    BY <1>3, <2>4
  <2>7. Closes
    BY <2>1, <2>3
  <2>8. calls # <<>> /\ Sets /\ Made
    BY <2>1, <2>3, <2>5
  <2>9. Phases /\ Given
    BY <1>2, <2>2, <2>3
  <2> QED
    BY <2>6, <2>7, <2>8, <2>9
<1> HIDE DEF Sets, Made, Phases, Parks, Given, Closes
<1>10. Goal
  BY <1>4, <1>5, <1>6, <1>8, <1>9 DEF Call
<1> QED
  BY ONLY <1>10, Zenon DEF Sets, Made, Phases, Parks, Given, Closes

LEMMA CallReads ==
  ASSUME TypeOK, PoolFacts, PoolFacts', Call, OpenReads, ParkedReads, LengthsOnly
  PROVE  OpenReads' /\ ParkedReads' /\ LengthsOnly'
<1>1. /\ created \in Nat /\ closed' \subseteq 1..created' /\ ready \subseteq 1..created
      /\ \A d \in Pool!Live' : d \in Conn /\ d \notin closed'
  BY CallEffect DEF TypeOK, PoolFacts, Pool!TypeOK, Pool!Live
<1>2. \A d \in Pool!Live' : d \in ready => d \in Pool!Live /\ d <= created
  BY <1>1, CallParksNothing DEF Pool!Live
<1>3. OpenReads'
  <2>1. SUFFICES ASSUME NEW d \in Pool!Live', res'[d] # None
                 PROVE  phase'[d] \in Reading \/ FailsAfterClose(d)'
    BY DEF OpenReads
  <2>2. d \in Conn /\ d \in ready /\ d \notin closed'
    BY <1>1, <2>1, CallParksNothing DEF PoolFacts, Pool!OnlyReadyInUse, Conn
  <2>3. d \in Pool!Live /\ phase'[d] = phase[d] /\ Head(calls) # <<"close", d>>
    BY <1>2, <2>2, CallParksNothing
  <2>4. CASE res[d] # None
    BY <2>2, <2>3, <2>4, CallParksNothing, CalledStays DEF OpenReads
  <2>5. CASE res[d] = None
    BY <2>1, <2>2, <2>3, <2>5, CallParksNothing DEF ParkedReads, Reading
  <2> QED
    BY <2>4, <2>5
<1>4. ParkedReads'
  <2>1. SUFFICES ASSUME NEW d \in Pool!Live', Parked(d)' PROVE phase'[d] = "status"
    BY DEF ParkedReads
  <2>2. d \in Conn /\ d \in ready /\ d \notin closed'
    BY <1>1, <2>1, CallParksNothing DEF PoolFacts, Pool!OnlyReadyInUse, Parked
  <2> QED
    BY <1>2, <2>1, <2>2, CallParksNothing DEF ParkedReads
<1>5. LengthsOnly'
  BY CallEffect DEF LengthsOnly
<1> QED
  BY <1>3, <1>4, <1>5

(* What a connection tells stays, unless the call is what it tells.        *)
LEMMA TellsStays ==
  ASSUME TypeOK, PoolFacts, Call, NEW d \in Conn, Tells(d), Head(calls) # <<"fail", d>>,
         UNCHANGED <<phase[d], timer[d], expired[d], writes[d]>>
  PROVE  Tells(d)'
<1>1. Called(<<"fail", d>>) => \E i \in 1..Len(calls') : calls'[i] = <<"fail", d>>
  BY CallParksNothing, CalledStays
<1> QED
  BY <1>1 DEF Tells, Called

LEMMA AttendedCall ==
  ASSUME TypeOK, PoolFacts, PoolFacts', Call, Attended, OpenReads, LengthsOnly
  PROVE  Attended'
<1>1. SUFFICES ASSUME NEW r \in Request, current'[r] = "pending"
               PROVE  (Waiting(r) \/ Opening(r) \/ Called(<<"next", r>>) \/ Called(<<"done", r>>) \/ Attempted(r))'
  BY DEF Attended, Waiting, Opening, Called, Attempted
<1> DEFINE Before == Waiting(r) \/ Opening(r) \/ Called(<<"next", r>>) \/ Called(<<"done", r>>) \/ Attempted(r)
           Goal == (Waiting(r) \/ Opening(r) \/ Called(<<"next", r>>) \/ Called(<<"done", r>>) \/ Attempted(r))'
<1>2. /\ created \in 0..MaxConn /\ MaxConn \in Nat /\ Conn = 1..MaxConn /\ ready \subseteq 1..created
      /\ phase \in [Conn -> {"none", "stopped"} \cup Connecting \cup Reading]
      /\ timer \in [Conn -> BOOLEAN]
      /\ writes \in [Conn -> [open : Nat, dead : Nat]]
      /\ res \in [Conn -> Request \cup {None}] /\ None \notin Request /\ ToPool \notin Request
      /\ onDone \in [Conn -> Request \cup {None, ToPool}]
      /\ next \in Seq(Request)
      /\ current \in [Request -> {"unsent", "pending", "ready"}]
  BY ClientConstants DEF TypeOK, PoolFacts, Pool!TypeOK, Conn, Pool!Conn
<1>3. current[r] = "pending" => Before
  BY AttendedParts
<1>4. \A x : Called(x) => Head(calls) = x \/ Called(x)'
  <2>1. ASSUME NEW x, Called(x), Head(calls) # x PROVE \E i \in 1..Len(calls') : calls'[i] = x
    BY <2>1, CallParksNothing, CalledStays
  <2> QED
    BY <2>1 DEF Called
<1>5. \A d \in Conn : res[d] # None => d \in ready /\ d <= created
  BY <1>2 DEF PoolFacts, Pool!OnlyReadyInUse, Pool!Conn
(* The call is next() for r0.                                              *)
<1>6. ASSUME NEW r0 \in Request, NEW c \in Conn, CallNextAvailable(r0, c) PROVE Goal
  <2>1. /\ Pool!NextAvailable(r0, c) /\ Head(calls) = <<"next", r0>> /\ WriteRequest(c)
        /\ UNCHANGED <<phase, current>>
    BY <1>6 DEF CallNextAvailable, Calling, respVars
  <2>2. res[c] = None /\ res' = [res EXCEPT ![c] = r0] /\ UNCHANGED <<created, ready, onDone, next>>
    BY <2>1, TakenFromPool DEF Pool!NextAvailable
  <2>3. timer' = [timer EXCEPT ![c] = TRUE] /\ UNCHANGED expired /\ \A d \in Conn \ {c} : writes'[d] = writes[d]
    BY <1>2, <2>1 DEF WriteRequest, ExtendTimer
  <2>4. Before
    BY <1>1, <1>3, <2>1
  <2>5. CASE r = r0
    BY <1>2, <2>2, <2>3, <2>5 DEF Attempted, Tells
  <2>6. CASE Waiting(r) \/ Opening(r)
    BY <2>2, <2>6 DEF Waiting, Opening
  <2>7. ASSUME r # r0, Called(<<"next", r>>) \/ Called(<<"done", r>>) PROVE Goal
    BY <1>4, <2>1, <2>7
  <2>8. CASE Attempted(r)
    <3>1. PICK d \in Conn : res[d] = r /\ Tells(d)
      BY <2>8 DEF Attempted
    <3>2. d # c /\ UNCHANGED <<phase[d], timer[d], expired[d], writes[d], res[d]>>
      BY <1>2, <2>1, <2>2, <2>3, <3>1
    <3>3. Head(calls) # <<"fail", d>>
      BY <2>1
    <3> QED
      BY <3>1, <3>2, <3>3, TellsStays DEF Attempted
  <2> QED
    BY <2>4, <2>5, <2>6, <2>7, <2>8
<1>7. ASSUME UNCHANGED <<res, timer, expired, writes>>, NEW d \in Conn, res[d] = r, Tells(d), Head(calls) # <<"fail", d>>
      PROVE  Attempted(r)'
  <2>1. d <= created
    BY <1>2, <1>5, <1>7
  <2>2. UNCHANGED phase[d]
    BY <2>1, CallParksNothing
  <2> QED
    BY <1>7, <2>2, TellsStays DEF Attempted
<1>8. ASSUME NEW r0 \in Request, CallNextConnect(r0) PROVE Goal
  <2>1. /\ Pool!NextConnect(r0) /\ Head(calls) = <<"next", r0>>
        /\ UNCHANGED <<timer, expired, writes, current>>
    BY <1>8 DEF CallNextConnect, Calling, respVars
  <2>2. /\ UNCHANGED <<ready, res, next>> /\ created < MaxConn /\ created' = created + 1
        /\ onDone' = [onDone EXCEPT ![created + 1] = r0]
    BY <2>1 DEF Pool!NextConnect, Pool!Connect
  <2>3. Before
    BY <1>1, <1>3, <2>1
  <2>4. CASE r = r0
    <3>1. created + 1 \in (1..created') \ ready' /\ onDone'[created + 1] = r
      BY <1>2, <2>2, <2>4
    <3> QED
      BY <3>1 DEF Opening
  <2>5. CASE Waiting(r)
    BY <2>2, <2>5 DEF Waiting
  <2>6. CASE Opening(r)
    <3>1. PICK d \in (1..created) \ ready : onDone[d] = r
      BY <2>6 DEF Opening
    <3>2. d \in (1..created') \ ready' /\ onDone'[d] = r
      BY <1>2, <2>2, <3>1
    <3> QED
      BY <3>2 DEF Opening
  <2>7. ASSUME r # r0, Called(<<"next", r>>) \/ Called(<<"done", r>>) PROVE Goal
    BY <1>4, <2>1, <2>7
  <2>8. CASE Attempted(r)
    BY <1>7, <2>1, <2>2, <2>8 DEF Attempted
  <2> QED
    BY <2>3, <2>4, <2>5, <2>6, <2>7, <2>8
<1>9. ASSUME NEW r0 \in Request, CallNextQueued(r0) PROVE Goal
  <2>1. /\ Pool!NextQueued(r0) /\ Head(calls) = <<"next", r0>>
        /\ UNCHANGED <<timer, expired, writes, current>>
    BY <1>9 DEF CallNextQueued, Calling, respVars, connVars
  <2>2. UNCHANGED <<created, ready, onDone, res>> /\ next' = Append(next, r0)
    BY <2>1 DEF Pool!NextQueued
  <2>3. Before
    BY <1>1, <1>3, <2>1
  <2>4. /\ Len(next) + 1 \in 1..Len(next') /\ next'[Len(next) + 1] = r0
        /\ \A i \in 1..Len(next) : i \in 1..Len(next') /\ next'[i] = next[i]
    BY <1>2, <2>2
  <2>5. CASE r = r0 \/ Waiting(r)
    BY <2>4, <2>5 DEF Waiting
  <2>6. CASE Opening(r)
    BY <2>2, <2>6 DEF Opening
  <2>7. ASSUME r # r0, Called(<<"next", r>>) \/ Called(<<"done", r>>) PROVE Goal
    BY <1>4, <2>1, <2>7
  <2>8. CASE Attempted(r)
    BY <1>7, <2>1, <2>2, <2>8 DEF Attempted
  <2> QED
    BY <2>3, <2>5, <2>6, <2>7, <2>8
(* The call completes a response, or finds nothing to do.                  *)
<1>10. ASSUME UNCHANGED <<poolVars, connVars>>, current[r] = "pending",
              Head(calls) \notin {<<"next", r>>, <<"done", r>>},
              \A d \in Conn : res[d] = r => Head(calls) # <<"fail", d>>
       PROVE  Goal
  <2>1. UNCHANGED <<created, ready, onDone, next, res, timer, expired, writes>>
    BY <1>10 DEF poolVars, connVars
  <2>2. CASE Waiting(r) \/ Opening(r)
    BY <2>1, <2>2 DEF Waiting, Opening
  <2>3. CASE Called(<<"next", r>>) \/ Called(<<"done", r>>)
    BY <1>4, <1>10, <2>3
  <2>4. CASE Attempted(r)
    BY <1>7, <1>10, <2>1, <2>4 DEF Attempted
  <2> QED
    BY <1>3, <1>10, <2>2, <2>3, <2>4
<1>11. ASSUME NEW q \in Request, Accept(q, "done") \/ Accept(q, "failed") PROVE q # r /\ current[r] = "pending"
  BY <1>1, <1>2, <1>11 DEF Accept
<1>12. ASSUME NEW q \in Request, Retry(q)
       PROVE  current[r] = "pending" /\ (q = r => Called(<<"next", r>>)')
  BY <1>1, <1>12, RetryFirst, CallParksNothing DEF Retry
<1>13. ASSUME NEW q \in Request, CallDone(q) PROVE Goal
  <2>1. Head(calls) = <<"done", q>> /\ UNCHANGED <<poolVars, connVars>>
    BY <1>13 DEF CallDone, Calling
  <2>2. \/ q = r /\ Called(<<"next", r>>)'
        \/ q # r /\ current[r] = "pending"
    <3>1. CASE Accept(q, "done") \/ Retry(q)
      BY <1>11, <1>12, <3>1
    <3>2. CASE current[q] # "pending" /\ UNCHANGED current
      BY <1>1, <3>2
    <3> QED
      BY <1>13, <3>1, <3>2 DEF CallDone, respVars
  <2>3. ASSUME q # r PROVE Head(calls) \notin {<<"next", r>>, <<"done", r>>} /\ \A d \in Conn : Head(calls) # <<"fail", d>>
    BY <2>1, <2>3
  <2> QED
    BY <1>10, <2>1, <2>2, <2>3
<1>14. ASSUME NEW c \in Conn, CallFail(c) PROVE Goal
  <2>1. Head(calls) = <<"fail", c>> /\ UNCHANGED <<poolVars, connVars>>
    BY <1>14 DEF CallFail, Calling
  <2>2. \/ Called(<<"next", r>>)'
        \/ res[c] # r /\ current[r] = "pending"
    <3>1. ASSUME NEW q \in Request, q = res[c], Accept(q, "failed") \/ Retry(q)
          PROVE  Called(<<"next", r>>)' \/ (res[c] # r /\ current[r] = "pending")
      BY <1>11, <1>12, <3>1
    <3>2. CASE (~ \E q \in Request : q = res[c] /\ current[q] = "pending") /\ UNCHANGED respVars
      BY <1>1, <3>2 DEF respVars
    <3> QED
      BY <1>14, <3>1, <3>2 DEF CallFail
  <2>3. Head(calls) \notin {<<"next", r>>, <<"done", r>>} /\ \A d \in Conn : Head(calls) = <<"fail", d>> => d = c
    BY <2>1
  <2> QED
    BY <1>10, <2>1, <2>2, <2>3
<1>15. ASSUME NEW c \in Conn, Head(calls) = <<"close", c>>
       PROVE  Head(calls) \notin {<<"next", r>>, <<"done", r>>} /\ \A d \in Conn : Head(calls) # <<"fail", d>>
  BY <1>15
<1>16. ASSUME NEW c \in Conn, CallCloseAgain(c) PROVE Goal
  BY <1>1, <1>10, <1>15, <1>16 DEF CallCloseAgain, Calling, respVars
<1>17. ASSUME NEW c \in Conn, CallClose(c) PROVE Goal
  <2>1. /\ Head(calls) = <<"close", c>> /\ timer' = [timer EXCEPT ![c] = FALSE]
        /\ UNCHANGED <<expired, writes, current>>
    BY <1>17 DEF CallClose, Calling, respVars
  <2>2. PICK reconnect \in BOOLEAN : Pool!RemoveErases(c, reconnect)
    BY <1>17 DEF CallClose, Pool!Remove, Pool!RemoveAndReconnect
  <2>3. /\ c \in Pool!Live /\ UNCHANGED <<ready, res, next>>
        /\ \/ created' = created + 1 /\ onDone' = [onDone EXCEPT ![created + 1] = ToPool]
           \/ UNCHANGED <<created, onDone>>
    BY <2>2 DEF Pool!RemoveErases, Pool!Connect
  <2>4. Before
    BY <1>1, <1>3, <2>1
  <2>5. CASE Waiting(r)
    BY <2>3, <2>5 DEF Waiting
  <2>6. CASE Opening(r)
    <3>1. PICK d \in (1..created) \ ready : onDone[d] = r
      BY <2>6 DEF Opening
    <3>2. d \in Conn /\ d # created + 1 /\ d \in 1..created' /\ d \notin ready'
      BY <1>2, <2>3, <3>1
    <3>3. onDone'[d] = r
      BY <1>2, <2>3, <3>1, <3>2
    <3> QED
      BY <3>2, <3>3 DEF Opening
  <2>7. CASE Called(<<"next", r>>) \/ Called(<<"done", r>>)
    BY <1>4, <1>15, <2>1, <2>7
  <2>8. CASE Attempted(r)
    <3>1. PICK d \in Conn : res[d] = r /\ Tells(d)
      BY <2>8 DEF Attempted
    <3>2. d <= created /\ UNCHANGED <<res[d], expired[d], writes[d]>> /\ res[d] # None
      BY <1>2, <1>5, <2>1, <2>3, <3>1
    <3>3. UNCHANGED phase[d] /\ Head(calls) # <<"fail", d>>
      BY <1>15, <2>1, <3>2, CallParksNothing
    <3>4. CASE d # c
      <4>1. UNCHANGED timer[d]
        BY <1>2, <2>1, <3>4
      <4> QED
        BY <3>1, <3>2, <3>3, <4>1, TellsStays DEF Attempted
    <3>5. CASE d = c
      <4>1. phase[d] \in Reading \/ Called(<<"fail", d>>)
        BY <2>3, <3>2, <3>5 DEF OpenReads, FailsAfterClose, Called
      <4>2. phase'[d] \in Reading \ {"size", "trailer"} \/ Called(<<"fail", d>>)'
        BY <1>4, <3>3, <4>1 DEF LengthsOnly
      <4> QED
        BY <3>1, <3>2, <4>2 DEF Attempted, Tells, Called
    <3> QED
      BY <3>4, <3>5
  <2> QED
    BY <2>4, <2>5, <2>6, <2>7, <2>8
<1> HIDE DEF Goal
<1>18. Goal
  BY <1>6, <1>8, <1>9, <1>13, <1>14, <1>16, <1>17 DEF Call
<1> QED
  BY <1>18 DEF Goal

(* A request that is made is first in line to be called for; the others    *)
(* are as they were.                                                       *)
LEMMA AttInvRequest ==
  ASSUME TypeOK, AttInv, NEW r \in Request, UserRequest(r)
  PROVE  AttInv'
<1>1. /\ UNCHANGED <<created, closed, ready, onDone, res, available, next, phase, timer, expired, writes>>
      /\ current' = [current EXCEPT ![r] = "pending"]
  BY DEF UserRequest, poolVars, connVars
<1>2. \A x : Called(x) => \E i \in 1..Len(calls') : calls'[i] = x
  BY RequestStaysCall DEF Called
<1>3. \E i \in 1..Len(calls') : calls'[i] = <<"next", r>>
  BY RequestStaysCall
<1>4. Attended'
  <2>1. SUFFICES ASSUME NEW q \in Request, current'[q] = "pending"
                 PROVE  (Waiting(q) \/ Opening(q) \/ Called(<<"next", q>>) \/ Called(<<"done", q>>) \/ Attempted(q))'
    BY DEF Attended, Waiting, Opening, Called, Attempted
  <2>2. CASE q = r
    BY <1>3, <2>2 DEF Called
  <2>3. CASE q # r
    <3>1. Waiting(q) \/ Opening(q) \/ Called(<<"next", q>>) \/ Called(<<"done", q>>) \/ Attempted(q)
      BY <1>1, <2>1, <2>3, AttendedParts DEF AttInv, TypeOK
    <3>2. \A d \in Conn : Tells(d) => Tells(d)'
      BY <1>1, <1>2 DEF Tells, Called
    <3>3. Attempted(q) => Attempted(q)'
      BY <1>1, <3>2 DEF Attempted
    <3>4. \A x : Called(x) => Called(x)'
      BY <1>2 DEF Called
    <3> QED
      BY <1>1, <3>1, <3>3, <3>4 DEF Waiting, Opening
  <2> QED
    BY <2>2, <2>3
<1>5. OpenReads'
  <2>1. \A c \in Conn : FailsAfterClose(c) => FailsAfterClose(c)'
    <3>1. ASSUME NEW c \in Conn, FailsAfterClose(c) PROVE FailsAfterClose(c)'
      <4>1. PICK i, j \in 1..Len(calls) : i < j /\ calls[i] = <<"close", c>> /\ calls[j] = <<"fail", c>>
        BY <3>1 DEF FailsAfterClose
      <4>2. i + 1 < j + 1
        BY <4>1
      <4> QED
        BY <4>1, <4>2, RequestStaysCall DEF FailsAfterClose
    <3> QED
      BY <3>1
  <2>2. \A c \in Pool!Live : c \in Conn
    BY ClientConstants DEF Pool!Live, Conn, Pool!Conn, TypeOK, Pool!TypeOK
  <2> QED
    BY <1>1, <2>1, <2>2 DEF AttInv, OpenReads, Pool!Live
<1>6. ParkedReads'
  <2>1. calls = <<>> \/ \A c \in Conn : Head(calls) # <<"close", c>>
    BY DEF UserRequest, IoFree, Completing, Calling
  <2>2. \A c \in Pool!Live : c \in Conn
    BY ClientConstants DEF Pool!Live, Conn, Pool!Conn, TypeOK, Pool!TypeOK
  <2> QED
    BY <1>1, <2>1, <2>2 DEF AttInv, ParkedReads, Parked, Pool!Live
<1>7. LengthsOnly'
  BY <1>1 DEF AttInv, LengthsOnly
<1> QED
  BY <1>4, <1>5, <1>6, <1>7 DEF AttInv

(* Where bodies have a length, every request that is not completed has     *)
(* something left that will complete it, through timeouts, lost            *)
(* connections, late handshakes, retries and requests made by callbacks.   *)
THEOREM NobodyForgotten ==
  ASSUME "chunked" \notin Transfer
  PROVE  Spec => []Attended
<1>1. AttInv /\ ClientInv /\ TypeOK /\ PoolFacts /\ PoolFacts' /\ [Next]_vars => AttInv'
  <2> SUFFICES ASSUME AttInv, ClientInv, TypeOK, PoolFacts, PoolFacts', [Next]_vars PROVE AttInv'
    OBVIOUS
  <2>1. ASSUME Call PROVE AttInv'
    BY <2>1, AttendedCall, CallReads DEF AttInv
  <2>2. ASSUME NEW c \in Conn, Event(c) PROVE AttInv'
    BY <2>2, AttendedEvent, EventReads DEF AttInv, ClientInv
  <2>3. ASSUME NEW r \in Request, UserRequest(r) PROVE AttInv'
    BY <2>3, AttInvRequest
  <2>4. ASSUME UNCHANGED vars PROVE AttInv'
    <3>1. /\ UNCHANGED <<created, closed, ready, onDone, res, available, next, phase, timer, expired, writes>>
          /\ UNCHANGED <<current, calls>>
      BY <2>4 DEF vars, poolVars, connVars, respVars
    <3>2. Attended'
      <4>1. \A c \in Conn : Tells(c)' <=> Tells(c)
        BY <3>1 DEF Tells
      <4>2. \A r \in Request :
              /\ Waiting(r)' <=> Waiting(r)
              /\ Opening(r)' <=> Opening(r)
              /\ Called(<<"next", r>>)' <=> Called(<<"next", r>>)
              /\ Called(<<"done", r>>)' <=> Called(<<"done", r>>)
              /\ Attempted(r)' <=> Attempted(r)
        BY <3>1, <4>1 DEF Waiting, Opening, Called, Attempted
      <4>3. SUFFICES \A r \in Request : current'[r] = "pending" =>
                       (Waiting(r) \/ Opening(r) \/ Called(<<"next", r>>) \/ Called(<<"done", r>>) \/ Attempted(r))'
        BY DEF Attended, Waiting, Opening, Called, Attempted
      <4> QED
        BY <3>1, <4>2, AttendedParts DEF AttInv
    <3>3. OpenReads' /\ LengthsOnly'
      BY <3>1 DEF AttInv, OpenReads, FailsAfterClose, LengthsOnly, Pool!Live
    <3>4. ParkedReads'
      BY <3>1 DEF AttInv, ParkedReads, Parked, Pool!Live
    <3> QED
      BY <3>2, <3>3, <3>4 DEF AttInv
  <2> QED
    BY <2>1, <2>2, <2>3, <2>4 DEF Next, Event
<1> QED
  BY <1>1, AttInvInit, ClientInvariant, PTL DEF Spec, AttInv
=============================================================================
