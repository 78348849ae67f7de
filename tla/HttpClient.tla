----------------------------- MODULE HttpClient -----------------------------
(***************************************************************************)
(* The HTTP client on one endpoint: client::request and its completion     *)
(* handler, the connection pool (module ConnectionPool), and connections   *)
(* that resolve, connect, write a request, read a response and time out.   *)
(*                                                                         *)
(* One thread runs the io_service. An event is a handler asio runs when    *)
(* the io thread is free (calls is empty); the functions a handler calls,  *)
(* and the callbacks they run synchronously, are done in order before the  *)
(* next event. What a handler has still to call is kept in calls.          *)
(*                                                                         *)
(* Which bytes arrive is left out: a read completes when the server sends  *)
(* what it waits for, or when that is in the input buffer already.         *)
(***************************************************************************)
EXTENDS Naturals, Sequences, FiniteSets

CONSTANTS
  MaxConn, MaxWaiting, Request, None, ToPool, Tls, MaxConnections,
  LimitConnections,   \* those of ConnectionPool
  MaxRetry,           \* bound: retries on_completion asks for, per request
  MaxMore,            \* bound: header lines and chunks, per response
  Transfer,           \* how the server sends bodies: {"chunked", "length"}
  Faults              \* what may go wrong outside of the program, a subset of
                      \* AllFaults below

AllFaults == {"connect",      \* resolving, connecting, shaking hands may fail
              "drop",         \* an open connection may be lost
              "early",        \* an answer may precede the end of the write
              "unsolicited",  \* data may arrive that answers nothing
              "malformed"}    \* neither Content-Length nor chunked

ASSUME ClientConstants ==
  /\ MaxConn \in Nat
  /\ MaxWaiting \in Nat
  /\ MaxConnections \in Nat
  /\ LimitConnections \in BOOLEAN
  /\ Tls \in BOOLEAN
  /\ None \notin Request
  /\ ToPool \notin Request \cup {None}
  /\ MaxRetry \in Nat
  /\ MaxMore \in Nat
  /\ Transfer \subseteq {"chunked", "length"}
  /\ Faults \subseteq AllFaults

VARIABLES
  created, closed, ready, onDone, res, connections, available, next, limit,
  max,          \* those of ConnectionPool
  phase,        \* what each connection waits to read, or to connect
  more,         \* header lines and chunks the server may still send
  writes,       \* async_writes outstanding: begun on an open, a closed socket
  timer,        \* whether a wait of timer_ is pending
  expired,      \* whether the handler of an expired wait is queued to run
  attempt,      \* the retry counter of each request
  current,      \* current_completion() of each response
  completion,   \* completion() of each response
  calls,        \* what the running handler has still to call
  crashed       \* a null pointer has been dereferenced

poolVars == <<created, closed, ready, onDone, res, connections, available,
              next, limit, max>>
connVars == <<phase, more, writes, timer, expired>>
respVars == <<attempt, current, completion>>
vars == <<poolVars, connVars, respVars, calls, crashed>>

(* The client sets the limits of a pool when it makes it (endpoint_for).   *)
Pool == INSTANCE ConnectionPool WITH Limits <- {MaxConnections}

Conn == Pool!Conn

Connecting == {"resolve", "connect", "handshake"}
Parsing == {"header", "size", "chunk", "trailer", "body"}
Reading == {"status"} \cup Parsing

Init ==
  /\ Pool!Init
  /\ phase = [c \in Conn |-> "none"]
  /\ more = [c \in Conn |-> 0]
  /\ writes = [c \in Conn |-> [open |-> 0, dead |-> 0]]
  /\ timer = [c \in Conn |-> FALSE]
  /\ expired = [c \in Conn |-> FALSE]
  /\ attempt = [r \in Request |-> 0]
  /\ current = [r \in Request |-> "unsent"]
  /\ completion = [r \in Request |-> "pending"]
  /\ calls = <<>>
  /\ crashed = FALSE

-----------------------------------------------------------------------------
(* Parts of the handlers.                                                  *)

(* Each definition whose name ends in Mutant is the one after it with a    *)
(* plausible slip; the checks make sure that a property notices it.        *)

(* The io thread is between handlers.                                      *)
IoFree == calls = <<>> /\ ~crashed

(* The running handler calls op on x.                                      *)
Calling(op, x) == calls # <<>> /\ ~crashed /\ Head(calls) = <<op, x>>
Return == calls' = Tail(calls)

(* extend_timer(): the wait pending is replaced. One whose handler is      *)
(* queued already cannot be cancelled.                                     *)
ExtendTimer(c) == timer' = [timer EXCEPT ![c] = TRUE]

(* The rest of write_request once res_ is set: extend_timer and write.     *)
WriteRequest(c) ==
  /\ ExtendTimer(c)
  /\ writes' = IF c \in closed THEN [writes EXCEPT ![c].dead = @ + 1]
                               ELSE [writes EXCEPT ![c].open = @ + 1]
  /\ UNCHANGED <<more, expired>>

(* The connection the pool has just made starts to resolve its host name.  *)
StartRequest == phase' = [phase EXCEPT ![created + 1] = "resolve"]

(* What c waits for may be read. A status line answers a request that is   *)
(* on the wire; what is in the buffer of a closed connection can be read.  *)
Readable(c) ==
  /\ phase[c] \in Reading
  /\ phase[c] = "status" =>
       \/ "unsolicited" \in Faults
       \/ /\ res[c] # None
          /\ writes[c].dead = 0
          /\ writes[c].open = 0 \/ "early" \in Faults

-----------------------------------------------------------------------------
(* client.h: requests and completions.                                     *)

(* The running handler completes a response: the completion handler and    *)
(* what the caller has put on on_completion and completion() run now,      *)
(* before the handler goes on to release or close the connection.          *)
Completing ==
  \/ \E q \in Request : Calling("done", q) /\ current[q] = "pending"
  \/ \E c \in Conn, q \in Request :
       Calling("fail", c) /\ res[c] = q /\ current[q] = "pending"

(* client::request(r): a response, its completion handler, and next(). The *)
(* caller asks when the io thread is free, or from a callback.             *)
UserRequest(r) ==
  /\ IoFree \/ Completing
  /\ current[r] = "unsent"
  /\ current' = [current EXCEPT ![r] = "pending"]
  /\ calls' = <<<<"next", r>>>> \o calls
  /\ UNCHANGED <<poolVars, connVars, attempt, completion, crashed>>

(* endpoint->next()->on_done(write_request(r)).                            *)
CallNextAvailable(r, c) ==
  /\ Calling("next", r)
  /\ Pool!NextAvailable(r, c)
  /\ WriteRequest(c)
  /\ Return
  /\ UNCHANGED <<phase, respVars, crashed>>

CallNextConnect(r) ==
  /\ Calling("next", r)
  /\ Pool!NextConnect(r)
  /\ StartRequest
  /\ Return
  /\ UNCHANGED <<more, writes, timer, expired, respVars, crashed>>

CallNextQueued(r) ==
  /\ Calling("next", r)
  /\ Pool!NextQueued(r)
  /\ Return
  /\ UNCHANGED <<connVars, respVars, crashed>>

(* current_completion() of r is resolved and completion_handler runs: the  *)
(* on_completion signal accepts the outcome, throws, or wants a retry.     *)
Accept(r, outcome) ==
  /\ \E o \in {outcome, "failed"} : completion' = [completion EXCEPT ![r] = o]
  /\ current' = [current EXCEPT ![r] = "ready"]
  /\ Return
  /\ UNCHANGED attempt

Retry(r) ==
  /\ attempt[r] < MaxRetry
  /\ attempt' = [attempt EXCEPT ![r] = @ + 1]
  /\ calls' = <<<<"next", r>>>> \o Tail(calls)
  /\ UNCHANGED <<current, completion>>

(* current_completion()->done(status) unless it is ready.                  *)
CallDone(r) ==
  /\ Calling("done", r)
  /\ \/ current[r] = "pending" /\ (Accept(r, "done") \/ Retry(r))
     \/ current[r] # "pending" /\ Return /\ UNCHANGED respVars
  /\ UNCHANGED <<poolVars, connVars, crashed>>

(* if(res_ && !res_->current_completion()->is_ready()) ...->fail(...).     *)
CallFailUncheckedMutant(c) ==
  /\ Calling("fail", c)
  /\ \/ \E r \in Request : r = res[c] /\ (Accept(r, "failed") \/ Retry(r))
     \/ res[c] = None /\ Return /\ UNCHANGED respVars
  /\ UNCHANGED <<poolVars, connVars, crashed>>

CallFail(c) ==
  /\ Calling("fail", c)
  /\ \/ \E r \in Request : /\ r = res[c]
                           /\ current[r] = "pending"
                           /\ Accept(r, "failed") \/ Retry(r)
     \/ /\ ~ \E r \in Request : r = res[c] /\ current[r] = "pending"
        /\ Return
        /\ UNCHANGED respVars
  /\ UNCHANGED <<poolVars, connVars, crashed>>

-----------------------------------------------------------------------------
(* connection::close(): once, cancel_timer, remove, and the socket: what   *)
(* is outstanding on it completes with an error, or was complete already.  *)

CallCloseAgain(c) ==
  /\ Calling("close", c)
  /\ c \in closed
  /\ Return
  /\ UNCHANGED <<poolVars, connVars, respVars, crashed>>

CallClose(c) ==
  /\ Calling("close", c)
  /\ timer' = [timer EXCEPT ![c] = FALSE]
  /\ \/ Pool!Remove(c) /\ UNCHANGED phase
     \/ Pool!RemoveAndReconnect(c) /\ StartRequest
  /\ Return
  /\ UNCHANGED <<more, writes, expired, respVars, crashed>>

-----------------------------------------------------------------------------
(* connection::request: resolve, connect, post_connect, and the future of  *)
(* the pool. A failure closes the connection; nothing tells the future.    *)

Resolved(c) ==
  /\ IoFree
  /\ phase[c] = "resolve"
  /\ phase' = [phase EXCEPT ![c] = "connect"]
  /\ UNCHANGED <<poolVars, more, writes, timer, expired, respVars, calls, crashed>>

(* TLS post_connect: the stall timer and the handshake are started.        *)
StartHandshakeUntimedMutant(c) ==
  /\ IoFree
  /\ Tls /\ phase[c] = "connect"
  /\ phase' = [phase EXCEPT ![c] = "handshake"]
  /\ UNCHANGED <<poolVars, more, writes, timer, expired, respVars, calls, crashed>>

StartHandshake(c) ==
  /\ IoFree
  /\ Tls /\ phase[c] = "connect"
  /\ phase' = [phase EXCEPT ![c] = "handshake"]
  /\ ExtendTimer(c)
  /\ UNCHANGED <<poolVars, more, writes, expired, respVars, calls, crashed>>

ConnectFails(c) ==
  /\ IoFree
  /\ phase[c] \in Connecting
  /\ "connect" \in Faults \/ c \in closed
  /\ phase' = [phase EXCEPT ![c] = "stopped"]
  /\ calls' = <<<<"close", c>>>>
  /\ UNCHANGED <<poolVars, more, writes, timer, expired, respVars, crashed>>

(* The connection is up: handle_response starts to read, and the callback  *)
(* on the future of the pool runs.                                         *)
Up(c) ==
  /\ IoFree
  /\ phase[c] = IF Tls THEN "handshake" ELSE "connect"
  /\ phase' = [phase EXCEPT ![c] = "status"]
  /\ UNCHANGED <<respVars, calls, crashed>>

UpFor(c, r) ==
  /\ Up(c)
  /\ Pool!EstablishedFor(c, r)
  /\ WriteRequest(c)

UpIdle(c) ==
  /\ Up(c)
  /\ Pool!EstablishedIdle(c)
  /\ ExtendTimer(c)
  /\ UNCHANGED <<more, writes, expired>>

UpServe(c) ==
  /\ Up(c)
  /\ Pool!EstablishedServe(c)
  /\ WriteRequest(c)

-----------------------------------------------------------------------------
(* connection::write_request: the async_write completes.                   *)

WriteDoneTwiceMutant(c) ==
  /\ IoFree
  /\ phase[c] \in Reading
  /\ writes' = [writes EXCEPT ![c].open = @ - 1]
  /\ ExtendTimer(c)
  /\ UNCHANGED <<poolVars, phase, more, expired, respVars, calls, crashed>>

WriteDone(c) ==
  /\ IoFree
  /\ writes[c].open > 0
  /\ writes' = [writes EXCEPT ![c].open = @ - 1]
  /\ ExtendTimer(c)
  /\ UNCHANGED <<poolVars, phase, more, expired, respVars, calls, crashed>>

(* on_fail takes the current completion of whatever res_ is now, without a *)
(* check; then close().                                                    *)
WriteFails(c) ==
  /\ IoFree
  /\ \/ /\ writes[c].open > 0
        /\ "drop" \in Faults \/ c \in closed
        /\ writes' = [writes EXCEPT ![c].open = @ - 1]
     \/ /\ writes[c].dead > 0
        /\ writes' = [writes EXCEPT ![c].dead = @ - 1]
  /\ crashed' = (res[c] = None)
  /\ calls' = IF res[c] = None THEN <<>> ELSE <<<<"fail", c>>, <<"close", c>>>>
  /\ UNCHANGED <<poolVars, phase, more, timer, expired, respVars>>

-----------------------------------------------------------------------------
(* connection::handle_response and what it reads, part by part.            *)

StatusLineUncheckedMutant(c) ==
  /\ IoFree
  /\ phase[c] = "status" /\ Readable(c)
  /\ phase' = [phase EXCEPT ![c] = "header"]
  /\ more' = [more EXCEPT ![c] = MaxMore]
  /\ ExtendTimer(c)
  /\ UNCHANGED <<poolVars, writes, expired, respVars, calls, crashed>>

StatusLine(c) ==
  /\ IoFree
  /\ phase[c] = "status" /\ Readable(c)
  /\ res[c] # None
  /\ phase' = [phase EXCEPT ![c] = "header"]
  /\ more' = [more EXCEPT ![c] = MaxMore]
  /\ ExtendTimer(c)
  /\ UNCHANGED <<poolVars, writes, expired, respVars, calls, crashed>>

(* A status line, and no response to put it in.                            *)
StrayLine(c) ==
  /\ IoFree
  /\ phase[c] = "status" /\ Readable(c)
  /\ res[c] = None
  /\ phase' = [phase EXCEPT ![c] = "stopped"]
  /\ calls' = <<<<"close", c>>>>
  /\ UNCHANGED <<poolVars, more, writes, timer, expired, respVars, crashed>>

HeaderLine(c) ==
  /\ IoFree
  /\ phase[c] = "header"
  /\ more[c] > 0
  /\ more' = [more EXCEPT ![c] = @ - 1]
  /\ ExtendTimer(c)
  /\ UNCHANGED <<poolVars, phase, writes, expired, respVars, calls, crashed>>

HeadersEnd(c) ==
  /\ IoFree
  /\ phase[c] = "header"
  /\ \/ "length" \in Transfer /\ phase' = [phase EXCEPT ![c] = "body"]
     \/ "chunked" \in Transfer /\ phase' = [phase EXCEPT ![c] = "size"]
  /\ ExtendTimer(c)
  /\ UNCHANGED <<poolVars, more, writes, expired, respVars, calls, crashed>>

NoTransfer(c) ==
  /\ IoFree
  /\ phase[c] = "header"
  /\ "malformed" \in Faults
  /\ phase' = [phase EXCEPT ![c] = "stopped"]
  /\ ExtendTimer(c)
  /\ calls' = <<<<"close", c>>, <<"fail", c>>>>
  /\ UNCHANGED <<poolVars, more, writes, expired, respVars, crashed>>

ChunkSize(c) ==
  /\ IoFree
  /\ phase[c] = "size"
  /\ \/ /\ more[c] > 0
        /\ more' = [more EXCEPT ![c] = @ - 1]
        /\ phase' = [phase EXCEPT ![c] = "chunk"]
     \/ phase' = [phase EXCEPT ![c] = "trailer"] /\ UNCHANGED more
  /\ ExtendTimer(c)
  /\ UNCHANGED <<poolVars, writes, expired, respVars, calls, crashed>>

ChunkData(c) ==
  /\ IoFree
  /\ phase[c] = "chunk"
  /\ phase' = [phase EXCEPT ![c] = "size"]
  /\ ExtendTimer(c)
  /\ UNCHANGED <<poolVars, more, writes, expired, respVars, calls, crashed>>

(* The end of the body: extract_next_body_chunk. res_ is reset; unless the *)
(* response says "Connection: close" the next one is read, and the         *)
(* connection released, before this one is marked done.                    *)
BodyEnds(c) ==
  /\ IoFree
  /\ phase[c] \in {"trailer", "body"}
  /\ UNCHANGED <<respVars, crashed>>

FinishIdleNoReleaseMutant(c) ==
  /\ BodyEnds(c)
  /\ Pool!Detach(c)
  /\ phase' = [phase EXCEPT ![c] = "status"]
  /\ ExtendTimer(c)
  /\ calls' = <<<<"done", res[c]>>>>
  /\ UNCHANGED <<more, writes, expired>>

FinishIdle(c) ==
  /\ BodyEnds(c)
  /\ Pool!ReleaseIdle(c)
  /\ phase' = [phase EXCEPT ![c] = "status"]
  /\ ExtendTimer(c)
  /\ calls' = <<<<"done", res[c]>>>>
  /\ UNCHANGED <<more, writes, expired>>

FinishServe(c) ==
  /\ BodyEnds(c)
  /\ Pool!ReleaseServe(c)
  /\ phase' = [phase EXCEPT ![c] = "status"]
  /\ WriteRequest(c)
  /\ calls' = <<<<"done", res[c]>>>>

FinishClose(c) ==
  /\ BodyEnds(c)
  /\ Pool!Detach(c)
  /\ phase' = [phase EXCEPT ![c] = "stopped"]
  /\ ExtendTimer(c)
  /\ calls' = <<<<"done", res[c]>>, <<"close", c>>>>
  /\ UNCHANGED <<more, writes, expired>>

(* A read ends in error: close(), then on_fail, which the reads of a chunk *)
(* size and of the line after the last chunk do not have.                  *)
ReadFailsSilentMutant(c) ==
  /\ IoFree
  /\ phase[c] \in Reading
  /\ "drop" \in Faults \/ c \in closed
  /\ phase' = [phase EXCEPT ![c] = "stopped"]
  /\ calls' = IF phase[c] \in {"size", "trailer", "body"}
                THEN <<<<"close", c>>>>
                ELSE <<<<"close", c>>, <<"fail", c>>>>
  /\ UNCHANGED <<poolVars, more, writes, timer, expired, respVars, crashed>>

ReadFails(c) ==
  /\ IoFree
  /\ phase[c] \in Reading
  /\ "drop" \in Faults \/ c \in closed
  /\ phase' = [phase EXCEPT ![c] = "stopped"]
  /\ calls' = IF phase[c] \in {"size", "trailer"}
                THEN <<<<"close", c>>>>
                ELSE <<<<"close", c>>, <<"fail", c>>>>
  /\ UNCHANGED <<poolVars, more, writes, timer, expired, respVars, crashed>>

-----------------------------------------------------------------------------
(* The stall timer.                                                        *)

(* The time of the pending wait is over and its handler is queued.         *)
TimerExpires(c) ==
  /\ IoFree
  /\ timer[c]
  /\ ~expired[c]
  /\ expired' = [expired EXCEPT ![c] = TRUE]
  /\ timer' = [timer EXCEPT ![c] = FALSE]
  /\ UNCHANGED <<poolVars, phase, more, writes, respVars, calls, crashed>>

(* timer_.reset() drops the wait pending meanwhile; close(), then fail.    *)
TimerHandlerOpenMutant(c) ==
  /\ IoFree
  /\ expired[c]
  /\ expired' = [expired EXCEPT ![c] = FALSE]
  /\ timer' = [timer EXCEPT ![c] = FALSE]
  /\ calls' = <<<<"fail", c>>>>
  /\ UNCHANGED <<poolVars, phase, more, writes, respVars, crashed>>

TimerHandlerResetsMutant(c) ==
  /\ IoFree
  /\ expired[c]
  /\ expired' = [expired EXCEPT ![c] = FALSE]
  /\ timer' = [timer EXCEPT ![c] = FALSE]
  /\ res' = [res EXCEPT ![c] = None]
  /\ calls' = <<<<"close", c>>, <<"fail", c>>>>
  /\ UNCHANGED <<created, closed, ready, onDone, connections, available, next, limit, max>>
  /\ UNCHANGED <<phase, more, writes, respVars, crashed>>

TimerHandler(c) ==
  /\ IoFree
  /\ expired[c]
  /\ expired' = [expired EXCEPT ![c] = FALSE]
  /\ timer' = [timer EXCEPT ![c] = FALSE]
  /\ calls' = <<<<"close", c>>, <<"fail", c>>>>
  /\ UNCHANGED <<poolVars, phase, more, writes, respVars, crashed>>

-----------------------------------------------------------------------------
(* What the running handler does next.                                     *)
Call ==
  \/ \E r \in Request, c \in Conn : CallNextAvailable(r, c)
  \/ \E r \in Request : CallNextConnect(r)
  \/ \E r \in Request : CallNextQueued(r)
  \/ \E r \in Request : CallDone(r)
  \/ \E c \in Conn : CallFail(c)
  \/ \E c \in Conn : CallCloseAgain(c)
  \/ \E c \in Conn : CallClose(c)

(* An attempt to connect ends.                                             *)
ConnectStep(c) ==
  \/ Resolved(c)
  \/ StartHandshake(c)
  \/ ConnectFails(c)
  \/ \E r \in Request : UpFor(c, r)
  \/ UpIdle(c)
  \/ UpServe(c)

WriteStep(c) == WriteDone(c) \/ WriteFails(c)

ReadStep(c) ==
  \/ StatusLine(c)
  \/ StrayLine(c)
  \/ HeaderLine(c)
  \/ HeadersEnd(c)
  \/ NoTransfer(c)
  \/ ChunkSize(c)
  \/ ChunkData(c)
  \/ FinishIdle(c)
  \/ FinishServe(c)
  \/ FinishClose(c)
  \/ ReadFails(c)

Next ==
  \/ \E r \in Request : UserRequest(r)
  \/ Call
  \/ \E c \in Conn : ConnectStep(c)
  \/ \E c \in Conn : WriteStep(c)
  \/ \E c \in Conn : ReadStep(c)
  \/ \E c \in Conn : TimerExpires(c)
  \/ \E c \in Conn : TimerHandler(c)

Spec == Init /\ [][Next]_vars

(* The io thread runs what is to be run. The system ends every attempt to  *)
(* connect, every write to and every read from a closed socket. A timer    *)
(* that is not extended any more expires. A server need not answer.        *)
Fairness ==
  /\ WF_vars(Call)
  /\ \A c \in Conn : /\ WF_vars((phase[c] # "handshake" \/ c \in closed) /\ ConnectStep(c))
                     /\ WF_vars(TimerExpires(c))
                     /\ WF_vars(TimerHandler(c))
                     /\ WF_vars(c \in closed /\ WriteStep(c))
                     /\ WF_vars(c \in closed /\ ReadStep(c))

FairSpec == Spec /\ Fairness

-----------------------------------------------------------------------------
(* Properties.                                                             *)

TypeOK ==
  /\ Pool!TypeOK
  /\ phase \in [Conn -> {"none", "stopped"} \cup Connecting \cup Reading]
  /\ more \in [Conn -> 0..MaxMore]
  /\ writes \in [Conn -> [open : Nat, dead : Nat]]
  /\ timer \in [Conn -> BOOLEAN]
  /\ expired \in [Conn -> BOOLEAN]
  /\ attempt \in [Request -> 0..MaxRetry]
  /\ current \in [Request -> {"unsent", "pending", "ready"}]
  /\ completion \in [Request -> {"pending", "done", "failed"}]
  /\ calls \in Seq({"next", "done"} \X Request \cup {"close", "fail"} \X Conn)
  /\ crashed \in BOOLEAN

(* The handlers that parse a response use res_ unchecked (connection.h:177, *)
(* 185, 242, 283, 287). However timeouts, lost connections, retries and    *)
(* late reads fall, it is never null there.                                *)
ParsingHasResponse == \A c \in Conn : phase[c] \in Parsing => res[c] # None

(* Every open connection that is past connecting is watched by its stall   *)
(* timer, or its close() is under way: nothing open can hang for ever.     *)
Watched ==
  \A c \in Pool!Live :
    phase[c] \notin {"none", "resolve", "connect"} =>
      \/ timer[c]
      \/ expired[c]
      \/ \E i \in 1..Len(calls) : calls[i] = <<"close", c>>

(* An open connection with no response to process is in available_: it is  *)
(* not leaked, holding a slot of the limit while requests wait.            *)
IdleIsAvailable ==
  \A c \in Pool!Live :
    phase[c] = "status" /\ res[c] = None =>
      \E i \in 1..Len(available) : available[i] = c

(* No response handler finds res_ null: what WriteFails dereferences.      *)
NoNullResponse == ~crashed

(* A request that is not completed is attended to: it waits in next_ or on *)
(* the future of a connection, or is about to be marked done, or some      *)
(* connection that holds its response has a read with an on_fail, a write, *)
(* the stall timer or the failure itself outstanding. So whatever times    *)
(* out, is closed or is retried, and when a handshake ends after close()   *)
(* and the request is written to a closed connection, something is left    *)
(* that will complete it. (Bodies with a length: two reads of a chunked    *)
(* body have no on_fail, connection.h:230, 254. And a connection that      *)
(* cannot be established never resolves its future, connection.h:68.)      *)
Tells(c) ==
  \/ timer[c]
  \/ expired[c]
  \/ writes[c].open + writes[c].dead > 0
  \/ phase[c] \in Reading \ {"size", "trailer"}
  \/ \E i \in 1..Len(calls) : calls[i] = <<"fail", c>>

Attended ==
  \A r \in Request :
    current[r] = "pending" =>
      \/ \E i \in 1..Len(next) : next[i] = r
      \/ \E c \in (1..created) \ ready : onDone[c] = r
      \/ \E i \in 1..Len(calls) : calls[i] \in {<<"next", r>>, <<"done", r>>}
      \/ \E c \in Conn : res[c] = r /\ Tells(c)

(* The caller is told the outcome of a request once: what it was told      *)
(* stands, and the completion handler, which could ask for one more        *)
(* attempt, does not run again for it, however many connections still hold *)
(* the response and report late answers, timeouts and errors. (A retry put *)
(* into the queue before that stays there: it may be served afterwards and *)
(* its answer read into the response.)                                     *)
CompletedOnce ==
  [][ \A r \in Request :
        completion[r] # "pending" =>
          UNCHANGED <<completion[r], attempt[r], current[r]>> ]_vars

(* A connection is given a response only when it has none, or has just     *)
(* read the last one to its end: write_request displaces nothing.          *)
NothingDisplaced ==
  [][ \A c \in Conn :
        (\/ writes'[c].open > writes[c].open
         \/ writes'[c].dead > writes[c].dead
         \/ res'[c] # res[c])
          => res[c] = None \/ phase[c] \in {"trailer", "body"} ]_vars

(* Not more open connections than the limit; nobody waits for a free one;  *)
(* first come, first served: see ConnectionPool.                           *)
WithinLimit == Pool!WithinLimit
WaitersOnlyWhenFull == Pool!WaitersOnlyWhenFull
NoOvertaking == Pool!NoOvertaking

(* Every request is answered or failed in the end.                         *)
EveryRequestCompletes ==
  \A r \in Request : current[r] = "pending" ~> completion[r] # "pending"

(* The pool times out old connections (connection_pool.h:21): a connection *)
(* that idles is taken into use again or closed.                           *)
IdleConnectionsTimeOut ==
  \A c \in Conn :
    (c \in Pool!Live /\ phase[c] = "status" /\ res[c] = None)
      ~> (c \in closed \/ res[c] # None)
=============================================================================
