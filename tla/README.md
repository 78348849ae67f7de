# A verification project for asio-protocols

TLA+ models of the HTTP client (`include/net/asio/http/`), of the AMQP connection
(`include/net/asio/amqp/`), of the circular buffer and of the TCP streams
(`buffer.h`, `tcp.h` in `include/net/asio/`) of this repository, model-checked with
TLC, with theorems checked by TLAPS. Paths below are relative to `src/`; `http/`
and `amqp/` stand for those two directories.

## The system

asio-protocols is a header library of protocol clients on Boost.ASIO. Every
component does its work in completion handlers that an `io_service` runs; results
are `cps::future` objects, whose callbacks run synchronously in whoever completes
the future. The HTTP client is the largest part and the only one in which several
objects share state.

| Component | State | Operations | Talks to |
|---|---|---|---|
| `http/connection_pool.h` | `connections_` (futures), `available_` (weak pointers), `next_` (waiting requests), the limit | `next`, `release`, `remove`, setters | creates connections; called by them and by the client; serves requests through closures |
| `http/connection.h` | `res_` (the response being read), `closed_`, `valid_`, `timer_`, input buffer | `request`, `write_request`, the chain of reads, `extend_timer`, `close` once | completes responses; `release` and `remove` on the pool |
| `http/connection/tcp.h`, `tls.h` | the socket | connect, handshake, write, read, close | asio |
| `http/client.h` | a pool per endpoint, limits, `on_completion` | `request`, `completion_handler` with retry | pools, responses |
| `http/response.h`, `request.h` | `completion_`, `current_completion_`, message | `reset`, parsing | client, connection |
| `http/message.h`, `header.h`, `uri.h`, `details.h` | values | parsing, escaping, normalising, ordering | pure functions |
| `amqp/connection.h`, `client.h` | `outgoing_`, `incoming_`, `writing_`, `active_`, a strand | `onData`, `write_handler`, `read_handler`, `setup` | AMQP-CPP, asio |
| `buffer.h` | circular buffer, `pending_writes_`, `write_pending_` | two-part views, `write`, `write_complete` | futures |
| `tcp.h` | `outgoing_`, `sending_`; acceptor and connections | `write`, `check_outgoing`, `accept` | asio |
| `statsd.h` | a UDP socket | `connect`, `send` | asio |
| `source.h`, `sink.h`, `stream.h`, `protocol/http.h` | - | interfaces | - |

What makes them correct, and what is hard about it:

- **Pool.** Slots of the limit are taken and freed exactly once; a connection is
  handed to one request at a time and only when idle and open; a request that
  waits is served, in order. Hard: connections close at any moment for five
  reasons, `remove()` is called from a handler with callbacks of its own, and
  `erase(remove_if(...))` takes an entry away even if none matches.
- **Connection and response.** A response is completed once, by whichever comes
  first of its end, a read error, a write error, the stall timer; a connection
  is never given a response while it reads another; it is always watched by its
  timer. Hard: writes, reads and timer overlap, completion callbacks start the
  next request, queued timer handlers cannot be cancelled, and a dead connection
  keeps its response.
- **Client.** Each request is answered or failed in the end, retries included, and
  goes to the pool of its endpoint.
- **Messages.** What a URI says is what the server hears; the length announced is
  that of the body; an answer is read whole, and no further, however it is cut up.
  Hard: ambiguous expressions, escapes, headers under any spelling, what a retry
  or the answer before leaves behind.
- **AMQP, TCP stream.** One write at a time, no byte lost or reordered. Hard: short
  writes, a write flag that is taken with `compare_exchange_weak`, errors that
  leave a flag set, threads between the taking of the flag and the write.
- **Buffer.** What is handed out to be written into overlaps nothing that is read;
  every write that waits is told. Hard: contents in two parts, storage that grows,
  writes completed in parts.

## Modules

| Module | What it is |
|---|---|
| `ConnectionPool` | the pool, with what it sees of its callers and connections; the client is composed of its actions |
| `MCConnectionPool` | its small instances |
| `ConnectionPool_proofs` | its theorems |
| `HttpClient` | client, connections and pool composed; uses `ConnectionPool` through `Pool == INSTANCE` |
| `MCHttpClient` | its small instances: TCP, TLS, liveness, and two disagreements |
| `HttpClient_proofs` | what it takes over from the theorems of the pool, and those about connections, timers and responses |
| `AmqpConnection` | an AMQP connection and its strand; small enough to be checked without a module of instances |
| `AmqpConnection_proofs` | its theorems, about writing and about reading |
| `HttpHeader`, `Uri` | the names of headers; URIs, queries and their escapes: operators |
| `HttpMessage` | headers, bodies, and messages as text: operators on top of these two |
| `HttpMessage_proofs` | theorems about names of headers, setters, printed messages and escaped texts |
| `HttpExchange` | caller, client, connection and server, and what is said between them; extends `HttpMessage` |
| `MCHttpExchange` | its texts |
| `HttpExchange_proofs` | theorems about URIs, endpoints, what a server hears and what is read of its answer: of the operators of `Uri`, then of the specification |
| `LeastAndInduction` | least and greatest numbers of a set, and induction: lemmas for the proofs |
| `CircularBuffer` | the buffer; checked without a module of instances |
| `CircularBuffer_proofs` | its theorems |
| `Tcp` | streams, clients and server |
| `MCTcp` | its small instances, with connections that break and without |
| `Tcp_proofs` | its theorems |

### ConnectionPool

A connection and its future are the same number `c`, handed out in order by
`created`. `connections`, `available`, `next`, `limit` and `max` are the fields of
the class; `closed`, `ready`, `onDone` and `res` say what the pool can observe of
connections and futures (`is_valid()`, `is_done()`, the callback attached, the
request last written). A request is the closure attached to the future `next()`
returns, so `next_` holds requests and serving one sets `res`.

Each action is one critical section: `next()` splits into `NextAvailable`,
`NextConnect`, `NextQueued`; `release()` into `ReleaseIdle` and `ReleaseServe` (and
`Established...` when a connection made by `remove()` comes up); `remove()` into
`Remove` and `RemoveAndReconnect`. Popping dead connections off `available_`
(`PopsUnusable`) is part of the action. `Detach` is the one thing a connection does
on its own that the pool can see: it drops its response at the end of one that
says `Connection: close`, without `release()`.

`connections_.erase(it)` with `it == end()` is undefined behaviour. `Erases` takes
what libstdc++ builds: `vector::erase(pos)` moves what follows `pos`, then destroys
the last element, so the last entry goes. That the vector is never empty there
(which would be worse) is a consequence of `Accounting`.

`Spec` has the setters, `FixedSpec` has not: limits changed while requests wait
are not served (`WaitersOnlyWhenFull` would be false of `Spec`). `QueueMoves` is
what still holds then.

### HttpClient

The ten pool variables come with the instance. Added: `phase` (what a connection
waits to read, or to connect), `more` (a bound on header lines and chunks),
`writes` (outstanding writes, begun on an open or on a closed socket), `timer` (a
wait is pending), `expired` (a handler of an expired wait is queued), and for each
response `attempt`, `current` (`current_completion()`) and `completion`.

One io thread runs handlers. A handler that makes several state-changing calls is
an event (its guard has `IoFree`) followed by the calls it still has to make, kept
in order in `calls`: `"next"`, `"done"`, `"fail"`, `"close"`. Nothing else runs
until `calls` is empty, which is what a synchronous call is; a retry puts its
`"next"` in front of what the outer handler has left, as the nested callback does.
So does a request the caller makes from a callback of the response being completed
(`Completing`), before the handler goes on to release or close its connection.
`crashed` is set where a null response is dereferenced and stops everything.

| Code | Actions |
|---|---|
| `client::request` | `UserRequest`, `CallNextAvailable/Connect/Queued` |
| `completion_handler` | `Accept` (signal accepts or throws), `Retry` |
| `connection::request`, `connect`, `post_connect` | `Resolved`, `StartHandshake`, `ConnectFails`, `UpFor`, `UpIdle`, `UpServe` |
| `write_request` | `WriteRequest`, `WriteDone`, `WriteFails` |
| `handle_response`, `read_next_header`, `read_next_body_chunk` | `StatusLine`, `StrayLine`, `HeaderLine`, `HeadersEnd`, `NoTransfer`, `ChunkSize`, `ChunkData`, `ReadFails` |
| `extract_next_body_chunk` | `FinishIdle`, `FinishServe`, `FinishClose` (`handle_response`, `release` and `done`, or `done` and `close`) |
| `extend_timer` | `ExtendTimer`, `TimerExpires`, `TimerHandler` |
| `close` | `CallClose`, `CallCloseAgain` |

Abstractions: which bytes arrive (a read ends when the server sends what it waits
for or when that is buffered already, also on a closed connection); the time of a
timer (it may expire whenever it is pending); the value of `max_connections_` is
set when the pool is made, as `endpoint_for` does. `Faults` names what the
environment may do: fail to connect, drop, answer early, send unsolicited data,
send headers without a length.

A connection that closed keeps its response, as in the code. What this leads to is in
the model, also where no property speaks of it: when a read error completes a request
whose retry waits in `next_`, the retry stays there, is served afterwards, and its
answer is read into the finished response. `CompletedOnce` says that the outcome
the caller was told stands and that the completion handler does not run again;
`Attended` says the converse, that a request not completed has something outstanding
that will complete it, also one handed to a connection that closed during its
handshake.

The two reads of a chunked body without an `on_fail` (lines 230 and 254 of
`connection.h`) fail a future nobody listens to, after `close()` has cancelled the
timer: with `"chunked" \in Transfer` a request may wait for ever, and `Attended` and
`EveryRequestCompletes` are of bodies with a length. And an entry of `connections_` that
`remove()` erases may be another connection's than the one that closed (`RemoveErases`), so
that no property says that each open connection has an entry of its own, only that
the number of entries is right.

Not in the model: contents of messages, exceptions of the parsers, several io
threads, the socket TLS keeps open in `async_shutdown` after `close()`, and more
than one queued expiry of one timer (`expired` is a flag: an expiry that falls
while another is queued stays pending).

### AmqpConnection

Several threads may run the `io_service` here; `strand` is the queue of functions
posted to `strand_`, each with the data or the length it captured, and `Run...`
is the one in front running to its end. `outgoing`, `writing` and `incoming` are
`outgoing_`, `writing_` and `incoming_`, the last by its size; `wire` holds the
buffers of outstanding `async_write_some` calls (a sequence, although
`OneWriteAtATime` says it has at most one element), `sent` what the socket took,
`reading` whether a read is outstanding. What the library hands over in one call
of `onData` is that call's serial number, so that order and loss can be seen.

| Code | Actions |
|---|---|
| `client::connect` | `Resolved`, `ConnectFails` |
| `setup` | `Construct` (the library calls `onData` with its header), `Begin` |
| `onData` | `OnData`, `RunData` |
| `write_handler` | `WriteHandler` (a part of `RunData`, `RunWritten`, `Begin`), `RunStart`; its completion `WriteSome`, `WriteFails`, then `RunWritten`, `RunFailed` |
| `read_handler` | `RunRead`; its completion `ReadSome`, `ReadFails`, then `RunReadSome`, `RunLost` |

`Faults` says what may go wrong: `connect`, `short` writes, a `broken` connection,
and `spurious` failures of `compare_exchange_weak`. What a short write leaves out
is lost, since `outgoing_` was cleared: no property says that all data arrives.

`setup()` runs outside the strand. `Begin` is its test of `outgoing_` and the call
of `write_handler()` as one step between two functions of the strand; a function
running in the middle of it, which would be a race on the vector, is not modelled.
Nor is what AMQP frames contain: `Parse` takes whole frames of `FrameSize` bytes.

### HttpHeader, Uri, HttpMessage

A text is a sequence of characters; a run of digits (`Number` gives its value) and
a word nothing looks into count as one. `Normalise` is what the expression of
`normalize_key` replaces. `Parse` is the expression of the constructor of `uri`, with
the order in which it tries its parts: the user first, what is optional as long as
it can be. `Hex` prints a signed char as the stream does, a space or a zero in
front of a single digit, eight digits for a negative one; `Decoded` is the loop.
Default ports are those of `port_for_scheme`; ports are 16 bits wide. `Trim` takes away
what `boost::algorithm::trim` does, all white space of the C locale but the vertical
tab, for which TLA+ strings have no sign.

Names of headers are spelled with one letter a part: `C-L` is Content-Length,
`T-E` Transfer-Encoding, `H` Host, `C` Connection.

### HttpExchange

`HttpClient` has the pool, the connections, timers and faults in full and leaves
out what is said. `HttpExchange` has what is said, one request at a time, and of
connections just what carries it: `conn` is the pool of the present one, `net` and
`in` what has been sent and what is in the buffer.

| Code | Actions |
|---|---|
| `uri(in)`, `uri << query`, `request(uri)` and setters | `WriteUri`, `AddParam`, `MakeRequest`, `CallAddHeader`, `CallSetHeader`, `CallBody`, `CallAppendBody` |
| `client::GET`...`DELETE`, `request`, `endpoint_for`, `details` | `Request` |
| `completion_handler` with `reset()` | `Retry` |
| `max_connections`, `limit_connections` of the client | `SetMaxConnections`, `SetLimitConnections` |
| `request::parse_data` (as a server uses it) | `Hear` |
| `read_delimited`, `read` | `Receive`, and the guards of what follows |
| `handle_response` to `extract_next_body_chunk` | `StatusLine`, `StrayLine`, `HeaderLine`, `HeadersEnd`, `ChunkSize`, `ChunkData`, `LastLine`, `ReadBody` |
| connection lost, timeout | `Fail` |

`Plain` says which URIs the expression tells the parts of: the properties about
URIs are claims about those. `clean` says that the server has sent only what the
client can read on this connection (`Readable`); with a header line after the chunks, a
length and chunks at once, or a body announced in answer to HEAD, bytes are left over or
missing, which the model has and the repository says nothing about.

A header line without a colon (`HasName`), and a status line without a number
that fits an int (`HasStatus`), make the parsers throw in the handler of a read. No handler
catches that; what becomes of it is up to the future that calls the handler. The
model takes the case in which the program goes on: the connection is `"stuck"`, reads no
more, and the response is left to the stall timer (`Fail`). A status keeps 16
bits (`WithStatusLine`).

### CircularBuffer

Elements are places: the storage is `0..capacity-1`, `first` and `size` say which
are elements, and `boost::circular_buffer` is `ArrayOne`, `ArrayTwo`, `Linear`,
`Grow`. `areas` is what the last call handed out to be written into.

Two things a reader of `buffer.h` should know, both visible in the model:

- `write_buffers` first makes the target part of the contents (line 104) and then
  computes what is free beyond it. The comment at 85 says the area it returns "will
  be reserved but inaccessible until write_complete is called"; the area reserved
  is the one made at 104, the area returned is another, is empty when the target is
  all there is room for, and what is written there is in no element. The run
  `buffer_reserved` finds `AreasReserved`, the words of the comment, violated.
  `AreasSafe` says what the code keeps to: whoever writes into the areas of a call
  damages neither the storage nor anything the buffer held before that call, even
  where the call moved it. `linear_writable` returns what it reserved.
- `write_complete` subtracts from a copy (line 207). `PendingCovered` says what
  still holds after a write has been completed in parts.

`erase_begin(n)` does not look at `n` (line 190); `EraseBegin` is a caller's that goes by
`readable()`. Nothing in the repository calls it. `PendingAreElements` rests on that.

The constructor does not compile at this commit (a `shared_ptr` initialises a
`unique_ptr`); the class is modelled from its text. A write whose code completes it
before it returns would meet the assertion at 201 and is left out.

### Tcp

`tcp.h` does not compile either: `async_write` is no member of a socket and
`mutex_`, `sending_`, `conn_`, `incoming_`, `write_error` are declared nowhere. They
are taken for what their use says: `async_write` writes all of a string, as the
function of that name does.

`Push`, `Check` and `Clear` are the critical sections of `write` and
`check_outgoing`; `StartWrite` is the call of `async_write` after the lock is
released, so that any other thread may come in between. `pc` and `hand` say where a
thread is; a thread may be a caller and run handlers (`Callers`, `Workers` may
overlap). `ReadSome` is the handler of a read with all its calls of `parse`.

| Code | Actions |
|---|---|
| `client::connect` | `Connect`, `Resolved`, `Connected` |
| `server::listen` | `Listen`, `ListenResolved` (`threw`: the acceptor throws in the handler, where nothing catches it) |
| `server::accept` | `Accepted`, `AcceptError` |
| `stream::write`, `check_outgoing` | `Push`, `Check`, `StartWrite`, `WriteDone`, `Clear` |
| `stream::read_handler` | `StartReading` (the owner of a stream calls it; `connect` does not), `ReadSome`, `ReadError` |

The test at 286 is inverted (a connection is kept if accepting it failed) and is
modelled as it is: `Accepted` lets the connection go, which breaks the stream of the
client, `AcceptError` keeps a socket connected to nobody. A write error leaves
`sending_` set, so nothing is written after it, and nobody is told of the strings in
the queue. `failed` has the strings `write_error` was called for. `StreamProgress` is what
is true: all is written up to a string that failed. `EveryWriteTold`, what the comment
on `write()` promises, is violated even where no connection breaks on its way
(`MayLose = FALSE`), because a server closes what it accepts.

## Runs

| Run | Shows |
|---|---|
| `pool` | `Accounting`, `AvailableIdle`, `QueueMoves` and the inductive invariant `IndInv` of the pool, with changing limits |
| `client_tcp` | over TCP with all faults: `ParsingHasResponse`, `Watched`, `IdleIsAvailable`, `WithinLimit`, `WaitersOnlyWhenFull`, `NothingDisplaced` |
| `client_tls` | over TLS with one retry per request, all faults but unsolicited data: `Watched`, `Attended`, `CompletedOnce`, `NothingDisplaced`, `NoOvertaking` |
| `client_live` | `EveryRequestCompletes` and `IdleConnectionsTimeOut` while connecting succeeds and bodies have a length; `NoNullResponse` while answers are not early |
| `client_no_connect` | violated: a request whose connection cannot be established waits for ever |
| `client_early` | violated: a write failing after the answer uses a null `res_` |
| `amqp` | with short writes and lost connections: `OneWriteAtATime`, `SentInOrder`, `ParsedOnce`, `NothingStranded`, and in the end `EverythingWritten` and `ErrorReported` |
| `exchange` | `UriUnderstood`, `ParamUnderstood`, `RequestHeard`, `LengthAnnounced`, `OwnPool`, `AnswerRead`, and in the end `EveryAnswerRead` |
| `buffer` | `AreasSafe`, `PendingCovered`, `PendingAreElements` |
| `buffer_reserved` | violated: the areas of `write_buffers` are not the ones it reserves (`AreasReserved`) |
| `tcp` | `OneWriteAtATime`, `SentInOrder`, `StreamProgress` |
| `tcp_write` | violated: a string given to `write` after an error is told to nobody (`EveryWriteTold`), and an accepted connection is closed |

Bounds, all named constants: `MaxConn` connection objects ever made (an action
that needs one more is disabled, which cuts behaviours short and hides none of
their prefixes), `MaxWaiting` requests in `next_`, `MaxRetry`, `MaxMore` header
lines or chunks, requests per instance. Two requests and a limit of 1 give a
queue, a connection handed over, one closed with a waiter and reconnected, and one
that comes up with the queue empty again; three connections in all allow a loss on
top of that. A request may be made when the io thread is free and from a callback of
another one's completion (`UserRequest`). In `client_tcp` there are no retries, so a request
made again from a completion handler is that of the caller; `client_tls` has one retry for
each request. `pool` has two slots, so that an entry other than the closing
connection's can be erased. In `client_live` two requests without retries need at
most two connections each, so `MaxConn = 4` never gets in the way. Requests are
symmetric; symmetry is not used for liveness nor for the violations. Deadlock is
not checked: when all requests are done and connections closed nothing is left to
do.

`AmqpConnection`: `MaxGiven` calls of `onData` and `MaxArrived` bytes read. Four
calls give a write, data queued behind it, a second write of several calls cut
short, and data behind that; four bytes and frames of two give reads that end
within a frame and reads of several frames. The theorems do not depend on either.
A connection with nothing to send and a silent server stops, so deadlock is not
checked here either. The run leaves out exchanges that fail spuriously, with which
`NothingStranded` is false; the theorems about writing have them.

`HttpExchange`: `Work` lists what each of two requests may be. The first has every
combination of scheme (known, and in capitals), user, port (none, default, another,
too large), path, query and fragment, with the characters that could be taken for
a separator; or a parameter with each kind of character; or up to three calls of
setters in any order; or an answer of each kind, body and last header, to GET and
HEAD, cut up anywhere, with one retry, among them a status that is no number or has more
than 16 bits, a header line without a colon and a value to be trimmed. The second goes to the same pool, to that of
the other scheme or of another host, over the connection the first one left.
Answers are cut up only where that is the question (`parts`). Deadlock is not
checked: after the second request nothing is left to do.

`CircularBuffer`: four places that may grow to five have every relation of the
beginning, the end and the edge of the storage; three writes waiting let a
completion end within the first, at its end, and within a later one. The invariants
do not depend on it. Something can always be done:
deadlock is checked.

`Tcp`: two threads write and two run handlers, one of them both; three strings give
one on its way, one in the queue and one being pushed; two messages, the first of
two bytes, give reads that end within a message and reads of two. One client is enough:
the stream is that of one, and the server closes it like any other. `MCTcpWrite.cfg`
has one thread of each kind and two strings, which show the violation. A stream that is
lost and reported stops, so deadlock is not checked.

Fairness (`Fairness` in `HttpClient`): the io thread runs the calls of a handler
(`Call`) and queued timer handlers; resolving and connecting end (TCP gives up in
the end); a handshake, a read or a write need not end unless the socket is closed,
when asio completes it with an error; a pending timer expires unless it is
extended for ever. A server need not answer: that every request still ends is the
stall timer's doing.

`FairSpec` in `AmqpConnection`: `connect()` and `setup()` go on, the strand runs
what is posted to it, an outstanding write ends (the peer reads while the
connection holds; asio fails the write when it is broken), and an outstanding read
on a broken connection fails. The server need not send and the library need not
call `onData`.

`FairSpec` in `Tcp`: threads leave their critical sections and call what they are
about to call, an outstanding write or a read on a lost connection ends, bytes that
have arrived are read, and a client in the backlog is accepted. Nobody need write
or connect, no connection need break, and the owner of a stream need not have it read.
`HttpExchange`: the server hears and answers, and what it sends arrives
and is read; a connection may be lost at any time.

## Proofs

`ConnectionPool_proofs`, from `PoolConstants` only (any number of connections,
requests and waiters, any limits):

- `IndInv` is inductive for `Spec`. `Accounting` alone is not: that a connection in
  `available_` is idle needs that only connections that are up are handed out
  (`OnlyReadyInUse`), or one that comes up might be parked twice; that waiters have
  a connection needs the queue to be backed by an entry of `connections_`
  (`QueueInv`), which `Accounting` turns into an open connection. One lemma for
  each operation; `RemoveInv` is the longest, with `RemoveAtProperties` for the
  vector and `LiveShrinks`, `LiveReplaced` for the open connections.
- `TypeCorrect`, `SlotsAccounted`, `NeverHandedTwice`, `WaitersHaveAServer` follow.
- `FixedInv` adds, for `FixedSpec`, that entries stay within the limit and waiters
  exist only next to a full limit; `LimitHolds`, `NoMissedWakeup` and the action
  property `FirstComeFirstServed` follow.

`HttpClient_proofs`: the theorems of the pool are carried over by instantiating its
proofs (`PoolProofs`; `SameSpec` says the two instances are one): `ClientLimitHolds`,
`ClientNoMissedWakeup`, `ClientFirstComeFirstServed`. What they need is the lemma
`ClientPool`, that every step of the client is a step of `Pool!FixedSpec` or leaves the pool
alone. As the client is composed of the actions of the pool the lemma follows from how it
is written, and shows nothing about the code by itself.

What is proved of the pool then helps the client. `PoolFacts` (types, only
connections that are up in use, only idle ones parked) is carried over and used
before and after every step. `ClientInv` is inductive next to it: parsers have a
response, open connections are watched, idle ones are parked, and what was told is
final. One lemma says what a call of the running handler may do to the connections
(`CallEffect`), others what a handler of `c` does to `c` and that it leaves every other
connection alone (`EventAlone`, `EventParses`, `EventWatched`, `EventIdle`). A waiting
`close()` matters: the timer's handler stops the timer before `close()` has run, and
`Watched` holds in between because that call stays queued behind whatever is retried
first (`OtherCallsStay`). `ClientTypeCorrect`, `ParsersHaveAResponse`, `NothingHangs`,
`NoSlotLeaks`, `OutcomeFinal` and `ResponsesKept` follow, whatever `Faults` holds.
`NobodyForgotten` (`Attended`) assumes that bodies have a length. `AttInv` is inductive: it
adds that an open connection with a response reads, or is about to close and then to fail
it (`OpenReads`), that a parked one reads or closes next (`ParkedReads`), and that nothing
waits for a chunk (`LengthsOnly`). A handler of a connection that takes away
what would complete its response leaves something else that will, or is about to mark the
response done (`EventTells`); a call of it takes nothing away but a timer, in `close()`, which
the read outlives (`TellsStays`).
`NullOnlyWhenEarly` adds to it that a write is outstanding only on a connection that
has a response, where no answer comes early or unasked.

`AmqpConnection_proofs`, from `AmqpConstants` only: `WriteInv` is inductive. Its
parts are written over the variables of the writing side as parameters (`One`,
`Ordered`, together `StrandInv`), so that one lemma says what posting a function
to the strand does and one what running it does, whichever function it is.
`OneWriteAtATime` is inductive next to the types. `SentInOrder` is not: what has
been sent, what is on the wire, what a posted write holds, `outgoing_` and the data
still posted must together be rising and within `1..given` (`Ordered`), and a
write must not be posted while another is on the wire, which is `One`.
`TypeCorrect`, `WritesDoNotOverlap` and `OrderKept` follow. `NoneStranded` assumes
that exchanges do not fail spuriously; with such failures its statement is false.

For the reading side `ReadInv` says that at most one function
that reads is posted or one read outstanding, never two and none before the
connection is ready, that the bytes in `incoming_`, those parsed and those such a
function carries are together what arrived (`Counted`), and that what is parsed is
a multiple of `FrameSize`. `ParsedOnce` itself counts bytes only; without the rule of one
reader a second one could carry bytes that are counted nowhere. The functions of
the writing side leave it alone (`WritersKeep`). `EachByteParsedOnce` follows.

`HttpMessage_proofs`, for every alphabet (`CapitalIsBijective`: each letter has one
capital, which is no small letter): two names have one normal form just when they
differ in case alone (`NormaliseForgetsCase`), from which `FoundByAnySpelling` and
`NormaliseOnce` follow; what `set_header` sets is read under any spelling and nothing
else changes; and `BodyAnnouncesItsLength`, which is why `LengthAnnounced` holds. The
first match among headers is a least element of a set of numbers, which
`LeastAndInduction` gets from the well-founded order of the naturals. `HeadersHeard` is
about `bytes()` and `parse_data()`: as neither the initial line nor a header has a
`\r` in it (`Printable`), the end of each line is the first after its beginning, by
induction over the lines, and a header's first `:` is the one after its name, so
that both are found again, whatever follows. `OnlyAsciiSurvives` is about `uri::encoded`
and the decoding of it: a text is the pieces of its characters one after the other, the
decoder takes one piece at a time, and a piece is decoded to its character just when that
is ASCII.

`HttpExchange_proofs` is about texts of any length over any set of characters.
`At(s, o, x)` says that `x` lies in `s` after its first `o` characters: `WrittenParts` finds
the parts of a URI where its writer put them, `Shape` says what a text must be like at
four places for the expression to end its port, path and query there (`EndsAre`), and
`HostEndsAt` and `HostBeginsAt` show that the longest match is that one: the first looks
at every other place where a host might end, the second at what else might pass for a
user. Together `ParseWritten`: a plain URI is taken apart into what it was made of.
`StringUnderstood` brings what `string()` prints back to it: that is `Written` of the URI
without its user and its fragment, the port as it is printed (`PlainAnyNumeral`: another
numeral of the same port makes no other URI of it). `ExchangeInv` is inductive for the
specification: from the writing of the URI to the end of the request the client's URI has
the scheme, host and port that were asked for, if it was plain, and in any case a host and
a port that can be printed; what has been sent went to the pool of that URI. `UriUnderstood`
and `OwnPool` alone are not inductive: a retry goes to `conn` without a look at the URI,
and that two names of pools are the same only if the endpoints are (`KeyTells`) needs the
ports in `sentTo` to have numerals. `UriAlwaysUnderstood` and `EveryEndpointItsPool` follow.

What a server hears rests on a second invariant, `ServerInv`, inductive relative to
`ExchangeInv`. It follows the text through the request: what is added to a query is made
of `QuerySet`, without spaces or line ends (`UriPart`); the request has the method, path
and headers that were asked for, headers that can be printed, and, after a call of `body()`
that no later setter undoes, the length of its body in the header that is looked up, the
host in `Host` unless it was set (`ReqPart`, `HeadersPart`: each setter has its lemma
over `SetHeaderKeepsOthers` and its like); and what is heard is what was printed
(`HeardPart`, by `HeadersHeard`). `RequestHeard` and `LengthAnnounced` speak of the server
only and say nothing of how the request came about, so neither is inductive.
`EveryRequestHeard`, `LengthAlwaysAnnounced` and `ParamAlwaysUnderstood` follow.

The reading of an answer has a third, `AnswerInv`, inductive relative to those two.
`AnswerRead` speaks of the end only; while an answer is read, what is in `in_` and
what the server has sent and not yet arrived are together (`in \o net`) always the rest of
the answer that the phase expects, and the response has what came before it
(`ReadingPart`, `Coming`: from the `k`-th header line on, from the `k`-th chunk or its size
on, the body, or the empty line at the end). So it does not matter how the answer is cut up:
`Receive` moves its bytes from one part to the other (`PartReceived`). To read a line is to
take it off the beginning of this rest, even where it ends in a `\r` whose `\n`
has not come yet (`LineTaken`); a chunk or a body may have line ends of its own
and is taken by its length (`RestIsLeft`). `JoinedOneByOne` gives the rest after the
`k`-th of the texts that were joined, `HeadersTell` what the headers say of the body whatever else
is among them, and `BodyRead` that `message::body()`, which sets the length again, sets
the one that was told. Between requests a connection that is kept holds nothing
(`DrainedPart`), and a response that is used again has been reset (`FreshPart`): that is
where an earlier answer or attempt would show. That the parsers do not throw comes from
`Readable`, which asks the server for a status of 16 bits and for names of headers: `FirstIs`
finds the two spaces and the number in the first line, `AnswerLinesAre` the colons.
`EveryAnswerIsRead` follows.

Assumed are `CharactersCoded`, `PortsCanBeWritten` and `CharactersOfUris` (numerals exist for
the ports in use, are single characters other than `:` and `@`, and are characters of URIs,
which white space is not); `SeparatorsCoded` and `LettersOfNames` (the characters
with a meaning have their ASCII codes, and are no letters); and `WorkWellFormed`: a caller's
parts come from the syntax of URIs, so that a host, say, has no `/` in it, and what it
sets as a header is one line whose name has no `:` and whose value neither begins nor ends
with white space. The code checks none of this: a caller that sets a value with a line
end in it sends other headers than it set. For the answers `AnswersWellFormed` says
the same of a server that keeps to HTTP: its header lines are not empty, have no line end and
leave the length of the body to the line that is added for it (`AnswerLines`), no chunk
but the last is empty, and lengths have numerals, zero that of the last chunk. Bodies may be
anything, line ends included. Other answers, those that are not `Readable`, may come too:
they make `clean` false for that connection.

`CircularBuffer_proofs`, from `Capacities`: `Placed` (elements fit the storage, waiting
bytes are elements) is inductive, and gives `ReadableNeverNegative`. `AreasSafe`
needs nothing else: `AreasAlwaysSafe` computes, for each call, the places of the
areas it hands out and of the elements before and after it, in the two cases of contents
in one part or two.
`PendingAlwaysCovered` is about sums of sequences (`Total`). Sums up to a place exist and
are unique by induction (`InductionOnNat`), from which follow what appending adds
(`TotalOfAppend`), what the two ends of a sequence sum to (`TotalOfParts`) and that
`write_complete` takes as many writes as its bytes pay for and no more (`WritesDoneBound`).
`TypeCorrect` needs the places to stay within the capacity (`Bounded`).

`Tcp_proofs`: `StreamInv` is inductive for any threads, which may be callers and
workers at once, and any number of writes. `SentInOrder` alone is not: while
`sending_` is set the next string is in exactly one place, the hand of one thread,
the one outstanding write, or `sent` with its handler about to clear the flag;
after an error it is nowhere and the flag stays. `WritesOneAtATime` and
`WritesInOrder` follow.

Model-checked only: liveness (`EveryRequestCompletes`, `IdleConnectionsTimeOut`,
`EverythingWritten`, `ErrorReported`, `EveryAnswerRead`, `StreamProgress`). TLAPS reaches neither fairness nor the induction theorems of its
library, which have an operator as a parameter; where a proof goes by induction
(`InductionOnNat`), it is over the members of a set. Every invariant and every action
property that a passing run checks is a theorem.

## Where code and comments disagree

Five, on four runs that find a property violated: see the table above and `findings` in
`PROJECT.json`. What else the models show and no run is spent on is described with their
modules: the reads of a chunked body without an `on_fail`, entries of `connections_` erased
for another, and writes of the buffer completed in parts.

## Not modelled

- `statsd.h`: independent datagrams, no state but the resolved endpoint.
- `source.h`, `sink.h`, `stream.h`, `protocol/http.h`: interfaces. The delimiter stream
  of `test/streams.cpp` is the only implementation, and a test.
- `http/tls_connection.h`: replaced by `connection/tls.h`, included by nothing.
- Several io threads in the HTTP client: the mutex of the pool, and `remove()`
  calling `connect()` and `on_done` while it holds it.
- The move constructors of requests and responses, which drop fields (`uri_` of a
  request, `request_` of a response) and signal handlers; `content_type()`,
  `authorisation()`, and lengths that are no numbers.
- The socket TLS keeps open in `async_shutdown`.
- `amqp/connection_details.h`, and channels once they are made.
- Programs and tests, among them the copy of older HTTP classes in `httptest.cpp`.
