--------------------------- MODULE AmqpConnection ---------------------------
(***************************************************************************)
(* An AMQP connection (net::amqp::connection), from client::connect on.    *)
(* What the AMQP library hands to onData goes through outgoing_ to the     *)
(* socket, one async_write_some at a time; what is read goes through       *)
(* incoming_ to the parser.                                                *)
(*                                                                         *)
(* Several threads may run the io_service. Everything but setup() and the  *)
(* completion handlers of the socket is posted to strand_, which runs one  *)
(* function at a time, in the order in which they were posted.             *)
(*                                                                         *)
(* What the library hands over in one call of onData is written as its     *)
(* serial number. A short write ends between two of these, or within the   *)
(* next one, which is then as good as lost.                                *)
(***************************************************************************)
EXTENDS Naturals, Sequences

CONSTANTS
  MaxGiven,     \* bound: calls of onData
  MaxArrived,   \* bound: bytes the server sends
  FrameSize,    \* bytes of a frame the parser accepts
  Faults        \* what may go wrong, a subset of AllFaults

AllFaults == {"connect",    \* resolving or connecting may fail
              "short",      \* async_write_some writes a part of its buffer
              "broken",     \* the connection may break
              "spurious"}   \* compare_exchange_weak fails with writing_ false

ASSUME AmqpConstants ==
  /\ MaxGiven \in Nat
  /\ MaxArrived \in Nat
  /\ FrameSize \in Nat \ {0}
  /\ Faults \subseteq AllFaults

VARIABLES
  stage,      \* how far client::connect and setup() are
  given,      \* number of calls of onData so far
  strand,     \* strand_: the functions posted, in the order they will run
  outgoing,   \* outgoing_
  writing,    \* writing_
  wire,       \* the buffers of the async_write_some outstanding
  sent,       \* what the socket has taken
  reading,    \* whether an async_read_some is outstanding
  arrived,    \* bytes read from the socket
  incoming,   \* size of incoming_
  parsed,     \* bytes the parser has taken
  open,       \* whether the connection is unbroken
  reported    \* whether connection_error has been signalled

writeVars == <<given, outgoing, writing, wire, sent>>
readVars == <<reading, arrived, incoming, parsed>>
vars == <<stage, strand, writeVars, readVars, open, reported>>

Init ==
  /\ stage = "resolve"
  /\ given = 0
  /\ strand = <<>>
  /\ outgoing = <<>>
  /\ writing = FALSE
  /\ wire = <<>>
  /\ sent = <<>>
  /\ reading = FALSE
  /\ arrived = 0
  /\ incoming = 0
  /\ parsed = 0
  /\ open = TRUE
  /\ reported = FALSE

-----------------------------------------------------------------------------
(* Each definition whose name ends in Mutant is the one after it with a    *)
(* plausible slip; the checks make sure that a property notices it.        *)

(* A function posted to the strand, with the data or the length it holds.  *)
Task(op, buf, n) == [op |-> op, buf |-> buf, n |-> n]

(* The function in front of those posted runs.                             *)
Running(op) == strand # <<>> /\ Head(strand).op = op

(* What writing_.compare_exchange_weak(false, true) may answer.            *)
ExchangeAlwaysMutant(w) == {TRUE}
Exchange(w) == {~w} \cup (IF "spurious" \in Faults THEN {FALSE} ELSE {})

(* write_handler() with writing_ = w and outgoing_ = out; before and after *)
(* are what is posted to the strand already, and what will be next.        *)
WriteHandler(w, out, before, after) ==
  \E ours \in Exchange(w) :
    \/ /\ ~ (ours /\ out # <<>>)
       /\ writing' = w
       /\ outgoing' = out
       /\ strand' = before \o after
    \/ /\ ours /\ out # <<>>
       /\ writing' = TRUE
       /\ outgoing' = <<>>
       /\ strand' = Append(before, Task("start", out, 0)) \o after

-----------------------------------------------------------------------------
(* client::connect: resolve, connect, and a connection that is set up.     *)
Resolved ==
  /\ stage = "resolve"
  /\ stage' = "connect"
  /\ UNCHANGED <<strand, writeVars, readVars, open, reported>>

ConnectFails ==
  /\ stage \in {"resolve", "connect"}
  /\ "connect" \in Faults
  /\ stage' = "failed"
  /\ UNCHANGED <<strand, writeVars, readVars, open, reported>>

(* setup(): active_ is set and the library made, which calls onData with   *)
(* the protocol header at once ...                                         *)
Construct ==
  /\ stage = "connect"
  /\ stage' = "constructed"
  /\ given' = 1
  /\ strand' = Append(strand, Task("data", <<1>>, 0))
  /\ UNCHANGED <<outgoing, writing, wire, sent, readVars, open, reported>>

(* ... then outgoing_ is written, if another thread has run that already,  *)
(* reading starts, and the future of connect() is done.                    *)
Begin ==
  /\ stage = "constructed"
  /\ stage' = "ready"
  /\ LET read == <<Task("read", <<>>, 0)>>
     IN \/ /\ outgoing = <<>>
           /\ strand' = strand \o read
           /\ UNCHANGED <<outgoing, writing>>
        \/ /\ outgoing # <<>>
           /\ WriteHandler(writing, outgoing, strand, read)
  /\ UNCHANGED <<given, wire, sent, readVars, open, reported>>

(* onData(): the library has more to send, for a user of the channel or in *)
(* answer to what it parses.                                               *)
OnData ==
  /\ stage = "ready"
  /\ given < MaxGiven
  /\ given' = given + 1
  /\ strand' = Append(strand, Task("data", <<given + 1>>, 0))
  /\ UNCHANGED <<stage, outgoing, writing, wire, sent, readVars, open, reported>>

RunDataFrontMutant ==
  /\ Running("data")
  /\ WriteHandler(writing, Head(strand).buf \o outgoing, Tail(strand), <<>>)
  /\ UNCHANGED <<stage, given, wire, sent, readVars, open, reported>>

(* The function posted by onData: insert, and write_handler().             *)
RunData ==
  /\ Running("data")
  /\ WriteHandler(writing, outgoing \o Head(strand).buf, Tail(strand), <<>>)
  /\ UNCHANGED <<stage, given, wire, sent, readVars, open, reported>>

(* The function posted by write_handler(): async_write_some.               *)
RunStart ==
  /\ Running("start")
  /\ wire' = Append(wire, Head(strand).buf)
  /\ strand' = Tail(strand)
  /\ UNCHANGED <<stage, given, outgoing, writing, sent, readVars, open, reported>>

(* The socket has taken data, and the completion handler posts.            *)
WriteSome(n) ==
  /\ wire # <<>>
  /\ open
  /\ n \in 0..Len(Head(wire))
  /\ n < Len(Head(wire)) => "short" \in Faults
  /\ sent' = sent \o SubSeq(Head(wire), 1, n)
  /\ wire' = Tail(wire)
  /\ strand' = Append(strand, Task("written", <<>>, n))
  /\ UNCHANGED <<stage, given, outgoing, writing, readVars, open, reported>>

WriteFails ==
  /\ wire # <<>>
  /\ ~open
  /\ wire' = Tail(wire)
  /\ strand' = Append(strand, Task("failed", <<>>, 0))
  /\ UNCHANGED <<stage, given, outgoing, writing, sent, readVars, open, reported>>

RunWrittenIdleMutant ==
  /\ Running("written")
  /\ writing' = FALSE
  /\ strand' = Tail(strand)
  /\ UNCHANGED <<stage, given, outgoing, wire, sent, readVars, open, reported>>

(* What it posts: writing_ = false, and more is written.                   *)
RunWritten ==
  /\ Running("written")
  /\ WriteHandler(FALSE, outgoing, Tail(strand), <<>>)
  /\ UNCHANGED <<stage, given, wire, sent, readVars, open, reported>>

(* Or connection_error: what is in outgoing_ stays there.                  *)
RunFailed ==
  /\ Running("failed")
  /\ writing' = FALSE
  /\ reported' = TRUE
  /\ strand' = Tail(strand)
  /\ UNCHANGED <<stage, given, outgoing, wire, sent, readVars, open>>

-----------------------------------------------------------------------------
(* read_handler(): async_read_some, from the strand.                       *)
RunRead ==
  /\ Running("read")
  /\ reading' = TRUE
  /\ strand' = Tail(strand)
  /\ UNCHANGED <<stage, writeVars, arrived, incoming, parsed, open, reported>>

ReadSome(n) ==
  /\ reading
  /\ open
  /\ n > 0 /\ arrived + n <= MaxArrived
  /\ reading' = FALSE
  /\ arrived' = arrived + n
  /\ strand' = Append(strand, Task("read_some", <<>>, n))
  /\ UNCHANGED <<stage, writeVars, incoming, parsed, open, reported>>

ReadFails ==
  /\ reading
  /\ ~open
  /\ reading' = FALSE
  /\ strand' = Append(strand, Task("lost", <<>>, 0))
  /\ UNCHANGED <<stage, writeVars, arrived, incoming, parsed, open, reported>>

(* What the parser takes of n bytes, called until it takes nothing.        *)
Parse(n) == n - (n % FrameSize)

(* The bytes are inserted, parsed and erased, and reading goes on.         *)
RunReadSomeForgetsMutant ==
  /\ Running("read_some")
  /\ LET available == incoming + Head(strand).n
     IN /\ parsed' = parsed + Parse(available)
        /\ incoming' = 0
  /\ strand' = Append(Tail(strand), Task("read", <<>>, 0))
  /\ UNCHANGED <<stage, writeVars, reading, arrived, open, reported>>

RunReadSomeLastMutant ==
  /\ Running("read_some")
  /\ LET available == incoming + Head(strand).n
     IN /\ parsed' = parsed + Parse(available)
        /\ incoming' = Head(strand).n - Parse(available)
  /\ strand' = Append(Tail(strand), Task("read", <<>>, 0))
  /\ UNCHANGED <<stage, writeVars, reading, arrived, open, reported>>

RunReadSome ==
  /\ Running("read_some")
  /\ LET available == incoming + Head(strand).n
     IN /\ parsed' = parsed + Parse(available)
        /\ incoming' = available - Parse(available)
  /\ strand' = Append(Tail(strand), Task("read", <<>>, 0))
  /\ UNCHANGED <<stage, writeVars, reading, arrived, open, reported>>

RunLostSilentMutant ==
  /\ Running("lost")
  /\ strand' = Tail(strand)
  /\ UNCHANGED <<stage, writeVars, readVars, open, reported>>

(* Or connection_error, and reading stops.                                 *)
RunLost ==
  /\ Running("lost")
  /\ reported' = TRUE
  /\ strand' = Tail(strand)
  /\ UNCHANGED <<stage, writeVars, readVars, open>>

(* The connection breaks.                                                  *)
Break ==
  /\ "broken" \in Faults
  /\ open /\ stage \in {"constructed", "ready"}
  /\ open' = FALSE
  /\ UNCHANGED <<stage, strand, writeVars, readVars, reported>>

-----------------------------------------------------------------------------
RunStrand ==
  \/ RunData
  \/ RunStart
  \/ RunWritten
  \/ RunFailed
  \/ RunRead
  \/ RunReadSome
  \/ RunLost

WriteEnds ==
  \/ \E n \in 0..MaxGiven : WriteSome(n)
  \/ WriteFails

Next ==
  \/ Resolved
  \/ ConnectFails
  \/ Construct
  \/ Begin
  \/ OnData
  \/ RunStrand
  \/ WriteEnds
  \/ \E n \in 1..MaxArrived : ReadSome(n)
  \/ ReadFails
  \/ Break

Spec == Init /\ [][Next]_vars

(* connect() goes on or fails, setup() goes on, the strand runs what is    *)
(* posted to it, the socket takes data while the connection holds, and     *)
(* fails what is outstanding when it is broken. The server need not send.  *)
FairSpec ==
  /\ Spec
  /\ WF_vars(Resolved \/ ConnectFails \/ Construct)
  /\ WF_vars(Begin)
  /\ WF_vars(RunStrand)
  /\ WF_vars(WriteEnds)
  /\ WF_vars(ReadFails)

-----------------------------------------------------------------------------
(* Properties.                                                             *)

Tasks == {"data", "start", "written", "failed", "read", "read_some", "lost"}

TypeOK ==
  /\ stage \in {"resolve", "connect", "failed", "constructed", "ready"}
  /\ given \in Nat
  /\ strand \in Seq([op : Tasks, buf : Seq(Nat), n : Nat])
  /\ outgoing \in Seq(Nat)
  /\ writing \in BOOLEAN
  /\ wire \in Seq(Seq(Nat))
  /\ sent \in Seq(Nat)
  /\ reading \in BOOLEAN
  /\ arrived \in Nat
  /\ incoming \in Nat
  /\ parsed \in Nat
  /\ open \in BOOLEAN
  /\ reported \in BOOLEAN

(* The functions of the strand that a write still has to go through.       *)
WriteTask(i) == strand[i].op \in {"start", "written", "failed"}

(* From write_handler() to the end of the completion handler there is one  *)
(* write and writing_ is true: two of them would mix their bytes up.       *)
OneWriteAtATime ==
  /\ Len(wire) <= 1
  /\ wire # <<>> => writing /\ \A i \in 1..Len(strand) : ~WriteTask(i)
  /\ \A i, j \in 1..Len(strand) : WriteTask(i) /\ WriteTask(j) => i = j
  /\ (\E i \in 1..Len(strand) : WriteTask(i)) => writing

(* What the socket takes is what the library handed over, in that order    *)
(* and at most once, whatever short writes, errors and failed exchanges    *)
(* leave out.                                                              *)
SentInOrder ==
  /\ \A i \in 1..Len(sent) : sent[i] \in 1..given
  /\ \A i, j \in 1..Len(sent) : i < j => sent[i] < sent[j]

(* Data is in outgoing_ only while a write is outstanding, whose handler   *)
(* will see to it, or after an error.                                      *)
NothingStranded == outgoing # <<>> => writing \/ reported

(* Every byte read is parsed once, in whole frames, or kept for the next.  *)
ParsedOnce ==
  \E n \in 0..MaxArrived :
    /\ parsed + incoming + n = arrived
    /\ parsed % FrameSize = 0
    /\ n > 0 => \E i \in 1..Len(strand) : strand[i].op = "read_some" /\ strand[i].n = n

(* What waits in outgoing_, or to be put there.                            *)
Waiting(k) ==
  \/ \E i \in 1..Len(outgoing) : outgoing[i] = k
  \/ \E i \in 1..Len(strand) : strand[i].op = "data" /\ strand[i].buf = <<k>>

(* All that is handed over reaches async_write_some in the end, while the  *)
(* connection holds, without waiting for more calls of onData.             *)
EverythingWritten == \A k \in 1..MaxGiven : Waiting(k) ~> (~Waiting(k) \/ ~open)

(* Whoever listens to connection_error hears of a broken connection.       *)
ErrorReported == ~open ~> reported
=============================================================================
