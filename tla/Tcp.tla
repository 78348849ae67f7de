-------------------------------- MODULE Tcp --------------------------------
(***************************************************************************)
(* Streams over TCP (net::asio::tcp): clients that connect, a server that  *)
(* accepts them, and one stream, that of Client, which any thread may      *)
(* write to and whose owner may have it read. Handlers run on any thread   *)
(* of the io_service.                                                      *)
(*                                                                         *)
(* The header does not compile at this commit: async_write is taken to     *)
(* write the whole of a string, as boost::asio::async_write does.          *)
(***************************************************************************)
EXTENDS Naturals, SequencesExt

CONSTANTS
  Clients, Client,   \* the clients, and the one whose stream is modelled
  Callers, Workers,  \* the threads that write, and those of the io_service
  Lengths,           \* the lengths of the messages the peer sends
  MayLose,           \* whether a connection may be lost on its way
  MaxWrites,         \* bound: writes
  MaxAcceptErrors    \* bound: accepts that fail

ASSUME ClientIsOne == Client \in Clients

ASSUME LengthsArePositive == Lengths \in Seq(Nat \ {0})

ASSUME MayLoseIsBoolean == MayLose \in BOOLEAN

VARIABLES
  clients,      \* how far each connect() is
  server,       \* how far listen() is
  backlog,      \* the clients that wait to be accepted
  accepting,    \* the number of outstanding async_accepts
  connections,  \* connections_: who is kept, "nobody" for a failed accept
  up,           \* whether the connection of the stream is there
  pc, hand,     \* where each thread is in write() or a handler, and its next
  outgoing,     \* outgoing_
  sending,      \* sending_
  writing,      \* the strings async_write has been called for
  sent,         \* the strings it has reported as written, in order
  given,        \* the number of strings write() was called with
  failed,       \* the strings write_error was called for
  reading,      \* whether an async_read_some is outstanding
  arrived,      \* the number of bytes the peer has sent, and the connection
  incoming,     \* not delivered; the size of incoming_
  parsed        \* the number of messages parse() has found

streamVars == <<pc, hand, outgoing, sending, writing, sent, given, failed>>
readVars == <<reading, arrived, incoming, parsed>>
netVars == <<clients, server, backlog, accepting, connections>>
vars == <<netVars, up, streamVars, readVars>>

Threads == Callers \cup Workers

Init ==
  /\ clients = [c \in Clients |-> "new"]
  /\ server = "new" /\ backlog = {} /\ accepting = 0 /\ connections = <<>>
  /\ up = FALSE
  /\ pc = [t \in Threads |-> "idle"] /\ hand = [t \in Threads |-> 0]
  /\ outgoing = <<>> /\ sending = FALSE /\ writing = {} /\ sent = <<>>
  /\ given = 0 /\ failed = {}
  /\ reading = FALSE /\ arrived = 0 /\ incoming = 0 /\ parsed = 0

(* Each definition whose name ends in Mutant is the one after it with a    *)
(* plausible slip; the checks make sure that a property notices it.        *)

-----------------------------------------------------------------------------
(* client::connect: resolve, then connect. What throws at once fails the   *)
(* future too.                                                             *)
Connect(c) ==
  /\ clients[c] = "new"
  /\ \E to \in {"resolving", "failed"} : clients' = [clients EXCEPT ![c] = to]
  /\ UNCHANGED <<server, backlog, accepting, connections, up, streamVars, readVars>>

Resolved(c) ==
  /\ clients[c] = "resolving"
  /\ \E to \in {"connecting", "failed"} : clients' = [clients EXCEPT ![c] = to]
  /\ UNCHANGED <<server, backlog, accepting, connections, up, streamVars, readVars>>

(* A connection to the server is there as soon as that listens, accepted   *)
(* or not; it may also be to another peer.                                 *)
Connected(c) ==
  /\ clients[c] = "connecting"
  /\ \/ /\ clients' = [clients EXCEPT ![c] = "done"]
        /\ \/ server = "listening" /\ backlog' = backlog \cup {c}
           \/ UNCHANGED backlog
        /\ up' = (up \/ c = Client)
     \/ /\ clients' = [clients EXCEPT ![c] = "failed"]
        /\ UNCHANGED <<backlog, up>>
  /\ UNCHANGED <<server, accepting, connections, streamVars, readVars>>

(* server::listen. The acceptor is set up in the handler of the resolver:  *)
(* what throws there is caught by nobody, and the future is left pending.  *)
Listen ==
  /\ server = "new"
  /\ server' \in {"resolving", "failed"}
  /\ UNCHANGED <<clients, backlog, accepting, connections, up, streamVars, readVars>>

ListenResolved ==
  /\ server = "resolving"
  /\ \/ server' \in {"failed", "threw"} /\ UNCHANGED accepting
     \/ server' = "listening" /\ accepting' = accepting + 1
  /\ UNCHANGED <<clients, backlog, connections, up, streamVars, readVars>>

(* accept() again, at the end of its handler.                              *)
AcceptAgain == accepting' = (accepting - 1) + 1

(* Without an error the socket is not kept: it is closed with the handler. *)
Accepted(c) ==
  /\ accepting > 0 /\ c \in backlog
  /\ backlog' = backlog \ {c}
  /\ up' = (up /\ c # Client)
  /\ AcceptAgain
  /\ UNCHANGED <<clients, server, connections, streamVars, readVars>>

(* With one it is, connected to nobody.                                    *)
AcceptError ==
  /\ accepting > 0 /\ Len(connections) < MaxAcceptErrors
  /\ connections' = Append(connections, "nobody")
  /\ AcceptAgain
  /\ UNCHANGED <<clients, server, backlog, up, streamVars, readVars>>

-----------------------------------------------------------------------------
(* stream::write(in): queue, then check_outgoing().                        *)
Push(t) ==
  /\ clients[Client] = "done" /\ pc[t] = "idle" /\ given < MaxWrites
  /\ given' = given + 1
  /\ outgoing' = Append(outgoing, given + 1)
  /\ pc' = [pc EXCEPT ![t] = "check"]
  /\ UNCHANGED <<netVars, up, hand, sending, writing, sent, failed, readVars>>

(* The critical section of check_outgoing().                               *)
MayTakeAlwaysMutant == outgoing # <<>>
MayTake == outgoing # <<>> /\ ~sending

Check(t) ==
  /\ pc[t] = "check"
  /\ IF MayTake
       THEN /\ sending' = TRUE
            /\ hand' = [hand EXCEPT ![t] = Head(outgoing)]
            /\ outgoing' = Tail(outgoing)
            /\ pc' = [pc EXCEPT ![t] = "start"]
       ELSE pc' = [pc EXCEPT ![t] = "idle"] /\ UNCHANGED <<sending, hand, outgoing>>
  /\ UNCHANGED <<netVars, up, writing, sent, given, failed, readVars>>

(* async_write, with the lock released.                                    *)
StartWrite(t) ==
  /\ pc[t] = "start"
  /\ writing' = writing \cup {hand[t]}
  /\ pc' = [pc EXCEPT ![t] = "idle"]
  /\ UNCHANGED <<netVars, up, hand, outgoing, sending, sent, given, failed, readVars>>

(* Its handler. What is written on a lost connection may be taken before   *)
(* the loss is noticed. An error leaves sending_ set.                      *)
WriteDone(t, m) ==
  /\ pc[t] = "idle" /\ m \in writing
  /\ writing' = writing \ {m}
  /\ \/ /\ sent' = Append(sent, m)
        /\ pc' = [pc EXCEPT ![t] = "clear"]
        /\ UNCHANGED failed
     \/ /\ ~up
        /\ failed' = failed \cup {m}
        /\ pc' = [pc EXCEPT ![t] = "check"]
        /\ UNCHANGED sent
  /\ UNCHANGED <<netVars, up, hand, outgoing, sending, given, readVars>>

(* Its critical section, before it calls check_outgoing().                 *)
ClearNotMutant(t) ==
  /\ pc[t] = "clear"
  /\ pc' = [pc EXCEPT ![t] = "check"]
  /\ UNCHANGED <<netVars, up, hand, outgoing, sending, writing, sent, given, failed, readVars>>

Clear(t) ==
  /\ pc[t] = "clear"
  /\ sending' = FALSE
  /\ pc' = [pc EXCEPT ![t] = "check"]
  /\ UNCHANGED <<netVars, up, hand, outgoing, writing, sent, given, failed, readVars>>

-----------------------------------------------------------------------------
(* The bytes of the first n messages.                                      *)
Bytes(n) == FoldLeft(LAMBDA a, b : a + b, 0, SubSeq(Lengths, 1, n))

Arrive ==
  /\ up /\ arrived + incoming + Bytes(parsed) < Bytes(Len(Lengths))
  /\ arrived' = arrived + 1
  /\ UNCHANGED <<netVars, up, streamVars, reading, incoming, parsed>>

(* The owner of the stream has it read: connect() does not.                *)
StartReading ==
  /\ clients[Client] = "done" /\ ~reading
  /\ reading' = TRUE
  /\ UNCHANGED <<netVars, up, streamVars, arrived, incoming, parsed>>

(* Its handler: parse() is called until it finds no whole message, what it *)
(* has used is erased, and the next read is started.                       *)
ParsedFrom(n, available) ==
  Max({k \in n..Len(Lengths) : Bytes(k) - Bytes(n) <= available})

ReadSome(len) ==
  /\ reading /\ len \in 1..arrived
  /\ arrived' = arrived - len
  /\ parsed' = ParsedFrom(parsed, incoming + len)
  /\ incoming' = incoming + len - (Bytes(parsed') - Bytes(parsed))
  /\ UNCHANGED <<netVars, up, streamVars, reading>>

(* connection_error, and no other read.                                    *)
ReadError ==
  /\ reading /\ ~up
  /\ reading' = FALSE
  /\ UNCHANGED <<netVars, up, streamVars, arrived, incoming, parsed>>

(* The connection is lost.                                                 *)
Lose ==
  /\ up /\ MayLose
  /\ up' = FALSE
  /\ UNCHANGED <<netVars, streamVars, readVars>>

-----------------------------------------------------------------------------
Thread(t) == Check(t) \/ StartWrite(t) \/ Clear(t)

Handlers == \E t \in Workers : \E m \in writing : WriteDone(t, m)

Reading == (\E len \in 1..arrived : ReadSome(len)) \/ ReadError

Next ==
  \/ \E c \in Clients : Connect(c) \/ Resolved(c) \/ Connected(c) \/ Accepted(c)
  \/ Listen
  \/ ListenResolved
  \/ AcceptError
  \/ \E t \in Callers : Push(t)
  \/ \E t \in Threads : Thread(t)
  \/ Handlers
  \/ Arrive
  \/ StartReading
  \/ Reading
  \/ Lose

(* Threads run, what is started ends, and waiting clients are accepted;    *)
(* nobody has to call anything, a peer may send as little as it likes, and *)
(* no connection has to be lost.                                           *)
Fairness ==
  /\ \A t \in Threads : WF_vars(Thread(t))
  /\ WF_vars(Handlers)
  /\ WF_vars(Reading)
  /\ \A c \in Clients : WF_vars(Accepted(c))

Spec == Init /\ [][Next]_vars

FairSpec == Spec /\ Fairness

-----------------------------------------------------------------------------
(* Properties.                                                             *)

(* At most one string is on its way, from the moment it is taken out of    *)
(* the queue: two at once would be mixed up in the connection.             *)
OneWriteAtATime ==
  /\ \A m, n \in writing : m = n
  /\ \A t \in Threads : pc[t] = "start" =>
       writing = {} /\ \A u \in Threads \ {t} : pc[u] # "start"

(* Strings are written in the order of the calls of write(), none is left  *)
(* out, and when none is on its way the others are all in the queue.       *)
SentInOrder ==
  /\ sent = [i \in 1..Len(sent) |-> i]
  /\ ~sending => outgoing = [i \in 1..given - Len(sent) |-> Len(sent) + i]

(* Every string is written, up to one whose failure was told; and a stream *)
(* that is read parses every whole message that has arrived, until it says *)
(* that the connection is gone: again and again nothing is left to do.     *)
StreamProgress ==
  /\ []<>(Len(sent) = given \/ Len(sent) + 1 \in failed)
  /\ []<>(reading => up /\ (parsed < Len(Lengths) => arrived + incoming < Lengths[parsed + 1]))

(* What tcp.h says of write(): its future resolves, whatever becomes of    *)
(* the connection. Here it is enough that the string is written or that    *)
(* write_error is called for it.                                           *)
EveryWriteTold ==
  \A n \in 1..MaxWrites : given >= n ~> n \in ToSet(sent) \cup failed
=============================================================================
